-------------------------- MODULE ProceduresProofs --------------------------
(***************************************************************************)
(* Proofs about Procedures: its types, and that runs and undos lead back   *)
(* to where they began.                                                    *)
(*                                                                         *)
(* The invariant is about two journals of an id: the one in the memory of  *)
(* a run or an undo, and the one on disk.  Each, replayed in reverse on    *)
(* the world as it is (Unwound), gives the world a run began in, on every  *)
(* path that is clean of what others wrote: RunUnwinds, UndoUnwinds and    *)
(* JournalSound.  A step of p moves p along its own journal, and disturbs  *)
(* every other operation and procedure on just the paths it writes, which  *)
(* their histories note (OthersFrame, OthersGoOn).  What a move takes and  *)
(* where it puts it (MoveFits, MoveFresh), what shows of a run that nobody *)
(* disturbed (RunShows, StaysDone) and of an undo (UndoKeeps) are the rest *)
(* of it.                                                                  *)
(*                                                                         *)
(* First the plans and journals as data, then the invariant, then a lemma  *)
(* for each kind of step (...Sound), the types (...Typed), the theorems.   *)
(***************************************************************************)
EXTENDS Procedures, SequenceTheorems, TLAPS

(* The edits of a plan that was made: no move stays where it is.           *)
Planned(edits) ==
    /\ edits \in Scripts
    /\ \A k \in 1..Len(edits) :
         edits[k].op = "move" => edits[k].path # edits[k].to

(* Replaying the journal j in reverse on the world w gives o, on every     *)
(* path that is clean of what was written meanwhile.                       *)
Unwound(edits, j, w, o, written) ==
    \A x \in Clean(edits, written) :
      /\ (\A k \in 1..Len(j) : x \notin EditPaths(edits[k])) => w[x] = o[x]
      /\ \A k \in 1..Len(j) :
           /\ edits[k].op = "put" /\ edits[k].path = x
                /\ (\A l \in 1..Len(j) : l < k => x \notin EditPaths(edits[l]))
                => j[k].was = o[x]
           /\ edits[k].op = "move" /\ edits[k].path = x
                => w[edits[k].to] \in {o[x], Absent}
           /\ edits[k].op = "move" /\ edits[k].to = x => o[x] = Absent

LEMMA PlannedEdit ==
  ASSUME NEW edits, Planned(edits)
  PROVE  /\ edits \in Seq(Edits) /\ Len(edits) \in Nat /\ Len(edits) > 0
         /\ \A k \in 1..Len(edits) :
              /\ edits[k] \in Edits
              /\ edits[k].path \in Paths
              /\ edits[k].op = "put" \/ edits[k].op = "move"
              /\ edits[k].op = "put" =>
                   /\ edits[k].text \in Contents
                   /\ EditPaths(edits[k]) = {edits[k].path}
              /\ edits[k].op = "move" =>
                   /\ edits[k].to \in Paths /\ edits[k].to # edits[k].path
                   /\ EditPaths(edits[k]) = {edits[k].path, edits[k].to}
  <1>1. edits \in Seq(Edits) /\ edits # <<>>
    BY ScriptsAssumption DEF Planned
  <1>2. Len(edits) \in Nat /\ Len(edits) > 0
    BY <1>1
  <1>3. ASSUME NEW k \in 1..Len(edits)
        PROVE  /\ edits[k] \in Edits
               /\ edits[k].op = "move" => edits[k].to # edits[k].path
    BY <1>1, <1>3 DEF Planned
  <1>4. ASSUME NEW e \in Edits
        PROVE  /\ e.path \in Paths
               /\ e.op = "put" \/ e.op = "move"
               /\ e.op = "put" => e.text \in Contents
               /\ e.op = "move" => e.to \in Paths
    BY DEF Edits, Contents
  <1> QED
    BY <1>1, <1>2, <1>3, <1>4 DEF EditPaths

(* Two edits of a plan that share a path are a move and what is put where  *)
(* it was.                                                                 *)
LEMMA TidyPair ==
  ASSUME NEW edits, Planned(edits),
         NEW k \in 1..Len(edits), NEW l \in 1..Len(edits), NEW x,
         x \in EditPaths(edits[k]), x \in EditPaths(edits[l]), k < l
  PROVE  /\ edits[k].op = "move" /\ edits[l].op = "put"
         /\ edits[k].path = x /\ edits[l].path = x
  <1>1. edits \in Scripts
    BY DEF Planned
  <1>2. EditPaths(edits[k]) \cap EditPaths(edits[l]) # {}
    OBVIOUS
  <1>3. /\ edits[k].op = "move" /\ edits[l].op = "put"
        /\ edits[l].path = edits[k].path
    BY <1>1, <1>2, TidyAssumption
  <1> QED
    BY <1>3 DEF EditPaths

LEMMA TidyApart ==
  ASSUME NEW edits, Planned(edits),
         NEW k \in 1..Len(edits), NEW l \in 1..Len(edits), k < l,
         edits[l].path # edits[k].path
  PROVE  \A x \in EditPaths(edits[k]) : x \notin EditPaths(edits[l])
  <1>1. EditPaths(edits[k]) \cap EditPaths(edits[l]) = {}
    BY TidyAssumption DEF Planned
  <1> QED
    BY <1>1

LEMMA TidyMove ==
  ASSUME NEW edits, Planned(edits),
         NEW k \in 1..Len(edits), NEW l \in 1..Len(edits), k # l, NEW x,
         x \in EditPaths(edits[k]), x \in EditPaths(edits[l]),
         edits[k].op = "move"
  PROVE  /\ k < l /\ edits[l].op = "put"
         /\ edits[k].path = x /\ edits[l].path = x
  <1>1. k < l \/ l < k
    BY PlannedEdit
  <1>2. CASE k < l
    BY <1>2, TidyPair
  <1>3. CASE l < k
    <2>1. edits[k].op = "put"
      BY <1>3, TidyPair
    <2> QED
      BY <2>1
  <1> QED
    BY <1>1, <1>2, <1>3

LEMMA CleanFacts ==
  ASSUME NEW edits, NEW written, NEW x \in Clean(edits, written)
  PROVE  /\ x \in Paths /\ x \notin written
         /\ \A k \in 1..Len(edits) : x \in EditPaths(edits[k]) =>
              EditPaths(edits[k]) \cap written = {}
  BY DEF Clean

LEMMA CleanSmaller ==
  ASSUME NEW edits, NEW small, NEW large, small \subseteq large
  PROVE  Clean(edits, large) \subseteq Clean(edits, small)
  BY DEF Clean

LEMMA NothingClean ==
  ASSUME NEW edits PROVE Clean(edits, Paths) = {}
  BY DEF Clean

LEMMA UnwoundNowhere ==
  ASSUME NEW edits, NEW j, NEW w, NEW o
  PROVE  Unwound(edits, j, w, o, Paths)
  BY NothingClean DEF Unwound

(* What others write makes their paths unclean, and is no matter to the    *)
(* rest.                                                                   *)
LEMMA UnwoundDisturbed ==
  ASSUME NEW edits, Planned(edits), NEW j \in Seq(Steps), Len(j) <= Len(edits),
         NEW w, NEW v, NEW o, NEW before, NEW after,
         Unwound(edits, j, w, o, before), before \subseteq after,
         \A x \in Paths : x \notin after => v[x] = w[x]
  PROVE  Unwound(edits, j, v, o, after)
  <1>1. Len(j) \in Nat /\ \A k \in 1..Len(j) : k \in 1..Len(edits)
    BY PlannedEdit
  <1> SUFFICES ASSUME NEW x \in Clean(edits, after)
      PROVE  /\ (\A k \in 1..Len(j) : x \notin EditPaths(edits[k]))
                   => v[x] = o[x]
             /\ \A k \in 1..Len(j) :
                  /\ edits[k].op = "put" /\ edits[k].path = x
                       /\ (\A l \in 1..Len(j) :
                             l < k => x \notin EditPaths(edits[l]))
                       => j[k].was = o[x]
                  /\ edits[k].op = "move" /\ edits[k].path = x
                       => v[edits[k].to] \in {o[x], Absent}
                  /\ edits[k].op = "move" /\ edits[k].to = x => o[x] = Absent
    BY DEF Unwound
  <1>2. x \in Clean(edits, before) /\ x \in Paths /\ v[x] = w[x]
    BY CleanSmaller, CleanFacts
  <1>3. ASSUME NEW k \in 1..Len(j), edits[k].op = "move", edits[k].path = x
        PROVE  v[edits[k].to] = w[edits[k].to]
    <2>1. k \in 1..Len(edits)
      BY <1>1
    <2>2. EditPaths(edits[k]) = {edits[k].path, edits[k].to} /\ edits[k].to \in Paths
      BY <1>3, <2>1, PlannedEdit
    <2>3. edits[k].to \notin after
      BY <1>3, <2>1, <2>2, CleanFacts
    <2> QED
      BY <2>2, <2>3
  <1> QED
    BY <1>2, <1>3 DEF Unwound

(* What is put on a path is no matter to its unwinding.                    *)
LEMMA UnwoundPut ==
  ASSUME NEW edits, Planned(edits), NEW j \in Seq(Steps), Len(j) <= Len(edits),
         NEW w, NEW v, NEW o, NEW written,
         Unwound(edits, j, w, o, written),
         NEW m \in 1..Len(j), edits[m].op = "put",
         \A x \in Paths : x # edits[m].path => v[x] = w[x]
  PROVE  Unwound(edits, j, v, o, written)
  <1>1. Len(j) \in Nat /\ \A k \in 1..Len(j) : k \in 1..Len(edits)
    BY PlannedEdit
  <1>2. edits[m].path \in EditPaths(edits[m])
    BY <1>1, PlannedEdit
  <1>3. ASSUME NEW x \in Clean(edits, written),
               \A k \in 1..Len(j) : x \notin EditPaths(edits[k])
        PROVE  v[x] = w[x]
    BY <1>2, <1>3, CleanFacts
  <1>4. ASSUME NEW k \in 1..Len(j), edits[k].op = "move"
        PROVE  v[edits[k].to] = w[edits[k].to]
    <2>1. /\ k \in 1..Len(edits) /\ m \in 1..Len(edits) /\ k # m
          /\ edits[k].to \in Paths /\ edits[k].to # edits[k].path
          /\ edits[k].to \in EditPaths(edits[k])
      BY <1>1, <1>4, PlannedEdit
    <2>2. edits[m].path # edits[k].to
      BY <1>2, <1>4, <2>1, TidyMove
    <2> QED
      BY <2>1, <2>2
  <1> QED
    BY <1>3, <1>4 DEF Unwound

(* A move of what is there from the start can be unwound.                  *)
LEMMA UnwoundMoved ==
  ASSUME NEW edits, Planned(edits), NEW j \in Seq(Steps), Len(j) <= Len(edits),
         NEW w, NEW v, NEW o, NEW written,
         Unwound(edits, j, w, o, written),
         NEW m \in 1..Len(j), edits[m].op = "move",
         edits[m].path \in Clean(edits, written)
           => w[edits[m].path] = o[edits[m].path],
         v[edits[m].to] = w[edits[m].path],
         \A x \in Paths : x \notin EditPaths(edits[m]) => v[x] = w[x]
  PROVE  Unwound(edits, j, v, o, written)
  <1>1. Len(j) \in Nat /\ \A k \in 1..Len(j) : k \in 1..Len(edits)
    BY PlannedEdit
  <1>2. ASSUME NEW x \in Clean(edits, written),
               \A k \in 1..Len(j) : x \notin EditPaths(edits[k])
        PROVE  v[x] = w[x]
    BY <1>2, CleanFacts
  <1>3. ASSUME NEW k \in 1..Len(j), edits[k].op = "move",
               edits[k].path \in Clean(edits, written)
        PROVE  v[edits[k].to] = w[edits[k].to]
                 \/ v[edits[k].to] = o[edits[k].path]
    <2>1. CASE k = m
      BY <1>3, <2>1
    <2>2. CASE k # m
      <3>1. /\ k \in 1..Len(edits) /\ m \in 1..Len(edits)
            /\ edits[k].to \in Paths
            /\ edits[k].to \in EditPaths(edits[k])
        BY <1>1, <1>3, PlannedEdit
      <3>2. edits[k].to \notin EditPaths(edits[m])
        BY <1>1, <1>3, <2>2, <3>1, TidyMove
      <3> QED
        BY <3>1, <3>2
    <2> QED
      BY <2>1, <2>2
  <1> QED
    BY <1>2, <1>3 DEF Unwound

(* So can what a move back leaves.                                         *)
LEMMA UnwoundMovedBack ==
  ASSUME NEW edits, Planned(edits), NEW j \in Seq(Steps), Len(j) <= Len(edits),
         NEW w, NEW v, NEW o, NEW written,
         Unwound(edits, j, w, o, written),
         NEW m \in 1..Len(j), edits[m].op = "move",
         v[edits[m].to] = Absent,
         \A x \in Paths : x \notin EditPaths(edits[m]) => v[x] = w[x]
  PROVE  Unwound(edits, j, v, o, written)
  <1>1. Len(j) \in Nat /\ \A k \in 1..Len(j) : k \in 1..Len(edits)
    BY PlannedEdit
  <1>2. ASSUME NEW x \in Clean(edits, written),
               \A k \in 1..Len(j) : x \notin EditPaths(edits[k])
        PROVE  v[x] = w[x]
    BY <1>2, CleanFacts
  <1>3. ASSUME NEW k \in 1..Len(j), edits[k].op = "move"
        PROVE  v[edits[k].to] = w[edits[k].to] \/ v[edits[k].to] = Absent
    <2>1. CASE k = m
      BY <1>3, <2>1
    <2>2. CASE k # m
      <3>1. /\ k \in 1..Len(edits) /\ m \in 1..Len(edits)
            /\ edits[k].to \in Paths
            /\ edits[k].to \in EditPaths(edits[k])
        BY <1>1, <1>3, PlannedEdit
      <3>2. edits[k].to \notin EditPaths(edits[m])
        BY <1>1, <1>3, <2>2, <3>1, TidyMove
      <3> QED
        BY <3>1, <3>2
    <2> QED
      BY <2>1, <2>2
  <1> QED
    BY <1>2, <1>3 DEF Unwound

LEMMA ButLast ==
  ASSUME NEW j \in Seq(Steps), j # <<>>
  PROVE  /\ Len(j) \in Nat /\ Len(j) > 0
         /\ SubSeq(j, 1, Len(j) - 1) \in Seq(Steps)
         /\ Len(SubSeq(j, 1, Len(j) - 1)) = Len(j) - 1
         /\ \A k \in 1..(Len(j) - 1) : SubSeq(j, 1, Len(j) - 1)[k] = j[k]
  <1>1. Len(j) \in Nat /\ Len(j) > 0
    OBVIOUS
  <1>2. /\ 1 \in Int /\ Len(j) - 1 \in Int
        /\ \A k \in 1..(Len(j) - 1) : j[k] \in Steps
    BY <1>1
  <1>3. SubSeq(j, 1, Len(j) - 1) \in Seq(Steps)
    BY <1>2, SubSeqProperties
  <1>4. Len(SubSeq(j, 1, Len(j) - 1)) = Len(j) - 1
    BY <1>1
  <1>5. \A k \in 1..(Len(j) - 1 - 1 + 1) :
            SubSeq(j, 1, Len(j) - 1)[k] = j[1 + k - 1]
    BY <1>2, SubSeqProperties
  <1>6. \A k \in 1..(Len(j) - 1) : SubSeq(j, 1, Len(j) - 1)[k] = j[k]
    BY <1>1, <1>5
  <1> QED
    BY <1>1, <1>3, <1>4, <1>6

(* The newest step is no longer needed once the world shows its inverse.   *)
LEMMA UnwoundPopped ==
  ASSUME NEW edits, Planned(edits), NEW j \in Seq(Steps), Len(j) <= Len(edits),
         NEW w, NEW o, NEW written,
         Unwound(edits, j, w, o, written), j # <<>>,
         edits[Len(j)].op = "put" /\ edits[Len(j)].path \notin written
           => w[edits[Len(j)].path] = j[Len(j)].was,
         edits[Len(j)].op = "move" =>
           /\ w[edits[Len(j)].to] = Absent
           /\ edits[Len(j)].path \in Clean(edits, written)
                => w[edits[Len(j)].path] = o[edits[Len(j)].path]
  PROVE  Unwound(edits, SubSeq(j, 1, Len(j) - 1), w, o, written)
  <1> DEFINE n == Len(j)
  <1> DEFINE r == SubSeq(j, 1, n - 1)
  <1>1. /\ n \in Nat /\ n > 0 /\ Len(r) = n - 1
        /\ \A k \in 1..(n - 1) : r[k] = j[k]
        /\ \A k \in 1..n : k \in 1..Len(edits)
    BY ButLast, PlannedEdit
  <1> HIDE DEF n, r
  <1>2. ASSUME NEW x \in Clean(edits, written),
               \A k \in 1..(n - 1) : x \notin EditPaths(edits[k])
        PROVE  w[x] = o[x]
    <2>1. CASE x \notin EditPaths(edits[n])
      BY <1>1, <1>2, <2>1 DEF Unwound, n
    <2>2. CASE x \in EditPaths(edits[n]) /\ edits[n].op = "put"
      <3>1. n \in 1..Len(edits)
        BY <1>1
      <3>2. edits[n].path = x
        BY <2>2, <3>1, PlannedEdit
      <3>3. x \notin written
        BY CleanFacts
      <3>4. j[n].was = o[x]
        BY <1>1, <1>2, <2>2, <3>2 DEF Unwound, n
      <3> QED
        BY <2>2, <3>2, <3>3, <3>4 DEF n
    <2>3. CASE x \in EditPaths(edits[n]) /\ edits[n].op = "move"
      <3>0. n \in 1..Len(edits)
        BY <1>1
      <3>i. EditPaths(edits[n]) = {edits[n].path, edits[n].to}
        BY <2>3, <3>0, PlannedEdit
      <3>1. edits[n].path = x \/ edits[n].to = x
        BY <2>3, <3>i
      <3>2. edits[n].to = x => o[x] = Absent
        BY <1>1, <2>3 DEF Unwound, n
      <3> QED
        BY <2>3, <3>1, <3>2 DEF n
    <2>4. edits[n].op = "put" \/ edits[n].op = "move"
      BY <1>1, PlannedEdit
    <2> QED
      BY <2>1, <2>2, <2>3, <2>4
  <1>3. ASSUME NEW x \in Clean(edits, written), NEW k \in 1..(n - 1)
        PROVE  /\ edits[k].op = "put" /\ edits[k].path = x
                    /\ (\A l \in 1..(n - 1) :
                          l < k => x \notin EditPaths(edits[l]))
                    => r[k].was = o[x]
               /\ edits[k].op = "move" /\ edits[k].path = x
                    => w[edits[k].to] \in {o[x], Absent}
               /\ edits[k].op = "move" /\ edits[k].to = x => o[x] = Absent
    <2>1. k \in 1..n /\ r[k] = j[k] /\ \A l \in 1..n : l < k => l \in 1..(n - 1)
      BY <1>1
    <2> QED
      BY <2>1 DEF Unwound, n
  <1> QED
    BY <1>1, <1>2, <1>3 DEF Unwound, n, r

(* What is about to be moved is still what was there.                      *)
LEMMA UnwoundSource ==
  ASSUME NEW edits, Planned(edits), NEW j \in Seq(Steps), Len(j) < Len(edits),
         NEW w, NEW o, NEW written, Unwound(edits, j, w, o, written),
         NEW e, e = edits[Len(j) + 1], e.op = "move",
         e.path \in Clean(edits, written)
  PROVE  w[e.path] = o[e.path]
  <1> DEFINE n == Len(j) + 1
  <1>1. /\ n \in 1..Len(edits)
        /\ \A k \in 1..Len(j) : k \in 1..Len(edits) /\ k < n
    BY PlannedEdit
  <1>2. e.path \in EditPaths(e)
    BY DEF EditPaths
  <1>3. ASSUME NEW k \in 1..Len(j), e.path \in EditPaths(edits[k])
        PROVE  FALSE
    <2>1. edits[n].op = "put"
      BY <1>1, <1>2, <1>3, TidyPair
    <2> QED
      BY <2>1
  <1> QED
    BY <1>3 DEF Unwound

(* A step captured from the world can be unwound.                          *)
LEMMA UnwoundCaptured ==
  ASSUME NEW edits, Planned(edits), NEW j \in Seq(Steps), Len(j) < Len(edits),
         NEW w, NEW o, NEW written, NEW s \in Steps,
         Unwound(edits, j, w, o, written),
         NEW e, e = edits[Len(j) + 1],
         e.op = "put" => s.was = w[e.path],
         e.op = "move" /\ e.to \notin written => w[e.to] = Absent
  PROVE  Unwound(edits, Append(j, s), w, o, written)
  <1> DEFINE n == Len(j) + 1
  <1> DEFINE r == Append(j, s)
  <1>1. /\ n \in Nat /\ n > 0 /\ n \in 1..Len(edits) /\ Len(r) = n
        /\ Len(j) = n - 1 /\ r[n] = s
        /\ \A k \in 1..(n - 1) : r[k] = j[k]
        /\ \A k \in 1..n : k \in 1..Len(edits)
    BY PlannedEdit
  <1>u. ASSUME NEW x \in Clean(edits, written),
               \A k \in 1..(n - 1) : x \notin EditPaths(edits[k])
        PROVE  w[x] = o[x]
    BY <1>1, <1>u DEF Unwound
  <1>m. ASSUME NEW x \in EditPaths(edits[n]), edits[n].op = "move"
        PROVE  \A k \in 1..(n - 1) : x \notin EditPaths(edits[k])
    <2> SUFFICES ASSUME NEW k \in 1..(n - 1), x \in EditPaths(edits[k])
        PROVE FALSE
      OBVIOUS
    <2>1. k \in 1..Len(edits) /\ k < n
      BY <1>1
    <2>2. edits[n].op = "put"
      BY <1>1, <2>1, TidyPair
    <2> QED
      BY <1>m, <2>2
  <1> HIDE DEF n, r
  <1>2. ASSUME NEW x \in Clean(edits, written)
        PROVE  /\ edits[n].op = "put" /\ edits[n].path = x
                    /\ (\A l \in 1..n : l < n => x \notin EditPaths(edits[l]))
                    => r[n].was = o[x]
               /\ edits[n].op = "move" /\ edits[n].path = x
                    => w[edits[n].to] = Absent /\ w[x] = o[x]
               /\ edits[n].op = "move" /\ edits[n].to = x => o[x] = Absent
    <2>1. CASE edits[n].op = "put" /\ edits[n].path = x
                 /\ (\A l \in 1..n : l < n => x \notin EditPaths(edits[l]))
      <3>1. w[x] = o[x]
        BY <1>1, <1>u, <2>1
      <3> QED
        BY <1>1, <2>1, <3>1 DEF n
    <2>2. CASE edits[n].op = "move" /\ x \in EditPaths(edits[n])
      <3>1. w[x] = o[x]
        BY <1>u, <1>m, <2>2
      <3>2. edits[n].to \in EditPaths(edits[n])
        BY <1>1, <2>2, PlannedEdit
      <3>3. edits[n].to \notin written
        BY <1>1, <2>2, <3>2, CleanFacts
      <3>4. w[edits[n].to] = Absent
        BY <2>2, <3>3 DEF n
      <3> QED
        BY <2>2, <3>1, <3>4
    <2>3. edits[n].op = "move" =>
            edits[n].path \in EditPaths(edits[n]) /\ edits[n].to \in EditPaths(edits[n])
      BY <1>1, PlannedEdit
    <2> QED
      BY <2>1, <2>2, <2>3
  <1>3. ASSUME NEW x \in Clean(edits, written), NEW k \in 1..(n - 1)
        PROVE  /\ edits[k].op = "put" /\ edits[k].path = x
                    /\ (\A l \in 1..n : l < k => x \notin EditPaths(edits[l]))
                    => r[k].was = o[x]
               /\ edits[k].op = "move" /\ edits[k].path = x
                    => w[edits[k].to] \in {o[x], Absent}
               /\ edits[k].op = "move" /\ edits[k].to = x => o[x] = Absent
    <2>1. k \in 1..Len(j) /\ r[k] = j[k] /\ \A l \in 1..Len(j) : l \in 1..n
      BY <1>1
    <2> QED
      BY <2>1 DEF Unwound
  <1>4. \A k \in 1..n : k = n \/ k \in 1..(n - 1)
    BY <1>1
  <1>5. ASSUME NEW x \in Clean(edits, written),
               \A k \in 1..n : x \notin EditPaths(edits[k])
        PROVE  w[x] = o[x]
    BY <1>1, <1>5, <1>u
  <1>6. Unwound(edits, r, w, o, written)
    BY <1>1, <1>2, <1>3, <1>4, <1>5 DEF Unwound
  <1> QED
    BY <1>6 DEF r

-----------------------------------------------------------------------------
(* What edits and their inverses do to the world.                          *)

LEMMA MadePut ==
  ASSUME NEW w \in [Paths -> Contents], NEW e, e.op = "put",
         e.path \in Paths, e.text \in Contents
  PROVE  /\ Made(w, e) \in [Paths -> Contents]
         /\ Made(w, e)[e.path] = e.text
         /\ \A x \in Paths : x # e.path => Made(w, e)[x] = w[x]
  BY DEF Made

LEMMA MadeMove ==
  ASSUME NEW w \in [Paths -> Contents], NEW e, e.op = "move",
         e.path \in Paths, e.to \in Paths, e.to # e.path
  PROVE  /\ Made(w, e) \in [Paths -> Contents]
         /\ Made(w, e)[e.path] = Absent /\ Made(w, e)[e.to] = w[e.path]
         /\ \A x \in Paths : x \notin {e.path, e.to} => Made(w, e)[x] = w[x]
  <1>1. e.op # "put" /\ Absent \in Contents
    BY DEF Contents
  <1> QED
    BY <1>1 DEF Made

LEMMA UnmadePut ==
  ASSUME NEW w \in [Paths -> Contents], NEW s, s.edit.op = "put",
         s.edit.path \in Paths, s.was \in Contents
  PROVE  /\ Unmade(w, s) \in [Paths -> Contents]
         /\ Unmade(w, s)[s.edit.path] = s.was
         /\ \A x \in Paths : x # s.edit.path => Unmade(w, s)[x] = w[x]
  BY DEF Unmade

LEMMA UnmadeMove ==
  ASSUME NEW w \in [Paths -> Contents], NEW s, s.edit.op = "move",
         s.edit.path \in Paths, s.edit.to \in Paths,
         s.edit.to # s.edit.path
  PROVE  /\ Unmade(w, s) \in [Paths -> Contents]
         /\ Unmade(w, s)[s.edit.to] = Absent
         /\ Unmade(w, s)[s.edit.path] = w[s.edit.to]
         /\ \A x \in Paths : x \notin {s.edit.path, s.edit.to} =>
              Unmade(w, s)[x] = w[x]
  <1>1. s.edit.op # "put" /\ Absent \in Contents
    BY DEF Contents
  <1> QED
    BY <1>1 DEF Unmade

LEMMA TornByFacts ==
  ASSUME NEW w \in [Paths -> Contents], NEW x \in Paths, NEW text,
         NEW v \in TornBy(w, x, text)
  PROVE  v \in [Paths -> Contents] /\ \A y \in Paths : y # x => v[y] = w[y]
  <1>1. Absent \in Contents /\ Torn \in Contents
    BY DEF Contents
  <1>2. v = w \/ v = [w EXCEPT ![x] = Absent] \/ v = [w EXCEPT ![x] = Torn]
    BY DEF TornBy
  <1> QED
    BY <1>1, <1>2

-----------------------------------------------------------------------------
(* What shows of a plan.                                                   *)

ShowsIn(w, e) == IF e.op = "put" THEN w[e.path] = e.text
                                 ELSE w[e.path] = Absent /\ w[e.to] # Absent

(* Of the first m edits the last one of each path shows.                   *)
Showing(w, edits, m) ==
    \A k \in 1..m :
       (\A l \in 1..m : k < l => edits[l].path # edits[k].path)
         => ShowsIn(w, edits[k])

(* What the first n edits put shows, but where others wrote.               *)
Kept(w, edits, n, written) ==
    \A k \in 1..n : edits[k].op = "put" /\ edits[k].path \notin written
                      => w[edits[k].path] = edits[k].text

LEMMA ShowsInSame ==
  ASSUME NEW edits, Planned(edits), NEW k \in 1..Len(edits), NEW w, NEW v,
         \A x \in Paths : x \in EditPaths(edits[k]) => v[x] = w[x],
         ShowsIn(w, edits[k])
  PROVE  ShowsIn(v, edits[k])
  <1>1. CASE edits[k].op = "put"
    BY <1>1, PlannedEdit DEF ShowsIn
  <1>2. CASE edits[k].op = "move"
    <2>1. /\ edits[k].path \in Paths /\ edits[k].to \in Paths
          /\ EditPaths(edits[k]) = {edits[k].path, edits[k].to}
      BY <1>2, PlannedEdit
    <2>2. edits[k].op # "put"
      BY <1>2
    <2> QED
      BY <2>1, <2>2 DEF ShowsIn
  <1> QED
    BY <1>1, <1>2, PlannedEdit

LEMMA ShowingSame ==
  ASSUME NEW edits, Planned(edits), NEW m \in Nat, m <= Len(edits),
         NEW w, NEW v, \A x \in TouchedBy(edits) : v[x] = w[x],
         Showing(w, edits, m)
  PROVE  Showing(v, edits, m)
  <1>1. \A k \in 1..m : k \in 1..Len(edits)
    BY PlannedEdit
  <1>2. \A k \in 1..m : \A x \in EditPaths(edits[k]) : v[x] = w[x]
    BY <1>1 DEF TouchedBy
  <1> QED
    BY <1>1, <1>2, ShowsInSame DEF Showing

LEMMA ShowingMade ==
  ASSUME NEW edits, Planned(edits), NEW n \in 1..Len(edits),
         NEW w \in [Paths -> Contents],
         Showing(w, edits, n - 1), CanMake(w, edits[n])
  PROVE  Showing(Made(w, edits[n]), edits, n)
  <1> DEFINE v == Made(w, edits[n])
  <1>1. n \in Nat /\ \A k \in 1..n : k \in 1..Len(edits)
    BY PlannedEdit
  <1>2. ShowsIn(v, edits[n])
    <2>1. CASE edits[n].op = "put"
      BY <2>1, PlannedEdit, MadePut DEF ShowsIn
    <2>2. CASE edits[n].op = "move"
      <3>1. v[edits[n].path] = Absent /\ v[edits[n].to] = w[edits[n].path]
        BY <2>2, PlannedEdit, MadeMove
      <3>2. w[edits[n].path] # Absent /\ edits[n].op # "put"
        BY <2>2 DEF CanMake
      <3> QED
        BY <3>1, <3>2 DEF ShowsIn
    <2> QED
      BY <2>1, <2>2, PlannedEdit
  <1>3. \A x \in Paths : x \notin EditPaths(edits[n]) => v[x] = w[x]
    <2>1. CASE edits[n].op = "put"
      <3>1. /\ edits[n].path \in Paths /\ edits[n].text \in Contents
            /\ EditPaths(edits[n]) = {edits[n].path}
        BY <2>1, PlannedEdit
      <3>2. \A x \in Paths : x # edits[n].path => v[x] = w[x]
        BY <2>1, <3>1, MadePut
      <3> QED
        BY <3>1, <3>2
    <2>2. CASE edits[n].op = "move"
      <3>1. /\ edits[n].path \in Paths /\ edits[n].to \in Paths
            /\ edits[n].to # edits[n].path
            /\ EditPaths(edits[n]) = {edits[n].path, edits[n].to}
        BY <2>2, PlannedEdit
      <3>2. \A x \in Paths : x \notin {edits[n].path, edits[n].to} =>
              v[x] = w[x]
        BY <2>2, <3>1, MadeMove
      <3> QED
        BY <3>1, <3>2
    <2> QED
      BY <2>1, <2>2, PlannedEdit
  <1> HIDE DEF v
  <1>4. ASSUME NEW k \in 1..n, k # n,
               \A l \in 1..n : k < l => edits[l].path # edits[k].path
        PROVE  ShowsIn(v, edits[k])
    <2>1. k \in 1..(n - 1) /\ k < n /\ k \in 1..Len(edits)
      BY <1>1, <1>4
    <2>2. ShowsIn(w, edits[k])
      BY <1>1, <1>4, <2>1 DEF Showing
    <2>3. edits[n].path # edits[k].path
      BY <1>1, <1>4, <2>1
    <2>4. \A x \in Paths : x \in EditPaths(edits[k]) => v[x] = w[x]
      <3> SUFFICES ASSUME NEW x \in Paths, x \in EditPaths(edits[k])
          PROVE v[x] = w[x]
        OBVIOUS
      <3>1. x \notin EditPaths(edits[n])
        BY <2>1, <2>3, TidyApart
      <3> QED
        BY <1>3, <3>1
    <2> QED
      BY <2>1, <2>2, <2>4, ShowsInSame
  <1>5. Showing(v, edits, n)
    BY <1>2, <1>4 DEF Showing
  <1> QED
    BY <1>5 DEF v

LEMMA KeptShowing ==
  ASSUME NEW edits, Planned(edits), NEW n \in Nat, n <= Len(edits), NEW w,
         Showing(w, edits, Len(edits)), NEW written
  PROVE  Kept(w, edits, n, written)
  <1> SUFFICES ASSUME NEW k \in 1..n, edits[k].op = "put"
      PROVE  w[edits[k].path] = edits[k].text
    BY DEF Kept
  <1>1. k \in 1..Len(edits)
    BY PlannedEdit
  <1>2. ASSUME NEW l \in 1..Len(edits), k < l, edits[l].path = edits[k].path
        PROVE  FALSE
    <2>1. edits[k].path \in EditPaths(edits[k])
            /\ edits[k].path \in EditPaths(edits[l])
      BY <1>1, <1>2 DEF EditPaths
    <2>2. edits[k].op = "move"
      BY <1>1, <1>2, <2>1, TidyPair
    <2> QED
      BY <2>2
  <1> QED
    BY <1>1, <1>2 DEF Showing, ShowsIn

LEMMA KeptDisturbed ==
  ASSUME NEW edits, Planned(edits), NEW n \in Nat, n <= Len(edits), NEW w,
         NEW v, NEW before, NEW after, Kept(w, edits, n, before),
         before \subseteq after,
         \A x \in Paths : x \notin after => v[x] = w[x]
  PROVE  Kept(v, edits, n, after)
  <1>1. \A k \in 1..n : k \in 1..Len(edits)
    BY PlannedEdit
  <1>2. \A k \in 1..n : edits[k].path \in Paths
    BY <1>1, PlannedEdit
  <1> QED
    BY <1>2 DEF Kept

LEMMA KeptUnmade ==
  ASSUME NEW edits, Planned(edits), NEW n \in 1..Len(edits), NEW w, NEW v,
         NEW written, Kept(w, edits, n, written),
         \A x \in Paths : x \notin EditPaths(edits[n]) => v[x] = w[x]
  PROVE  Kept(v, edits, n - 1, written)
  <1>1. n \in Nat /\ \A k \in 1..(n - 1) : k \in 1..Len(edits) /\ k < n /\ k \in 1..n
    BY PlannedEdit
  <1>2. ASSUME NEW k \in 1..(n - 1), edits[k].op = "put"
        PROVE  v[edits[k].path] = w[edits[k].path]
    <2>1. /\ edits[k].path \in EditPaths(edits[k]) /\ edits[k].path \in Paths
          /\ k \in 1..Len(edits) /\ k < n
      BY <1>1, <1>2, PlannedEdit
    <2>2. edits[k].path \notin EditPaths(edits[n])
      <3> SUFFICES ASSUME edits[k].path \in EditPaths(edits[n]) PROVE FALSE
        OBVIOUS
      <3>1. edits[k].op = "move"
        BY <2>1, TidyPair
      <3> QED
        BY <1>2, <3>1
    <2> QED
      BY <2>1, <2>2
  <1> QED
    BY <1>1, <1>2 DEF Kept

-----------------------------------------------------------------------------
(* The invariant.                                                          *)

EditsOf(p) == plan[on[p]].edits

Runs(p) == pc[p] \in {"check", "capture", "apply", "rollback"}

(* A plan binds what its edits touch, and moves to where nothing was.      *)
PlanSound(i) ==
    plan[i] # None =>
      /\ Planned(plan[i].edits)
      /\ Touched(i) \subseteq DOMAIN plan[i].bound
      /\ \A k \in 1..Len(plan[i].edits) :
           plan[i].edits[k].op = "move" =>
             plan[i].bound[plan[i].edits[k].to] = Absent

(* The journal on disk leads back to where the run began that wrote it.    *)
JournalSound(i) ==
    Recorded(i) =>
      Unwound(plan[i].edits, journal[i], world, orig[i], dirty[i])

(* What a run did to its end shows, and the next run is not refused.       *)
StaysDone(i) ==
    done[i] /\ Undisturbed(i, dirty[i]) /\ (\A p \in Procs : on[p] # i) =>
      /\ Recorded(i) /\ Len(journal[i]) = Len(plan[i].edits)
      /\ Showing(world, plan[i].edits, Len(plan[i].edits))
      /\ ReadsHold(i)

(* The journal in memory leads back to where the run began.                *)
RunUnwinds(p) ==
    Runs(p) => Unwound(EditsOf(p), mine[p], world, found[p], since[p])

UndoUnwinds(p) ==
    pc[p] = "undo" =>
      Unwound(EditsOf(p), mine[p], world, orig[on[p]], dirty[on[p]])

(* What is in memory is on disk, unless others are about the same id.      *)
JournalCovers(p) ==
    Recorded(on[p]) => dirty[on[p]] = Paths
                         \/ Len(mine[p]) <= Len(journal[on[p]])

(* The journal is that of the run.                                         *)
JournalIsRuns(p) ==
    Runs(p) /\ mine[p] # <<>> =>
      /\ since[p] \subseteq dirty[on[p]]
      /\ dirty[on[p]] = Paths \/ orig[on[p]] = found[p]

(* There is still room for what will be moved,                             *)
MoveFits(p) ==
    pc[p] = "capture" =>
      (NextEdit(p).op = "move" /\ NextEdit(p).to \notin since[p]
         => world[NextEdit(p).to] = Absent)

(* and what is moved is what the run found.                                *)
MoveFresh(p) ==
    pc[p] = "apply" =>
      (Current(p).op = "move" /\ Current(p).path \in Clean(EditsOf(p), since[p])
         => world[Current(p).path] = found[p][Current(p).path])

MadeCount(p) == IF pc[p] = "apply" THEN Len(mine[p]) - 1 ELSE Len(mine[p])

(* What an undisturbed run made so far shows.                              *)
RunShows(p) ==
    pc[p] \in {"check", "capture", "apply"} /\ Undisturbed(on[p], since[p]) =>
      /\ ReadsHold(on[p])
      /\ mine[p] # <<>> => journal[on[p]] = mine[p]
      /\ Showing(world, EditsOf(p), MadeCount(p))

(* What an undo has yet to undo shows.                                     *)
UndoKeeps(p) ==
    pc[p] = "undo" => Kept(world, EditsOf(p), Len(mine[p]), since[p])

(* A procedure that is done is not being run, unless by two at a time, and *)
(* these disturb each other.                                               *)
Unfinished(p) == done[on[p]] => dirty[on[p]] = Paths /\ since[p] = Paths

Alone(p) == \A q \in Procs : q # p /\ on[q] = on[p] =>
                               dirty[on[p]] = Paths /\ since[p] = Paths

Steady(p) ==
    /\ RunUnwinds(p) /\ UndoUnwinds(p)
    /\ JournalCovers(p) /\ JournalIsRuns(p)
    /\ MoveFits(p) /\ MoveFresh(p)
    /\ RunShows(p) /\ UndoKeeps(p)

Doing(p) == on[p] # None => Steady(p) /\ Unfinished(p) /\ Alone(p)

Sound ==
    /\ \A i \in Ids : PlanSound(i) /\ JournalSound(i) /\ StaysDone(i)
    /\ \A p \in Procs : Doing(p)

IInv == TypeOK /\ Sound

-----------------------------------------------------------------------------
(* What the types and the plans give of one operation.                     *)
LEMMA DoingTyped ==
  ASSUME TypeOK, NEW p \in Procs, NEW i \in Ids, on[p] = i, PlanSound(i)
  PROVE  /\ plan[i] # None /\ pc[p] # "idle" /\ i # None
         /\ Planned(plan[i].edits)
         /\ Len(plan[i].edits) \in Nat /\ Len(plan[i].edits) > 0
         /\ mine[p] \in Seq(Steps) /\ Len(mine[p]) \in Nat
         /\ Len(mine[p]) <= Len(plan[i].edits)
         /\ \A k \in 1..Len(mine[p]) : mine[p][k].edit = plan[i].edits[k]
         /\ pc[p] = "capture" => Len(mine[p]) < Len(plan[i].edits)
         /\ pc[p] = "apply" => Len(mine[p]) > 0
         /\ world \in [Paths -> Contents]
         /\ found[p] \in [Paths -> Contents] /\ orig[i] \in [Paths -> Contents]
         /\ since[p] \subseteq Paths /\ dirty[i] \subseteq Paths
         /\ Paths # {} /\ ~Undisturbed(i, Paths)
         /\ DOMAIN plan[i].bound \subseteq Paths
  <1>1. i # None
    BY NoneAssumption
  <1>2. /\ plan[i] # None /\ pc[p] # "idle"
        /\ IsJournal(mine[p], plan[i].edits)
        /\ pc[p] = "capture" => Len(mine[p]) < Len(plan[i].edits)
        /\ pc[p] = "apply" => mine[p] # <<>>
        /\ DOMAIN plan[i].bound \subseteq Paths
    BY <1>1 DEF TypeOK
  <1>3. Planned(plan[i].edits)
    BY <1>2 DEF PlanSound
  <1>4. /\ mine[p] \in Seq(Steps) /\ Len(mine[p]) <= Len(plan[i].edits)
        /\ \A k \in 1..Len(mine[p]) : mine[p][k].edit = plan[i].edits[k]
    BY <1>2 DEF IsJournal
  <1>5. /\ Len(plan[i].edits) \in Nat /\ Len(plan[i].edits) > 0 /\ Paths # {}
        /\ ~Undisturbed(i, Paths)
    <2>1. Len(plan[i].edits) \in Nat /\ Len(plan[i].edits) > 0
      BY <1>3, PlannedEdit
    <2>2. 1 \in 1..Len(plan[i].edits)
      BY <2>1
    <2>3. plan[i].edits[1].path \in Paths
      BY <1>3, <2>2, PlannedEdit
    <2>4. plan[i].edits[1].path \in Touched(i)
      BY <2>2 DEF Touched, TouchedBy, EditPaths
    <2>5. plan[i].edits[1].path \in DOMAIN plan[i].bound
      BY <1>2, <2>4 DEF PlanSound
    <2> QED
      BY <2>1, <2>3, <2>5 DEF Undisturbed
  <1>6. /\ world \in [Paths -> Contents]
        /\ found[p] \in [Paths -> Contents] /\ orig[i] \in [Paths -> Contents]
        /\ since[p] \subseteq Paths /\ dirty[i] \subseteq Paths
    BY DEF TypeOK
  <1>7. Len(mine[p]) \in Nat /\ (mine[p] # <<>> => Len(mine[p]) > 0)
    BY <1>4
  <1> QED
    BY <1>1, <1>2, <1>3, <1>4, <1>5, <1>6, <1>7

LEMMA JournalTyped ==
  ASSUME TypeOK, NEW i \in Ids, Recorded(i), PlanSound(i)
  PROVE  /\ plan[i] # None /\ Planned(plan[i].edits)
         /\ journal[i] \in Seq(Steps) /\ Len(journal[i]) \in Nat
         /\ Len(journal[i]) <= Len(plan[i].edits)
         /\ \A k \in 1..Len(journal[i]) :
              journal[i][k].edit = plan[i].edits[k]
  <1>1. plan[i] # None /\ IsJournal(journal[i], plan[i].edits)
    BY DEF TypeOK
  <1>2. Planned(plan[i].edits)
    BY <1>1 DEF PlanSound
  <1>3. /\ journal[i] \in Seq(Steps)
        /\ Len(journal[i]) <= Len(plan[i].edits)
        /\ \A k \in 1..Len(journal[i]) :
              journal[i][k].edit = plan[i].edits[k]
    BY <1>1 DEF IsJournal
  <1>4. Len(journal[i]) \in Nat
    BY <1>3
  <1> QED
    BY <1>1, <1>2, <1>3, <1>4

(* The reads of a plan hold as long as none of its paths is written.       *)
LEMMA ReadsStill ==
  ASSUME NEW i, plan'[i] = plan[i],
         \A x \in DOMAIN plan[i].bound : world'[x] = world[x], ReadsHold(i)
  PROVE  ReadsHold(i)'
  BY DEF ReadsHold, Touched

(* An operation goes on while others, about other ids, write the paths c.  *)
LEMMA GoesOn ==
  ASSUME TypeOK, NEW q \in Procs, NEW i \in Ids, on[q] = i, PlanSound(i),
         Doing(q), NEW c \in SUBSET Paths,
         plan'[i] = plan[i], pc'[q] = pc[q], on'[q] = i, mine'[q] = mine[q],
         found'[q] = found[q], orig'[i] = orig[i], done'[i] = done[i],
         journal'[i] = journal[i]
           \/ (journal'[i] = None /\ ~ReadsHold(i)),
         since'[q] = since[q] \cup c, dirty'[i] = dirty[i] \cup c,
         \A x \in Paths : x \notin c => world'[x] = world[x],
         \A r \in Procs : r # q => on'[r] # i
  PROVE  Doing(q)'
  <1> DEFINE E == plan[i].edits
  <1>1. /\ plan[i] # None /\ i # None /\ Planned(E) /\ Len(E) \in Nat
        /\ mine[q] \in Seq(Steps) /\ Len(mine[q]) \in Nat
        /\ Len(mine[q]) <= Len(E)
        /\ \A k \in 1..Len(mine[q]) : mine[q][k].edit = E[k]
        /\ pc[q] = "capture" => Len(mine[q]) < Len(E)
        /\ pc[q] = "apply" => Len(mine[q]) > 0
        /\ since[q] \subseteq Paths /\ dirty[i] \subseteq Paths
        /\ DOMAIN plan[i].bound \subseteq Paths
    BY DoingTyped
  <1>2. /\ RunUnwinds(q) /\ UndoUnwinds(q)
        /\ JournalCovers(q) /\ JournalIsRuns(q)
        /\ MoveFits(q) /\ MoveFresh(q)
        /\ RunShows(q) /\ UndoKeeps(q) /\ Unfinished(q)
    BY <1>1 DEF Doing, Steady
  <1>3. E' = E /\ EditsOf(q) = E /\ EditsOf(q)' = E
    BY DEF EditsOf
  <1>f. TouchedBy(E) \subseteq DOMAIN plan[i].bound
    BY <1>1 DEF PlanSound, Touched
  <1>4. \A x \in Paths : /\ x \notin since[q] \cup c => world'[x] = world[x]
                         /\ x \notin dirty[i] \cup c => world'[x] = world[x]
    OBVIOUS
  <1> HIDE DEF E
  <1>5. RunUnwinds(q)'
    <2> SUFFICES ASSUME Runs(q)
        PROVE Unwound(E, mine[q], world', found[q], since[q] \cup c)
      BY <1>3 DEF RunUnwinds, Runs
    <2> DEFINE after == since[q] \cup c
    <2> DEFINE v == world'
    <2>1. Unwound(E, mine[q], world, found[q], since[q])
      BY <1>2, <1>3 DEF RunUnwinds
    <2>2. since[q] \subseteq after /\ \A x \in Paths : x \notin after => v[x] = world[x]
      OBVIOUS
    <2> HIDE DEF after, v
    <2>3. Unwound(E, mine[q], v, found[q], after)
      BY <1>1, <2>1, <2>2, UnwoundDisturbed
    <2> QED
      BY <2>3 DEF after, v
  <1>6. UndoUnwinds(q)'
    <2> SUFFICES ASSUME pc[q] = "undo"
        PROVE Unwound(E, mine[q], world', orig[i], dirty[i] \cup c)
      BY <1>3 DEF UndoUnwinds
    <2> DEFINE after == dirty[i] \cup c
    <2> DEFINE v == world'
    <2>1. Unwound(E, mine[q], world, orig[i], dirty[i])
      BY <1>2, <1>3 DEF UndoUnwinds
    <2>2. dirty[i] \subseteq after /\ \A x \in Paths : x \notin after => v[x] = world[x]
      OBVIOUS
    <2> HIDE DEF after, v
    <2>3. Unwound(E, mine[q], v, orig[i], after)
      BY <1>1, <2>1, <2>2, UnwoundDisturbed
    <2> QED
      BY <2>3 DEF after, v
  <1>7. JournalCovers(q)'
    BY <1>1, <1>2 DEF JournalCovers, Recorded
  <1>8. JournalIsRuns(q)'
    BY <1>1, <1>2 DEF JournalIsRuns, Runs
  <1>9. MoveFits(q)'
    <2> SUFFICES ASSUME pc[q] = "capture", NextEdit(q).op = "move",
                        NextEdit(q).to \notin since[q] \cup c
        PROVE world'[NextEdit(q).to] = Absent
      BY DEF MoveFits, NextEdit
    <2>1. NextEdit(q) = E[Len(mine[q]) + 1] /\ Len(mine[q]) + 1 \in 1..Len(E)
      BY <1>1, <1>3 DEF NextEdit, EditsOf
    <2>2. NextEdit(q).to \in Paths
      BY <1>1, <2>1, PlannedEdit
    <2> QED
      BY <1>2, <1>4, <2>2 DEF MoveFits
  <1>10. MoveFresh(q)'
    <2> SUFFICES ASSUME pc[q] = "apply", Current(q).op = "move",
                        Current(q).path \in Clean(E, since[q] \cup c)
        PROVE world'[Current(q).path] = found[q][Current(q).path]
      BY <1>3 DEF MoveFresh, Current
    <2>1. /\ Current(q).path \in Clean(E, since[q])
          /\ Current(q).path \in Paths
          /\ Current(q).path \notin since[q] \cup c
      BY CleanSmaller, CleanFacts
    <2> QED
      BY <1>2, <1>3, <1>4, <2>1 DEF MoveFresh
  <1>11. RunShows(q)'
    <2> SUFFICES ASSUME pc[q] \in {"check", "capture", "apply"},
                        Undisturbed(i, since[q] \cup c)
        PROVE  /\ ReadsHold(i)'
               /\ mine[q] # <<>> => journal'[i] = mine[q]
               /\ Showing(world', E, MadeCount(q))
      BY <1>3 DEF RunShows, MadeCount, Undisturbed
    <2>1. /\ \A x \in DOMAIN plan[i].bound : world'[x] = world[x]
          /\ \A x \in TouchedBy(E) : world'[x] = world[x]
      BY <1>1, <1>f DEF Undisturbed
    <2>2. /\ ReadsHold(i) /\ (mine[q] # <<>> => journal[i] = mine[q])
          /\ Showing(world, E, MadeCount(q))
      BY <1>2, <1>3 DEF RunShows, Undisturbed
    <2>3. ReadsHold(i)'
      BY <1>1, <2>1, <2>2, ReadsStill
    <2>4. MadeCount(q) \in Nat /\ MadeCount(q) <= Len(E)
      BY <1>1 DEF MadeCount
    <2>5. Showing(world', E, MadeCount(q))
      BY <1>1, <2>1, <2>2, <2>4, ShowingSame
    <2> QED
      BY <2>2, <2>3, <2>5
  <1>12. UndoKeeps(q)'
    <2> SUFFICES ASSUME pc[q] = "undo"
        PROVE Kept(world', E, Len(mine[q]), since[q] \cup c)
      BY <1>3 DEF UndoKeeps
    <2>1. Kept(world, E, Len(mine[q]), since[q])
      BY <1>2, <1>3 DEF UndoKeeps
    <2> QED
      BY <1>1, <1>4, <2>1, KeptDisturbed
  <1>13. Unfinished(q)'
    BY <1>1, <1>2 DEF Unfinished
  <1>14. Alone(q)'
    BY DEF Alone
  <1> QED
    BY <1>5, <1>6, <1>7, <1>8, <1>9, <1>10, <1>11, <1>12, <1>13, <1>14
       DEF Doing, Steady

(* Of two operations about one id nothing is claimed.                      *)
LEMMA Disturbed ==
  ASSUME NEW q \in Procs, NEW i \in Ids, on'[q] = i,
         NEW E, plan'[i].edits = E, Planned(E), Paths # {},
         mine'[q] \in Seq(Steps), Len(mine'[q]) <= Len(E),
         pc'[q] = "capture" => Len(mine'[q]) < Len(E),
         dirty'[i] = Paths, since'[q] = Paths,
         Paths \cap DOMAIN plan'[i].bound # {}
  PROVE  Doing(q)'
  <1>1. Len(E) \in Nat /\ Len(mine'[q]) \in Nat
    BY PlannedEdit
  <1>2. EditsOf(q)' = E
    BY DEF EditsOf
  <1>3. RunUnwinds(q)' /\ UndoUnwinds(q)'
    BY <1>2, UnwoundNowhere DEF RunUnwinds, UndoUnwinds
  <1>4. JournalCovers(q)' /\ JournalIsRuns(q)'
    BY DEF JournalCovers, JournalIsRuns
  <1>5. MoveFits(q)'
    <2> SUFFICES ASSUME pc'[q] = "capture", NextEdit(q)'.op = "move"
        PROVE NextEdit(q)'.to \in Paths
      BY DEF MoveFits
    <2>1. NextEdit(q)' = E[Len(mine'[q]) + 1] /\ Len(mine'[q]) + 1 \in 1..Len(E)
      BY <1>1, <1>2 DEF NextEdit, EditsOf
    <2> QED
      BY <1>1, <2>1, PlannedEdit
  <1>6. MoveFresh(q)'
    BY NothingClean DEF MoveFresh
  <1>7. RunShows(q)'
    BY DEF RunShows, Undisturbed
  <1>8. UndoKeeps(q)'
    <2>1. \A k \in 1..Len(mine'[q]) : E[k].path \in Paths
      BY <1>1, PlannedEdit
    <2> QED
      BY <1>2, <2>1 DEF UndoKeeps, Kept
  <1>9. Unfinished(q)' /\ Alone(q)'
    BY DEF Unfinished, Alone
  <1> QED
    BY <1>3, <1>4, <1>5, <1>6, <1>7, <1>8, <1>9 DEF Doing, Steady

(* What is on disk about an id stays sound while others write the paths c. *)
LEMMA StaysSound ==
  ASSUME TypeOK, NEW i \in Ids, PlanSound(i), JournalSound(i), StaysDone(i),
         NEW c \in SUBSET Paths, plan[i] # None,
         plan'[i] = plan[i], orig'[i] = orig[i], done'[i] = done[i],
         journal'[i] = journal[i]
           \/ (journal'[i] = None /\ ~ReadsHold(i)),
         dirty'[i] = dirty[i] \cup c,
         \A x \in Paths : x \notin c => world'[x] = world[x],
         (\A p \in Procs : on'[p] # i) => (\A p \in Procs : on[p] # i)
  PROVE  JournalSound(i)' /\ StaysDone(i)'
  <1>1. JournalSound(i)'
    <2> SUFFICES ASSUME Recorded(i)'
        PROVE Unwound(plan[i].edits, journal[i], world', orig[i], dirty[i] \cup c)
      BY DEF JournalSound, Recorded
    <2>1. journal'[i] = journal[i] /\ Recorded(i)
      BY DEF Recorded
    <2>2. /\ Planned(plan[i].edits) /\ journal[i] \in Seq(Steps)
          /\ Len(journal[i]) <= Len(plan[i].edits)
      BY <2>1, JournalTyped
    <2>3. Unwound(plan[i].edits, journal[i], world, orig[i], dirty[i])
      BY <2>1 DEF JournalSound
    <2> QED
      BY <2>2, <2>3, UnwoundDisturbed
  <1>2. StaysDone(i)'
    <2> SUFFICES ASSUME done[i], Undisturbed(i, dirty[i] \cup c),
                        \A p \in Procs : on[p] # i
        PROVE  /\ Recorded(i)' /\ Len(journal'[i]) = Len(plan[i].edits)
               /\ Showing(world', plan[i].edits, Len(plan[i].edits))
               /\ ReadsHold(i)'
      BY DEF StaysDone, Undisturbed
    <2>3. /\ Planned(plan[i].edits) /\ Len(plan[i].edits) \in Nat
          /\ DOMAIN plan[i].bound \subseteq Paths
          /\ TouchedBy(plan[i].edits) \subseteq DOMAIN plan[i].bound
      BY PlannedEdit DEF PlanSound, TypeOK, Touched
    <2>1. /\ \A x \in DOMAIN plan[i].bound : world'[x] = world[x]
          /\ \A x \in TouchedBy(plan[i].edits) : world'[x] = world[x]
      BY <2>3 DEF Undisturbed
    <2>2. /\ Recorded(i) /\ Len(journal[i]) = Len(plan[i].edits)
          /\ Showing(world, plan[i].edits, Len(plan[i].edits))
          /\ ReadsHold(i)
      BY DEF StaysDone, Undisturbed
    <2>4. ReadsHold(i)'
      BY <2>1, <2>2, <2>3, ReadsStill
    <2>5. Showing(world', plan[i].edits, Len(plan[i].edits))
      BY <2>1, <2>2, <2>3, ShowingSame
    <2> QED
      BY <2>2, <2>4, <2>5 DEF Recorded
  <1> QED
    BY <1>1, <1>2

(* A step about the id i, by p or by the user, that writes the paths c.    *)
OthersFrame(p, i, c) ==
    /\ \A h \in Ids : plan[h] # None => plan'[h] = plan[h]
    /\ \A h \in Ids : h # i => plan'[h] = plan[h]
    /\ \A x \in Paths : x \notin c => world'[x] = world[x]
    /\ p \in Procs => on[p] \in {i, None} /\ on'[p] \in {i, None}
    /\ \A q \in Procs : q # p =>
         /\ pc'[q] = pc[q] /\ on'[q] = on[q]
         /\ mine'[q] = mine[q] /\ found'[q] = found[q]
    /\ \A q \in Procs : q # p /\ on[q] # None /\ on[q] # i =>
         since'[q] = since[q] \cup c
    /\ \A q \in Procs : q # p /\ on[q] # None /\ on[q] = i =>
         since'[q] = Paths /\ dirty'[i] = Paths
    /\ \A h \in Ids : h # i /\ plan[h] # None => dirty'[h] = dirty[h] \cup c
    /\ \A h \in Ids : h # i => orig'[h] = orig[h] /\ done'[h] = done[h]
    /\ \A h \in Ids : h # i =>
         journal'[h] = journal[h] \/ (journal'[h] = None /\ ~ReadsHold(h))

LEMMA OthersGoOn ==
  ASSUME IInv, NEW p, NEW i \in Ids \cup {None}, NEW c \in SUBSET Paths,
         OthersFrame(p, i, c)
  PROVE  /\ \A q \in Procs : q # p => Doing(q)'
         /\ \A h \in Ids : h # i =>
              PlanSound(h)' /\ JournalSound(h)' /\ StaysDone(h)'
  <1>1. /\ TypeOK /\ \A h \in Ids : PlanSound(h)
        /\ \A h \in Ids : JournalSound(h) /\ StaysDone(h)
        /\ \A q \in Procs : Doing(q)
    BY DEF IInv, Sound
  <1>f. /\ \A h \in Ids : plan[h] # None => plan'[h] = plan[h]
        /\ \A h \in Ids : h # i => plan'[h] = plan[h]
        /\ \A x \in Paths : x \notin c => world'[x] = world[x]
        /\ p \in Procs => on[p] \in {i, None} /\ on'[p] \in {i, None}
        /\ \A q \in Procs : q # p =>
             /\ pc'[q] = pc[q] /\ on'[q] = on[q]
             /\ mine'[q] = mine[q] /\ found'[q] = found[q]
        /\ \A q \in Procs : q # p /\ on[q] # None /\ on[q] # i =>
             since'[q] = since[q] \cup c
        /\ \A q \in Procs : q # p /\ on[q] # None /\ on[q] = i =>
             since'[q] = Paths /\ dirty'[i] = Paths
        /\ \A h \in Ids : h # i /\ plan[h] # None => dirty'[h] = dirty[h] \cup c
        /\ \A h \in Ids : h # i => orig'[h] = orig[h] /\ done'[h] = done[h]
        /\ \A h \in Ids : h # i =>
             journal'[h] = journal[h] \/ (journal'[h] = None /\ ~ReadsHold(h))
    BY DEF OthersFrame
  <1>2. ASSUME NEW q \in Procs, q # p
        PROVE  Doing(q)'
    <2>1. CASE on[q] = None
      BY <1>f, <1>2, <2>1 DEF Doing
    <2>2. CASE on[q] # None /\ on[q] # i
      <3> DEFINE h == on[q]
      <3>1. h \in Ids /\ h # i /\ plan[h] # None
        BY <1>f, <1>1, <2>2, NoneAssumption DEF TypeOK
      <3>2. Doing(q) /\ PlanSound(h)
        BY <1>f, <1>1, <3>1
      <3>3. \A r \in Procs : r # q => on'[r] # h \/ on[r] = h
        BY <1>f, <1>2, <2>2
      <3>4. CASE \A r \in Procs : r # q => on[r] # h
        <4>1. /\ plan'[h] = plan[h] /\ orig'[h] = orig[h] /\ done'[h] = done[h]
              /\ journal'[h] = journal[h]
                   \/ (journal'[h] = None /\ ~ReadsHold(h))
              /\ dirty'[h] = dirty[h] \cup c /\ since'[q] = since[q] \cup c
              /\ pc'[q] = pc[q] /\ on'[q] = h /\ mine'[q] = mine[q]
              /\ found'[q] = found[q]
          BY <1>f, <1>2, <2>2, <3>1
        <4>2. \A r \in Procs : r # q => on'[r] # h
          BY <1>f, <3>3, <3>4
        <4> HIDE DEF h
        <4>3. on[q] = h
          BY DEF h
        <4> QED
          BY <1>f, <1>1, <3>1, <3>2, <4>1, <4>2, <4>3, GoesOn
      <3>5. CASE \E r \in Procs : r # q /\ on[r] = h
        <4>1. dirty[h] = Paths /\ since[q] = Paths
          BY <1>f, <2>2, <3>2, <3>5 DEF Doing, Alone
        <4>2. dirty'[h] = Paths /\ since'[q] = Paths
          <5>1. Paths \cup c = Paths
            OBVIOUS
          <5>2. dirty'[h] = dirty[h] \cup c /\ since'[q] = since[q] \cup c
            BY <1>f, <1>2, <2>2, <3>1
          <5> QED
            BY <1>f, <4>1, <5>1, <5>2
        <4> HIDE DEF h
        <4>3. on[q] = h
          BY DEF h
        <4>4. /\ Planned(plan[h].edits) /\ Paths # {} /\ ~Undisturbed(h, Paths)
              /\ mine[q] \in Seq(Steps) /\ Len(mine[q]) <= Len(plan[h].edits)
              /\ pc[q] = "capture" => Len(mine[q]) < Len(plan[h].edits)
          BY <1>1, <3>1, <3>2, <4>3, DoingTyped
        <4>5. /\ plan'[h] = plan[h] /\ pc'[q] = pc[q] /\ on'[q] = h
              /\ mine'[q] = mine[q]
          BY <1>f, <1>2, <3>1, <4>3
        <4>6. Paths \cap DOMAIN plan'[h].bound # {}
          BY <4>4, <4>5 DEF Undisturbed
        <4> QED
          BY <1>2, <3>1, <4>2, <4>4, <4>5, <4>6, Disturbed
      <3> QED
        BY <3>4, <3>5
    <2>3. CASE on[q] # None /\ on[q] = i
      <3>1. i \in Ids /\ plan[i] # None /\ PlanSound(i)
        BY <1>f, <1>1, <2>3, NoneAssumption DEF TypeOK
      <3>2. /\ Planned(plan[i].edits) /\ Paths # {} /\ ~Undisturbed(i, Paths)
            /\ mine[q] \in Seq(Steps) /\ Len(mine[q]) <= Len(plan[i].edits)
            /\ pc[q] = "capture" => Len(mine[q]) < Len(plan[i].edits)
        BY <1>1, <1>2, <2>3, <3>1, DoingTyped
      <3>3. /\ plan'[i] = plan[i] /\ pc'[q] = pc[q] /\ on'[q] = i
            /\ mine'[q] = mine[q] /\ dirty'[i] = Paths /\ since'[q] = Paths
        BY <1>f, <1>2, <2>3, <3>1
      <3>4. Paths \cap DOMAIN plan'[i].bound # {}
        BY <3>2, <3>3 DEF Undisturbed
      <3> QED
        BY <1>2, <3>1, <3>2, <3>3, <3>4, Disturbed
    <2> QED
      BY <2>1, <2>2, <2>3
  <1>3. ASSUME NEW h \in Ids, h # i
        PROVE  PlanSound(h)' /\ JournalSound(h)' /\ StaysDone(h)'
    <2>1. PlanSound(h)'
      <3>1. plan'[h] = plan[h] /\ PlanSound(h)
        BY <1>f, <1>1, <1>3
      <3> QED
        BY <1>f, <3>1 DEF PlanSound, Touched
    <2>2. CASE plan[h] = None
      <3>1. ~Recorded(h) /\ ~done[h]
        BY <1>f, <1>1, <2>2 DEF TypeOK
      <3>2. ~Recorded(h)' /\ ~done'[h]
        BY <1>f, <1>3, <3>1 DEF Recorded
      <3> QED
        BY <1>f, <2>1, <3>2 DEF JournalSound, StaysDone
    <2>3. CASE plan[h] # None
      <3>1. /\ plan'[h] = plan[h] /\ orig'[h] = orig[h] /\ done'[h] = done[h]
            /\ journal'[h] = journal[h]
                 \/ (journal'[h] = None /\ ~ReadsHold(h))
            /\ dirty'[h] = dirty[h] \cup c
        BY <1>f, <1>3, <2>3
      <3>2. (\A q \in Procs : on'[q] # h) => (\A q \in Procs : on[q] # h)
        <4>1. h # None
          BY NoneAssumption
        <4> QED
          BY <1>f, <1>3, <4>1
      <3>3. PlanSound(h) /\ JournalSound(h) /\ StaysDone(h)
        BY <1>f, <1>1, <1>3
      <3> QED
        BY <1>f, <1>1, <1>3, <2>1, <2>3, <3>1, <3>2, <3>3, StaysSound
    <2> QED
      BY <2>2, <2>3
  <1> QED
    BY <1>2, <1>3

(* A step of the operation of p, about i, that writes the paths c; and one *)
(* that writes none.                                                       *)
Frame(p, i, c) ==
    /\ plan' = plan
    /\ \A x \in Paths : x \notin c => world'[x] = world[x]
    /\ on'[p] \in {i, None} /\ since'[p] \subseteq Paths
    /\ \A q \in Procs : q # p =>
         /\ pc'[q] = pc[q] /\ on'[q] = on[q]
         /\ mine'[q] = mine[q] /\ found'[q] = found[q]
    /\ \A q \in Procs : q # p /\ on[q] # None => since'[q] = since[q] \cup c
    /\ \A h \in Ids : h # i /\ plan[h] # None => dirty'[h] = dirty[h] \cup c
    /\ \A h \in Ids : h # i => /\ orig'[h] = orig[h] /\ done'[h] = done[h]
                              /\ journal'[h] = journal[h]
    /\ since[p] = Paths /\ dirty[i] = Paths => dirty'[i] = Paths

QuietFrame(p, i) ==
    /\ plan' = plan /\ world' = world
    /\ on'[p] \in {i, None} /\ since'[p] \subseteq Paths
    /\ \A q \in Procs : q # p =>
         /\ pc'[q] = pc[q] /\ on'[q] = on[q]
         /\ mine'[q] = mine[q] /\ found'[q] = found[q]
         /\ since'[q] = since[q]
    /\ \A h \in Ids : h # i => /\ orig'[h] = orig[h] /\ done'[h] = done[h]
                              /\ journal'[h] = journal[h]
                              /\ dirty'[h] = dirty[h]
    /\ since[p] = Paths /\ dirty[i] = Paths => dirty'[i] = Paths

LEMMA QuietIsFrame ==
  ASSUME NEW p, NEW i, QuietFrame(p, i) PROVE Frame(p, i, {})
  BY DEF QuietFrame, Frame

LEMMA OthersInFrame ==
  ASSUME IInv, NEW p \in Procs, NEW i \in Ids, on[p] = i,
         NEW c \in SUBSET Paths, Frame(p, i, c)
  PROVE  /\ \A q \in Procs : q # p => Doing(q)'
         /\ \A h \in Ids : h # i =>
              PlanSound(h)' /\ JournalSound(h)' /\ StaysDone(h)'
         /\ PlanSound(i)'
         /\ since[p] \subseteq since'[p] => Alone(p)' \/ on'[p] # i
  <1>1. /\ TypeOK /\ PlanSound(i) /\ Doing(p) /\ \A q \in Procs : Doing(q)
    BY DEF IInv, Sound
  <1>2. i # None /\ Paths # {} /\ Paths \cup c = Paths
    BY <1>1, DoingTyped
  <1>3. Alone(p)
    BY <1>1, <1>2 DEF Doing
  <1>4. ASSUME NEW q \in Procs, q # p, on[q] = i
        PROVE  since'[q] = Paths /\ dirty'[i] = Paths
    <2>1. dirty[i] = Paths /\ since[p] = Paths
      BY <1>3, <1>4 DEF Alone
    <2>2. since[q] = Paths
      BY <1>1, <1>2, <1>4 DEF Doing, Alone
    <2> QED
      BY <1>2, <1>4, <2>1, <2>2 DEF Frame
  <1>5. \A q \in Procs : q # p /\ on[q] # None /\ on[q] = i =>
            since'[q] = Paths /\ dirty'[i] = Paths
    BY <1>4
  <1>6. OthersFrame(p, i, c)
    BY <1>5 DEF Frame, OthersFrame
  <1>7. /\ \A q \in Procs : q # p => Doing(q)'
        /\ \A h \in Ids : h # i =>
             PlanSound(h)' /\ JournalSound(h)' /\ StaysDone(h)'
    BY <1>6, OthersGoOn
  <1>8. PlanSound(i)'
    BY <1>1 DEF Frame, PlanSound, Touched
  <1>9. ASSUME since[p] \subseteq since'[p], on'[p] = i
        PROVE  Alone(p)'
    <2> SUFFICES ASSUME NEW q \in Procs, q # p, on'[q] = i
        PROVE dirty'[i] = Paths /\ since'[p] = Paths
      BY <1>9 DEF Alone
    <2>1. on[q] = i
      BY DEF Frame
    <2>2. dirty[i] = Paths /\ since[p] = Paths
      BY <1>3, <2>1 DEF Alone
    <2> QED
      BY <1>9, <2>2 DEF Frame
  <1> QED
    BY <1>7, <1>8, <1>9

LEMMA StepEnds ==
  ASSUME IInv, NEW p \in Procs, NEW i \in Ids, on[p] = i,
         NEW c \in SUBSET Paths, Frame(p, i, c),
         on'[p] = None, JournalSound(i)',
         \/ StaysDone(i)'
         \/ done'[i] = done[i] /\ (dirty[i] = Paths => dirty'[i] = Paths)
  PROVE  Sound'
  <1>1. /\ TypeOK /\ PlanSound(i) /\ Doing(p)
    BY DEF IInv, Sound
  <1>2. i # None /\ Paths # {} /\ ~Undisturbed(i, Paths)
    BY <1>1, DoingTyped
  <1>3. StaysDone(i)'
    <2>1. CASE StaysDone(i)'
      BY <2>1
    <2>2. CASE done'[i] = done[i] /\ (dirty[i] = Paths => dirty'[i] = Paths)
      <3>1. done'[i] => dirty'[i] = Paths
        BY <1>1, <1>2, <2>2 DEF Doing, Unfinished
      <3>2. ~Undisturbed(i, Paths)'
        BY <1>2 DEF Frame, Undisturbed
      <3> QED
        BY <3>1, <3>2 DEF StaysDone, Undisturbed
    <2> QED
      BY <2>1, <2>2
  <1>4. Doing(p)'
    BY DEF Doing
  <1>5. /\ \A q \in Procs : q # p => Doing(q)'
        /\ \A h \in Ids : h # i =>
             PlanSound(h)' /\ JournalSound(h)' /\ StaysDone(h)'
        /\ PlanSound(i)'
    BY OthersInFrame
  <1> QED
    BY <1>3, <1>4, <1>5 DEF Sound

LEMMA StepGoesOn ==
  ASSUME IInv, NEW p \in Procs, NEW i \in Ids, on[p] = i,
         NEW c \in SUBSET Paths, Frame(p, i, c),
         on'[p] = i, JournalSound(i)', Steady(p)',
         done'[i] = done[i], since[p] \subseteq since'[p]
  PROVE  Sound'
  <1>1. /\ TypeOK /\ PlanSound(i) /\ Doing(p)
    BY DEF IInv, Sound
  <1>2. i # None /\ Paths # {}
    BY <1>1, DoingTyped
  <1>3. StaysDone(i)'
    BY DEF StaysDone
  <1>4. Unfinished(p)'
    <2>1. done[i] => dirty[i] = Paths /\ since[p] = Paths
      BY <1>1, <1>2 DEF Doing, Unfinished
    <2>2. done'[i] => dirty'[i] = Paths /\ since'[p] = Paths
      BY <2>1 DEF Frame
    <2> QED
      BY <2>2 DEF Unfinished
  <1>5. /\ \A q \in Procs : q # p => Doing(q)'
        /\ \A h \in Ids : h # i =>
             PlanSound(h)' /\ JournalSound(h)' /\ StaysDone(h)'
        /\ PlanSound(i)' /\ Alone(p)'
    BY OthersInFrame
  <1>6. Doing(p)'
    BY <1>4, <1>5 DEF Doing
  <1> QED
    BY <1>3, <1>5, <1>6 DEF Sound

(* What the invariant says of one operation, in one place.                 *)
LEMMA DoingFacts ==
  ASSUME IInv, NEW p \in Procs, NEW i, on[p] = i, i # None,
         NEW E, E = plan[i].edits
  PROVE  /\ i \in Ids /\ TypeOK /\ PlanSound(i) /\ JournalSound(i)
         /\ EditsOf(p) = E
         /\ RunUnwinds(p) /\ UndoUnwinds(p)
         /\ JournalCovers(p) /\ JournalIsRuns(p)
         /\ MoveFits(p) /\ MoveFresh(p)
         /\ RunShows(p) /\ UndoKeeps(p)
         /\ Unfinished(p) /\ Alone(p)
         /\ plan[i] # None /\ pc[p] # "idle"
         /\ Planned(E) /\ Len(E) \in Nat /\ Len(E) > 0
         /\ mine[p] \in Seq(Steps) /\ Len(mine[p]) \in Nat
         /\ Len(mine[p]) <= Len(E)
         /\ \A k \in 1..Len(mine[p]) : mine[p][k].edit = E[k]
         /\ pc[p] = "capture" => Len(mine[p]) < Len(E)
         /\ pc[p] = "apply" => Len(mine[p]) > 0
         /\ world \in [Paths -> Contents]
         /\ found[p] \in [Paths -> Contents] /\ orig[i] \in [Paths -> Contents]
         /\ since[p] \subseteq Paths /\ dirty[i] \subseteq Paths
         /\ Paths # {}
         /\ DOMAIN plan[i].bound \subseteq Paths
  <1>1. i \in Ids /\ TypeOK
    BY DEF IInv, TypeOK
  <1>2. PlanSound(i) /\ JournalSound(i) /\ Doing(p)
    BY <1>1 DEF IInv, Sound
  <1>3. /\ RunUnwinds(p) /\ UndoUnwinds(p)
        /\ JournalCovers(p) /\ JournalIsRuns(p)
        /\ MoveFits(p) /\ MoveFresh(p)
        /\ RunShows(p) /\ UndoKeeps(p)
        /\ Unfinished(p) /\ Alone(p)
    BY <1>2 DEF Doing, Steady
  <1>4. EditsOf(p) = E
    BY DEF EditsOf
  <1> QED
    BY <1>1, <1>2, <1>3, <1>4, DoingTyped

(* Most of what is claimed of an operation is about one place of it.       *)
LEMMA SteadyInRollback ==
  ASSUME NEW p, pc'[p] = "rollback",
         RunUnwinds(p)', JournalCovers(p)', JournalIsRuns(p)'
  PROVE  Steady(p)'
  BY DEF Steady, UndoUnwinds, MoveFits, MoveFresh, RunShows, UndoKeeps

LEMMA SteadyInUndo ==
  ASSUME NEW p, pc'[p] = "undo",
         UndoUnwinds(p)', JournalCovers(p)', UndoKeeps(p)'
  PROVE  Steady(p)'
  BY DEF Steady, RunUnwinds, JournalIsRuns, MoveFits, MoveFresh, RunShows, Runs

LEMMA SteadyInCheck ==
  ASSUME NEW p, pc'[p] = "check",
         RunUnwinds(p)', JournalCovers(p)', JournalIsRuns(p)', RunShows(p)'
  PROVE  Steady(p)'
  BY DEF Steady, UndoUnwinds, MoveFits, MoveFresh, UndoKeeps

LEMMA CheckSound ==
  ASSUME IInv, NEW p \in Procs, NEW i, on[p] = i, i # None,
         NEW E, E = plan[i].edits, Check(p)
  PROVE  Sound'
  <1> DEFINE n == Len(mine[p])
  <1>1. pc[p] = "check" /\ n < Len(E) /\ Expected(p)
    BY DEF Check, MoreEdits
  <1>2. /\ pc'[p] = "capture" /\ \A q \in Procs : q # p => pc'[q] = pc[q]
        /\ world' = world /\ plan' = plan /\ journal' = journal /\ on' = on
        /\ mine' = mine /\ found' = found /\ since' = since /\ orig' = orig
        /\ dirty' = dirty /\ done' = done
    BY DEF Check, Goto, IInv, TypeOK, disk, history
  <1>3. /\ i \in Ids /\ PlanSound(i) /\ JournalSound(i) /\ EditsOf(p) = E
        /\ RunUnwinds(p)
        /\ JournalCovers(p) /\ JournalIsRuns(p) /\ RunShows(p)
        /\ Planned(E) /\ Len(E) \in Nat /\ n \in Nat /\ plan[i] # None
        /\ since[p] \subseteq Paths
    BY DoingFacts
  <1>4. EditsOf(p)' = E
    BY <1>2 DEF EditsOf
  <1>5. JournalSound(i)'
    BY <1>2, <1>3 DEF JournalSound, Recorded
  <1>6. RunUnwinds(p)' /\ UndoUnwinds(p)'
    BY <1>1, <1>2, <1>3, <1>4 DEF RunUnwinds, UndoUnwinds, Runs
  <1>7. JournalCovers(p)' /\ JournalIsRuns(p)'
    BY <1>1, <1>2, <1>3 DEF JournalCovers, JournalIsRuns, Runs, Recorded
  <1>8. MoveFits(p)'
    <2> DEFINE e == E[n + 1]
    <2>1. NextEdit(p) = e /\ NextEdit(p)' = e
      BY <1>2 DEF NextEdit
    <2> SUFFICES ASSUME e.op = "move" PROVE world[e.to] = Absent
      BY <1>2, <2>1 DEF MoveFits
    <2>2. n + 1 \in 1..Len(E) /\ \A k \in 1..n : k \in 1..Len(E) /\ k < n + 1
      BY <1>1, <1>3
    <2>3. e.to \in EditPaths(e) /\ e.to # e.path
      BY <1>3, <2>2, PlannedEdit
    <2>4. \A k \in 1..n : e.to \notin EditPaths(E[k])
      <3> SUFFICES ASSUME NEW k \in 1..n, e.to \in EditPaths(E[k]) PROVE FALSE
        OBVIOUS
      <3>1. e.op = "put"
        BY <1>3, <2>2, <2>3, TidyPair
      <3> QED
        BY <3>1
    <2>5. e.to \notin TouchedBy(SubSeq(E, 1, n))
      <3>1. \A k \in 1..n : E[k] \in Edits
        BY <1>3, <2>2, PlannedEdit
      <3>2. /\ 1 \in Int /\ n \in Int /\ n - 1 + 1 = n
            /\ Len(SubSeq(E, 1, n)) = n
        BY <1>1, <1>3, <3>1
      <3>3. \A k \in 1..(n - 1 + 1) : SubSeq(E, 1, n)[k] = E[1 + k - 1]
        BY <3>1, <3>2, SubSeqProperties
      <3>4. \A k \in 1..n : SubSeq(E, 1, n)[k] = E[k]
        BY <1>3, <3>3
      <3> QED
        BY <2>4, <3>2, <3>4 DEF TouchedBy
    <2>6. e.to \in FirstTouched(p)
      BY <2>1, <2>3, <2>5 DEF FirstTouched
    <2>7. world[e.to] = plan[i].bound[e.to]
      BY <1>1, <2>6 DEF Expected
    <2>8. plan[i].bound[e.to] = Absent
      BY <1>3, <2>2 DEF PlanSound
    <2> QED
      BY <2>7, <2>8
  <1>9. MoveFresh(p)' /\ UndoKeeps(p)'
    BY <1>2 DEF MoveFresh, UndoKeeps
  <1>10. RunShows(p)'
    <2>1. MadeCount(p)' = MadeCount(p)
      BY <1>1, <1>2 DEF MadeCount
    <2>2. ReadsHold(i) => ReadsHold(i)'
      BY <1>2 DEF ReadsHold, Touched
    <2> QED
      BY <1>1, <1>2, <1>3, <1>4, <2>1, <2>2 DEF RunShows, Undisturbed
  <1>11. Steady(p)'
    BY <1>6, <1>7, <1>8, <1>9, <1>10 DEF Steady
  <1>12. QuietFrame(p, i)
    BY <1>2, <1>3 DEF QuietFrame
  <1> QED
    BY <1>2, <1>3, <1>5, <1>11, <1>12, QuietIsFrame, StepGoesOn

(* A run turns to rolling back, with nothing written.                      *)
LEMMA TurnsBack ==
  ASSUME IInv, NEW p \in Procs, NEW i, on[p] = i, i # None,
         NEW E, E = plan[i].edits, pc[p] \in {"check", "capture", "apply"},
         pc'[p] = "rollback", \A q \in Procs : q # p => pc'[q] = pc[q],
         world' = world, plan' = plan,
         \A h \in Ids : h # i => journal'[h] = journal[h],
         journal'[i] = journal[i] \/ journal'[i] = Torn,
         on' = on, mine' = mine, found' = found, since' = since,
         orig' = orig, dirty' = dirty, done' = done
  PROVE  Sound'
  <1>1. /\ i \in Ids /\ JournalSound(i) /\ EditsOf(p) = E
        /\ RunUnwinds(p) /\ JournalCovers(p) /\ JournalIsRuns(p)
        /\ since[p] \subseteq Paths
    BY DoingFacts
  <1>2. EditsOf(p)' = E
    BY DEF EditsOf
  <1>3. JournalSound(i)'
    BY <1>1 DEF JournalSound, Recorded
  <1>4. RunUnwinds(p)'
    BY <1>1, <1>2 DEF RunUnwinds, Runs
  <1>5. JournalCovers(p)' /\ JournalIsRuns(p)'
    BY <1>1 DEF JournalCovers, JournalIsRuns, Runs, Recorded
  <1>6. Steady(p)'
    BY <1>4, <1>5, SteadyInRollback
  <1>7. QuietFrame(p, i)
    BY <1>1 DEF QuietFrame
  <1> QED
    BY <1>1, <1>3, <1>6, <1>7, QuietIsFrame, StepGoesOn

LEMMA FailSound ==
  ASSUME IInv, NEW p \in Procs, NEW i, on[p] = i, i # None,
         NEW E, E = plan[i].edits,
         CheckFail(p) \/ CaptureFail(p) \/ MarkFail(p)
  PROVE  Sound'
  <1>1. /\ pc[p] \in {"check", "capture", "apply"}
        /\ pc'[p] = "rollback" /\ \A q \in Procs : q # p => pc'[q] = pc[q]
        /\ world' = world /\ plan' = plan
        /\ on' = on /\ mine' = mine /\ found' = found /\ since' = since
        /\ orig' = orig /\ dirty' = dirty /\ done' = done
    BY DEF CheckFail, CaptureFail, MarkFail, MoreEdits, AllMade, Goto, IInv,
           TypeOK, disk, history
  <1>2. i \in Ids /\ DOMAIN journal = Ids
    BY DEF IInv, TypeOK
  <1>3. /\ \A h \in Ids : h # i => journal'[h] = journal[h]
        /\ journal'[i] = journal[i] \/ journal'[i] = Torn
    <2>1. CASE CheckFail(p) \/ MarkFail(p)
      BY <2>1 DEF CheckFail, MarkFail, disk
    <2>2. CASE CaptureFail(p)
      BY <1>2, <2>2 DEF CaptureFail
    <2> QED
      BY <2>1, <2>2
  <1> QED
    BY <1>1, <1>3, TurnsBack

LEMMA CaptureSound ==
  ASSUME IInv, NEW p \in Procs, NEW i, on[p] = i, i # None,
         NEW E, E = plan[i].edits, Capture(p)
  PROVE  Sound'
  <1> DEFINE n == Len(mine[p])
  <1> DEFINE e == E[n + 1]
  <1> DEFINE s == Step(world, e)
  <1> DEFINE j == Append(mine[p], s)
  <1>1. /\ i \in Ids /\ PlanSound(i) /\ JournalSound(i) /\ EditsOf(p) = E
        /\ pc[p] = "capture" /\ Runs(p)
        /\ RunUnwinds(p) /\ JournalIsRuns(p) /\ MoveFits(p) /\ RunShows(p)
        /\ Planned(E) /\ Len(E) \in Nat /\ n \in Nat /\ n < Len(E)
        /\ plan[i] # None /\ mine[p] \in Seq(Steps)
        /\ since[p] \subseteq Paths /\ dirty[i] \subseteq Paths
        /\ world \in [Paths -> Contents] /\ TypeOK
    <2>1. pc[p] = "capture"
      BY DEF Capture
    <2> QED
      BY <2>1, DoingFacts DEF Runs
  <1>2. NextEdit(p) = e
    BY DEF NextEdit
  <1>3. /\ pc'[p] = "apply" /\ \A q \in Procs : q # p => pc'[q] = pc[q]
        /\ mine'[p] = j /\ \A q \in Procs : q # p => mine'[q] = mine[q]
        /\ journal'[i] = j
        /\ \A h \in Ids : h # i => journal'[h] = journal[h]
        /\ world' = world /\ plan' = plan /\ on' = on /\ found' = found
        /\ since' = since /\ done' = done
    BY <1>1, <1>2 DEF Capture, Goto, TypeOK
  <1>4. /\ \A h \in Ids : h # i => orig'[h] = orig[h] /\ dirty'[h] = dirty[h]
        /\ mine[p] = <<>> => orig'[i] = found[p] /\ dirty'[i] = since[p]
        /\ mine[p] # <<>> => orig'[i] = orig[i] /\ dirty'[i] = dirty[i]
    <2>1. Journaled(p)
      BY DEF Capture
    <2> QED
      BY <1>1, <2>1 DEF Journaled, TypeOK
  <1>5. n + 1 \in 1..Len(E) /\ e \in Edits /\ e.path \in Paths
    <2>1. n + 1 \in 1..Len(E)
      BY <1>1
    <2> QED
      BY <1>1, <2>1, PlannedEdit
  <1>6. /\ s \in Steps /\ s.edit = e
        /\ e.op = "put" => s.was = world[e.path]
    <2>1. s = [edit |-> e, was |-> IF e.op = "put" THEN world[e.path]
                                   ELSE Absent]
      BY DEF Step
    <2>2. (IF e.op = "put" THEN world[e.path] ELSE Absent) \in Contents
      BY <1>1, <1>5 DEF Contents
    <2> QED
      BY <1>5, <2>1, <2>2 DEF Steps
  <1> HIDE DEF s
  <1>7. /\ j \in Seq(Steps) /\ Len(j) = n + 1 /\ j[n + 1] = s /\ j # <<>>
    BY <1>1, <1>6
  <1>8. /\ Unwound(E, j, world, found[p], since[p])
        /\ e.op = "move" /\ e.path \in Clean(E, since[p])
              => world[e.path] = found[p][e.path]
    <2>1. Unwound(E, mine[p], world, found[p], since[p])
      BY <1>1 DEF RunUnwinds
    <2>2. e.op = "move" /\ e.to \notin since[p] => world[e.to] = Absent
      BY <1>1, <1>2 DEF MoveFits
    <2>3. /\ Planned(E) /\ mine[p] \in Seq(Steps) /\ n < Len(E)
          /\ s \in Steps /\ (e.op = "put" => s.was = world[e.path])
      BY <1>1, <1>6
    <2> HIDE DEF e
    <2>4. e = E[Len(mine[p]) + 1]
      BY DEF e
    <2>5. Unwound(E, Append(mine[p], s), world, found[p], since[p])
      BY <2>1, <2>2, <2>3, <2>4, UnwoundCaptured
    <2>6. ASSUME e.op = "move", e.path \in Clean(E, since[p])
          PROVE  world[e.path] = found[p][e.path]
      <3> DEFINE w == world
      <3> DEFINE o == found[p]
      <3> HIDE DEF w, o
      <3>1. Unwound(E, mine[p], w, o, since[p])
        BY <2>1 DEF w, o
      <3>2. w[e.path] = o[e.path]
        BY <2>3, <2>4, <2>6, <3>1, UnwoundSource
      <3> QED
        BY <3>2 DEF w, o
    <2> QED
      BY <2>5, <2>6 DEF e
  <1> HIDE DEF j
  <1>9. EditsOf(p)' = E
    BY <1>3 DEF EditsOf
  <1>10. /\ since[p] \subseteq dirty'[i]
         /\ dirty'[i] = Paths \/ orig'[i] = found[p]
    <2>1. CASE mine[p] = <<>>
      BY <1>4, <2>1
    <2>2. CASE mine[p] # <<>>
      BY <1>1, <1>4, <2>2 DEF JournalIsRuns
    <2> QED
      BY <2>1, <2>2
  <1>11. JournalSound(i)'
    <2>1. Unwound(E, j, world, orig'[i], dirty'[i])
      <3>1. CASE dirty'[i] = Paths
        BY <3>1, UnwoundNowhere
      <3>2. CASE orig'[i] = found[p]
        <4>1. \A x \in Paths : x \notin dirty'[i] => world[x] = world[x]
          OBVIOUS
        <4>2. Len(j) <= Len(E)
          BY <1>1, <1>7
        <4>3. Unwound(E, j, world, found[p], dirty'[i])
          BY <1>1, <1>7, <1>8, <1>10, <4>1, <4>2, UnwoundDisturbed
        <4> QED
          BY <3>2, <4>3
      <3> QED
        BY <1>10, <3>1, <3>2
    <2> QED
      BY <1>3, <2>1 DEF JournalSound
  <1>12. RunUnwinds(p)' /\ UndoUnwinds(p)'
    BY <1>3, <1>8, <1>9 DEF RunUnwinds, UndoUnwinds
  <1>13. JournalCovers(p)'
    BY <1>1, <1>3, <1>7 DEF JournalCovers
  <1>14. JournalIsRuns(p)'
    BY <1>3, <1>10 DEF JournalIsRuns
  <1>15. MoveFits(p)' /\ UndoKeeps(p)'
    BY <1>3 DEF MoveFits, UndoKeeps
  <1>16. MoveFresh(p)'
    <2>1. Current(p)' = e
      BY <1>3, <1>6, <1>7 DEF Current
    <2> QED
      BY <1>3, <1>8, <1>9, <2>1 DEF MoveFresh
  <1>17. RunShows(p)'
    <2>1. MadeCount(p)' = n /\ MadeCount(p) = n
      BY <1>1, <1>3, <1>7 DEF MadeCount
    <2>2. ReadsHold(i) => ReadsHold(i)'
      BY <1>3 DEF ReadsHold, Touched
    <2>3. Undisturbed(i, since[p]) => ReadsHold(i) /\ Showing(world, E, n)
      BY <1>1, <2>1 DEF RunShows
    <2> QED
      BY <1>3, <1>9, <2>1, <2>2, <2>3 DEF RunShows, Undisturbed
  <1>18. Steady(p)'
    BY <1>12, <1>13, <1>14, <1>15, <1>16, <1>17 DEF Steady
  <1>19. since[p] = Paths /\ dirty[i] = Paths => dirty'[i] = Paths
    BY <1>4
  <1>20. QuietFrame(p, i)
    BY <1>1, <1>3, <1>4, <1>19 DEF QuietFrame
  <1> QED
    BY <1>1, <1>3, <1>11, <1>18, <1>20, QuietIsFrame, StepGoesOn

(* p's operation is over; what it is about stays as it is on disk.         *)
LEMMA ClosesSound ==
  ASSUME IInv, NEW p \in Procs, NEW i, on[p] = i, i # None, Close(p),
         world' = world, plan' = plan,
         \A h \in Ids : h # i => journal'[h] = journal[h],
         journal'[i] = journal[i] \/ journal'[i] = None,
         orig' = orig, dirty' = dirty, done' = done
  PROVE  Sound'
  <1>1. i \in Ids /\ TypeOK /\ JournalSound(i)
    BY DoingFacts
  <1>2. /\ \A q \in Procs : q # p => /\ pc'[q] = pc[q] /\ on'[q] = on[q]
                                     /\ mine'[q] = mine[q]
                                     /\ found'[q] = found[q]
                                     /\ since'[q] = since[q]
        /\ on'[p] = None /\ since'[p] = {}
    BY <1>1 DEF Close, Over, Goto, TypeOK
  <1>3. JournalSound(i)'
    BY <1>1 DEF JournalSound, Recorded
  <1>4. QuietFrame(p, i)
    BY <1>2 DEF QuietFrame
  <1>5. done'[i] = done[i] /\ (dirty[i] = Paths => dirty'[i] = Paths)
    OBVIOUS
  <1> QED
    BY <1>1, <1>2, <1>3, <1>4, <1>5, QuietIsFrame, StepEnds

LEMMA CloseSound ==
  ASSUME IInv, NEW p \in Procs, NEW i, on[p] = i, i # None,
         RolledBack(p) \/ Undone(p)
  PROVE  Sound'
  <1>1. /\ Close(p) /\ world' = world /\ plan' = plan
        /\ orig' = orig /\ dirty' = dirty /\ done' = done
    BY DEF RolledBack, Undone
  <1>2. i \in Ids /\ DOMAIN journal = Ids
    BY DEF IInv, TypeOK
  <1>3. /\ \A h \in Ids : h # i => journal'[h] = journal[h]
        /\ journal'[i] = journal[i] \/ journal'[i] = None
    <2>1. CASE RolledBack(p)
      BY <1>2, <2>1 DEF RolledBack
    <2>2. CASE Undone(p)
      BY <2>2 DEF Undone
    <2> QED
      BY <2>1, <2>2
  <1> QED
    BY <1>1, <1>3, ClosesSound

(* A run to its end leaves its plan done.                                  *)
LEMMA MarkSound ==
  ASSUME IInv, NEW p \in Procs, NEW i, on[p] = i, i # None,
         NEW E, E = plan[i].edits, Mark(p)
  PROVE  Sound'
  <1>1. pc[p] = "check" /\ Len(mine[p]) = Len(E)
    BY DEF Mark, AllMade
  <1>2. /\ i \in Ids /\ TypeOK /\ JournalSound(i) /\ EditsOf(p) = E
        /\ JournalIsRuns(p) /\ RunShows(p) /\ Len(E) > 0 /\ Paths # {}
        /\ Planned(E) /\ mine[p] \in Seq(Steps) /\ Alone(p)
    BY DoingFacts
  <1>3. /\ world' = world /\ plan' = plan /\ journal' = journal
        /\ orig' = orig /\ dirty' = dirty /\ Close(p)
        /\ \A h \in Ids : h # i => done'[h] = done[h]
    BY <1>2 DEF Mark, TypeOK
  <1>4. /\ \A q \in Procs : q # p => /\ pc'[q] = pc[q] /\ on'[q] = on[q]
                                     /\ mine'[q] = mine[q]
                                     /\ found'[q] = found[q]
                                     /\ since'[q] = since[q]
        /\ on'[p] = None /\ since'[p] = {}
    BY <1>2, <1>3 DEF Close, Over, Goto, TypeOK
  <1>5. JournalSound(i)'
    BY <1>2, <1>3 DEF JournalSound, Recorded
  <1>6. QuietFrame(p, i)
    BY <1>3, <1>4 DEF QuietFrame
  <1>7. StaysDone(i)'
    <2> SUFFICES ASSUME Undisturbed(i, dirty[i])
        PROVE  /\ Recorded(i)' /\ Len(journal'[i]) = Len(E)
               /\ Showing(world', E, Len(E)) /\ ReadsHold(i)'
      BY <1>3 DEF StaysDone, Undisturbed
    <2>1. mine[p] # <<>>
      BY <1>1, <1>2
    <2>2. Undisturbed(i, since[p])
      BY <1>1, <1>2, <2>1 DEF JournalIsRuns, Runs, Undisturbed
    <2>3. /\ ReadsHold(i) /\ journal[i] = mine[p]
          /\ Showing(world, E, MadeCount(p))
      BY <1>1, <1>2, <2>1, <2>2 DEF RunShows
    <2>4. MadeCount(p) = Len(E)
      BY <1>1 DEF MadeCount
    <2>5. ReadsHold(i)'
      BY <1>3, <2>3 DEF ReadsHold, Touched
    <2>6. Recorded(i)
      BY <1>2, <2>3, NoneAssumption DEF Recorded
    <2> QED
      BY <1>1, <1>3, <2>3, <2>4, <2>5, <2>6 DEF Recorded
  <1> QED
    BY <1>2, <1>4, <1>5, <1>6, <1>7, QuietIsFrame, StepEnds

-----------------------------------------------------------------------------
(* Edits, inverses and writes cut short, against what is unwound.          *)

LEMMA UnwoundByMade ==
  ASSUME NEW edits, Planned(edits), NEW j \in Seq(Steps), Len(j) <= Len(edits),
         NEW w \in [Paths -> Contents], NEW o, NEW written,
         Unwound(edits, j, w, o, written),
         NEW m \in 1..Len(j), NEW e, e = edits[m],
         e.op = "move" /\ e.path \in Clean(edits, written)
           => w[e.path] = o[e.path],
         NEW v, v = Made(w, e)
  PROVE  Unwound(edits, j, v, o, written)
  <1>1. m \in 1..Len(edits)
    BY PlannedEdit
  <1>2. CASE e.op = "put"
    <2>1. e.path \in Paths /\ e.text \in Contents
      BY <1>1, <1>2, PlannedEdit
    <2>2. \A x \in Paths : x # e.path => v[x] = w[x]
      BY <1>2, <2>1, MadePut
    <2> QED
      BY <1>2, <2>2, UnwoundPut
  <1>3. CASE e.op = "move"
    <2>1. /\ e.path \in Paths /\ e.to \in Paths /\ e.to # e.path
          /\ EditPaths(e) = {e.path, e.to}
      BY <1>1, <1>3, PlannedEdit
    <2>2. /\ v[e.to] = w[e.path]
          /\ \A x \in Paths : x \notin EditPaths(e) => v[x] = w[x]
      BY <1>3, <2>1, MadeMove
    <2> QED
      BY <1>3, <2>2, UnwoundMoved
  <1> QED
    BY <1>1, <1>2, <1>3, PlannedEdit

LEMMA TornEditFacts ==
  ASSUME NEW w \in [Paths -> Contents], NEW e, e.path \in Paths,
         NEW v \in TornEdit(w, e)
  PROVE  /\ v \in [Paths -> Contents]
         /\ v = w \/ (e.op = "put" /\ \A x \in Paths : x # e.path => v[x] = w[x])
  <1>1. CASE e.op = "put"
    <2>1. v \in TornBy(w, e.path, e.text)
      BY <1>1 DEF TornEdit
    <2> QED
      BY <1>1, <2>1, TornByFacts
  <1>2. CASE e.op # "put"
    BY <1>2 DEF TornEdit
  <1> QED
    BY <1>1, <1>2

LEMMA TornStepFacts ==
  ASSUME NEW w \in [Paths -> Contents], NEW s, s.edit.path \in Paths,
         NEW v \in TornStep(w, s)
  PROVE  /\ v \in [Paths -> Contents]
         /\ v = w \/ (s.edit.op = "put"
                        /\ \A x \in Paths : x # s.edit.path => v[x] = w[x])
  <1>1. CASE s.edit.op = "put"
    <2>1. v \in TornBy(w, s.edit.path, s.was)
      BY <1>1 DEF TornStep
    <2> QED
      BY <1>1, <2>1, TornByFacts
  <1>2. CASE s.edit.op # "put"
    BY <1>2 DEF TornStep
  <1> QED
    BY <1>1, <1>2

(* A write cut short, of an edit or of its inverse.                        *)
LEMMA UnwoundByTorn ==
  ASSUME NEW edits, Planned(edits), NEW j \in Seq(Steps), Len(j) <= Len(edits),
         NEW w, NEW v, NEW o, NEW written,
         Unwound(edits, j, w, o, written),
         NEW m \in 1..Len(j), NEW e, e = edits[m],
         v = w \/ (e.op = "put" /\ \A x \in Paths : x # e.path => v[x] = w[x])
  PROVE  Unwound(edits, j, v, o, written)
  <1>1. CASE v = w
    BY <1>1
  <1>2. CASE e.op = "put" /\ \A x \in Paths : x # e.path => v[x] = w[x]
    BY <1>2, UnwoundPut
  <1> QED
    BY <1>1, <1>2

LEMMA UnwoundByUnmade ==
  ASSUME NEW edits, Planned(edits), NEW j \in Seq(Steps), Len(j) <= Len(edits),
         NEW w \in [Paths -> Contents], NEW o, NEW written,
         Unwound(edits, j, w, o, written),
         NEW m \in 1..Len(j), NEW s \in Steps, s.edit = edits[m],
         NEW v, v = Unmade(w, s)
  PROVE  Unwound(edits, j, v, o, written)
  <1> DEFINE e == s.edit
  <1>1. m \in 1..Len(edits) /\ s.was \in Contents
    BY PlannedEdit DEF Steps
  <1>2. CASE e.op = "put"
    <2>1. e.path \in Paths
      BY <1>1, <1>2, PlannedEdit
    <2>2. \A x \in Paths : x # e.path => v[x] = w[x]
      BY <1>1, <1>2, <2>1, UnmadePut
    <2> QED
      BY <1>2, <2>2, UnwoundPut
  <1>3. CASE e.op = "move"
    <2>0. edits[m].op = "move"
      BY <1>3
    <2>1. /\ edits[m].path \in Paths /\ edits[m].to \in Paths
          /\ edits[m].to # edits[m].path
          /\ EditPaths(edits[m]) = {edits[m].path, edits[m].to}
      BY <1>1, <2>0, PlannedEdit
    <2>2. /\ v[e.to] = Absent
          /\ \A x \in Paths : x \notin EditPaths(e) => v[x] = w[x]
      BY <1>3, <2>1, UnmadeMove
    <2> QED
      BY <1>3, <2>2, UnwoundMovedBack
  <1> QED
    BY <1>1, <1>2, <1>3, PlannedEdit

(* An inverse replayed is off the journal.                                 *)
LEMMA UnwoundInverted ==
  ASSUME NEW edits, Planned(edits), NEW j \in Seq(Steps), Len(j) <= Len(edits),
         \A k \in 1..Len(j) : j[k].edit = edits[k],
         NEW w \in [Paths -> Contents], NEW o, NEW written,
         Unwound(edits, j, w, o, written), j # <<>>,
         NEW s, s = j[Len(j)], CanUnmake(w, s),
         NEW v, v = Unmade(w, s)
  PROVE  Unwound(edits, SubSeq(j, 1, Len(j) - 1), v, o, written)
  <1> DEFINE n == Len(j)
  <1> DEFINE e == s.edit
  <1>1. /\ n \in Nat /\ n > 0 /\ n \in 1..Len(j) /\ n \in 1..Len(edits)
        /\ e = edits[n] /\ s \in Steps /\ s.was \in Contents
    <2>1. n \in Nat /\ n > 0
      BY ButLast
    <2>2. n \in 1..Len(j) /\ n \in 1..Len(edits)
      BY <2>1, PlannedEdit
    <2>3. s \in Steps
      BY <2>2
    <2> QED
      BY <2>1, <2>2, <2>3 DEF Steps
  <1>2. Unwound(edits, j, v, o, written)
    BY <1>1, UnwoundByUnmade
  <1>3. e.op = "put" => v[e.path] = s.was
    <2> SUFFICES ASSUME e.op = "put" PROVE v[e.path] = s.was
      OBVIOUS
    <2>1. e.path \in Paths
      BY <1>1, PlannedEdit
    <2> QED
      BY <1>1, <2>1, UnmadePut
  <1>4. ASSUME e.op = "move"
        PROVE  /\ v[e.to] = Absent
               /\ e.path \in Clean(edits, written) => v[e.path] = o[e.path]
    <2>1. /\ e.path \in Paths /\ e.to \in Paths /\ e.to # e.path
      BY <1>1, <1>4, PlannedEdit
    <2>2. v[e.to] = Absent /\ v[e.path] = w[e.to]
      BY <1>4, <2>1, UnmadeMove
    <2>3. w[e.to] # Absent
      BY <1>4 DEF CanUnmake
    <2>4. e.path \in Clean(edits, written) => w[e.to] \in {o[e.path], Absent}
      BY <1>1, <1>4 DEF Unwound
    <2> QED
      BY <2>2, <2>3, <2>4
  <1>5. edits[Len(j)] = e /\ j[Len(j)].was = s.was
    BY <1>1
  <1> HIDE DEF e
  <1> QED
    BY <1>2, <1>3, <1>4, <1>5, UnwoundPopped

-----------------------------------------------------------------------------
(* What p writes, everybody else notes.                                    *)
LEMMA WrittenFrame ==
  ASSUME TypeOK, NEW p \in Procs, NEW i \in Ids, on[p] = i,
         WrittenBy(p), NEW c, c = {x \in Paths : world'[x] # world[x]},
         plan' = plan, on'[p] \in {i, None},
         \A q \in Procs : q # p =>
           /\ pc'[q] = pc[q] /\ on'[q] = on[q]
           /\ mine'[q] = mine[q] /\ found'[q] = found[q],
         orig' = orig, done' = done,
         \A h \in Ids : h # i => journal'[h] = journal[h]
  PROVE  /\ Frame(p, i, c) /\ c \in SUBSET Paths
         /\ dirty'[i] = dirty[i]
         /\ pc'[p] # "idle" => since'[p] = since[p]
  <1>1. \A q \in Procs : q # p /\ on[q] # None => since'[q] = since[q] \cup c
    <2> SUFFICES ASSUME NEW q \in Procs, q # p, on[q] # None
        PROVE since'[q] = since[q] \cup c
      OBVIOUS
    <2>1. pc'[q] # "idle"
      BY DEF TypeOK
    <2> QED
      BY <2>1 DEF WrittenBy
  <1>2. /\ pc'[p] # "idle" => since'[p] = since[p]
        /\ pc'[p] = "idle" => since'[p] = {}
    BY DEF WrittenBy
  <1>3. since'[p] \subseteq Paths
    BY <1>2 DEF TypeOK
  <1>4. dirty'[i] = dirty[i]
    BY DEF WrittenBy
  <1>5. \A h \in Ids : h # i /\ plan[h] # None => dirty'[h] = dirty[h] \cup c
    BY DEF WrittenBy
  <1>6. \A x \in Paths : x \notin c => world'[x] = world[x]
    OBVIOUS
  <1> QED
    BY <1>1, <1>2, <1>3, <1>4, <1>5, <1>6 DEF Frame

(* The journal of an id someone is about covers what he is to write.       *)
LEMMA Covered ==
  ASSUME IInv, NEW p \in Procs, NEW i, on[p] = i, i # None, Recorded(i),
         dirty[i] # Paths, mine[p] # <<>>
  PROVE  /\ Len(mine[p]) \in 1..Len(journal[i])
         /\ journal[i] \in Seq(Steps) /\ Len(journal[i]) <= Len(plan[i].edits)
         /\ Unwound(plan[i].edits, journal[i], world, orig[i], dirty[i])
  <1>1. /\ i \in Ids /\ TypeOK /\ PlanSound(i) /\ JournalSound(i)
        /\ JournalCovers(p) /\ mine[p] \in Seq(Steps)
    BY DoingFacts
  <1>2. /\ journal[i] \in Seq(Steps) /\ Len(journal[i]) \in Nat
        /\ Len(journal[i]) <= Len(plan[i].edits)
    BY <1>1, JournalTyped
  <1>3. Len(mine[p]) <= Len(journal[i])
    BY <1>1 DEF JournalCovers
  <1>4. Len(mine[p]) \in Nat /\ Len(mine[p]) > 0
    BY <1>1
  <1> QED
    BY <1>1, <1>2, <1>3, <1>4 DEF JournalSound

LEMMA ApplySound ==
  ASSUME IInv, NEW p \in Procs, NEW i, on[p] = i, i # None,
         NEW E, E = plan[i].edits, Apply(p)
  PROVE  Sound'
  <1> DEFINE n == Len(mine[p])
  <1> DEFINE e == E[n]
  <1>1. pc[p] = "apply" /\ CanMake(world, Current(p))
    BY DEF Apply
  <1>2. /\ i \in Ids /\ TypeOK /\ PlanSound(i) /\ JournalSound(i)
        /\ EditsOf(p) = E /\ Runs(p)
        /\ RunUnwinds(p) /\ JournalCovers(p) /\ JournalIsRuns(p)
        /\ MoveFresh(p) /\ RunShows(p) /\ plan[i] # None
        /\ Planned(E) /\ Len(E) \in Nat
        /\ mine[p] \in Seq(Steps) /\ n \in Nat /\ n <= Len(E) /\ n > 0
        /\ \A k \in 1..n : mine[p][k].edit = E[k]
        /\ world \in [Paths -> Contents]
        /\ DOMAIN plan[i].bound \subseteq Paths
    BY <1>1, DoingFacts DEF Runs
  <1>3. Current(p) = e /\ n \in 1..Len(mine[p]) /\ n \in 1..Len(E)
    BY <1>2 DEF Current
  <1>4. /\ pc'[p] = "check" /\ \A q \in Procs : q # p => pc'[q] = pc[q]
        /\ world' = Made(world, e) /\ WrittenBy(p)
        /\ plan' = plan /\ journal' = journal /\ on' = on /\ mine' = mine
        /\ found' = found /\ orig' = orig /\ done' = done
    BY <1>2, <1>3 DEF Apply, Goto, TypeOK
  <1> HIDE DEF e
  <1>5. PICK c : c = {x \in Paths : world'[x] # world[x]}
    OBVIOUS
  <1>6. /\ Frame(p, i, c) /\ c \in SUBSET Paths
        /\ dirty'[i] = dirty[i] /\ since'[p] = since[p]
    <2>1. on'[p] \in {i, None} /\ pc'[p] # "idle"
      BY <1>4
    <2>2. \A q \in Procs : q # p =>
           /\ pc'[q] = pc[q] /\ on'[q] = on[q]
           /\ mine'[q] = mine[q] /\ found'[q] = found[q]
      BY <1>4
    <2>3. \A h \in Ids : h # i => journal'[h] = journal[h]
      BY <1>4
    <2> QED
      BY <1>2, <1>4, <1>5, <2>1, <2>2, <2>3, WrittenFrame
  <1>7. PICK v : v = Made(world, e)
    OBVIOUS
  <1>8. e.op = "move" /\ e.path \in Clean(E, since[p])
          => world[e.path] = found[p][e.path]
    BY <1>1, <1>2, <1>3 DEF MoveFresh
  <1>9. Unwound(E, mine[p], v, found[p], since[p])
    <2>1. PICK o : o = found[p]
      OBVIOUS
    <2>2. PICK w : w = world
      OBVIOUS
    <2>3. Unwound(E, mine[p], w, o, since[p])
      BY <1>2, <2>1, <2>2 DEF RunUnwinds
    <2>4. /\ e.op = "move" /\ e.path \in Clean(E, since[p]) => w[e.path] = o[e.path]
          /\ w \in [Paths -> Contents] /\ v = Made(w, e)
      BY <1>2, <1>7, <1>8, <2>1, <2>2
    <2>5. Unwound(E, mine[p], v, o, since[p])
      BY <1>2, <1>3, <2>3, <2>4, UnwoundByMade DEF e
    <2> QED
      BY <2>1, <2>5
  <1>10. JournalSound(i)'
    <2> SUFFICES ASSUME Recorded(i), dirty[i] # Paths
        PROVE Unwound(E, journal[i], v, orig[i], dirty[i])
      BY <1>4, <1>6, <1>7, UnwoundNowhere DEF JournalSound, Recorded
    <2>1. PICK o : o = orig[i]
      OBVIOUS
    <2>2. PICK w : w = world
      OBVIOUS
    <2>3. /\ n \in 1..Len(journal[i])
          /\ journal[i] \in Seq(Steps) /\ Len(journal[i]) <= Len(E)
          /\ Unwound(E, journal[i], w, o, dirty[i])
      BY <1>2, <2>1, <2>2, Covered
    <2>4. since[p] \subseteq dirty[i] /\ o = found[p]
      BY <1>2, <2>1 DEF JournalIsRuns
    <2>5. /\ e.op = "move" /\ e.path \in Clean(E, dirty[i]) => w[e.path] = o[e.path]
          /\ w \in [Paths -> Contents] /\ v = Made(w, e)
      BY <1>2, <1>7, <1>8, <2>2, <2>4, CleanSmaller
    <2>6. Unwound(E, journal[i], v, o, dirty[i])
      BY <1>2, <2>3, <2>5, UnwoundByMade DEF e
    <2> QED
      BY <2>1, <2>6
  <1>11. EditsOf(p)' = E
    BY <1>4 DEF EditsOf
  <1>12. RunUnwinds(p)'
    BY <1>4, <1>6, <1>7, <1>9, <1>11 DEF RunUnwinds
  <1>13. JournalCovers(p)' /\ JournalIsRuns(p)'
    BY <1>2, <1>4, <1>6 DEF JournalCovers, JournalIsRuns, Recorded, Runs
  <1>14. RunShows(p)'
    <2> SUFFICES ASSUME Undisturbed(i, since[p])
        PROVE  /\ ReadsHold(i)'
               /\ mine[p] # <<>> => journal[i] = mine[p]
               /\ Showing(v, E, n)
      <3>1. MadeCount(p)' = n
        BY <1>4 DEF MadeCount
      <3> QED
        BY <1>4, <1>6, <1>7, <1>11, <3>1 DEF RunShows, Undisturbed
    <2>1. /\ ReadsHold(i) /\ (mine[p] # <<>> => journal[i] = mine[p])
          /\ Showing(world, E, n - 1)
      BY <1>1, <1>2 DEF RunShows, MadeCount
    <2>2. Showing(v, E, n)
      BY <1>1, <1>2, <1>3, <1>7, <2>1, ShowingMade DEF e
    <2>3. \A x \in Paths : x \notin EditPaths(e) => world'[x] = world[x]
      <3>1. CASE e.op = "put"
        <4>1. /\ e.path \in Paths /\ e.text \in Contents
              /\ EditPaths(e) = {e.path}
          BY <1>2, <1>3, <3>1, PlannedEdit DEF e
        <4> QED
          BY <1>2, <1>4, <3>1, <4>1, MadePut
      <3>2. CASE e.op = "move"
        <4>1. /\ e.path \in Paths /\ e.to \in Paths /\ e.to # e.path
              /\ EditPaths(e) = {e.path, e.to}
          BY <1>2, <1>3, <3>2, PlannedEdit DEF e
        <4> QED
          BY <1>2, <1>4, <3>2, <4>1, MadeMove
      <3> QED
        BY <1>2, <1>3, <3>1, <3>2, PlannedEdit DEF e
    <2>4. EditPaths(e) \subseteq Touched(i)
      BY <1>3 DEF Touched, TouchedBy, e
    <2>5. ReadsHold(i)'
      BY <1>2, <1>4, <2>1, <2>3, <2>4 DEF ReadsHold, Touched
    <2> QED
      BY <2>1, <2>2, <2>5
  <1>15. Steady(p)'
    BY <1>4, <1>12, <1>13, <1>14, SteadyInCheck
  <1>16. on'[p] = i /\ done'[i] = done[i] /\ since[p] \subseteq since'[p]
    BY <1>4, <1>6
  <1> QED
    BY <1>2, <1>6, <1>10, <1>15, <1>16, StepGoesOn

(* The write that was cut short is of the newest step, if it is at all.    *)
TornAt(p, E, w, v) ==
    \/ v = w
    \/ /\ mine[p] # <<>> /\ E[Len(mine[p])].op = "put"
       /\ \A x \in Paths : x # E[Len(mine[p])].path => v[x] = w[x]

LEMMA TornAtEdit ==
  ASSUME IInv, NEW p \in Procs, NEW i, on[p] = i, i # None,
         NEW E, E = plan[i].edits, mine[p] # <<>>,
         NEW v, v \in TornEdit(world, Current(p)) \/ v \in TornStep(world, Newest(p))
  PROVE  v \in [Paths -> Contents] /\ TornAt(p, E, world, v)
  <1> DEFINE n == Len(mine[p])
  <1>1. /\ Planned(E) /\ mine[p] \in Seq(Steps) /\ n \in Nat
        /\ n <= Len(E) /\ world \in [Paths -> Contents]
        /\ \A k \in 1..n : mine[p][k].edit = E[k]
    BY DoingFacts
  <1>2. n \in 1..Len(mine[p]) /\ n \in 1..Len(E)
    BY <1>1, PlannedEdit
  <1>3. /\ Current(p) = E[n] /\ Newest(p).edit = E[n] /\ E[n].path \in Paths
    BY <1>1, <1>2, PlannedEdit DEF Current, Newest
  <1>4. PICK w : w = world
    OBVIOUS
  <1>5. PICK s : s = Newest(p)
    OBVIOUS
  <1>6. PICK e : e = Current(p)
    OBVIOUS
  <1>7. CASE v \in TornEdit(w, e)
    BY <1>1, <1>3, <1>4, <1>6, <1>7, TornEditFacts DEF TornAt
  <1>8. CASE v \in TornStep(w, s)
    <2>1. s.edit = E[n] /\ s.edit.path \in Paths /\ w \in [Paths -> Contents]
      BY <1>1, <1>3, <1>4, <1>5
    <2>2. /\ v \in [Paths -> Contents]
          /\ v = w \/ (s.edit.op = "put"
                        /\ \A x \in Paths : x # s.edit.path => v[x] = w[x])
      BY <1>8, <2>1, TornStepFacts
    <2>3. CASE v = w
      BY <1>4, <2>2, <2>3 DEF TornAt
    <2>4. CASE s.edit.op = "put" /\ \A x \in Paths : x # s.edit.path => v[x] = w[x]
      BY <1>4, <2>1, <2>2, <2>4 DEF TornAt
    <2> QED
      BY <2>2, <2>3, <2>4
  <1> QED
    BY <1>4, <1>5, <1>6, <1>7, <1>8

LEMMA TornJournal ==
  ASSUME IInv, NEW p \in Procs, NEW i, on[p] = i, i # None,
         NEW E, E = plan[i].edits, TornAt(p, E, world, world'),
         journal'[i] = journal[i] \/ journal'[i] = Torn,
         plan' = plan, orig' = orig, dirty'[i] = dirty[i]
  PROVE  JournalSound(i)'
  <1> SUFFICES ASSUME Recorded(i), dirty[i] # Paths
      PROVE Unwound(E, journal[i], world', orig[i], dirty[i])
    BY UnwoundNowhere DEF JournalSound, Recorded
  <1>1. JournalSound(i) /\ Planned(E)
    BY DoingFacts
  <1>2. CASE world' = world
    BY <1>1, <1>2 DEF JournalSound
  <1>3. CASE world' # world
    <2>1. PICK v : v = world'
      OBVIOUS
    <2>2. PICK w : w = world
      OBVIOUS
    <2>3. /\ mine[p] # <<>> /\ E[Len(mine[p])].op = "put"
          /\ \A x \in Paths : x # E[Len(mine[p])].path => v[x] = w[x]
      BY <1>3, <2>1, <2>2 DEF TornAt
    <2>4. /\ Len(mine[p]) \in 1..Len(journal[i])
          /\ journal[i] \in Seq(Steps) /\ Len(journal[i]) <= Len(E)
          /\ Unwound(E, journal[i], w, orig[i], dirty[i])
      BY <2>2, <2>3, Covered
    <2>5. Unwound(E, journal[i], v, orig[i], dirty[i])
      BY <1>1, <2>3, <2>4, UnwoundPut
    <2> QED
      BY <2>1, <2>5
  <1> QED
    BY <1>2, <1>3

LEMMA ApplyFailSound ==
  ASSUME IInv, NEW p \in Procs, NEW i, on[p] = i, i # None,
         NEW E, E = plan[i].edits, ApplyFail(p)
  PROVE  Sound'
  <1> DEFINE n == Len(mine[p])
  <1>1. pc[p] = "apply" /\ world' \in TornEdit(world, Current(p))
    BY DEF ApplyFail
  <1>2. /\ i \in Ids /\ TypeOK /\ EditsOf(p) = E /\ Runs(p)
        /\ RunUnwinds(p) /\ JournalCovers(p) /\ JournalIsRuns(p)
        /\ Planned(E) /\ mine[p] \in Seq(Steps) /\ n \in Nat /\ n > 0
        /\ n <= Len(E)
    BY <1>1, DoingFacts DEF Runs
  <1>3. /\ pc'[p] = "rollback" /\ \A q \in Procs : q # p => pc'[q] = pc[q]
        /\ WrittenBy(p)
        /\ plan' = plan /\ journal' = journal /\ on' = on /\ mine' = mine
        /\ found' = found /\ orig' = orig /\ done' = done
    BY <1>2 DEF ApplyFail, Goto, TypeOK
  <1>4. PICK c : c = {x \in Paths : world'[x] # world[x]}
    OBVIOUS
  <1>5. /\ Frame(p, i, c) /\ c \in SUBSET Paths
        /\ dirty'[i] = dirty[i] /\ since'[p] = since[p]
    <2>1. on'[p] \in {i, None} /\ pc'[p] # "idle"
      BY <1>3
    <2>2. \A q \in Procs : q # p =>
           /\ pc'[q] = pc[q] /\ on'[q] = on[q]
           /\ mine'[q] = mine[q] /\ found'[q] = found[q]
      BY <1>3
    <2>3. \A h \in Ids : h # i => journal'[h] = journal[h]
      BY <1>3
    <2> QED
      BY <1>2, <1>3, <1>4, <2>1, <2>2, <2>3, WrittenFrame
  <1>6. mine[p] # <<>> /\ n \in 1..Len(mine[p])
    BY <1>2
  <1>7. TornAt(p, E, world, world')
    BY <1>1, <1>6, TornAtEdit
  <1>8. JournalSound(i)'
    BY <1>3, <1>5, <1>7, TornJournal
  <1>9. EditsOf(p)' = E
    BY <1>3 DEF EditsOf
  <1>10. RunUnwinds(p)'
    <2>1. PICK v : v = world'
      OBVIOUS
    <2>2. PICK w : w = world
      OBVIOUS
    <2>3. PICK o : o = found[p]
      OBVIOUS
    <2>4. Unwound(E, mine[p], w, o, since[p])
      BY <1>2, <2>2, <2>3 DEF RunUnwinds
    <2>5. v = w \/ (E[n].op = "put" /\ \A x \in Paths : x # E[n].path => v[x] = w[x])
      BY <1>7, <2>1, <2>2 DEF TornAt
    <2>6. Unwound(E, mine[p], v, o, since[p])
      BY <1>2, <1>6, <2>4, <2>5, UnwoundByTorn
    <2> QED
      BY <1>3, <1>5, <1>9, <2>1, <2>3, <2>6 DEF RunUnwinds
  <1>11. JournalCovers(p)' /\ JournalIsRuns(p)'
    BY <1>2, <1>3, <1>5 DEF JournalCovers, JournalIsRuns, Recorded, Runs
  <1>12. Steady(p)'
    BY <1>3, <1>10, <1>11, SteadyInRollback
  <1>13. on'[p] = i /\ done'[i] = done[i] /\ since[p] \subseteq since'[p]
    BY <1>3, <1>5
  <1> QED
    BY <1>2, <1>5, <1>8, <1>12, <1>13, StepGoesOn

(* p ends in the middle of a write: killed, or unable to go on.            *)
LEMMA CutShort ==
  ASSUME IInv, NEW p \in Procs, NEW i, on[p] = i, i # None,
         NEW E, E = plan[i].edits, Over(p), WrittenBy(p),
         TornAt(p, E, world, world'),
         journal'[i] = journal[i] \/ journal'[i] = Torn,
         \A h \in Ids : h # i => journal'[h] = journal[h],
         plan' = plan, orig' = orig, done' = done
  PROVE  Sound'
  <1>1. i \in Ids /\ TypeOK
    BY DoingFacts
  <1>2. /\ pc'[p] = "idle" /\ on'[p] = None
        /\ \A q \in Procs : q # p => /\ pc'[q] = pc[q] /\ on'[q] = on[q]
                                     /\ mine'[q] = mine[q]
                                     /\ found'[q] = found[q]
    BY <1>1 DEF Over, Goto, TypeOK
  <1>3. PICK c : c = {x \in Paths : world'[x] # world[x]}
    OBVIOUS
  <1>4. Frame(p, i, c) /\ c \in SUBSET Paths /\ dirty'[i] = dirty[i]
    <2>1. on'[p] \in {i, None}
      BY <1>2
    <2> QED
      BY <1>1, <1>2, <1>3, <2>1, WrittenFrame
  <1>5. JournalSound(i)'
    BY <1>4, TornJournal
  <1>6. done'[i] = done[i] /\ (dirty[i] = Paths => dirty'[i] = Paths)
    BY <1>4
  <1> QED
    BY <1>1, <1>2, <1>4, <1>5, <1>6, StepEnds

LEMMA InvertFailSound ==
  ASSUME IInv, NEW p \in Procs, NEW i, on[p] = i, i # None,
         NEW E, E = plan[i].edits, InvertFail(p)
  PROVE  Sound'
  <1>1. /\ mine[p] # <<>> /\ world' \in TornStep(world, Newest(p))
        /\ Over(p) /\ WrittenBy(p)
        /\ plan' = plan /\ journal' = journal /\ orig' = orig /\ done' = done
    BY DEF InvertFail, Inverting
  <1>2. TornAt(p, E, world, world')
    BY <1>1, TornAtEdit
  <1>3. /\ journal'[i] = journal[i] \/ journal'[i] = Torn
        /\ \A h \in Ids : h # i => journal'[h] = journal[h]
    BY <1>1
  <1> QED
    BY <1>1, <1>2, <1>3, CutShort

LEMMA KillSound ==
  ASSUME IInv, NEW p \in Procs, NEW i, on[p] = i, i # None,
         NEW E, E = plan[i].edits, Kill(p)
  PROVE  Sound'
  <1>1. /\ Over(p) /\ WrittenBy(p)
        /\ plan' = plan /\ orig' = orig /\ done' = done
    BY DEF Kill
  <1>2. i \in Ids /\ TypeOK /\ (pc[p] = "apply" => Len(mine[p]) > 0)
        /\ mine[p] \in Seq(Steps)
    BY DoingFacts
  <1>3. /\ journal'[i] = journal[i] \/ journal'[i] = Torn
        /\ \A h \in Ids : h # i => journal'[h] = journal[h]
    <2>1. CASE pc[p] = "capture"
      BY <1>2, <2>1 DEF Kill, TypeOK
    <2>2. CASE pc[p] # "capture"
      BY <2>2 DEF Kill
    <2> QED
      BY <2>1, <2>2
  <1>4. TornAt(p, E, world, world')
    <2>1. CASE pc[p] = "apply"
      <3>1. world' \in TornEdit(world, Current(p)) /\ mine[p] # <<>>
        BY <1>2, <2>1 DEF Kill
      <3> QED
        BY <3>1, TornAtEdit
    <2>2. CASE pc[p] # "apply" /\ Inverting(p)
      <3>1. world' \in TornStep(world, Newest(p)) /\ mine[p] # <<>>
        BY <2>2 DEF Kill, Inverting
      <3> QED
        BY <3>1, TornAtEdit
    <2>3. CASE pc[p] # "apply" /\ ~Inverting(p)
      BY <2>3 DEF Kill, TornAt
    <2> QED
      BY <2>1, <2>2, <2>3
  <1> QED
    BY <1>1, <1>3, <1>4, CutShort

LEMMA InvertSound ==
  ASSUME IInv, NEW p \in Procs, NEW i, on[p] = i, i # None,
         NEW E, E = plan[i].edits, Invert(p)
  PROVE  Sound'
  <1> DEFINE n == Len(mine[p])
  <1> DEFINE r == SubSeq(mine[p], 1, n - 1)
  <1>1. /\ pc[p] \in {"rollback", "undo"} /\ mine[p] # <<>>
        /\ CanUnmake(world, Newest(p))
    BY DEF Invert, Inverting
  <1>2. /\ i \in Ids /\ TypeOK /\ EditsOf(p) = E
        /\ RunUnwinds(p) /\ UndoUnwinds(p)
        /\ JournalCovers(p) /\ JournalIsRuns(p) /\ UndoKeeps(p)
        /\ Planned(E) /\ Len(E) \in Nat
        /\ mine[p] \in Seq(Steps) /\ n \in Nat /\ n <= Len(E)
        /\ \A k \in 1..n : mine[p][k].edit = E[k]
        /\ world \in [Paths -> Contents]
    BY DoingFacts
  <1>3. PICK s : s = Newest(p)
    OBVIOUS
  <1>4. n > 0 /\ n \in 1..Len(mine[p]) /\ n \in 1..Len(E)
    BY <1>1, <1>2
  <1>5. /\ s = mine[p][Len(mine[p])] /\ s \in Steps /\ s.edit = E[n]
        /\ s.was \in Contents
    <2>1. s = mine[p][n] /\ mine[p][n] \in Steps
      BY <1>2, <1>3, <1>4 DEF Newest
    <2>2. mine[p][n].was \in Contents
      BY <2>1 DEF Steps
    <2> QED
      BY <1>2, <1>4, <2>1, <2>2
  <1>6. /\ pc' = pc /\ world' = Unmade(world, s) /\ WrittenBy(p)
        /\ mine'[p] = r /\ \A q \in Procs : q # p => mine'[q] = mine[q]
        /\ plan' = plan /\ journal' = journal /\ on' = on
        /\ found' = found /\ orig' = orig /\ done' = done
    BY <1>2, <1>3 DEF Invert, TypeOK
  <1>7. r \in Seq(Steps) /\ Len(r) = n - 1
    BY <1>1, <1>2, ButLast
  <1>8. PICK c : c = {x \in Paths : world'[x] # world[x]}
    OBVIOUS
  <1>9. /\ Frame(p, i, c) /\ c \in SUBSET Paths
        /\ dirty'[i] = dirty[i] /\ since'[p] = since[p]
    <2>1. on'[p] \in {i, None} /\ pc'[p] # "idle"
      BY <1>1, <1>6
    <2>2. \A q \in Procs : q # p =>
           /\ pc'[q] = pc[q] /\ on'[q] = on[q]
           /\ mine'[q] = mine[q] /\ found'[q] = found[q]
      BY <1>6
    <2>3. \A h \in Ids : h # i => journal'[h] = journal[h]
      BY <1>6
    <2> QED
      BY <1>2, <1>6, <1>8, <2>1, <2>2, <2>3, WrittenFrame
  <1>10. PICK w : w = world
    OBVIOUS
  <1>11. PICK v : v = Unmade(w, s)
    OBVIOUS
  <1>12. world' = v /\ w \in [Paths -> Contents] /\ CanUnmake(w, s)
    BY <1>1, <1>2, <1>3, <1>6, <1>10, <1>11
  <1>13. JournalSound(i)'
    <2> SUFFICES ASSUME Recorded(i), dirty[i] # Paths
        PROVE Unwound(E, journal[i], v, orig[i], dirty[i])
      BY <1>6, <1>9, <1>12, UnwoundNowhere DEF JournalSound, Recorded
    <2>1. PICK o : o = orig[i]
      OBVIOUS
    <2>2. /\ n \in 1..Len(journal[i])
          /\ journal[i] \in Seq(Steps) /\ Len(journal[i]) <= Len(E)
          /\ Unwound(E, journal[i], w, o, dirty[i])
      BY <1>1, <1>10, <2>1, Covered
    <2>3. Unwound(E, journal[i], v, o, dirty[i])
      BY <1>2, <1>5, <1>11, <1>12, <2>2, UnwoundByUnmade
    <2> QED
      BY <2>1, <2>3
  <1>14. EditsOf(p)' = E
    BY <1>6 DEF EditsOf
  <1>15. ASSUME NEW o, NEW written, Unwound(E, mine[p], w, o, written)
         PROVE  Unwound(E, r, v, o, written)
    BY <1>1, <1>2, <1>5, <1>11, <1>12, <1>15, UnwoundInverted
  <1> HIDE DEF r
  <1>16. RunUnwinds(p)'
    <2> SUFFICES ASSUME Runs(p)
        PROVE Unwound(E, r, v, found[p], since[p])
      BY <1>6, <1>9, <1>12, <1>14 DEF RunUnwinds, Runs
    <2>1. Unwound(E, mine[p], w, found[p], since[p])
      BY <1>2, <1>10 DEF RunUnwinds
    <2> QED
      BY <1>15, <2>1
  <1>17. UndoUnwinds(p)'
    <2> SUFFICES ASSUME pc[p] = "undo"
        PROVE Unwound(E, r, v, orig[i], dirty[i])
      BY <1>6, <1>9, <1>12, <1>14 DEF UndoUnwinds
    <2>1. Unwound(E, mine[p], w, orig[i], dirty[i])
      BY <1>2, <1>10 DEF UndoUnwinds
    <2> QED
      BY <1>15, <2>1
  <1>18. JournalCovers(p)'
    <2> SUFFICES ASSUME Recorded(i), dirty[i] # Paths
        PROVE n - 1 <= Len(journal[i])
      BY <1>6, <1>7, <1>9 DEF JournalCovers, Recorded
    <2>1. n \in 1..Len(journal[i]) /\ journal[i] \in Seq(Steps)
      BY <1>1, Covered
    <2>2. Len(journal[i]) \in Nat
      BY <2>1
    <2> QED
      BY <1>2, <2>1, <2>2
  <1>19. JournalIsRuns(p)'
    BY <1>1, <1>2, <1>6, <1>9 DEF JournalIsRuns, Runs
  <1>20. UndoKeeps(p)'
    <2> SUFFICES ASSUME pc[p] = "undo"
        PROVE Kept(v, E, n - 1, since[p])
      BY <1>6, <1>7, <1>9, <1>12, <1>14 DEF UndoKeeps
    <2>1. Kept(w, E, n, since[p])
      BY <1>2, <1>10 DEF UndoKeeps
    <2>2. \A x \in Paths : x \notin EditPaths(E[n]) => v[x] = w[x]
      <3> DEFINE e == E[n]
      <3>1. CASE e.op = "put"
        <4>1. e.path \in Paths /\ EditPaths(e) = {e.path}
          BY <1>2, <1>4, <3>1, PlannedEdit
        <4>2. \A x \in Paths : x # s.edit.path => v[x] = w[x]
          BY <1>5, <1>11, <1>12, <3>1, <4>1, UnmadePut
        <4> QED
          BY <1>5, <4>1, <4>2
      <3>2. CASE e.op = "move"
        <4>1. /\ e.path \in Paths /\ e.to \in Paths /\ e.to # e.path
              /\ EditPaths(e) = {e.path, e.to}
          BY <1>2, <1>4, <3>2, PlannedEdit
        <4>2. \A x \in Paths : x \notin {s.edit.path, s.edit.to} => v[x] = w[x]
          BY <1>5, <1>11, <1>12, <3>2, <4>1, UnmadeMove
        <4> QED
          BY <1>5, <4>1, <4>2
      <3> QED
        BY <1>2, <1>4, <3>1, <3>2, PlannedEdit
    <2> QED
      BY <1>2, <1>4, <2>1, <2>2, KeptUnmade
  <1>21. Steady(p)'
    <2>1. pc'[p] = "rollback" \/ pc'[p] = "undo"
      BY <1>1, <1>6
    <2>2. CASE pc'[p] = "rollback"
      BY <1>16, <1>18, <1>19, <2>2, SteadyInRollback
    <2>3. CASE pc'[p] = "undo"
      BY <1>17, <1>18, <1>20, <2>3, SteadyInUndo
    <2> QED
      BY <2>1, <2>2, <2>3
  <1>22. on'[p] = i /\ done'[i] = done[i] /\ since[p] \subseteq since'[p]
    BY <1>6, <1>9
  <1> QED
    BY <1>2, <1>9, <1>13, <1>21, <1>22, StepGoesOn

LEMMA RemoveIgnoredSound ==
  ASSUME IInv, NEW p \in Procs, NEW i, on[p] = i, i # None,
         NEW E, E = plan[i].edits, RemoveIgnored(p)
  PROVE  Sound'
  <1> DEFINE n == Len(mine[p])
  <1> DEFINE r == SubSeq(mine[p], 1, n - 1)
  <1>1. /\ pc[p] \in {"rollback", "undo"} /\ mine[p] # <<>>
        /\ Removes(Newest(p))
    BY DEF RemoveIgnored, Inverting
  <1>2. /\ i \in Ids /\ TypeOK /\ EditsOf(p) = E /\ PlanSound(i) /\ JournalSound(i)
        /\ RunUnwinds(p) /\ UndoUnwinds(p)
        /\ JournalCovers(p) /\ JournalIsRuns(p) /\ UndoKeeps(p)
        /\ Planned(E) /\ Len(E) \in Nat
        /\ mine[p] \in Seq(Steps) /\ n \in Nat /\ n <= Len(E)
        /\ \A k \in 1..n : mine[p][k].edit = E[k]
        /\ since[p] \subseteq Paths /\ dirty[i] \subseteq Paths
    BY DoingFacts
  <1>3. PICK x : x = E[n].path
    OBVIOUS
  <1>4. n > 0 /\ n \in 1..Len(mine[p]) /\ n \in 1..Len(E)
    BY <1>1, <1>2
  <1>5. Newest(p).edit = E[n] /\ E[n].op = "put" /\ x \in Paths
    BY <1>1, <1>2, <1>3, <1>4, PlannedEdit DEF Newest, Removes
  <1>6. /\ pc' = pc /\ world' = world
        /\ mine'[p] = r /\ \A q \in Procs : q # p => mine'[q] = mine[q]
        /\ since'[p] = since[p] \cup {x}
        /\ \A q \in Procs : q # p => since'[q] = since[q]
        /\ dirty'[i] = dirty[i] \cup {x}
        /\ \A h \in Ids : h # i => dirty'[h] = dirty[h]
        /\ plan' = plan /\ journal' = journal /\ on' = on
        /\ found' = found /\ orig' = orig /\ done' = done
    BY <1>2, <1>3, <1>5 DEF RemoveIgnored, TypeOK, disk
  <1>7. r \in Seq(Steps) /\ Len(r) = n - 1
    BY <1>1, <1>2, ButLast
  <1>8. EditsOf(p)' = E
    BY <1>6 DEF EditsOf
  <1>9. ASSUME NEW o, NEW written, NEW w, Unwound(E, mine[p], w, o, written)
        PROVE  Unwound(E, r, w, o, written \cup {x})
    <2>1. PICK after : after = written \cup {x}
      OBVIOUS
    <2>2. Unwound(E, mine[p], w, o, after)
      BY <1>2, <1>9, <2>1, UnwoundDisturbed
    <2>3. E[n].path \in after /\ E[n].op # "move"
      BY <1>3, <1>5, <2>1
    <2>4. Unwound(E, r, w, o, after)
      BY <1>1, <1>2, <2>2, <2>3, UnwoundPopped
    <2> QED
      BY <2>1, <2>4
  <1>10. JournalSound(i)'
    <2> SUFFICES ASSUME Recorded(i)
        PROVE Unwound(E, journal[i], world, orig[i], dirty[i] \cup {x})
      BY <1>6 DEF JournalSound, Recorded
    <2>1. journal[i] \in Seq(Steps) /\ Len(journal[i]) <= Len(E)
      BY <1>2, JournalTyped
    <2>2. PICK after : after = dirty[i] \cup {x}
      OBVIOUS
    <2>3. Unwound(E, journal[i], world, orig[i], dirty[i])
      BY <1>2 DEF JournalSound
    <2>4. Unwound(E, journal[i], world, orig[i], after)
      BY <1>2, <2>1, <2>2, <2>3, UnwoundDisturbed
    <2> QED
      BY <2>2, <2>4
  <1> HIDE DEF r
  <1>11. RunUnwinds(p)'
    <2> SUFFICES ASSUME Runs(p)
        PROVE Unwound(E, r, world, found[p], since[p] \cup {x})
      BY <1>6, <1>8 DEF RunUnwinds, Runs
    <2>1. Unwound(E, mine[p], world, found[p], since[p])
      BY <1>2 DEF RunUnwinds
    <2> QED
      BY <1>9, <2>1
  <1>12. UndoUnwinds(p)'
    <2> SUFFICES ASSUME pc[p] = "undo"
        PROVE Unwound(E, r, world, orig[i], dirty[i] \cup {x})
      BY <1>6, <1>8 DEF UndoUnwinds
    <2>1. Unwound(E, mine[p], world, orig[i], dirty[i])
      BY <1>2 DEF UndoUnwinds
    <2> QED
      BY <1>9, <2>1
  <1>13. JournalCovers(p)'
    <2> SUFFICES ASSUME Recorded(i), dirty[i] \cup {x} # Paths
        PROVE n - 1 <= Len(journal[i])
      BY <1>6, <1>7 DEF JournalCovers, Recorded
    <2>1. dirty[i] # Paths
      BY <1>5
    <2>2. n \in 1..Len(journal[i]) /\ journal[i] \in Seq(Steps)
      BY <1>1, <2>1, Covered
    <2>3. Len(journal[i]) \in Nat
      BY <2>2
    <2> QED
      BY <1>2, <2>2, <2>3
  <1>14. JournalIsRuns(p)'
    <2>1. Paths \cup {x} = Paths
      BY <1>5
    <2> QED
      BY <1>1, <1>2, <1>6, <2>1 DEF JournalIsRuns, Runs
  <1>15. UndoKeeps(p)'
    <2> SUFFICES ASSUME pc[p] = "undo"
        PROVE Kept(world, E, n - 1, since[p] \cup {x})
      BY <1>6, <1>7, <1>8 DEF UndoKeeps
    <2>1. Kept(world, E, n, since[p])
      BY <1>2 DEF UndoKeeps
    <2>2. \A k \in 1..(n - 1) : k \in 1..n
      BY <1>2
    <2> QED
      BY <2>1, <2>2 DEF Kept
  <1>16. Steady(p)'
    <2>1. pc'[p] = "rollback" \/ pc'[p] = "undo"
      BY <1>1, <1>6
    <2>2. CASE pc'[p] = "rollback"
      BY <1>11, <1>13, <1>14, <2>2, SteadyInRollback
    <2>3. CASE pc'[p] = "undo"
      BY <1>12, <1>13, <1>15, <2>3, SteadyInUndo
    <2> QED
      BY <2>1, <2>2, <2>3
  <1>17. QuietFrame(p, i)
    <2>1. /\ Paths \cup {x} = Paths
          /\ since[p] \cup {x} \subseteq Paths
      BY <1>2, <1>5
    <2> QED
      BY <1>6, <2>1 DEF QuietFrame
  <1>18. on'[p] = i /\ done'[i] = done[i] /\ since[p] \subseteq since'[p]
    BY <1>6
  <1> QED
    BY <1>2, <1>10, <1>16, <1>17, <1>18, QuietIsFrame, StepGoesOn

-----------------------------------------------------------------------------
(* Operations begin.                                                       *)
LEMMA BeginFacts ==
  ASSUME IInv, NEW p \in Procs, NEW i \in Ids, NEW l, NEW j, Begin(p, i, l, j),
         world' = world, plan' = plan, journal' = journal, orig' = orig,
         \A q \in Procs : q # p => found'[q] = found[q]
  PROVE  /\ pc[p] = "idle" /\ on[p] = None
         /\ pc'[p] = l /\ on'[p] = i /\ mine'[p] = j
         /\ \A q \in Procs : q # p => /\ pc'[q] = pc[q] /\ on'[q] = on[q]
                                      /\ mine'[q] = mine[q]
         /\ since'[p] = Paths \/ since'[p] = since[p]
         /\ dirty'[i] = Paths \/ dirty'[i] = dirty[i]
         /\ \A q \in Procs : q # p /\ on'[q] = i =>
              since'[p] = Paths /\ since'[q] = Paths /\ dirty'[i] = Paths
         /\ done'[i] = FALSE
         /\ OthersFrame(p, i, {})
  <1>1. TypeOK
    BY DEF IInv
  <1>2. /\ pc[p] = "idle" /\ on[p] = None /\ i # None
    BY <1>1, NoneAssumption DEF Begin, TypeOK
  <1>3. /\ pc'[p] = l /\ on'[p] = i /\ mine'[p] = j /\ done'[i] = FALSE
        /\ \A q \in Procs : q # p => /\ pc'[q] = pc[q] /\ on'[q] = on[q]
                                     /\ mine'[q] = mine[q]
        /\ \A h \in Ids : h # i => done'[h] = done[h]
    BY <1>1 DEF Begin, Goto, TypeOK
  <1>4. PICK others : others = {q \in Procs : on[q] = i}
    OBVIOUS
  <1>5. p \notin others
    BY <1>2, <1>4
  <1>6. /\ dirty'[i] = IF others # {} THEN Paths ELSE dirty[i]
        /\ \A h \in Ids : h # i => dirty'[h] = dirty[h]
    BY <1>1, <1>4 DEF Begin, TypeOK
  <1>7. \A q \in Procs :
          since'[q] = IF q \in others \/ (q = p /\ others # {})
                      THEN Paths ELSE since[q]
    BY <1>4 DEF Begin
  <1>8. /\ since'[p] = Paths \/ since'[p] = since[p]
        /\ dirty'[i] = Paths \/ dirty'[i] = dirty[i]
    BY <1>6, <1>7
  <1>9. \A q \in Procs : q # p /\ on[q] = i =>
          since'[p] = Paths /\ since'[q] = Paths /\ dirty'[i] = Paths
    BY <1>4, <1>6, <1>7
  <1>10. \A q \in Procs : q # p /\ on[q] # i => since'[q] = since[q]
    BY <1>4, <1>7
  <1>11. OthersFrame(p, i, {})
    <2>1. \A q \in Procs : q # p /\ on[q] # None /\ on[q] # i =>
            since'[q] = since[q] \cup {}
      BY <1>10
    <2>2. \A h \in Ids : h # i /\ plan[h] # None => dirty'[h] = dirty[h] \cup {}
      BY <1>6
    <2> QED
      BY <1>2, <1>3, <1>9, <2>1, <2>2 DEF OthersFrame
  <1> QED
    BY <1>2, <1>3, <1>8, <1>9, <1>11

LEMMA InPlaceShowing ==
  ASSUME NEW i, Planned(plan[i].edits)
  PROVE  InPlace(i) <=> Showing(world, plan[i].edits, Len(plan[i].edits))
  <1> DEFINE E == plan[i].edits
  <1>1. Len(E) \in Nat
    BY PlannedEdit
  <1>2. \A k \in 1..Len(E) :
          (\A l \in (k + 1)..Len(E) : E[l].path # E[k].path)
            <=> (\A l \in 1..Len(E) : k < l => E[l].path # E[k].path)
    BY <1>1
  <1>3. \A k \in 1..Len(E) : Shows(E[k]) <=> ShowsIn(world, E[k])
    BY DEF Shows, ShowsIn
  <1> QED
    BY <1>2, <1>3 DEF InPlace, Showing

(* Where an operation begins.                                              *)
LEMMA BeginWhere ==
  ASSUME TypeOK, NEW p \in Procs, NEW i \in Ids, NEW l, NEW j,
         Begin(p, i, l, j)
  PROVE  /\ pc'[p] = l /\ on'[p] = i /\ mine'[p] = j
         /\ dirty'[i] = Paths \/ dirty'[i] = dirty[i]
  <1>1. pc'[p] = l /\ on'[p] = i /\ mine'[p] = j
    BY DEF Begin, Goto, TypeOK
  <1>2. dirty'[i] = Paths \/ dirty'[i] = dirty[i]
    BY DEF Begin, TypeOK
  <1> QED
    BY <1>1, <1>2

(* The operation that began is as sound as the rest.                       *)
LEMMA BeginSound ==
  ASSUME IInv, NEW p \in Procs, NEW i \in Ids, NEW l, NEW j, Begin(p, i, l, j),
         world' = world, plan' = plan, journal' = journal, orig' = orig,
         \A q \in Procs : q # p => found'[q] = found[q],
         Steady(p)'
  PROVE  Sound'
  <1>1. /\ on'[p] = i
        /\ dirty'[i] = Paths \/ dirty'[i] = dirty[i]
        /\ \A q \in Procs : q # p /\ on'[q] = i =>
              since'[p] = Paths /\ since'[q] = Paths /\ dirty'[i] = Paths
        /\ done'[i] = FALSE
    BY BeginFacts
  <1>2. OthersFrame(p, i, {})
    BY BeginFacts
  <1>3. /\ \A q \in Procs : q # p => Doing(q)'
        /\ \A h \in Ids : h # i =>
             PlanSound(h)' /\ JournalSound(h)' /\ StaysDone(h)'
    <2>1. i \in Ids \cup {None} /\ {} \in SUBSET Paths
      OBVIOUS
    <2> QED
      BY <1>2, <2>1, OthersGoOn
  <1>4. TypeOK /\ PlanSound(i) /\ JournalSound(i)
    BY DEF IInv, Sound
  <1>5. PlanSound(i)'
    BY <1>4 DEF PlanSound, Touched
  <1>6. JournalSound(i)'
    BY <1>1, <1>4, UnwoundNowhere DEF JournalSound, Recorded
  <1>7. StaysDone(i)'
    BY <1>1 DEF StaysDone
  <1>8. Doing(p)'
    BY <1>1 DEF Doing, Unfinished, Alone
  <1> QED
    BY <1>3, <1>5, <1>6, <1>7, <1>8 DEF Sound

LEMMA RunStartSound ==
  ASSUME IInv, NEW p \in Procs, NEW i \in Ids, RunStart(p, i)
  PROVE  Sound'
  <1>1. /\ Begin(p, i, "check", <<>>) /\ ReadsHold(i) /\ plan[i] # None
        /\ world' = world /\ plan' = plan /\ journal' = journal /\ orig' = orig
        /\ found'[p] = world
        /\ \A q \in Procs : q # p => found'[q] = found[q]
    BY DEF RunStart, disk, IInv, TypeOK
  <1>2. /\ pc'[p] = "check" /\ on'[p] = i /\ mine'[p] = <<>>
    BY <1>1, BeginWhere DEF IInv
  <1>3. Len(mine'[p]) = 0
    BY <1>2
  <1>4. RunUnwinds(p)'
    <2>1. Unwound(plan[i].edits, <<>>, world, world, since'[p])
      BY DEF Unwound
    <2> QED
      BY <1>1, <1>2, <2>1 DEF RunUnwinds, EditsOf
  <1>5. JournalCovers(p)'
    <2>1. Recorded(i) => Len(journal[i]) \in Nat
      BY JournalTyped DEF IInv, Sound
    <2> QED
      BY <1>1, <1>2, <1>3, <2>1 DEF JournalCovers, Recorded
  <1>6. JournalIsRuns(p)'
    BY <1>2 DEF JournalIsRuns
  <1>7. RunShows(p)'
    <2>1. MadeCount(p)' = 0
      BY <1>2, <1>3 DEF MadeCount
    <2>2. ReadsHold(i)'
      BY <1>1 DEF ReadsHold, Touched
    <2>3. Showing(world, plan[i].edits, 0)
      BY DEF Showing
    <2> QED
      BY <1>1, <1>2, <2>1, <2>2, <2>3 DEF RunShows, EditsOf
  <1>8. Steady(p)'
    BY <1>2, <1>4, <1>5, <1>6, <1>7, SteadyInCheck
  <1> QED
    BY <1>1, <1>8, BeginSound

LEMMA UndoStartSound ==
  ASSUME IInv, NEW p \in Procs, NEW i \in Ids, UndoStart(p, i)
  PROVE  Sound'
  <1>1. /\ Begin(p, i, "undo", journal[i]) /\ plan[i] # None
        /\ Recorded(i) /\ InPlace(i)
        /\ world' = world /\ plan' = plan /\ journal' = journal /\ orig' = orig
        /\ \A q \in Procs : q # p => found'[q] = found[q]
    BY DEF UndoStart, UndoAccepted, disk
  <1>2. /\ pc'[p] = "undo" /\ on'[p] = i /\ mine'[p] = journal[i]
        /\ dirty'[i] = Paths \/ dirty'[i] = dirty[i]
    BY <1>1, BeginWhere DEF IInv
  <1>3. TypeOK /\ PlanSound(i) /\ JournalSound(i)
    BY DEF IInv, Sound
  <1>4. /\ Planned(plan[i].edits) /\ journal[i] \in Seq(Steps)
        /\ Len(journal[i]) \in Nat /\ Len(journal[i]) <= Len(plan[i].edits)
    BY <1>1, <1>3, JournalTyped
  <1>5. EditsOf(p)' = plan[i].edits
    BY <1>1, <1>2 DEF EditsOf
  <1>6. UndoUnwinds(p)'
    <2> SUFFICES Unwound(plan[i].edits, journal[i], world, orig[i], dirty'[i])
      BY <1>1, <1>2, <1>5 DEF UndoUnwinds
    <2>1. Unwound(plan[i].edits, journal[i], world, orig[i], dirty[i])
      BY <1>1, <1>3 DEF JournalSound
    <2> QED
      BY <1>2, <2>1, UnwoundNowhere
  <1>7. JournalCovers(p)'
    BY <1>1, <1>2, <1>4 DEF JournalCovers
  <1>8. UndoKeeps(p)'
    <2>1. Showing(world, plan[i].edits, Len(plan[i].edits))
      BY <1>1, <1>4, InPlaceShowing
    <2>2. Kept(world, plan[i].edits, Len(journal[i]), since'[p])
      BY <1>4, <2>1, KeptShowing
    <2> QED
      BY <1>1, <1>2, <1>5, <2>2 DEF UndoKeeps
  <1>9. Steady(p)'
    BY <1>2, <1>6, <1>7, <1>8, SteadyInUndo
  <1> QED
    BY <1>1, <1>9, BeginSound

-----------------------------------------------------------------------------
(* Steps that are about no operation.                                      *)
LEMMA PlanSoundly ==
  ASSUME IInv, NEW i \in Ids, NEW edits \in Scripts, NEW reads \in ReadSets,
         Plan(i, edits, reads)
  PROVE  Sound'
  <1>1. /\ TypeOK /\ \A q \in Procs : Doing(q)
    BY DEF IInv, Sound
  <1>2. PICK b : b = [x \in TouchedBy(edits) \cup reads |-> world[x]]
    OBVIOUS
  <1>3. /\ plan[i] = None
        /\ \A k \in 1..Len(edits) : edits[k].op = "move" =>
             world[edits[k].path] # Absent /\ world[edits[k].to] = Absent
        /\ plan'[i].edits = edits /\ plan'[i].bound = b
        /\ \A h \in Ids : h # i => plan'[h] = plan[h]
        /\ world' = world /\ journal' = journal
        /\ pc' = pc /\ on' = on /\ mine' = mine /\ found' = found
        /\ since' = since /\ orig' = orig /\ dirty' = dirty /\ done' = done
    BY <1>1, <1>2 DEF Plan, TypeOK, local, history
  <1>4. ~Recorded(i) /\ ~done[i] /\ \A q \in Procs : on[q] # i
    BY <1>1, <1>3, NoneAssumption DEF TypeOK
  <1>5. OthersFrame(None, i, {})
    BY <1>3, <1>4, NoneAssumption DEF OthersFrame
  <1>6. /\ \A q \in Procs : q # None => Doing(q)'
        /\ \A h \in Ids : h # i =>
             PlanSound(h)' /\ JournalSound(h)' /\ StaysDone(h)'
    <2>1. i \in Ids \cup {None} /\ {} \in SUBSET Paths
      OBVIOUS
    <2> QED
      BY <1>5, <2>1, OthersGoOn
  <1>7. PlanSound(i)'
    <2>1. Planned(edits)
      BY <1>3 DEF Planned
    <2>2. TouchedBy(edits) \subseteq DOMAIN b
      BY <1>2
    <2>3. ASSUME NEW k \in 1..Len(edits), edits[k].op = "move"
          PROVE  b[edits[k].to] = Absent
      <3>1. edits[k].to \in TouchedBy(edits)
        BY <2>3 DEF TouchedBy, EditPaths
      <3> QED
        BY <1>2, <1>3, <2>3, <3>1
    <2> QED
      BY <1>3, <2>1, <2>2, <2>3 DEF PlanSound, Touched
  <1>8. JournalSound(i)' /\ StaysDone(i)'
    BY <1>3, <1>4 DEF JournalSound, StaysDone, Recorded
  <1>9. \A q \in Procs : q # None
    BY NoneAssumption
  <1> QED
    BY <1>6, <1>7, <1>8, <1>9 DEF Sound

LEMMA Elsewhere ==
  ASSUME IInv, NEW c \in SUBSET Paths, OthersFrame(None, None, c)
  PROVE  Sound'
  <1>1. /\ \A q \in Procs : q # None => Doing(q)'
        /\ \A h \in Ids : h # None =>
             PlanSound(h)' /\ JournalSound(h)' /\ StaysDone(h)'
    <2>1. None \in Ids \cup {None}
      OBVIOUS
    <2> QED
      BY <2>1, OthersGoOn
  <1>2. (\A q \in Procs : q # None) /\ (\A h \in Ids : h # None)
    BY NoneAssumption
  <1> QED
    BY <1>1, <1>2 DEF Sound

LEMMA RunRefuseSound ==
  ASSUME IInv, NEW p \in Procs, NEW i \in Ids, RunRefuse(p, i)
  PROVE  Sound'
  <1>1. /\ ~ReadsHold(i) /\ journal'[i] = None
        /\ \A h \in Ids : h # i => journal'[h] = journal[h]
        /\ world' = world /\ plan' = plan
        /\ pc' = pc /\ on' = on /\ mine' = mine /\ found' = found
        /\ since' = since /\ orig' = orig /\ dirty' = dirty /\ done' = done
    BY DEF RunRefuse, IInv, TypeOK, local, history
  <1>2. \A h \in Ids : h # None =>
          journal'[h] = journal[h] \/ (journal'[h] = None /\ ~ReadsHold(h))
    BY <1>1
  <1>3. OthersFrame(None, None, {})
    BY <1>1, <1>2, NoneAssumption DEF OthersFrame
  <1> QED
    BY <1>3, Elsewhere

LEMMA UserEditSound ==
  ASSUME IInv, NEW x \in Paths, NEW text, UserEdit(x, text)
  PROVE  Sound'
  <1>1. /\ plan' = plan /\ journal' = journal
        /\ pc' = pc /\ on' = on /\ mine' = mine /\ found' = found
        /\ orig' = orig /\ done' = done /\ WrittenBy(None)
    BY DEF UserEdit, local
  <1>2. PICK c : c = {y \in Paths : world'[y] # world[y]}
    OBVIOUS
  <1>3. c \in SUBSET Paths /\ \A y \in Paths : y \notin c => world'[y] = world[y]
    BY <1>2
  <1>4. \A q \in Procs : q # None /\ on[q] # None /\ on[q] # None =>
          since'[q] = since[q] \cup c
    <2> SUFFICES ASSUME NEW q \in Procs, on[q] # None
        PROVE since'[q] = since[q] \cup c
      OBVIOUS
    <2>1. pc'[q] # "idle"
      BY <1>1 DEF IInv, TypeOK
    <2> QED
      BY <1>1, <1>2, <2>1, NoneAssumption DEF WrittenBy
  <1>5. \A h \in Ids : h # None /\ plan[h] # None => dirty'[h] = dirty[h] \cup c
    BY <1>1, <1>2, NoneAssumption DEF WrittenBy
  <1>6. OthersFrame(None, None, c)
    BY <1>1, <1>3, <1>4, <1>5, NoneAssumption DEF OthersFrame
  <1> QED
    BY <1>3, <1>6, Elsewhere

-----------------------------------------------------------------------------
(* Types.                                                                  *)

WorldTyped == world \in [Paths -> Contents]

PlansTyped ==
    /\ DOMAIN plan = Ids
    /\ satisfied \subseteq {plan[i] : i \in Ids} \ {None}
    /\ \A i \in Ids : plan[i] # None =>
         plan[i].edits \in Scripts /\ DOMAIN plan[i].bound \subseteq Paths

JournalsTyped ==
    /\ journal \in [Ids -> Seq(Steps) \cup {None, Torn}]
    /\ \A i \in Ids : Recorded(i) =>
         plan[i] # None /\ IsJournal(journal[i], plan[i].edits)

ProcsTyped ==
    /\ pc \in [Procs -> {"idle", "check", "capture", "apply", "rollback",
                         "undo"}]
    /\ on \in [Procs -> Ids \cup {None}] /\ mine \in [Procs -> Seq(Steps)]

OneTyped(p) ==
    /\ on[p] = None <=> pc[p] = "idle"
    /\ on[p] # None => /\ plan[on[p]] # None
                       /\ IsJournal(mine[p], plan[on[p]].edits)
    /\ pc[p] = "capture" => Len(mine[p]) < Len(plan[on[p]].edits)
    /\ pc[p] = "apply" => mine[p] # <<>>

RestTyped ==
    /\ ops \in 0..MaxOps
    /\ userEdits \in 0..MaxUserEdits /\ faults \in 0..MaxFaults
    /\ found \in [Procs -> [Paths -> Contents]]
    /\ orig \in [Ids -> [Paths -> Contents]]
    /\ dirty \in [Ids -> SUBSET Paths] /\ since \in [Procs -> SUBSET Paths]
    /\ done \in [Ids -> BOOLEAN] /\ half \in [Ids -> BOOLEAN]

DoneTyped == \A i \in Ids : done[i] => plan[i] # None

LEMMA Types ==
  TypeOK <=> /\ WorldTyped /\ PlansTyped /\ JournalsTyped /\ ProcsTyped
             /\ (\A p \in Procs : OneTyped(p))
             /\ RestTyped /\ DoneTyped
  BY DEF TypeOK, WorldTyped, PlansTyped, JournalsTyped, ProcsTyped, OneTyped,
         RestTyped, DoneTyped

LEMMA TypesPrimed ==
  TypeOK' <=> /\ WorldTyped' /\ PlansTyped' /\ JournalsTyped' /\ ProcsTyped'
              /\ (\A p \in Procs : OneTyped(p)')
              /\ RestTyped' /\ DoneTyped'
  BY DEF TypeOK, WorldTyped, PlansTyped, JournalsTyped, ProcsTyped, OneTyped,
         RestTyped, DoneTyped

LEMMA InitTyped == Init => TypeOK
  <1> SUFFICES ASSUME Init PROVE TypeOK
    OBVIOUS
  <1>1. WorldTyped
    BY WorldAssumption DEF Init, WorldTyped, Contents
  <1>2. PlansTyped
    BY DEF Init, PlansTyped
  <1>3. JournalsTyped
    BY DEF Init, JournalsTyped, Recorded
  <1>4. ProcsTyped /\ \A p \in Procs : OneTyped(p)
    BY DEF Init, ProcsTyped, OneTyped
  <1>5. RestTyped
    <2>1. InitialWorld \in [Paths -> Contents]
      BY WorldAssumption DEF Contents
    <2> QED
      BY <2>1, BoundsAssumption DEF Init, RestTyped
  <1>6. DoneTyped
    BY DEF Init, DoneTyped
  <1> QED
    BY <1>1, <1>2, <1>3, <1>4, <1>5, <1>6, Types

(* A step that saves no plan, when only p's part of the rest is in doubt.  *)
LEMMA OneMoves ==
  ASSUME TypeOK, NEW p \in Procs, plan' = plan,
         satisfied' \subseteq satisfied \cup {plan[on[p]]},
         WorldTyped', JournalsTyped', ProcsTyped', RestTyped',
         \A q \in Procs : q # p => /\ pc'[q] = pc[q] /\ on'[q] = on[q]
                                   /\ mine'[q] = mine[q],
         OneTyped(p)', on[p] # None,
         \A i \in Ids : done'[i] => done[i] \/ i = on[p]
  PROVE  TypeOK'
  <1>1. \A q \in Procs : q # p => OneTyped(q)'
    BY Types DEF OneTyped
  <1>2. on[p] \in Ids /\ plan[on[p]] # None
    BY DEF TypeOK
  <1>3. DoneTyped'
    BY <1>2, Types DEF DoneTyped
  <1>4. PlansTyped'
    BY <1>2, Types DEF PlansTyped
  <1> QED
    BY <1>1, <1>3, <1>4, TypesPrimed

LEMMA WrittenTyped ==
  ASSUME TypeOK, NEW p, WrittenBy(p)
  PROVE  dirty' \in [Ids -> SUBSET Paths] /\ since' \in [Procs -> SUBSET Paths]
  <1>1. PICK c \in SUBSET Paths :
          /\ dirty' = [i \in Ids |-> IF \/ plan[i] = None
                                        \/ p \in Procs /\ on[p] = i
                                     THEN dirty[i] ELSE dirty[i] \cup c]
          /\ since' = [q \in Procs |-> IF pc'[q] = "idle" THEN {}
                                       ELSE IF q = p THEN since[q]
                                       ELSE since[q] \cup c]
    BY DEF WrittenBy
  <1>2. dirty \in [Ids -> SUBSET Paths] /\ since \in [Procs -> SUBSET Paths]
    BY DEF TypeOK
  <1> QED
    BY <1>1, <1>2

LEMMA FaultTyped ==
  ASSUME TypeOK, Fault \/ faults' = faults
  PROVE  faults' \in 0..MaxFaults
  BY BoundsAssumption DEF TypeOK, Fault

(* The journal of one procedure changes.                                   *)
LEMMA JournalMoves ==
  ASSUME TypeOK, NEW i \in Ids, NEW j, journal' = [journal EXCEPT ![i] = j],
         plan' = plan, plan[i] # None,
         j \in {journal[i], None, Torn} \/ IsJournal(j, plan[i].edits)
  PROVE  JournalsTyped'
  <1>1. JournalsTyped
    BY Types
  <1>2. journal[i] \in Seq(Steps) \cup {None, Torn}
    BY <1>1 DEF JournalsTyped
  <1>3. j \in Seq(Steps) \cup {None, Torn}
    BY <1>2 DEF IsJournal
  <1>4. journal' \in [Ids -> Seq(Steps) \cup {None, Torn}]
    BY <1>1, <1>3 DEF JournalsTyped
  <1>5. journal'[i] = j /\ \A h \in Ids : h # i => journal'[h] = journal[h]
    BY <1>1 DEF JournalsTyped
  <1>6. ASSUME NEW h \in Ids, Recorded(h)'
        PROVE  plan'[h] # None /\ IsJournal(journal'[h], plan'[h].edits)
    <2>1. CASE h # i
      BY <1>1, <1>5, <1>6, <2>1 DEF JournalsTyped, Recorded
    <2>2. CASE h = i
      <3>1. j \notin {None, Torn}
        BY <1>5, <1>6, <2>2 DEF Recorded
      <3>2. IsJournal(j, plan[i].edits)
        BY <1>1, <3>1 DEF JournalsTyped, Recorded
      <3> QED
        BY <1>5, <2>2, <3>2
    <2> QED
      BY <2>1, <2>2
  <1> QED
    BY <1>4, <1>6 DEF JournalsTyped

LEMMA CheckTyped ==
  ASSUME IInv, NEW p \in Procs, on[p] # None,
         Check(p) \/ CheckFail(p) \/ MarkFail(p)
  PROVE  TypeOK'
  <1>1. TypeOK
    BY DEF IInv
  <1>2. /\ pc[p] # "idle"
        /\ \/ /\ pc' = [pc EXCEPT ![p] = "capture"]
              /\ Len(mine[p]) < Len(plan[on[p]].edits)
           \/ pc' = [pc EXCEPT ![p] = "rollback"]
        /\ world' = world /\ plan' = plan /\ journal' = journal
        /\ satisfied' = satisfied
        /\ on' = on /\ mine' = mine /\ found' = found /\ since' = since
        /\ orig' = orig /\ dirty' = dirty /\ done' = done /\ half' = half
        /\ ops' = ops /\ userEdits' = userEdits
    BY DEF Check, CheckFail, MarkFail, MoreEdits, AllMade, Goto, disk, bounds,
           history
  <1>3. faults' \in 0..MaxFaults
    BY <1>1, FaultTyped DEF Check, CheckFail, MarkFail, bounds
  <1>4. WorldTyped' /\ JournalsTyped' /\ RestTyped'
    BY <1>1, <1>2, <1>3, Types DEF WorldTyped, JournalsTyped, RestTyped, Recorded
  <1>5. ProcsTyped' /\ \A q \in Procs : q # p => pc'[q] = pc[q]
    BY <1>1, <1>2, Types DEF ProcsTyped
  <1>6. \/ pc'[p] = "rollback"
        \/ pc'[p] = "capture" /\ Len(mine[p]) < Len(plan[on[p]].edits)
    BY <1>1, <1>2 DEF TypeOK
  <1>7. OneTyped(p)'
    BY <1>1, <1>2, <1>6, Types DEF OneTyped
  <1> QED
    BY <1>1, <1>2, <1>4, <1>5, <1>7, OneMoves

LEMMA CaptureFailTyped ==
  ASSUME IInv, NEW p \in Procs, on[p] # None, CaptureFail(p)
  PROVE  TypeOK'
  <1>1. TypeOK
    BY DEF IInv
  <1>2. /\ pc[p] # "idle" /\ pc' = [pc EXCEPT ![p] = "rollback"]
        /\ world' = world /\ plan' = plan /\ satisfied' = satisfied
        /\ on' = on /\ mine' = mine /\ found' = found /\ since' = since
        /\ orig' = orig /\ dirty' = dirty /\ done' = done /\ half' = half
        /\ ops' = ops /\ userEdits' = userEdits
    BY DEF CaptureFail, Goto, history
  <1>3. faults' \in 0..MaxFaults
    BY <1>1, FaultTyped DEF CaptureFail
  <1>4. on[p] \in Ids /\ plan[on[p]] # None
    BY <1>1 DEF TypeOK
  <1>5. JournalsTyped'
    BY <1>1, <1>2, <1>4, JournalMoves DEF CaptureFail
  <1>6. WorldTyped' /\ RestTyped'
    BY <1>1, <1>2, <1>3, Types DEF WorldTyped, RestTyped
  <1>7. ProcsTyped' /\ \A q \in Procs : q # p => pc'[q] = pc[q]
    BY <1>1, <1>2, Types DEF ProcsTyped
  <1>8. pc'[p] = "rollback"
    BY <1>1, <1>2 DEF TypeOK
  <1>9. OneTyped(p)'
    BY <1>1, <1>2, <1>8, Types DEF OneTyped
  <1> QED
    BY <1>1, <1>2, <1>5, <1>6, <1>7, <1>9, OneMoves

LEMMA CaptureTyped ==
  ASSUME IInv, NEW p \in Procs, on[p] # None, Capture(p)
  PROVE  TypeOK'
  <1> DEFINE E == plan[on[p]].edits
  <1> DEFINE s == Step(world, E[Len(mine[p]) + 1])
  <1> DEFINE j == Append(mine[p], s)
  <1>1. /\ TypeOK /\ on[p] \in Ids /\ plan[on[p]] # None /\ Planned(E)
        /\ mine[p] \in Seq(Steps) /\ Len(mine[p]) \in Nat
        /\ Len(mine[p]) < Len(E) /\ Len(E) \in Nat
        /\ \A k \in 1..Len(mine[p]) : mine[p][k].edit = E[k]
        /\ world \in [Paths -> Contents]
    <2>1. pc[p] = "capture"
      BY DEF Capture
    <2> QED
      BY <2>1, DoingFacts
  <1>2. /\ pc' = [pc EXCEPT ![p] = "apply"]
        /\ mine' = [mine EXCEPT ![p] = j]
        /\ journal' = [journal EXCEPT ![on[p]] = j]
        /\ world' = world /\ plan' = plan /\ satisfied' = satisfied
        /\ on' = on /\ found' = found /\ since' = since
        /\ done' = done /\ half' = half /\ Journaled(p)
        /\ ops' = ops /\ userEdits' = userEdits /\ faults' = faults
    BY DEF Capture, Goto, NextEdit, bounds
  <1>3. Len(mine[p]) + 1 \in 1..Len(E) /\ E[Len(mine[p]) + 1] \in Edits
    <2>1. Len(mine[p]) + 1 \in 1..Len(E)
      BY <1>1
    <2> QED
      BY <1>1, <2>1, PlannedEdit
  <1>4. s \in Steps /\ s.edit = E[Len(mine[p]) + 1]
    <2> DEFINE e == E[Len(mine[p]) + 1]
    <2> DEFINE was == IF e.op = "put" THEN world[e.path] ELSE Absent
    <2>1. e \in Edits /\ e.path \in Paths
      <3> HIDE DEF e
      <3>1. e \in Edits => e.path \in Paths
        BY DEF Edits
      <3> QED
        BY <1>3, <3>1 DEF e
    <2>2. was \in Contents
      BY <1>1, <2>1 DEF Contents
    <2>3. s = [edit |-> e, was |-> was]
      BY DEF Step
    <2> HIDE DEF e, was, s
    <2>4. s \in Steps /\ s.edit = e
      BY <2>1, <2>2, <2>3 DEF Steps
    <2> QED
      BY <2>4 DEF e
  <1> HIDE DEF s
  <1>5. j \in Seq(Steps) /\ Len(j) = Len(mine[p]) + 1 /\ j # <<>>
    BY <1>1, <1>4
  <1>6. IsJournal(j, E)
    <2>1. ASSUME NEW k \in 1..Len(j) PROVE j[k].edit = E[k]
      <3>1. CASE k = Len(mine[p]) + 1
        BY <1>1, <1>4, <3>1
      <3>2. CASE k # Len(mine[p]) + 1
        BY <1>1, <1>5, <3>2
      <3> QED
        BY <3>1, <3>2
    <2> QED
      BY <1>1, <1>5, <2>1 DEF IsJournal
  <1> HIDE DEF j
  <1>7. JournalsTyped'
    BY <1>1, <1>2, <1>6, JournalMoves
  <1>8. orig' \in [Ids -> [Paths -> Contents]] /\ dirty' \in [Ids -> SUBSET Paths]
    <2>1. /\ orig \in [Ids -> [Paths -> Contents]]
          /\ dirty \in [Ids -> SUBSET Paths]
          /\ found[p] \in [Paths -> Contents] /\ since[p] \in SUBSET Paths
      BY <1>1 DEF TypeOK
    <2>2. \/ /\ orig' = [orig EXCEPT ![on[p]] = found[p]]
             /\ dirty' = [dirty EXCEPT ![on[p]] = since[p]]
          \/ orig' = orig /\ dirty' = dirty
      BY <1>2 DEF Journaled
    <2> QED
      BY <1>1, <2>1, <2>2
  <1>9. WorldTyped' /\ RestTyped'
    BY <1>1, <1>2, <1>8, Types DEF WorldTyped, RestTyped
  <1>10. /\ ProcsTyped'
         /\ \A q \in Procs : q # p => pc'[q] = pc[q] /\ mine'[q] = mine[q]
         /\ pc'[p] = "apply" /\ mine'[p] = j
    BY <1>1, <1>2, <1>5, Types DEF ProcsTyped
  <1>11. OneTyped(p)'
    BY <1>1, <1>2, <1>5, <1>6, <1>10, NoneAssumption DEF OneTyped
  <1> QED
    BY <1>1, <1>2, <1>7, <1>9, <1>10, <1>11, OneMoves

(* The edit a process is at, forth and back.                               *)
LEMMA NewestFacts ==
  ASSUME IInv, NEW p \in Procs, NEW i, on[p] = i, i # None,
         NEW E, E = plan[i].edits, mine[p] # <<>>,
         NEW n, n = Len(mine[p]), NEW s, s = Newest(p)
  PROVE  /\ n \in 1..Len(E) /\ Planned(E) /\ world \in [Paths -> Contents]
         /\ Current(p) = E[n] /\ s.edit = E[n] /\ s.was \in Contents
         /\ E[n].path \in Paths
         /\ E[n].op = "put" \/ E[n].op = "move"
         /\ E[n].op = "put" => E[n].text \in Contents
         /\ E[n].op = "move" => E[n].to \in Paths /\ E[n].to # E[n].path
  <1>1. /\ Planned(E) /\ mine[p] \in Seq(Steps) /\ n \in Nat
        /\ n <= Len(E) /\ Len(E) \in Nat /\ world \in [Paths -> Contents]
        /\ \A k \in 1..n : mine[p][k].edit = E[k]
    BY DoingFacts
  <1>2. n \in 1..n /\ n \in 1..Len(E)
    BY <1>1
  <1>3. s = mine[p][n] /\ mine[p][n] \in Steps
    BY <1>1, <1>2 DEF Newest
  <1>4. mine[p][n].was \in Contents
    BY <1>3 DEF Steps
  <1>5. Current(p) = mine[p][n].edit
    BY DEF Current
  <1>6. mine[p][n].edit = E[n]
    BY <1>1, <1>2
  <1>7. /\ E[n].path \in Paths
        /\ E[n].op = "put" \/ E[n].op = "move"
        /\ E[n].op = "put" => E[n].text \in Contents
        /\ E[n].op = "move" => E[n].to \in Paths /\ E[n].to # E[n].path
    BY <1>1, <1>2, PlannedEdit
  <1> QED
    BY <1>1, <1>2, <1>3, <1>4, <1>5, <1>6, <1>7

LEMMA WorldStaysTyped ==
  ASSUME IInv, NEW p \in Procs, on[p] # None,
         Apply(p) \/ ApplyFail(p) \/ Invert(p) \/ InvertFail(p) \/ Kill(p)
  PROVE  WorldTyped'
  <1>1. PICK w : w = world
    OBVIOUS
  <1>2. PICK s : s = Newest(p)
    OBVIOUS
  <1>3. PICK e : e = Current(p)
    OBVIOUS
  <1>4. w \in [Paths -> Contents]
    BY <1>1 DEF IInv, TypeOK
  <1>5. ASSUME mine[p] # <<>>
        PROVE  /\ e.path \in Paths /\ s.edit = e /\ s.was \in Contents
               /\ e.op = "put" \/ e.op = "move"
               /\ e.op = "put" => e.text \in Contents
               /\ e.op = "move" => e.to \in Paths /\ e.to # e.path
    <2>1. PICK i : i = on[p]
      OBVIOUS
    <2>2. PICK E : E = plan[i].edits
      OBVIOUS
    <2>3. PICK n : n = Len(mine[p])
      OBVIOUS
    <2>4. e = E[n] /\ s.edit = E[n] /\ s.was \in Contents /\ E[n].path \in Paths
      BY <1>2, <1>3, <1>5, <2>1, <2>2, <2>3, NewestFacts
    <2>5. /\ E[n].op = "put" \/ E[n].op = "move"
          /\ E[n].op = "put" => E[n].text \in Contents
          /\ E[n].op = "move" => E[n].to \in Paths /\ E[n].to # E[n].path
      BY <1>2, <1>3, <1>5, <2>1, <2>2, <2>3, NewestFacts
    <2> QED
      BY <2>4, <2>5
  <1>6. pc[p] = "apply" => mine[p] # <<>>
    BY DEF IInv, TypeOK
  <1>7. CASE Apply(p)
    <2>1. world' = Made(w, e) /\ mine[p] # <<>>
      BY <1>1, <1>3, <1>6, <1>7 DEF Apply
    <2>2. Made(w, e) \in [Paths -> Contents]
      BY <1>4, <1>5, <2>1, MadePut, MadeMove
    <2> QED
      BY <2>1, <2>2 DEF WorldTyped
  <1>8. CASE Invert(p)
    <2>1. world' = Unmade(w, s) /\ mine[p] # <<>>
      BY <1>1, <1>2, <1>8 DEF Invert, Inverting
    <2>2. Unmade(w, s) \in [Paths -> Contents]
      BY <1>4, <1>5, <2>1, UnmadePut, UnmadeMove
    <2> QED
      BY <2>1, <2>2 DEF WorldTyped
  <1>9. CASE ApplyFail(p) \/ InvertFail(p) \/ Kill(p)
    <2>1. \/ world' = w
          \/ mine[p] # <<>> /\ world' \in TornEdit(w, e)
          \/ mine[p] # <<>> /\ world' \in TornStep(w, s)
      BY <1>1, <1>2, <1>3, <1>6, <1>9
         DEF ApplyFail, InvertFail, Kill, Inverting
    <2>2. PICK v : v = world'
      OBVIOUS
    <2>3. v \in [Paths -> Contents]
      BY <1>4, <1>5, <2>1, <2>2, TornEditFacts, TornStepFacts
    <2> QED
      BY <2>2, <2>3 DEF WorldTyped
  <1> QED
    BY <1>7, <1>8, <1>9

LEMMA ApplyTyped ==
  ASSUME IInv, NEW p \in Procs, on[p] # None, Apply(p) \/ ApplyFail(p)
  PROVE  TypeOK'
  <1>1. TypeOK
    BY DEF IInv
  <1>2. /\ pc[p] = "apply"
        /\ \/ pc' = [pc EXCEPT ![p] = "check"]
           \/ pc' = [pc EXCEPT ![p] = "rollback"]
        /\ WrittenBy(p)
        /\ plan' = plan /\ journal' = journal /\ satisfied' = satisfied
        /\ on' = on /\ mine' = mine /\ found' = found
        /\ orig' = orig /\ done' = done /\ half' = half
        /\ ops' = ops /\ userEdits' = userEdits
        /\ Fault \/ faults' = faults
    BY DEF Apply, ApplyFail, Goto, bounds
  <1>3. /\ faults' \in 0..MaxFaults
        /\ dirty' \in [Ids -> SUBSET Paths] /\ since' \in [Procs -> SUBSET Paths]
    BY <1>1, <1>2, FaultTyped, WrittenTyped
  <1>4. JournalsTyped' /\ RestTyped'
    BY <1>1, <1>2, <1>3, Types DEF JournalsTyped, RestTyped, Recorded
  <1>5. ProcsTyped' /\ \A q \in Procs : q # p => pc'[q] = pc[q]
    BY <1>1, <1>2, Types DEF ProcsTyped
  <1>6. pc'[p] = "rollback" \/ pc'[p] = "check"
    BY <1>1, <1>2 DEF TypeOK
  <1>7. OneTyped(p)'
    BY <1>1, <1>2, <1>6, Types DEF OneTyped
  <1>8. WorldTyped'
    BY WorldStaysTyped
  <1> QED
    BY <1>1, <1>2, <1>4, <1>5, <1>7, <1>8, OneMoves

(* p's operation is over.                                                  *)
LEMMA OverTyped ==
  ASSUME IInv, NEW p \in Procs, on[p] # None, Over(p), plan' = plan,
         satisfied' \subseteq satisfied \cup {plan[on[p]]},
         WorldTyped', JournalsTyped',
         ops' = ops, userEdits' = userEdits, orig' = orig,
         Fault \/ faults' = faults,
         dirty' \in [Ids -> SUBSET Paths], since' \in [Procs -> SUBSET Paths],
         done' = done \/ done' = [done EXCEPT ![on[p]] = TRUE],
         half' = half \/ half' = [half EXCEPT ![on[p]] = TRUE]
  PROVE  TypeOK'
  <1>1. TypeOK
    BY DEF IInv
  <1>2. InitialWorld \in [Paths -> Contents]
    BY WorldAssumption DEF Contents
  <1>3. /\ pc' = [pc EXCEPT ![p] = "idle"] /\ on' = [on EXCEPT ![p] = None]
        /\ mine' = [mine EXCEPT ![p] = <<>>]
        /\ found' = [found EXCEPT ![p] = InitialWorld]
    BY DEF Over, Goto
  <1>4. faults' \in 0..MaxFaults
    BY <1>1, FaultTyped
  <1>5. /\ done' \in [Ids -> BOOLEAN] /\ half' \in [Ids -> BOOLEAN]
        /\ \A i \in Ids : done'[i] => done[i] \/ i = on[p]
    BY <1>1 DEF TypeOK
  <1>6. found' \in [Procs -> [Paths -> Contents]]
    BY <1>1, <1>2, <1>3 DEF TypeOK
  <1>7. RestTyped'
    BY <1>1, <1>4, <1>5, <1>6, Types DEF RestTyped
  <1>8. ProcsTyped' /\ \A q \in Procs : q # p => /\ pc'[q] = pc[q]
                                                 /\ on'[q] = on[q]
                                                 /\ mine'[q] = mine[q]
    BY <1>1, <1>3, Types DEF ProcsTyped
  <1>9. pc'[p] = "idle" /\ on'[p] = None
    BY <1>1, <1>3 DEF TypeOK
  <1>10. OneTyped(p)'
    BY <1>9 DEF OneTyped
  <1> QED
    BY <1>1, <1>5, <1>7, <1>8, <1>10, OneMoves

LEMMA CloseTyped ==
  ASSUME IInv, NEW p \in Procs, on[p] # None,
         Mark(p) \/ RolledBack(p) \/ Undone(p)
  PROVE  TypeOK'
  <1>1. TypeOK /\ on[p] \in Ids /\ plan[on[p]] # None
    BY DEF IInv, TypeOK
  <1>2. /\ Over(p) /\ since' = [since EXCEPT ![p] = {}]
        /\ world' = world /\ plan' = plan
        /\ satisfied' \subseteq satisfied \cup {plan[on[p]]}
        /\ ops' = ops /\ userEdits' = userEdits /\ orig' = orig
        /\ dirty' = dirty /\ half' = half
        /\ Fault \/ faults' = faults
        /\ done' = done \/ done' = [done EXCEPT ![on[p]] = TRUE]
    BY DEF Mark, RolledBack, Undone, Close, bounds
  <1>3. \/ journal' = journal
        \/ journal' = [journal EXCEPT ![on[p]] = None]
    BY DEF Mark, RolledBack, Undone
  <1>4. JournalsTyped'
    <2>1. CASE journal' = journal
      BY <1>1, <1>2, <2>1, Types DEF JournalsTyped, Recorded
    <2>2. CASE journal' = [journal EXCEPT ![on[p]] = None]
      BY <1>1, <1>2, <2>2, JournalMoves
    <2> QED
      BY <1>3, <2>1, <2>2
  <1>5. WorldTyped'
    BY <1>1, <1>2, Types DEF WorldTyped
  <1>6. dirty' \in [Ids -> SUBSET Paths] /\ since' \in [Procs -> SUBSET Paths]
    BY <1>1, <1>2 DEF TypeOK
  <1> QED
    BY <1>2, <1>4, <1>5, <1>6, OverTyped

LEMMA CutShortTyped ==
  ASSUME IInv, NEW p \in Procs, on[p] # None, InvertFail(p) \/ Kill(p)
  PROVE  TypeOK'
  <1>1. TypeOK /\ on[p] \in Ids /\ plan[on[p]] # None
    BY DEF IInv, TypeOK
  <1>2. /\ Over(p) /\ WrittenBy(p) /\ plan' = plan /\ satisfied' = satisfied
        /\ ops' = ops /\ userEdits' = userEdits /\ orig' = orig
        /\ done' = done /\ half' = [half EXCEPT ![on[p]] = TRUE]
        /\ Fault \/ faults' = faults
    BY DEF InvertFail, Kill
  <1>3. \/ journal' = journal
        \/ \E j \in {journal[on[p]], Torn} :
              journal' = [journal EXCEPT ![on[p]] = j]
    BY DEF InvertFail, Kill
  <1>4. JournalsTyped'
    <2>1. CASE journal' = journal
      BY <1>1, <1>2, <2>1, Types DEF JournalsTyped, Recorded
    <2>2. ASSUME NEW j \in {journal[on[p]], Torn},
                 journal' = [journal EXCEPT ![on[p]] = j]
          PROVE  JournalsTyped'
      BY <1>1, <1>2, <2>2, JournalMoves
    <2> QED
      BY <1>3, <2>1, <2>2
  <1>5. WorldTyped'
    BY WorldStaysTyped
  <1>6. dirty' \in [Ids -> SUBSET Paths] /\ since' \in [Procs -> SUBSET Paths]
    BY <1>1, <1>2, WrittenTyped
  <1> QED
    BY <1>2, <1>4, <1>5, <1>6, OverTyped

LEMMA InvertTyped ==
  ASSUME IInv, NEW p \in Procs, on[p] # None, Invert(p) \/ RemoveIgnored(p)
  PROVE  TypeOK'
  <1> DEFINE j == SubSeq(mine[p], 1, Len(mine[p]) - 1)
  <1>1. TypeOK /\ on[p] \in Ids
    BY DEF IInv, TypeOK
  <1>2. /\ mine' = [mine EXCEPT ![p] = j]
        /\ pc[p] \in {"rollback", "undo"} /\ mine[p] # <<>>
        /\ plan' = plan /\ journal' = journal /\ satisfied' = satisfied
        /\ pc' = pc /\ on' = on /\ found' = found
        /\ orig' = orig /\ done' = done /\ half' = half
        /\ ops' = ops /\ userEdits' = userEdits
        /\ Fault \/ faults' = faults
    BY DEF Invert, RemoveIgnored, Inverting, bounds, disk
  <1>3. WorldTyped'
    <2>1. CASE Invert(p)
      BY <2>1, WorldStaysTyped
    <2>2. CASE RemoveIgnored(p)
      BY <1>1, <2>2, Types DEF RemoveIgnored, disk, WorldTyped
    <2> QED
      BY <2>1, <2>2
  <1>4. dirty' \in [Ids -> SUBSET Paths] /\ since' \in [Procs -> SUBSET Paths]
    <2>1. CASE Invert(p)
      BY <1>1, <2>1, WrittenTyped DEF Invert
    <2>2. CASE RemoveIgnored(p)
      <3>1. PICK x : x = Newest(p).edit.path
        OBVIOUS
      <3>2. /\ dirty' = [dirty EXCEPT ![on[p]] = @ \cup {x}]
            /\ since' = [since EXCEPT ![p] = @ \cup {x}]
        BY <2>2, <3>1 DEF RemoveIgnored
      <3>3. x \in Paths
        <4>1. PICK i : i = on[p]
          OBVIOUS
        <4>2. PICK E : E = plan[i].edits
          OBVIOUS
        <4>3. PICK n : n = Len(mine[p])
          OBVIOUS
        <4>4. PICK s : s = Newest(p)
          OBVIOUS
        <4>5. s.edit = E[n] /\ E[n].path \in Paths
          BY <1>2, <4>1, <4>2, <4>3, <4>4, NewestFacts
        <4> QED
          BY <3>1, <4>4, <4>5
      <3>4. /\ dirty \in [Ids -> SUBSET Paths]
            /\ since \in [Procs -> SUBSET Paths]
        BY <1>1 DEF TypeOK
      <3> QED
        BY <1>1, <3>2, <3>3, <3>4
    <2> QED
      BY <2>1, <2>2
  <1>5. faults' \in 0..MaxFaults
    BY <1>1, <1>2, FaultTyped
  <1>6. JournalsTyped' /\ RestTyped'
    BY <1>1, <1>2, <1>4, <1>5, Types DEF JournalsTyped, RestTyped, Recorded
  <1>7. /\ plan[on[p]] # None /\ IsJournal(mine[p], plan[on[p]].edits)
        /\ mine[p] \in Seq(Steps)
    BY <1>1, Types DEF OneTyped, ProcsTyped
  <1>8. /\ j \in Seq(Steps) /\ Len(j) = Len(mine[p]) - 1
        /\ Len(mine[p]) \in Nat
        /\ \A k \in 1..(Len(mine[p]) - 1) : j[k] = mine[p][k]
    BY <1>2, <1>7, ButLast
  <1> HIDE DEF j
  <1>9. IsJournal(j, plan[on[p]].edits)
    <2>1. PICK E : E = plan[on[p]].edits
      OBVIOUS
    <2>2. /\ Len(mine[p]) <= Len(E)
          /\ \A k \in 1..Len(mine[p]) : mine[p][k].edit = E[k]
      BY <1>7, <2>1 DEF IsJournal
    <2>3. PICK i : i = on[p]
      OBVIOUS
    <2>4. Planned(E) /\ Len(E) \in Nat
      BY <2>1, <2>3, DoingFacts
    <2>5. \A k \in 1..Len(j) : j[k].edit = E[k]
      BY <1>8, <2>2
    <2> QED
      BY <1>8, <2>1, <2>2, <2>4, <2>5 DEF IsJournal
  <1>10. ProcsTyped' /\ \A q \in Procs : q # p => mine'[q] = mine[q]
    BY <1>1, <1>2, <1>8, Types DEF ProcsTyped
  <1>11. mine'[p] = j
    BY <1>1, <1>2 DEF TypeOK
  <1>12. OneTyped(p)'
    BY <1>1, <1>2, <1>7, <1>9, <1>11, Types DEF OneTyped
  <1> QED
    BY <1>1, <1>2, <1>3, <1>6, <1>10, <1>12, OneMoves

LEMMA BeginTyped ==
  ASSUME IInv, NEW p \in Procs, NEW i \in Ids, NEW l, NEW j,
         plan[i] # None, Begin(p, i, l, j), l \in {"check", "undo"},
         IsJournal(j, plan[i].edits),
         UNCHANGED disk, userEdits' = userEdits, faults' = faults,
         orig' = orig, half' \in [Ids -> BOOLEAN],
         found' \in [Procs -> [Paths -> Contents]]
  PROVE  TypeOK'
  <1>1. TypeOK
    BY DEF IInv
  <1>2. /\ world' = world /\ plan' = plan /\ journal' = journal
        /\ satisfied' = satisfied
    BY DEF disk
  <1>3. /\ pc' = [pc EXCEPT ![p] = l] /\ on' = [on EXCEPT ![p] = i]
        /\ mine' = [mine EXCEPT ![p] = j]
        /\ done' = [done EXCEPT ![i] = FALSE]
        /\ ops < MaxOps /\ ops' = ops + 1
    BY DEF Begin, Goto
  <1>4. j \in Seq(Steps)
    BY DEF IsJournal
  <1>5. dirty' \in [Ids -> SUBSET Paths]
    <2>1. PICK x \in SUBSET Paths : dirty' = [dirty EXCEPT ![i] = x]
      BY <1>1 DEF Begin, TypeOK
    <2> QED
      BY <1>1, <2>1 DEF TypeOK
  <1>6. since' \in [Procs -> SUBSET Paths]
    BY <1>1 DEF Begin, TypeOK
  <1>7. RestTyped' /\ DoneTyped'
    <2>1. ops' \in 0..MaxOps
      BY <1>1, <1>3, BoundsAssumption DEF TypeOK
    <2>2. DoneTyped' /\ done' \in [Ids -> BOOLEAN]
      BY <1>1, <1>2, <1>3, Types DEF DoneTyped, RestTyped
    <2> QED
      BY <1>1, <1>5, <1>6, <2>1, <2>2, Types DEF RestTyped
  <1>8. WorldTyped' /\ PlansTyped' /\ JournalsTyped'
    BY <1>1, <1>2, Types DEF WorldTyped, PlansTyped, JournalsTyped, Recorded
  <1>9. ProcsTyped'
    BY <1>1, <1>3, <1>4, Types DEF ProcsTyped
  <1>10. /\ pc'[p] = l /\ on'[p] = i /\ mine'[p] = j
         /\ \A q \in Procs : q # p => /\ pc'[q] = pc[q] /\ on'[q] = on[q]
                                      /\ mine'[q] = mine[q]
    BY <1>1, <1>3 DEF TypeOK
  <1>11. i # None
    BY NoneAssumption
  <1>12. \A q \in Procs : OneTyped(q)'
    <2>1. OneTyped(p)'
      BY <1>2, <1>10, <1>11 DEF OneTyped
    <2>2. ASSUME NEW q \in Procs, q # p PROVE OneTyped(q)'
      <3>1. OneTyped(q)
        BY <1>1, Types
      <3> QED
        BY <1>2, <1>10, <2>2, <3>1 DEF OneTyped
    <2> QED
      BY <2>1, <2>2
  <1> QED
    BY <1>7, <1>8, <1>9, <1>12, TypesPrimed

LEMMA RunStartTyped ==
  ASSUME IInv, NEW p \in Procs, NEW i \in Ids, RunStart(p, i)
  PROVE  TypeOK'
  <1>1. TypeOK
    BY DEF IInv
  <1>2. /\ plan[i] # None /\ Begin(p, i, "check", <<>>) /\ UNCHANGED disk
        /\ userEdits' = userEdits /\ faults' = faults /\ orig' = orig
    BY DEF RunStart
  <1>3. /\ half' \in [Ids -> BOOLEAN]
        /\ found' \in [Procs -> [Paths -> Contents]]
    BY <1>1 DEF RunStart, TypeOK
  <1>4. IsJournal(<<>>, plan[i].edits)
    <2>1. plan[i].edits \in Seq(Edits)
      BY <1>1, <1>2, ScriptsAssumption DEF TypeOK
    <2> QED
      BY <2>1 DEF IsJournal
  <1> QED
    BY <1>2, <1>3, <1>4, BeginTyped

LEMMA UndoStartTyped ==
  ASSUME IInv, NEW p \in Procs, NEW i \in Ids, UndoStart(p, i)
  PROVE  TypeOK'
  <1>1. TypeOK
    BY DEF IInv
  <1>2. /\ plan[i] # None /\ Begin(p, i, "undo", journal[i]) /\ UNCHANGED disk
        /\ userEdits' = userEdits /\ faults' = faults /\ orig' = orig
        /\ half' = half /\ found' = found /\ Recorded(i)
    BY DEF UndoStart, UndoAccepted
  <1>3. IsJournal(journal[i], plan[i].edits)
    BY <1>1, <1>2, Types DEF JournalsTyped
  <1>4. /\ half' \in [Ids -> BOOLEAN]
        /\ found' \in [Procs -> [Paths -> Contents]]
    BY <1>1, <1>2 DEF TypeOK
  <1> QED
    BY <1>2, <1>3, <1>4, BeginTyped

LEMMA PlanTyped ==
  ASSUME IInv, NEW i \in Ids, NEW edits \in Scripts, NEW reads \in ReadSets,
         Plan(i, edits, reads)
  PROVE  TypeOK'
  <1>1. TypeOK
    BY DEF IInv
  <1>2. PICK b : b = [x \in TouchedBy(edits) \cup reads |-> world[x]]
    OBVIOUS
  <1>3. /\ plan[i] = None
        /\ plan' = [plan EXCEPT ![i] = [edits |-> edits, bound |-> b]]
        /\ world' = world /\ journal' = journal /\ satisfied' = satisfied
        /\ pc' = pc /\ on' = on /\ mine' = mine /\ found' = found
        /\ since' = since /\ orig' = orig /\ dirty' = dirty
        /\ done' = done /\ half' = half
        /\ ops' = ops /\ userEdits' = userEdits /\ faults' = faults
    BY <1>2 DEF Plan, local, history, bounds
  <1>4. DOMAIN b \subseteq Paths
    <2>1. edits \in Seq(Edits)
      BY ScriptsAssumption
    <2>2. ASSUME NEW k \in 1..Len(edits) PROVE EditPaths(edits[k]) \subseteq Paths
      <3>1. edits[k] \in Edits
        BY <2>1
      <3>2. ASSUME NEW e \in Edits PROVE EditPaths(e) \subseteq Paths
        BY DEF Edits, EditPaths
      <3> QED
        BY <3>1, <3>2
    <2>3. TouchedBy(edits) \subseteq Paths
      BY <2>2 DEF TouchedBy
    <2>4. reads \subseteq Paths
      BY ReadSetsAssumption
    <2> QED
      BY <1>2, <2>3, <2>4
  <1>5. /\ DOMAIN plan' = Ids /\ plan'[i].edits = edits /\ plan'[i].bound = b
        /\ \A h \in Ids : h # i => plan'[h] = plan[h]
    BY <1>1, <1>3 DEF TypeOK
  <1>6. PlansTyped'
    <2>1. PlansTyped
      BY <1>1, Types
    <2>2. \A h \in Ids : plan'[h] # None =>
            /\ plan'[h].edits \in Scripts
            /\ DOMAIN plan'[h].bound \subseteq Paths
      BY <1>4, <1>5, <2>1 DEF PlansTyped
    <2>3. satisfied' \subseteq {plan'[h] : h \in Ids} \ {None}
      BY <1>3, <1>5, <2>1 DEF PlansTyped
    <2> QED
      BY <1>5, <2>2, <2>3 DEF PlansTyped
  <1>7. JournalsTyped' /\ DoneTyped'
    <2>1. JournalsTyped /\ DoneTyped
      BY <1>1, Types
    <2> QED
      BY <1>3, <1>5, <2>1 DEF JournalsTyped, DoneTyped, Recorded
  <1>8. \A q \in Procs : OneTyped(q)'
    <2>1. ASSUME NEW q \in Procs PROVE OneTyped(q)'
      <3>1. OneTyped(q) /\ on[q] \in Ids \cup {None}
        BY <1>1, Types DEF ProcsTyped
      <3>2. on[q] # i
        BY <1>3, <3>1, NoneAssumption DEF OneTyped
      <3>3. on[q] # None => plan'[on[q]] = plan[on[q]]
        BY <1>5, <3>1, <3>2
      <3>4. pc[q] \in {"capture", "apply"} => on[q] # None
        BY <3>1 DEF OneTyped
      <3> QED
        BY <1>3, <3>1, <3>3, <3>4 DEF OneTyped
    <2> QED
      BY <2>1
  <1>9. WorldTyped' /\ ProcsTyped' /\ RestTyped'
    BY <1>1, <1>3, Types DEF WorldTyped, ProcsTyped, RestTyped
  <1> QED
    BY <1>6, <1>7, <1>8, <1>9, TypesPrimed

LEMMA RunRefuseTyped ==
  ASSUME IInv, NEW p \in Procs, NEW i \in Ids, RunRefuse(p, i)
  PROVE  TypeOK'
  <1>1. TypeOK
    BY DEF IInv
  <1>2. /\ plan[i] # None /\ journal' = [journal EXCEPT ![i] = None]
        /\ world' = world /\ plan' = plan /\ satisfied' = satisfied
        /\ pc' = pc /\ on' = on /\ mine' = mine /\ found' = found
        /\ since' = since /\ orig' = orig /\ dirty' = dirty
        /\ done' = done /\ half' = half
        /\ ops' = ops /\ userEdits' = userEdits /\ faults' = faults
    BY DEF RunRefuse, local, history, bounds
  <1>3. JournalsTyped'
    BY <1>1, <1>2, JournalMoves
  <1>4. /\ WorldTyped' /\ PlansTyped' /\ ProcsTyped' /\ RestTyped'
        /\ DoneTyped' /\ \A q \in Procs : OneTyped(q)'
    BY <1>1, <1>2, Types DEF WorldTyped, PlansTyped, ProcsTyped, RestTyped,
                             DoneTyped, OneTyped
  <1> QED
    BY <1>3, <1>4, TypesPrimed

LEMMA UserEditTyped ==
  ASSUME IInv, NEW x \in Paths, NEW text \in UserTexts, UserEdit(x, text)
  PROVE  TypeOK'
  <1>1. TypeOK
    BY DEF IInv
  <1>2. /\ world' = [world EXCEPT ![x] = text] /\ WrittenBy(None)
        /\ userEdits < MaxUserEdits /\ userEdits' = userEdits + 1
        /\ plan' = plan /\ journal' = journal /\ satisfied' = satisfied
        /\ pc' = pc /\ on' = on /\ mine' = mine /\ found' = found
        /\ orig' = orig /\ done' = done /\ half' = half
        /\ ops' = ops /\ faults' = faults
    BY DEF UserEdit, local
  <1>3. text \in Contents
    BY UserTextsAssumption DEF Contents
  <1>4. WorldTyped'
    BY <1>1, <1>2, <1>3, Types DEF WorldTyped
  <1>5. dirty' \in [Ids -> SUBSET Paths] /\ since' \in [Procs -> SUBSET Paths]
    BY <1>1, <1>2, WrittenTyped
  <1>6. userEdits' \in 0..MaxUserEdits
    BY <1>1, <1>2, BoundsAssumption DEF TypeOK
  <1>7. RestTyped'
    BY <1>1, <1>2, <1>5, <1>6, Types DEF RestTyped
  <1>8. /\ PlansTyped' /\ JournalsTyped' /\ ProcsTyped'
        /\ DoneTyped' /\ \A q \in Procs : OneTyped(q)'
    BY <1>1, <1>2, Types DEF PlansTyped, JournalsTyped, ProcsTyped, DoneTyped,
                             OneTyped, Recorded
  <1> QED
    BY <1>4, <1>7, <1>8, TypesPrimed

-----------------------------------------------------------------------------
(* The invariant holds.                                                    *)
LEMMA InitSound == Init => Sound
  <1> SUFFICES ASSUME Init PROVE Sound
    OBVIOUS
  <1>1. ASSUME NEW i \in Ids
        PROVE  PlanSound(i) /\ JournalSound(i) /\ StaysDone(i)
    BY DEF Init, PlanSound, JournalSound, StaysDone, Recorded
  <1>2. ASSUME NEW p \in Procs PROVE Doing(p)
    BY DEF Init, Doing
  <1> QED
    BY <1>1, <1>2 DEF Sound

Stepping(p) ==
    \/ Check(p) \/ CheckFail(p) \/ Capture(p) \/ CaptureFail(p)
    \/ Apply(p) \/ ApplyFail(p) \/ Mark(p) \/ MarkFail(p)
    \/ Invert(p) \/ RemoveIgnored(p) \/ InvertFail(p)
    \/ RolledBack(p) \/ Undone(p) \/ Kill(p)

(* A step of an operation is a step of one that was begun.                 *)
LEMMA SteppingOn ==
  ASSUME TypeOK, NEW p \in Procs, Stepping(p)
  PROVE  on[p] # None /\ on[p] \in Ids
  <1>1. pc[p] # "idle"
    BY DEF Stepping, Check, CheckFail, Capture, CaptureFail, Apply, ApplyFail,
           Mark, MarkFail, Invert, RemoveIgnored, InvertFail, RolledBack,
           Undone, Kill, MoreEdits, AllMade, Inverting
  <1> QED
    BY <1>1 DEF TypeOK

LEMMA SteppingKeeps ==
  ASSUME IInv, NEW p \in Procs, Stepping(p)
  PROVE  IInv'
  <1>1. on[p] # None
    BY SteppingOn DEF IInv
  <1>2. PICK i : i = on[p]
    OBVIOUS
  <1>3. PICK E : E = plan[i].edits
    OBVIOUS
  <1>4. CASE Check(p)
    BY <1>1, <1>2, <1>3, <1>4, CheckTyped, CheckSound DEF IInv
  <1>5. CASE CheckFail(p) \/ MarkFail(p)
    BY <1>1, <1>2, <1>3, <1>5, CheckTyped, FailSound DEF IInv
  <1>6. CASE Capture(p)
    BY <1>1, <1>2, <1>3, <1>6, CaptureTyped, CaptureSound DEF IInv
  <1>7. CASE CaptureFail(p)
    BY <1>1, <1>2, <1>3, <1>7, CaptureFailTyped, FailSound DEF IInv
  <1>8. CASE Apply(p)
    BY <1>1, <1>2, <1>3, <1>8, ApplyTyped, ApplySound DEF IInv
  <1>9. CASE ApplyFail(p)
    BY <1>1, <1>2, <1>3, <1>9, ApplyTyped, ApplyFailSound DEF IInv
  <1>10. CASE Mark(p)
    BY <1>1, <1>2, <1>3, <1>10, CloseTyped, MarkSound DEF IInv
  <1>11. CASE Invert(p)
    BY <1>1, <1>2, <1>3, <1>11, InvertTyped, InvertSound DEF IInv
  <1>12. CASE RemoveIgnored(p)
    BY <1>1, <1>2, <1>3, <1>12, InvertTyped, RemoveIgnoredSound DEF IInv
  <1>13. CASE InvertFail(p)
    BY <1>1, <1>2, <1>3, <1>13, CutShortTyped, InvertFailSound DEF IInv
  <1>14. CASE RolledBack(p) \/ Undone(p)
    BY <1>1, <1>2, <1>14, CloseTyped, CloseSound DEF IInv
  <1>15. CASE Kill(p)
    BY <1>1, <1>2, <1>3, <1>15, CutShortTyped, KillSound DEF IInv
  <1> QED
    BY <1>4, <1>5, <1>6, <1>7, <1>8, <1>9, <1>10, <1>11, <1>12, <1>13, <1>14,
       <1>15 DEF Stepping

LEMMA NextKeeps ==
  ASSUME IInv, [Next]_vars
  PROVE  IInv'
  <1>1. CASE UNCHANGED vars
    <2>1. /\ world' = world /\ plan' = plan /\ journal' = journal
          /\ satisfied' = satisfied /\ pc' = pc /\ on' = on /\ mine' = mine
          /\ found' = found /\ ops' = ops /\ userEdits' = userEdits
          /\ faults' = faults /\ since' = since /\ orig' = orig
          /\ dirty' = dirty /\ done' = done /\ half' = half
      BY <1>1 DEF vars, disk, local, bounds, history
    <2>2. TypeOK'
      BY <2>1 DEF IInv, TypeOK, Recorded
    <2>3. OthersFrame(None, None, {})
      BY <2>1, NoneAssumption DEF OthersFrame
    <2>4. Sound'
      BY <2>3, Elsewhere
    <2> QED
      BY <2>2, <2>4 DEF IInv
  <1>2. ASSUME NEW i \in Ids, NEW edits \in Scripts, NEW reads \in ReadSets,
               Plan(i, edits, reads)
        PROVE  IInv'
    BY <1>2, PlanTyped, PlanSoundly DEF IInv
  <1>3. ASSUME NEW p \in Procs, NEW i \in Ids, RunStart(p, i)
        PROVE  IInv'
    BY <1>3, RunStartTyped, RunStartSound DEF IInv
  <1>4. ASSUME NEW p \in Procs, NEW i \in Ids, RunRefuse(p, i)
        PROVE  IInv'
    BY <1>4, RunRefuseTyped, RunRefuseSound DEF IInv
  <1>5. ASSUME NEW p \in Procs, NEW i \in Ids, UndoStart(p, i)
        PROVE  IInv'
    BY <1>5, UndoStartTyped, UndoStartSound DEF IInv
  <1>6. ASSUME NEW x \in Paths, NEW text \in UserTexts, UserEdit(x, text)
        PROVE  IInv'
    BY <1>6, UserEditTyped, UserEditSound DEF IInv
  <1> QED
    BY <1>1, <1>2, <1>3, <1>4, <1>5, <1>6, SteppingKeeps DEF Next, Stepping

(* The inductive invariant of Procedures: the types, and that every        *)
(* journal, in memory and on disk, leads back to where its run began on    *)
(* the paths nobody else wrote.                                            *)
THEOREM ProceduresInvariant == Spec => []IInv
  <1>1. Init => IInv
    BY InitTyped, InitSound DEF IInv
  <1>2. IInv /\ [Next]_vars => IInv'
    BY NextKeeps
  <1> QED
    BY <1>1, <1>2, PTL DEF Spec

(* The state has its types: a journal, in memory or on disk, records a     *)
(* prefix of the plan of its id, and only plans are marked as applied.     *)
THEOREM ProceduresTyped == Spec => []TypeOK
  <1>1. IInv => TypeOK
    BY DEF IInv
  <1> QED
    BY <1>1, ProceduresInvariant, PTL

(* What a run did to its end can be undone as long as nobody else writes a *)
(* path its plan touches or reads, whatever is written elsewhere, and      *)
(* whatever is run, undone or killed meanwhile.                            *)
THEOREM DoneStaysUndoable == Spec => []UndoOpen
  <1>1. IInv => UndoOpen
    <2> SUFFICES ASSUME IInv, NEW i \in Ids, done[i],
                        Undisturbed(i, dirty[i]),
                        \A p \in Procs : on[p] # i
        PROVE UndoAccepted(i) /\ Len(journal[i]) = Len(plan[i].edits)
      BY DEF UndoOpen
    <2>1. StaysDone(i) /\ PlanSound(i) /\ plan[i] # None
      BY DEF IInv, Sound, TypeOK
    <2>2. /\ Recorded(i) /\ Len(journal[i]) = Len(plan[i].edits)
          /\ Showing(world, plan[i].edits, Len(plan[i].edits))
      BY <2>1 DEF StaysDone
    <2>3. Planned(plan[i].edits)
      BY <2>1 DEF PlanSound
    <2>4. InPlace(i)
      BY <2>2, <2>3, InPlaceShowing
    <2> QED
      BY <2>2, <2>4 DEF UndoAccepted
  <1> QED
    BY <1>1, ProceduresInvariant, PTL

(* An operation with nothing left to invert ends without writing.          *)
LEMMA EndsUnwritten ==
  ASSUME TypeOK, [Next]_vars, NEW p \in Procs, Ends(p), mine[p] = <<>>,
         pc[p] \in {"rollback", "undo"}
  PROVE  world' = world
  <1>1. pc \in [Procs -> {"idle", "check", "capture", "apply", "rollback",
                          "undo"}]
    BY DEF TypeOK
  <1>2. pc'[p] = "idle" /\ pc'[p] # pc[p]
    BY DEF Ends
  <1>3. ~Inverting(p)
    BY DEF Inverting
  <1>4. CASE UNCHANGED vars
    BY <1>4 DEF vars, disk
  <1>5. ASSUME NEW i \in Ids, NEW edits \in Scripts, NEW reads \in ReadSets,
               Plan(i, edits, reads)
        PROVE  world' = world
    BY <1>5 DEF Plan
  <1>6. ASSUME NEW q \in Procs, NEW i \in Ids,
               RunStart(q, i) \/ RunRefuse(q, i) \/ UndoStart(q, i)
        PROVE  world' = world
    BY <1>6 DEF RunStart, RunRefuse, UndoStart, disk
  <1>7. ASSUME NEW q \in Procs, Apply(q) \/ ApplyFail(q) \/ Invert(q)
        PROVE  world' = world
    BY <1>1, <1>2, <1>7 DEF Apply, ApplyFail, Invert, Goto
  <1>8. ASSUME NEW q \in Procs, InvertFail(q) \/ Kill(q)
        PROVE  world' = world
    <2>1. q = p
      BY <1>1, <1>2, <1>8 DEF InvertFail, Kill, Over, Goto
    <2> QED
      BY <1>3, <1>8, <2>1 DEF InvertFail, Kill
  <1>9. ASSUME NEW q \in Procs,
               \/ Check(q) \/ CheckFail(q) \/ Capture(q) \/ CaptureFail(q)
               \/ Mark(q) \/ MarkFail(q) \/ RemoveIgnored(q)
               \/ RolledBack(q) \/ Undone(q)
        PROVE  world' = world
    BY <1>9 DEF Check, CheckFail, Capture, CaptureFail, Mark, MarkFail,
                RemoveIgnored, RolledBack, Undone, disk
  <1>10. ASSUME NEW x \in Paths, NEW text \in UserTexts, UserEdit(x, text)
         PROVE  world' = world
    BY <1>2, <1>10 DEF UserEdit, local
  <1> QED
    BY <1>4, <1>5, <1>6, <1>7, <1>8, <1>9, <1>10 DEF Next

LEMMA UnwoundAll ==
  ASSUME NEW edits, NEW w, NEW o, NEW written,
         Unwound(edits, <<>>, w, o, written)
  PROVE  \A x \in Clean(edits, written) : w[x] = o[x]
  BY DEF Unwound

(* A run that failed, and was able to roll back, leaves every path nobody  *)
(* else wrote as it found it.                                              *)
THEOREM FailedRunsLeaveNothing == Spec => FailedRunIntact
  <1> DEFINE Intact(p) == Ends(p) /\ pc[p] = "rollback" /\ mine[p] = <<>>
                            => RolledAllBack(p)
  <1>1. ASSUME IInv, [Next]_vars, NEW p \in Procs PROVE Intact(p)
    <2> SUFFICES ASSUME Ends(p), pc[p] = "rollback", mine[p] = <<>>
        PROVE RolledAllBack(p)
      OBVIOUS
    <2>1. world' = world
      BY <1>1, EndsUnwritten DEF IInv
    <2>2. RunUnwinds(p)
      BY <1>1 DEF IInv, TypeOK, Sound, Doing, Steady
    <2>3. Unwound(EditsOf(p), <<>>, world, found[p], since[p])
      BY <2>2 DEF RunUnwinds, Runs
    <2>4. \A x \in Clean(EditsOf(p), since[p]) : world[x] = found[p][x]
      BY <2>3, UnwoundAll
    <2> QED
      BY <2>1, <2>4 DEF RolledAllBack, EditsOf
  <1>2. IInv /\ [Next]_vars => [\A p \in Procs : Intact(p)]_vars
    BY <1>1
  <1> QED
    BY <1>2, ProceduresInvariant, PTL DEF Spec, FailedRunIntact

(* An undo to its end restores every path nobody else wrote to what it was *)
(* when the run began whose journal is there.                              *)
THEOREM UndoneAsFound == Spec => UndoRestores
  <1> DEFINE Restored(p) == Ends(p) /\ pc[p] = "undo" /\ mine[p] = <<>> =>
               \A x \in Clean(plan[on[p]].edits, dirty[on[p]]) :
                  world'[x] = orig[on[p]][x]
  <1>1. ASSUME IInv, [Next]_vars, NEW p \in Procs PROVE Restored(p)
    <2> SUFFICES ASSUME Ends(p), pc[p] = "undo", mine[p] = <<>>
        PROVE \A x \in Clean(plan[on[p]].edits, dirty[on[p]]) :
                 world'[x] = orig[on[p]][x]
      OBVIOUS
    <2>1. world' = world
      BY <1>1, EndsUnwritten DEF IInv
    <2>2. UndoUnwinds(p)
      BY <1>1 DEF IInv, TypeOK, Sound, Doing, Steady
    <2>3. Unwound(EditsOf(p), <<>>, world, orig[on[p]], dirty[on[p]])
      BY <2>2 DEF UndoUnwinds
    <2>4. \A x \in Clean(EditsOf(p), dirty[on[p]]) : world[x] = orig[on[p]][x]
      BY <2>3, UnwoundAll
    <2> QED
      BY <2>1, <2>4 DEF EditsOf
  <1>2. IInv /\ [Next]_vars => [\A p \in Procs : Restored(p)]_vars
    BY <1>1
  <1> QED
    BY <1>2, ProceduresInvariant, PTL DEF Spec, UndoRestores

(* An undo goes on, or is cut short, in the inverse of its newest step.    *)
LEMMA UndoGoesOn ==
  ASSUME TypeOK, [Next]_vars, NEW p \in Procs, pc[p] = "undo",
         mine'[p] # mine[p]
  PROVE  Invert(p) \/ RemoveIgnored(p) \/ InvertFail(p) \/ Kill(p)
           \/ (mine[p] = <<>> /\ world' = world)
  <1>1. mine \in [Procs -> Seq(Steps)]
    BY DEF TypeOK
  <1>2. CASE UNCHANGED vars
    BY <1>2 DEF vars, local
  <1>3. ASSUME NEW i \in Ids, NEW edits \in Scripts, NEW reads \in ReadSets,
               Plan(i, edits, reads)
        PROVE  FALSE
    BY <1>3 DEF Plan, local
  <1>4. ASSUME NEW q \in Procs, NEW i \in Ids,
               RunStart(q, i) \/ RunRefuse(q, i) \/ UndoStart(q, i)
        PROVE  FALSE
    <2>1. q # p => mine'[p] = mine[p]
      BY <1>1, <1>4 DEF RunStart, RunRefuse, UndoStart, Begin, local
    <2>2. q = p => mine' = mine
      BY <1>4 DEF RunStart, RunRefuse, UndoStart, Begin, local
    <2> QED
      BY <2>1, <2>2
  <1>5. ASSUME NEW q \in Procs, Stepping(q)
        PROVE  \/ Invert(p) \/ RemoveIgnored(p) \/ InvertFail(p) \/ Kill(p)
               \/ mine[p] = <<>> /\ world' = world
    <2>1. q # p => mine'[p] = mine[p]
      BY <1>1, <1>5 DEF Stepping, Check, CheckFail, Capture, CaptureFail,
           Apply, ApplyFail, Mark, MarkFail, Invert, RemoveIgnored, InvertFail,
           RolledBack, Undone, Kill, Close, Over
    <2>2. q = p
      BY <2>1
    <2>3. pc[q] = "undo"
      BY <2>2
    <2>4. \/ Invert(p) \/ RemoveIgnored(p) \/ InvertFail(p) \/ Kill(p)
          \/ Undone(p)
      BY <1>5, <2>2, <2>3 DEF Stepping, Check, CheckFail, Capture, CaptureFail,
           Apply, ApplyFail, Mark, MarkFail, RolledBack, MoreEdits, AllMade
    <2> QED
      BY <2>4 DEF Undone
  <1>6. ASSUME NEW x \in Paths, NEW text \in UserTexts, UserEdit(x, text)
        PROVE  FALSE
    BY <1>6 DEF UserEdit, local
  <1> QED
    BY <1>2, <1>3, <1>4, <1>5, <1>6 DEF Next, Stepping

(* An undo replaces only what the plan put there, or moves it back to      *)
(* where there is room.                                                    *)
THEOREM UndoneKeepsUserWork == Spec => UndoKeepsUserWork
  <1> DEFINE Put(p, x) == world[x] \in {plan[on[p]].edits[k].text :
               k \in {l \in 1..Len(plan[on[p]].edits) :
                        /\ plan[on[p]].edits[l].op = "put"
                        /\ plan[on[p]].edits[l].path = x}}
  <1> DEFINE Away(x) == \E y \in Paths : world'[y] = world[x]
                                           /\ world[y] = Absent
  <1> DEFINE Keeps(p) == pc[p] = "undo" /\ mine'[p] # mine[p] =>
               \A x \in Paths \ since[p] :
                 world'[x] # world[x] /\ world[x] # Absent
                   => \/ Put(p, x)
                      \/ Away(x)
  <1>1. ASSUME IInv, [Next]_vars, NEW p \in Procs, pc[p] = "undo",
               mine'[p] # mine[p], NEW x \in Paths \ since[p],
               world'[x] # world[x], world[x] # Absent
        PROVE  Put(p, x) \/ Away(x)
    <2>1. PICK i : i = on[p]
      OBVIOUS
    <2>2. PICK E : E = plan[i].edits
      OBVIOUS
    <2>3. PICK n : n = Len(mine[p])
      OBVIOUS
    <2>4. PICK s : s = Newest(p)
      OBVIOUS
    <2>5. i # None /\ TypeOK
      BY <1>1, <2>1 DEF IInv, TypeOK
    <2>6. Invert(p) \/ InvertFail(p) \/ Kill(p)
      <3>1. Invert(p) \/ RemoveIgnored(p) \/ InvertFail(p) \/ Kill(p)
        BY <1>1, <2>5, UndoGoesOn
      <3> QED
        BY <1>1, <3>1 DEF RemoveIgnored, disk
    <2>7. mine[p] # <<>>
      BY <1>1, <2>6 DEF Invert, InvertFail, Kill, Inverting
    <2>8. /\ n \in 1..Len(E) /\ s.edit = E[n] /\ s.was \in Contents
          /\ E[n].path \in Paths /\ Planned(E) /\ world \in [Paths -> Contents]
      BY <1>1, <2>1, <2>2, <2>3, <2>4, <2>5, <2>7, NewestFacts
    <2>9. /\ E[n].op = "put" \/ E[n].op = "move"
          /\ E[n].op = "move" => E[n].to \in Paths /\ E[n].to # E[n].path
      BY <1>1, <2>1, <2>2, <2>3, <2>4, <2>5, <2>7, NewestFacts
    <2>10. Kept(world, E, n, since[p])
      <3>1. UndoKeeps(p) /\ EditsOf(p) = E
        BY <1>1, <2>1, <2>2, <2>5, DoingFacts
      <3> QED
        BY <1>1, <2>3, <3>1 DEF UndoKeeps
    <2>11. E[n].op = "put" /\ x = E[n].path => Put(p, x)
      <3> SUFFICES ASSUME E[n].op = "put", x = E[n].path PROVE Put(p, x)
        OBVIOUS
      <3>1. n \in Nat /\ n \in 1..n
        BY <2>8, PlannedEdit
      <3>2. world[x] = E[n].text
        BY <2>10, <3>1 DEF Kept
      <3> QED
        BY <2>1, <2>2, <2>8, <3>2
    <2>12. CASE Invert(p)
      <3>1. PICK w : w = world
        OBVIOUS
      <3>2. PICK v : v = world'
        OBVIOUS
      <3>3. v = Unmade(w, s) /\ CanUnmake(w, s)
        BY <2>4, <2>12, <3>1, <3>2 DEF Invert
      <3>4. CASE E[n].op = "put"
        <4>1. \A y \in Paths : y # s.edit.path => v[y] = w[y]
          BY <2>8, <3>1, <3>3, <3>4, UnmadePut
        <4> QED
          BY <1>1, <2>8, <2>11, <3>1, <3>2, <3>4, <4>1
      <3>5. CASE E[n].op = "move"
        <4>1. /\ v[s.edit.path] = w[s.edit.to]
              /\ \A y \in Paths : y \notin {s.edit.path, s.edit.to} =>
                   v[y] = w[y]
          BY <2>8, <2>9, <3>1, <3>3, <3>5, UnmadeMove
        <4>2. w[s.edit.path] = Absent
          BY <2>8, <3>3, <3>5 DEF CanUnmake
        <4>3. x = s.edit.to
          BY <1>1, <3>1, <3>2, <4>1, <4>2
        <4> QED
          BY <2>8, <3>1, <3>2, <4>1, <4>2, <4>3
      <3> QED
        BY <2>9, <3>4, <3>5
    <2>13. CASE InvertFail(p) \/ Kill(p)
      <3>1. world' \in TornStep(world, Newest(p))
        BY <1>1, <2>7, <2>13 DEF InvertFail, Kill, Inverting
      <3>2. PICK v : v = world'
        OBVIOUS
      <3>3. TornAt(p, E, world, v)
        BY <1>1, <2>1, <2>2, <2>5, <2>7, <3>1, <3>2, TornAtEdit
      <3> QED
        BY <1>1, <2>3, <2>11, <3>2, <3>3 DEF TornAt
    <2> QED
      BY <2>6, <2>12, <2>13
  <1>2. IInv /\ [Next]_vars => [\A p \in Procs : Keeps(p)]_vars
    BY <1>1
  <1> QED
    BY <1>2, ProceduresInvariant, PTL DEF Spec, UndoKeepsUserWork
=============================================================================
