----------------------------- MODULE Procedures -----------------------------
(***************************************************************************)
(* Procedures: planned edits of files aikit does not own, run and undone   *)
(* by aikit-store/src/procedure.rs from the plans of aikit-core.  A run    *)
(* records the inverse of each edit in an undo journal before it makes the *)
(* edit, rolls back from what it recorded on any error, and marks the plan *)
(* satisfied at its end.  An undo checks that every path still holds what  *)
(* the plan put there and replays the journal in reverse.  No lock is      *)
(* taken: other processes and the user write the same paths meanwhile.     *)
(*                                                                         *)
(* Every kind of edit that replaces one path (WriteFile, DeleteFile,       *)
(* CreateLink) is a "put", of a text or of nothing.  The isolation is      *)
(* Direct or Staged: branches of git, commands and marked blocks are left  *)
(* out.  A backup blob is kept in the journal step that names it: two runs *)
(* of one id back up the same text, since the plan names it beforehand.    *)
(***************************************************************************)
EXTENDS Naturals, Sequences, FiniteSets

CONSTANTS Procs,        \* processes
          Ids,          \* ids procedures are planned under
          Paths,        \* paths of the world
          Texts,        \* whole texts a path can hold
          Absent,       \* nothing is there
          Torn,         \* what a write cut short leaves
          None,         \* no plan, no journal, no procedure
          InitialWorld, \* what the paths hold at first
          Scripts,      \* the sequences of edits that are planned
          UserTexts,    \* what the user writes
          ReadSets,     \* the sets of paths a plan only reads
          MaxOps,       \* bound: runs and undos begun
          MaxUserEdits, \* bound: edits the user makes
          MaxFaults     \* bound: errors of the file system and kills

Contents == Texts \cup {Absent, Torn}
Edits == [op : {"put"}, path : Paths, text : Texts \cup {Absent}]
         \cup [op : {"move"}, path : Paths, to : Paths]

ASSUME ContentsAssumption == Absent \notin Texts /\ Torn \notin Texts
ASSUME WorldAssumption == InitialWorld \in [Paths -> Texts \cup {Absent}]
ASSUME UserTextsAssumption == UserTexts \subseteq Texts \cup {Absent}
ASSUME ScriptsAssumption == Scripts \subseteq Seq(Edits) \ {<<>>}
ASSUME ReadSetsAssumption == ReadSets \subseteq SUBSET Paths
ASSUME BoundsAssumption == {MaxOps, MaxUserEdits, MaxFaults} \subseteq Nat

VARIABLES world,        \* world[x]: what path x holds
          plan,         \* plan[i]: the plan saved under id i
          journal,      \* journal[i]: undo.json of i, or Torn
          satisfied,    \* the plans marked as applied
          pc,           \* pc[p]: where p is in a run or an undo
          on,           \* on[p]: the procedure it is about
          mine,         \* mine[p]: the journal p has in memory
          ops,          \* how many runs and undos were begun
          userEdits,    \* how many edits the user made
          faults,       \* how many faults there have been
          found,        \* history: found[p]: the world when p's run began
          since,        \* history: since[p]: paths others wrote since p began
          orig,         \* history: the world when the run began that first
                        \* wrote the journal of i
          dirty,        \* history: paths others have written since then
          done,         \* history: i was run to its end and not undone
          half          \* history: an operation of i was cut short

disk == <<world, plan, journal, satisfied>>
local == <<pc, on, mine, found>>
history == <<since, orig, dirty, done, half>>
bounds == <<ops, userEdits, faults>>
vars == <<disk, local, bounds, history>>

-----------------------------------------------------------------------------
(* Plans and journals.                                                     *)

EditPaths(e) == IF e.op = "put" THEN {e.path} ELSE {e.path, e.to}

(* No planner touches a path twice, but to put something where it moved    *)
(* something away.                                                         *)
ASSUME TidyAssumption ==
    \A edits \in Scripts : \A k, l \in 1..Len(edits) :
       k < l /\ EditPaths(edits[k]) \cap EditPaths(edits[l]) # {} =>
         /\ edits[k].op = "move" /\ edits[l].op = "put"
         /\ edits[l].path = edits[k].path

TouchedBy(edits) == UNION {EditPaths(edits[k]) : k \in 1..Len(edits)}

Touched(i) == TouchedBy(plan[i].edits)

Made(w, e) == IF e.op = "put"
              THEN [w EXCEPT ![e.path] = e.text]
              ELSE [w EXCEPT ![e.to] = w[e.path], ![e.path] = Absent]

(* A rename needs its source.                                              *)
CanMake(w, e) == e.op = "move" => w[e.path] # Absent

Step(w, e) == [edit |-> e, was |-> IF e.op = "put" THEN w[e.path] ELSE Absent]

Steps == [edit : Edits, was : Contents]

ASSUME NoneAssumption == None \notin Ids \cup Procs
                         /\ None \notin Seq(Steps) /\ Torn \notin Seq(Steps)

Unmade(w, s) == IF s.edit.op = "put"
                THEN [w EXCEPT ![s.edit.path] = s.was]
                ELSE [w EXCEPT ![s.edit.path] = w[s.edit.to],
                               ![s.edit.to] = Absent]

(* A move back needs what was moved, and room for it.                      *)
CanUnmake(w, s) == s.edit.op = "move" =>
                     w[s.edit.to] # Absent /\ w[s.edit.path] = Absent

(* A write may stop half way, or between the removal of a link and what    *)
(* replaces it; a rename and a removal do not.                             *)
TornBy(w, x, text) ==
    {w} \cup {[w EXCEPT ![x] = t] : t \in IF text = Absent THEN {}
                                          ELSE {Absent, Torn}}

TornEdit(w, e) == IF e.op = "put" THEN TornBy(w, e.path, e.text) ELSE {w}

TornStep(w, s) ==
    IF s.edit.op = "put" THEN TornBy(w, s.edit.path, s.was) ELSE {w}

Recorded(i) == journal[i] \notin {None, Torn}

(* verify_undo_preconditions: the last edit of each path shows.  Of a move *)
(* only its two ends are looked at, not what was moved.                    *)
Shows(e) == IF e.op = "put" THEN world[e.path] = e.text
                            ELSE world[e.path] = Absent /\ world[e.to] # Absent

InPlace(i) ==
    LET edits == plan[i].edits IN
    \A k \in 1..Len(edits) :
       (\A l \in (k + 1)..Len(edits) : edits[l].path # edits[k].path)
         => Shows(edits[k])

UndoAccepted(i) == Recorded(i) /\ InPlace(i)

-----------------------------------------------------------------------------
(* A journal records the first edits of its plan, in their order.          *)
IsJournal(j, edits) ==
    /\ j \in Seq(Steps) /\ Len(j) <= Len(edits)
    /\ \A k \in 1..Len(j) : j[k].edit = edits[k]

TypeOK ==
    /\ world \in [Paths -> Contents]
    /\ DOMAIN plan = Ids /\ satisfied \subseteq {plan[i] : i \in Ids} \ {None}
    /\ journal \in [Ids -> Seq(Steps) \cup {None, Torn}]
    /\ \A i \in Ids :
         /\ plan[i] # None => /\ plan[i].edits \in Scripts
                              /\ DOMAIN plan[i].bound \subseteq Paths
         /\ Recorded(i) => /\ plan[i] # None
                           /\ IsJournal(journal[i], plan[i].edits)
    /\ pc \in [Procs -> {"idle", "check", "capture", "apply", "rollback",
                         "undo"}]
    /\ on \in [Procs -> Ids \cup {None}] /\ mine \in [Procs -> Seq(Steps)]
    /\ \A p \in Procs :
         /\ on[p] = None <=> pc[p] = "idle"
         /\ on[p] # None => /\ plan[on[p]] # None
                            /\ IsJournal(mine[p], plan[on[p]].edits)
         /\ pc[p] = "capture" => Len(mine[p]) < Len(plan[on[p]].edits)
         /\ pc[p] = "apply" => mine[p] # <<>>
    /\ ops \in 0..MaxOps
    /\ userEdits \in 0..MaxUserEdits /\ faults \in 0..MaxFaults
    /\ found \in [Procs -> [Paths -> Contents]]
    /\ orig \in [Ids -> [Paths -> Contents]]
    /\ dirty \in [Ids -> SUBSET Paths] /\ since \in [Procs -> SUBSET Paths]
    /\ done \in [Ids -> BOOLEAN] /\ half \in [Ids -> BOOLEAN]
    /\ \A i \in Ids : done[i] => plan[i] # None

Init ==
    /\ world = InitialWorld
    /\ plan = [i \in Ids |-> None]
    /\ journal = [i \in Ids |-> None]
    /\ satisfied = {}
    /\ pc = [p \in Procs |-> "idle"]
    /\ on = [p \in Procs |-> None]
    /\ mine = [p \in Procs |-> <<>>]
    /\ ops = 0 /\ userEdits = 0 /\ faults = 0
    /\ found = [p \in Procs |-> InitialWorld]
    /\ orig = [i \in Ids |-> InitialWorld]
    /\ dirty = [i \in Ids |-> {}]
    /\ since = [p \in Procs |-> {}]
    /\ done = [i \in Ids |-> FALSE]
    /\ half = [i \in Ids |-> FALSE]

Goto(p, l) == pc' = [pc EXCEPT ![p] = l]

Fault == faults < MaxFaults /\ faults' = faults + 1

(* p's operation is over.                                                  *)
Over(p) ==
    /\ Goto(p, "idle")
    /\ on' = [on EXCEPT ![p] = None]
    /\ mine' = [mine EXCEPT ![p] = <<>>]
    /\ found' = [found EXCEPT ![p] = InitialWorld]

(* History of a write: every other operation and procedure notes the paths *)
WrittenBy(p) ==
    LET changed == {x \in Paths : world'[x] # world[x]} IN
    /\ dirty' = [i \in Ids |-> IF \/ plan[i] = None
                                  \/ p \in Procs /\ on[p] = i THEN dirty[i]
                               ELSE dirty[i] \cup changed]
    /\ since' = [q \in Procs |-> IF pc'[q] = "idle" THEN {}
                                 ELSE IF q = p THEN since[q]
                                 ELSE since[q] \cup changed]

(* p's operation is over, with nothing more written.                       *)
Close(p) == Over(p) /\ since' = [since EXCEPT ![p] = {}]

(* p begins an operation about i.  Two about one id disturb each other     *)
(* everywhere, through the journal they share.                             *)
Begin(p, i, l, j) ==
    LET others == {q \in Procs : on[q] = i} IN
    /\ pc[p] = "idle"
    /\ ops < MaxOps /\ ops' = ops + 1
    /\ Goto(p, l)
    /\ on' = [on EXCEPT ![p] = i]
    /\ mine' = [mine EXCEPT ![p] = j]
    /\ dirty' = [dirty EXCEPT ![i] = IF others # {} THEN Paths ELSE @]
    /\ since' = [q \in Procs |-> IF q \in others \/ (q = p /\ others # {})
                                 THEN Paths ELSE since[q]]
    /\ done' = [done EXCEPT ![i] = FALSE]

-----------------------------------------------------------------------------
(* plan_procedure, or another planner: what the touched paths and the read *)
(* ones hold is bound into the plan.  Planners refuse a move whose source  *)
(* is missing or whose destination is there.                               *)
Plan(i, edits, reads) ==
    /\ plan[i] = None
    /\ \A k \in 1..Len(edits) : edits[k].op = "move" =>
         world[edits[k].path] # Absent /\ world[edits[k].to] = Absent
    /\ plan' = [plan EXCEPT ![i] =
                  [edits |-> edits,
                   bound |-> [x \in TouchedBy(edits) \cup reads |-> world[x]]]]
    /\ UNCHANGED <<world, journal, satisfied, local, bounds, history>>

(* A run of a plan marked as applied writes nothing.  Of another, the      *)
(* paths that are only read are verified first.                            *)
ReadsHold(i) == \A x \in DOMAIN plan[i].bound \ Touched(i) :
                   world[x] = plan[i].bound[x]

RunStart(p, i) ==
    /\ plan[i] # None /\ plan[i] \notin satisfied /\ ReadsHold(i)
    /\ Begin(p, i, "check", <<>>)
    /\ found' = [found EXCEPT ![p] = world]
    /\ half' = [half EXCEPT ![i] = FALSE]
    /\ UNCHANGED <<disk, userEdits, faults, orig>>

(* procedure.precondition_failed: rollback_uncommitted replays the empty   *)
(* journal in memory, and discards the one on disk.                        *)
RunRefuse(p, i) ==
    /\ plan[i] # None /\ plan[i] \notin satisfied /\ ~ReadsHold(i)
    /\ pc[p] = "idle"
    /\ journal' = [journal EXCEPT ![i] = None]
    /\ UNCHANGED <<world, plan, satisfied, local, bounds, history>>

-----------------------------------------------------------------------------
NextEdit(p) == plan[on[p]].edits[Len(mine[p]) + 1]

MoreEdits(p) == pc[p] = "check" /\ Len(mine[p]) < Len(plan[on[p]].edits)

(* Paths are verified when an edit first touches them.                     *)
FirstTouched(p) == EditPaths(NextEdit(p))
                     \ TouchedBy(SubSeq(plan[on[p]].edits, 1, Len(mine[p])))

Expected(p) == \A x \in FirstTouched(p) : world[x] = plan[on[p]].bound[x]

Check(p) ==
    /\ MoreEdits(p) /\ Expected(p)
    /\ Goto(p, "capture")
    /\ UNCHANGED <<disk, on, mine, found, bounds, history>>

CheckFail(p) ==
    /\ MoreEdits(p) /\ ~Expected(p)
    /\ Goto(p, "rollback")
    /\ UNCHANGED <<disk, on, mine, found, bounds, history>>

(* History: with its first step the journal on disk becomes p's.           *)
Journaled(p) ==
    IF mine[p] = <<>>
    THEN /\ orig' = [orig EXCEPT ![on[p]] = found[p]]
         /\ dirty' = [dirty EXCEPT ![on[p]] = since[p]]
    ELSE UNCHANGED <<orig, dirty>>

(* Mutant: the inverse is taken from what the edit will have made.         *)
CaptureAfter(p) ==
    LET e == NextEdit(p)
        j == Append(mine[p], Step(Made(world, e), e))
    IN
    /\ pc[p] = "capture"
    /\ mine' = [mine EXCEPT ![p] = j]
    /\ journal' = [journal EXCEPT ![on[p]] = j]
    /\ Goto(p, "apply")
    /\ Journaled(p)
    /\ UNCHANGED <<world, plan, satisfied, on, found, bounds, since, done,
                   half>>

(* The inverse is captured and recorded before the edit.                   *)
Capture(p) ==
    LET j == Append(mine[p], Step(world, NextEdit(p))) IN
    /\ pc[p] = "capture"
    /\ mine' = [mine EXCEPT ![p] = j]
    /\ journal' = [journal EXCEPT ![on[p]] = j]
    /\ Goto(p, "apply")
    /\ Journaled(p)
    /\ UNCHANGED <<world, plan, satisfied, on, found, bounds, since, done,
                   half>>

(* The backup or the journal cannot be written, or only in part.           *)
CaptureFail(p) ==
    /\ pc[p] = "capture" /\ Fault
    /\ \E j \in {journal[on[p]], Torn} :
          journal' = [journal EXCEPT ![on[p]] = j]
    /\ Goto(p, "rollback")
    /\ UNCHANGED <<world, plan, satisfied, on, mine, found, ops, userEdits,
                   history>>

Current(p) == mine[p][Len(mine[p])].edit

Apply(p) ==
    /\ pc[p] = "apply" /\ CanMake(world, Current(p))
    /\ world' = Made(world, Current(p))
    /\ Goto(p, "check")
    /\ WrittenBy(p)
    /\ UNCHANGED <<plan, journal, satisfied, on, mine, found, bounds, orig,
                   done, half>>

(* Mutant: the step of the edit that failed is not rolled back.            *)
ApplyFailPopped(p) ==
    /\ pc[p] = "apply"
    /\ \/ ~CanMake(world, Current(p)) /\ UNCHANGED faults
       \/ Fault
    /\ world' \in TornEdit(world, Current(p))
    /\ mine' = [mine EXCEPT ![p] = SubSeq(@, 1, Len(@) - 1)]
    /\ Goto(p, "rollback")
    /\ WrittenBy(p)
    /\ UNCHANGED <<plan, journal, satisfied, on, found, ops, userEdits, orig,
                   done, half>>

(* The edit fails; its own inverse is on the journal by then.              *)
ApplyFail(p) ==
    /\ pc[p] = "apply"
    /\ \/ ~CanMake(world, Current(p)) /\ UNCHANGED faults
       \/ Fault
    /\ world' \in TornEdit(world, Current(p))
    /\ Goto(p, "rollback")
    /\ WrittenBy(p)
    /\ UNCHANGED <<plan, journal, satisfied, on, mine, found, ops, userEdits,
                   orig, done, half>>

AllMade(p) == pc[p] = "check" /\ Len(mine[p]) = Len(plan[on[p]].edits)

(* Mutant: a run that succeeded has no more use for its journal.           *)
MarkAndDiscard(p) ==
    /\ AllMade(p)
    /\ satisfied' = satisfied \cup {plan[on[p]]}
    /\ journal' = [journal EXCEPT ![on[p]] = None]
    /\ done' = [done EXCEPT ![on[p]] = TRUE]
    /\ Close(p)
    /\ UNCHANGED <<world, plan, bounds, orig, dirty, half>>

(* mark_satisfied, by the digest of the plan; the journal stays.           *)
Mark(p) ==
    /\ AllMade(p)
    /\ satisfied' = satisfied \cup {plan[on[p]]}
    /\ done' = [done EXCEPT ![on[p]] = TRUE]
    /\ Close(p)
    /\ UNCHANGED <<world, plan, journal, bounds, orig, dirty, half>>

MarkFail(p) ==
    /\ AllMade(p) /\ Fault
    /\ Goto(p, "rollback")
    /\ UNCHANGED <<disk, on, mine, found, ops, userEdits, history>>

-----------------------------------------------------------------------------
(* Mutant: the paths are not looked at before an undo.                     *)
UndoUnchecked(p, i) ==
    /\ plan[i] # None /\ Recorded(i)
    /\ Begin(p, i, "undo", journal[i])
    /\ UNCHANGED <<disk, userEdits, faults, found, orig, half>>

(* undo: refused with nothing written unless all of the plan shows.        *)
UndoStart(p, i) ==
    /\ plan[i] # None /\ UndoAccepted(i)
    /\ Begin(p, i, "undo", journal[i])
    /\ UNCHANGED <<disk, userEdits, faults, found, orig, half>>

(* undo_record: the newest inverse of the journal in memory.               *)
Newest(p) == mine[p][Len(mine[p])]

Inverting(p) == pc[p] \in {"rollback", "undo"} /\ mine[p] # <<>>

Invert(p) ==
    /\ Inverting(p) /\ CanUnmake(world, Newest(p))
    /\ world' = Unmade(world, Newest(p))
    /\ mine' = [mine EXCEPT ![p] = SubSeq(@, 1, Len(@) - 1)]
    /\ UNCHANGED <<plan, journal, satisfied, pc, on, found, bounds, orig,
                   done, half>>
    /\ WrittenBy(p)

Removes(s) == s.edit.op = "put" /\ s.was = Absent

(* Removing what was put where there was nothing: an error is ignored.     *)
RemoveIgnored(p) ==
    /\ Inverting(p) /\ Removes(Newest(p)) /\ Fault
    /\ mine' = [mine EXCEPT ![p] = SubSeq(@, 1, Len(@) - 1)]
    /\ dirty' = [dirty EXCEPT ![on[p]] = @ \cup {Newest(p).edit.path}]
    /\ since' = [since EXCEPT ![p] = @ \cup {Newest(p).edit.path}]
    /\ UNCHANGED <<disk, pc, on, found, ops, userEdits, orig, done, half>>

(* procedure.rollback_failed, procedure.undo_failed: the journal stays.    *)
InvertFail(p) ==
    /\ Inverting(p)
    /\ \/ ~CanUnmake(world, Newest(p)) /\ UNCHANGED faults
       \/ ~Removes(Newest(p)) /\ Fault
    /\ world' \in TornStep(world, Newest(p))
    /\ half' = [half EXCEPT ![on[p]] = TRUE]
    /\ Over(p)
    /\ WrittenBy(p)
    /\ UNCHANGED <<plan, journal, satisfied, ops, userEdits, orig, done>>

(* A run rolled back discards the journal; an error of that is ignored.    *)
RolledBack(p) ==
    /\ pc[p] = "rollback" /\ mine[p] = <<>>
    /\ \/ /\ journal' = [journal EXCEPT ![on[p]] = None]
          /\ UNCHANGED faults
       \/ Fault /\ UNCHANGED journal
    /\ Close(p)
    /\ UNCHANGED <<world, plan, satisfied, ops, userEdits, orig, dirty, done,
                   half>>

(* A plan undone is no longer satisfied, unless its marker cannot be       *)
(* removed; its journal stays.                                             *)
Undone(p) ==
    /\ pc[p] = "undo" /\ mine[p] = <<>>
    /\ \/ satisfied' = satisfied \ {plan[on[p]]} /\ UNCHANGED faults
       \/ Fault /\ UNCHANGED satisfied
    /\ Close(p)
    /\ UNCHANGED <<world, plan, journal, ops, userEdits, orig, dirty, done,
                   half>>

-----------------------------------------------------------------------------
(* p is killed, perhaps inside a write of the journal or of a path.        *)
Kill(p) ==
    LET i == on[p] IN
    /\ pc[p] # "idle" /\ Fault
    /\ IF pc[p] = "capture"
       THEN \E j \in {journal[i], Torn} : journal' = [journal EXCEPT ![i] = j]
       ELSE UNCHANGED journal
    /\ world' \in IF pc[p] = "apply" THEN TornEdit(world, Current(p))
                  ELSE IF Inverting(p) THEN TornStep(world, Newest(p))
                  ELSE {world}
    /\ half' = [half EXCEPT ![i] = TRUE]
    /\ Over(p)
    /\ WrittenBy(p)
    /\ UNCHANGED <<plan, satisfied, ops, userEdits, orig, done>>

(* The user, or any other program, writes a path.                          *)
UserEdit(x, text) ==
    /\ userEdits < MaxUserEdits
    /\ world[x] # text
    /\ world' = [world EXCEPT ![x] = text]
    /\ userEdits' = userEdits + 1
    /\ UNCHANGED <<plan, journal, satisfied, local, ops, faults, orig, done,
                   half>>
    /\ WrittenBy(None)

Next ==
    \/ \E i \in Ids, edits \in Scripts, reads \in ReadSets :
          Plan(i, edits, reads)
    \/ \E p \in Procs, i \in Ids :
          RunStart(p, i) \/ RunRefuse(p, i) \/ UndoStart(p, i)
    \/ \E p \in Procs :
          \/ Check(p) \/ CheckFail(p) \/ Capture(p) \/ CaptureFail(p)
          \/ Apply(p) \/ ApplyFail(p) \/ Mark(p) \/ MarkFail(p)
          \/ Invert(p) \/ RemoveIgnored(p) \/ InvertFail(p)
          \/ RolledBack(p) \/ Undone(p) \/ Kill(p)
    \/ \E x \in Paths, text \in UserTexts : UserEdit(x, text)

Spec == Init /\ [][Next]_vars

-----------------------------------------------------------------------------
(* Paths no other writer disturbed, directly or through a move.            *)
Clean(edits, written) ==
    {x \in Paths : x \notin written /\
       \A k \in 1..Len(edits) :
          x \in EditPaths(edits[k]) => EditPaths(edits[k]) \cap written = {}}

(* The world is as p's run found it.                                       *)
RolledAllBack(p) ==
    \A x \in Clean(plan[on[p]].edits, since[p]) : world'[x] = found[p][x]

Ends(p) == pc[p] # "idle" /\ pc'[p] = "idle"

(* "A failed procedure leaves the world intact" (procedure.rs:6-7): a run  *)
(* that failed at any step, an edit written in part included, and that was *)
(* able to roll back, leaves every path nobody else wrote as it found it,  *)
(* but for a path whose removal failed without a word.                     *)
FailedRunIntact ==
    [][\A p \in Procs :
         Ends(p) /\ pc[p] = "rollback" /\ mine[p] = <<>> => RolledAllBack(p)
      ]_vars

(* Others wrote none of the paths of i's plan, nor one it only reads.      *)
Undisturbed(i, written) == written \cap DOMAIN plan[i].bound = {}

(* What a run did to its end stays undoable while nobody else writes a     *)
(* path its plan touches or reads, whatever is written elsewhere and       *)
(* whatever other procedures, of the same plan among them, are run, undone *)
(* or killed.  The paths only read count: once the marker is gone, a run   *)
(* refused because one of them changed discards the journal.               *)
UndoOpen ==
    \A i \in Ids :
      done[i] /\ Undisturbed(i, dirty[i]) /\ (\A p \in Procs : on[p] # i) =>
        UndoAccepted(i) /\ Len(journal[i]) = Len(plan[i].edits)

(* An undo to its end restores every path nobody else wrote to what it was *)
(* when the run began whose journal is there, even where that run was      *)
(* killed just before its end, or a later one before its first edit.       *)
UndoRestores ==
    [][\A p \in Procs :
         Ends(p) /\ pc[p] = "undo" /\ mine[p] = <<>> =>
           \A x \in Clean(plan[on[p]].edits, dirty[on[p]]) :
              world'[x] = orig[on[p]][x]]_vars

(* An undo replaces only what the plan put there, never what the user made *)
(* of it since, unless he did so during the undo itself.                   *)
UndoKeepsUserWork ==
    [][\A p \in Procs : pc[p] = "undo" /\ mine'[p] # mine[p] =>
         \A x \in Paths \ since[p] :
           world'[x] # world[x] /\ world[x] # Absent
             => \/ world[x] \in {plan[on[p]].edits[k].text :
                    k \in {l \in 1..Len(plan[on[p]].edits) :
                             /\ plan[on[p]].edits[l].op = "put"
                             /\ plan[on[p]].edits[l].path = x}}
                \/ \E y \in Paths : world'[y] = world[x] /\ world[y] = Absent
      ]_vars

-----------------------------------------------------------------------------
(* Stated by the source and not kept by it.                                *)

NothingTorn == \A x \in Paths : world[x] # Torn

(* procedure.rs:23-29: a procedure that died halfway is "precisely the     *)
(* state a user most needs `undo` to work in".  But undo wants all of the  *)
(* plan to show, and refuses.                                              *)
UndoAfterKill ==
    \A i \in Ids :
      half[i] /\ dirty[i] = {} /\ world # orig[i] /\ NothingTorn
              /\ (\A p \in Procs : on[p] # i)
        => UndoAccepted(i)

(* procedure.rs:256-260: on any failure "the already-applied edits are     *)
(* rolled back from that same journal, so a half-applied procedure never   *)
(* survives".  The inverse of a move that failed cannot be replayed, and   *)
(* stops the rollback before the edits that did succeed.                   *)
HalfAppliedNeverSurvives ==
    [][\A p \in Procs :
         Ends(p) /\ pc[p] = "rollback" /\ faults' = faults => RolledAllBack(p)
      ]_vars

(* The same sentences: the journal is what undoes edits that were made, so *)
(* it is not discarded while one it recorded shows.  A run refused by its  *)
(* preconditions discards the journal of an earlier run of the id that was *)
(* killed, with nothing undone.                                            *)
StillShows(i, k) ==
    LET e == journal[i][k].edit IN
    /\ e.op = "put" /\ journal[i][k].was # e.text
    /\ \A l \in 1..Len(journal[i]) : e.path \in EditPaths(journal[i][l].edit)
                                       => l = k
    /\ world'[e.path] = e.text

JournalKeptUntilUndone ==
    [][\A i \in Ids :
         Recorded(i) /\ journal'[i] = None
           /\ (\A p, q \in Procs : on[p] = i /\ on[q] = i => p = q)
           => \A k \in 1..Len(journal[i]) : ~StillShows(i, k)]_vars
=============================================================================
