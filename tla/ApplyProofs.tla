---------------------------- MODULE ApplyProofs ----------------------------
(***************************************************************************)
(* Proofs about an apply, for any processes, capabilities and number of    *)
(* applies (Apply, first), and about the resolution that it makes of a     *)
(* context, for any capabilities, requests and catalogues (Resolver, after *)
(* it).  Neither's proof uses the other's.                                 *)
(***************************************************************************)
EXTENDS Apply, Resolver, SequenceTheorems, TLAPS

-----------------------------------------------------------------------------
(* An apply. *)

(* An apply that nothing overlaps is the only one in progress.             *)
AloneNow ==
    \A p \in Procs : alone[p] /\ pc[p] # "idle" => \A q \in Procs \ {p} : pc[q] = "idle"

(* Inodes: a process has one open between its truncation and its write,    *)
(* and the temporary is never the file.                                    *)
InodesKept ==
    /\ \A p \in Procs : IF pc[p] = "truncated" THEN fd[p] \in Inodes ELSE fd[p] = NoFile
    /\ tmp # NoFile => tmp # file

(* How far an apply that nothing overlaps has come.                        *)
SoloSteps ==
    \A p \in Procs :
        /\ pc[p] = "idle" => want[p] = NoToggle
        /\ alone[p] =>
              /\ pc[p] = "truncated" => tmp = fd[p] /\ text[fd[p]] = {}
              /\ pc[p] = "written" => tmp # NoFile /\ text[tmp] = doc[p]
              /\ pc[p] \in {"saved", "resolved", "started"} /\ want[p] # NoToggle
                    => Declared = doc[p]
              /\ pc[p] \in {"resolved", "started"} => seen[p] = Declared

ApplyInv == TypeOK /\ AloneNow /\ InodesKept /\ SoloSteps

LEMMA ApplyTypeInit == Init => TypeOK
<1> SUFFICES ASSUME Init PROVE TypeOK
  OBVIOUS
<1>1. 0 \in 0 .. MaxApplies
  BY MaxAppliesAssumption
<1> QED  BY <1>1 DEF Init, TypeOK, Gens, Steps, Register!Init, Register!TypeOK,
                     Register!GenOrNone, Register!Closed

(* What a step of p leaves to the others.                                  *)
OneMoves(p) ==
    \A q \in Procs \ {p} :
        /\ pc'[q] = pc[q] /\ want'[q] = want[q] /\ doc'[q] = doc[q] /\ seen'[q] = seen[q]
        /\ fd'[q] = fd[q]
        /\ alone'[q] => alone[q]
        /\ alone'[q] /\ pc[q] # "idle" /\ pc[p] = "idle" => UNCHANGED <<file, tmp, text>>

Act(p) ==
    \/ \E t \in Toggles : Open(p, t)
    \/ Refresh(p)
    \/ Truncate(p) \/ Write(p) \/ Rename(p) \/ RenameFail(p) \/ RemoveTmp(p)
    \/ Resolve(p) \/ ResolveFail(p)
    \/ ReadBase(p) \/ Commit(p) \/ Reuse(p) \/ Refuse(p)
    \/ Stop(p) \/ Rollback(p)

LEMMA ApplyNext == Next <=> \E p \in Procs : Act(p)
BY DEF Next, Act

LEMMA OverMoves ==
  ASSUME TypeOK, NEW p \in Procs, Over(p)
  PROVE  /\ \A q \in Procs \ {p} :
               /\ pc'[q] = pc[q] /\ want'[q] = want[q] /\ doc'[q] = doc[q]
               /\ seen'[q] = seen[q] /\ fd'[q] = fd[q] /\ alone'[q] = alone[q]
         /\ pc'[p] = "idle" /\ want'[p] = NoToggle /\ fd'[p] = NoFile /\ alone'[p] = TRUE
BY DEF TypeOK, Over, Goto

LEMMA ApplyOneMoves ==
  ASSUME TypeOK, NEW p \in Procs, Act(p)
  PROVE  OneMoves(p)
<1>1. ASSUME NEW t \in Toggles, Open(p, t) PROVE OneMoves(p)
  BY <1>1 DEF Open, Begin, Goto, TypeOK, OneMoves, files
<1>2. CASE Refresh(p)
  BY <1>2 DEF Refresh, Begin, Goto, TypeOK, OneMoves, files, local
<1>3. CASE Truncate(p)
  BY <1>3 DEF Truncate, Goto, TypeOK, OneMoves, local
<1>4. CASE Write(p)
  BY <1>4 DEF Write, Goto, TypeOK, OneMoves, local
<1>5. CASE Rename(p) \/ RenameFail(p)
  BY <1>5 DEF Rename, RenameFail, Goto, TypeOK, OneMoves, local, files
<1>6. CASE RemoveTmp(p) \/ ResolveFail(p) \/ Refuse(p)
  <2>1. Over(p) /\ pc[p] # "idle"
    BY <1>6 DEF RemoveTmp, ResolveFail, Refuse
  <2> QED  BY <2>1, OverMoves DEF OneMoves
<1>7. CASE Stop(p)
  <2>1. Over(p) /\ pc[p] # "idle"
    BY <1>7 DEF Stop
  <2> QED  BY <2>1, OverMoves DEF OneMoves
<1>8. CASE Commit(p) \/ Reuse(p)
  <2>1. Over(p) /\ pc[p] # "idle"
    BY <1>8 DEF Commit, Reuse, Acknowledge
  <2> QED  BY <2>1, OverMoves DEF OneMoves
<1>9. CASE Resolve(p)
  BY <1>9 DEF Resolve, Goto, TypeOK, OneMoves, files
<1>10. CASE ReadBase(p)
  BY <1>10 DEF ReadBase, Goto, TypeOK, OneMoves, files, local
<1>11. CASE Rollback(p)
  BY <1>11 DEF Rollback, OneMoves, files, local
<1> QED  BY <1>1, <1>2, <1>3, <1>4, <1>5, <1>6, <1>7, <1>8, <1>9, <1>10, <1>11 DEF Act

-----------------------------------------------------------------------------
(* Types. *)

RegisterTyped ==
    /\ view \in Gens \cup {None} /\ undo \in Gens \cup {None}
    /\ open \in [Procs -> [op : {"apply", "rollback", "none"}, seen : Gens \cup {None}]]
FilesTyped ==
    /\ file \in Inodes \cup {NoFile} /\ tmp \in Inodes \cup {NoFile}
    /\ text \in [Inodes -> Gens \cup {Torn}]
    /\ fd \in [Procs -> Inodes \cup {NoFile}]
LocalTyped ==
    /\ pc \in [Procs -> Steps]
    /\ want \in [Procs -> Toggles \cup {NoToggle}]
    /\ doc \in [Procs -> Gens]
    /\ seen \in [Procs -> Gens]
    /\ against \in [Procs -> Gens \cup {None}]
    /\ alone \in [Procs -> BOOLEAN]
RestTyped ==
    /\ promised \in [Caps -> {"on", "off", "open"}]
    /\ begun \in 0..MaxApplies

LEMMA ApplyTypes == TypeOK <=> RegisterTyped /\ FilesTyped /\ LocalTyped /\ RestTyped
BY DEF TypeOK, RegisterTyped, FilesTyped, LocalTyped, RestTyped, Register!TypeOK,
       Register!GenOrNone, Register!Kinds

LEMMA ApplyTypesPrimed ==
  TypeOK' <=> RegisterTyped' /\ FilesTyped' /\ LocalTyped' /\ RestTyped'
BY DEF TypeOK, RegisterTyped, FilesTyped, LocalTyped, RestTyped, Register!TypeOK,
       Register!GenOrNone, Register!Kinds

LEMMA DeclaredTyped == TypeOK => Declared \in Gens \cup {Torn}
BY DEF TypeOK, Declared, Gens

LEMMA OverTyped ==
  ASSUME LocalTyped, FilesTyped, NEW p \in Procs, Over(p)
  PROVE  LocalTyped' /\ fd' \in [Procs -> Inodes \cup {NoFile}]
BY DEF LocalTyped, FilesTyped, Over, Goto, Steps, Gens

LEMMA AbandonTyped ==
  ASSUME RegisterTyped, NEW p \in Procs, Register!Abandon(p) \/ Register!Cut(p)
  PROVE  RegisterTyped'
BY DEF RegisterTyped, Register!Abandon, Register!Cut, Register!Closed, Gens

LEMMA AcknowledgeTyped ==
  ASSUME LocalTyped, FilesTyped, RestTyped, NEW p \in Procs, Acknowledge(p)
  PROVE  LocalTyped' /\ FilesTyped' /\ RestTyped'
<1>1. LocalTyped' /\ fd' \in [Procs -> Inodes \cup {NoFile}]
  BY OverTyped DEF Acknowledge
<1>2. FilesTyped'
  BY <1>1 DEF FilesTyped, Acknowledge
<1>3. ASSUME promised' = promised PROVE RestTyped'
  BY <1>3 DEF RestTyped, Acknowledge
<1>4. ASSUME promised' = [promised EXCEPT ![want[p].cap] = IF want[p].on THEN "on" ELSE "off"]
      PROVE  RestTyped'
  BY <1>4 DEF RestTyped, Acknowledge
<1> QED  BY <1>1, <1>2, <1>3, <1>4 DEF Acknowledge

LEMMA BeginTyped ==
  ASSUME LocalTyped, RestTyped, NEW p \in Procs, Begin(p)
  PROVE  alone' \in [Procs -> BOOLEAN] /\ begun' \in 0..MaxApplies
<1>1. begun' \in 0..MaxApplies
  BY MaxAppliesAssumption DEF RestTyped, Begin
<1>2. alone' \in [Procs -> BOOLEAN]
  BY DEF LocalTyped, Begin
<1> QED  BY <1>1, <1>2

LEMMA ApplyTypeStep == TypeOK /\ [Next]_vars => TypeOK'
<1> SUFFICES ASSUME TypeOK, [Next]_vars PROVE TypeOK'
  OBVIOUS
<1>0. RegisterTyped /\ FilesTyped /\ LocalTyped /\ RestTyped
  BY ApplyTypes
<1>1. ASSUME UNCHANGED vars PROVE TypeOK'
  BY <1>0, <1>1, ApplyTypesPrimed DEF vars, register, files, local,
     RegisterTyped, FilesTyped, LocalTyped, RestTyped
<1>2. ASSUME NEW p \in Procs, NEW t \in Toggles, Open(p, t) PROVE TypeOK'
  <2>1. alone' \in [Procs -> BOOLEAN] /\ begun' \in 0..MaxApplies
    BY <1>0, <1>2, BeginTyped DEF Open
  <2>2. Edited(Declared, t) \in Gens
    BY <1>2, DeclaredTyped DEF Open, Edited, Gens, Toggles
  <2>3. LocalTyped'
    BY <1>0, <1>2, <2>1, <2>2 DEF Open, Goto, LocalTyped, Steps
  <2>4. promised' \in [Caps -> {"on", "off", "open"}]
    BY <1>0, <1>2 DEF Open, RestTyped
  <2> QED  BY <1>0, <1>2, <2>1, <2>3, <2>4, ApplyTypesPrimed
           DEF Open, register, files, RegisterTyped, FilesTyped, RestTyped
<1>3. ASSUME NEW p \in Procs, Refresh(p) PROVE TypeOK'
  <2>1. alone' \in [Procs -> BOOLEAN] /\ begun' \in 0..MaxApplies
    BY <1>0, <1>3, BeginTyped DEF Refresh
  <2>2. LocalTyped'
    BY <1>0, <1>3, <2>1 DEF Refresh, Goto, LocalTyped, Steps, local
  <2> QED  BY <1>0, <1>3, <2>1, <2>2, ApplyTypesPrimed
           DEF Refresh, register, files, RegisterTyped, FilesTyped, RestTyped
<1>4. ASSUME NEW p \in Procs, Truncate(p) PROVE TypeOK'
  <2>1. FilesTyped'
    BY <1>0, <1>4 DEF Truncate, FilesTyped, Gens
  <2>2. LocalTyped'
    BY <1>0, <1>4 DEF Truncate, Goto, LocalTyped, Steps, local
  <2> QED  BY <1>0, <1>4, <2>1, <2>2, ApplyTypesPrimed
           DEF Truncate, register, RegisterTyped, RestTyped
<1>5. ASSUME NEW p \in Procs, Write(p) PROVE TypeOK'
  <2>1. FilesTyped'
    <3>1. PICK written \in Gens \cup {Torn} : text' = [text EXCEPT ![fd[p]] = written]
      BY <1>0, <1>5 DEF Write, LocalTyped
    <3> QED  BY <1>0, <1>5, <3>1 DEF Write, FilesTyped
  <2>2. LocalTyped'
    BY <1>0, <1>5 DEF Write, Goto, LocalTyped, Steps, local
  <2> QED  BY <1>0, <1>5, <2>1, <2>2, ApplyTypesPrimed
           DEF Write, register, RegisterTyped, RestTyped
<1>6. ASSUME NEW p \in Procs, Rename(p) \/ RenameFail(p) PROVE TypeOK'
  <2>1. FilesTyped'
    BY <1>0, <1>6 DEF Rename, RenameFail, files, FilesTyped
  <2>2. LocalTyped'
    BY <1>0, <1>6 DEF Rename, RenameFail, Goto, LocalTyped, Steps, local
  <2> QED  BY <1>0, <1>6, <2>1, <2>2, ApplyTypesPrimed
           DEF Rename, RenameFail, register, RegisterTyped, RestTyped
<1>7. ASSUME NEW p \in Procs, RemoveTmp(p) \/ ResolveFail(p) PROVE TypeOK'
  <2>1. LocalTyped' /\ fd' \in [Procs -> Inodes \cup {NoFile}]
    BY <1>0, <1>7, OverTyped DEF RemoveTmp, ResolveFail
  <2>2. FilesTyped'
    BY <1>0, <1>7, <2>1 DEF RemoveTmp, ResolveFail, FilesTyped
  <2> QED  BY <1>0, <1>7, <2>1, <2>2, ApplyTypesPrimed
           DEF RemoveTmp, ResolveFail, register, RegisterTyped, RestTyped
<1>8. ASSUME NEW p \in Procs, Resolve(p) PROVE TypeOK'
  <2>1. Declared \in Gens
    BY <1>8, DeclaredTyped DEF Resolve
  <2>2. LocalTyped'
    BY <1>0, <1>8, <2>1 DEF Resolve, Goto, LocalTyped, RegisterTyped, Steps
  <2> QED  BY <1>0, <1>8, <2>2, ApplyTypesPrimed
           DEF Resolve, register, files, RegisterTyped, FilesTyped, RestTyped
<1>9. ASSUME NEW p \in Procs, ReadBase(p) PROVE TypeOK'
  <2>1. RegisterTyped'
    BY <1>0, <1>9 DEF ReadBase, RegisterTyped, Register!Start
  <2>2. LocalTyped'
    BY <1>0, <1>9 DEF ReadBase, Goto, LocalTyped, Steps, local
  <2> QED  BY <1>0, <1>9, <2>1, <2>2, ApplyTypesPrimed
           DEF ReadBase, files, FilesTyped, RestTyped
<1>10. ASSUME NEW p \in Procs, Commit(p) PROVE TypeOK'
  <2>1. seen[p] \in Gens
    BY <1>0 DEF LocalTyped
  <2>2. RegisterTyped'
    BY <1>0, <1>10, <2>1 DEF Commit, RegisterTyped, Register!Replace, Register!Change,
                             Register!Closed
  <2> QED  BY <1>0, <1>10, <2>2, AcknowledgeTyped, ApplyTypesPrimed DEF Commit
<1>11. ASSUME NEW p \in Procs, Reuse(p) PROVE TypeOK'
  BY <1>0, <1>11, AbandonTyped, AcknowledgeTyped, ApplyTypesPrimed DEF Reuse
<1>12. ASSUME NEW p \in Procs, Refuse(p) \/ Stop(p) PROVE TypeOK'
  <2>1. LocalTyped' /\ fd' \in [Procs -> Inodes \cup {NoFile}]
    BY <1>0, <1>12, OverTyped DEF Refuse, Stop
  <2>2. FilesTyped'
    BY <1>0, <1>12, <2>1 DEF Refuse, Stop, FilesTyped
  <2>3. RegisterTyped'
    <3>1. CASE UNCHANGED register
      BY <1>0, <3>1 DEF register, RegisterTyped
    <3>2. CASE Register!Abandon(p) \/ Register!Cut(p)
      BY <1>0, <3>2, AbandonTyped
    <3>3. CASE pc[p] = "started" /\ Register!Replace(p, seen[p])
      <4>1. seen[p] \in Gens
        BY <1>0 DEF LocalTyped
      <4> QED  BY <1>0, <3>3, <4>1 DEF RegisterTyped, Register!Replace, Register!Change,
                                      Register!Closed
    <3> QED  BY <1>12, <3>1, <3>2, <3>3 DEF Refuse, Stop
  <2> QED  BY <1>0, <1>12, <2>1, <2>2, <2>3, ApplyTypesPrimed DEF Refuse, Stop, RestTyped
<1>13. ASSUME NEW p \in Procs, Rollback(p) PROVE TypeOK'
  BY <1>0, <1>13, ApplyTypesPrimed DEF Rollback, files, local,
     RegisterTyped, FilesTyped, LocalTyped, RestTyped
<1> QED  BY <1>1, <1>2, <1>3, <1>4, <1>5, <1>6, <1>7, <1>8, <1>9, <1>10, <1>11, <1>12,
            <1>13 DEF Next

-----------------------------------------------------------------------------
(* Who is alone. *)

LEMMA AloneStep ==
  ASSUME TypeOK, AloneNow, NEW p \in Procs, Act(p)
  PROVE  AloneNow'
<1> SUFFICES ASSUME NEW q \in Procs, alone'[q], pc'[q] # "idle",
                    NEW r \in Procs \ {q}
             PROVE  pc'[r] = "idle"
  BY DEF AloneNow
<1>0. OneMoves(p)
  BY ApplyOneMoves
<1>1. CASE Begin(p)
  <2>1. /\ pc[p] = "idle"
        /\ alone'[q] = IF q = p THEN \A s \in Procs : pc[s] = "idle"
                                ELSE alone[q] /\ pc[q] = "idle"
    BY <1>1 DEF Begin
  <2> QED  BY <1>0, <2>1 DEF OneMoves
<1>2. CASE ~Begin(p)
  <2>1. pc[p] # "idle" \/ Rollback(p)
    BY <1>2 DEF Act, Open, Refresh, Truncate, Write, Rename, RenameFail, RemoveTmp, Resolve,
       ResolveFail, ReadBase, Commit, Reuse, Refuse, Stop
  <2>2. CASE Rollback(p)
    BY <2>2 DEF Rollback, AloneNow
  <2>3. CASE pc[p] # "idle"
    <3>1. alone'[p] => alone[p] \/ pc'[p] = "idle"
      <4>1. CASE Over(p)
        BY <4>1, OverMoves
      <4>2. CASE alone' = alone
        BY <4>2
      <4>3. Over(p) \/ alone' = alone
        BY <2>3, <1>2 DEF Act, Open, Refresh, Truncate, Write, Rename, RenameFail, RemoveTmp,
           Resolve, ResolveFail, ReadBase, Commit, Reuse, Acknowledge, Refuse, Stop, Rollback
      <4> QED  BY <4>1, <4>2, <4>3
    <3>2. CASE q = p
      BY <1>0, <2>3, <3>1, <3>2 DEF OneMoves, AloneNow
    <3>3. CASE q # p
      <4>1. alone[q] /\ pc[q] # "idle"
        BY <1>0, <3>3 DEF OneMoves
      <4> QED  BY <2>3, <3>3, <4>1 DEF AloneNow
    <3> QED  BY <3>2, <3>3
  <2> QED  BY <2>1, <2>2, <2>3
<1> QED  BY <1>1, <1>2

(* Inodes. *)

InodeOf(q) == IF pc[q] = "truncated" THEN fd[q] \in Inodes ELSE fd[q] = NoFile

LEMMA InodesStep ==
  ASSUME TypeOK, InodesKept, NEW p \in Procs, Act(p)
  PROVE  InodesKept'
<1>1. FilesTyped /\ LocalTyped
  BY ApplyTypes
<1>2. ASSUME NEW q \in Procs \ {p} PROVE InodeOf(q)'
  BY <1>2, ApplyOneMoves DEF OneMoves, InodesKept, InodeOf
<1>3. (tmp' # NoFile => tmp' # file') /\ InodeOf(p)'
  <2>1. CASE \E t \in Toggles : Open(p, t)
    BY <1>1, <2>1 DEF Open, Begin, Goto, files, InodesKept, InodeOf, LocalTyped
  <2>2. CASE Refresh(p)
    BY <1>1, <2>2 DEF Refresh, Begin, Goto, files, InodesKept, InodeOf, LocalTyped
  <2>3. CASE Truncate(p)
    <3>1. PICK i \in IF tmp # NoFile THEN {tmp}
                  ELSE Inodes \ ({file, tmp} \cup {fd[q] : q \in Procs}) :
             tmp' = i /\ fd' = [fd EXCEPT ![p] = i] /\ file' = file /\ pc'[p] = "truncated"
      BY <1>1, <2>3 DEF Truncate, Goto, LocalTyped
    <3>2. i \in Inodes /\ i # file
      BY <1>1, <3>1 DEF InodesKept, FilesTyped
    <3> QED  BY <1>1, <3>1, <3>2 DEF InodeOf, FilesTyped
  <2>4. CASE Write(p)
    BY <1>1, <2>4 DEF Write, Goto, InodesKept, InodeOf, LocalTyped, FilesTyped
  <2>5. CASE Rename(p) \/ RenameFail(p)
    BY <1>1, <2>5 DEF Rename, RenameFail, Goto, files, InodesKept, InodeOf, LocalTyped
  <2>6. CASE Over(p)
    <3>1. InodeOf(p)'
      BY <2>6, OverMoves DEF InodeOf
    <3>2. tmp' \in {tmp, NoFile} /\ file' = file
      BY <2>6, OverMoves, <1>1 DEF Act, Open, Refresh, Truncate, Write, Rename, RenameFail,
         RemoveTmp, Resolve, ResolveFail, ReadBase, Commit, Reuse, Acknowledge, Refuse, Stop, Rollback,
         files, Goto, LocalTyped
    <3> QED  BY <3>1, <3>2 DEF InodesKept
  <2>7. CASE Resolve(p) \/ ReadBase(p) \/ Rollback(p)
    BY <1>1, <2>7 DEF Resolve, ReadBase, Rollback, Goto, files, InodesKept, InodeOf, LocalTyped
  <2> QED  BY <2>1, <2>2, <2>3, <2>4, <2>5, <2>6, <2>7
           DEF Act, RemoveTmp, ResolveFail, Commit, Reuse, Acknowledge, Refuse, Stop
<1> QED  BY <1>2, <1>3 DEF InodesKept, InodeOf

-----------------------------------------------------------------------------
(* How far a solo apply has come. *)

SoloOf(q) ==
    /\ pc[q] = "idle" => want[q] = NoToggle
    /\ alone[q] =>
          /\ pc[q] = "truncated" => tmp = fd[q] /\ text[fd[q]] = {}
          /\ pc[q] = "written" => tmp # NoFile /\ text[tmp] = doc[q]
          /\ pc[q] \in {"saved", "resolved", "started"} /\ want[q] # NoToggle
                => Declared = doc[q]
          /\ pc[q] \in {"resolved", "started"} => seen[q] = Declared

(* While p acts, an apply of another process that nothing overlaps is idle *)
(* or sees a rollback only.                                                *)
LEMMA SoloOthers ==
  ASSUME TypeOK, AloneNow, SoloSteps, NEW p \in Procs, Act(p), NEW q \in Procs \ {p}
  PROVE  SoloOf(q)'
<1>1. /\ pc'[q] = pc[q] /\ want'[q] = want[q] /\ doc'[q] = doc[q] /\ seen'[q] = seen[q]
      /\ fd'[q] = fd[q]
      /\ alone'[q] => alone[q]
      /\ alone'[q] /\ pc[q] # "idle" /\ pc[p] = "idle" => UNCHANGED <<file, tmp, text>>
  BY ApplyOneMoves DEF OneMoves
<1>2. CASE alone'[q] /\ pc[q] # "idle"
  <2>1. pc[p] = "idle"
    BY <1>1, <1>2 DEF AloneNow
  <2>2. UNCHANGED <<file, tmp, text>>
    BY <1>1, <1>2, <2>1
  <2>3. Declared' = Declared
    BY <2>2 DEF Declared
  <2> QED  BY <1>1, <2>2, <2>3 DEF SoloSteps, SoloOf
<1>3. CASE ~(alone'[q] /\ pc[q] # "idle")
  BY <1>1, <1>3 DEF SoloSteps, SoloOf
<1> QED  BY <1>2, <1>3

LEMMA SoloOwn ==
  ASSUME TypeOK, AloneNow, InodesKept, SoloSteps, NEW p \in Procs, Act(p)
  PROVE  SoloOf(p)'
<1>1. FilesTyped /\ LocalTyped
  BY ApplyTypes
<1>0. SoloOf(p)
  BY DEF SoloSteps, SoloOf
<1>2. CASE Over(p)
  BY <1>2, OverMoves DEF SoloOf
<1>3. CASE \E t \in Toggles : Open(p, t)
  BY <1>1, <1>3 DEF Open, Goto, SoloOf, LocalTyped
<1>4. CASE Refresh(p)
  <2>1. pc'[p] = "saved" /\ want'[p] = NoToggle
    BY <1>0, <1>1, <1>4 DEF Refresh, Begin, Goto, SoloOf, LocalTyped, local
  <2> QED  BY <2>1 DEF SoloOf
<1>5. CASE Truncate(p)
  BY <1>1, <1>5 DEF Truncate, Goto, SoloOf, LocalTyped, FilesTyped
<1>6. CASE Write(p)
  <2>1. pc'[p] = "written" /\ alone' = alone /\ doc' = doc /\ tmp' = tmp
    BY <1>1, <1>6 DEF Write, Goto, LocalTyped, local
  <2>2. fd[p] \in Inodes
    BY <1>6 DEF Write, InodesKept
  <2>3. alone[p] => text'[fd[p]] = doc[p] /\ tmp = fd[p]
    BY <1>0, <1>1, <1>6, <2>2 DEF Write, SoloOf, FilesTyped
  <2>4. tmp = fd[p] => tmp # NoFile
    BY <2>2, InodesAssumption
  <2> QED  BY <2>1, <2>3, <2>4 DEF SoloOf
<1>7. CASE Rename(p)
  <2>1. /\ pc'[p] = "saved" /\ alone' = alone /\ doc' = doc /\ want' = want
        /\ file' = tmp /\ tmp # NoFile /\ text' = text /\ pc[p] = "written"
    BY <1>1, <1>7 DEF Rename, Goto, LocalTyped, local
  <2>2. Declared' = text[tmp]
    BY <2>1 DEF Declared
  <2> QED  BY <1>0, <2>1, <2>2 DEF SoloOf
<1>8. CASE RenameFail(p)
  BY <1>1, <1>8 DEF RenameFail, Goto, SoloOf, LocalTyped
<1>9. CASE Resolve(p)
  <2>1. /\ pc'[p] = "resolved" /\ seen'[p] = Declared /\ alone' = alone /\ doc' = doc
        /\ want' = want /\ UNCHANGED files /\ pc[p] = "saved"
    BY <1>1, <1>9 DEF Resolve, Goto, LocalTyped
  <2>2. Declared' = Declared
    BY <2>1 DEF Declared, files
  <2> QED  BY <1>0, <2>1, <2>2 DEF SoloOf
<1>10. CASE ReadBase(p)
  <2>1. /\ pc'[p] = "started" /\ UNCHANGED local /\ alone' = alone /\ UNCHANGED files
        /\ pc[p] = "resolved"
    BY <1>1, <1>10 DEF ReadBase, Goto, LocalTyped
  <2>2. Declared' = Declared
    BY <2>1 DEF Declared, files
  <2> QED  BY <1>0, <2>1, <2>2 DEF SoloOf, local
<1>11. CASE Rollback(p)
  <2>1. pc' = pc /\ UNCHANGED local /\ alone' = alone /\ UNCHANGED files
    BY <1>11 DEF Rollback
  <2>2. Declared' = Declared
    BY <2>1 DEF Declared, files
  <2> QED  BY <1>0, <2>1, <2>2 DEF SoloOf, local, files
<1> QED  BY <1>2, <1>3, <1>4, <1>5, <1>6, <1>7, <1>8, <1>9, <1>10, <1>11
         DEF Act, RemoveTmp, ResolveFail, Commit, Reuse, Acknowledge, Refuse, Stop

LEMMA ApplyInit == Init => ApplyInv
<1> SUFFICES ASSUME Init PROVE ApplyInv
  OBVIOUS
<1>1. \A p \in Procs : pc[p] = "idle" /\ fd[p] = NoFile /\ want[p] = NoToggle
  BY DEF Init
<1>2. tmp = NoFile
  BY DEF Init
<1> QED  BY <1>1, <1>2, ApplyTypeInit DEF ApplyInv, AloneNow, InodesKept, SoloSteps

LEMMA ApplyStep == ApplyInv /\ [Next]_vars => ApplyInv'
<1> SUFFICES ASSUME ApplyInv, [Next]_vars PROVE ApplyInv'
  OBVIOUS
<1>0. TypeOK /\ AloneNow /\ InodesKept /\ SoloSteps
  BY DEF ApplyInv
<1>1. TypeOK'
  BY <1>0, ApplyTypeStep
<1>2. CASE UNCHANGED vars
  <2>1. UNCHANGED <<file, tmp, text, fd, pc, want, doc, seen, alone>>
    BY <1>2 DEF vars, files, local
  <2>2. Declared' = Declared
    BY <2>1 DEF Declared
  <2> QED  BY <1>0, <1>1, <2>1, <2>2 DEF ApplyInv, AloneNow, InodesKept, SoloSteps
<1>3. ASSUME NEW p \in Procs, Act(p) PROVE ApplyInv'
  <2>1. AloneNow' /\ InodesKept'
    BY <1>0, <1>3, AloneStep, InodesStep
  <2>2. \A q \in Procs : SoloOf(q)'
    BY <1>0, <1>3, SoloOthers, SoloOwn
  <2>3. SoloSteps'
    BY <2>2 DEF SoloSteps, SoloOf
  <2> QED  BY <1>1, <2>1, <2>3 DEF ApplyInv
<1> QED  BY <1>2, <1>3, ApplyNext

(* Types and the three parts of the invariant hold of every apply.         *)
THEOREM ApplyGoesOn == Spec => []ApplyInv
BY ApplyInit, ApplyStep, PTL DEF Spec

-----------------------------------------------------------------------------
(* The two properties. *)

LEMMA SoloLands ==
  ASSUME ApplyInv, [Next]_vars, NEW p \in Procs, Acks(p), alone[p]
  PROVE  Declared = doc[p] /\ view' = doc[p]
<1>0. TypeOK /\ AloneNow /\ InodesKept /\ SoloOf(p)
  BY DEF ApplyInv, SoloSteps, SoloOf
<1>1. pc[p] = "started" /\ pc'[p] = "idle" /\ promised' # promised
  BY DEF Acks
<1>2. Act(p)
  <2>1. PICK q \in Procs : Act(q)
    BY <1>1, ApplyNext DEF vars
  <2>2. q = p
    BY <1>0, <1>1, <2>1, ApplyOneMoves DEF OneMoves
  <2> QED  BY <2>1, <2>2
<1>3. Commit(p) \/ Reuse(p)
  BY <1>1, <1>2 DEF Act, Open, Refresh, Begin, Truncate, Write, Rename, RenameFail, RemoveTmp,
     Resolve, ResolveFail, ReadBase, Refuse, Stop, Rollback
<1>4. want[p] # NoToggle
  BY <1>1, <1>3 DEF Commit, Reuse, Acknowledge
<1>5. Declared = doc[p] /\ seen[p] = doc[p]
  BY <1>0, <1>1, <1>4 DEF SoloOf
<1>6. view' = seen[p]
  BY <1>3 DEF Commit, Reuse, Register!Replace, Register!Change, Register!Abandon
<1> QED  BY <1>5, <1>6

LEMMA SoloSaves ==
  ASSUME ApplyInv, [Next]_vars, NEW p \in Procs, alone[p], pc'[p] # pc[p],
         Declared' # Declared
  PROVE  pc'[p] = "saved" /\ Declared' = doc[p]
<1>0. TypeOK /\ AloneNow /\ InodesKept /\ SoloOf(p)
  BY DEF ApplyInv, SoloSteps, SoloOf
<1>1. FilesTyped /\ LocalTyped
  BY <1>0, ApplyTypes
<1>2. Act(p)
  <2>1. PICK q \in Procs : Act(q)
    BY ApplyNext DEF vars
  <2>2. q = p
    BY <1>0, <2>1, ApplyOneMoves DEF OneMoves
  <2> QED  BY <2>1, <2>2
<1>3. CASE Rename(p)
  <2>1. /\ pc'[p] = "saved" /\ file' = tmp /\ tmp # NoFile /\ text' = text /\ pc[p] = "written"
    BY <1>1, <1>3 DEF Rename, Goto, LocalTyped
  <2>2. Declared' = text[tmp]
    BY <2>1 DEF Declared
  <2> QED  BY <1>0, <2>1, <2>2 DEF SoloOf
<1>4. CASE Truncate(p)
  <2>1. PICK i \in IF tmp # NoFile THEN {tmp}
                  ELSE Inodes \ ({file, tmp} \cup {fd[q] : q \in Procs}) :
           text' = [text EXCEPT ![i] = {}] /\ file' = file
    BY <1>4 DEF Truncate
  <2>2. i # file
    BY <1>0, <2>1 DEF InodesKept
  <2>3. file # NoFile => text'[file] = text[file]
    BY <1>1, <2>1, <2>2 DEF FilesTyped
  <2>4. Declared' = Declared
    BY <2>1, <2>3 DEF Declared
  <2> QED  BY <2>4
<1>5. CASE Write(p)
  <2>1. fd[p] = tmp /\ tmp # file /\ file' = file
    BY <1>0, <1>5, InodesAssumption DEF Write, SoloOf, InodesKept
  <2>2. PICK written : text' = [text EXCEPT ![fd[p]] = written]
    BY <1>5 DEF Write
  <2>3. file # NoFile => text'[file] = text[file]
    BY <1>1, <2>1, <2>2 DEF FilesTyped
  <2>4. Declared' = Declared
    BY <2>1, <2>3 DEF Declared
  <2> QED  BY <2>4
<1>6. CASE ~Rename(p) /\ ~Truncate(p) /\ ~Write(p)
  <2>1. file' = file /\ text' = text
    BY <1>2, <1>6 DEF Act, Open, Refresh, RenameFail, RemoveTmp, Resolve,
       ResolveFail, ReadBase, Commit, Reuse, Acknowledge, Refuse, Stop, Rollback, files
  <2>2. Declared' = Declared
    BY <2>1 DEF Declared
  <2> QED  BY <2>2
<1> QED  BY <1>3, <1>4, <1>5, <1>6

(* An apply no other apply overlapped, whatever was left behind by earlier *)
(* ones and whatever rollbacks run meanwhile, reports success only with    *)
(* the toggle saved and in force.                                          *)
THEOREM SoloAlwaysLands == Spec => SoloApplyLands
<1>1. ApplyInv /\ [Next]_vars =>
         [\A p \in Procs : Acks(p) /\ alone[p] =>
            /\ Declared = doc[p] /\ view' = doc[p]]_vars
  BY SoloLands
<1> QED  BY <1>1, ApplyGoesOn, PTL DEF Spec, SoloApplyLands

(* The file of an apply no other overlapped changes once, to the document  *)
(* that it saved: an interrupted save cannot truncate it.                  *)
THEOREM SoloSaveAlwaysAtomic == Spec => SoloSaveIsAtomic
<1>1. ApplyInv /\ [Next]_vars =>
         [\A p \in Procs : alone[p] /\ pc'[p] # pc[p] /\ Declared' # Declared =>
            pc'[p] = "saved" /\ Declared' = doc[p]]_vars
  BY SoloSaves
<1> QED  BY <1>1, ApplyGoesOn, PTL DEF Spec, SoloSaveIsAtomic

-----------------------------------------------------------------------------
(***************************************************************************)
(* The resolution.  What it declares is told layer by layer; what it finds *)
(* is told of the colours of a depth first visit, capability by capability,*)
(* and set against the definition, which knows no order.                   *)
(***************************************************************************)

ResolutionTyped ==
    /\ asked \in Request /\ catalogue \in Catalogue
    /\ phase \in {"fold", "expand", "check", "done"}
    /\ folded \in 0 .. Len(asked.layers)
    /\ declared \in [Capsule -> {"silent", "on", "off"}]
    /\ colour \in [Capsule -> {"white", "grey", "black"}]
    /\ path \in Seq(Capsule) /\ order \in Seq(Capsule)
    /\ todo \in [Capsule -> SUBSET Capsule] /\ edges \in [Capsule -> SUBSET Capsule]
    /\ checked \in 0 .. Len(order)
    /\ active \subseteq Capsule /\ unavailable \subseteq Capsule
    /\ problems \subseteq {"unknown", "disabled", "missing", "cycle", "conflict"}

(* What is declared is the word of the last layer that spoke among those   *)
(* folded, and after the policy the word of the definition.                *)
SpeaksLast(i, k, c) == Speaks(i, c) /\ \A j \in 1 .. k : Speaks(j, c) => j <= i
LastWord(k, c) ==
    \/ declared[c] = "silent" /\ \A i \in 1 .. k : ~Speaks(i, c)
    \/ \E i \in 1 .. k :
          /\ SpeaksLast(i, k, c)
          /\ declared[c] = IF c \in asked.layers[i].off THEN "off" ELSE "on"
WordsFolded ==
    /\ phase = "fold" => \A c \in Capsule : LastWord(folded, c)
    /\ phase # "fold" => \A c \in Capsule : declared[c] = Word(c)

(* Nothing is visited before the fold has ended, and whatever is on has    *)
(* been when the gate opens.                                               *)
Visited == {c \in Capsule : colour[c] # "white"}
Left    == {c \in Capsule : colour[c] = "black"}
Unvisited ==
    phase = "fold" => /\ path = <<>> /\ order = <<>> /\ problems = {}
                      /\ Visited = {}
Searched ==
    phase \in {"check", "done"} => path = <<>> /\ Wanted \subseteq Visited

(* The grey capabilities are the path and the black ones the order, each   *)
(* of them once.                                                           *)
Shape ==
    /\ \A c \in Capsule : colour[c] = "grey" <=> \E i \in 1 .. Len(path) : path[i] = c
    /\ \A i, j \in 1 .. Len(path) : path[i] = path[j] => i = j
    /\ \A c \in Capsule : colour[c] = "black" <=> \E i \in 1 .. Len(order) : order[i] = c
    /\ \A i, j \in 1 .. Len(order) : order[i] = order[j] => i = j

(* What was visited is selected; its edges are what it follows, but for    *)
(* what it has yet to look at, and lead to what was visited.               *)
Asks(c) == {d \in Capsule : catalogue.needs[c][d] # "no"}
Seen ==
    /\ Visited \subseteq Selected
    /\ \A c \in Capsule \ Visited : edges[c] = {} /\ todo[c] = {}
    /\ \A c \in Left : todo[c] = {}
    /\ \A c \in Visited : /\ edges[c] \subseteq Follows(c) \cap Visited
                          /\ Follows(c) \subseteq edges[c] \cup todo[c]
                          /\ todo[c] \subseteq Asks(c)
    /\ \A i \in 1 .. Len(path) - 1 : path[i + 1] \in edges[path[i]]

(* A problem is told for its reason, and every reason that was looked at   *)
(* has been told.                                                          *)
Lacks(c, d, why) ==
    /\ c \in Capsule /\ d \in Capsule /\ catalogue.needs[c][d] = "must"
    /\ IF why = "disabled" THEN Word(d) = "off"
                           ELSE why = "missing" /\ Word(d) # "off" /\ d \notin Known
Told ==
    /\ phase # "fold" => ("unknown" \in problems <=> \E c \in Capsule \ Known : Word(c) = "on")
    /\ \A why \in {"disabled", "missing"} :
          why \in problems => \E c \in Selected, d \in Capsule : Lacks(c, d, why)
    /\ \A why \in {"disabled", "missing"} : \A c \in Visited, d \in Capsule :
          Lacks(c, d, why) => d \in todo[c] \/ why \in problems
    /\ "cycle" \in problems => Cyclic
    /\ IF phase = "done"
       THEN "conflict" \in problems <=> \E pair \in catalogue.clash : pair \subseteq active
       ELSE "conflict" \notin problems

(* Unless a cycle was told: the edges of what was left lead to what was    *)
(* left before, and those of what is on the path to what was left or to    *)
(* the next on the path;                                                   *)
Ordered ==
    "cycle" \notin problems =>
        /\ \A i \in 1 .. Len(order) : \A d \in edges[order[i]] : \E j \in 1 .. i - 1 : order[j] = d
        /\ \A i \in 1 .. Len(path) : \A d \in edges[path[i]] :
              d \in Left \/ (i < Len(path) /\ d = path[i + 1])

(* so that no set of what was left leads back into itself all over.        *)
NoCircle ==
    "cycle" \notin problems =>
        \A S \in SUBSET Left : S # {} => \E c \in S : edges[c] \cap S = {}

(* The gate has split what it has seen; what it let through has all that   *)
(* it follows, and what it withheld is in no closed set without a refusal. *)
Gated ==
    /\ active \cap unavailable = {} /\ active \cap catalogue.refused = {}
    /\ \A c \in Capsule : c \in active \cup unavailable <=> \E i \in 1 .. checked : order[i] = c
    /\ "cycle" \notin problems => \A c \in active : edges[c] \subseteq active
    /\ \A S \in SUBSET Capsule :
          Closed(S) /\ S \cap catalogue.refused = {} => S \cap unavailable = {}
    /\ phase \in {"fold", "expand"} => checked = 0
    /\ phase = "done" => checked = Len(order)

-----------------------------------------------------------------------------
(* The world of a resolution. *)

LEMMA SameWorld ==
  ASSUME UNCHANGED input
  PROVE  /\ asked' = asked /\ catalogue' = catalogue
         /\ \A c : Word(c)' = Word(c) /\ Follows(c)' = Follows(c)
         /\ Known' = Known /\ Wanted' = Wanted /\ Selected' = Selected
         /\ \A S : Closed(S)' = Closed(S)
         /\ Cyclic' = Cyclic /\ Effective' = Effective
<1>1. asked' = asked /\ catalogue' = catalogue
  BY DEF input
<1>2. \A c : Word(c)' = Word(c)
  BY <1>1 DEF Word, Speaks
<1>3. Known' = Known
  BY <1>1 DEF Known
<1>4. \A c : Follows(c)' = Follows(c)
  BY <1>1, <1>2, <1>3 DEF Follows, Usable
<1>5. Wanted' = Wanted
  BY <1>2, <1>3 DEF Wanted
<1>6. \A S : Closed(S)' = Closed(S)
  BY <1>4 DEF Closed
<1>7. Selected' = Selected
  BY <1>5, <1>6 DEF Selected
<1>8. Cyclic' = Cyclic
  BY <1>4, <1>7 DEF Cyclic
<1>9. Effective' = Effective
  BY <1>1, <1>6, <1>7 DEF Effective
<1> QED  BY <1>1, <1>2, <1>3, <1>4, <1>5, <1>6, <1>7, <1>8, <1>9

LEMMA WorldTyped ==
  ASSUME ResolutionTyped
  PROVE  /\ Known \subseteq Capsule /\ catalogue.refused \subseteq Capsule
         /\ catalogue.needs \in [Capsule -> [Capsule -> Need]]
         /\ catalogue.clash \subseteq SUBSET Capsule
         /\ asked.layers \in Seq(Patch) /\ asked.require \subseteq Capsule
<1>1. /\ catalogue \in [known : SUBSET Capsule, needs : [Capsule -> [Capsule -> Need]],
                        refused : SUBSET Capsule, clash : SUBSET (SUBSET Capsule)]
      /\ asked \in [layers : Seq(Patch), require : SUBSET Capsule]
  BY RequestAssumption, CatalogueAssumption DEF ResolutionTyped
<1> QED  BY <1>1 DEF Known

LEMMA WantedSelected == ResolutionTyped => Wanted \subseteq Selected
BY WorldTyped DEF Selected, Wanted

LEMMA SelectedClosed == Selected \subseteq Capsule /\ Closed(Selected)
BY DEF Selected, Closed, Follows

LEMMA SelectedLeast ==
  ASSUME NEW S \in SUBSET Capsule, Wanted \subseteq S, Closed(S)
  PROVE  Selected \subseteq S
BY DEF Selected

LEMMA TopTyped ==
  ASSUME ResolutionTyped, path # <<>>
  PROVE  /\ Len(path) \in Nat /\ Len(path) >= 1
         /\ Top = path[Len(path)] /\ Top \in Capsule
<1>1. path \in Seq(Capsule)
  BY DEF ResolutionTyped
<1>2. Len(path) \in Nat /\ Len(path) >= 1
  BY <1>1, EmptySeq, LenProperties
<1>3. Top = path[Len(path)]
  BY DEF Top, Last
<1> QED  BY <1>1, <1>2, <1>3, ElementOfSeq

-----------------------------------------------------------------------------
(* Types of a resolution.                                                  *)

LEMMA ResolutionTypedInit == ResolverInit => ResolutionTyped
<1> SUFFICES ASSUME ResolverInit PROVE ResolutionTyped
  OBVIOUS
<1>1. asked.layers \in Seq(Patch)
  BY RequestAssumption DEF ResolverInit
<1>2. 0 \in 0 .. Len(asked.layers)
  BY <1>1, LenProperties
<1>3. <<>> \in Seq(Capsule) /\ Len(<<>>) = 0
  BY EmptySeq
<1> QED  BY <1>2, <1>3 DEF ResolverInit, ResolutionTyped

(* What a step of the visit leaves alone is typed as before.              *)
LEMMA ResolutionTypedStep ==
  ASSUME ResolutionTyped, [ResolverNext]_resolverVars
  PROVE  ResolutionTyped'
<1> USE DEF ResolutionTyped
<1>0. CASE UNCHANGED resolverVars
  BY <1>0 DEF resolverVars, input, visit, gate
<1>1. CASE Fold
  <2>1. asked.layers \in Seq(Patch) /\ folded + 1 \in 1 .. Len(asked.layers)
    BY <1>1, WorldTyped, LenProperties DEF Fold
  <2>2. folded' \in 0 .. Len(asked.layers)
    BY <1>1, <2>1, LenProperties DEF Fold
  <2>3. declared' \in [Capsule -> {"silent", "on", "off"}]
    BY <1>1 DEF Fold, Said
  <2> QED  BY <1>1, <2>2, <2>3 DEF Fold, input, visit, gate
<1>2. CASE ForcePolicy
  BY <1>2 DEF ForcePolicy, input, visit, gate, Fails
<1>3. CASE Leave
  <2>1. Top \in Capsule
    BY <1>3, TopTyped DEF Leave
  <2>2. path' \in Seq(Capsule)
    BY <1>3, TopTyped, SubSeqProperties DEF Leave, Front
  <2>3. order' \in Seq(Capsule) /\ Len(order') = Len(order) + 1
    BY <1>3, <2>1, AppendProperties DEF Leave
  <2>4. checked' \in 0 .. Len(order')
    BY <1>3, <2>3, LenProperties DEF Leave, gate
  <2> QED  BY <1>3, <2>2, <2>3, <2>4 DEF Leave, input, gate
<1>4. CASE Expanded
  BY <1>4 DEF Expanded, input, visit, gate
<1>5. CASE Check
  <2>1. checked + 1 \in 1 .. Len(order) /\ order[checked + 1] \in Capsule
    BY <1>5, LenProperties, ElementOfSeq DEF Check
  <2>2. checked' \in 0 .. Len(order)
    BY <1>5, <2>1 DEF Check
  <2>3. active' \subseteq Capsule /\ unavailable' \subseteq Capsule
    BY <1>5, <2>1 DEF Check
  <2> QED  BY <1>5, <2>2, <2>3 DEF Check, input, visit
<1>6. CASE Finish
  BY <1>6 DEF Finish, input, visit, gate, Fails
<1>7. ASSUME NEW c \in Capsule, Root(c) PROVE ResolutionTyped'
  <2>1. path' \in Seq(Capsule)
    BY <1>7, AppendProperties DEF Root, Enter
  <2> QED  BY <1>7, <2>1 DEF Root, Enter, input, gate
<1>8. ASSUME NEW c \in Capsule, Skip(c) PROVE ResolutionTyped'
  BY <1>8, TopTyped DEF Skip, Fails, input, gate
<1>9. ASSUME NEW c \in Capsule, Look(c) PROVE ResolutionTyped'
  <2>1. path' \in Seq(Capsule)
    <3>1. path' = Append(path, c) \/ path' = path
      BY <1>9 DEF Look
    <3>2. Append(path, c) \in Seq(Capsule)
      BY AppendProperties
    <3> QED  BY <3>1, <3>2
  <2>2. colour' \in [Capsule -> {"white", "grey", "black"}]
    BY <1>9 DEF Look
  <2>3. todo' \in [Capsule -> SUBSET Capsule] /\ edges' \in [Capsule -> SUBSET Capsule]
    BY <1>9, TopTyped DEF Look
  <2>4. problems' \subseteq {"unknown", "disabled", "missing", "cycle", "conflict"}
    BY <1>9 DEF Look, Fails
  <2> QED  BY <1>9, <2>1, <2>2, <2>3, <2>4 DEF Look, input, gate
<1> QED  BY <1>0, <1>1, <1>2, <1>3, <1>4, <1>5, <1>6, <1>7, <1>8, <1>9 DEF ResolverNext

-----------------------------------------------------------------------------
(* What the steps of a visit do, point by point. *)

(* c is entered: it is grey, on top of the path, and has all its            *)
(* requirements to look at.                                                *)
Pushes(c) ==
    /\ c \in Capsule /\ colour[c] = "white"
    /\ \A e \in Capsule : colour'[e] = IF e = c THEN "grey" ELSE colour[e]
    /\ Len(path') = Len(path) + 1 /\ path'[Len(path) + 1] = c
    /\ \A i \in 1 .. Len(path) : path'[i] = path[i]
    /\ todo'[c] = Asks(c)
    /\ order' = order

(* The capability on top of the path is left.                              *)
Pops ==
    /\ path # <<>> /\ todo[Top] = {}
    /\ \A e \in Capsule : colour'[e] = IF e = Top THEN "black" ELSE colour[e]
    /\ Len(path') = Len(path) - 1
    /\ \A i \in 1 .. Len(path) - 1 : path'[i] = path[i]
    /\ Len(order') = Len(order) + 1 /\ order'[Len(order) + 1] = Top
    /\ \A i \in 1 .. Len(order) : order'[i] = order[i]

LEMMA Pushing ==
  ASSUME ResolutionTyped, NEW c \in Capsule
  PROVE  /\ Root(c) => Pushes(c)
         /\ Look(c) /\ colour[c] = "white" => Pushes(c)
<1> USE DEF ResolutionTyped
<1>0. Len(path) \in Nat
  BY LenProperties
<1>1. ASSUME Root(c) PROVE Pushes(c)
  <2>1. path' = Append(path, c)
    BY <1>1 DEF Root, Enter
  <2>2. todo'[c] = Asks(c)
    BY <1>1 DEF Root, Enter, Asks
  <2>3. \A e \in Capsule : colour'[e] = IF e = c THEN "grey" ELSE colour[e]
    BY <1>1 DEF Root, Enter
  <2>4. colour[c] = "white" /\ order' = order
    BY <1>1 DEF Root
  <2> QED  BY <1>0, <2>1, <2>2, <2>3, <2>4, AppendProperties DEF Pushes
<1>2. ASSUME Look(c), colour[c] = "white" PROVE Pushes(c)
  <2>1. path' = Append(path, c)
    BY <1>2 DEF Look
  <2>2. todo'[c] = Asks(c)
    <3>1. Top \in Capsule
      BY <1>2, TopTyped DEF Look
    <3> QED  BY <1>2, <3>1 DEF Look, Asks
  <2>3. \A e \in Capsule : colour'[e] = IF e = c THEN "grey" ELSE colour[e]
    BY <1>2 DEF Look
  <2>4. order' = order
    BY <1>2 DEF Look
  <2> QED  BY <1>0, <1>2, <2>1, <2>2, <2>3, <2>4, AppendProperties DEF Pushes
<1> QED  BY <1>1, <1>2

LEMMA FrontParts ==
  ASSUME NEW S, NEW s \in Seq(S), s # <<>>
  PROVE  /\ Front(s) \in Seq(S) /\ Len(Front(s)) = Len(s) - 1
         /\ \A i \in 1 .. Len(s) - 1 : Front(s)[i] = s[i]
<1>1. Len(s) \in Nat /\ Len(s) >= 1
  BY EmptySeq, LenProperties
<1>2. PICK n \in Nat : n = Len(s) - 1
  BY <1>1
<1>3. \A i \in 1 .. n : s[i] \in S
  BY <1>1, <1>2, ElementOfSeq
<1>4. /\ SubSeq(s, 1, n) \in Seq(S)
      /\ Len(SubSeq(s, 1, n)) = IF 1 <= n THEN n - 1 + 1 ELSE 0
      /\ \A i \in 1 .. n - 1 + 1 : SubSeq(s, 1, n)[i] = s[1 + i - 1]
  BY <1>3, SubSeqProperties
<1> QED  BY <1>2, <1>4 DEF Front

LEMMA Popping ==
  ASSUME ResolutionTyped, Leave
  PROVE  Pops
<1> USE DEF ResolutionTyped
<1>1. /\ Top \in Capsule /\ Top = path[Len(path)]
      /\ Len(path) \in Nat /\ Len(path) >= 1 /\ Len(order) \in Nat
  BY TopTyped, LenProperties DEF Leave
<1>2. path # <<>> /\ todo[Top] = {}
  BY DEF Leave
<1>3. \A e \in Capsule : colour'[e] = IF e = Top THEN "black" ELSE colour[e]
  BY <1>1 DEF Leave
<1>4. path' = Front(path)
  BY DEF Leave
<1>5. Len(path') = Len(path) - 1 /\ \A i \in 1 .. Len(path) - 1 : path'[i] = path[i]
  <2>1. path \in Seq(Capsule) /\ path # <<>>
    BY <1>2
  <2> QED  BY <1>4, <2>1, FrontParts
<1>6. order' = Append(order, Top)
  BY DEF Leave
<1>7. /\ Len(order') = Len(order) + 1 /\ order'[Len(order) + 1] = Top
      /\ \A i \in 1 .. Len(order) : order'[i] = order[i]
  BY <1>1, <1>6, AppendProperties
<1> QED  BY <1>2, <1>3, <1>5, <1>7 DEF Pops

(* A step that enters or leaves nothing.                                   *)
Rests == colour' = colour /\ path' = path /\ order' = order

LEMMA StepKinds ==
  ASSUME ResolutionTyped, [ResolverNext]_resolverVars
  PROVE  Rests \/ Pops \/ \E c \in Capsule : Pushes(c)
<1>0. CASE UNCHANGED resolverVars
  BY <1>0 DEF resolverVars, visit, Rests
<1>1. CASE Fold \/ ForcePolicy \/ Expanded \/ Check \/ Finish
  BY <1>1 DEF Fold, ForcePolicy, Expanded, Check, Finish, visit, Rests
<1>2. CASE Leave
  BY <1>2, Popping
<1>3. ASSUME NEW c \in Capsule, Root(c) PROVE Pushes(c)
  BY <1>3, Pushing
<1>4. ASSUME NEW c \in Capsule, Skip(c) PROVE Rests
  BY <1>4 DEF Skip, Rests
<1>5. ASSUME NEW c \in Capsule, Look(c) PROVE Rests \/ Pushes(c)
  <2>1. CASE colour[c] = "white"
    BY <1>5, <2>1, Pushing
  <2>2. CASE colour[c] # "white"
    BY <1>5, <2>2 DEF Look, Rests
  <2> QED  BY <2>1, <2>2
<1> QED  BY <1>0, <1>1, <1>2, <1>3, <1>4, <1>5 DEF ResolverNext

LEMMA ShapeStep ==
  ASSUME ResolutionTyped, Shape, [ResolverNext]_resolverVars
  PROVE  Shape'
<1>0. Len(path) \in Nat /\ Len(order) \in Nat
  BY LenProperties DEF ResolutionTyped
<1>1. CASE Rests
  BY <1>1 DEF Rests, Shape
<1>2. ASSUME NEW c \in Capsule, Pushes(c) PROVE Shape'
  <2>1. ~ \E i \in 1 .. Len(path) : path[i] = c
    BY <1>2 DEF Pushes, Shape
  <2>2. \A e \in Capsule : colour'[e] = "grey" <=> \E i \in 1 .. Len(path') : path'[i] = e
    BY <1>0, <1>2, <2>1 DEF Pushes, Shape
  <2>3. \A i, j \in 1 .. Len(path') : path'[i] = path'[j] => i = j
    BY <1>0, <1>2, <2>1 DEF Pushes, Shape
  <2>4. \A e \in Capsule : colour'[e] = "black" <=> \E i \in 1 .. Len(order') : order'[i] = e
    BY <1>2 DEF Pushes, Shape
  <2>5. order' = order
    BY <1>2 DEF Pushes
  <2> QED  BY <2>2, <2>3, <2>4, <2>5 DEF Shape
<1>3. CASE Pops
  <2>1. /\ Top \in Capsule /\ Top = path[Len(path)]
        /\ Len(path) \in Nat /\ Len(path) >= 1
    BY <1>3, TopTyped DEF Pops
  <2>2. \A i \in 1 .. Len(path) - 1 : path[i] # Top
    BY <2>1 DEF Shape
  <2>3. colour[Top] = "grey"
    BY <2>1 DEF Shape
  <2>4. \A i \in 1 .. Len(order) : order[i] # Top
    BY <2>1, <2>3 DEF Shape
  <2>5. \A e \in Capsule : colour'[e] = "grey" <=> \E i \in 1 .. Len(path') : path'[i] = e
    <3>1. ASSUME NEW e \in Capsule
          PROVE  colour[e] = "grey" <=> \E i \in 1 .. Len(path) : path[i] = e
      BY DEF Shape
    <3> QED  BY <1>3, <2>1, <2>2, <3>1 DEF Pops
  <2>6. \A i, j \in 1 .. Len(path') : path'[i] = path'[j] => i = j
    BY <1>3, <2>1 DEF Pops, Shape
  <2>7. \A e \in Capsule : colour'[e] = "black" <=> \E i \in 1 .. Len(order') : order'[i] = e
    <3>1. ASSUME NEW e \in Capsule
          PROVE  colour[e] = "black" <=> \E i \in 1 .. Len(order) : order[i] = e
      BY DEF Shape
    <3> QED  BY <1>0, <1>3, <2>1, <2>4, <3>1 DEF Pops
  <2>8. \A i, j \in 1 .. Len(order') : order'[i] = order'[j] => i = j
    BY <1>0, <1>3, <2>4 DEF Pops, Shape
  <2> QED  BY <2>5, <2>6, <2>7, <2>8 DEF Shape
<1> QED  BY <1>1, <1>2, <1>3, StepKinds

-----------------------------------------------------------------------------
(* What is declared.                                                       *)

LEMMA WordsInit == ResolverInit => WordsFolded
BY DEF ResolverInit, WordsFolded, LastWord

(* What has been folded once every layer has, under the policy, is the     *)
(* word of the definition.                                                 *)
LEMMA WordOfAll ==
  ASSUME ResolutionTyped, NEW c \in Capsule, LastWord(Len(asked.layers), c)
  PROVE  Word(c) = IF c \in asked.require THEN "on" ELSE declared[c]
<1>0. DOMAIN asked.layers = 1 .. Len(asked.layers) /\ Len(asked.layers) \in Nat
  BY WorldTyped, LenProperties
<1>1. CASE c \in asked.require
  BY <1>1 DEF Word
<1>2. CASE c \notin asked.require /\ \A i \in 1 .. Len(asked.layers) : ~Speaks(i, c)
  <2>1. declared[c] = "silent"
    BY <1>2 DEF LastWord, SpeaksLast
  <2> QED  BY <1>0, <1>2, <2>1 DEF Word
<1>3. CASE c \notin asked.require /\ ~ \A i \in 1 .. Len(asked.layers) : ~Speaks(i, c)
  <2>1. PICK i \in 1 .. Len(asked.layers) :
            /\ SpeaksLast(i, Len(asked.layers), c)
            /\ declared[c] = IF c \in asked.layers[i].off THEN "off" ELSE "on"
    BY <1>3 DEF LastWord
  <2> DEFINE P(n) == Speaks(n, c) /\ \A j \in DOMAIN asked.layers : Speaks(j, c) => j <= n
             m == CHOOSE n \in DOMAIN asked.layers : P(n)
  <2>2. i \in DOMAIN asked.layers /\ P(i)
    BY <1>0, <2>1 DEF SpeaksLast
  <2>3. m \in DOMAIN asked.layers /\ P(m)
    BY <2>2
  <2>4. m <= i /\ i <= m
    BY <2>2, <2>3
  <2>5. m = i
    BY <1>0, <2>2, <2>3, <2>4
  <2>6. Word(c) = IF c \in asked.layers[m].off THEN "off" ELSE "on"
    BY <1>0, <1>3 DEF Word
  <2> QED  BY <1>3, <2>1, <2>5, <2>6
<1> QED  BY <1>1, <1>2, <1>3

LEMMA WordsFold ==
  ASSUME ResolutionTyped, WordsFolded, Fold
  PROVE  WordsFolded'
<1>1. /\ phase = "fold" /\ phase' = phase /\ folded' = folded + 1 /\ folded \in Nat
      /\ asked' = asked
  BY DEF Fold, input, ResolutionTyped
<1> SUFFICES ASSUME NEW c \in Capsule PROVE LastWord(folded, c)'
  BY <1>1 DEF WordsFolded
<1>2. \A i : Speaks(i, c)' <=> Speaks(i, c)
  BY <1>1 DEF Speaks
<1>3. LastWord(folded, c)
  BY <1>1 DEF WordsFolded
<1>4. declared'[c] = Said(asked.layers[folded + 1], c)
  BY DEF Fold
<1>5. CASE Speaks(folded + 1, c)
  <2>1. declared'[c] = IF c \in asked.layers[folded + 1].off THEN "off" ELSE "on"
    BY <1>4, <1>5 DEF Said, Speaks
  <2>2. PICK i \in 1 .. folded' : i = folded + 1
    BY <1>1
  <2>3. Speaks(i, c)' /\ \A j \in 1 .. folded' : j <= i
    BY <1>1, <1>2, <1>5, <2>2
  <2>4. SpeaksLast(i, folded, c)'
    BY <2>3 DEF SpeaksLast
  <2>5. declared'[c] = IF c \in asked'.layers[i].off THEN "off" ELSE "on"
    BY <1>1, <2>1, <2>2
  <2> QED  BY <2>2, <2>4, <2>5 DEF LastWord
<1>6. CASE ~Speaks(folded + 1, c)
  <2>1. declared'[c] = declared[c]
    BY <1>4, <1>6 DEF Said, Speaks
  <2>2. CASE declared[c] = "silent" /\ \A i \in 1 .. folded : ~Speaks(i, c)
    <3>1. \A i \in 1 .. folded' : ~Speaks(i, c)
      BY <1>1, <1>6, <2>2
    <3> QED  BY <1>2, <2>1, <2>2, <3>1 DEF LastWord
  <2>3. ASSUME NEW i \in 1 .. folded, SpeaksLast(i, folded, c),
               declared[c] = IF c \in asked.layers[i].off THEN "off" ELSE "on"
        PROVE  LastWord(folded, c)'
    <3>1. i \in 1 .. folded'
      BY <1>1
    <3>2. SpeaksLast(i, folded, c)'
      BY <1>1, <1>2, <1>6, <2>3 DEF SpeaksLast
    <3> QED  BY <1>1, <2>1, <2>3, <3>1, <3>2 DEF LastWord
  <2> QED  BY <1>3, <2>2, <2>3 DEF LastWord
<1> QED  BY <1>5, <1>6

LEMMA WordsStep ==
  ASSUME ResolutionTyped, WordsFolded, [ResolverNext]_resolverVars
  PROVE  WordsFolded'
<1>1. CASE Fold
  BY <1>1, WordsFold
<1>2. CASE ForcePolicy
  <2>1. phase = "fold" /\ phase' = "expand" /\ folded = Len(asked.layers) /\ UNCHANGED input
    BY <1>2 DEF ForcePolicy
  <2>2. ASSUME NEW c \in Capsule PROVE declared'[c] = Word(c)'
    <3>1. LastWord(Len(asked.layers), c)
      BY <2>1 DEF WordsFolded
    <3>2. Word(c) = IF c \in asked.require THEN "on" ELSE declared[c]
      BY <3>1, WordOfAll
    <3>3. declared'[c] = IF c \in asked.require THEN "on" ELSE declared[c]
      BY <1>2 DEF ForcePolicy
    <3>4. Word(c)' = Word(c)
      BY <2>1, SameWorld
    <3> QED  BY <3>2, <3>3, <3>4
  <2> QED  BY <2>1, <2>2 DEF WordsFolded
<1>3. CASE UNCHANGED resolverVars
  BY <1>3, SameWorld DEF resolverVars, WordsFolded, LastWord, SpeaksLast, Speaks
<1>4. ASSUME phase # "fold", phase' # "fold", UNCHANGED <<input, declared>>
      PROVE  WordsFolded'
  BY <1>4, SameWorld DEF WordsFolded
<1>5. CASE Leave \/ Expanded \/ Check \/ Finish \/ \E c \in Capsule : Root(c) \/ Skip(c) \/ Look(c)
  BY <1>4, <1>5 DEF Leave, Expanded, Check, Finish, Root, Skip, Look
<1> QED  BY <1>1, <1>2, <1>3, <1>5 DEF ResolverNext

-----------------------------------------------------------------------------
(* Where a visit begins and what it has reached when it ends.              *)

LEMMA WantedRoots ==
  ASSUME WordsFolded, phase # "fold"
  PROVE  \A c \in Capsule : /\ c \in Roots <=> c \in Wanted
                            /\ declared[c] = Word(c)
BY DEF WordsFolded, Roots, Wanted

LEMMA BordersStep ==
  ASSUME ResolutionTyped, WordsFolded, Unvisited, Searched, [ResolverNext]_resolverVars
  PROVE  Unvisited' /\ Searched'
<1>1. CASE UNCHANGED resolverVars
  BY <1>1, SameWorld DEF resolverVars, visit, input, Unvisited, Searched, Visited
<1>2. CASE Fold
  BY <1>2 DEF Fold, visit, Unvisited, Searched, Visited
<1>3. CASE ForcePolicy \/ Leave \/ \E c \in Capsule : Root(c) \/ Skip(c) \/ Look(c)
  <2>1. phase' = "expand"
    BY <1>3 DEF ForcePolicy, Leave, Root, Skip, Look
  <2> QED  BY <2>1 DEF Unvisited, Searched
<1>4. CASE Expanded
  <2>1. /\ phase = "expand" /\ phase' = "check" /\ path = <<>> /\ UNCHANGED <<input, visit>>
        /\ \A c \in Roots : colour[c] # "white"
    BY <1>4 DEF Expanded
  <2>2. Wanted \subseteq Visited
    BY <2>1, WantedRoots, WorldTyped DEF Wanted, Visited
  <2>3. Wanted' = Wanted
    BY <2>1, SameWorld
  <2> QED  BY <2>1, <2>2, <2>3 DEF Unvisited, Searched, Visited, visit
<1>5. CASE Check \/ Finish
  <2>1. phase = "check" /\ phase' \in {"check", "done"} /\ UNCHANGED <<input, visit>>
    BY <1>5 DEF Check, Finish
  <2>2. Wanted' = Wanted
    BY <2>1, SameWorld
  <2> QED  BY <2>1, <2>2 DEF Unvisited, Searched, Visited, visit
<1> QED  BY <1>1, <1>2, <1>3, <1>4, <1>5 DEF ResolverNext

-----------------------------------------------------------------------------
(* What has been seen: requirements become edges.                          *)

LEMMA TopGrey ==
  ASSUME ResolutionTyped, Shape, path # <<>>
  PROVE  /\ Top \in Capsule /\ colour[Top] = "grey" /\ Top \in Visited
         /\ Top = path[Len(path)] /\ Len(path) \in Nat /\ Len(path) >= 1
<1>1. /\ Top \in Capsule /\ Top = path[Len(path)]
      /\ Len(path) \in Nat /\ Len(path) >= 1
  BY TopTyped
<1>2. colour[Top] = "grey"
  BY <1>1 DEF Shape
<1> QED  BY <1>1, <1>2 DEF Visited

LEMMA LookParts ==
  ASSUME ResolutionTyped, WordsFolded, Unvisited, Shape, Seen, NEW d \in Capsule, Look(d)
  PROVE  /\ path # <<>> /\ d \in Follows(Top)
         /\ \A e \in Capsule : edges'[e] = IF e = Top THEN edges[e] \cup {d} ELSE edges[e]
         /\ \A e \in Capsule :
               todo'[e] = IF e = d /\ colour[d] = "white" THEN Asks(d)
                          ELSE IF e = Top THEN todo[e] \ {d} ELSE todo[e]
         /\ \A e \in Capsule :
               colour'[e] = IF e = d /\ colour[d] = "white" THEN "grey" ELSE colour[e]
         /\ UNCHANGED input
<1>1. path # <<>> /\ d \in todo[Top] /\ declared[d] # "off" /\ d \in Known /\ phase = "expand"
  BY DEF Look
<1>2. Top \in Capsule /\ Top \in Visited /\ colour[Top] = "grey"
  BY <1>1, TopGrey
<1>3. d \in Follows(Top)
  <2>1. catalogue.needs[Top][d] # "no"
    BY <1>1, <1>2 DEF Seen, Asks
  <2>2. Word(d) # "off"
    BY <1>1, WantedRoots
  <2> QED  BY <1>1, <2>1, <2>2 DEF Follows, Usable
<1>4. /\ edges \in [Capsule -> SUBSET Capsule] /\ todo \in [Capsule -> SUBSET Capsule]
      /\ colour \in [Capsule -> {"white", "grey", "black"}]
  BY DEF ResolutionTyped
<1>5. \A e \in Capsule : edges'[e] = IF e = Top THEN edges[e] \cup {d} ELSE edges[e]
  BY <1>2, <1>4 DEF Look
<1>6. CASE colour[d] = "white"
  <2>1. todo' = [todo EXCEPT ![Top] = @ \ {d}, ![d] = Asks(d)]
    BY <1>6 DEF Look, Asks
  <2>2. \A e \in Capsule : todo'[e] = IF e = d THEN Asks(d)
                                      ELSE IF e = Top THEN todo[e] \ {d} ELSE todo[e]
    BY <1>2, <1>4, <2>1
  <2>3. \A e \in Capsule : colour'[e] = IF e = d THEN "grey" ELSE colour[e]
    BY <1>4, <1>6 DEF Look
  <2>4. UNCHANGED input
    BY DEF Look
  <2> QED  BY <1>1, <1>3, <1>5, <1>6, <2>2, <2>3, <2>4
<1>7. CASE colour[d] # "white"
  <2>1. todo' = [todo EXCEPT ![Top] = @ \ {d}] /\ colour' = colour
    BY <1>7 DEF Look
  <2>2. \A e \in Capsule : todo'[e] = IF e = Top THEN todo[e] \ {d} ELSE todo[e]
    BY <1>2, <1>4, <2>1
  <2>3. UNCHANGED input
    BY DEF Look
  <2> QED  BY <1>1, <1>3, <1>5, <1>7, <2>1, <2>2, <2>3
<1> QED  BY <1>6, <1>7

LEMMA SkipParts ==
  ASSUME ResolutionTyped, WordsFolded, Shape, NEW d \in Capsule, Skip(d)
  PROVE  /\ path # <<>> /\ d \in todo[Top] /\ ~Usable(d)
         /\ declared[d] = Word(d)
         /\ \A e \in Capsule : todo'[e] = IF e = Top THEN todo[e] \ {d} ELSE todo[e]
         /\ UNCHANGED <<input, colour, edges, path>>
<1>1. path # <<>> /\ d \in todo[Top] /\ (declared[d] = "off" \/ d \notin Known) /\ phase = "expand"
  BY DEF Skip
<1>2. declared[d] = Word(d)
  BY <1>1, WantedRoots
<1>3. Top \in Capsule
  BY <1>1, TopTyped
<1>4. todo \in [Capsule -> SUBSET Capsule]
  BY DEF ResolutionTyped
<1>5. \A e \in Capsule : todo'[e] = IF e = Top THEN todo[e] \ {d} ELSE todo[e]
  BY <1>3, <1>4 DEF Skip
<1>6. UNCHANGED <<input, colour, edges, path>>
  BY DEF Skip
<1> QED  BY <1>1, <1>2, <1>5, <1>6 DEF Usable

LEMMA RootParts ==
  ASSUME ResolutionTyped, WordsFolded, NEW c \in Capsule, Root(c)
  PROVE  /\ path = <<>> /\ c \in Wanted /\ colour[c] = "white"
         /\ \A e \in Capsule : todo'[e] = IF e = c THEN Asks(c) ELSE todo[e]
         /\ \A e \in Capsule : colour'[e] = IF e = c THEN "grey" ELSE colour[e]
         /\ UNCHANGED <<input, edges>>
<1>1. path = <<>> /\ c \in Roots /\ colour[c] = "white" /\ phase = "expand"
  BY DEF Root
<1>2. c \in Wanted
  BY <1>1, WantedRoots
<1>3. /\ todo \in [Capsule -> SUBSET Capsule]
      /\ colour \in [Capsule -> {"white", "grey", "black"}]
  BY DEF ResolutionTyped
<1>4. todo' = [todo EXCEPT ![c] = Asks(c)] /\ colour' = [colour EXCEPT ![c] = "grey"]
  BY DEF Root, Enter, Asks
<1>5. UNCHANGED <<input, edges>>
  BY DEF Root
<1> QED  BY <1>1, <1>2, <1>3, <1>4, <1>5

LEMMA AsksSame == UNCHANGED input => \A c : Asks(c)' = Asks(c)
BY DEF input, Asks

(* The parts of Seen, one capability at a time.                            *)
SeenOf(c) ==
    /\ c \in Visited => c \in Selected
    /\ c \notin Visited => edges[c] = {} /\ todo[c] = {}
    /\ c \in Left => todo[c] = {}
    /\ c \in Visited => /\ edges[c] \subseteq Follows(c) \cap Visited
                        /\ Follows(c) \subseteq edges[c] \cup todo[c]
                        /\ todo[c] \subseteq Asks(c)
Linked == \A i \in 1 .. Len(path) - 1 : path[i + 1] \in edges[path[i]]

LEMMA SeenParts == Seen <=> Linked /\ \A c \in Capsule : SeenOf(c)
<1>1. Visited \subseteq Capsule /\ Left \subseteq Capsule
  BY DEF Visited, Left
<1> QED  BY <1>1 DEF Seen, SeenOf, Linked

LEMMA SeenPartsPrimed == Seen' <=> Linked' /\ \A c \in Capsule : SeenOf(c)'
<1>1. Visited' \subseteq Capsule /\ Left' \subseteq Capsule
  BY DEF Visited, Left
<1> QED  BY <1>1 DEF Seen, SeenOf, Linked

LEMMA SeenRoot ==
  ASSUME ResolutionTyped, WordsFolded, Shape, Seen, NEW c \in Capsule, Root(c)
  PROVE  Seen'
<1>1. /\ path = <<>> /\ c \in Wanted /\ colour[c] = "white"
      /\ \A e \in Capsule : todo'[e] = IF e = c THEN Asks(c) ELSE todo[e]
      /\ \A e \in Capsule : colour'[e] = IF e = c THEN "grey" ELSE colour[e]
      /\ UNCHANGED input /\ edges' = edges
  BY RootParts
<1>2. Linked'
  <2>1. Len(path') = Len(path) + 1
    BY Pushing DEF Pushes
  <2> QED  BY <1>1, <2>1, EmptySeq DEF Linked
<1>3. c \in Selected
  BY <1>1, WantedSelected
<1>4. ASSUME NEW e \in Capsule PROVE SeenOf(e)'
  <2>1. SeenOf(e) /\ SeenOf(c)
    BY SeenParts
  <2>2. Follows(e)' = Follows(e) /\ Selected' = Selected /\ Asks(e)' = Asks(e)
    BY <1>1, SameWorld, AsksSame
  <2>3. Visited' = Visited \cup {c} /\ Left' = Left /\ c \notin Visited
    BY <1>1 DEF Visited, Left
  <2>4. CASE e = c
    <3>1. edges'[e] = {} /\ todo'[e] = Asks(e)
      BY <1>1, <2>1, <2>3, <2>4 DEF SeenOf
    <3>2. Follows(e) \subseteq Asks(e)
      BY DEF Follows, Asks
    <3>3. e \notin Left
      BY <1>1, <2>4 DEF Left
    <3> QED  BY <1>3, <2>2, <2>3, <2>4, <3>1, <3>2, <3>3 DEF SeenOf
  <2>5. CASE e # c
    <3>1. edges'[e] = edges[e] /\ todo'[e] = todo[e]
      BY <1>1, <2>5
    <3> QED  BY <2>1, <2>2, <2>3, <2>5, <3>1 DEF SeenOf
  <2> QED  BY <2>4, <2>5
<1> QED  BY <1>2, <1>4, SeenPartsPrimed

LEMMA SeenSkip ==
  ASSUME ResolutionTyped, WordsFolded, Shape, Seen, NEW d \in Capsule, Skip(d)
  PROVE  Seen'
<1>1. /\ path # <<>> /\ d \in todo[Top] /\ ~Usable(d)
      /\ \A e \in Capsule : todo'[e] = IF e = Top THEN todo[e] \ {d} ELSE todo[e]
      /\ UNCHANGED input /\ colour' = colour /\ edges' = edges /\ path' = path
  BY SkipParts
<1>2. Linked'
  BY <1>1, SeenParts DEF Linked
<1>3. ASSUME NEW e \in Capsule PROVE SeenOf(e)'
  <2>1. SeenOf(e)
    BY SeenParts
  <2>2. Follows(e)' = Follows(e) /\ Selected' = Selected /\ Asks(e)' = Asks(e)
    BY <1>1, SameWorld, AsksSame
  <2>3. Visited' = Visited /\ Left' = Left
    BY <1>1 DEF Visited, Left
  <2>4. d \notin Follows(e)
    BY <1>1 DEF Follows
  <2>5. edges'[e] = edges[e] /\ (todo'[e] = todo[e] \/ todo'[e] = todo[e] \ {d})
    BY <1>1
  <2> QED  BY <2>1, <2>2, <2>3, <2>4, <2>5 DEF SeenOf
<1> QED  BY <1>2, <1>3, SeenPartsPrimed

LEMMA SeenLook ==
  ASSUME ResolutionTyped, WordsFolded, Unvisited, Shape, Seen, NEW d \in Capsule, Look(d)
  PROVE  Seen'
<1>1. /\ path # <<>> /\ d \in Follows(Top) /\ UNCHANGED input
      /\ \A e \in Capsule : edges'[e] = IF e = Top THEN edges[e] \cup {d} ELSE edges[e]
  BY LookParts
<1>2. \A e \in Capsule : todo'[e] = IF e = d /\ colour[d] = "white" THEN Asks(d)
                                    ELSE IF e = Top THEN todo[e] \ {d} ELSE todo[e]
  BY LookParts
<1>3. \A e \in Capsule :
         colour'[e] = IF e = d /\ colour[d] = "white" THEN "grey" ELSE colour[e]
  BY LookParts
<1>4. /\ Top \in Capsule /\ colour[Top] = "grey" /\ Top \in Visited
      /\ Top = path[Len(path)] /\ Len(path) \in Nat /\ Len(path) >= 1
  BY <1>1, TopGrey
<1>5. d \in Selected
  <2>1. Top \in Selected
    BY <1>4 DEF Seen
  <2> QED  BY <1>1, <2>1, SelectedClosed DEF Closed
<1>6. Visited' = Visited \cup {d}
  BY <1>3 DEF Visited
<1>7. Left' = Left
  BY <1>3 DEF Left
<1>8. Linked'
  <2>1. \A i \in 1 .. Len(path) : path[i] \in Capsule
    BY ElementOfSeq DEF ResolutionTyped
  <2>2. ASSUME NEW i \in 1 .. Len(path) - 1 PROVE path[i + 1] \in edges'[path[i]]
    <3>1. path[i] \in Capsule
      BY <1>4, <2>1
    <3>2. path[i + 1] \in edges[path[i]]
      BY SeenParts DEF Linked
    <3> QED  BY <1>1, <3>1, <3>2
  <2>3. CASE path' = path
    BY <2>2, <2>3 DEF Linked
  <2>4. CASE Pushes(d)
    <3>1. d \in edges'[path[Len(path)]]
      BY <1>1, <1>4
    <3>2. ASSUME NEW i \in 1 .. Len(path') - 1 PROVE path'[i + 1] \in edges'[path'[i]]
      <4>1. Len(path') = Len(path) + 1 /\ i \in 1 .. Len(path) /\ path'[i] = path[i]
        BY <1>4, <2>4 DEF Pushes
      <4>2. CASE i = Len(path)
        BY <1>4, <2>4, <3>1, <4>1, <4>2 DEF Pushes
      <4>3. CASE i < Len(path)
        <5>1. i + 1 \in 1 .. Len(path) /\ i \in 1 .. Len(path) - 1
          BY <1>4, <4>1, <4>3
        <5>2. path'[i + 1] = path[i + 1]
          BY <2>4, <5>1 DEF Pushes
        <5> QED  BY <2>2, <4>1, <5>1, <5>2
      <4> QED  BY <1>4, <4>1, <4>2, <4>3
    <3> QED  BY <3>2 DEF Linked
  <2>5. path' = path \/ Pushes(d)
    <3>1. colour[d] # "white" => path' = path
      BY DEF Look
    <3> QED  BY <3>1, Pushing
  <2> QED  BY <2>3, <2>4, <2>5
<1>9. ASSUME NEW e \in Capsule PROVE SeenOf(e)'
  <2>1. SeenOf(e) /\ SeenOf(Top)
    BY <1>4, SeenParts
  <2>2. Follows(e)' = Follows(e) /\ Selected' = Selected /\ Asks(e)' = Asks(e)
    BY <1>1, SameWorld, AsksSame
  <2>3. CASE e = d /\ colour[d] = "white"
    <3>1. e # Top /\ e \notin Visited /\ e \notin Left
      BY <1>4, <2>3 DEF Visited, Left
    <3>2. edges'[e] = {} /\ todo'[e] = Asks(e)
      BY <1>1, <1>2, <2>1, <2>3, <3>1 DEF SeenOf
    <3>3. Follows(e) \subseteq Asks(e)
      BY DEF Follows, Asks
    <3> QED  BY <1>5, <1>6, <1>7, <2>2, <2>3, <3>1, <3>2, <3>3 DEF SeenOf
  <2>4. CASE e = Top /\ ~(e = d /\ colour[d] = "white")
    <3>1. edges'[e] = edges[e] \cup {d} /\ todo'[e] = todo[e] \ {d}
      BY <1>1, <1>2, <2>4
    <3>2. e \in Visited /\ e \notin Left /\ d \in Follows(e)
      BY <1>1, <1>4, <2>4 DEF Left
    <3> QED  BY <1>6, <1>7, <2>1, <2>2, <3>1, <3>2 DEF SeenOf
  <2>5. CASE e # Top /\ ~(e = d /\ colour[d] = "white")
    <3>1. edges'[e] = edges[e] /\ todo'[e] = todo[e]
      BY <1>1, <1>2, <2>5
    <3>2. e \in Visited' <=> e \in Visited
      BY <1>3, <2>5 DEF Visited
    <3> QED  BY <1>6, <1>7, <2>1, <2>2, <3>1, <3>2 DEF SeenOf
  <2> QED  BY <2>3, <2>4, <2>5
<1> QED  BY <1>8, <1>9, SeenPartsPrimed

LEMMA SeenLeave ==
  ASSUME ResolutionTyped, Shape, Seen, Leave
  PROVE  Seen'
<1>1. /\ path # <<>> /\ todo[Top] = {}
      /\ \A e \in Capsule : colour'[e] = IF e = Top THEN "black" ELSE colour[e]
      /\ Len(path') = Len(path) - 1
      /\ \A i \in 1 .. Len(path) - 1 : path'[i] = path[i]
  BY Popping DEF Pops
<1>2. /\ Top \in Capsule /\ Top \in Visited /\ Len(path) \in Nat
  BY <1>1, TopGrey
<1>3. UNCHANGED input /\ todo' = todo /\ edges' = edges
  BY DEF Leave
<1>4. Visited' = Visited /\ Left' = Left \cup {Top}
  BY <1>1, <1>2 DEF Visited, Left
<1>5. Linked'
  BY <1>1, <1>2, <1>3, SeenParts DEF Linked
<1>6. ASSUME NEW e \in Capsule PROVE SeenOf(e)'
  <2>1. SeenOf(e)
    BY SeenParts
  <2>2. Follows(e)' = Follows(e) /\ Selected' = Selected /\ Asks(e)' = Asks(e)
    BY <1>3, SameWorld, AsksSame
  <2> QED  BY <1>1, <1>3, <1>4, <2>1, <2>2 DEF SeenOf
<1> QED  BY <1>5, <1>6, SeenPartsPrimed

LEMMA SeenStep ==
  ASSUME ResolutionTyped, WordsFolded, Unvisited, Shape, Seen, [ResolverNext]_resolverVars
  PROVE  Seen'
<1>1. ASSUME UNCHANGED <<input, visit>> PROVE Seen'
  BY <1>1, SameWorld, AsksSame DEF visit, Seen, Visited, Left
<1>2. CASE UNCHANGED resolverVars \/ Fold \/ ForcePolicy \/ Expanded \/ Check \/ Finish
  BY <1>1, <1>2 DEF resolverVars, Fold, ForcePolicy, Expanded, Check, Finish
<1> QED  BY <1>2, SeenRoot, SeenSkip, SeenLook, SeenLeave DEF ResolverNext

-----------------------------------------------------------------------------
(* The order, and circles.                                                 *)

EndedFirst(i) == \A d \in edges[order[i]] : \E j \in 1 .. i - 1 : order[j] = d
EndedOrNext(i) ==
    \A d \in edges[path[i]] : d \in Left \/ (i < Len(path) /\ d = path[i + 1])

LEMMA OrderedParts ==
  Ordered <=> ("cycle" \notin problems => /\ \A i \in 1 .. Len(order) : EndedFirst(i)
                                          /\ \A i \in 1 .. Len(path) : EndedOrNext(i))
BY DEF Ordered, EndedFirst, EndedOrNext

LEMMA OrderedPartsPrimed ==
  Ordered' <=> ("cycle" \notin problems' => /\ \A i \in 1 .. Len(order') : EndedFirst(i)'
                                            /\ \A i \in 1 .. Len(path') : EndedOrNext(i)')
BY DEF Ordered, EndedFirst, EndedOrNext

LEMMA OrderedRoot ==
  ASSUME ResolutionTyped, WordsFolded, Shape, Seen, Ordered, NEW c \in Capsule, Root(c)
  PROVE  Ordered'
<1>1. path = <<>> /\ colour[c] = "white" /\ edges' = edges
  BY RootParts
<1>2. problems' = problems /\ order' = order
  BY DEF Root
<1>3. Len(path') = 1 /\ path'[1] = c
  BY <1>1, Pushing, EmptySeq DEF Pushes
<1>4. edges[c] = {}
  BY <1>1 DEF Seen, Visited
<1>5. \A i \in 1 .. Len(path') : EndedOrNext(i)'
  BY <1>1, <1>3, <1>4 DEF EndedOrNext
<1> QED  BY <1>1, <1>2, <1>5, OrderedParts, OrderedPartsPrimed DEF EndedFirst

LEMMA OrderedLook ==
  ASSUME ResolutionTyped, WordsFolded, Unvisited, Shape, Seen, Ordered,
         NEW d \in Capsule, Look(d)
  PROVE  Ordered'
<1> SUFFICES ASSUME "cycle" \notin problems'
             PROVE  /\ \A i \in 1 .. Len(order') : EndedFirst(i)'
                    /\ \A i \in 1 .. Len(path') : EndedOrNext(i)'
  BY OrderedPartsPrimed
<1>1. /\ path # <<>>
      /\ \A e \in Capsule : edges'[e] = IF e = Top THEN edges[e] \cup {d} ELSE edges[e]
      /\ \A e \in Capsule :
            colour'[e] = IF e = d /\ colour[d] = "white" THEN "grey" ELSE colour[e]
  BY LookParts
<1>2. order' = order /\ "cycle" \notin problems
  BY DEF Look, Fails
<1>3. /\ Top \in Capsule /\ colour[Top] = "grey"
      /\ Top = path[Len(path)] /\ Len(path) \in Nat /\ Len(path) >= 1
  BY <1>1, TopGrey
<1>4. Left' = Left
  BY <1>1 DEF Left
<1>5. colour[d] # "grey" /\ (colour[d] = "white" \/ d \in Left)
  <2>1. colour[d] # "white" /\ colour[d] = "grey" => problems' = problems \cup {"cycle"}
    BY DEF Look, Fails
  <2>2. colour[d] \in {"white", "grey", "black"}
    BY DEF ResolutionTyped
  <2> QED  BY <2>1, <2>2 DEF Left
<1>6. ASSUME NEW i \in 1 .. Len(order') PROVE EndedFirst(i)'
  <2>1. order[i] \in Capsule /\ i \in 1 .. Len(order)
    BY <1>2, ElementOfSeq DEF ResolutionTyped
  <2>2. colour[order[i]] = "black"
    BY <2>1 DEF Shape
  <2>3. edges'[order'[i]] = edges[order[i]]
    BY <1>1, <1>2, <1>3, <2>1, <2>2
  <2>4. EndedFirst(i)
    BY <1>2, <2>1, OrderedParts
  <2> QED  BY <1>2, <2>3, <2>4 DEF EndedFirst
<1>7. ASSUME NEW i \in 1 .. Len(path), path'[i] = path[i],
             i < Len(path) => i < Len(path') /\ path'[i + 1] = path[i + 1],
             d \in Left \/ (Len(path) < Len(path') /\ d = path'[Len(path) + 1])
      PROVE  EndedOrNext(i)'
  <2>1. EndedOrNext(i) /\ path[i] \in Capsule
    BY <1>2, OrderedParts, ElementOfSeq DEF ResolutionTyped
  <2>2. CASE path[i] = Top
    <3>1. i = Len(path)
      BY <1>3, <2>2 DEF Shape
    <3>2. edges'[path'[i]] = edges[path[i]] \cup {d}
      BY <1>1, <1>7, <2>1, <2>2
    <3> QED  BY <1>4, <1>7, <2>1, <3>1, <3>2 DEF EndedOrNext
  <2>3. CASE path[i] # Top
    <3>1. edges'[path'[i]] = edges[path[i]]
      BY <1>1, <1>7, <2>1, <2>3
    <3> QED  BY <1>4, <1>7, <2>1, <3>1 DEF EndedOrNext
  <2> QED  BY <2>2, <2>3
<1>8. \A i \in 1 .. Len(path') : EndedOrNext(i)'
  <2>1. CASE colour[d] = "white"
    <3>1. Pushes(d)
      BY <2>1, Pushing
    <3>2. /\ Len(path') = Len(path) + 1 /\ path'[Len(path) + 1] = d
          /\ \A i \in 1 .. Len(path) : path'[i] = path[i]
      BY <3>1 DEF Pushes
    <3>3. ASSUME NEW i \in 1 .. Len(path') PROVE EndedOrNext(i)'
      <4>1. CASE i = Len(path) + 1
        <5>1. edges'[path'[i]] = {}
          BY <1>1, <1>3, <2>1, <3>2, <4>1 DEF Seen, Visited
        <5> QED  BY <5>1 DEF EndedOrNext
      <4>2. CASE i \in 1 .. Len(path)
        <5>1. i < Len(path) => i < Len(path') /\ path'[i + 1] = path[i + 1]
          BY <1>3, <3>2, <4>2
        <5>2. Len(path) < Len(path') /\ d = path'[Len(path) + 1]
          BY <1>3, <3>2
        <5> QED  BY <1>7, <3>2, <4>2, <5>1, <5>2
      <4> QED  BY <1>3, <3>2, <4>1, <4>2
    <3> QED  BY <3>3
  <2>2. CASE colour[d] # "white"
    <3>1. path' = path /\ d \in Left
      BY <1>5, <2>2 DEF Look
    <3> QED  BY <1>7, <3>1
  <2> QED  BY <2>1, <2>2
<1> QED  BY <1>6, <1>8

LEMMA OrderedLeave ==
  ASSUME ResolutionTyped, Shape, Seen, Ordered, Leave
  PROVE  Ordered'
<1> SUFFICES ASSUME "cycle" \notin problems'
             PROVE  /\ \A i \in 1 .. Len(order') : EndedFirst(i)'
                    /\ \A i \in 1 .. Len(path') : EndedOrNext(i)'
  BY OrderedPartsPrimed
<1>1. /\ path # <<>>
      /\ \A e \in Capsule : colour'[e] = IF e = Top THEN "black" ELSE colour[e]
      /\ Len(path') = Len(path) - 1
      /\ \A i \in 1 .. Len(path) - 1 : path'[i] = path[i]
      /\ Len(order') = Len(order) + 1 /\ order'[Len(order) + 1] = Top
      /\ \A i \in 1 .. Len(order) : order'[i] = order[i]
  BY Popping DEF Pops
<1>2. edges' = edges /\ "cycle" \notin problems
  BY DEF Leave
<1>3. /\ Top \in Capsule /\ Top = path[Len(path)] /\ Len(path) \in Nat /\ Len(path) >= 1
      /\ Len(order) \in Nat
  BY <1>1, TopGrey, LenProperties DEF ResolutionTyped
<1>4. Left' = Left \cup {Top}
  BY <1>1, <1>3 DEF Left
<1>5. edges[Top] \subseteq Left
  <2>1. EndedOrNext(Len(path))
    BY <1>2, <1>3, OrderedParts
  <2> QED  BY <1>3, <2>1 DEF EndedOrNext
<1>6. ASSUME NEW i \in 1 .. Len(order') PROVE EndedFirst(i)'
  <2>1. CASE i = Len(order) + 1
    <3>1. \A d \in edges[Top] : \E j \in 1 .. Len(order) : order[j] = d
      BY <1>5 DEF Left, Shape
    <3> QED  BY <1>1, <1>2, <1>3, <2>1, <3>1 DEF EndedFirst
  <2>2. CASE i \in 1 .. Len(order)
    <3>1. EndedFirst(i)
      BY <1>2, <2>2, OrderedParts
    <3>2. \A j \in 1 .. i - 1 : order'[j] = order[j]
      BY <1>1, <1>3, <2>2
    <3> QED  BY <1>1, <1>2, <2>2, <3>1, <3>2 DEF EndedFirst
  <2> QED  BY <1>1, <1>3, <2>1, <2>2
<1>7. ASSUME NEW i \in 1 .. Len(path') PROVE EndedOrNext(i)'
  <2>1. i \in 1 .. Len(path) /\ i < Len(path) /\ path'[i] = path[i]
    BY <1>1, <1>3
  <2>2. EndedOrNext(i)
    BY <1>2, <2>1, OrderedParts
  <2>3. i < Len(path') => path'[i + 1] = path[i + 1]
    BY <1>1, <1>3, <2>1
  <2>4. ~(i < Len(path')) => path[i + 1] = Top
    BY <1>1, <1>3, <2>1
  <2> QED  BY <1>2, <1>4, <2>1, <2>2, <2>3, <2>4 DEF EndedOrNext
<1> QED  BY <1>6, <1>7

LEMMA OrderedStep ==
  ASSUME ResolutionTyped, WordsFolded, Unvisited, Shape, Seen, Ordered,
         [ResolverNext]_resolverVars
  PROVE  Ordered'
<1>1. ASSUME UNCHANGED visit, "cycle" \notin problems' => "cycle" \notin problems
      PROVE  Ordered'
  BY <1>1 DEF visit, Ordered, Left
<1>2. CASE UNCHANGED resolverVars \/ Fold \/ ForcePolicy \/ Expanded \/ Check \/ Finish
  BY <1>1, <1>2 DEF resolverVars, Fold, ForcePolicy, Expanded, Check, Finish, Fails
<1>3. ASSUME NEW d \in Capsule, Skip(d) PROVE Ordered'
  <2>1. /\ colour' = colour /\ path' = path /\ order' = order /\ edges' = edges
        /\ "cycle" \notin problems' => "cycle" \notin problems
    BY <1>3 DEF Skip, Fails
  <2>2. Left' = Left
    BY <2>1 DEF Left
  <2> QED  BY <2>1, <2>2 DEF Ordered
<1> QED  BY <1>2, <1>3, OrderedRoot, OrderedLook, OrderedLeave DEF ResolverNext

(* No set of left capabilities has an edge back into it from each of them: *)
(* the last to be left has its edges among those left before, which have   *)
(* none to it.                                                             *)
LEMMA NoCircleStep ==
  ASSUME ResolutionTyped, WordsFolded, Unvisited, Shape, Seen, Ordered, NoCircle,
         [ResolverNext]_resolverVars
  PROVE  NoCircle'
<1>1. ASSUME Left' = Left, \A c \in Left : edges'[c] = edges[c],
             "cycle" \notin problems' => "cycle" \notin problems
      PROVE  NoCircle'
  BY <1>1 DEF NoCircle
<1>2. CASE UNCHANGED resolverVars \/ Fold \/ ForcePolicy \/ Expanded \/ Check \/ Finish
  <2>1. UNCHANGED visit /\ ("cycle" \notin problems' => "cycle" \notin problems)
    BY <1>2 DEF resolverVars, Fold, ForcePolicy, Expanded, Check, Finish, Fails
  <2> QED  BY <1>1, <2>1 DEF visit, Left
<1>3. ASSUME NEW d \in Capsule, Skip(d) PROVE NoCircle'
  <2>1. /\ colour' = colour /\ edges' = edges
        /\ "cycle" \notin problems' => "cycle" \notin problems
    BY <1>3 DEF Skip, Fails
  <2> QED  BY <1>1, <2>1 DEF Left
<1>4. ASSUME NEW c \in Capsule, Root(c) PROVE NoCircle'
  <2>1. edges' = edges /\ Left' = Left
    BY <1>4, RootParts DEF Left
  <2>2. problems' = problems
    BY <1>4 DEF Root
  <2> QED  BY <1>1, <2>1, <2>2
<1>5. ASSUME NEW d \in Capsule, Look(d) PROVE NoCircle'
  <2>1. /\ path # <<>>
        /\ \A e \in Capsule : edges'[e] = IF e = Top THEN edges[e] \cup {d} ELSE edges[e]
        /\ \A e \in Capsule :
              colour'[e] = IF e = d /\ colour[d] = "white" THEN "grey" ELSE colour[e]
    BY <1>5, LookParts
  <2>2. Left' = Left /\ Top \notin Left
    BY <2>1, TopGrey DEF Left
  <2>3. "cycle" \notin problems' => "cycle" \notin problems
    BY <1>5 DEF Look, Fails
  <2>4. \A c \in Left : edges'[c] = edges[c]
    BY <2>1, <2>2 DEF Left
  <2> QED  BY <1>1, <2>2, <2>3, <2>4
<1>6. CASE Leave
  <2> SUFFICES ASSUME "cycle" \notin problems', NEW S \in SUBSET Left', S # {}
               PROVE  \E c \in S : edges'[c] \cap S = {}
    BY DEF NoCircle
  <2>1. /\ path # <<>>
        /\ \A e \in Capsule : colour'[e] = IF e = Top THEN "black" ELSE colour[e]
    BY <1>6, Popping DEF Pops
  <2>2. edges' = edges /\ "cycle" \notin problems
    BY <1>6 DEF Leave
  <2>3. /\ Top \in Capsule /\ Top = path[Len(path)] /\ Len(path) \in Nat /\ Len(path) >= 1
        /\ colour[Top] = "grey"
    BY <2>1, TopGrey
  <2>4. Left' = Left \cup {Top} /\ Top \notin Left
    BY <2>1, <2>3 DEF Left
  <2>5. edges[Top] \subseteq Left
    BY <2>2, <2>3, OrderedParts DEF EndedOrNext
  <2>6. ASSUME NEW c \in Left PROVE edges[c] \subseteq Left
    <3>1. PICK i \in 1 .. Len(order) : order[i] = c
      BY DEF Left, Shape
    <3>2. EndedFirst(i)
      BY <2>2, OrderedParts
    <3>3. \A j \in 1 .. i - 1 : j \in 1 .. Len(order)
      BY LenProperties DEF ResolutionTyped
    <3>4. \A j \in 1 .. Len(order) : order[j] \in Left
      BY ElementOfSeq DEF Left, Shape, ResolutionTyped
    <3> QED  BY <3>1, <3>2, <3>3, <3>4 DEF EndedFirst
  <2>7. CASE S \subseteq {Top}
    BY <2>2, <2>4, <2>5, <2>7
  <2>8. CASE ~(S \subseteq {Top})
    <3>1. PICK c \in S \ {Top} : edges[c] \cap (S \ {Top}) = {}
      <4>1. S \ {Top} \in SUBSET Left /\ S \ {Top} # {}
        BY <2>4, <2>8
      <4> QED  BY <2>2, <4>1 DEF NoCircle
    <3>2. c \in Left
      BY <2>4
    <3>3. Top \notin edges[c]
      BY <2>4, <2>6, <3>2
    <3> QED  BY <2>2, <3>1, <3>3
  <2> QED  BY <2>7, <2>8
<1> QED  BY <1>2, <1>3, <1>4, <1>5, <1>6 DEF ResolverNext

-----------------------------------------------------------------------------
(* What is told.                                                           *)

Whys == {"disabled", "missing"}
TellsTrue ==
    \A why \in Whys : why \in problems => \E c \in Selected, d \in Capsule : Lacks(c, d, why)
TellsAll ==
    \A why \in Whys : \A c \in Visited, d \in Capsule :
        Lacks(c, d, why) => d \in todo[c] \/ why \in problems
UnknownTold ==
    phase # "fold" => ("unknown" \in problems <=> \E c \in Capsule \ Known : Word(c) = "on")
ConflictTold ==
    IF phase = "done"
    THEN "conflict" \in problems <=> \E pair \in catalogue.clash : pair \subseteq active
    ELSE "conflict" \notin problems
CycleTold == "cycle" \in problems => Cyclic

LEMMA ToldParts ==
  Told <=> TellsTrue /\ TellsAll /\ UnknownTold /\ ConflictTold /\ CycleTold
BY DEF Told, TellsTrue, TellsAll, UnknownTold, ConflictTold, CycleTold, Whys

LEMMA ToldPartsPrimed ==
  Told' <=> TellsTrue' /\ TellsAll' /\ UnknownTold' /\ ConflictTold' /\ CycleTold'
BY DEF Told, TellsTrue, TellsAll, UnknownTold, ConflictTold, CycleTold, Whys

LEMMA LacksSame ==
  ASSUME UNCHANGED input
  PROVE  \A c, d, why : Lacks(c, d, why)' <=> Lacks(c, d, why)
<1>1. catalogue' = catalogue /\ Known' = Known /\ \A c : Word(c)' = Word(c)
  BY SameWorld
<1> QED  BY <1>1 DEF Lacks

(* The last of a step that adds no problem and sees nothing of a visit.    *)
LEMMA ToldSame ==
  ASSUME Told, UNCHANGED input, problems' = problems, Visited' = Visited,
         \A c \in Visited : todo'[c] = todo[c],
         phase = "fold" <=> phase' = "fold", phase # "done", phase' # "done"
  PROVE  Told'
<1>1. Selected' = Selected /\ Known' = Known /\ Cyclic' = Cyclic /\ \A c : Word(c)' = Word(c)
  BY SameWorld
<1>2. TellsTrue' /\ TellsAll'
  BY <1>1, LacksSame, ToldParts DEF TellsTrue, TellsAll
<1>3. UnknownTold' /\ ConflictTold' /\ CycleTold'
  BY <1>1, ToldParts DEF UnknownTold, ConflictTold, CycleTold
<1> QED  BY <1>2, <1>3, ToldPartsPrimed

LEMMA ToldForce ==
  ASSUME ResolutionTyped, WordsFolded, Unvisited, Told, ForcePolicy
  PROVE  Told'
<1>1. /\ phase = "fold" /\ phase' = "expand" /\ UNCHANGED input /\ UNCHANGED visit
      /\ IF \E c \in Capsule \ Known : declared'[c] = "on"
         THEN problems' = problems \cup {"unknown"}
         ELSE problems' = problems
  BY DEF ForcePolicy, Fails
<1>2. problems = {} /\ Visited = {}
  BY <1>1 DEF Unvisited
<1>3. Visited' = {}
  BY <1>1, <1>2 DEF visit, Visited
<1>4. \A c \in Capsule : declared'[c] = Word(c)
  <2>1. WordsFolded'
    BY WordsStep DEF ResolverNext
  <2>2. \A c : Word(c)' = Word(c)
    BY <1>1, SameWorld
  <2> QED  BY <1>1, <2>1, <2>2 DEF WordsFolded
<1>5. Known' = Known /\ \A c : Word(c)' = Word(c)
  BY <1>1, SameWorld
<1>6. "unknown" \in problems' <=> \E c \in Capsule \ Known : Word(c) = "on"
  BY <1>1, <1>2, <1>4
<1>7. /\ "cycle" \notin problems' /\ "conflict" \notin problems'
      /\ \A why \in Whys : why \notin problems'
  BY <1>1, <1>2 DEF Whys
<1>8. UnknownTold'
  BY <1>5, <1>6 DEF UnknownTold
<1>9. TellsTrue' /\ TellsAll' /\ ConflictTold' /\ CycleTold'
  BY <1>1, <1>3, <1>7 DEF TellsTrue, TellsAll, ConflictTold, CycleTold
<1> QED  BY <1>8, <1>9, ToldPartsPrimed

LEMMA ToldFinish ==
  ASSUME ResolutionTyped, Told, Finish
  PROVE  Told'
<1>1. /\ phase = "check" /\ phase' = "done" /\ UNCHANGED <<input, visit, gate>>
      /\ IF \E pair \in catalogue.clash : pair \subseteq active
         THEN problems' = problems \cup {"conflict"} ELSE problems' = problems
  BY DEF Finish, Fails
<1>2. /\ Selected' = Selected /\ Known' = Known /\ Cyclic' = Cyclic /\ catalogue' = catalogue
      /\ \A c : Word(c)' = Word(c)
  BY <1>1, SameWorld
<1>3. Visited' = Visited /\ todo' = todo /\ active' = active
  BY <1>1 DEF visit, gate, Visited
<1>4. \A why : why # "conflict" => (why \in problems' <=> why \in problems)
  BY <1>1
<1>5. TellsTrue' /\ TellsAll'
  <2>1. \A why \in Whys : why \in problems' <=> why \in problems
    BY <1>4 DEF Whys
  <2>2. \A c, d, why : Lacks(c, d, why)' <=> Lacks(c, d, why)
    BY <1>1, LacksSame
  <2> QED  BY <1>2, <1>3, <2>1, <2>2, ToldParts DEF TellsTrue, TellsAll
<1>6. UnknownTold' /\ CycleTold'
  BY <1>1, <1>2, <1>4, ToldParts DEF UnknownTold, CycleTold
<1>7. ConflictTold'
  BY <1>1, <1>2, <1>3, ToldParts DEF ConflictTold
<1> QED  BY <1>5, <1>6, <1>7, ToldPartsPrimed

LEMMA ToldRoot ==
  ASSUME ResolutionTyped, WordsFolded, Told, NEW c \in Capsule, Root(c)
  PROVE  Told'
<1>1. /\ colour[c] = "white" /\ UNCHANGED input
      /\ \A e \in Capsule : todo'[e] = IF e = c THEN Asks(c) ELSE todo[e]
      /\ \A e \in Capsule : colour'[e] = IF e = c THEN "grey" ELSE colour[e]
  BY RootParts
<1>2. problems' = problems /\ phase = "expand" /\ phase' = "expand"
  BY DEF Root
<1>3. Visited' = Visited \cup {c} /\ c \notin Visited /\ Visited \subseteq Capsule
  BY <1>1 DEF Visited
<1>4. /\ Selected' = Selected /\ Known' = Known /\ Cyclic' = Cyclic
      /\ \A e : Word(e)' = Word(e)
  BY <1>1, SameWorld
<1>5. \A e, d, why : Lacks(e, d, why)' <=> Lacks(e, d, why)
  BY <1>1, LacksSame
<1>6. \A d, why : Lacks(c, d, why) => d \in todo'[c]
  BY <1>1 DEF Lacks, Asks
<1>7. TellsTrue' /\ TellsAll'
  BY <1>1, <1>2, <1>3, <1>4, <1>5, <1>6, ToldParts DEF TellsTrue, TellsAll
<1>8. UnknownTold' /\ CycleTold' /\ ConflictTold'
  BY <1>2, <1>4, ToldParts DEF UnknownTold, CycleTold, ConflictTold
<1> QED  BY <1>7, <1>8, ToldPartsPrimed

LEMMA ToldSkip ==
  ASSUME ResolutionTyped, WordsFolded, Shape, Seen, Told, NEW d \in Capsule, Skip(d)
  PROVE  Told'
<1>1. /\ path # <<>> /\ d \in todo[Top] /\ ~Usable(d)
      /\ declared[d] = Word(d) /\ UNCHANGED input /\ colour' = colour
      /\ \A e \in Capsule : todo'[e] = IF e = Top THEN todo[e] \ {d} ELSE todo[e]
  BY SkipParts
<1>2. Top \in Capsule /\ Top \in Visited
  BY <1>1, TopGrey
<1>3. Top \in Selected /\ Selected \subseteq Capsule
  BY <1>2, SelectedClosed DEF Seen
<1>4. PICK why \in Whys : why = IF Word(d) = "off" THEN "disabled" ELSE "missing"
  BY DEF Whys
<1>5. /\ phase = "expand" /\ phase' = "expand"
      /\ IF catalogue.needs[Top][d] = "must" THEN problems' = problems \cup {why}
                                             ELSE problems' = problems
  BY <1>1, <1>4 DEF Skip, Fails
<1>6. Visited' = Visited /\ Visited \subseteq Capsule
  BY <1>1 DEF Visited
<1>7. /\ Selected' = Selected /\ Known' = Known /\ Cyclic' = Cyclic
      /\ \A e : Word(e)' = Word(e)
  BY <1>1, SameWorld
<1>8. \A e, f, w : Lacks(e, f, w)' <=> Lacks(e, f, w)
  BY <1>1, LacksSame
<1>9. Lacks(Top, d, why) <=> catalogue.needs[Top][d] = "must"
  BY <1>1, <1>2, <1>4 DEF Lacks, Usable
<1>10. \A w \in Whys : Lacks(Top, d, w) => w = why
  BY <1>4 DEF Lacks, Whys
<1>11. TellsTrue'
  <2> SUFFICES ASSUME NEW w \in Whys, w \in problems'
               PROVE  \E c \in Selected, e \in Capsule : Lacks(c, e, w)
    BY <1>7, <1>8 DEF TellsTrue
  <2>1. CASE w \in problems
    BY <2>1, ToldParts DEF TellsTrue
  <2>2. CASE w \notin problems
    BY <1>3, <1>5, <1>9, <2>2
  <2> QED  BY <2>1, <2>2
<1>12. TellsAll'
  <2> SUFFICES ASSUME NEW w \in Whys, NEW c \in Visited, NEW e \in Capsule, Lacks(c, e, w)
               PROVE  e \in todo'[c] \/ w \in problems'
    BY <1>6, <1>8 DEF TellsAll
  <2>1. e \in todo[c] \/ w \in problems
    BY ToldParts DEF TellsAll
  <2>2. CASE c = Top /\ e = d
    BY <1>5, <1>9, <1>10, <2>2
  <2>3. CASE ~(c = Top /\ e = d)
    BY <1>1, <1>5, <1>6, <2>1, <2>3
  <2> QED  BY <2>2, <2>3
<1>13. \A w : w \notin Whys => (w \in problems' <=> w \in problems)
  BY <1>4, <1>5
<1>14. UnknownTold' /\ CycleTold' /\ ConflictTold'
  <2>1. "unknown" \notin Whys /\ "cycle" \notin Whys /\ "conflict" \notin Whys
    BY DEF Whys
  <2> QED  BY <1>5, <1>7, <1>13, <2>1, ToldParts DEF UnknownTold, CycleTold, ConflictTold
<1> QED  BY <1>11, <1>12, <1>14, ToldPartsPrimed

(* A capability on the path that is met again closes a circle: the path    *)
(* from it on.                                                             *)
LEMMA CircleFound ==
  ASSUME ResolutionTyped, Shape, Seen, NEW d \in Capsule, path # <<>>,
         colour[d] = "grey", d \in Follows(Top)
  PROVE  Cyclic
<1>1. PICK k \in 1 .. Len(path) : path[k] = d
  BY DEF Shape
<1>2. /\ Top \in Capsule /\ Top = path[Len(path)] /\ Len(path) \in Nat /\ Len(path) >= 1
  BY TopGrey
<1>3. \A i \in 1 .. Len(path) : path[i] \in Capsule /\ path[i] \in Visited
  <2>1. \A i \in 1 .. Len(path) : path[i] \in Capsule
    BY ElementOfSeq DEF ResolutionTyped
  <2> QED  BY <2>1 DEF Shape, Visited
<1> DEFINE S == {path[i] : i \in k .. Len(path)}
<1>4. S \subseteq Selected /\ S # {}
  <2>1. Visited \subseteq Selected
    BY DEF Seen
  <2>2. \A i \in k .. Len(path) : i \in 1 .. Len(path)
    BY <1>1, <1>2
  <2>3. d \in S
    BY <1>1, <1>2
  <2> QED  BY <1>3, <2>1, <2>2, <2>3
<1>5. ASSUME NEW i \in k .. Len(path) PROVE Follows(path[i]) \cap S # {}
  <2>1. CASE i = Len(path)
    <3>1. d \in S
      BY <1>1, <1>2
    <3> QED  BY <1>2, <2>1, <3>1
  <2>2. CASE i # Len(path)
    <3>1. i \in 1 .. Len(path) - 1 /\ i \in 1 .. Len(path) /\ i + 1 \in k .. Len(path)
      BY <1>1, <1>2, <2>2
    <3>2. path[i + 1] \in edges[path[i]]
      BY <3>1 DEF Seen
    <3>3. path[i + 1] \in Follows(path[i])
      BY <1>3, <3>1, <3>2 DEF Seen
    <3>4. path[i + 1] \in S
      BY <3>1
    <3> QED  BY <3>3, <3>4
  <2> QED  BY <2>1, <2>2
<1>6. \A c \in S : Follows(c) \cap S # {}
  BY <1>5
<1> HIDE DEF S
<1> QED  BY <1>4, <1>6 DEF Cyclic

LEMMA ToldLook ==
  ASSUME ResolutionTyped, WordsFolded, Unvisited, Shape, Seen, Told,
         NEW d \in Capsule, Look(d)
  PROVE  Told'
<1>1. /\ path # <<>> /\ d \in Follows(Top) /\ UNCHANGED input
      /\ \A e \in Capsule :
            todo'[e] = IF e = d /\ colour[d] = "white" THEN Asks(d)
                       ELSE IF e = Top THEN todo[e] \ {d} ELSE todo[e]
  BY LookParts
<1>2. \A e \in Capsule :
         colour'[e] = IF e = d /\ colour[d] = "white" THEN "grey" ELSE colour[e]
  BY LookParts
<1>3. Top \in Capsule /\ Top \in Visited
  BY <1>1, TopGrey
<1>4. Visited' = Visited \cup {d} /\ Visited \subseteq Capsule
  BY <1>2 DEF Visited
<1>5. /\ Selected' = Selected /\ Known' = Known /\ Cyclic' = Cyclic
      /\ \A e : Word(e)' = Word(e)
  BY <1>1, SameWorld
<1>6. \A e, f, w : Lacks(e, f, w)' <=> Lacks(e, f, w)
  BY <1>1, LacksSame
<1>7. /\ phase = "expand" /\ phase' = "expand"
      /\ problems' = problems \/ (problems' = problems \cup {"cycle"} /\ colour[d] = "grey")
  BY DEF Look, Fails
<1>8. \A w : w # "cycle" => (w \in problems' <=> w \in problems)
  BY <1>7
<1>9. \A w \in Whys : w \in problems' <=> w \in problems
  BY <1>8 DEF Whys
<1>10. \A w \in Whys : ~Lacks(Top, d, w)
  BY <1>1 DEF Follows, Usable, Lacks, Whys
<1>11. TellsTrue'
  BY <1>5, <1>6, <1>9, ToldParts DEF TellsTrue
<1>12. TellsAll'
  <2> SUFFICES ASSUME NEW w \in Whys, NEW c \in Visited \cup {d}, NEW e \in Capsule, Lacks(c, e, w)
               PROVE  e \in todo'[c] \/ w \in problems'
    BY <1>4, <1>6 DEF TellsAll
  <2>1. CASE c = d /\ colour[d] = "white"
    <3>1. e \in Asks(d)
      BY <2>1 DEF Lacks, Asks
    <3> QED  BY <1>1, <2>1, <3>1
  <2>2. CASE ~(c = d /\ colour[d] = "white")
    <3>1. c \in Visited /\ c \in Capsule
      BY <1>4, <2>2 DEF Visited
    <3>2. e \in todo[c] \/ w \in problems
      BY <3>1, ToldParts DEF TellsAll
    <3>3. c = Top => e # d
      BY <1>10
    <3> QED  BY <1>1, <1>9, <2>2, <3>1, <3>2, <3>3
  <2> QED  BY <2>1, <2>2
<1>13. CycleTold'
  BY <1>1, <1>5, <1>7, CircleFound, ToldParts DEF CycleTold
<1>14. UnknownTold' /\ ConflictTold'
  BY <1>5, <1>7, <1>8, ToldParts DEF UnknownTold, ConflictTold
<1> QED  BY <1>11, <1>12, <1>13, <1>14, ToldPartsPrimed

LEMMA ToldStep ==
  ASSUME ResolutionTyped, WordsFolded, Unvisited, Shape, Seen, Told,
         [ResolverNext]_resolverVars
  PROVE  Told'
<1>1. CASE UNCHANGED resolverVars
  BY <1>1, SameWorld, LacksSame DEF resolverVars, visit, gate, Told, Visited
<1>2. CASE Fold
  BY <1>2, ToldSame DEF Fold, visit, Visited
<1>3. CASE Expanded \/ Check
  BY <1>3, ToldSame DEF Expanded, Check, visit, Visited
<1>4. CASE Leave
  <2>1. /\ path # <<>>
        /\ \A e \in Capsule : colour'[e] = IF e = Top THEN "black" ELSE colour[e]
    BY <1>4, Popping DEF Pops
  <2>2. Visited' = Visited
    BY <2>1, TopGrey DEF Visited
  <2> QED  BY <1>4, <2>2, ToldSame DEF Leave
<1> QED  BY <1>1, <1>2, <1>3, <1>4, ToldForce, ToldFinish, ToldRoot, ToldSkip, ToldLook
         DEF ResolverNext

-----------------------------------------------------------------------------
(* The gate.                                                               *)

(* Before the gate opens, it has let nothing through.                      *)
LEMMA GateShut ==
  ASSUME ResolutionTyped, Gated, phase \in {"fold", "expand"}
  PROVE  checked = 0 /\ active = {} /\ unavailable = {}
<1>1. checked = 0
  BY DEF Gated
<1>2. \A c \in Capsule : c \notin active \cup unavailable
  BY <1>1 DEF Gated
<1> QED  BY <1>1, <1>2 DEF ResolutionTyped

LEMMA GatedShut ==
  ASSUME checked' = 0, active' = {}, unavailable' = {}, phase' \in {"fold", "expand", "check"}
  PROVE  Gated'
BY DEF Gated

LEMMA GatedCheck ==
  ASSUME ResolutionTyped, Shape, Seen, Ordered, Gated, Check
  PROVE  Gated'
<1>1. /\ phase = "check" /\ phase' = "check" /\ checked' = checked + 1
      /\ UNCHANGED input /\ order' = order /\ edges' = edges /\ problems' = problems
      /\ checked \in Nat /\ checked + 1 \in 1 .. Len(order)
  BY LenProperties DEF Check, visit, ResolutionTyped
<1>2. PICK c \in Capsule : c = order[checked + 1]
  BY <1>1, ElementOfSeq DEF ResolutionTyped
<1>3. IF Withheld(c) THEN unavailable' = unavailable \cup {c} /\ active' = active
                     ELSE active' = active \cup {c} /\ unavailable' = unavailable
  BY <1>2 DEF Check
<1>4. catalogue' = catalogue /\ \A S : Closed(S)' <=> Closed(S)
  BY <1>1, SameWorld
<1>5. c \notin active \cup unavailable
  <2>1. \A i \in 1 .. checked : order[i] # c
    BY <1>1, <1>2 DEF Shape
  <2> QED  BY <2>1 DEF Gated
<1>6. c \in Visited
  BY <1>1, <1>2 DEF Shape, Visited
<1>7. active' \cap unavailable' = {} /\ active' \cap catalogue'.refused = {}
  BY <1>3, <1>4, <1>5 DEF Gated, Withheld
<1>8. \A e \in Capsule : e \in active' \cup unavailable' <=> \E i \in 1 .. checked' : order'[i] = e
  <2>1. active' \cup unavailable' = active \cup unavailable \cup {c}
    BY <1>3
  <2>2. \A e \in Capsule : e \in active \cup unavailable <=> \E i \in 1 .. checked : order[i] = e
    BY DEF Gated
  <2> QED  BY <1>1, <1>2, <2>1, <2>2
<1>9. "cycle" \notin problems' => \A e \in active' : edges'[e] \subseteq active'
  <2> SUFFICES ASSUME "cycle" \notin problems, NEW e \in active' PROVE edges[e] \subseteq active'
    BY <1>1
  <2>1. CASE e \in active
    BY <1>3, <2>1 DEF Gated
  <2>2. CASE e \notin active
    <3>1. e = c /\ ~Withheld(c) /\ active' = active \cup {c}
      BY <1>3, <2>2
    <3>2. ASSUME NEW d \in edges[c] PROVE d \in active
      <4>1. PICK j \in 1 .. checked : order[j] = d
        <5>1. EndedFirst(checked + 1) /\ (checked + 1) - 1 = checked
          BY <1>1, OrderedParts
        <5> QED  BY <1>2, <3>2, <5>1 DEF EndedFirst
      <4>2. d \in Capsule
        BY <1>6 DEF Seen, Visited
      <4>3. d \in active \cup unavailable
        BY <4>1, <4>2 DEF Gated
      <4> QED  BY <3>1, <4>3 DEF Withheld
    <3> QED  BY <3>1, <3>2
  <2> QED  BY <2>1, <2>2
<1>10. ASSUME NEW S \in SUBSET Capsule, Closed(S), S \cap catalogue.refused = {}
       PROVE  S \cap unavailable' = {}
  <2>1. S \cap unavailable = {}
    BY <1>10 DEF Gated
  <2>2. CASE ~Withheld(c)
    BY <1>3, <2>1, <2>2
  <2>3. CASE Withheld(c)
    <3>1. c \in S => edges[c] \subseteq S
      BY <1>6, <1>10 DEF Closed, Seen
    <3>2. c \notin S
      BY <1>10, <2>1, <2>3, <3>1 DEF Withheld
    <3> QED  BY <1>3, <2>1, <2>3, <3>2
  <2> QED  BY <2>2, <2>3
<1> QED  BY <1>1, <1>4, <1>7, <1>8, <1>9, <1>10 DEF Gated

LEMMA GatedStep ==
  ASSUME ResolutionTyped, Shape, Seen, Ordered, Gated, [ResolverNext]_resolverVars
  PROVE  Gated'
<1>1. CASE UNCHANGED resolverVars
  BY <1>1, SameWorld DEF resolverVars, visit, gate, Gated
<1>2. CASE Finish
  <2>1. /\ phase' = "done" /\ checked = Len(order)
        /\ UNCHANGED <<input, visit, gate>> /\ ("cycle" \notin problems' => "cycle" \notin problems)
    BY <1>2 DEF Finish, Fails
  <2>2. catalogue' = catalogue /\ \A S : Closed(S)' <=> Closed(S)
    BY <2>1, SameWorld
  <2> QED  BY <2>1, <2>2 DEF visit, gate, Gated
<1>3. CASE Fold \/ ForcePolicy \/ Leave \/ Expanded \/ \E c \in Capsule : Root(c) \/ Skip(c) \/ Look(c)
  <2>1. /\ phase \in {"fold", "expand"} /\ phase' \in {"fold", "expand", "check"}
        /\ UNCHANGED gate
    BY <1>3 DEF Fold, ForcePolicy, Leave, Expanded, Root, Skip, Look
  <2> QED  BY <2>1, GateShut, GatedShut DEF gate
<1> QED  BY <1>1, <1>2, <1>3, GatedCheck DEF ResolverNext

-----------------------------------------------------------------------------
(* The invariant.                                                          *)

ResolutionInv ==
    /\ ResolutionTyped /\ WordsFolded /\ Unvisited /\ Searched
    /\ Shape /\ Seen /\ Ordered /\ NoCircle /\ Told /\ Gated

LEMMA ResolutionInit == ResolverInit => ResolutionInv
<1> SUFFICES ASSUME ResolverInit PROVE ResolutionInv
  OBVIOUS
<1>1. /\ phase = "fold" /\ path = <<>> /\ order = <<>> /\ checked = 0 /\ active = {}
      /\ unavailable = {} /\ problems = {}
      /\ \A c \in Capsule : colour[c] = "white" /\ todo[c] = {} /\ edges[c] = {}
  BY DEF ResolverInit
<1>2. Visited = {} /\ Left = {} /\ Len(path) = 0 /\ Len(order) = 0
  BY <1>1, EmptySeq DEF Visited, Left
<1>3. Unvisited /\ Searched
  BY <1>1, <1>2 DEF Unvisited, Searched
<1>4. Shape
  BY <1>1, <1>2 DEF Shape
<1>5. Seen
  BY <1>1, <1>2 DEF Seen
<1>6. Ordered /\ NoCircle
  BY <1>2 DEF Ordered, NoCircle
<1>7. Told
  BY <1>1, <1>2 DEF Told
<1>8. Gated
  BY <1>1 DEF Gated
<1> QED  BY <1>3, <1>4, <1>5, <1>6, <1>7, <1>8, ResolutionTypedInit, WordsInit DEF ResolutionInv

LEMMA ResolutionStep == ResolutionInv /\ [ResolverNext]_resolverVars => ResolutionInv'
BY ResolutionTypedStep, WordsStep, BordersStep, ShapeStep, SeenStep, OrderedStep,
   NoCircleStep, ToldStep, GatedStep DEF ResolutionInv

(* Types and the nine parts of the invariant hold throughout a resolution. *)
THEOREM Resolves == ResolverSpec => []ResolutionInv
BY ResolutionInit, ResolutionStep, PTL DEF ResolverSpec

(* The gate looks a dependency up, so it must have come by before, unless  *)
(* a cycle was reported: it always has, whatever the order of visiting.    *)
THEOREM DependenciesFirstHolds == ResolverSpec => []DependenciesFirst
<1>1. ResolutionInv => DependenciesFirst
  <2> SUFFICES ASSUME ResolutionInv PROVE DependenciesFirst
    OBVIOUS
  <2>1. DOMAIN order = 1 .. Len(order)
    BY LenProperties DEF ResolutionInv, ResolutionTyped
  <2> QED  BY <2>1 DEF ResolutionInv, Ordered, DependenciesFirst
<1> QED  BY <1>1, Resolves, PTL

-----------------------------------------------------------------------------
(* The end. *)

(* What was visited and left is what is selected.                          *)
LEMMA AllSelected ==
  ASSUME ResolutionInv, phase = "done"
  PROVE  /\ Visited = Selected /\ Left = Selected
         /\ \A c \in Selected : edges[c] = Follows(c) /\ todo[c] = {}
<1>1. path = <<>> /\ Wanted \subseteq Visited /\ Len(path) = 0
  BY EmptySeq DEF ResolutionInv, Searched
<1>2. Visited = Left /\ Visited \subseteq Capsule
  <2>1. \A c \in Capsule : colour[c] # "grey"
    BY <1>1 DEF ResolutionInv, Shape
  <2>2. \A c \in Capsule : colour[c] \in {"white", "grey", "black"}
    BY DEF ResolutionInv, ResolutionTyped
  <2> QED  BY <2>1, <2>2 DEF Visited, Left
<1>3. \A c \in Visited : edges[c] = Follows(c) /\ todo[c] = {} /\ Follows(c) \subseteq Visited
  <2> SUFFICES ASSUME NEW c \in Visited
               PROVE  edges[c] = Follows(c) /\ todo[c] = {} /\ Follows(c) \subseteq Visited
    OBVIOUS
  <2>1. todo[c] = {}
    BY <1>2 DEF ResolutionInv, Seen
  <2>2. edges[c] \subseteq Follows(c) \cap Visited /\ Follows(c) \subseteq edges[c] \cup todo[c]
    BY DEF ResolutionInv, Seen
  <2> QED  BY <2>1, <2>2
<1>4. Selected \subseteq Visited
  BY <1>1, <1>2, <1>3, SelectedLeast DEF Closed
<1>5. Visited \subseteq Selected
  BY DEF ResolutionInv, Seen
<1> QED  BY <1>2, <1>3, <1>4, <1>5

LEMMA CycleExact ==
  ASSUME ResolutionInv, phase = "done"
  PROVE  "cycle" \in problems <=> Cyclic
<1>1. "cycle" \in problems => Cyclic
  BY DEF ResolutionInv, Told
<1>2. ASSUME Cyclic, "cycle" \notin problems PROVE FALSE
  <2>1. PICK S \in SUBSET Selected : S # {} /\ \A c \in S : Follows(c) \cap S # {}
    BY <1>2 DEF Cyclic
  <2>2. Left = Selected /\ \A c \in S : edges[c] = Follows(c)
    BY AllSelected
  <2>3. PICK c \in S : edges[c] \cap S = {}
    BY <1>2, <2>1, <2>2 DEF ResolutionInv, NoCircle
  <2> QED  BY <2>1, <2>2, <2>3
<1> QED  BY <1>1, <1>2

LEMMA LacksExact ==
  ASSUME ResolutionInv, phase = "done", NEW why \in {"disabled", "missing"}
  PROVE  why \in problems <=> \E c \in Selected, d \in Capsule : Lacks(c, d, why)
<1>1. why \in problems => \E c \in Selected, d \in Capsule : Lacks(c, d, why)
  BY DEF ResolutionInv, Told
<1>2. ASSUME NEW c \in Selected, NEW d \in Capsule, Lacks(c, d, why) PROVE why \in problems
  <2>1. c \in Visited /\ todo[c] = {}
    BY AllSelected
  <2> QED  BY <1>2, <2>1 DEF ResolutionInv, Told
<1> QED  BY <1>1, <1>2

LEMMA ActiveExact ==
  ASSUME ResolutionInv, phase = "done", "cycle" \notin problems
  PROVE  active = Effective
<1>1. /\ Left = Selected /\ Selected \subseteq Capsule
      /\ \A c \in Selected : edges[c] = Follows(c)
  BY AllSelected, SelectedClosed
<1>2. active \cup unavailable = Selected
  <2>1. checked = Len(order) /\ active \subseteq Capsule /\ unavailable \subseteq Capsule
    BY DEF ResolutionInv, ResolutionTyped, Gated
  <2>2. \A c \in Capsule : c \in active \cup unavailable <=> c \in Left
    BY <2>1 DEF ResolutionInv, Gated, Shape, Left
  <2> QED  BY <1>1, <2>1, <2>2
<1>3. active \in SUBSET (Selected \ catalogue.refused) /\ Closed(active)
  <2>1. active \cap catalogue.refused = {} /\ \A c \in active : edges[c] \subseteq active
    BY DEF ResolutionInv, Gated
  <2> QED  BY <1>1, <1>2, <2>1 DEF Closed
<1>4. ASSUME NEW S \in SUBSET (Selected \ catalogue.refused), Closed(S) PROVE S \subseteq active
  <2>1. S \in SUBSET Capsule /\ S \cap catalogue.refused = {}
    BY <1>1
  <2>2. S \cap unavailable = {}
    BY <1>4, <2>1 DEF ResolutionInv, Gated
  <2> QED  BY <1>2, <2>2
<1> QED  BY <1>3, <1>4 DEF Effective

LEMMA LacksWords ==
  ASSUME ResolutionTyped
  PROVE  /\ (\E c \in Selected, d \in Capsule : Lacks(c, d, "disabled"))
              <=> \E c \in Selected, d \in Capsule :
                     catalogue.needs[c][d] = "must" /\ Word(d) = "off"
         /\ (\E c \in Selected, d \in Capsule : Lacks(c, d, "missing"))
              <=> \E c \in Selected, d \in Capsule \ Known :
                     catalogue.needs[c][d] = "must" /\ Word(d) # "off"
BY SelectedClosed DEF Lacks

(* A resolution fails for the reasons the definition gives and no other;   *)
(* one that does not has the view of the definition.                       *)
THEOREM ResolvesAsDefinedHolds == ResolverSpec => []ResolvesAsDefined
<1>1. ResolutionInv => ResolvesAsDefined
  <2> SUFFICES ASSUME ResolutionInv, phase = "done"
               PROVE  /\ problems \ {"conflict"} = Refusals \ {"conflict"}
                      /\ problems \subseteq {"conflict"} => active = Effective /\ problems = Refusals
    BY DEF ResolvesAsDefined
  <2>1. problems \subseteq {"unknown", "disabled", "missing", "cycle", "conflict"}
    BY DEF ResolutionInv, ResolutionTyped
  <2>2. Refusals \subseteq {"unknown", "disabled", "missing", "cycle", "conflict"}
    BY DEF Refusals
  <2>3. "unknown" \in problems <=> "unknown" \in Refusals
    BY DEF ResolutionInv, Told, Refusals
  <2>4. "disabled" \in problems <=> "disabled" \in Refusals
    BY LacksExact, LacksWords DEF ResolutionInv, Refusals
  <2>5. "missing" \in problems <=> "missing" \in Refusals
    BY LacksExact, LacksWords DEF ResolutionInv, Refusals
  <2>6. "cycle" \in problems <=> "cycle" \in Refusals
    BY CycleExact DEF Refusals
  <2>7. problems \ {"conflict"} = Refusals \ {"conflict"}
    BY <2>1, <2>2, <2>3, <2>4, <2>5, <2>6
  <2>8. ASSUME problems \subseteq {"conflict"}
        PROVE  active = Effective /\ problems = Refusals
    <3>1. active = Effective
      BY <2>8, ActiveExact
    <3>2. "conflict" \in problems <=> "conflict" \in Refusals
      BY <3>1 DEF ResolutionInv, Told, Refusals
    <3> QED  BY <2>7, <3>1, <3>2
  <2> QED  BY <2>7, <2>8
<1> QED  BY <1>1, Resolves, PTL
=============================================================================
