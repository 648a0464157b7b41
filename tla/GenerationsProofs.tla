-------------------------- MODULE GenerationsProofs --------------------------
(***************************************************************************)
(* Proofs about Generations, for any processes, any generations and any    *)
(* number of faults.                                                       *)
(***************************************************************************)
EXTENDS Generations, TLAPS

Moving == {"link", "switch", "swapLink", "swapSwitch"}

(* The lock is held by exactly the process that is inside its locked part. *)
Mutex == \A p \in Procs : pc[p] \in Inside <=> lock = p

(* A process about to move the links still goes by the current view; while *)
(* no rollback has followed metadata, what it moves to exists and differs. *)
Holding ==
    \A p \in Procs : pc[p] \in Moving =>
        /\ base[p] = current
        /\ ~healed => Present(target[p]) /\ target[p] # base[p]

(* A collection has only unlinked directories left to delete.              *)
Spare ==
    \A p \in Procs : pc[p] = "collect" =>
        /\ current \notin doomed /\ previous \notin doomed
        /\ \A g \in doomed : Present(g)

SwitchUnderWay == \E p \in Procs : AtSwitch(p)

(* `previous` is the undo, but for the time a switch is under way and for  *)
(* the aliasing that a switch cut short leaves.                            *)
UndoChain ==
    /\ current = None => was = None /\ previous = None /\ ~cut
    /\ cut => previous = current
    /\ ~cut /\ ~SwitchUnderWay => previous = was
    /\ SwitchUnderWay /\ current # None => previous = current
    /\ ~healed /\ current # None => was # current

Rest == Mutex /\ Holding /\ LinksResolve /\ Spare /\ UndoChain

IInv == TypeOK /\ Rest

-----------------------------------------------------------------------------
LEMMA TypeInit == Init => TypeOK
<1> SUFFICES ASSUME Init PROVE TypeOK
  OBVIOUS
<1>1. 0 \in 0..MaxFaults
  BY MaxFaultsAssumption
<1> QED
  BY <1>1 DEF Init, TypeOK, GenOrNone, MetaValue, Outside, Inside

(* Every step keeps every variable in its type.                            *)
LEMMA TypeStep == TypeOK /\ [Next]_vars => TypeOK'
<1> SUFFICES ASSUME TypeOK, [Next]_vars PROVE TypeOK'
  OBVIOUS
<1> USE NoneAssumption, FreeAssumption, MaxFaultsAssumption
<1> USE DEF TypeOK, GenOrNone, MetaValue, Outside, Inside, NoMeta, Goto, Done,
            procVars, links
<1>1. ASSUME NEW p \in Procs, Begin(p) PROVE TypeOK'
  <2>1. ASSUME NEW g \in Gens, ReadBase(p, g) PROVE TypeOK'
    BY <2>1 DEF ReadBase
  <2>2. CASE Rollback(p)
    BY <2>2 DEF Rollback
  <2>3. CASE Collect(p)
    BY <2>3 DEF Collect, Present
  <2> QED  BY <1>1, <2>1, <2>2, <2>3 DEF Begin
<1>2. ASSUME NEW p \in Procs, Advance(p) PROVE TypeOK'
  <2>1. CASE Reuse(p)
    BY <2>1 DEF Reuse
  <2>2. CASE BuildStart(p)
    BY <2>2 DEF BuildStart
  <2>3. CASE BuildFinish(p)
    BY <2>3 DEF BuildFinish
  <2>4. CASE BuildFail(p)
    BY <2>4 DEF BuildFail
  <2>5. CASE CommitLock(p)
    BY <2>5 DEF CommitLock
  <2>6. CASE LockBusy(p)
    BY <2>6 DEF LockBusy
  <2>7. CASE Refuse(p)
    BY <2>7 DEF Refuse
  <2>8. CASE Publish(p)
    BY <2>8 DEF Publish, Accepted
  <2>9. CASE Repair(p)
    BY <2>9 DEF Repair, Accepted, KeptMeta
  <2>10. CASE Link(p)
    BY <2>10 DEF Link
  <2>11. CASE Switch(p)
    BY <2>11 DEF Switch
  <2>12. CASE Sweep(p)
    BY <2>12 DEF Sweep, Spoil
  <2>13. ASSUME NEW g \in Gens, Delete(p, g) PROVE TypeOK'
    BY <2>13 DEF Delete
  <2> QED  BY <1>2, <2>1, <2>2, <2>3, <2>4, <2>5, <2>6, <2>7, <2>8, <2>9,
              <2>10, <2>11, <2>12, <2>13 DEF Advance
<1>3. ASSUME NEW p \in Procs, Disturb(p) PROVE TypeOK'
  <2>1. CASE Stop(p)
    BY <2>1 DEF Stop, Fault
  <2>2. CASE StopCollect(p)
    BY <2>2 DEF StopCollect, Fault, Spoil
  <2>3. CASE SourceMove(p)
    BY <2>3 DEF SourceMove, Fault
  <2>4. CASE StopRepair(p)
    BY <2>4 DEF StopRepair, Accepted, KeptMeta, Fault
  <2> QED  BY <1>3, <2>1, <2>2, <2>3, <2>4 DEF Disturb
<1>4. ASSUME NEW g \in Gens, Damage(g) PROVE TypeOK'
  BY <1>4 DEF Damage, Fault
<1>5. CASE UNCHANGED vars
  BY <1>5 DEF vars
<1> QED  BY <1>1, <1>2, <1>3, <1>4, <1>5 DEF Next

(* Type correctness.                                                       *)
THEOREM Typing == Spec => []TypeOK
  BY TypeInit, TypeStep, PTL DEF Spec

-----------------------------------------------------------------------------
LEMMA RestInit == Init => Rest
  BY NoneAssumption, FreeAssumption, SMTT(30)
  DEF Init, Rest, Mutex, Holding, LinksResolve, Spare, UndoChain, Moving,
      SwitchUnderWay, AtSwitch, Inside

(* Every step keeps the invariant, given that it keeps the types.          *)
LEMMA RestStep == IInv /\ TypeOK' /\ [Next]_vars => Rest'
<1> SUFFICES ASSUME IInv, TypeOK', [Next]_vars PROVE Rest'
  OBVIOUS
<1> USE NoneAssumption, FreeAssumption
<1> USE DEF IInv, Rest, TypeOK, Mutex, Holding, LinksResolve, Spare, UndoChain,
     SwitchUnderWay, AtSwitch, Moving, Present, GenOrNone, Outside, Inside,
     Goto, Done, procVars, links
<1>1. ASSUME NEW p \in Procs, Begin(p) PROVE Rest'
  <2>1. ASSUME NEW g \in Gens, ReadBase(p, g) PROVE Rest'
    BY <2>1 DEF ReadBase
  <2>2. CASE Rollback(p)
    BY <2>2 DEF Rollback, RollbackTarget, NoMeta, MetaValue
  <2>3. CASE Collect(p)
    BY <2>3 DEF Collect
  <2> QED  BY <1>1, <2>1, <2>2, <2>3 DEF Begin
<1>2. ASSUME NEW p \in Procs, Advance(p) PROVE Rest'
  <2>1. CASE Reuse(p)
    BY <2>1 DEF Reuse
  <2>2. CASE BuildStart(p)
    BY <2>2 DEF BuildStart
  <2>3. CASE BuildFinish(p)
    BY <2>3 DEF BuildFinish
  <2>4. CASE BuildFail(p)
    BY <2>4 DEF BuildFail
  <2>5. CASE CommitLock(p)
    BY <2>5 DEF CommitLock
  <2>6. CASE LockBusy(p)
    BY <2>6 DEF LockBusy
  <2>7. CASE Refuse(p)
    BY <2>7 DEF Refuse
  <2>8. CASE Publish(p)
    BY <2>8 DEF Publish, Accepted
  <2>9. CASE Repair(p)
    BY <2>9 DEF Repair, Accepted
  <2>10. CASE Link(p)
    BY <2>10 DEF Link
  <2>11. CASE Switch(p)
    <3>1. Mutex'
      BY <2>11 DEF Switch
    <3>2. Holding'
      BY <2>11 DEF Switch
    <3>3. LinksResolve'
      BY <2>11 DEF Switch
    <3>4. Spare'
      BY <2>11 DEF Switch
    <3>5. UndoChain'
      BY <2>11 DEF Switch
    <3> QED  BY <3>1, <3>2, <3>3, <3>4, <3>5
  <2>12. CASE Sweep(p)
    BY <2>12 DEF Sweep, Spoil
  <2>13. ASSUME NEW g \in Gens, Delete(p, g) PROVE Rest'
    BY <2>13 DEF Delete
  <2> QED  BY <1>2, <2>1, <2>2, <2>3, <2>4, <2>5, <2>6, <2>7, <2>8, <2>9,
              <2>10, <2>11, <2>12, <2>13 DEF Advance
<1>3. ASSUME NEW p \in Procs, Disturb(p) PROVE Rest'
  <2>1. CASE Stop(p)
    <3>1. Mutex' /\ Holding' /\ LinksResolve' /\ Spare'
      BY <2>1 DEF Stop
    <3>2. UndoChain'
      <4>1. AtSwitch(p) => ~SwitchUnderWay'
        BY <2>1 DEF Stop
      <4>2. ~AtSwitch(p) => (SwitchUnderWay' <=> SwitchUnderWay)
        BY <2>1 DEF Stop
      <4>3. CASE AtSwitch(p)
        BY <2>1, <4>1, <4>3 DEF Stop
      <4>4. CASE ~AtSwitch(p)
        BY <2>1, <4>2, <4>4 DEF Stop
      <4> QED  BY <4>3, <4>4
    <3> QED  BY <3>1, <3>2
  <2>2. CASE StopCollect(p)
    BY <2>2 DEF StopCollect, Fault, Spoil
  <2>3. CASE SourceMove(p)
    BY <2>3 DEF SourceMove, Fault
  <2>4. CASE StopRepair(p)
    BY <2>4 DEF StopRepair, Accepted
  <2> QED  BY <1>3, <2>1, <2>2, <2>3, <2>4 DEF Disturb
<1>4. ASSUME NEW g \in Gens, Damage(g) PROVE Rest'
  BY <1>4 DEF Damage, Fault
<1>5. CASE UNCHANGED vars
  BY <1>5 DEF vars
<1> QED  BY <1>1, <1>2, <1>3, <1>4, <1>5 DEF Next

LEMMA Invariance == Spec => []IInv
<1>1. Init => IInv
  BY TypeInit, RestInit DEF IInv
<1>2. IInv /\ [Next]_vars => IInv'
  BY TypeStep, RestStep DEF IInv
<1> QED  BY <1>1, <1>2, PTL DEF Spec

-----------------------------------------------------------------------------
(* Neither link dangles, whatever the interleaving and wherever processes  *)
(* stop, as long as no rollback had to go by the metadata.                 *)
THEOREM LinksAlwaysResolve == Spec => []LinksResolve
<1>1. IInv => LinksResolve
  BY DEF IInv, Rest
<1> QED  BY <1>1, Invariance, PTL

(* Between operations the undo is what was in force before, and differs    *)
(* from what is, unless a switch was cut short.                            *)
THEOREM UndoAlwaysKept == Spec => []UndoIsKept
<1>1. IInv => UndoIsKept
  <2> SUFFICES ASSUME IInv, lock = Free PROVE ~SwitchUnderWay
    BY DEF IInv, Rest, UndoIsKept, UndoChain
  <2> QED
    BY FreeAssumption
    DEF IInv, Rest, Mutex, SwitchUnderWay, AtSwitch, Inside
<1> QED  BY <1>1, Invariance, PTL

(* Compare-and-swap: a change of the view replaces only what the process   *)
(* changing it went by.                                                    *)
THEOREM NothingDiscarded == Spec => NoDiscard
<1> DEFINE Kept(p) == pc[p] # "idle" /\ pc'[p] = "idle" /\ current' # current
                        => current = base[p]
<1>1. IInv /\ [Next]_vars => [\A p \in Procs : Kept(p)]_vars
  <2> SUFFICES ASSUME IInv, Next, NEW p \in Procs,
                      pc[p] # "idle", pc'[p] = "idle", current' # current
               PROVE  current = base[p]
    OBVIOUS
  <2>1. PICK q \in Procs : Switch(q)
    BY DEF Next, Begin, Advance, Disturb, ReadBase, Rollback, Collect, Reuse,
       BuildStart, BuildFinish, BuildFail, CommitLock, LockBusy, Refuse,
       Publish, Repair, Link, Sweep, Delete, Stop, StopRepair, StopCollect,
       SourceMove, Damage, links
  <2>2. q = p
    BY <2>1 DEF Switch, Done, IInv, TypeOK
  <2> QED
    BY <2>1, <2>2 DEF Switch, IInv, Rest, Holding, Moving
<1> QED  BY <1>1, Invariance, PTL DEF Spec, NoDiscard

(* A directory under generations/ appears whole or not at all.             *)
THEOREM AlwaysPublishedWhole == Spec => PublishedWhole
<1> DEFINE Appears(g) == dir[g] = "absent" => dir'[g] \in {"absent", "whole"}
<1>1. IInv /\ [Next]_vars => [\A g \in Gens : Appears(g)]_vars
  <2> SUFFICES ASSUME IInv, Next PROVE \A g \in Gens : Appears(g)
    OBVIOUS
  <2> USE DEF IInv, TypeOK, Rest, Spare, Present
  <2>1. ASSUME NEW p \in Procs, Begin(p) PROVE \A g \in Gens : Appears(g)
    BY <2>1 DEF Begin, ReadBase, Rollback, Collect
  <2>2. ASSUME NEW p \in Procs, Advance(p) PROVE \A g \in Gens : Appears(g)
    BY <2>2 DEF Advance, Reuse, BuildStart, BuildFinish, BuildFail, CommitLock,
       LockBusy, Refuse, Publish, Accepted, Repair, Link, Switch, Sweep, Delete
  <2>3. ASSUME NEW p \in Procs, Disturb(p) PROVE \A g \in Gens : Appears(g)
    BY <2>3 DEF Disturb, Stop, StopRepair, StopCollect, SourceMove
  <2>4. ASSUME NEW g \in Gens, Damage(g) PROVE \A h \in Gens : Appears(h)
    BY <2>4 DEF Damage
  <2> QED  BY <2>1, <2>2, <2>3, <2>4 DEF Next
<1> QED  BY <1>1, Invariance, PTL DEF Spec, PublishedWhole

-----------------------------------------------------------------------------
(* Towards the register: how a step that ends an operation looks from it,  *)
(* and which steps leave the undo alone.                                   *)
LEMMA ClosesOpen ==
  ASSUME TypeOK, NEW p \in Procs, Done(p)
  PROVE  AbstractOpen' = [AbstractOpen EXCEPT ![p] = Register!Closed]
  BY DEF TypeOK, Done, AbstractOpen, Register!Closed

LEMMA UndoStays ==
  ASSUME UNCHANGED <<current, previous, was, cut>>,
         SwitchUnderWay' <=> SwitchUnderWay
  PROVE  AbstractUndo' = AbstractUndo
  BY DEF AbstractUndo, SwitchUnderWay

(* A rollback goes to the undo, unless the undo is what is in force.       *)
Returning ==
    \A p \in Procs : pc[p] \in {"swapLink", "swapSwitch"} =>
        current # None /\ AbstractUndo \in {current, target[p]}

LEMMA ReturningStep == IInv /\ IInv' /\ Returning /\ [Next]_vars => Returning'
<1> SUFFICES ASSUME IInv, IInv', Returning, [Next]_vars,
                    NEW q \in Procs, pc'[q] \in {"swapLink", "swapSwitch"}
             PROVE  /\ current' # None
                    /\ AbstractUndo' \in {current', target'[q]}
  BY DEF Returning
<1> USE FreeAssumption
<1> USE DEF IInv, Rest, TypeOK, Mutex, UndoChain, Outside, Inside, AtSwitch,
     SwitchUnderWay, Goto, Done, procVars, links
<1>1. CASE Rollback(q)
  <2>1. ~SwitchUnderWay /\ ~SwitchUnderWay'
    BY <1>1 DEF Rollback
  <2>2. AbstractUndo' = previous
    BY <1>1, <2>1 DEF Rollback, AbstractUndo
  <2> QED  BY <1>1, <2>2 DEF Rollback, RollbackTarget
<1>2. CASE Link(q)
  <2>1. pc[q] = "swapLink" /\ current # None /\ current' = current
    BY <1>2 DEF Link, Returning
  <2>2. ~SwitchUnderWay /\ SwitchUnderWay'
    BY <1>2, <2>1 DEF Link
  <2>3. AbstractUndo' = AbstractUndo
    <3>1. AbstractUndo = previous
      BY <2>2 DEF AbstractUndo
    <3>2. AbstractUndo' = IF cut THEN current ELSE was
      BY <1>2, <2>2 DEF Link, AbstractUndo
    <3> QED  BY <3>1, <3>2, <2>2
  <2> QED  BY <1>2, <2>1, <2>3 DEF Link, Returning
<1>3. CASE ~Rollback(q) /\ ~Link(q)
  <2> DEFINE Same == /\ pc'[q] = pc[q] /\ target'[q] = target[q]
                     /\ UNCHANGED <<current, previous, was, cut>>
                     /\ \A p \in Procs : AtSwitch(p)' <=> AtSwitch(p)
  <2>1. Same
    <3>1. CASE UNCHANGED vars
      BY <3>1 DEF vars
    <3>2. ASSUME NEW p \in Procs, Begin(p) \/ Advance(p) \/ Disturb(p)
          PROVE  Same
      BY <1>3, <3>2 DEF Begin, ReadBase, Rollback, Collect, Advance, Reuse,
         BuildStart, BuildFinish, BuildFail, CommitLock, LockBusy, Refuse,
         Publish, Accepted, Repair, Link, Switch, Sweep, Delete, Disturb, Stop,
         StopRepair, StopCollect, SourceMove
    <3>3. ASSUME NEW g \in Gens, Damage(g) PROVE Same
      BY <3>3 DEF Damage
    <3> HIDE DEF Same
    <3> QED  BY <3>1, <3>2, <3>3 DEF Next
  <2>2. AbstractUndo' = AbstractUndo
    BY <2>1, UndoStays
  <2> QED  BY <2>1, <2>2 DEF Returning
<1> QED  BY <1>1, <1>2, <1>3

-----------------------------------------------------------------------------
LEMMA RegisterInit == Init => Register!Init
  BY DEF Init, Register!Init, AbstractUndo, AbstractOpen, AtSwitch,
     Register!Closed

(* A step that ends an operation without moving a link.                    *)
LEMMA Abandons ==
  ASSUME TypeOK, NEW p \in Procs, Done(p),
         UNCHANGED <<current, previous, was, cut>>,
         SwitchUnderWay' <=> SwitchUnderWay
  PROVE  Register!Abandon(p)
  BY ClosesOpen, UndoStays DEF Register!Abandon

(* A step within an operation.                                             *)
LEMMA Stutters ==
  ASSUME UNCHANGED <<current, AbstractUndo, AbstractOpen>>
  PROVE  UNCHANGED Register!vars
  BY DEF Register!vars

(* The switch itself: what was in force becomes the undo.                  *)
LEMMA Switches ==
  ASSUME IInv, IInv', Returning, NEW p \in Procs, Switch(p)
  PROVE  \/ Register!Replace(p, target[p])
         \/ Register!Revert(p)
         \/ Register!Heal(p, target[p])
<1> USE DEF IInv, TypeOK, Rest, GenOrNone
<1>1. /\ AtSwitch(p) /\ base[p] = current /\ current' = target[p]
      /\ target[p] \in Gens /\ Done(p)
  BY DEF Switch, AtSwitch, Holding, Moving
<1>2. AbstractUndo' = IF current = None THEN AbstractUndo ELSE current
  <2>1. SwitchUnderWay /\ ~SwitchUnderWay'
    BY <1>1, FreeAssumption
    DEF Switch, SwitchUnderWay, AtSwitch, Mutex, Inside, Done
  <2>2. AbstractUndo' = previous
    BY <2>1 DEF Switch, AbstractUndo, SwitchUnderWay
  <2>3. current # None => previous = current
    BY <2>1 DEF UndoChain
  <2>4. current = None => previous = None /\ AbstractUndo = None
    BY <2>1 DEF UndoChain, AbstractUndo, SwitchUnderWay
  <2> QED  BY <2>2, <2>3, <2>4
<1>3. AbstractOpen' = [AbstractOpen EXCEPT ![p] = Register!Closed]
  BY <1>1, ClosesOpen
<1>4. AbstractOpen[p] = [op |-> IF pc[p] = "swapSwitch" THEN "rollback"
                                ELSE "apply",
                         seen |-> current]
  BY <1>1 DEF AbstractOpen, AtSwitch
<1>5. Register!Change(p, target[p])
  BY <1>1, <1>2, <1>3, <1>4 DEF Register!Change
<1>6. CASE pc[p] = "switch"
  BY <1>4, <1>5, <1>6 DEF Register!Replace
<1>7. CASE pc[p] = "swapSwitch"
  <2>1. current # None /\ AbstractUndo \in {current, target[p]}
    BY <1>7 DEF Returning
  <2>2. CASE AbstractUndo = current
    BY <1>4, <1>5, <1>7, <2>1, <2>2 DEF Register!Heal
  <2>3. CASE AbstractUndo # current
    BY <1>1, <1>4, <1>5, <1>7, <2>1, <2>3, NoneAssumption DEF Register!Revert
  <2> QED  BY <2>2, <2>3
<1> QED  BY <1>1, <1>6, <1>7 DEF AtSwitch

(* A switch cut short costs the register its undo.                         *)
LEMMA Cuts ==
  ASSUME IInv, IInv', NEW p \in Procs, Stop(p)
  PROVE  Register!Abandon(p) \/ Register!Cut(p)
<1> USE DEF IInv, TypeOK, Rest
<1>1. CASE AtSwitch(p) /\ base[p] # None
  <2>1. /\ ~SwitchUnderWay' /\ current' = current /\ previous' = previous
        /\ Done(p) /\ base[p] = current
    BY <1>1, FreeAssumption
    DEF Stop, SwitchUnderWay, AtSwitch, Mutex, Inside, Done, Holding, Moving
  <2>2. previous = current
    BY <1>1, <2>1 DEF UndoChain, SwitchUnderWay
  <2>3. AbstractUndo' = current
    BY <2>1, <2>2 DEF AbstractUndo, SwitchUnderWay
  <2>4. AbstractOpen[p].op \in Register!Kinds /\ AbstractOpen[p].seen = current
    BY <1>1, <2>1 DEF AbstractOpen, AtSwitch, Register!Kinds
  <2> QED  BY <2>1, <2>3, <2>4, ClosesOpen DEF Register!Cut
<1>2. CASE AtSwitch(p) /\ base[p] = None
  <2>1. /\ SwitchUnderWay /\ ~SwitchUnderWay' /\ current' = current
        /\ previous' = previous /\ Done(p) /\ base[p] = current
    BY <1>2, FreeAssumption
    DEF Stop, SwitchUnderWay, AtSwitch, Mutex, Inside, Done, Holding, Moving
  <2>2. AbstractUndo' = AbstractUndo
    BY <1>2, <2>1 DEF AbstractUndo, SwitchUnderWay, UndoChain
  <2> QED  BY <2>1, <2>2, ClosesOpen DEF Register!Abandon
<1>3. CASE ~AtSwitch(p)
  BY <1>3, Abandons DEF Stop, SwitchUnderWay, AtSwitch, Done
<1> QED  BY <1>1, <1>2, <1>3

(* Every step is a step of the register or leaves it alone.                *)
LEMMA RegisterStep ==
  IInv /\ IInv' /\ Returning /\ [Next]_vars => [Register!Next]_(Register!vars)
<1> SUFFICES ASSUME IInv, IInv', Returning, [Next]_vars
             PROVE  [Register!Next]_(Register!vars)
  OBVIOUS
<1> USE FreeAssumption
<1> USE DEF IInv, TypeOK, SwitchUnderWay, AtSwitch, Goto, Done, procVars, links
<1>1. ASSUME NEW p \in Procs, Begin(p) PROVE [Register!Next]_(Register!vars)
  <2>1. ASSUME Rollback(p) \/ \E g \in Gens : ReadBase(p, g)
        PROVE  \E kind \in Register!Kinds : Register!Start(p, kind)
    <3>1. AbstractUndo' = AbstractUndo
      BY <2>1, UndoStays DEF Rollback, ReadBase
    <3>2. PICK kind \in Register!Kinds :
            AbstractOpen' = [AbstractOpen EXCEPT ![p] =
                               [op |-> kind, seen |-> current]]
      <4>1. CASE Rollback(p)
        BY <4>1 DEF Rollback, AbstractOpen, Register!Kinds
      <4>2. CASE \E g \in Gens : ReadBase(p, g)
        BY <4>2 DEF ReadBase, AbstractOpen, Register!Kinds
      <4> QED  BY <2>1, <4>1, <4>2
    <3>3. AbstractOpen[p] = Register!Closed /\ current' = current
      BY <2>1 DEF Rollback, ReadBase, AbstractOpen, Register!Closed
    <3> QED  BY <3>1, <3>2, <3>3 DEF Register!Start
  <2>2. ASSUME Collect(p) PROVE UNCHANGED Register!vars
    BY <2>2, UndoStays, Stutters DEF Collect, AbstractOpen
  <2> QED  BY <1>1, <2>1, <2>2 DEF Begin, Register!Next
<1>2. ASSUME NEW p \in Procs, Advance(p) PROVE [Register!Next]_(Register!vars)
  <2>1. ASSUME Reuse(p) \/ BuildFail(p) \/ LockBusy(p) \/ Refuse(p)
        PROVE  Register!Abandon(p)
    BY <2>1, Abandons DEF Reuse, BuildFail, LockBusy, Refuse
  <2>2. ASSUME \/ BuildStart(p) \/ BuildFinish(p) \/ CommitLock(p)
               \/ Publish(p) \/ Sweep(p) \/ \E g \in Gens : Delete(p, g)
        PROVE  UNCHANGED Register!vars
    <3>1. UNCHANGED <<current, AbstractUndo>>
      BY <2>2, UndoStays DEF BuildStart, BuildFinish, CommitLock, Publish,
         Accepted, Sweep, Delete
    <3>2. AbstractOpen' = AbstractOpen
      BY <2>2 DEF BuildStart, BuildFinish, CommitLock, Publish, Accepted, Sweep,
         Delete, AbstractOpen
    <3> QED  BY <3>1, <3>2, Stutters
  <2>3. ASSUME Repair(p)
        PROVE  UNCHANGED Register!vars \/ Register!Abandon(p)
    <3>1. CASE base[p] = target[p]
      BY <2>3, <3>1, Abandons DEF Repair, Accepted
    <3>2. CASE base[p] # target[p]
      <4>1. UNCHANGED <<current, AbstractUndo>>
        BY <2>3, <3>2, UndoStays DEF Repair, Accepted
      <4>2. AbstractOpen' = AbstractOpen
        BY <2>3, <3>2 DEF Repair, Accepted, AbstractOpen
      <4> QED  BY <4>1, <4>2, Stutters
    <3> QED  BY <3>1, <3>2
  <2>4. ASSUME Link(p) PROVE UNCHANGED Register!vars
    <3>1. ~SwitchUnderWay /\ SwitchUnderWay' /\ UNCHANGED <<current, was, cut>>
      BY <2>4 DEF Link, Rest, Mutex, Inside
    <3>2. AbstractUndo' = AbstractUndo
      BY <3>1 DEF AbstractUndo, Rest, UndoChain
    <3>3. AbstractOpen' = AbstractOpen
      BY <2>4 DEF Link, AbstractOpen
    <3> QED  BY <3>1, <3>2, <3>3, Stutters
  <2>5. ASSUME Switch(p)
        PROVE  \E g \in Gens : Register!Replace(p, g) \/ Register!Heal(p, g)
                                  \/ Register!Revert(p)
    <3>1. target[p] \in Gens
      BY <2>5 DEF Switch
    <3> QED  BY <2>5, <3>1, Switches
  <2> QED  BY <1>2, <2>1, <2>2, <2>3, <2>4, <2>5 DEF Advance, Register!Next
<1>3. ASSUME NEW p \in Procs, Disturb(p) PROVE [Register!Next]_(Register!vars)
  <2>1. ASSUME Stop(p) PROVE Register!Abandon(p) \/ Register!Cut(p)
    BY <2>1, Cuts
  <2>2. ASSUME StopCollect(p) \/ SourceMove(p) PROVE UNCHANGED Register!vars
    <3>1. UNCHANGED <<current, AbstractUndo>>
      BY <2>2, UndoStays DEF StopCollect, SourceMove
    <3>2. AbstractOpen' = AbstractOpen
      BY <2>2 DEF StopCollect, SourceMove, AbstractOpen
    <3> QED  BY <3>1, <3>2, Stutters
  <2>3. ASSUME StopRepair(p) PROVE Register!Abandon(p)
    BY <2>3, Abandons DEF StopRepair, Accepted
  <2> QED  BY <1>3, <2>1, <2>2, <2>3 DEF Disturb, Register!Next
<1>4. ASSUME NEW g \in Gens, Damage(g) PROVE UNCHANGED Register!vars
  BY <1>4, UndoStays, Stutters DEF Damage, AbstractOpen
<1>5. CASE UNCHANGED vars
  BY <1>5, UndoStays, Stutters DEF vars, AbstractOpen
<1> QED  BY <1>1, <1>2, <1>3, <1>4, <1>5 DEF Next

(* The generations of a context implement the register.                    *)
THEOREM ImplementsRegister == Spec => RegisterSpec
<1>1. Init => Returning
  BY DEF Init, Returning
<1> QED
  BY <1>1, RegisterInit, ReturningStep, RegisterStep, Invariance, PTL
  DEF Spec, RegisterSpec, Register!Spec
=============================================================================
