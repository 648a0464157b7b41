----------------------------- MODULE Generations -----------------------------
(***************************************************************************)
(* The generations of one context (aikit-store/src/generation.rs, with the *)
(* context lock of locks.rs).  Short-lived processes share a directory: a  *)
(* generation per content, the symlinks `current` and `previous`, and a    *)
(* lock the kernel drops when its holder dies.  An apply reads `current`,  *)
(* builds a staging tree outside the lock, and commits it under the lock   *)
(* if `current` is still what it read; a rollback swaps the two links; a   *)
(* collection deletes what neither link names.                             *)
(*                                                                         *)
(* A process may stop at any step: an error returned there and a kill have *)
(* the same effect on this state, since a staging tree that a kill leaves  *)
(* behind is seen by no operation but the collection that deletes it.      *)
(* Which generations are "newest" to a collection is left open, so the     *)
(* creation times are not modelled.                                        *)
(***************************************************************************)
EXTENDS Naturals, FiniteSets

CONSTANTS Procs,        \* processes working in the context
          Gens,         \* generation ids: the contents that can be built
          None,         \* no generation: the link is not there
          Free,         \* no process: the lock is not held
          Keep,         \* how many of the newest a collection retains
          MaxFaults     \* bound: stops, damages and source moves in a run

ASSUME NoneAssumption == None \notin Gens
ASSUME FreeAssumption == Free \notin Procs
ASSUME KeepAssumption == Keep \in Nat
ASSUME MaxFaultsAssumption == MaxFaults \in Nat

VARIABLES dir,          \* dir[g]: the directory generations/<g>
          meta,         \* meta[g]: base_generation in its metadata.json
          current,      \* the link the view is read through
          previous,     \* the link a rollback follows
          lock,         \* the holder of the context lock
          pc,           \* pc[p]: where p is in its operation
          base,         \* base[p]: the `current` p's operation goes by
          target,       \* target[p]: the generation p is to put in force
          stage,        \* stage[p]: p's staging directory
          doomed,       \* what the collection under way has yet to delete
          faults,       \* how many faults there have been
          was,          \* history: `current` before its last complete switch
          cut,          \* history: the last switch stopped half way
          healed        \* history: a rollback went by meta, not `previous`

vars == <<dir, meta, current, previous, lock, pc, base, target, stage, doomed,
          faults, was, cut, healed>>
procVars == <<base, target, stage>>
links == <<current, previous, was, cut, healed>>

GenOrNone == Gens \cup {None}
NoMeta == "unreadable"
MetaValue == GenOrNone \cup {NoMeta}
Outside == {"idle", "based", "building", "staged"}
Inside == {"check", "link", "switch", "swapLink", "swapSwitch",
           "collect"}

TypeOK ==
    /\ dir \in [Gens -> {"absent", "whole", "torn"}]
    /\ meta \in [Gens -> MetaValue]
    /\ current \in GenOrNone
    /\ previous \in GenOrNone
    /\ lock \in Procs \cup {Free}
    /\ pc \in [Procs -> Outside \cup Inside]
    /\ base \in [Procs -> GenOrNone]
    /\ target \in [Procs -> GenOrNone]
    /\ \A p \in Procs : pc[p] \notin {"idle", "collect"} => target[p] \in Gens
    /\ stage \in [Procs -> {"none", "open", "whole", "spoiled"}]
    /\ doomed \subseteq Gens
    /\ faults \in 0..MaxFaults
    /\ was \in GenOrNone
    /\ cut \in BOOLEAN
    /\ healed \in BOOLEAN

Init ==
    /\ dir = [g \in Gens |-> "absent"]
    /\ meta = [g \in Gens |-> NoMeta]
    /\ current = None
    /\ previous = None
    /\ lock = Free
    /\ pc = [p \in Procs |-> "idle"]
    /\ base = [p \in Procs |-> None]
    /\ target = [p \in Procs |-> None]
    /\ stage = [p \in Procs |-> "none"]
    /\ doomed = {}
    /\ faults = 0
    /\ was = None
    /\ cut = FALSE
    /\ healed = FALSE

Present(g) == g \in Gens /\ dir[g] # "absent"

(* p's operation is over: its lock is dropped, its staging tree removed.   *)
Done(p) ==
    /\ pc' = [pc EXCEPT ![p] = "idle"]
    /\ base' = [base EXCEPT ![p] = None]
    /\ target' = [target EXCEPT ![p] = None]
    /\ stage' = [stage EXCEPT ![p] = "none"]
    /\ lock' = IF lock = p THEN Free ELSE lock

Goto(p, l) == pc' = [pc EXCEPT ![p] = l]

(* Staging trees lose what was built in them.                              *)
Spoil(S) == stage' = [q \in Procs |-> IF q \in S /\ stage[q] # "none"
                                       THEN "spoiled" ELSE stage[q]]

Fault == faults < MaxFaults /\ faults' = faults + 1

-----------------------------------------------------------------------------
(* Apply, outside the lock.                                                *)

(* The caller reads `current` as its base and has a view to put in force.  *)
ReadBase(p, g) ==
    /\ pc[p] = "idle"
    /\ base' = [base EXCEPT ![p] = current]
    /\ target' = [target EXCEPT ![p] = g]
    /\ Goto(p, "based")
    /\ UNCHANGED <<dir, meta, lock, stage, doomed, faults, links>>

(* inspect_current: g is in force and reads back as what it is named for.  *)
Reusable(g) == current = g /\ dir[g] = "whole" /\ meta[g] # NoMeta

(* reuse_current: under the lock, a base that moved is refused; a reusable *)
(* generation ends the apply.                                              *)
Reuse(p) ==
    /\ pc[p] = "based" /\ lock = Free
    /\ current # base[p] \/ Reusable(target[p])
    /\ Done(p)
    /\ UNCHANGED <<dir, meta, doomed, faults, links>>

(* Otherwise, and at once when the plan carries secrets, the tree is built *)
(* in a staging directory of its own.                                      *)
BuildStart(p) ==
    /\ pc[p] = "based"
    /\ stage' = [stage EXCEPT ![p] = "open"]
    /\ Goto(p, "building")
    /\ UNCHANGED <<dir, meta, lock, base, target, doomed, faults, links>>

BuildFinish(p) ==
    /\ pc[p] = "building" /\ stage[p] = "open"
    /\ stage' = [stage EXCEPT ![p] = "whole"]
    /\ Goto(p, "staged")
    /\ UNCHANGED <<dir, meta, lock, base, target, doomed, faults, links>>

(* validate finds that a collection swept the tree away under the build.   *)
BuildFail(p) ==
    /\ pc[p] = "building" /\ stage[p] # "open"
    /\ Done(p)
    /\ UNCHANGED <<dir, meta, doomed, faults, links>>

(* A linked source moves or becomes unreadable after the build.  One that  *)
(* does so after the commit has looked is a Damage.                        *)
SourceMove(p) ==
    /\ pc[p] = "staged" /\ stage[p] = "whole"
    /\ stage' = [stage EXCEPT ![p] = "spoiled"]
    /\ Fault
    /\ UNCHANGED <<dir, meta, lock, pc, base, target, doomed, links>>

-----------------------------------------------------------------------------
(* Commit, under the lock.                                                 *)

CommitLock(p) ==
    /\ pc[p] = "staged" /\ lock = Free
    /\ lock' = p
    /\ Goto(p, "check")
    /\ UNCHANGED <<dir, meta, procVars, doomed, faults, links>>

(* Mutant: the poll for the lock has no deadline.                          *)
LockPollForever(p) ==
    pc[p] \in {"based", "staged"} /\ lock # Free /\ UNCHANGED vars

(* lock.busy: the deadline of a reuse or a commit passes while another     *)
(* process holds the lock.                                                 *)
LockBusy(p) ==
    /\ pc[p] \in {"based", "staged"} /\ lock # Free
    /\ Done(p)
    /\ UNCHANGED <<dir, meta, doomed, faults, links>>

(* generation.stale_base, or a staged tree that no longer hashes to its id *)
Refuse(p) ==
    /\ pc[p] = "check"
    /\ current # base[p] \/ stage[p] # "whole"
    /\ Done(p)
    /\ UNCHANGED <<dir, meta, doomed, faults, links>>

(* Mutants: no compare-and-swap; no second look at the staged tree.        *)
AcceptedAnyBase(p) == pc[p] = "check" /\ stage[p] = "whole"
AcceptedAnyTree(p) == pc[p] = "check" /\ current = base[p]

Accepted(p) == pc[p] = "check" /\ current = base[p] /\ stage[p] = "whole"

(* The content is new: metadata names the base, staging is renamed.        *)
Publish(p) ==
    LET g == target[p] IN
    /\ Accepted(p) /\ ~Present(g)
    /\ dir' = [dir EXCEPT ![g] = IF stage[p] = "whole" THEN "whole" ELSE "torn"]
    /\ meta' = [meta EXCEPT ![g] = base[p]]
    /\ stage' = [stage EXCEPT ![p] = "none"]
    /\ Goto(p, "link")
    /\ UNCHANGED <<lock, base, target, doomed, faults, links>>

(* Metadata that still describes the content is kept; other metadata is    *)
(* replaced by the staged one, whose base is what g would replace.         *)
KeptMeta(p, g) ==
    [meta EXCEPT ![g] = IF @ # NoMeta THEN @
                        ELSE IF base[p] = g THEN None ELSE base[p]]

(* Mutant: an apply of what is in force moves the links too.               *)
RepairAndLink(p) ==
    LET g == target[p] IN
    /\ Accepted(p) /\ Present(g)
    /\ dir' = [dir EXCEPT ![g] = "whole"]
    /\ meta' = KeptMeta(p, g)
    /\ stage' = [stage EXCEPT ![p] = "none"]
    /\ Goto(p, "link")
    /\ UNCHANGED <<lock, base, target, doomed, faults, links>>

(* The content is on disk: it is repaired from the staged tree, and        *)
(* staging is discarded.  The links move only if it is not the one in      *)
(* force.                                                                  *)
Repair(p) ==
    LET g == target[p] IN
    /\ Accepted(p) /\ Present(g)
    /\ dir' = [dir EXCEPT ![g] = "whole"]
    /\ meta' = KeptMeta(p, g)
    /\ IF base[p] = g
       THEN Done(p)
       ELSE /\ stage' = [stage EXCEPT ![p] = "none"]
            /\ Goto(p, "link")
            /\ UNCHANGED <<lock, base, target>>
    /\ UNCHANGED <<doomed, faults, links>>

(* `previous` first, and only if there was something in force.             *)
Link(p) ==
    /\ pc[p] \in {"link", "swapLink"}
    /\ previous' = IF base[p] = None THEN previous ELSE base[p]
    /\ Goto(p, IF pc[p] = "link" THEN "switch" ELSE "swapSwitch")
    /\ UNCHANGED <<dir, meta, current, lock, procVars, doomed, faults, was, cut,
                   healed>>

(* then `current`, by rename; the operation is over.                       *)
Switch(p) ==
    /\ pc[p] \in {"switch", "swapSwitch"}
    /\ current' = target[p]
    /\ was' = current
    /\ cut' = FALSE
    /\ Done(p)
    /\ UNCHANGED <<dir, meta, previous, doomed, faults, healed>>

-----------------------------------------------------------------------------
(* rollback: an aliased `previous` is replaced by the recorded base.       *)

(* Mutant: the recorded base is followed even when the links differ.       *)
RollbackToRecordedBase == meta[current]

RollbackTarget ==
    IF previous # current THEN previous ELSE meta[current]

(* Mutant: no error when the metadata names no base.                       *)
RollbackUnchecked(p) ==
    /\ pc[p] = "idle" /\ lock = Free
    /\ current # None /\ previous # None
    /\ lock' = p
    /\ base' = [base EXCEPT ![p] = current]
    /\ target' = [target EXCEPT ![p] = RollbackTarget]
    /\ healed' = (healed \/ previous = current)
    /\ Goto(p, "swapLink")
    /\ UNCHANGED <<dir, meta, current, previous, stage, doomed, faults, was, cut>>

Rollback(p) ==
    /\ pc[p] = "idle" /\ lock = Free
    /\ current # None /\ previous # None
    /\ RollbackTarget \in Gens
    /\ lock' = p
    /\ base' = [base EXCEPT ![p] = current]
    /\ target' = [target EXCEPT ![p] = RollbackTarget]
    /\ healed' = (healed \/ previous = current)
    /\ Goto(p, "swapLink")
    /\ UNCHANGED <<dir, meta, current, previous, stage, doomed, faults, was, cut>>

-----------------------------------------------------------------------------
(* gc: everything but the two linked and the newest Keep.                  *)

(* Mutant: only `current` counts as referenced.                            *)
CollectPrevious(p) ==
    LET all == {g \in Gens : Present(g)} IN
    /\ pc[p] = "idle" /\ lock = Free
    /\ lock' = p
    /\ doomed' = all \ {current}
    /\ Goto(p, "collect")
    /\ UNCHANGED <<dir, meta, procVars, faults, links>>

Collect(p) ==
    LET all == {g \in Gens : Present(g)} IN
    /\ pc[p] = "idle" /\ lock = Free
    /\ lock' = p
    /\ \E newest \in SUBSET all :
          /\ Cardinality(newest) = IF Cardinality(all) < Keep
                                   THEN Cardinality(all) ELSE Keep
          /\ doomed' = all \ (newest \cup {current, previous})
    /\ Goto(p, "collect")
    /\ UNCHANGED <<dir, meta, procVars, faults, links>>

Delete(p, g) ==
    /\ pc[p] = "collect" /\ g \in doomed
    /\ dir' = [dir EXCEPT ![g] = "absent"]
    /\ meta' = [meta EXCEPT ![g] = NoMeta]
    /\ doomed' = doomed \ {g}
    /\ UNCHANGED <<lock, pc, procVars, faults, links>>

(* Every staging tree is swept, those of builds under way among them.      *)
Sweep(p) ==
    /\ pc[p] = "collect" /\ doomed = {}
    /\ Spoil(Procs)
    /\ lock' = Free
    /\ Goto(p, "idle")
    /\ UNCHANGED <<dir, meta, base, target, doomed, faults, links>>

-----------------------------------------------------------------------------
(* What the environment does to the operations.                            *)

(* An error or a kill, anywhere in an apply or a rollback.                 *)
Stop(p) ==
    /\ pc[p] \notin {"idle", "collect"}
    /\ cut' = (cut \/ (pc[p] \in {"switch", "swapSwitch"} /\ base[p] # None))
    /\ Done(p)
    /\ Fault
    /\ UNCHANGED <<dir, meta, current, previous, doomed, was, healed>>

(* ... inside a repair: some of its entries are in place, each of them     *)
(* whole, the metadata among them or not.                                  *)
StopRepair(p) ==
    LET g == target[p] IN
    /\ Accepted(p) /\ Present(g)
    /\ \E d \in {dir[g], "whole"} : dir' = [dir EXCEPT ![g] = d]
    /\ meta' \in {meta, KeptMeta(p, g)}
    /\ Done(p)
    /\ Fault
    /\ UNCHANGED <<doomed, links>>

(* ... in a collection: it may leave one directory half removed, its       *)
(* metadata there or not, and the staging trees half swept.                *)
StopCollect(p) ==
    /\ pc[p] = "collect"
    /\ \/ UNCHANGED <<dir, meta, stage>>
       \/ \E g \in doomed :
             /\ dir' = [dir EXCEPT ![g] = "torn"]
             /\ \E m \in {meta[g], NoMeta} : meta' = [meta EXCEPT ![g] = m]
             /\ UNCHANGED stage
       \/ /\ doomed = {}
          /\ \E swept \in SUBSET Procs : Spoil(swept)
          /\ UNCHANGED <<dir, meta>>
    /\ doomed' = {}
    /\ lock' = Free
    /\ Goto(p, "idle")
    /\ Fault
    /\ UNCHANGED <<base, target, links>>

(* A published tree loses a target, its metadata perhaps with it.          *)
Damage(g) ==
    /\ dir[g] = "whole"
    /\ dir' = [dir EXCEPT ![g] = "torn"]
    /\ \E m \in {meta[g], NoMeta} : meta' = [meta EXCEPT ![g] = m]
    /\ Fault
    /\ UNCHANGED <<current, previous, lock, pc, procVars, doomed, was, cut,
                   healed>>

-----------------------------------------------------------------------------
Begin(p) == Rollback(p) \/ Collect(p) \/ \E g \in Gens : ReadBase(p, g)

Advance(p) ==
    \/ Reuse(p) \/ BuildStart(p) \/ BuildFinish(p) \/ BuildFail(p)
    \/ CommitLock(p) \/ LockBusy(p) \/ Refuse(p)
    \/ Publish(p) \/ Repair(p) \/ Link(p) \/ Switch(p)
    \/ Sweep(p)
    \/ \E g \in Gens : Delete(p, g)

Disturb(p) == Stop(p) \/ StopRepair(p) \/ StopCollect(p) \/ SourceMove(p)

Next == \/ \E p \in Procs : Begin(p) \/ Advance(p) \/ Disturb(p)
        \/ \E g \in Gens : Damage(g)

(* A process that has begun an operation goes on with it; nothing obliges  *)
(* one to begin.                                                           *)
Spec == Init /\ [][Next]_vars /\ \A p \in Procs : WF_vars(Advance(p))

-----------------------------------------------------------------------------
AtSwitch(p) == pc[p] \in {"switch", "swapSwitch"}

(* Neither link dangles: the header's "never a dangling link".  It holds   *)
(* through every interleaving of applies, rollbacks and collections, and   *)
(* through a stop at any step, until a rollback finds the links aliased    *)
(* and goes by the metadata instead.                                       *)
LinksResolve ==
    ~healed => /\ current # None => Present(current)
               /\ previous # None => Present(previous)

(* Between operations a rollback returns to exactly what was in force      *)
(* before the last switch, so an apply of what is already in force never   *)
(* costs the undo; only a switch that stopped half way does.               *)
UndoIsKept ==
    (lock = Free /\ ~cut) => /\ previous = was
                             /\ (~healed /\ current # None) => previous # current

(* Compare-and-swap: `current` leaves only a value the operation changing  *)
(* it had read before it began, whatever other processes did meanwhile.    *)
NoDiscard ==
    [][\A p \in Procs :
         pc[p] # "idle" /\ pc'[p] = "idle" /\ current' # current
           => current = base[p]]_vars

(* A half-swept or changed staging tree never becomes a generation: a      *)
(* directory appears under generations/ complete or not at all.            *)
PublishedWhole ==
    [][\A g \in Gens : dir[g] = "absent" => dir'[g] \in {"absent", "whole"}]_vars

(* Every operation under way ends: an apply whose build was swept away, or *)
(* that finds the lock taken time and again, as well.                      *)
OperationEnds == \A p \in Procs : pc[p] # "idle" ~> pc[p] = "idle"

-----------------------------------------------------------------------------
(* Stated by the source and not kept by it.                                *)

(* generation.rs:26-29: "a reader following `current` at any instant sees  *)
(* either the old generation or the new one, never a partially written     *)
(* tree and never a dangling link".                                        *)
(* A rollback that goes by the metadata does not look whether the base it  *)
(* found there was collected since.                                        *)
CurrentNeverDangles == current # None => Present(current)

-----------------------------------------------------------------------------
(* What the links mean to the register they implement: while a switch is   *)
(* under way `previous` is already rewritten and the undo is not.          *)
AbstractUndo ==
    IF \E p \in Procs : AtSwitch(p) THEN (IF cut THEN current ELSE was)
                                    ELSE previous

AbstractOpen ==
    [p \in Procs |->
       IF pc[p] \in {"idle", "collect"} THEN [op |-> "none", seen |-> None]
       ELSE [op |-> IF pc[p] \in {"swapLink", "swapSwitch"}
                    THEN "rollback" ELSE "apply",
             seen |-> base[p]]]

Register == INSTANCE ViewRegister
              WITH view <- current, undo <- AbstractUndo, open <- AbstractOpen

(* The files and the lock implement the register of ViewRegister.          *)
RegisterSpec == Register!Spec
=============================================================================
