---------------------------- MODULE ViewRegister ----------------------------
(***************************************************************************)
(* What a context's view promises, with files, locks and directories left  *)
(* out: a register holding the generation in force, one step of undo, and  *)
(* the operations under way.  An operation that changes the view does so   *)
(* only if the view is still the one it saw when it started.  This is the  *)
(* contract the header of aikit-store/src/generation.rs states;            *)
(* Generations is shown to implement it.                                   *)
(***************************************************************************)
CONSTANTS Procs,        \* processes working in the context
          Gens,         \* generation ids
          None          \* no generation

VARIABLES view,         \* the generation in force
          undo,         \* what a rollback returns to
          open          \* open[p]: the operation p is in the middle of

vars == <<view, undo, open>>

GenOrNone == Gens \cup {None}

Closed == [op |-> "none", seen |-> None]

Kinds == {"apply", "rollback"}

TypeOK == /\ view \in GenOrNone
          /\ undo \in GenOrNone
          /\ open \in [Procs -> [op : Kinds \cup {"none"}, seen : GenOrNone]]

Init == /\ view = None
        /\ undo = None
        /\ open = [p \in Procs |-> Closed]

(* An operation starts by looking at the view.                             *)
Start(p, kind) ==
    /\ open[p] = Closed
    /\ open' = [open EXCEPT ![p] = [op |-> kind, seen |-> view]]
    /\ UNCHANGED <<view, undo>>

(* An operation ends without effect: refused, failed, or nothing to do.    *)
Abandon(p) ==
    /\ open' = [open EXCEPT ![p] = Closed]
    /\ UNCHANGED <<view, undo>>

(* The view changes hands, and what it was becomes the undo.               *)
Change(p, g) ==
    /\ open[p].seen = view
    /\ view' = g
    /\ undo' = IF view = None THEN undo ELSE view
    /\ open' = [open EXCEPT ![p] = Closed]

Replace(p, g) == open[p].op = "apply" /\ Change(p, g)

(* A rollback returns to the undo, if there is one that differs.           *)
Revert(p) ==
    /\ open[p].op = "rollback"
    /\ undo \notin {None, view}
    /\ Change(p, undo)

(* With the undo lost, a rollback is free to pick any generation.          *)
Heal(p, g) ==
    /\ open[p].op = "rollback"
    /\ view # None /\ undo = view
    /\ Change(p, g)

(* An operation that dies while changing the view may cost the undo, and   *)
(* never the view.                                                         *)
Cut(p) ==
    /\ open[p].op \in Kinds
    /\ open[p].seen = view
    /\ undo' = view
    /\ open' = [open EXCEPT ![p] = Closed]
    /\ UNCHANGED view

Next == \E p \in Procs :
            \/ \E kind \in Kinds : Start(p, kind)
            \/ Abandon(p)
            \/ \E g \in Gens : Replace(p, g) \/ Heal(p, g)
            \/ Revert(p)
            \/ Cut(p)

Spec == Init /\ [][Next]_vars
=============================================================================
