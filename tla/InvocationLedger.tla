------------------------- MODULE InvocationLedger -------------------------
(***************************************************************************)
(* What the ledger of Routine invocations promises, whoever writes it: an  *)
(* invocation is admitted once, runs at most once and only after it was    *)
(* admitted, and keeps for ever the one return it was given after a run.   *)
(* RoutineDispatch implements it.                                          *)
(***************************************************************************)
EXTENDS Naturals

CONSTANTS Invocation, Status, None

VARIABLES admitted, \* SUBSET Invocation
          runs,     \* [Invocation -> how often it was executed]
          returned  \* [Invocation -> the return on record, or None]

vars == <<admitted, runs, returned>>

Init ==
    /\ admitted = {}
    /\ runs = [i \in Invocation |-> 0]
    /\ returned = [i \in Invocation |-> None]

Admit(i) ==
    /\ i \notin admitted
    /\ admitted' = admitted \cup {i}
    /\ UNCHANGED <<runs, returned>>

Run(i) ==
    /\ i \in admitted /\ runs[i] = 0
    /\ runs' = [runs EXCEPT ![i] = 1]
    /\ UNCHANGED <<admitted, returned>>

Return(i, s) ==
    /\ runs[i] = 1 /\ returned[i] = None
    /\ returned' = [returned EXCEPT ![i] = s]
    /\ UNCHANGED <<admitted, runs>>

Next == \E i \in Invocation : \/ Admit(i) \/ Run(i)
                              \/ \E s \in Status : Return(i, s)

Spec == Init /\ [][Next]_vars
=============================================================================
