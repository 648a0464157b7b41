------------------------- MODULE MCRoutineDispatch -------------------------
(* One Routine on a schedule, with two occurrences. *)
EXTENDS RoutineDispatch, TLC

CONSTANTS o1, o2, daily

DueAt    == o1 :> 0 @@ o2 :> 1
Daily    == [o \in Occurrence |-> daily]
Zero     == daily :> 0
One      == daily :> 1
Two      == daily :> 2
AnyOrder == Permutations(Process) \cup Permutations(Method) \cup Permutations(Status)
=============================================================================
