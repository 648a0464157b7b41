-------------------------- MODULE MCRoutineEvents --------------------------
(* One Routine that hooks wake, and no schedule. *)
EXTENDS RoutineDispatch

Nothing == [x \in {} |-> 0]
=============================================================================
