------------------------------ MODULE MCApply ------------------------------
(* Apply on small instances.                                               *)
EXTENDS Apply, TLC

AnyOrder == Permutations(Procs) \cup Permutations(Caps)
                                \cup Permutations(Inodes)
=============================================================================
