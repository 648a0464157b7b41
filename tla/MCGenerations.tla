--------------------------- MODULE MCGenerations ---------------------------
(* Generations on small instances.                                         *)
EXTENDS Generations, TLC

GensSymmetry == Permutations(Gens) \cup Permutations(Procs)
=============================================================================
