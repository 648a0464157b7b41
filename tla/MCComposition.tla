----------------------------- MODULE MCComposition -----------------------------
(* Composition on a small instance.                                        *)
EXTENDS Composition, TLC

Symmetry == Permutations(Procs)
=============================================================================
