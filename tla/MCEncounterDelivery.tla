------------------------ MODULE MCEncounterDelivery ------------------------
(* Model-checking instance of EncounterDelivery: threads and deliveries are *)
(* interchangeable.                                                         *)
EXTENDS EncounterDelivery, TLC

Symmetric == Permutations(Thread) \cup Permutations(Delivery)
=============================================================================
