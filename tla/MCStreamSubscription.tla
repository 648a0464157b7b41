----------------------- MODULE MCStreamSubscription -----------------------
(* One stream and its followers on small instances. *)
EXTENDS StreamSubscription, TLC

AnyClient == Permutations(Client)
=============================================================================
