---------------------------- MODULE MCResolver ----------------------------
(* Resolutions over three capabilities. *)
EXTENDS Resolver, TLC

CONSTANT MaxNeeds \* bound: requirements in the catalogue

Says(on, off) == [on |-> on, off |-> off]
AtMostOne(S) == {{}} \cup {{x} : x \in S}
\* Two layers, the second taking back; or one that turns on and off, perhaps the
\* same, and a policy that requires one capability.
TwoLayersOrPolicy ==
    {[layers |-> <<Says(A, {}), Says({}, B)>>, require |-> {}] :
        A \in SUBSET Capsule, B \in AtMostOne(Capsule)}
    \cup {[layers |-> <<Says(A, B)>>, require |-> {c}] :
        A \in AtMostOne(Capsule), B \in AtMostOne(Capsule), c \in Capsule}

Arrows(f) == {<<c, d>> \in Capsule \X Capsule : f[c][d] # "no"}
FewNeeds ==
    {f \in [Capsule -> [Capsule -> Need]] :
        (\A c \in Capsule : f[c][c] = "no") /\ Cardinality(Arrows(f)) <= MaxNeeds}
\* At most one capability that no registry has, and one that is refused or one
\* conflict.
Pairs == {{c, d} : c, d \in Capsule} \ {{c} : c \in Capsule}
SmallCatalogues ==
    [known : {Capsule \ U : U \in AtMostOne(Capsule)}, needs : FewNeeds,
     refused : AtMostOne(Capsule), clash : {{}}]
    \cup [known : {Capsule \ U : U \in AtMostOne(Capsule)}, needs : FewNeeds,
          refused : {{}}, clash : {{p} : p \in Pairs}]

AnyCapsule == Permutations(Capsule)
=============================================================================
