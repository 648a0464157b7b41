SPECIFICATION ResolverSpec
CONSTANTS
    Capsule = {a, b, c}
    Request <- TwoLayersOrPolicy
    Catalogue <- SmallCatalogues
    MaxNeeds = 3
SYMMETRY AnyCapsule
\* A resolution comes to its end.
CHECK_DEADLOCK FALSE
INVARIANTS ResolvesAsDefined DependenciesFirst
