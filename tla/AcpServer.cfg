SPECIFICATION Spec
CONSTANTS
    r1 = r1
    r2 = r2
    r3 = r3
    NoHost = NoHost
    Reqs <- RequestNames
    Tools <- KnownTools
    Caps <- KnownCaps
    CapsOf <- KnownCapsOf
    Rank <- KnownRank
    DependsOnCaps <- KnownDependsOnCaps
    Hosts <- KnownHosts
    EndpointHost <- KnownEndpointHost
    Egress <- KnownEgress
    RequireApprov <- KnownRequireApprov
    ResolverKind = "embedding"
    Intents <- KnownIntents
    Keywords <- KnownKeywords
    Similarity <- KnownSimilarity
    Threshold = 200
    Queries <- KnownQueries
    AuthRequired = TRUE
    AutoApprove = FALSE
SYMMETRY Symmetry
INVARIANTS
    TypeOK
    ForwardSanctioned
    GateExact
    HintsOnlyAdd
    RefusedForNothing
    IssuedCanBeOrdered
    GraphReachesAll
PROPERTIES
    FoundUnlessRaced
