SPECIFICATION Spec
CONSTANTS
    t1 = t1  t2 = t2  a = a  b = b  c = c
    Tools = {t1, t2}
    Caps = {a, b, c}
    CapsOf <- MCCapsOf
    OptWindowSize = 3
    OptNarrowThreshold = 2
    Resolvers = {p1, p2}
    FallbackSets <- MCFallback
    HintSets <- MCHints
    MaxUpdates = 5
SYMMETRY Symmetry
INVARIANTS Linearizable NeverEmpty
