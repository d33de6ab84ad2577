\* Renders are bounded.
CHECK_DEADLOCK FALSE
SPECIFICATION Spec
CONSTANTS
    w1 = w1
    w2 = w2
    Workers <- MCWorkers
    Text <- MCText
    MaxWrites = 3
    MaxTime = 2
    MaxRenders = 1
SYMMETRY Symmetry
INVARIANTS
    TypeOK
    CacheHonest
    ServedFresh
    LinksServed
