\* Clients may stop sending and the loop may be brought down.
CHECK_DEADLOCK FALSE
SPECIFICATION FairSpec
CONSTANTS
    c1 = c1
    Conns <- MCConns
    NumWorkers = 2
    MaxKeepAlive = 2
    Kinds <- MCKinds
INVARIANTS
    TypeOK
    OpenHasTimer
    AnsweredOnce
    MixedOnlyTogether
    LeftoversAreGhosts
PROPERTIES
    EveryRequestEnds
    EveryConnectionCloses
