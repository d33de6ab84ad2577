\* Clients may stop sending and the connection ends.
CHECK_DEADLOCK FALSE
SPECIFICATION FairSpec
CONSTANTS
    MaxKeepAlive = 1
    MaxRequests = 3
    MaxBatch = 3
    MaxRetries = 2
    MaxFailures = 1
INVARIANTS
    TypeOK
    LiveHasTimer
    LeftoversExplained
    WritesConserved
    StreamIntact
PROPERTIES
    ConnectionEnds
