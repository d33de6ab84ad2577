\* Requests are bounded.
CHECK_DEADLOCK FALSE
SPECIFICATION Spec
CONSTANTS
    alice = alice
    bob = bob
    Clients <- MCOne
    MaxRequests = 4
    MaxRestarts = 1
    Ops = {"write", "logout"}
    EmptyCookies = TRUE
INVARIANTS
    TypeOK
    RestartForgets
PROPERTIES
    KeepsWhatWasSaved
    LogoutIsFinal
