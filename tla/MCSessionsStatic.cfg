\* Requests are bounded.
CHECK_DEADLOCK FALSE
SPECIFICATION Spec
CONSTANTS
    alice = alice
    bob = bob
    Clients <- MCTwo
    MaxRequests = 2
    MaxRestarts = 0
    Ops = {"write", "static"}
    EmptyCookies = FALSE
INVARIANTS
    SessionIsTheClients
