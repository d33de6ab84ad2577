\* Requests are bounded.
CHECK_DEADLOCK FALSE
SPECIFICATION Spec
CONSTANTS
    alice = alice
    bob = bob
    Clients <- MCTwo
    MaxRequests = 2
    MaxRestarts = 0
    Ops = {"write", "logout", "direct", "static"}
    EmptyCookies = FALSE
SYMMETRY MCSymmetry
INVARIANTS
    SessionsApart
