\* Requests are bounded.
CHECK_DEADLOCK FALSE
SPECIFICATION Spec
CONSTANTS
    alice = alice
    bob = bob
    Clients <- MCOne
    MaxRequests = 4
    MaxRestarts = 0
    Ops = {"write", "logout"}
    EmptyCookies = FALSE
PROPERTIES
    SessionCanBeExited
