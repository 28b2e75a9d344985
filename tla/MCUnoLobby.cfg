SPECIFICATION Spec
CONSTANTS
    alice = alice
    bob = bob
    a1 = a1
    b1 = b1
    Sessions = {alice, bob}
    Windows = {a1, b1}
    SessionOf <- Owners
    Creator = alice
    LoggedIn = {alice}
    MinPlayers = 2
    Breaking = {a1, b1}
    MaxInbox = 2
    MaxRequests = 1
INVARIANTS
    TheAskedPageAsks
    NobodyElseIsAsked
CHECK_DEADLOCK FALSE
