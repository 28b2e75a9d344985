SPECIFICATION Spec
CONSTANTS
    alice = alice
    bob = bob
    a1 = a1
    b1 = b1
    b2 = b2
    Sessions = {alice, bob}
    Windows = {a1, b1, b2}
    SessionOf <- Owners
    Creator = alice
    LoggedIn = {alice}
    MinPlayers = 2
    MaxRound = 2
    Tricks <- TrickCount
    Breaking = {a1}
    MaxInbox = 2
    MaxRequests = 1
SYMMETRY Symmetry
INVARIANTS
    PagesShowTheGame
    APageIsNeverEmpty
CHECK_DEADLOCK FALSE
