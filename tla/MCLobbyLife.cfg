SPECIFICATION Spec
CHECK_DEADLOCK FALSE
CONSTANTS
    s1 = s1
    s2 = s2
    c1 = c1
    c2 = c2
    c3 = c3
    Sessions = {s1, s2}
    Connections = {c1, c2, c3}
    SessionOf <- TwoWindows
    Lobbies = {l1, l2}
    Endpoints = {e1}
    Threads = 2
    MinPlayers = 1
    None = None
SYMMETRY Symmetry
INVARIANTS
    TypeOK
    SeatsFollowConnections
    EveryDeadEntryIsLeaving
    CreatorPlays
    FinishedLobbyIsErased
PROPERTIES
    SeatsAreKept
