SPECIFICATION Spec
CONSTANTS
    Threads = {t1, t2}
    Lobbies = {l1, l2}
    Clients = {c1, c2}
    None = None
SYMMETRY Symmetry
INVARIANTS
    NoDeadlock
    MapMatchesList
    ViewsMatchList
