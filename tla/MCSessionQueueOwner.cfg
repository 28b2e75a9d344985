CONSTANTS
    Broadcasters = {b1}
    Runner = runner
    MaxSends = 1
    None = None
SPECIFICATION Spec
INVARIANTS
    DestroyedAfterBroadcast
CHECK_DEADLOCK FALSE
