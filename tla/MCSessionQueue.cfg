CONSTANTS
    Broadcasters = {b1}
    Runner = runner
    MaxSends = 2
    None = None
SPECIFICATION FairSpec
INVARIANTS
    OneWriteAtATime
    NothingLostAtDestruction
PROPERTIES
    ImplementsChannel
    EverythingIsWritten
CHECK_DEADLOCK FALSE
