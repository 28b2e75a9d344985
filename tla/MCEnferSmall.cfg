CONSTANTS
    N = 2
    Kinds = {heart, pike}
    Values = {1, 2}
    MaxRound <- MCMaxRound
    None = None
SPECIFICATION FairSpec
INVARIANTS
    TypeOK
    OneScoreLinePerRound
    CurrentPlayerCanMove
PROPERTIES
    GameEnds
CHECK_DEADLOCK FALSE
