CONSTANTS
    N = 3
    Kinds = {heart, pike, tile}
    Values = {1, 2}
    MaxRound <- MCMaxRound
    None = None
SYMMETRY KindSymmetry
SPECIFICATION Spec
INVARIANTS
    NoCardTwice
    BestCardTakesTrick
    SuitIsFollowed
    AllSucceedOnlyOnExactBids
PROPERTIES
    ImplementsTable
    SheetOnlyGrows
CHECK_DEADLOCK FALSE
