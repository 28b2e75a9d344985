CONSTANTS
    N = 3
    Colors = {"red", "blue"}
    Cards <- EffectCards
    HandSize = 1
    MaxGames = 2
    None = None
SPECIFICATION BoardSpec
INVARIANTS
    TypeOK
    CardsAreConserved
    EmptyHandEndsGame
    DrawIsServed
    OneWinner
    EveryGameScoredOnce
    BoardsAreRight
PROPERTIES
    ForcedDrawIsTaken
    ImplementsTable
CHECK_DEADLOCK FALSE
