CONSTANTS
    N = 2
    Colors = {"red", "blue"}
    Cards <- ClientCards
    HandSize = 1
    MaxGames = 2
    None = None
SPECIFICATION FairClientSpec
INVARIANTS
    PlayHasACard
PROPERTIES
    TurnPasses
CHECK_DEADLOCK FALSE
