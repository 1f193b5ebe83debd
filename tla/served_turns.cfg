SPECIFICATION Spec
CONSTANTS
    GridSize = 2
    MaxBarriers = 2
    CopStart <- CopCorner
    ThiefStart <- ThiefCorner
    SurvivalThreshold = 2
    A = A
    B = B
    Groups <- Teams
    Callers <- OneTeam
    GameGroup = B
    None = None
    Unstated = FALSE
    MaxGames = 2
    MaxStep = 3
    MaxLosses = 2
INVARIANTS
    StepsAreMonotone
    SessionHoldsOneGame
    FiledOnce
    OutcomesAgree
PROPERTIES
    EndedGameIsFiled
