SPECIFICATION FairSpec
CONSTANTS
    GridSize = 2
    MaxBarriers = 2
    CopStart <- CopCorner
    ThiefStart <- ThiefCorner
    SurvivalThreshold = 3
    MaxMoves = 3
    None = None
    CopMayStop = TRUE
    MaxFaults = 1
    MaxCopies = 1
INVARIANTS
    OneActionEach
    BoardsAgree
    OutcomesAgree
    NoTechnicalLoss
PROPERTIES
    EverySubGameEnds
CHECK_DEADLOCK FALSE
