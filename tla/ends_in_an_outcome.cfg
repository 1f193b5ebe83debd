SPECIFICATION Spec
CONSTANTS
    GridSize = 2
    MaxBarriers = 0
    CopStart <- CopCorner
    ThiefStart <- ThiefCorner
    SurvivalThreshold = 2
    MaxMoves = 2
    None = None
    CopMayStop = FALSE
    MaxFaults = 1
    MaxCopies = 0
INVARIANTS
    EndsInAnOutcome
CHECK_DEADLOCK FALSE
