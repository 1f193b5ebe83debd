SPECIFICATION Spec
CONSTANTS
    GridSize = 3
    MaxBarriers = 2
    EngageRange = 4
    Reserve = 1
    MinGain = 1
    MinSafeExits = 3
    None = None
    Games <- MCGames
    Threshold <- MCThreshold
INVARIANTS
    FieldIsTheTrail
    HeardAsAgreed
    CopStaysFree
    BoxedInByAWall
    NobodyPlaysOnInAWall
    FreshTrailIsInverted
CHECK_DEADLOCK FALSE
