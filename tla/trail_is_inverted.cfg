SPECIFICATION Spec
CONSTANTS
    GridSize = 3
    MaxBarriers = 2
    EngageRange = 4
    Reserve = 1
    MinGain = 1
    MinSafeExits = 3
    None = None
    Games <- MCLagged
    Threshold <- MCThreshold
INVARIANT TrailIsInverted
CHECK_DEADLOCK FALSE
