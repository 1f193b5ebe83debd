SPECIFICATION Spec
CONSTANTS
    Mine = 1
    Theirs = 2
    SubGames = 2
    Homes <- Roles
    Home <- OnePerRepository
    Earlier <- NoOtherGame
    Opponent = Opponent
    None = None
    MaxReplays = 0
    MaxCrashes = 0
    MaxSyncs = 0
INVARIANTS
    SettledOnce
CHECK_DEADLOCK FALSE
