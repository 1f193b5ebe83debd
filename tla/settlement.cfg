SPECIFICATION FairSpec
CONSTANTS
    Mine = 1
    Theirs = 2
    SubGames = 3
    Homes <- Roles
    Home <- OnePerRepository
    Earlier <- NoOtherGame
    Opponent = Opponent
    None = None
    MaxReplays = 1
    MaxCrashes = 1
    MaxSyncs = 1
INVARIANTS
    MailedRowsAreTrue
    LedgerComesFirst
    AttemptedOncePerProcess
PROPERTY
    SeriesIsSettled
CHECK_DEADLOCK FALSE
