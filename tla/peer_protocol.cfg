SPECIFICATION FairSpec
CONSTANTS
    GridSize = 2
    MaxBarriers = 2
    CopStart <- MCCopStart
    ThiefStart <- MCThiefStart
    MaxMoves = 3
    SurvivalThreshold = 3
    MaxFaults = 1
    None = None
INVARIANTS
    TypeOK
    NoPeek
    AnsweredInTheSameStep
    BoardsAgree
    ConcessionIsTrue
    NoContradiction
    HonestChainAudits
    FaultFreeNeverAborts
PROPERTIES
    ImplementsCommitReveal
    Terminates
