\* Four sub-games, three tie rules, two conventions, two tables, and each
\* team numbering its logs in its own way.
SPECIFICATION Spec
CONSTANTS
    Teams <- MCTeams
    Tables <- MCTables
    SubGames = 4
    TieScore = 2
INVARIANTS
    DigestFollowsTheTieRule
\* a series ends
CHECK_DEADLOCK FALSE
