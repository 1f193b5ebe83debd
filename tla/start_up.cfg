SPECIFICATION FairSpec
CONSTANTS
    Peers = {"ours", "theirs"}
    Configs <- MCConfigs
    SubGames = 2
    MaxFaults = 2
    None = None
INVARIANTS
    ClashIsNotPlayed
    PlayedAsAgreed
PROPERTIES
    AgreeingPeersPlay
    NobodyHangs
CHECK_DEADLOCK FALSE
