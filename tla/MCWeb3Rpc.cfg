SPECIFICATION FairSpec
CONSTANTS
    Generations = 2
    Configs <- MCConfigs
    Ladder <- MCLadder
    Depths <- MCDepths
    MaxBlock = 2
    MaxFaults = 1
CHECK_DEADLOCK FALSE
INVARIANTS HeadReported ReloadWithoutGap
PROPERTIES ConnectEnds DisconnectedLeaves
