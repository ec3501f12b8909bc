SPECIFICATION FairSpec
CONSTANTS
    Blocks <- MCBlocks
    Parent <- MCParent
    Number <- MCNumber
    NoBlock = NoBlock
    Rpcs <- MCRpcs
    Names <- MCRpcs
    NameOf <- MCNameOf
    Gen <- MCGen
    Tier <- MCTier
    Backup <- MCBackup
    SoftLimit <- MCSoftLimit
    NoRpc = NoRpc
    MaxTier = 1
    MinHeadRpcs = 1
    MinSumSoftLimit = 2
    MaxBlockLag <- NoNum
    MaxBlockAge = FALSE
    DefaultLag = 2
INVARIANT SoftLimitCovered
PROPERTY SearchEnds
