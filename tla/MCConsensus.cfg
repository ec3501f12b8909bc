SPECIFICATION Spec
CONSTANTS
    Blocks <- MCBlocks
    Parent <- MCParent
    Number <- MCNumber
    NoBlock = NoBlock
    Rpcs <- MCRpcs
    Names <- MCNames
    NameOf <- MCNameOf
    Gen <- MCGen
    Tier <- MCTier
    Backup <- MCBackup
    SoftLimit <- MCSoftLimit
    NoRpc = NoRpc
    MaxTier = 1
    MinHeadRpcs = 2
    MinSumSoftLimit = 2
    MaxBlockLag = 1
    MaxBlockAge = TRUE
    DefaultLag = 2
INVARIANTS QuorumServes ServersHaveHead
PROPERTY ImplementsFeed
