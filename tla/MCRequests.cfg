SPECIFICATION FairSpec
CONSTANTS
    a0 = a0
    a1 = a1
    b1 = b1
    b2 = b2
    batcher = batcher
    single = single
    NoBlock = NoBlock
    Blocks <- MCBlocks
    Parent <- MCParent
    Number <- MCNumber
    Clients = {batcher, single}
    Scenarios <- MCScenarios
    FirstTip = a1
    FinalizedLag = 2
    SafeLag = 1
    MaxMoves = 1
    MaxFaults = 1
CHECK_DEADLOCK FALSE
INVARIANTS OwnAnswer FreshAnswer  OneFetchPerKey
 
