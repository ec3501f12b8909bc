SPECIFICATION FairSpec
CONSTANTS
    a = a  b = b  c = c
    Rpcs <- ThreeRpcs
    Tier <- MCTier
    Latency <- MCLatency
    DataLimit <- MCDataLimit
    MaxBlock = 2
    Now = 10
    MaxLag = 1
    MaxAge = NoBlock
    Needs <- MCNeeds
    NoBlock = NoBlock
    NoConsensus = NoConsensus
\* A request that is answered is over.
CHECK_DEADLOCK FALSE
  
PROPERTY Ends
