SPECIFICATION FairSpec
CONSTANTS
    p1 = p1  p2 = p2
    r1 = r1  r2 = r2  r3 = r3  r4 = r4
    Proxies <- TwoProxies
    Requests <- ThreeRequests
    Max = 2
    MaxPeriod = 1
    NoProxy = NoProxy
    NoCount = NoCount
INVARIANTS AllowedAccounted NoFalseDenial
PROPERTIES DenialEnds WaitersAnswered
