SPECIFICATION FairSpec
CONSTANTS
    Scripts <- MCScripts
    r1 = r1
    r2 = r2
    x = x
    Capacity = 1
CHECK_DEADLOCK FALSE
INVARIANTS OneAfterUnsubscribe NoTxGap
PROPERTIES NewestHeadArrives SubscriptionsEnd
