SPECIFICATION FairSpec
CONSTANTS
    a = a  b = b  c = c
    hash = hash  other = other  known = known  lost = lost
    Rpcs <- ThreeRpcs
    Backups <- OneBackup
    AllowBackups = TRUE
    MaxCount = 3
    Subscribed = FALSE
    Successes <- TwoSuccesses
    JsonErrors <- OneJsonError
    Failures <- OneFailure
    Rank <- MCRank
    NoResponse = NoResponse
\* A request that is answered is over.
CHECK_DEADLOCK FALSE
PROPERTY PrivateSent
