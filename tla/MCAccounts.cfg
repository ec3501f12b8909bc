SPECIFICATION FairSpec
CONSTANTS
    Scenarios <- MCScenarios
    Database <- MCDatabase
    BearerMax = 1
    PublicMax = 1
    MaxSemaphores = 4
    TimeToIdle = 2
    TimeToLive = 2
    MaxTime = 2
    AllProcs = {1, 2}
    AllClients = {11, 12, 13}
CHECK_DEADLOCK FALSE
INVARIANTS UsersComeWithKeys PermitsBound
PROPERTIES ChangesAsAsked ImportSucceeds  RequestsAnswered
