SPECIFICATION FairSpec
CONSTANTS
    full = full
    capped = capped
    none = none
    Jobs <- TwoJobs
    NoJob = none
    NumHosts = 2
    NumRisks = 1
    Selected <- AllHosts
    LimitOf <- OneIsCapped
    Concurrency <- OneAtATime
    Findings <- ClearOrNot
    ProgressEvery = 20
    Stoppable <- OnlyCapped
    PoolSize = 2
    MaxOthers = 1
    NewHosts = {1}
CHECK_DEADLOCK FALSE
INVARIANTS
    TypeOK
    
    ResultIsWhole
    LatestUnlessOverlapped
    DrainedLosesNothing
PROPERTIES
    ScansEnd
