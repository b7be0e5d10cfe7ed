SPECIFICATION FairSpec
CONSTANTS
    j1 = j1
    server = server
    worker = worker
    Jobs <- OneJob
    Bridges <- TwoBridges
    RetryLimit = 1
    MaxRestarts = 1
    MaxCrashes = 1
CHECK_DEADLOCK FALSE
INVARIANTS
    JobInv
    RetryBounded
    GivesUpLast
    CompletedHasResult
    UnavailableIsFinal
PROPERTIES
    JobSettles
