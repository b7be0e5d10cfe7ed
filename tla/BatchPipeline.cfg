SPECIFICATION FairSpec
CONSTANTS
    e1 = e1
    e2 = e2
    Execs <- OneExec
    NumItems = 3
    LocalConcurrency = 2
    FlushSize = 2
    MaxRetry = 1
    MaxFaults = 1
CHECK_DEADLOCK FALSE
INVARIANTS
    BatchInv
    FinishedIsComplete
    CountsAreTrue
    StopIsPrompt
    TaskAgrees
PROPERTIES
    Settles
