SPECIFICATION Spec
CONSTANTS
    e1 = e1
    e2 = e2
    Execs <- TwoExecs
    NumItems = 1
    LocalConcurrency = 1
    FlushSize = 1
    MaxRetry = 0
    MaxFaults = 0
CHECK_DEADLOCK FALSE
SYMMETRY ExecSymmetry
INVARIANTS
    TaskReflectsAnExecution
