SPECIFICATION Spec
CONSTANTS
    first = first
    second = second
    server = server
    worker = worker
    Runners <- OneRunner
    First = first
    Second = first
    Bridges <- TwoBridges
    NumRegions = 2
    Origins = {"schedule"}
    Transports = {"local", "mqtt"}
CHECK_DEADLOCK FALSE
SYMMETRY BridgeSymmetry
INVARIANTS
    VerdictInv
PROPERTIES
    ResultsAreFinal
