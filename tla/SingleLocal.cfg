SPECIFICATION FairSpec
CONSTANTS
    first = first
    second = second
    server = server
    worker = worker
    Runners <- OneRunner
    First = first
    Second = first
    Bridges <- NoBridge
    NumRegions = 3
    Origins = {"schedule"}
    Transports = {"local"}
CHECK_DEADLOCK FALSE
INVARIANTS
    QuiescentSummary
PROPERTIES
    KeepsPromise
