SPECIFICATION FairSpec
CONSTANTS
    first = first
    second = second
    server = server
    worker = worker
    Runners <- TwoRunners
    First = first
    Second = second
    Bridges <- NoBridge
    NumRegions = 2
    Origins = {"create", "schedule"}
    Transports = {"local"}
CHECK_DEADLOCK FALSE
PROPERTIES
    AllRegionsEnd
