SPECIFICATION FairSpec
CONSTANTS
    site = site
    Tasks <- OneTask
    Crons <- FourCrons
    Parses <- Valid
    NextOf <- Occurrence
    Never <- NoRun
    MaxTime = 2
    MaxCuts = 1
    MaxEdits = 3
CHECK_DEADLOCK FALSE
INVARIANTS
    OncePerSlot
    
    
PROPERTIES
    ScheduleIsServed
