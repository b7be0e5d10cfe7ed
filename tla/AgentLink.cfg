SPECIFICATION FairSpec
CONSTANTS
    one = one
    two = two
    Handlers <- TwoHandlers
    NodeGrace = 1
    AgentGrace = 2
    MaxStarts = 2
    MaxLosses = 1
    MaxOutages = 1
    MaxSwitches = 2
CHECK_DEADLOCK FALSE
INVARIANTS
    PresenceIsTrue
PROPERTIES
    AbsenceIsNoticed
