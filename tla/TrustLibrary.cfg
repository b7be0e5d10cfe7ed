SPECIFICATION FairSpec
CONSTANTS
    com = com
    org = org
    alice = alice
    bob = bob
    first = first
    second = second
    Domains <- TwoDomains
    NumHosts = 3
    ApexOf <- Apexes
    NsOf <- NameServers
    Importances <- Levels
    High = "high"
    Manifests <- OneManifest
    Known <- NoneKnown
    Inputs <- TwoInputs
    ChunkSize = 1
    Users <- OneUser
    Runs <- TwoRuns
    NumBatches = 3
    MaxTogether = 2
    MaxCrashes = 1
CHECK_DEADLOCK FALSE
INVARIANTS
    BatchesAgree
    BaselineIsReviewed
PROPERTIES
    BuildProgress
    BuildSettles
