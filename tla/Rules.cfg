SPECIFICATION Spec
CHECK_DEADLOCK FALSE
CONSTANTS
    Inputs <- MCInputs
    Unknown = Unknown
    Global = Global
    Private = {p1}
    Absent = Absent
    Junk = Junk
    Example = "example.com"
    Types = {"A", "AXFR"}
    Transports = {"udp", "tcp"}
    Modes = {"resolver", "authoritative"}
    Empty = Empty
    Comment = Comment
    Domains = {a, b, c}
    Headers = {head}
    MaxValidTarget = 2
    NoName = NoName
    Refused = Refused
    Environments = {"prod", "lab"}
    DefaultHops = 3
    Destination = dst
    NoAddress = NoAddress
    Nil = Nil
    RowLimit = 2
    StreamLimit = 2
    GlobalCode = Global
    GlobalName = "everywhere"
    ResultLimit = 2
    dst = dst
    via = via
    h = h
    z = z
    n1 = n1
    n2 = n2
    v1 = v1
    v2 = v2
    p1 = p1
    c1 = c1
    ra = ra
    rb = rb
    dead = dead
    a = a
    b = b
    c = c
    junk = junk
    head = head
    apex = apex
    www = www
INVARIANTS
    PlacementIsBest
    HostIsJudged
    
    InputIsRead
    BoardIsTrue
    SetsAccount
