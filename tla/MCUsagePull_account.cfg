SPECIFICATION FairSpec
CONSTANTS
    a1 = a1
    a2 = a2
    x1 = x1
    w1 = w1
    w2 = w2
    w3 = w3
    p1 = p1
    p2 = p2
    Free = Free
    Customer = {1}
    Access = {a1}
    OwnerOf <- OneOwner
    Stranger = {x1}
    Worker = {w1, w3}
    Process = {p1, p2}
    ProcessOf <- TwoProcesses
    Quota = {1}
    PullLimit = 1
    MaxSpool = 1
    MaxSeq = 2
    MaxPeriod = 1
    MaxEvents = 1
    Events = {"stall", "crash"}
PROPERTIES
    ImplementsMetering
    AllAccounted
