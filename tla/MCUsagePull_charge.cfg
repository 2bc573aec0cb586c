SPECIFICATION Spec
CONSTANTS
    a1 = a1
    a2 = a2
    x1 = x1
    w1 = w1
    w2 = w2
    w3 = w3
    p1 = p1
    p2 = p2
    Free = Free
    Customer = {1}
    Access = {a1, a2}
    OwnerOf <- OneOwner
    Stranger = {}
    Worker = {w1}
    Process = {p1}
    ProcessOf <- OneProcess
    Quota = {1, 2}
    PullLimit = 2
    MaxSpool = 1
    MaxSeq = 2
    MaxPeriod = 2
    MaxEvents = 1
    Events = {"skew", "drift"}
INVARIANTS
    ExhaustedExactly
    PresentIsEntitled
PROPERTIES
    ClosedPeriodFrozen
    ChargedWhileOpen
