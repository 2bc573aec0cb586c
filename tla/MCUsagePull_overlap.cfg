SPECIFICATION Spec
CONSTANTS
    a1 = a1
    a2 = a2
    x1 = x1
    w1 = w1
    w2 = w2
    w3 = w3
    p1 = p1
    p2 = p2
    Free = Free
    Customer = {1, 2}
    Access = {a1, a2}
    OwnerOf <- TwoOwners
    Stranger = {}
    Worker = {w1, w2}
    Process = {p1}
    ProcessOf <- OneProcess
    Quota = {1}
    PullLimit = 1
    MaxSpool = 1
    MaxSeq = 2
    MaxPeriod = 1
    MaxEvents = 3
    Events = {"slow", "fail", "crash"}
SYMMETRY WorkerSymmetry
INVARIANTS
    CountedOnce
PROPERTIES
    AckedIsSettled
