SPECIFICATION Spec
CONSTANTS
    a1 = a1
    a2 = a2
    x1 = x1
    w1 = w1
    w2 = w2
    w3 = w3
    p1 = p1
    p2 = p2
    Free = Free
    Customer = {1}
    Access = {a1}
    OwnerOf <- OneOwner
    Stranger = {}
    Worker = {w1}
    Process = {p1}
    ProcessOf <- OneProcess
    Quota = {1}
    PullLimit = 2
    MaxSpool = 2
    MaxSeq = 3
    MaxPeriod = 1
    MaxEvents = 4
    Events = {"age", "fail", "crash", "lose", "repeat"}
INVARIANTS
    TypeOK
    LateRepeatIsFirstBatch
PROPERTIES
    AckedIsSettled
