SPECIFICATION Spec
CONSTANTS
    a1 = a1
    a2 = a2
    n1 = n1
    n2 = n2
    w1 = w1
    w2 = w2
    r1 = r1
    r2 = r2
    c1 = c1
    c2 = c2
    Absent = Absent
    Free = Free
    Access = {a1, a2}
    Node = {n1}
    EntryNode <- OneNode
    Worker = {w1, w2}
    Reconciler = {r1, r2}
    Config = {c1}
    MaxVersion = 3
    MaxEvents = 1
    Events = {"crash", "fail", "lose"}
    LeaseCoversCall = TRUE
SYMMETRY ReplicaSymmetry
INVARIANTS
    CallsSerialized
    WorkerOwnsItsOperation
    NoLostWork
    AppliedIsTrue
    SucceededWasExecuted
    Fence
PROPERTIES
    TerminalStays
    ImplementsProvisioning
CHECK_DEADLOCK FALSE
