SPECIFICATION FairSpec
CONSTANTS
    a1 = a1
    a2 = a2
    n1 = n1
    n2 = n2
    w1 = w1
    w2 = w2
    r1 = r1
    r2 = r2
    c1 = c1
    c2 = c2
    Absent = Absent
    Free = Free
    Access = {a1}
    Node = {n1}
    EntryNode <- OneNode
    Worker = {w1}
    Reconciler = {r1}
    Config = {c1, c2}
    MaxVersion = 3
    MaxEvents = 2
    Events = {"lapse", "retire", "repoint", "drop", "crash", "fail", "late", "lose", "overtake"}
    LeaseCoversCall = FALSE
INVARIANTS
    TypeOK
    PendingIsCurrent
    AppliedWasExecuted
PROPERTIES
    Converges
CHECK_DEADLOCK FALSE
