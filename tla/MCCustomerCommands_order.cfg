SPECIFICATION FairSpec
CONSTANTS
    node = node
    bridge = bridge
    n1 = n1
    n2 = n2
    c1 = c1
    c2 = c2
    direct = direct
    tag1 = tag1
    tag2 = tag2
    Outside = Outside
    NoCommand = NoCommand
    Nobody = Nobody
    Target = {node}
    Node = {n1}
    EntryNode <- EntryOf
    Egress = {direct, tag1, tag2}
    Topologies <- OneFleet
    Worker = {"expiry"}
    Caller = {c1, c2}
    Command <- Renewals
    Grace = 1
    MaxTime = 2
    MaxBytes = 1
    MaxGen = 1
    MaxManifests = 0
    MaxFailures = 0
CHECK_DEADLOCK FALSE
INVARIANTS
    TypeOK
    OnlyActivePresent
    SetIsTopology
    PeriodsPartition
PROPERTIES
    ImplementsSubscription
    ExpiredIsWithdrawn
    PromiseKept
