SPECIFICATION Spec
CONSTANTS
    node = node
    bridge = bridge
    n1 = n1
    n2 = n2
    c1 = c1
    c2 = c2
    direct = direct
    tag1 = tag1
    tag2 = tag2
    Outside = Outside
    NoCommand = NoCommand
    Nobody = Nobody
    Target = {bridge}
    Node = {n2}
    EntryNode <- EntryOf
    Egress = {direct, tag1, tag2}
    Topologies <- AnyFleet
    Worker = {"materialize", "finalize"}
    Caller = {c1}
    Command <- Deletions
    Grace = 1
    MaxTime = 1
    MaxBytes = 0
    MaxGen = 2
    MaxManifests = 1
    MaxFailures = 0
CHECK_DEADLOCK FALSE
INVARIANT
    UnsettledHasOperation
