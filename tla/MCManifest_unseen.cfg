SPECIFICATION Spec
CONSTANTS
    a = a
    b = b
    d = d
    k1 = k1
    k2 = k2
    k3 = k3
    t1 = t1
    t2 = t2
    f = f
    g = g
    Customer = {1}
    Fleet = {f, g}
    FleetOf <- MCFleetOf
    Node = {a, b, d}
    Key = {k1, k2, k3}
    Tag = {t1, t2}
    Request <- MCRequest
    NoContent = NoContent
    Replica = {w1}
    Caller = {p}
    Nobody = Nobody
    Gone = Gone
    Leaving = {}
    Expiring = {}
    MaxFailures = 0
INVARIANTS
    MaterializedIsEverywhere
