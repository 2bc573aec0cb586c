----------------------------- MODULE MCManifest -----------------------------
EXTENDS Manifest

CONSTANTS a, b, d, k1, k2, k3, t1, t2, f, g

MCFleetOf == [c \in Customer |-> f]

Link(k, x, y, t) == [fleet |-> f, key |-> k, entry |-> x, exit |-> y, tag |-> t]
Snap(ns, fls, rs) ==
    [nodes |-> ns, fleets |-> fls, members |-> {[fleet |-> f, node |-> n] : n \in ns},
     routes |-> rs]
Sent(r, s, frees) == [revision |-> r, content |-> s, destructive |-> frees]

First == Snap({a, b, d}, {f, g}, {Link(k1, a, b, t1), Link(k3, b, a, t1)})

\* The pair of k1 moves to a new key, k3 gets another tag and a node leaves.
Moved == Snap({a, b}, {f, g}, {Link(k2, a, b, t1), Link(k3, b, a, t2)})

\* The key that was freed returns with its pair turned round.
Turned == Snap({a, b}, {f, g}, {Link(k1, b, a, t1)})

\* One pair under two keys; a node missing from its fleet.
Twice  == Snap({a, b}, {f, g}, {Link(k1, a, b, t1), Link(k2, a, b, t1)})
NoNode == Snap({a}, {f, g}, {Link(k2, a, b, t1)})

MCRequest ==
    {Sent(1, First, FALSE), Sent(2, Moved, FALSE), Sent(2, Moved, TRUE),
     Sent(2, Twice, TRUE), Sent(2, NoNode, TRUE),
     Sent(3, Turned, TRUE)}
=============================================================================
