------------------------ MODULE MCCustomerCommands ------------------------
(***************************************************************************)
(* Small instances of CustomerCommands: a fleet of one node with a bridge, *)
(* and one command of each kind in several orders of numbers.              *)
(***************************************************************************)
EXTENDS CustomerCommands

CONSTANTS node, bridge, n1, n2, c1, c2, direct, tag1, tag2

EntryOf == [t \in Target |-> IF t = node THEN n1 ELSE n2]

Apply(k, u, q) == [kind |-> "apply", number |-> k, until |-> u, quota |-> q]
Order(what, k) == [kind |-> what, number |-> k]

Fleet(a, b) == [t \in Target |-> IF t = node THEN a ELSE b]
OneFleet  == {Fleet(direct, tag1)}
AnyFleet  == {Fleet(direct, tag1), Fleet(direct, tag2), Fleet(direct, Outside)}

Renewals ==
    {Apply(1, 2, 1), Apply(2, 3, 1), Order("block", 2), Apply(3, 4, 1), Apply(3, 3, 2)}
Deletions ==
    {Apply(1, 1, 1), Order("block", 2), Order("unblock", 3), Order("delete", 2), Order("delete", 3)}

=============================================================================
