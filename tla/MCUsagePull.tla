----------------------------- MODULE MCUsagePull -----------------------------
(***************************************************************************)
(* Small instances of UsagePull.                                           *)
(***************************************************************************)
EXTENDS UsagePull, TLC

CONSTANTS a1, a2, x1, w1, w2, w3, p1, p2

OneOwner   == [a \in Access |-> 1]
TwoOwners  == [a \in Access |-> IF a = a1 THEN 1 ELSE 2]
OneProcess == [w \in Worker |-> p1]
TwoProcesses == [w \in Worker |-> IF w = w3 THEN p2 ELSE p1]

WorkerSymmetry == Permutations({w1, w2})

=============================================================================
