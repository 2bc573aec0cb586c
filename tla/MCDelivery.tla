----------------------------- MODULE MCDelivery -----------------------------
(***************************************************************************)
(* Small instances of Delivery.                                            *)
(***************************************************************************)
EXTENDS Delivery, TLC

CONSTANTS a1, a2, n1, n2, w1, w2, r1, r2, c1, c2

OneNode  == [a \in Access |-> n1]

WorkerSymmetry == Permutations(Worker)
ReplicaSymmetry == Permutations(Worker) \cup Permutations(Reconciler)

=============================================================================
