------------------------------ MODULE Metering ------------------------------
(***************************************************************************)
(* What the accounting of a node promises to a customer and to the service *)
(* that charges him.  Traffic that was reported is owed until it is        *)
(* settled, and it is settled once: charged to the open period, or waived  *)
(* for a reason.  Nothing else is charged, a closed period keeps its       *)
(* total, and the quota cuts a customer off in the very step in which he   *)
(* reaches it.  There are no batches, pulls, leases or replicas here.      *)
(***************************************************************************)
EXTENDS Naturals, FiniteSets

CONSTANTS
    Customer,
    Unit,         \* units of traffic
    TrafficOf,    \* the units of a customer's accesses
    SpoolOf,      \* the spool a unit was reported in
    Moments,      \* moments of collection, as a period for each customer
    Quota

VARIABLES
    period,       \* the latest period of a customer
    open,         \* it is his present one: he was not deleted since
    quota,        \* its limit
    total,        \* what each period has been charged
    exhausted,    \* the mark of the quota
    served,       \* customers with an access the topology agrees with
    void,         \* units of accesses that do not exist any more
    spool,        \* the agent's current spool
    owed,         \* reported and not settled, with the moment of collection
    settled,      \* charged or waived
    charged       \* charged

customerVars == <<period, open, quota, total, exhausted, void>>
trafficVars  == <<spool, owed, settled, charged>>
vars == <<customerVars, served, trafficVars>>

Init ==
    /\ period = [k \in Customer |-> 0]
    /\ open = [k \in Customer |-> FALSE]
    /\ quota \in [Customer -> Quota]
    /\ \A k \in Customer : total[k][0] = 0
    /\ exhausted = [k \in Customer |-> FALSE]
    /\ served = {}
    /\ void = {}
    /\ spool = 1
    /\ owed = {}
    /\ settled = {}
    /\ charged = {}

-----------------------------------------------------------------------------
(* Customers *)

\* Whether k is served may change, but nobody is served out of quota.
Serve(k) ==
    /\ served' \ {k} = served \ {k}
    /\ k \in served' => open'[k] /\ ~exhausted'[k]

Renew(k, limit) ==
    /\ period' = [period EXCEPT ![k] = @ + 1]
    /\ open' = [open EXCEPT ![k] = TRUE]
    /\ quota' = [quota EXCEPT ![k] = limit]
    /\ exhausted' = [exhausted EXCEPT ![k] = FALSE]
    /\ total[k][period[k] + 1] = 0
    /\ Serve(k)
    /\ UNCHANGED <<total, void, trafficVars>>

Limit(k, limit) ==
    /\ open[k]
    /\ quota' = [quota EXCEPT ![k] = limit]
    /\ exhausted' = [exhausted EXCEPT ![k] = total[k][period[k]] >= limit]
    /\ Serve(k)
    /\ UNCHANGED <<period, open, total, void, trafficVars>>

\* Blocks, manifests and the job that follows them.
Admit(k) ==
    /\ Serve(k)
    /\ UNCHANGED <<customerVars, trafficVars>>

End(k) ==
    /\ open[k]
    /\ open' = [open EXCEPT ![k] = FALSE]
    /\ exhausted' = [exhausted EXCEPT ![k] = FALSE]
    /\ void \subseteq void' /\ void' \ void \subseteq TrafficOf[k]
    /\ Serve(k)
    /\ UNCHANGED <<period, quota, total, trafficVars>>

-----------------------------------------------------------------------------
(* Traffic *)

Owing == {o.unit : o \in owed}

Report(units, at) ==
    /\ UNCHANGED <<customerVars, served, spool, settled, charged>>
    /\ units \cap (Owing \cup settled) = {}
    /\ owed' = owed \cup {[unit |-> x, at |-> at] : x \in units}

\* Only a spool that was lost takes unsettled traffic with it, at once or when
\* the last copy of a batch goes.
Lose ==
    /\ spool' \in {spool, spool + 1}
    /\ owed' \subseteq owed
    /\ \A o \in owed \ owed' : SpoolOf[o.unit] # spool'
    /\ UNCHANGED <<customerVars, served, settled, charged>>

Settle(units) ==
    /\ owed' = {o \in owed : o.unit \notin units}
    /\ settled' = settled \cup units
    /\ UNCHANGED <<period, open, quota, void, spool>>

Charge(k, units) ==
    /\ open[k]
    /\ units \subseteq TrafficOf[k]
    /\ Settle(units)
    /\ charged' = charged \cup units
    /\ total' = [total EXCEPT ![k][period[k]] = @ + Cardinality(units)]
    /\ exhausted' = [exhausted EXCEPT ![k] = total'[k][period[k]] >= quota[k]]
    /\ served' = IF exhausted'[k] THEN served \ {k} ELSE served

\* Why traffic of k is not charged: its access is no more, he was deleted, or
\* it belongs to a period that was closed before the report was dealt with.
Excused(k, o) == o.unit \in void \/ ~open[k] \/ o.at[k] < period[k]

Waive(units) ==
    /\ \A k \in Customer, o \in owed :
         o.unit \in units \cap TrafficOf[k] => Excused(k, o)
    /\ Settle(units)
    /\ UNCHANGED <<total, exhausted, served, charged>>

-----------------------------------------------------------------------------

Next ==
    \/ \E k \in Customer :
          \/ \E limit \in Quota : Renew(k, limit) \/ Limit(k, limit)
          \/ Admit(k) \/ End(k)
          \/ \E units \in SUBSET Owing : Charge(k, units)
    \/ \E units \in SUBSET {x \in Unit : SpoolOf[x] = spool}, at \in Moments : Report(units, at)
    \/ Lose
    \/ \E units \in SUBSET Owing : Waive(units)

Spec == Init /\ [][Next]_vars

=============================================================================
