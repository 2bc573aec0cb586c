----------------------------- MODULE UsagePull -----------------------------
(***************************************************************************)
(* How SpiritVPN charges the traffic of one node.  The agent collects      *)
(* deltas into numbered batches of a spool and keeps a batch until it is   *)
(* acknowledged.  The usage goroutines of every replica pull unacknowledged*)
(* batches, charge each item once to the quota period that contains the    *)
(* moment of collection, and move the cursor that the next pull will send  *)
(* as the acknowledgement.  A customer whose traffic reaches the quota     *)
(* loses the accesses of the node.                                         *)
(*                                                                         *)
(* An item is one unit of traffic of one accounting_id; accounting ids are *)
(* named by their access.  The open period of a customer is number         *)
(* period[k]; lower numbers are closed, and those up to removed[k] were    *)
(* deleted with their customer.  Commands appear through what they do to   *)
(* periods, quotas and accesses; nobody expires here.                      *)
(***************************************************************************)
EXTENDS Naturals, FiniteSets

CONSTANTS
    Customer,     \* customer ids: numbers, because groups are sorted by id
    Access,       \* rows of vpn_accesses on the node, never reused
    OwnerOf,      \* customer_id of an access
    Stranger,     \* accounting ids without a row, or of another entry node
    Worker,       \* usage goroutines
    Process,      \* replicas; a lease is held in the name of a process
    ProcessOf,    \* the process a goroutine runs in
    Free,         \* lease_owner IS NULL
    Quota,        \* values of usage_quota_bytes
    PullLimit,    \* maxUsageBatchesPerPull
    MaxSpool,     \* bound on the spools an agent ever has
    MaxSeq,       \* bound on the batches of a spool
    MaxPeriod,    \* bound on the periods of a customer
    MaxEvents,    \* bound on the number of disturbances in a behaviour
    Events        \* the disturbances a run allows

Disturbance == {"slow", "stall", "fail", "crash", "skew", "drift", "lose", "repeat", "age"}

ASSUME UsageAssumption ==
    /\ Customer \subseteq Nat
    /\ IsFiniteSet(Access)
    /\ OwnerOf \in [Access -> Customer]
    /\ Access \cap Stranger = {}
    /\ ProcessOf \in [Worker -> Process]
    /\ Free \notin Process
    /\ Quota \subseteq Nat \ {0}
    /\ PullLimit \in Nat \ {0}
    /\ MaxSpool \in Nat \ {0}
    /\ MaxSeq \in Nat \ {0}
    /\ MaxPeriod \in Nat
    /\ MaxEvents \in Nat
    /\ Events \subseteq Disturbance

VARIABLES
    lifecycle,    \* lifecycle_state; a customer without a row is DELETED
    period,       \* number of the latest period of a customer
    removed,      \* periods physically deleted
    quota,        \* usage_quota_bytes of the open period
    total,        \* total_bytes of a period on the node
    exhausted,    \* exhausted_at IS NOT NULL in the open period
    access,       \* state of a row of vpn_accesses
    drifted,      \* rows the newest topology no longer agrees with
    cursor,       \* spool_id and acked_sequence
    lease,        \* lease_owner, while the lease lasts
    registry,     \* traffic_usage_items_processed
    aged,         \* rows of it older than the retention
    quarantined,  \* rows per item in traffic_batch_quarantine
    spool,        \* agent: current spool and the last sequence it emitted
    pending,      \* agent: batches it still keeps
    task,         \* what each goroutine is doing
    counted,      \* history: how often an item was added to a total
    settled,      \* history: items charged, ignored or quarantined
    budget        \* disturbances left

customerVars == <<lifecycle, period, removed, quota, total, exhausted>>
accessVars   == <<access, drifted>>
registryVars == <<registry, aged, quarantined, counted, settled>>
nodeVars     == <<spool, pending>>
pullVars     == <<cursor, lease, task>>
vars == <<customerVars, accessVars, registryVars, nodeVars, pullVars, budget>>

Item   == Access \cup Stranger
Period == 0 .. MaxPeriod
Key    == [spool : 1 .. MaxSpool, seq : 1 .. MaxSeq, item : Item]
Cursor == [spool : 0 .. MaxSpool, seq : 0 .. MaxSeq]

\* at[k] is the period of k whose interval contains collected_at; one beyond
\* the latest stands for a moment after a renewal that is not committed yet.
Batch  == [seq : 1 .. MaxSeq, items : SUBSET Item,
           at : [Customer -> 0 .. MaxPeriod + 1]]

Lifecycle   == {"ACTIVE", "BLOCKED", "DELETING", "DELETED"}
AccessState == {"NONE", "PRESENT", "ABSENT", "RETIRED", "GONE"}

\* A goroutine sleeps, waits for the agent, picks the next batch of the
\* answer, consumes one, or is about to release its lease.
Idle      == [pc |-> "idle"]
Pulling   == [pc : {"pulling"}, from : Cursor]
Choosing  == [pc : {"choosing"}, at : Cursor, spool : 1 .. MaxSpool, rest : SUBSET Batch]
Consuming == [pc : {"consuming"}, at : Cursor, spool : 1 .. MaxSpool, rest : SUBSET Batch,
              batch : Batch, bad : SUBSET Item, known : SUBSET Access]
Releasing == [pc |-> "releasing"]
Task      == {Idle, Releasing} \cup Pulling \cup Choosing \cup Consuming

TypeOK ==
    /\ lifecycle \in [Customer -> Lifecycle]
    /\ period \in [Customer -> Period]
    /\ removed \in [Customer -> Period]
    /\ quota \in [Customer -> Quota]
    /\ total \in [Customer -> [Period -> Nat]]
    /\ exhausted \in [Customer -> BOOLEAN]
    /\ access \in [Access -> AccessState]
    /\ drifted \subseteq Access
    /\ cursor \in Cursor
    /\ lease \in Process \cup {Free}
    /\ registry \subseteq Key
    /\ aged \subseteq registry
    /\ quarantined \in [Key -> Nat]
    /\ spool \in [id : 1 .. MaxSpool, top : 0 .. MaxSeq]
    /\ pending \subseteq Batch
    /\ task \in [Worker -> Task]
    /\ counted \in [Key -> Nat]
    /\ settled \subseteq Key
    /\ budget \in 0 .. MaxEvents

Init ==
    /\ lifecycle = [k \in Customer |-> "DELETED"]
    /\ period = [k \in Customer |-> 0]
    /\ removed = [k \in Customer |-> 0]
    /\ quota \in [Customer -> Quota]
    /\ total = [k \in Customer |-> [p \in Period |-> 0]]
    /\ exhausted = [k \in Customer |-> FALSE]
    /\ access = [a \in Access |-> "NONE"]
    /\ drifted = {}
    /\ cursor = [spool |-> 0, seq |-> 0]
    /\ lease = Free
    /\ registry = {}
    /\ aged = {}
    /\ quarantined = [x \in Key |-> 0]
    /\ spool = [id |-> 1, top |-> 0]
    /\ pending = {}
    /\ task = [w \in Worker |-> Idle]
    /\ counted = [x \in Key |-> 0]
    /\ settled = {}
    /\ budget = MaxEvents

Spend(event) ==
    /\ event \in Events
    /\ budget > 0
    /\ budget' = budget - 1

-----------------------------------------------------------------------------
(* Customers *)

Rows(k)   == {a \in Access : OwnerOf[a] = k}
Live(k)   == {a \in Rows(k) : access[a] \in {"PRESENT", "ABSENT"}}
InSync(k) == Live(k) \ drifted

\* IsQuotaExhausted: reaching the limit exhausts it.
IsQuotaExhausted(bytes, limit) == bytes >= limit

\* DesiredStateForLifecycle, for a customer who has not expired.
DesiredState(state, isExhausted) ==
    IF state = "ACTIVE" /\ ~isExhausted THEN "PRESENT" ELSE "ABSENT"

Spent(k) == total[k][period[k]]

\* Rows change to the state wanted, new targets get their rows, targets that
\* left the topology are retired.
Rewrite(changed, new, gone, state) ==
    access' = [a \in Access |->
                 IF a \in gone THEN "RETIRED"
                 ELSE IF a \in changed \cup new THEN state
                 ELSE access[a]]

New(k) == {a \in Rows(k) : access[a] = "NONE"}

\* Create, reactivation and renewal of ApplyCustomerAccess: a new period with
\* nothing spent, and the accesses the topology lacks.
OpenPeriod(k, limit, new) ==
    LET to == IF lifecycle[k] = "DELETED" THEN "ACTIVE" ELSE lifecycle[k]
    IN  /\ lifecycle[k] # "DELETING"
        /\ period[k] < MaxPeriod
        /\ new \subseteq New(k)
        /\ lifecycle' = [lifecycle EXCEPT ![k] = to]
        /\ period' = [period EXCEPT ![k] = @ + 1]
        /\ quota' = [quota EXCEPT ![k] = limit]
        /\ exhausted' = [exhausted EXCEPT ![k] = FALSE]
        /\ Rewrite(InSync(k), new, {}, DesiredState(to, FALSE))
        /\ UNCHANGED <<removed, total, drifted, registryVars, nodeVars, pullVars, budget>>

\* RecomputeExhausted: the mark is set or taken off under the new limit.
RaisedOnly(k, limit)         == exhausted[k] \/ IsQuotaExhausted(Spent(k), limit)
RecomputeExhausted(k, limit) == IsQuotaExhausted(Spent(k), limit)

\* ApplyCustomerAccess with the same expires_at: another limit for the period.
ChangeQuota(k, limit, new) ==
    LET spent == RecomputeExhausted(k, limit)
    IN  /\ lifecycle[k] \in {"ACTIVE", "BLOCKED"}
        /\ new \subseteq New(k)
        /\ quota' = [quota EXCEPT ![k] = limit]
        /\ exhausted' = [exhausted EXCEPT ![k] = spent]
        /\ Rewrite(InSync(k), new, {}, DesiredState(lifecycle[k], spent))
        /\ UNCHANGED <<lifecycle, period, removed, total, drifted,
                       registryVars, nodeVars, pullVars, budget>>

Block(k) ==
    /\ lifecycle[k] = "ACTIVE"
    /\ lifecycle' = [lifecycle EXCEPT ![k] = "BLOCKED"]
    /\ Rewrite(Live(k), {}, {}, "ABSENT")
    /\ UNCHANGED <<period, removed, quota, total, exhausted, drifted,
                   registryVars, nodeVars, pullVars, budget>>

Unblock(k) ==
    /\ lifecycle[k] = "BLOCKED"
    /\ lifecycle' = [lifecycle EXCEPT ![k] = "ACTIVE"]
    /\ Rewrite(InSync(k), {}, {},
               DesiredState("ACTIVE", IsQuotaExhausted(Spent(k), quota[k])))
    /\ UNCHANGED <<period, removed, quota, total, exhausted, drifted,
                   registryVars, nodeVars, pullVars, budget>>

Delete(k) ==
    /\ lifecycle[k] \in {"ACTIVE", "BLOCKED"}
    /\ lifecycle' = [lifecycle EXCEPT ![k] = "DELETING"]
    /\ Rewrite(Live(k), {}, {}, "ABSENT")
    /\ UNCHANGED <<period, removed, quota, total, exhausted, drifted,
                   registryVars, nodeVars, pullVars, budget>>

Stored(k) == {a \in Rows(k) : access[a] \notin {"NONE", "GONE"}}

\* FinalizeNextDeletion, once the nodes confirmed that the users are gone.
Finalize(k) ==
    LET kept == {x \in registry : x.item \notin Stored(k)}
    IN  /\ lifecycle[k] = "DELETING"
        /\ lifecycle' = [lifecycle EXCEPT ![k] = "DELETED"]
        /\ removed' = [removed EXCEPT ![k] = period[k]]
        /\ exhausted' = [exhausted EXCEPT ![k] = FALSE]
        /\ access' = [a \in Access |->
                        IF a \in Stored(k) THEN "GONE" ELSE access[a]]
        /\ drifted' = drifted \ Rows(k)
        /\ registry' = kept
        /\ aged' = aged \cap kept
        /\ quarantined' = [x \in Key |-> IF x.item \in Stored(k) THEN 0 ELSE quarantined[x]]
        /\ UNCHANGED <<period, quota, total, counted, settled, nodeVars, pullVars, budget>>

\* A manifest moves the egress of a bridge or drops a target: until the job
\* reaches the customer the row disagrees with the topology.
Drift(a) ==
    /\ access[a] \in {"PRESENT", "ABSENT"}
    /\ a \notin drifted
    /\ Spend("drift")
    /\ drifted' = drifted \cup {a}
    /\ UNCHANGED <<customerVars, access, registryVars, nodeVars, pullVars>>

\* PlanMaterialize: retire what is gone, bring the rest up to date.
Materialize(k, gone, new) ==
    /\ lifecycle[k] \in {"ACTIVE", "BLOCKED"}
    /\ gone \subseteq drifted \cap Live(k)
    /\ new \subseteq New(k)
    /\ Rewrite(Live(k), new, gone,
               DesiredState(lifecycle[k], IsQuotaExhausted(Spent(k), quota[k])))
    /\ drifted' = drifted \ Rows(k)
    /\ UNCHANGED <<customerVars, registryVars, nodeVars, pullVars, budget>>

Commands(k) ==
    \/ \E limit \in Quota, new \in SUBSET Access :
          OpenPeriod(k, limit, new) \/ ChangeQuota(k, limit, new)
    \/ Block(k) \/ Unblock(k) \/ Delete(k) \/ Finalize(k)
    \/ \E gone, new \in SUBSET Access : Materialize(k, gone, new)

-----------------------------------------------------------------------------
(* The agent *)

\* The moments of collection, as periods: the latest one of each customer, or
\* its neighbours when the clock of the node is off, or a renewal has read
\* its time and waits for its locks.
Moment ==
    {at \in [Customer -> 0 .. MaxPeriod + 1] :
        \/ at = period
        \/ /\ "skew" \in Events
           /\ \A k \in Customer : at[k] <= period[k] + 1 /\ period[k] <= at[k] + 1}

Collect(items, at) ==
    /\ spool.top < MaxSeq
    /\ items # {}
    /\ items \subseteq Stranger \cup {a \in Access : access[a] # "NONE"}
    /\ IF at = period THEN UNCHANGED budget ELSE Spend("skew")
    /\ spool' = [spool EXCEPT !.top = @ + 1]
    /\ pending' = pending \cup {[seq |-> spool.top + 1, items |-> items, at |-> at]}
    /\ UNCHANGED <<customerVars, accessVars, registryVars, pullVars>>

\* A new SQLite file on the node: a new spool, numbered from one.
LoseSpool ==
    /\ spool.id < MaxSpool
    /\ Spend("lose")
    /\ spool' = [id |-> spool.id + 1, top |-> 0]
    /\ pending' = {}
    /\ UNCHANGED <<customerVars, accessVars, registryVars, pullVars>>

\* What the agent keeps after an acknowledgement: one of another spool, or
\* beyond what was emitted, is ignored.
Unacknowledged(ack) ==
    IF ack.spool = spool.id /\ ack.seq <= spool.top
      THEN {b \in pending : b.seq > ack.seq}
      ELSE pending

-----------------------------------------------------------------------------
(* The usage goroutines *)

Busy(w) == task[w] # Idle

Becomes(w, t) == task' = [task EXCEPT ![w] = t]

\* ClaimNode: nobody's lease, or our own.  A second goroutine of the process
\* gets there once the last attempt is minInterval old.
Claim(w) ==
    /\ ~Busy(w)
    /\ lease \in {Free, ProcessOf[w]}
    /\ IF \E v \in Worker : Busy(v) /\ ProcessOf[v] = ProcessOf[w]
         THEN Spend("slow")
         ELSE UNCHANGED budget
    /\ lease' = ProcessOf[w]
    /\ Becomes(w, [pc |-> "pulling", from |-> cursor])
    /\ UNCHANGED <<customerVars, accessVars, registryVars, nodeVars, cursor>>

\* GetNodeState: the agent drops what is acknowledged and returns the next
\* batches; one that is late in dropping returns a confirmed batch again.
Oldest(kept) == {b \in kept : Cardinality({c \in kept : c.seq < b.seq}) < PullLimit}

Answer(w, kept) ==
    /\ task[w].pc = "pulling"
    /\ pending' = kept
    /\ Becomes(w, [pc |-> "choosing", at |-> task[w].from, spool |-> spool.id,
                   rest |-> Oldest(kept)])
    /\ UNCHANGED <<customerVars, accessVars, registryVars, spool, cursor, lease>>

Pull(w) == task[w].pc = "pulling" /\ Answer(w, Unacknowledged(task[w].from)) /\ UNCHANGED budget

Repeat(w) ==
    /\ task[w].pc = "pulling"
    /\ pending # Unacknowledged(task[w].from)
    /\ Spend("repeat")
    /\ Answer(w, pending)

\* The call fails; the agent may have acted on the acknowledgement.
PullFails(w) ==
    /\ task[w].pc = "pulling"
    /\ Spend("fail")
    /\ pending' \in {pending, Unacknowledged(task[w].from)}
    /\ Becomes(w, Releasing)
    /\ UNCHANGED <<customerVars, accessVars, registryVars, spool, cursor, lease>>

\* The local cursor restarts with the spool; a confirmed batch is skipped.
PositionKept(t) == [t.at EXCEPT !.spool = t.spool]
Position(t) ==
    IF t.at.spool = t.spool THEN t.at ELSE [spool |-> t.spool, seq |-> 0]

\* Batches come in the order of their numbers.
IsNext(b, rest) == b \in rest /\ \A c \in rest : b.seq <= c.seq

SkipBatch(w, b) ==
    LET t == task[w]
    IN  /\ t.pc = "choosing"
        /\ IsNext(b, t.rest)
        /\ b.seq <= Position(t).seq
        /\ Becomes(w, [t EXCEPT !.at = Position(t), !.rest = @ \ {b}])
        /\ UNCHANGED <<customerVars, accessVars, registryVars, nodeVars, cursor, lease, budget>>

\* resolve: which items belong to a row of the node, withdrawn and retired
\* ones included.
ResolvedPresent(items) == {a \in items \cap Access : access[a] = "PRESENT"}
Resolved(items) == {a \in items \cap Access : access[a] \notin {"NONE", "GONE"}}

StartBatch(w, b) ==
    LET t     == task[w]
        known == Resolved(b.items)
    IN  /\ t.pc = "choosing"
        /\ IsNext(b, t.rest)
        /\ b.seq > Position(t).seq
        /\ Becomes(w, [pc |-> "consuming", at |-> Position(t), spool |-> t.spool,
                       rest |-> t.rest \ {b}, batch |-> b,
                       bad |-> b.items \ known, known |-> known])
        /\ UNCHANGED <<customerVars, accessVars, registryVars, nodeVars, cursor, lease, budget>>

KeyOf(t, i)     == [spool |-> t.spool, seq |-> t.batch.seq, item |-> i]
KeysOf(t, some) == {KeyOf(t, i) : i \in some}

\* A quarantine that gives up would let one bad item block its batch for ever.
QuarantineRefused(w) ==
    /\ task[w].pc = "consuming"
    /\ task[w].bad # {}
    /\ Becomes(w, Releasing)
    /\ UNCHANGED <<customerVars, accessVars, registryVars, nodeVars, cursor, lease, budget>>

\* QuarantineItems: one row per item, and the items marked as processed.
Quarantine(w) ==
    LET t    == task[w]
        keys == KeysOf(t, t.bad)
    IN  /\ t.pc = "consuming"
        /\ t.bad # {}
        /\ quarantined' = [x \in Key |->
                             IF x \in keys THEN quarantined[x] + 1 ELSE quarantined[x]]
        /\ registry' = registry \cup keys
        /\ settled' = settled \cup keys
        /\ Becomes(w, [t EXCEPT !.bad = {}])
        /\ UNCHANGED <<customerVars, accessVars, aged, counted, nodeVars,
                       cursor, lease, budget>>

\* GroupUsageItems: the group of the least customer id comes next.
GroupNext(t, k) ==
    /\ t.pc = "consuming"
    /\ t.bad = {}
    /\ k \in {OwnerOf[a] : a \in t.known}
    /\ \A a \in t.known : k <= OwnerOf[a]

Group(t, k) == {a \in t.known : OwnerOf[a] = k}

\* Leaving the loop after one group would let the batch be confirmed.
NoneLeft(t, k)  == {}
LeftAfter(t, k) == t.known \ Group(t, k)

\* LockPeriodAt: the open period has no end, a deleted one is not found.
PeriodAt(k, at) ==
    LET p == IF at < period[k] THEN at ELSE period[k]
    IN  IF p > removed[k] THEN p ELSE 0

\* The period items are charged to; any other one is closed.
OpenOrClosed(k, p) == p # 0
Open(k, p)         == p # 0 /\ p = period[k]

\* RegisterProcessed returns what the registry did not hold.
FreshOrNot(t, k) == Group(t, k)
Fresh(t, k)      == {a \in Group(t, k) : KeyOf(t, a) \notin registry}

\* The registry refers to vpn_accesses: a row that is gone fails the group.
Registrable(t, k) == \A a \in Fresh(t, k) : access[a] # "GONE"

Register(w, k) ==
    LET t == task[w]
    IN  /\ Registrable(t, k)
        /\ registry' = registry \cup KeysOf(t, Fresh(t, k))
        /\ settled' = settled \cup KeysOf(t, Group(t, k))
        /\ Becomes(w, [t EXCEPT !.known = LeftAfter(t, k)])

\* No period contains the moment: the group goes to quarantine, in a
\* transaction of its own.
NoPeriod(w, k) ==
    LET t == task[w]
    IN  /\ GroupNext(t, k)
        /\ PeriodAt(k, t.batch.at[k]) = 0
        /\ Becomes(w, [t EXCEPT !.bad = Group(t, k), !.known = LeftAfter(t, k)])
        /\ UNCHANGED <<customerVars, accessVars, registryVars, nodeVars, cursor, lease, budget>>

\* The period was closed meanwhile: the items are registered and ignored.
IgnoreClosed(w, k) ==
    LET p == PeriodAt(k, task[w].batch.at[k])
    IN  /\ GroupNext(task[w], k)
        /\ p # 0
        /\ p < period[k]
        /\ Register(w, k)
        /\ UNCHANGED <<customerVars, accessVars, aged, quarantined, counted, nodeVars,
                       cursor, lease, budget>>

\* LoadNodeAccesses: every access of the customer on the node, not only those
\* whose items arrived.
WithdrawnReported(t, k) == Live(k) \cap Group(t, k)
Withdrawn(t, k)         == Live(k)

\* PlanUsageGroup and WriteUsageGroup: fresh items are charged, and the first
\* crossing of the quota withdraws every access of the customer on the node.
Charge(w, k) ==
    LET t       == task[w]
        p       == PeriodAt(k, t.batch.at[k])
        fresh   == Fresh(t, k)
        sum     == total[k][p] + Cardinality(fresh)
        crosses == fresh # {} /\ ~exhausted[k] /\ IsQuotaExhausted(sum, quota[k])
    IN  /\ GroupNext(t, k)
        /\ Open(k, p)
        /\ Register(w, k)
        /\ total' = [total EXCEPT ![k][p] = sum]
        /\ counted' = [x \in Key |->
                         IF x \in KeysOf(t, fresh) THEN counted[x] + 1
                         ELSE counted[x]]
        /\ exhausted' = [exhausted EXCEPT ![k] = @ \/ crosses]
        /\ Rewrite(IF crosses THEN Withdrawn(t, k) ELSE {}, {}, {}, "ABSENT")
        /\ UNCHANGED <<lifecycle, period, removed, quota, drifted, aged, quarantined,
                       nodeVars, cursor, lease, budget>>

\* The insert meets an access that was deleted after resolve: an error.
GroupFails(w, k) ==
    /\ GroupNext(task[w], k)
    /\ PeriodAt(k, task[w].batch.at[k]) # 0
    /\ ~Registrable(task[w], k)
    /\ Becomes(w, Releasing)
    /\ UNCHANGED <<customerVars, accessVars, registryVars, nodeVars, cursor, lease, budget>>

AckBeyond(t) == [spool |-> t.spool, seq |-> t.batch.seq + 1]
Ack(t)       == [spool |-> t.spool, seq |-> t.batch.seq]

\* AdvanceCursor, after all groups: written whatever the row holds by now.
Advance(w) ==
    LET t == task[w]
    IN  /\ t.pc = "consuming"
        /\ t.bad = {}
        /\ t.known = {}
        /\ cursor' = Ack(t)
        /\ Becomes(w, [pc |-> "choosing", at |-> Ack(t), spool |-> t.spool, rest |-> t.rest])
        /\ UNCHANGED <<customerVars, accessVars, registryVars, nodeVars, lease, budget>>

Done(w) ==
    /\ task[w].pc = "choosing"
    /\ task[w].rest = {}
    /\ Becomes(w, Releasing)
    /\ UNCHANGED <<customerVars, accessVars, registryVars, nodeVars, cursor, lease, budget>>

\* The database refuses a step: the batch stays unconfirmed.  One that refuses
\* the release leaves the lease to expire.
Fail(w) ==
    /\ task[w].pc \in {"choosing", "consuming", "releasing"}
    /\ Spend("fail")
    /\ Becomes(w, IF task[w].pc = "releasing" THEN Idle ELSE Releasing)
    /\ UNCHANGED <<customerVars, accessVars, registryVars, nodeVars, cursor, lease>>

Release(w) ==
    /\ task[w].pc = "releasing"
    /\ lease' = IF lease = ProcessOf[w] THEN Free ELSE lease
    /\ Becomes(w, Idle)
    /\ UNCHANGED <<customerVars, accessVars, registryVars, nodeVars, cursor, budget>>

\* A process stops: its goroutines are gone, its lease is not.
Crash(p) ==
    /\ \E w \in Worker : Busy(w) /\ ProcessOf[w] = p
    /\ Spend("crash")
    /\ task' = [w \in Worker |-> IF ProcessOf[w] = p THEN Idle ELSE task[w]]
    /\ UNCHANGED <<customerVars, accessVars, registryVars, nodeVars, cursor, lease>>

\* The lease runs out: its holder stopped, or is stalled for minutes.
LeaseExpires ==
    /\ lease # Free
    /\ IF \E w \in Worker : Busy(w) /\ ProcessOf[w] = lease
         THEN Spend("stall")
         ELSE UNCHANGED budget
    /\ lease' = Free
    /\ UNCHANGED <<customerVars, accessVars, registryVars, nodeVars, cursor, task>>

-----------------------------------------------------------------------------
(* Retention of the registry *)

\* Six hours pass, far longer than a step of any goroutine takes.
Age ==
    /\ aged # registry
    /\ \A w \in Worker : ~Busy(w)
    /\ Spend("age")
    /\ aged' = registry
    /\ UNCHANGED <<customerVars, accessVars, registry, quarantined, counted, settled,
                   nodeVars, pullVars>>

\* PruneProcessedUsageItems: old rows of another spool than the cursor's, or
\* of a confirmed batch; a step deletes up to a limit of them.
PrunableByAge == aged
Prunable == {x \in aged : x.spool # cursor.spool \/ x.seq <= cursor.seq}

Prune(some) ==
    /\ some # {}
    /\ some \subseteq Prunable
    /\ registry' = registry \ some
    /\ aged' = aged \ some
    /\ UNCHANGED <<customerVars, accessVars, quarantined, counted, settled, nodeVars,
                   pullVars, budget>>

-----------------------------------------------------------------------------

Step(w) ==
    \/ Pull(w) \/ Quarantine(w)
    \/ task[w].pc = "choosing" /\ \E b \in task[w].rest : SkipBatch(w, b) \/ StartBatch(w, b)
    \/ \E k \in Customer :
          NoPeriod(w, k) \/ IgnoreClosed(w, k) \/ Charge(w, k) \/ GroupFails(w, k)
    \/ Advance(w) \/ Done(w) \/ Release(w)

Next ==
    \/ \E k \in Customer : Commands(k)
    \/ \E a \in Access : Drift(a)
    \/ \E items \in SUBSET Item, at \in Moment : Collect(items, at)
    \/ LoseSpool
    \/ \E w \in Worker : Claim(w) \/ Step(w) \/ Repeat(w) \/ PullFails(w) \/ Fail(w)
    \/ \E p \in Process : Crash(p)
    \/ LeaseExpires
    \/ Age
    \/ \E some \in SUBSET Prunable : Prune(some)

Spec == Init /\ [][Next]_vars

\* The loops never stop (runWorker); a lease of a stopped process runs out.
Fairness ==
    /\ \A w \in Worker : WF_vars(Claim(w)) /\ WF_vars(Step(w))
    /\ WF_vars(LeaseExpires)

FairSpec == Spec /\ Fairness

-----------------------------------------------------------------------------
(* Properties *)

Held == UNION {{[spool |-> spool.id, seq |-> b.seq, item |-> i] : i \in b.items} : b \in pending}

HasPeriod(k) == period[k] > removed[k]

\* No item is ever added to a total twice, however often its batch is pulled,
\* by whomever and after whatever failure (traffic_usage_items_processed).
CountedOnce == \A x \in Key : counted[x] <= 1

\* The agent drops a batch only when each of its items was charged, ignored
\* or quarantined: an acknowledgement never runs ahead of the accounting.
AckedIsSettled ==
    [][spool'.id = spool.id => Held \ Held' \subseteq settled]_vars

\* Traffic is not lost to quarantine or to a filter: when the agent drops a
\* batch whose moment lies in a period that is still open, every item whose
\* access still exists was charged, were it withdrawn or retired meanwhile.
ChargedWhileOpen ==
    [][spool'.id = spool.id =>
         \A b \in pending \ pending' : \A a \in b.items \cap Access :
            LET x == [spool |-> spool.id, seq |-> b.seq, item |-> a]
                k == OwnerOf[a]
            IN  (/\ access[a] # "GONE"
                 /\ HasPeriod(k)
                 /\ b.at[k] >= period[k]) => counted[x] > 0]_vars

\* Charging, changing the quota, renewing and reactivating agree on the mark:
\* it stands exactly while the spent traffic reaches the limit.
ExhaustedExactly ==
    \A k \in Customer :
        HasPeriod(k) => (exhausted[k] <=> IsQuotaExhausted(Spent(k), quota[k]))

\* Whoever is blocked, deleted or out of quota has no access on the node,
\* except for rows the materialization job has still to bring into line.
PresentIsEntitled ==
    \A a \in Access : access[a] = "PRESENT" =>
        /\ lifecycle[OwnerOf[a]] = "ACTIVE"
        /\ exhausted[OwnerOf[a]] => a \in drifted

\* A closed period is history: late batches do not change its totals.
ClosedPeriodFrozen ==
    [][\A k \in Customer, p \in Period :
         p < period[k] => total'[k][p] = total[k][p]]_vars

\* Outside its window the registry forgets; what may then be charged again is
\* the first batch of a spool and nothing else, because any other batch is
\* pruned only behind a cursor that keeps it from coming again.
LateRepeatIsFirstBatch == \A x \in Key : counted[x] > 1 => x.seq = 1

\* Every batch an agent holds is accounted for, or goes with its spool.
AllAccounted ==
    \A x \in Key : x \in Held ~> (x \in settled \/ spool.id # x.spool)

\* What the customer and the service that charges him see of all this is a
\* Metering: the items of a batch that anybody still holds are owed until they
\* are settled.
Batches(t) ==
    CASE t.pc = "choosing"  -> t.rest
      [] t.pc = "consuming" -> t.rest \cup {t.batch}
      [] OTHER              -> {}

Entry(s, b, i)   == [unit |-> [spool |-> s, seq |-> b.seq, item |-> i], at |-> b.at]
Entries(s, some) == UNION {{Entry(s, b, i) : i \in b.items} : b \in some}

Carrier  == {w \in Worker : Batches(task[w]) # {}}
Reported == Entries(spool.id, pending) \cup
            UNION {Entries(task[w].spool, Batches(task[w])) : w \in Carrier}
Owed     == {o \in Reported : o.unit \notin settled}
Charged  == {x \in Key : counted[x] > 0}
Present  == [k \in Customer |-> HasPeriod(k)]
Served   == {OwnerOf[a] : a \in {b \in Access \ drifted : access[b] = "PRESENT"}}
Void     == {x \in Key : x.item \in Access /\ access[x.item] = "GONE"}

TrafficOf == [k \in Customer |-> {x \in Key : x.item \in Rows(k)}]
SpoolOf   == [x \in Key |-> x.spool]
Moments   == [Customer -> 0 .. MaxPeriod + 1]

Meter == INSTANCE Metering WITH
    Unit <- Key, open <- Present, served <- Served, void <- Void, spool <- spool.id,
    owed <- Owed, charged <- Charged

\* Whoever pulls, crashes or pulls twice, the usage goroutines account as a
\* Metering does: what was reported is settled once, to the period it was used
\* in, and nothing else is charged.
ImplementsMetering == Meter!Spec

\* postgres/usage.go: an item marked as processed is not quarantined again.
QuarantinedOnce == \A x \in Key : quarantined[x] <= 1

\* main.go: the lease keeps a second goroutine off a node that is pulled.
OnePullPerNode == Cardinality({w \in Worker : Busy(w)}) <= 1

=============================================================================
