# SpiritVPN: verification of the control plane

SpiritVPN's backend (`spiritvpnd`, Go and PostgreSQL) decides which customer may
use which VPN node and makes the nodes' agents agree. This directory holds TLA+
models of it, the TLC configurations that check them on small instances, and
proofs, checked by TLAPS, of what matters most for instances of any size.

## 1. The system

One process, possibly several replicas, share one PostgreSQL database. All state
that matters is in its rows. A replica runs a gRPC surface and these loops
(`src/cmd/spiritvpnd/main.go:168-225`, `worker.go:189-238`):

| Component | State it keeps | Operations | Talks to |
|---|---|---|---|
| Customer commands: apply, set state, delete (`internal/app/apply_customer_access.go`, `set_customer_access_state.go`, `delete_customer_access.go`) | `customer_entitlements`, `quota_periods`, `node_quota_usage`, `vpn_accesses` | create, renew, change quota, block, unblock, delete; ordered by `command_number` | writes the outbox |
| Expiry worker (`expire_customers.go`) | none | withdraws the accesses of a lapsed customer | writes the outbox |
| Manifest ingest (`apply_fleet_manifest.go`, `domain/manifest*.go`) | `manifest_revisions`, topology tables, `vpn_nodes.current` | accept a snapshot of nodes, fleets, bridges | starts a materialization job |
| Materialization worker (`materialize_manifest.go`, `domain/materialize.go`) | `manifest_materialization_jobs` | per customer: create, retire, repoint accesses | writes the outbox |
| Usage worker, eight loops (`pull_usage.go`, `domain/usage.go`) | `node_usage_cursors`, `traffic_usage_items_processed`, quarantine, `node_quota_usage` | pull batches of a node, count them once, exhaust quotas | agent; writes the outbox; stores `needs_bootstrap` |
| Prune worker (`prune_usage_dedup.go`) | none | deletes old rows of the dedupe registry | |
| Dispatch workers, eight loops (`dispatch_operations.go`) | `agent_operations` (outbox and journal), `vpn_accesses.apply_state` | reap, lease, call, record | agent |
| Reconcile worker (`reconcile_nodes.go`, `inventory.go`) | lease, revision and bootstrap columns of `vpn_nodes` | claim a node, compare its inventory, send the full set, accept the result | agent; completes outbox rows |
| Deletion finalizer (`delete_customer_access.go`, `postgres/deletion.go`) | lifecycle columns | turns DELETING into DELETED when every access is confirmed absent | waits for the outbox |
| Links and node lists (`get_customer_access_links.go`, `list_available_nodes.go`, `domain/link.go`) | none (read only) | build VLESS links | |
| Node agent (external) | users of the node, usage spool | ensure present, ensure absent, reconcile, report state | Xray |
| Stats, metrics, logging, health, TLS, configuration, migrations runner | none of the above | observe, connect, start | |

What makes it hard:

* every step is a short transaction, and no lock spans a network call. What keeps
  two callers off one node is the `IN_FLIGHT` row (a partial unique index) and a
  reconcile lease, both with an expiry time;
* desired state is rewritten by five writers while older versions of it wait, are
  on the wire, or come back as late answers;
* a call may be executed although it was reported as failed, may be executed after
  newer calls, and an agent may lose everything;
* queries run under READ COMMITTED: a statement decides on a snapshot and locks
  afterwards;
* usage is delivered at least once and must be counted exactly once.

What makes each part correct: the outbox delivers the newest state and only it;
`APPLIED` and `SUCCEEDED` are never claimed for what a node did not do; a full set
excludes every other call; finished journal entries stay; every node settles on the
desired state (delivery and reconcile). Commands are monotone in
`command_number`; a deletion ends, and only when nothing is left on any node
(commands). Every usage item is counted once, a quota is exhausted once, and
exhaustion withdraws every access of the node (usage). A manifest is accepted
atomically and every customer is eventually materialized against the newest one
(manifest).

## 2. Delivery: from desired state to the nodes

`Delivery.tla` models the outbox, the dispatch workers, the reconcile worker, the
agents and every write of desired state.

### State

| Model | Code |
|---|---|
| `version[a]`, `goal[a][v]` | `vpn_accesses.desired_version` and the tuple `(desired_state, egress_key)` that version v carried |
| `applyState`, `retired` | columns `apply_state`, `retired_at` |
| `entitled[a]` | what `ListNodeDesiredUsers` and `DesiredStateFor` compute: lifecycle ACTIVE, `expires_at` in the future, quota not exhausted |
| `egress[a]` | the egress tag the newest materialized topology asks for |
| `status[a][v]` | the row of `agent_operations` of access a and version v; `"NONE"` if it was never issued |
| `revision`, `current`, `needsBootstrap`, `reconcileLease` | columns of `vpn_nodes` |
| `task[w]` | what a dispatch goroutine holds in memory between its two transactions |
| `rec[r]` | the same for the reconcile goroutine of a replica, with the claimed revision and full set |
| `users[a]` | the version whose state the node of a holds (0: no user) |
| `reached[a]` | history: the highest version the agent ever executed |
| `lost[n]` | the agent waits for a full set |
| `wire` | requests whose caller gave up and that may still be executed |
| `budget` | disturbances left |

A version's tuple never changes, so naming users by version lets the model compare
what a node holds with what was asked, now and earlier, without carrying payloads.

### Actions

| Action | Code |
|---|---|
| `Rewrite` (used by all writers) | new version, `SupersedeStaleOperations`, new outbox row, `desired_revision + 1`, one transaction (`postgres/apply.go:332-447`, the same in `expiry.go`, `usage.go`, `materialize.go`) |
| `Insert`, `Enable`, `RenewInTime` | `PlanAccessSet`, `PlanApply`, `PlanDesiredChanges` |
| `Lapse`, `Expire` | `expires_at` passes; `PlanExpiry` |
| `Exhaust`, `ForceAbsent`, `Retire`, `Repoint` | `PlanUsageGroup`, `PlanForceAbsent`, `planRetire`, `planRepoints` |
| `Drop`, `Restore` | `RetireNodes`, `UpsertVpnNode` |
| `BeginReap`, `EndReap` | `ReapExpiredOperationLeases`, split where the statement's snapshot and its write may be separated |
| `LeaseNext` | `LeaseNextOperation` with its gate and the unique index |
| `Deliver`, `Succeed`, `Refuse`, `GiveUp`, `Record`, `Crash` | `DispatchOperations.ProcessNext`, `deliver`, `record`; the outcomes of `classify` and `classifyTransport` |
| `ClaimSnapshot`, `ClaimLost`, `ClaimCommit` | `ClaimNodeForReconcile` and `ListNodeDesiredUsers`, split like the reaper |
| `Observe`, `Reconciled`, `ReconcileFails`, `Accept`, `Release`, `CrashReconciler` | `ReconcileNodes.ProcessNext`, `drifted`, `materialize`, `accept`, `release` |
| `PullReports` | `SetNodeNeedsBootstrap` |
| `Execute`, `ExecuteSet`, `ArriveLate`, `Lose` | the agent, external |

### Abstractions

* A writer changes one access per step; the transactions of the code change several
  accesses of one customer at once. Every state of the code is a state of the model;
  the model adds states in which some of them are not yet rewritten.
* Time is not modelled. A waiting operation and a node may be due at any moment; a
  lease may run out at any moment its holder does not exclude (`LeaseCoversCall`).
* `LeaseCoversCall = TRUE` states that a worker finishes before its lease ends:
  30 s against a 5 s call deadline for dispatch (`worker.go:53-57`,
  `nodeagent/client.go:18`), 5 min against 60 s for reconcile (`worker.go:121-125`,
  `nodeagent/reconcile.go:16`). The run `live` drops it.
* `Events` names the disturbances a run allows and `MaxEvents` bounds how many occur.
  `"overtake"` is the claim that overtakes a lease taken between snapshot and lock; it
  stands apart because it is what `overtaken_fence` is about.
* `MaxVersion` bounds `desired_version`. Commands leave the last version to the expiry
  worker (`HasRoom`), so that the bound never makes an access impossible to withdraw.
* Connections, TLS, encryption and the wire format of calls are not modelled; a
  credential that does not decrypt is a failed `Deliver` or `Observe`.

### Runs

All are instances of `MCDelivery`. `CHECK_DEADLOCK FALSE` because a bounded instance
really stops: no versions and no disturbances are left.

| Run | Instance | Shows |
|---|---|---|
| `rivals` | 2 accesses on one node, 2 workers, 2 reconcilers, 3 versions; 1 disturbance: failure, crash or lost state | `CallsSerialized`, `WorkerOwnsItsOperation`, `TerminalStays`, `NoLostWork`, `AppliedIsTrue`, `SucceededWasExecuted`, `Fence`, `ImplementsProvisioning` |
| `live` | 1 access, 2 configurations, worker and reconciler under `FairSpec`, 2 disturbances of any kind, leases that end early | `TypeOK`, `PendingIsCurrent`, `AppliedWasExecuted`, `Converges` |
| `overtaken_fence` (violation) | 1 access, worker and reconciler, 1 claim that overtakes a lease | `Fence` is refuted |

Two accesses on one node are enough for every rivalry over a node; the third
version lets a newest one overtake another that overtook a first; two workers and two
reconcilers give every pairwise interleaving, those of a worker with a reconciler of another replica
included. `rivals` has all of them at once and therefore a single disturbance and one configuration; `live` has two
of any kind, so a failure can meet a crash, a late request a lost state. The theorems below
extend the results of all but `Converges` to any number of accesses, workers, reconcilers and disturbances.

`overtaken_fence` is a finding. `docs/ARCHITECTURE.md:200` promises that an incremental call and
`ReconcileUsers` never run on one node at once, because the claim looks for an `IN_FLIGHT`
operation under the row lock. `ClaimNodeForReconcile` looks for it in its subquery, on the
snapshot of the statement, and locks the node afterwards (`queries/reconcile.sql:32`). A lease that
commits in between locks the row of `vpn_nodes` without writing it, so PostgreSQL has no reason to
evaluate the condition again, and both calls go out. `Fence` holds in `rivals`, where the claim is atomic.

`Provisioning.tla` is what delivery promises to those who write desired state, without leases,
attempts, inventories and full sets: an access is asked for in versions; its node executes
versions in their order, maybe not all of them; what is claimed of the newest one (OPEN, APPLIED,
FAILED) and the journal entry of its operation change together; both are
confirmed only by what the node has executed, and an entry is closed once. `ImplementsProvisioning` says that
`Delivery` implements it. PENDING, RETRY_WAIT and IN_FLIGHT are one open state of it (`Journals`), PENDING and
RETRYING one open claim (`Outcomes`); its `held` and `executed` are `users` and `reached`. Leasing, reaping, retrying, crashing
and claiming are stutters; a dispatch call and a full set, also one that was applied
in part, are both its `Execute`; a recorded success and an accepted full set are both its `Confirm`.
`NeverBackwards` follows from it, and no run repeats that.

Where a run leaves out a disturbance, its property does not survive it. Apart from
`overtaken_fence`, these disagreements between the code and its comments show up when the properties named
are checked in other instances; no run of the project repeats them:

* in the instance of `live`, `SucceededWasExecuted` fails: `CompleteNodeOperationsByReconcile`
  completes every waiting operation of the node, the ENSURE_PRESENT of a customer whose
  period has run out and who was left out of the delivered set included, against
  `queries/reconcile.sql:143` («Значит каждая ожидающая операция несёт состояние, которое
  полный набор только что доставил»);
* in the instance of `live`, `RetiredIsGone` fails: `planRetire` issues no operation for an
  access that is ABSENT already («Уже отсутствующему access доставлять нечего: операция была
  бы no-op», `domain/materialize.go:240`), but looks at the desired state and not at its
  delivery: when the earlier ENSURE_ABSENT is still waiting, the new version supersedes it
  and declares APPLIED, and the node keeps the user until a drift reconcile;
* with `"lapse"` in `rivals`, `AppliedIsTrue` fails: the user of a lapsed customer is
  removed by a full set while the row stays PRESENT and APPLIED
  (`queries/reconcile.sql:126`, against the comment at line 122);
* with `"retire"` in `rivals`, `NoLostWork` fails: an accepted set completes the operation
  of a retired access and leaves its row PENDING (`queries/reconcile.sql:130`);
* operations of a node that left the manifest are still leased
  (`queries/dispatch.sql:74`, against the comment at `domain/manifest_plan.go:294`), and an
  accepted full set leaves `needs_bootstrap` to the next usage pull
  (`queries/reconcile.sql:100`, against the comment at line 46).

### Fairness

`FairSpec` asks for weak fairness of every step a loop takes once it has begun
(`runWorker` never stops before shutdown), of the agent's answer, of the expiry worker,
of the usage worker's report and of the reaper. It asks for strong fairness of leasing
a given access and of claiming a given node: both are disabled again and again by other
work on the node, and both queries serve by age (`ORDER BY next_attempt_at`,
`ORDER BY reconcile_attempted_at NULLS FIRST`), so a due row is not passed over for
ever. Customers and disturbances owe nothing. `Converges` says where everything ends:
nodes of the manifest hold the desired tuple of entitled customers and nothing else.

### Proofs

`DeliveryProofs.tla` proves for every set of accesses, nodes, workers and
reconcilers and every bound, from `DeliveryAssumption` and, where the table says so,
from restrictions of the disturbances:

| Theorem | Statement |
|---|---|
| `TypeCorrect` | `Spec => []TypeOK` |
| `PendingCurrent` | `Spec => []PendingIsCurrent` |
| `WorkerOwns` | `Spec => []WorkerOwnsItsOperation` |
| `CallsAreSerialized` | `Spec => []CallsSerialized`: two callers of one node would own two `IN_FLIGHT` rows of it, which the unique index excludes (the lemma `OneInFlight`) |
| `JournalIsFinal` | with `LeaseCoversCall`, `Spec => TerminalStays` |
| `AppliedExecuted` | `Spec => []AppliedWasExecuted`, whatever the leases do |
| `FenceHolds` | `Spec => []Fence`, with `LeaseCoversCall` and without `"overtake"` |
| `SucceededExecuted` | `Spec => []SucceededWasExecuted`, without `"lapse"`, whatever the leases do |
| `NoWorkIsLost` | `Spec => []NoLostWork`, without `"lapse"` and `"retire"`, whatever the leases do |
| `NodesNeverGoBack` | `Spec => NeverBackwards`, with `LeaseCoversCall`, without `"late"` and `"overtake"` |
| `AppliedHolds` | `Spec => []AppliedIsTrue`, with `LeaseCoversCall`, without `"late"`, `"overtake"`, `"lapse"`, `"retire"` and `"drop"` |

`WorkerOwnsItsOperation` is not inductive by itself: two workers might own the same
row, and the first to record would take it from the second. `Owned` adds that no two
workers hold one operation and that a reaper never holds a fresh one. `Grounded` says
that rows with an operation belong to existing versions. `AppliedWasExecuted` needs
more: a worker that carries `SUCCEEDED` (`OutcomeConfirmed`) and a reconciler that
carries an answer (`SetConfirmed`) carry something the agent really executed, and a
claimed set is not newer than the rows (`ClaimInPast`) and, while the node's
`desired_revision` is what it was, not older either for whatever still has an
operation (`ClaimCurrent`). TLC checked each strengthening before it was proved.

`Fence` is `ClaimHoldsLease` (who carries a claim holds the node's lease) and
`ClaimKeepsOut` (nothing is IN_FLIGHT on the node while a claim lasts): leasing asks for a free
lease, claiming for a node with nothing IN_FLIGHT, so each keeps the other true, and a caller
would own an IN_FLIGHT row. `NeverBackwards` builds on that: what a worker or a claim is about to
send is not older than what the node has executed (`TaskAhead`, `SetAhead`), because it was
not when it was leased or claimed and nobody else reaches the node meanwhile
(`NobodyElse`, `OnlyTheClaim`). `SucceededWasExecuted` and `NoLostWork` need that an
accepted set covers every operation it closes (`ClaimCovers`), which a lapsed
customer breaks (`EntitledIfPresent`), and the latter that no access is retired and that a reaper does not
think an access newer than it is (`SeenInPast`). `AppliedIsTrue` puts these together: an agent that
did not lose its state holds what it executed last (`UsersAreReached`), that is the
current version (`AppliedWasExecuted`, `ReachedInPast`), or the access is absent from the
start (`UncarriedIsFirst`). The restrictions of the theorems are wider than the runs
(`repoint` in the last two, any number of disturbances in all), and each of them that the list of
disagreements above or `overtaken_fence` names is needed.

`ProvisioningProofs.tla` adds the refinement:

| Theorem | Statement and argument |
|---|---|
| `Provisioned` | `Spec => ImplementsProvisioning`, with `LeaseCoversCall`, without `"late"`, `"overtake"`, `"lapse"` and `"retire"`, for any accesses, nodes, workers, reconcilers and bounds |

The mapping rests on `Delivered`, the conjunction of the invariants above with `SetWhole` (a full set
leaves nobody out, so it is not older than what the node has executed) and `OpenIsUnconfirmed`:
an operation of the newest version that may still end leaves the row unconfirmed, and a version
without an operation counts as applied. The latter is why a retry
changes nothing an outsider sees. One lemma maps each kind of step. `RewriteAsks`: every
writer is one `Ask`, which overtakes what waits; it is silent only if it asks for nothing and there
is nobody to tell (`SilentAsks`). `OperationExecutes`, `FullSetExecutes`: nothing older than before is
executed. `RecordMaps`: the row is the worker's own (`Owned`), so the outcome closes an open entry. `ReapMaps`: an
overtaken operation is abandoned, another one stays open. `AcceptMaps` is the
delicate one: an accepted set closes all waiting operations of a node and confirms the accesses
it satisfied, and these must be the same accesses; that follows from what holds *after* the step
(`SucceededWasExecuted'`, `AppliedWasExecuted'`, `NoLostWork'`) and from `ClaimKeepsOut`.

Each of the five restrictions is needed: TLC refutes `ImplementsProvisioning` in an instance like
`rivals` when any one of them is dropped. A late request makes a node execute an older version. With a
reconcile lease that ends early, or one that overtakes a dispatch lease, a full set calls an access
applied whose operation is still IN_FLIGHT. A lapsed customer's operation is completed by a
set that left him out. A retirement issues no operation although
a withdrawal may still be waiting.

Only model-checked: the liveness property, which is out of the prover's reach, as is
`ENABLED`.

## 3. Usage: every byte once

`UsagePull.tla` models one node: the agent's spool, the usage goroutines of all
replicas, the registry of processed items and its pruning, and what commands,
deletion and materialization do to the rows that accounting reads. Nodes share
neither cursors nor usage rows; a quota counts per node.

### State

| Model | Code |
|---|---|
| `lifecycle`, `quota`, `exhausted` | `lifecycle_state`, `usage_quota_bytes` of the open period, `exhausted_at` of its row in `node_quota_usage` |
| `period[k]`, `removed[k]` | rows of `quota_periods` in order; the latest is open, those up to `removed[k]` were deleted with their customer |
| `total[k][p]` | `total_bytes` of period p on the node |
| `access[a]` | row of `vpn_accesses`: not yet created, desired PRESENT or ABSENT, retired, deleted |
| `drifted` | rows that disagree with the newest topology until the materialization job gets to them |
| `cursor`, `lease` | the node's row of `node_usage_cursors` |
| `registry`, `aged` | `traffic_usage_items_processed`; its rows older than six hours |
| `quarantined` | rows of `traffic_batch_quarantine` per item |
| `spool`, `pending` | the agent: current spool and last number, batches it keeps |
| `task[w]` | what a goroutine holds in memory: the cursor it claimed, the batches of the answer, the rest of the current batch |
| `counted`, `settled` | history: how often an item was added to a total; items charged, ignored or quarantined |

### Actions

| Action | Code |
|---|---|
| `OpenPeriod`, `ChangeQuota` | `ApplyCustomerAccess.Execute`, `PlanApply`: creation, reactivation, renewal; another limit with the same `expires_at` |
| `Block`, `Unblock`, `Delete` | `SetCustomerAccessState.Execute`, `DeleteCustomerAccess.Execute` |
| `Finalize` | `FinalizeNextDeletion` |
| `Drift`, `Materialize` | an accepted manifest; `PlanMaterialize` |
| `Claim`, `Release`, `LeaseExpires` | `ClaimUsageNode`, `ReleaseUsageLease` |
| `Pull`, `Repeat`, `PullFails` | `GetNodeState` and what the agent does with the acknowledgement |
| `SkipBatch`, `StartBatch` | the head of the loop in `consume`, with the change of spool; `resolve` |
| `Quarantine` | `QuarantineItems` |
| `Charge`, `IgnoreClosed`, `NoPeriod`, `GroupFails` | one transaction of `consumeGroup`: `LockQuotaPeriodAt`, `RegisterProcessed`, `PlanUsageGroup`, `WriteUsageGroup` |
| `Advance`, `Done`, `Fail`, `Crash` | `AdvanceCursor`, the end of the batches, an error of the database, the end of the process |
| `Age`, `Prune` | six hours pass; `PruneProcessedUsageItems` |
| `Collect`, `LoseSpool` | the agent, external |

A step is one transaction or one call: between any two of them another
goroutine, another replica, a command or a crash may come.

### Abstractions

* An item is one unit of traffic of one access, so a total is a number of items and a
  quota a number of units. Uplink and downlink are added alike in the code.
* Time is the number of a period. `at[k]` of a batch is the period of customer k that
  contains `collected_at`: the latest one, or, with `"skew"`, a neighbour. That covers
  clocks of nodes that are off and a renewal that read `now()` but waits for its locks.
* Nobody expires: `PlanUsageGroup` does not look at `expires_at`, and expiry changes no
  usage row.
* `needs_bootstrap`, which the pull stores too, is `PullReports` of `Delivery`. That the
  write may fail is part of `Fail`.
* A second goroutine of the same process may claim the node once `updated_at` is older
  than `usagePullInterval`; that is the disturbance `"slow"`. A lease that runs out under
  a living process is `"stall"`.
* `Age` happens only while no goroutine is at work: six hours against a lease of five
  minutes.
* `MaxSpool`, `MaxSeq`, `MaxPeriod` bound spools, batches and periods, `MaxEvents` the
  disturbances. Access rows are never reused, so `Access` also bounds how often a
  target may come back.

### Runs

All are instances of `MCUsagePull`. Deadlock is checked: commands never run out.

| Run | Instance | Shows |
|---|---|---|
| `usage_overlap` | 2 customers in a batch, 2 goroutines of one process, 2 batches, 3 disturbances: slow, failure, crash | `CountedOnce`, `AckedIsSettled` |
| `usage_charge` | 2 accesses of one customer, 2 limits, 2 periods, 2 batches; a clock that is off or a manifest | `ExhaustedExactly`, `PresentIsEntitled`, `ClosedPeriodFrozen`, `ChargedWhileOpen` |
| `usage_retention` | 1 goroutine, 2 spools of 3 batches, 4 disturbances: aging, failure, crash, lost spool, repeated batch | `TypeOK`, `LateRepeatIsFirstBatch`, `AckedIsSettled` |
| `usage_account` | 1 access and 1 unknown id, 2 replicas under `FairSpec`, 2 batches; a stall or a crash | `ImplementsMetering`, `AllAccounted` |

`Metering.tla` is what all of this promises to a customer and to the service that charges
him. Reported traffic is *owed*, with its moment, until it is *settled*: charged, to the open
period, or waived, for one of three reasons (its access is deleted, the customer has no period,
or its period was closed). Charging adds exactly the units to the total and cuts the customer
off in the same step if he reaches the quota; nobody is served without a period or above the
quota; only a spool that is replaced takes unsettled traffic with it. `ImplementsMetering` says
that `UsagePull` implements it. The mapping reads `owed` off everything that still holds a
batch: the agent and the answers that goroutines have in memory. Batches, pulls, leases, the
cursor and the registry are not in `Metering`; an acknowledgement must be a stutter, so it may
not drop an unsettled item, and a batch consumed twice must find nothing left to charge.
It contains what `CountedOnce` and `ClosedPeriodFrozen` say, and that whoever holds the last
copy of a batch does not let go of it before it is settled.

Two goroutines and two batches let the slower one write an older cursor after the
faster one moved on; three disturbances let that meet a failed group and a crash. A
third batch lets a wrong position after a new spool jump over one. Two limits and a
batch of two accesses make a total jump over a quota, meet it exactly and stay below
it. `CountedOnce` (while no row has aged), `AckedIsSettled` and the properties of
`usage_charge` are proved for all instances below, every combination of disturbances
included; so is `ImplementsMetering` (while no row has aged), although its run has one
customer, one limit and no spool to lose.

`LateRepeatIsFirstBatch` is checked with one goroutine: with two that overlap, the
cursor may move back, and after six hours any batch behind it may be charged again.
The documents accept a second charge after such an outage; the run says how far it can
reach when pulls do not overlap, and `LateRepeatFirst` below proves it for any number of
replicas that neither outlive the pause nor their lease. That the first batch of a spool is exposed at all is
against `docs/DATABASE.md:419` («Неподтверждённое не удаляется»): until its cursor is
written, its rows carry a spool the cursor does not name and count as rows of a spool
that is gone (`queries/usage.sql:254`).

Two statements of comments do not hold. They are stated as properties that no run of the
project repeats:

* `QuarantinedOnce` fails in the instance of `usage_account`. The comment of
  `QuarantineItems` (`postgres/usage.go:101`) means the mark to prevent a second quarantine
  row («карантинная строка без отметки processed означала бы, что item приедет снова и
  попадёт в карантин повторно»), but nothing reads it: `QuarantineUsageItems` inserts
  unconditionally, so a batch retried after its quarantine quarantines the same items again.
* `OnePullPerNode` fails in the instance of `usage_overlap`. «вторую горутину на ту же ноду
  не пускает её lease» (`cmd/spiritvpnd/main.go:198`), but the claim accepts a lease of the
  same owner and all eight goroutines of a process share `workerOwner()`; only `updated_at`,
  15 s, keeps them apart, while one pull may take 30 s before its batches are consumed.

### Fairness

`FairSpec` asks for weak fairness of `Claim` and of `Step` for every goroutine, because
`runWorker` loops until shutdown and claims by age (`ORDER BY updated_at`), and of
`LeaseExpires`, because time passes. Agents and disturbances owe nothing, and there
are finitely many disturbances, so some pull succeeds. `AllAccounted` speaks of one
node, which the order of the claim does not pass over.

### Proofs

`UsageProofs.tla` proves from `UsageAssumption`, for every number of customers,
accesses, goroutines, replicas, spools and batches:

| Theorem | Statement and argument |
|---|---|
| `TypeCorrect` | `Spec => []TypeOK` |
| `ClosedFrozen` | `Spec => ClosedPeriodFrozen`: only `Charge` writes totals, and only of the open period |
| `MarkIsExact` | `Spec => []ExhaustedExactly`, inductive with `MarkInv`: deleted periods are not later than the latest, later ones have no traffic, and a customer who is not DELETED has an open period |
| `PresentEntitled` | `Spec => []PresentIsEntitled`, from `MarkInv`: `Unblock` and `Materialize` recompute exhaustion from bytes and limit, everyone else reads the mark, and both must agree |
| `OnceWhileYoung` | without `"age"`, `Spec => []CountedOnce`. `OnceInv`: no row has aged, and a counted item is remembered, by its row or because its access was deleted and its id can never be resolved again |
| `AckedSettled` | `Spec => AckedIsSettled`, `"age"` included. `OrderInv`: batches of a spool have different numbers; whatever position a cursor, a claimed or a local one names, every kept batch up to it is settled; and the batches a goroutine has still to consume contain every unsettled kept one below each of them |
| `ChargedOpen` | `Spec => ChargedWhileOpen`, every disturbance included. `ChargeInv`: copies of a batch agree (`Unambiguous`); a settled item of a batch that somebody still carries was counted, or its access is deleted, or its moment lies before the open period (`AllExplained`); what is about to be quarantined has such a reason already (`InHand`); a deleted customer has no rows (`Emptied`). With `OrderInv` and `MarkInv` |
| `LateRepeatFirst` | without `"slow"` and `"stall"`, `Spec => []LateRepeatIsFirstBatch`. `LaterInv`: a goroutine consumes only what lies beyond the cursor (`BeyondCursor`), the agent keeps batch 1 until the cursor names its spool (`FirstKept`), and a later batch that was counted is in the registry, behind the cursor or without its access (`Withheld`) |

`AckedIsSettled` needs the last two because the acknowledgement of one pull is the
position another goroutine wrote: a cursor that moves back is harmless, one that
jumps over a kept and unsettled batch is not, and `OrderInv` is what rules that out.

`ChargedWhileOpen` has to look at two goroutines that hold copies of one batch: one may
have ignored an item that the other one then finds registered. `Unambiguous` says that the
copies are equal, so that the reason for which one goroutine did not charge an item holds
for the other, and reasons last: an access stays deleted and a closed period stays closed.
`LateRepeatFirst` is where the cursor's order matters. The invariant's core is
`BeyondCursor`; that a batch of a spool the cursor does not name yet is its first one is
what leaves the first batch exposed and no other. `Exclusive` (who is busy holds the lease,
as long as nobody outlives it or the pause) is needed: with two goroutines at a node the cursor moves back and `LaterInv` is false.

`MeteringProofs.tla` builds on them:

| Theorem | Statement and argument |
|---|---|
| `Metered` | without `"age"`, `Spec => ImplementsMetering`, every other disturbance included, step by step: `OpenPeriod` is a `Renew`, `ChangeQuota` a `Limit`, `Finalize` an `End`, the other commands and `Drift` are an `Admit`, `Collect` is a `Report`, `Charge` a `Charge`, `Quarantine` and `IgnoreClosed` are a `Waive`, and every other step is a `Lose` that loses nothing unless the spool is replaced |

The invariant `MeterInv` takes `MarkInv`, `OrderInv`, `ChargeInv` and `OnceInv` together with
two facts of its own. `Remaining`: a settled item of an access that still exists is in the
registry, so what the registry does not hold was never settled and is charged for the first
time; this is where aging would break the refinement. `Copies`: a batch of the current spool that a goroutine
holds is with the agent too or settled, so a crash of the goroutine loses nothing. A waived
item's reason is found in `InHand`, the agreement of copies (`Unambiguous`) gives an owed unit its one
moment, and `PresentIsEntitled` before and after the step gives who is served.

Only model-checked: `AllAccounted`, which as a liveness property is out of the prover's
reach.

## 4. Commands: one customer's rows

`CustomerCommands.tla` models everything that writes the rows of one customer: the three
commands of the customer service, the expiry worker, the materialization of the customer,
the usage worker's charge and the finalizer of a deletion. `Delivery` takes the writes of
a desired tuple as they come, one access at a time; this module has the rules they follow.

Every writer locks the root row in `customer_entitlements` first and keeps it until it
commits, so what happens under the lock is one step and two customers do not meet. What a
transaction reads *before* it has the lock is kept apart: `request[c].at` and `begun[w]`
are its `now()` (which PostgreSQL fixes when the transaction starts), and a worker
chooses its customer in one step and acts on him in a later one.

### State

| Model | Code |
|---|---|
| `life`, `expires`, `last`, `stamp`, `eraseAfter` | `lifecycle_state`, `expires_at`, `last_command_number`, `last_command_fingerprint`, `delete_not_before` |
| `opened`, `quota`, `closed` | the open row of `quota_periods` and the closed ones |
| `total[n]` | `node_quota_usage.total_bytes` of the open period; its mark is `total >= quota`, which section 3 proves |
| `gen[t]`, `access[t][g]` | rows of `vpn_accesses` by logical target and generation: state, egress, `retired_at`, `apply_state`, its newest operation (`op`), an older one still on its way (`stray`) |
| `topology`, `live`, `drifted` | the fleet's targets, `vpn_nodes.current`, a manifest whose job has not come by |
| `request[c]`, `begun[w]` | transactions that have started and wait for the lock |
| `reply` | what Delete answered in the last step |
| `clock`, `manifests`, `failures` | time, and two bounds |

### Actions

| Action | Code |
|---|---|
| `Begin`, `Abandon` | `WithinTx`, `WithinLifecycleTx`: the transaction starts; the connection breaks and it rolls back |
| `Create`, `Renew`, `ChangeQuota` | `ApplyCustomerAccess.Execute` with `ClassifyApply`, `PlanApply` |
| `Block`, `Unblock` | `SetCustomerAccessState.Execute` |
| `StartDelete`, `DeleteAgain` | `DeleteCustomerAccess.Execute` |
| `NoEffect` | stale and repeated commands, and every refusal |
| `ChooseExpired`, `Expire` | `LockNextDueExpiredCustomer`, `PlanExpiry` |
| `ChooseMaterialize`, `Materialize` | `NextCustomerAfter`, `PlanMaterialize` |
| `ChooseErasure`, `Finalize` | `LockNextDeletionCandidate`, `FinalizeNextDeletion` |
| `Charge` | `WriteUsageGroup` as far as this customer is concerned |
| `Send`, `Deliver`, `Fail`, `EndStray` | a dispatch worker, reduced to what the writers ask about |
| `Reconcile` | `AcceptReconcile` of a node |
| `Manifest`, `Tick` | a manifest is accepted; time passes |
| `LinkState`, `Shown` (operators) | `LinkStatusOf`, `ListCustomerAccessLinks` |

### Abstractions

* A fingerprint is the command itself: equal commands, equal fingerprints.
* The fleet of every command is the customer's; the refusal of another one changes nothing.
* Expiry, quota and generation are small numbers, `MaxTime`, `MaxBytes`, `MaxGen` their
  bounds. `Blank` stands for a row that does not exist.
* Delivery is reduced to waiting, sent, ended. `Delivery` has the rest.
* Several manifests in one step are several `Manifest` steps; `drifted` says that the job
  has not come by since the last of them. That it comes is section 5.

### Runs

All are instances of `MCCustomerCommands`, with `CHECK_DEADLOCK FALSE`: the clock, the
periods and the generations are bounded, so an instance really stops.

| Run | Instance | Shows |
|---|---|---|
| `commands_order` | one node, 2 connections and the expiry worker; creation, two renewals, another quota, a block with numbers 1, 2, 2, 3, 3; 3 moments, 1 unit of traffic | `TypeOK`, `OnlyActivePresent`, `SetIsTopology`, `PeriodsPartition`, `ImplementsSubscription`, `ExpiredIsWithdrawn`, `PromiseKept` |
| `commands_deletion` | a bridge that changes its exit, leaves and returns (2 manifests), 1 connection, materialization and finalizer, block, unblock and two deletions; 1 failed operation | `SetIsTopology`, `ErasedOnlyWhenSettled`, `CompletedMeansErased`, `DeletionEnds` |
| `orphaned_deletion` (violation) | the same with 1 manifest and no failure | `UnsettledHasOperation` is refuted |

Two commands with one number meet as a conflict and in either order; a third number lets
a newest one pass two that wait. Three moments put a renewal's `now()` before, at and
after the beginning of the open period. Two generations let a retired row of a target be
behind a new one. The theorems extend every safety property of these runs to all instances.

`Subscription.tla` is what the customer service is promised: commands take effect at most
once and in the order of their numbers, the paid time never shrinks, a block or a deletion
holds until a later command lifts it, access is granted only while the subscription is
active, and a deletion ends in a tombstone that keeps the number. `ImplementsSubscription`
says that `CustomerCommands` implements it, with `granted` refined by "some access is
PRESENT". Topology, time, quotas, operations and transactions that wait for a lock are
not in it: the steps of all of these must be its `Regrant`, or a stutter.

`SetIsTopology` is the other half: while the subscription runs and no manifest waits for
its job, the accesses are exactly the targets of the fleet, with their egress, and PRESENT
exactly where the quota allows. In `commands_order` it fails if an expiry that was chosen before a renewal
is carried out after it, and in `commands_deletion` if a materialization overlooks a moved exit.

`PromiseKept` is about a comment of `domain/link.go`: PENDING tells the customer that the link will appear by
itself. It holds in `commands_order`; `Promised` is shown, not blocked, not FAILED and not yet
READY. Its counterpart does not hold: FAILED is said not to repair itself, but the
periodic reconcile can turn FAILED into APPLIED.

### What the code does against its documents

* `orphaned_deletion` is a finding: `MarkNodeAccessesApplied` skips retired rows,
  `CompleteNodeOperationsByReconcile` completes their operations, and
  `CustomerDeletionReady` counts them. `DeletionEnds` names that case (`Stuck`) along
  with operations that failed for good and nodes that left the manifest.
* A stale Delete of a customer who was reactivated answers COMPLETED
  (`delete_customer_access.go:57`), against `docs/API.md:295` («backend не сообщает
  `COMPLETED`, пока отсутствие не подтверждено»). `CompletedMeansErased` leaves this case
  out and shows that it is the only one.

### Fairness

`FairSpec` asks for weak fairness of time, of the expiry worker's and the finalizer's two
steps (`runWorker` loops until shutdown), of leasing an operation and of the end of an
overtaken one (a call has a deadline), of the answer of an agent whose node is in the
manifest, and of the periodic reconcile of a node. Customers, manifests, failures and
materialization owe nothing here.

### Proofs

`CommandsProofs.tla` proves, from `CustomerAssumption` alone, for every fleet, every set
of commands, any number of connections and any bounds:

| Theorem | Statement and argument |
|---|---|
| `Inductive`, `TypeCorrect` | `Spec => []IInv`, `Spec => []TypeOK` |
| `OnlyActiveHavePresent` | `Spec => []OnlyActivePresent`, part of `RowsInv`: a writer leaves PRESENT only what it may (`PresentAfter`), and whoever leaves ACTIVE forces every row ABSENT, retired ones too |
| `PeriodsArePartition` | `Spec => []PeriodsPartition` from `PeriodsInv`: closed periods do not overlap, end by the beginning of the open one and leave no gap; `IntervalHolds`, the constraint of the table, is what keeps it when `now()` is older than the lock |
| `AccessSetIsTopology` | `Spec => []SetIsTopology`, from `SetInv`, which says it of every customer who is ACTIVE, as of his `expires` and whatever the clock |
| `ErasureIsSettled` | `Spec => ErasedOnlyWhenSettled`, from `TimesInv`: no `now()` is in the future |
| `CompletedIsErased` | `Spec => CompletedMeansErased`, from `StampInv`: the fingerprint a repeated Delete meets is that of a Delete only if the customer is DELETING or DELETED |
| `Refinement` | `Spec => ImplementsSubscription`: each accepted command is an `Obey`, `Finalize` is a `Vanish`, every other step keeps the abstract state or is a `Regrant` |

`IInv` is `TypeOK /\ RowsInv /\ RootInv /\ TimesInv /\ StampInv /\ PeriodsInv`. `RootInv`
(a DELETED customer has no rows, an other one has an open period) is needed everywhere: a
creation must not meet old rows, and a renewal has a period to close.

Only model-checked: `ExpiredIsWithdrawn`, `PromiseKept`, `DeletionEnds`, which are liveness.

## 5. Manifest: the topology and its way to every customer

`Manifest.tla` models the manifest service, the topology tables, the materialization job
and the steps that carry it out, on all customers of the instance, together with the
commands as far as they meet the topology.

Accepting a manifest is one step: an advisory lock keeps other ones out and the
transaction commits as a whole. A step of the worker is three (`Claim`, `Lock`, `Commit`)
and an Apply is two (`Apply`, `Finish`), because `LoadTopology` reads nodes and bridges in two
statements of a READ COMMITTED transaction: a manifest may commit between them, and
between the choice of a customer and the lock on him.

### State

| Model | Code |
|---|---|
| `revision`, `digest` | the newest row of `manifest_revisions`; its content stands for its digest |
| `node`, `fleets`, `member` | current rows of `vpn_nodes`, `vpn_fleets`, `vpn_fleet_nodes` |
| `routes` | all rows of `vpn_bridge_routes`, with `current`: removed ones stay and keep their pair |
| `job[r]` | row of `manifest_materialization_jobs`: status, cursor, owner of the lease |
| `life[c]`, `paid[c]`, `holds[c]` | ACTIVE (or BLOCKED), DELETING or not there; an unexpired term; the targets of the accesses that are not retired |
| `late[c]` | history: the revision that was accepted while the customer's first Apply was under way |
| `lock[c]`, `tx[p]` | the lock on the customer's root row; the open transactions and what they have read |

### Actions

| Action | Code |
|---|---|
| `Ingest` | `ApplyFleetManifest.Execute`: `ValidateManifest`, `PlanManifest`, `WritePlan`, with the job it leaves behind |
| `Claim`, `Complete` | `ClaimMaterializationJob`, `NextCustomerAfter`, `CompleteMaterializationJob` |
| `Lock`, `Commit` | `materializeCustomer`: `LockEntitlement` and the first read; the second read, `PlanMaterialize`, the cursor |
| `Fail`, `Restart`, `LeaseExpires` | a step rolls back; the process ends and its successor has another `workerOwner()`; five minutes pass |
| `Apply`, `Finish` | `ApplyCustomerAccess.Execute` up to the first read, and from the second read on |
| `Lapse`, `Delete`, `Erase` | the term ends; `DeleteCustomerAccess`; `FinalizeNextDeletion` |

### Abstractions

* A snapshot is what `PlanManifest` compares: nodes, fleets, memberships, bridges.
  Endpoints, certificates, names and the size limits of a manifest change no decision here.
* BLOCKED customers count as ACTIVE: the job passes them alike. What an access does besides
  existing (its state, version and operations) is sections 2 and 4.
* A transaction that runs holds its job row, so `LeaseExpires` does not matter while it does.
* `Leaving` and `Expiring` bound which customers leave and lapse, `MaxFailures` how many
  steps fail or processes end.

### Runs

| Run | Instance | Shows |
|---|---|---|
| `manifest_rollout` | 2 customers, 2 replicas, 1 connection, 1 failure; 3 nodes, 3 routing keys, 3 revisions and three that are refused | `TypeOK`, `AcceptableLands`, `NothingForgotten`, `ImplementsRollout`, `TopologyArrives` |
| `unseen_customer` (violation) | the same manifests, 1 customer, 1 replica, 1 connection, no failure | `MaterializedIsEverywhere` is refuted |

The second revision moves a pair to a new key, gives another key another exit tag and lets
a node leave, so that nodes read before it are not those read after it. The
third brings the freed key back with the pair turned round; it is refused where the first
one was accepted, because a key keeps its pair, and accepted where that pair never was. The
other refused ones name a pair twice, miss a member, or destroy without saying so. Two customers make
a cursor with somebody before and somebody behind it; two replicas can hold two jobs at
once. Customer 1 lapses, customer 2 is deleted. Deadlock is checked:
customers renew for ever.

`Rollout.tla` is what this promises to those who send manifests and to the customers, without
rows, jobs, cursors, leases, locks or transactions: a manifest is taken as a whole or not
at all, and makes every ACTIVE customer due (`Publish`); a key keeps its pair for ever; a customer is
carried to the topology as a whole (`Carry`), or gets a mixture with the nodes of an older one and
stays due (`Mix`); nobody ceases to be due while he differs from the topology; a command
gives whoever is not due exactly the topology, and takes nothing from whoever is (`Join`,
`Renew`). `ImplementsRollout` says that `Manifest` does this, where the topology is the current rows
(`Topology`), `pairs` all rows ever (`Pairs`), and `due` whom the cursor of the newest
job has not passed or whom `late` marks (`Due`). `grace` remembers whose step began in an unexpired
term (`Grace`), because the worker decides with the clock of the choice: a customer whose
term ends meanwhile may still be given what is new. That the current rows are the accepted
snapshot, `ProjectionIsSnapshot`, follows and is proved as well.

`NothingForgotten` is what the job is for: a customer whose accesses differ from the
topology is ahead of the cursor of the unfinished job of the newest revision. It relates
the customer's rows, which commands and two replicas write from readings that may be
half old, to the durable cursor. There is one exception, which the property names: a customer whose
*first* Apply read the topology before a manifest and committed after it. He was not in
the table when the job passed, so he keeps the old topology until the next revision
or command. Customers who exist are safe: the job chooses them and then waits for
the lock of the Apply.

`unseen_customer` shows that exception as a finding. `docs/OPERATIONS.md:175` reads the materialized
revision as the one whose fan-out over *all* customers has ended, and `docs/DATABASE.md:315` calls the job
the layout of the manifest for all customers; `MaterializedIsEverywhere` says it. In the counterexample
a customer's first Apply reads the fleet's nodes, the next manifest lets one of them leave, the job
finds nobody in `customer_entitlements` and ends, and then the Apply commits with an access on the node
that left (`postgres/apply.go:134` reads the topology, and no manifest waits for it).

### Fairness

Weak fairness of the worker's steps in every replica (`runWorker` tries again at once
after progress and after its period otherwise), of `LeaseExpires` (time passes) and of `Finish` (a
transaction ends); strong fairness of `Lock`, because PostgreSQL queues those who wait
for a row. `TopologyArrives` needs no fairness of commands and allows them to go on for ever.

### Proofs

`ManifestProofs.tla` proves, from `ManifestAssumption` alone, for every number of customers, nodes,
bridges, manifests, replicas, connections and failures:

| Theorem | Statement and argument |
|---|---|
| `TypeCorrect` | `Spec => []TypeOK` |
| `ProjectionHolds` | `Spec => []ProjectionIsSnapshot`: `RowsInv` adds that the table has one row for each fleet and key, so a route that returns finds its row and, by `PairsKept`, its pair |
| `AcceptedIsStored` | `Spec => []AcceptableLands`: a current row that holds the pair of a new route either is in the snapshot under its own key, and pairs of a valid snapshot are unique, or is removed and was marked before |
| `Inductive`, `NobodyIsForgotten` | `Spec => []IInv`, `Spec => []NothingForgotten` |

`IInv` is `TypeOK /\ RowsInv /\ JobsInv /\ LifeInv /\ TxInv /\ ForgetInv`. `JobsInv`: a revision not
yet accepted has no job. `LifeInv`: without a manifest there is no customer, and who is not there
holds nothing. `TxInv`: a transaction past the lock owns it, two workers never hold one job, and a
worker that locked its customer in the newest job read the fleet's nodes as they still are.
`ForgetInv` has the two halves of the argument. `LagsAhead` is `NothingForgotten`, with the
workers of the newest job added: none of them has chosen a customer behind the one who lags.
`StaleAhead` says that an ACTIVE customer whose lock is held by a transaction with an outdated
reading is ahead of the newest job too, so what it writes will be corrected. A manifest puts a PENDING
job with its cursor before everybody, and both halves hold afresh; a commit of the newest job
leaves its customer in order and moves the cursor past nobody else; a commit of an older job, or an
Apply with an outdated reading, leaves somebody who is still ahead, or a new customer, whom
`late` marks; and a job is not completed while anybody is ahead of it.

`RolloutProofs.tla` adds the refinement:

| Theorem | Statement and argument |
|---|---|
| `RolledOut` | from `ManifestAssumption`, `Spec => ImplementsRollout`, with no further restriction: `Ingest` is a `Publish`; `Claim` of an unexpired customer is a `Begin`; `Commit` is a `Carry` with a reading that is current, a `Mix` with an outdated one and a `Pass` on a customer who left; `Complete` is a `Pass`; `Finish` is a `Join` or a `Renew`; `Lapse`, `Delete`, `Erase` are `Lapse`, `Leave`, `Vanish`; the others keep the abstract state but for `grace` |

The guards of `Publish` come from `Acceptable` through `RowsInv` (`GuardsMap`), and what
`UpsertRoutes` and `RetireRoutes` leave from a lemma on every pair (`PairsGrow`). Two things
need more than `IInv`. `CourseInv` says that the fleet an Apply found stays, and that the job
a worker holds stays unfinished with its cursor before his customer: otherwise his commit would
move the cursor back, and people who had the topology would be due again. And a commit may take several out of
`due` at once, everybody between the old cursor and the new one; that none of them differs is `NothingForgotten`
in the state after the step (`CommitDue`).

Only model-checked: `TopologyArrives`, which is liveness.

### What the code does against its documents

`sortedNodesByID` promises «в этом порядке транзакция берёт их row locks»
(`domain/manifest_plan.go:246`), but `WritePlan` retires, and locks, the removed nodes first (`postgres/manifest.go:150`).
A manifest and a worker that locks two nodes can therefore wait for each other; PostgreSQL
ends one of them, and the worker tries again.

## 6. How the models fit together

| Question | Where |
|---|---|
| Which accesses should a fleet's customer have? | `Manifest`: `Materialized`, `Applied`, on all customers, with the job |
| Which desired tuple do they get, who may change it, when does it end? | `CustomerCommands`, one customer |
| Does the node get that tuple, and only the newest? | `Delivery`, any accesses and nodes |
| What did it cost him, and when is he out of quota? | `UsagePull`, one node |

Each module takes the others as an environment that does more than they do:
`Delivery` lets any access be rewritten at any time; `CustomerCommands` lets operations end in
any order, manifests come at any time, and traffic come at any time; `UsagePull` lets commands and
materialization come at any time; `Manifest` reduces commands to when they read the topology and
what they write. What crosses the borders is stated as a property on one side
and used on the other: `ExhaustedExactly` (section 3) is why `CustomerCommands` may compute
exhaustion from bytes; `NothingForgotten` and `TopologyArrives` (section 5) are why `drifted` of
section 4 ends; `SetIsTopology` (section 4) is the desired state on which `Converges`
(section 2) makes the nodes settle.

## 7. Not modelled, and what could come next

* **Composition** of commands, materialization and delivery in one specification: the
  borders above are argued here and not checked. One customer with two accesses, a job, a dispatcher
  and a reconciler is beyond what TLC does in minutes.
* **Proofs of liveness**: `Converges`, `AllAccounted`, `ExpiredIsWithdrawn`, `PromiseKept`,
  `DeletionEnds` and `TopologyArrives` are model-checked only. Every safety property that a
  passing run checks is proved, and so are the four refinements (`Provisioning`, `Metering`, `Subscription`,
  `Rollout`), some of them without disturbances that their section names.
* **`BackoffDelay`**: how long a retry waits is abstracted to "some time". The same holds for the
  interval of reconciles and the age limit of an observation.
* **Row locks of nodes** one by one, and with them the deadlock of section 5.
* **gRPC surface, links' text, node lists, TLS and identity, encryption, metrics, statistics,
  logging, configuration, health checks, the migration runner**: they keep no state the
  properties speak of, or are pure input and output. Generated protobuf code is left out; the
  queries generated from SQL are modelled where they are used.
