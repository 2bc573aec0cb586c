------------------------------ MODULE Manifest ------------------------------
(***************************************************************************)
(* The infrastructure manifest: how a snapshot sent by the infrastructure  *)
(* pipeline is validated, compared with what was accepted before and       *)
(* projected into the topology tables, and how the durable job it leaves   *)
(* behind carries the new topology to every customer while commands keep   *)
(* arriving.                                                               *)
(*                                                                         *)
(* Taking a manifest is one step: the advisory lock keeps out every other  *)
(* one and the transaction commits as a whole.  A step of the worker and   *)
(* an Apply are several, because both read the topology in two statements  *)
(* of a READ COMMITTED transaction and a manifest may commit in between.   *)
(* What an access does besides existing (desired state, versions,          *)
(* operations) belongs to CustomerCommands and Delivery.                   *)
(***************************************************************************)
EXTENDS Integers, FiniteSets, FiniteSetsExt

CONSTANTS
    Customer,     \* customer ids in the order of the job's cursor
    Fleet,
    FleetOf,      \* the fleet a customer is bound to
    Node,
    Key,          \* routing keys
    Tag,          \* egress tags
    Request,      \* the manifests ever sent, each any number of times
    NoContent,    \* the digest of a database that has taken no manifest
    Replica,      \* instances of the backend, each with a materialization worker
    Caller,       \* connections on which the customer service sends Apply
    Nobody,       \* no owner of a lease, no holder of a lock
    Gone,         \* the owner of a lease whose process has ended
    Leaving,      \* bound: the customers ever deleted
    Expiring,     \* bound: the customers whose term is ever seen to end
    MaxFailures   \* bound on steps that fail and processes that end

Revisions == {q.revision : q \in Request}

Member == [fleet : Fleet, node : Node]
Route  == [fleet : Fleet, key : Key, entry : Node, exit : Node, tag : Tag]
\* What PlanManifest compares and projects of a snapshot.
Content == [nodes : SUBSET Node, fleets : SUBSET Fleet,
            members : SUBSET Member, routes : SUBSET Route]

ASSUME ManifestAssumption ==
    /\ Customer \subseteq Nat \ {0}
    /\ IsFiniteSet(Customer)
    /\ FleetOf \in [Customer -> Fleet]
    /\ Request \subseteq [revision : Nat \ {0}, content : Content, destructive : BOOLEAN]
    /\ IsFiniteSet(Request)
    /\ NoContent \notin Content
    /\ Nobody \notin Replica \cup Caller \cup {Gone}
    /\ Gone \notin Replica
    /\ Replica \cap Caller = {}
    /\ Leaving \subseteq Customer
    /\ Expiring \subseteq Customer
    /\ MaxFailures \in Nat

VARIABLES
    \* manifest_revisions: the newest row
    revision, digest,
    \* vpn_nodes, vpn_fleets, vpn_fleet_nodes (the current rows), and all of
    \* vpn_bridge_routes
    node, fleets, member, routes,
    \* manifest_materialization_jobs
    job,
    \* customers: life, an unexpired term, the targets of the accesses that are
    \* not retired, and the revision a customer was made behind
    life, paid, holds, late,
    \* row locks of customer_entitlements and the transactions running
    lock, tx, failures

topologyVars == <<revision, digest, node, fleets, member, routes>>
customerVars == <<life, paid, holds, late>>
vars == <<topologyVars, job, customerVars, lock, tx, failures>>

Target ==
    [kind : {"FREEDOM"}, key : Node, egress : {"direct"}]
      \cup [kind : {"BRIDGE"}, key : Key, egress : Tag]

Idle == [pc |-> "idle"]

TypeOK ==
    /\ revision \in Revisions \cup {0}
    /\ digest \in Content \cup {NoContent}
    /\ node \subseteq Node
    /\ fleets \subseteq Fleet
    /\ member \subseteq Member
    /\ routes \subseteq [route : Route, current : BOOLEAN]
    /\ job \in [Revisions ->
         [status : {"none", "PENDING", "IN_PROGRESS", "DONE"},
          cursor : Customer \cup {0}, owner : Replica \cup {Gone, Nobody}]]
    /\ life \in [Customer -> {"none", "ACTIVE", "DELETING"}]
    /\ paid \in [Customer -> BOOLEAN]
    /\ holds \in [Customer -> SUBSET Target]
    /\ late \in [Customer -> Revisions \cup {0}]
    /\ lock \in [Customer -> Replica \cup Caller \cup {Nobody}]
    /\ tx \in [Replica \cup Caller -> {Idle}
         \cup [pc : {"chosen"}, job : Revisions, customer : Customer, paid : BOOLEAN]
         \cup [pc : {"locked"}, job : Revisions, customer : Customer, paid : BOOLEAN,
               nodes : SUBSET Node]
         \cup [pc : {"applying"}, customer : Customer, read : Revisions \cup {0},
               nodes : SUBSET Node]]
    /\ failures \in 0 .. MaxFailures

NoJob == [status |-> "none", cursor |-> 0, owner |-> Nobody]

Init ==
    /\ revision = 0
    /\ digest = NoContent
    /\ node = {}
    /\ fleets = {}
    /\ member = {}
    /\ routes = {}
    /\ job = [r \in Revisions |-> NoJob]
    /\ life = [c \in Customer |-> "none"]
    /\ paid = [c \in Customer |-> FALSE]
    /\ holds = [c \in Customer |-> {}]
    /\ late = [c \in Customer |-> 0]
    /\ lock = [c \in Customer |-> Nobody]
    /\ tx = [p \in Replica \cup Caller |-> Idle]
    /\ failures = 0

-----------------------------------------------------------------------------
(* Taking a manifest: ValidateManifest, PlanManifest, WritePlan *)

SameFleet(x, y) == x.fleet = y.fleet

\* validateFleetMembers
KnownMembers(s) == \A m \in s.members : m.fleet \in s.fleets /\ m.node \in s.nodes

\* validateFleetBridges: ends apart and in the fleet, keys and pairs unique.
SoundBridges(s) ==
    /\ \A b \in s.routes : /\ b.entry # b.exit
                           /\ [fleet |-> b.fleet, node |-> b.entry] \in s.members
                           /\ [fleet |-> b.fleet, node |-> b.exit] \in s.members
    /\ \A b, d \in s.routes :
         SameFleet(b, d) /\ (b.key = d.key \/ (b.entry = d.entry /\ b.exit = d.exit)) => b = d

Valid(s) == KnownMembers(s) /\ SoundBridges(s)

SameRow(b, d)  == b.fleet = d.fleet /\ b.key = d.key
SamePair(b, d) == b.entry = d.entry /\ b.exit = d.exit

\* checkRevision; a repeat of the accepted revision with its content writes
\* nothing, a repeat with another content and an older one are refused.
IsNewer(q) == q.revision > revision

FleetsKept(s) == fleets \subseteq s.fleets

CurrentPairsKept(s) ==
    \A b \in s.routes, r \in routes : r.current /\ SameRow(b, r.route) => SamePair(b, r.route)

\* checkBridgePairs: the removed routes are compared too.
PairsKept(s) == \A b \in s.routes, r \in routes : SameRow(b, r.route) => SamePair(b, r.route)

RemovedNodes(s)   == node \ s.nodes
RemovedMembers(s) == member \ s.members
RemovedRoutes(s)  == {r \in routes : r.current /\ ~ \E b \in s.routes : SameRow(b, r.route)}

Destroys(s) == RemovedNodes(s) # {} \/ RemovedMembers(s) # {} \/ RemovedRoutes(s) # {}

Acceptable(q) ==
    /\ IsNewer(q)
    /\ Valid(q.content)
    /\ FleetsKept(q.content)
    /\ PairsKept(q.content)
    /\ Destroys(q.content) => q.destructive

\* RetireBridgeRoutes
AllRoutes(s) == routes
RetireRoutes(s) ==
    (routes \ RemovedRoutes(s)) \cup {[r EXCEPT !.current = FALSE] : r \in RemovedRoutes(s)}

\* UpsertBridgeRoute keeps the pair of a row it finds.
UpsertRoutes(rows, s) ==
    {r \in rows : ~ \E b \in s.routes : SameRow(b, r.route)}
      \cup {[r EXCEPT !.current = TRUE,
                      !.route.tag = (CHOOSE b \in s.routes : SameRow(b, r.route)).tag] :
              r \in {x \in rows : \E b \in s.routes : SameRow(b, x.route)}}
      \cup {[route |-> b, current |-> TRUE] :
              b \in {x \in s.routes : ~ \E r \in rows : SameRow(x, r.route)}}

\* The unique index vpn_bridge_routes_current_pair while s is upserted into rows,
\* one route after the other: a route meets the rows that are current before it
\* and every other route of s.
IndexHolds(rows, s) ==
    \A b \in s.routes : \A r \in rows \cup UpsertRoutes(rows, s) :
        r.current /\ SameFleet(b, r.route) /\ SamePair(b, r.route) => SameRow(b, r.route)

Ingest(q) ==
    /\ Acceptable(q)
    /\ IndexHolds(RetireRoutes(q.content), q.content)
    /\ revision' = q.revision
    /\ digest' = q.content
    /\ node' = (node \ RemovedNodes(q.content)) \cup q.content.nodes
    /\ fleets' = fleets \cup q.content.fleets
    /\ member' = (member \ RemovedMembers(q.content)) \cup q.content.members
    /\ routes' = UpsertRoutes(RetireRoutes(q.content), q.content)
    /\ job' = [job EXCEPT ![q.revision].status = "PENDING"]
    /\ UNCHANGED <<customerVars, lock, tx, failures>>

-----------------------------------------------------------------------------
(* The topology as a customer's transaction sees it *)

\* ListCurrentFleetNodes and ListCurrentFleetBridgeRoutes, two statements
FleetNodes(f)  == {m.node : m \in {x \in member : x.fleet = f}}
FleetRoutes(f) == {r.route : r \in {x \in routes : x.current /\ x.route.fleet = f}}

TargetsByNode(nodes, bridges) ==
    {[kind |-> "FREEDOM", key |-> n, egress |-> n] : n \in nodes}
      \cup {[kind |-> "BRIDGE", key |-> b.key, egress |-> b.tag] : b \in bridges}

TargetsOf(nodes, bridges) ==
    {[kind |-> "FREEDOM", key |-> n, egress |-> "direct"] : n \in nodes}
      \cup {[kind |-> "BRIDGE", key |-> b.key, egress |-> b.tag] : b \in bridges}

SameTarget(t, u) == t.kind = u.kind /\ t.key = u.key

\* PlanAccessSet
Missing(targets, held) == {t \in targets : ~ \E h \in held : SameTarget(t, h)}
Known(targets, held)   == {t \in targets : \E h \in held : SameTarget(t, h)}

\* PlanMaterialize: what vanished is retired, a moved egress is followed, and an
\* unexpired customer gets what is missing.
Materialized(targets, held, unexpired) ==
    Known(targets, held) \cup (IF unexpired THEN Missing(targets, held) ELSE {})

\* PlanApply: nothing but what is missing.
Applied(targets, held) == held \cup Missing(targets, held)

-----------------------------------------------------------------------------
(* The worker: MaterializeManifest.ProcessNext *)

Unfinished(r) == job[r].status \in {"PENDING", "IN_PROGRESS"}
RowLocked(r)  == \E w \in Replica : tx[w].pc # "idle" /\ tx[w].job = r
OwnOrFresh(w, r) == job[r].status = "PENDING" \/ job[r].owner = w
LeaseFree(w, r) == job[r].owner \in {Nobody, w}
Claimable(w)  == {r \in Revisions : Unfinished(r) /\ ~RowLocked(r) /\ LeaseFree(w, r)}

\* NextCustomerAfter
Following(cursor) == {c \in Customer : c > cursor /\ life[c] = "ACTIVE"}

\* ClaimJob and NextCustomer; the lease is only seen once the step commits.
Claim(w) ==
    LET r == Min(Claimable(w))
        c == Min(Following(job[r].cursor))
    IN  /\ tx[w] = Idle
        /\ Claimable(w) # {}
        /\ Following(job[r].cursor) # {}
        /\ tx' = [tx EXCEPT ![w] = [pc |-> "chosen", job |-> r, customer |-> c,
                                    paid |-> paid[c]]]
        /\ UNCHANGED <<topologyVars, job, customerVars, lock, failures>>

\* No customer is left: CompleteJob in the same transaction.
Complete(w) ==
    LET r == Min(Claimable(w))
    IN  /\ tx[w] = Idle
        /\ Claimable(w) # {}
        /\ Following(job[r].cursor) = {}
        /\ job' = [job EXCEPT ![r].status = "DONE", ![r].owner = Nobody]
        /\ UNCHANGED <<topologyVars, customerVars, lock, tx, failures>>

LockNothing(w) ==
    LET t == tx[w]
    IN  /\ t.pc = "chosen"
        /\ tx' = [tx EXCEPT ![w] =
             [pc |-> "locked", job |-> t.job, customer |-> t.customer, paid |-> t.paid,
              nodes |-> FleetNodes(FleetOf[t.customer])]]
        /\ UNCHANGED <<topologyVars, job, customerVars, lock, failures>>

\* LockEntitlement, then the first statement of LoadTopology.
Lock(w) ==
    LET t == tx[w]
    IN  /\ t.pc = "chosen"
        /\ lock[t.customer] = Nobody
        /\ lock' = [lock EXCEPT ![t.customer] = w]
        /\ tx' = [tx EXCEPT ![w] =
             [pc |-> "locked", job |-> t.job, customer |-> t.customer, paid |-> t.paid,
              nodes |-> FleetNodes(FleetOf[t.customer])]]
        /\ UNCHANGED <<topologyVars, job, customerVars, failures>>

\* The second statement, LoadAccesses, the plan, the cursor and the commit.  The
\* customer may have become DELETING after he was chosen: then nothing is
\* written.  now() is older than the lock, so a term that ended meanwhile counts.
Commit(w) ==
    LET t == tx[w]
        c == t.customer
        targets == TargetsOf(t.nodes, FleetRoutes(FleetOf[c]))
    IN  /\ t.pc = "locked"
        /\ holds' = IF life[c] # "ACTIVE" THEN holds
                    ELSE [holds EXCEPT ![c] = Materialized(targets, @, t.paid \/ paid[c])]
        /\ job' = [job EXCEPT ![t.job] = [status |-> "IN_PROGRESS", cursor |-> c, owner |-> w]]
        /\ lock' = [lock EXCEPT ![c] = Nobody]
        /\ tx' = [tx EXCEPT ![w] = Idle]
        /\ late' = [late EXCEPT ![c] = 0]
        /\ UNCHANGED <<topologyVars, life, paid, failures>>

Released(p) == [c \in Customer |-> IF lock[c] = p THEN Nobody ELSE lock[c]]

\* A step fails: the transaction rolls back, the claim with it.
Fail(w) ==
    /\ failures < MaxFailures
    /\ tx[w] # Idle
    /\ tx' = [tx EXCEPT ![w] = Idle]
    /\ lock' = Released(w)
    /\ failures' = failures + 1
    /\ UNCHANGED <<topologyVars, job, customerVars>>

\* The process ends and another one starts, under a new lease owner.
Restart(w) ==
    /\ failures < MaxFailures
    /\ tx' = [tx EXCEPT ![w] = Idle]
    /\ lock' = Released(w)
    /\ job' = [r \in Revisions |-> IF job[r].owner = w THEN [job[r] EXCEPT !.owner = Gone]
                                   ELSE job[r]]
    /\ failures' = failures + 1
    /\ UNCHANGED <<topologyVars, customerVars>>

LeaseExpires(r) ==
    /\ job[r].owner # Nobody
    /\ ~RowLocked(r)
    /\ job' = [job EXCEPT ![r].owner = Nobody]
    /\ UNCHANGED <<topologyVars, customerVars, lock, tx, failures>>

-----------------------------------------------------------------------------
(* Commands, as far as they meet the topology *)

\* LockEntitlement (of a tombstone too), FleetIsCurrent, the first statement of
\* LoadTopology.
Apply(p, c) ==
    /\ tx[p] = Idle
    /\ lock[c] = Nobody
    /\ life[c] # "DELETING"
    /\ FleetOf[c] \in fleets
    /\ lock' = [lock EXCEPT ![c] = p]
    /\ tx' = [tx EXCEPT ![p] = [pc |-> "applying", customer |-> c, read |-> revision,
                                nodes |-> FleetNodes(FleetOf[c])]]
    /\ UNCHANGED <<topologyVars, job, customerVars, failures>>

\* The second statement, the plan and the commit; a renewal or a new customer has
\* an unexpired term, a change of the quota leaves it.
Finish(p, renewed) ==
    LET t == tx[p]
        c == t.customer
        targets == TargetsOf(t.nodes, FleetRoutes(FleetOf[c]))
    IN  /\ t.pc = "applying"
        /\ life[c] = "none" => renewed
        /\ life' = [life EXCEPT ![c] = "ACTIVE"]
        /\ paid' = [paid EXCEPT ![c] = @ \/ renewed]
        /\ holds' = [holds EXCEPT ![c] = Applied(targets, @)]
        /\ late' = IF life[c] = "none" /\ t.read < revision THEN [late EXCEPT ![c] = revision] ELSE late
        /\ lock' = [lock EXCEPT ![c] = Nobody]
        /\ tx' = [tx EXCEPT ![p] = Idle]
        /\ UNCHANGED <<topologyVars, job, failures>>

\* The term ends.
Lapse(c) ==
    /\ life[c] = "ACTIVE" /\ paid[c]
    /\ paid' = [paid EXCEPT ![c] = FALSE]
    /\ UNCHANGED <<topologyVars, job, life, holds, late, lock, tx, failures>>

Delete(c) ==
    /\ lock[c] = Nobody
    /\ life[c] = "ACTIVE"
    /\ life' = [life EXCEPT ![c] = "DELETING"]
    /\ UNCHANGED <<topologyVars, job, paid, holds, late, lock, tx, failures>>

\* When absence is confirmed and the pause is over, the accesses are erased.
Erase(c) ==
    /\ lock[c] = Nobody
    /\ life[c] = "DELETING"
    /\ life' = [life EXCEPT ![c] = "none"]
    /\ paid' = [paid EXCEPT ![c] = FALSE]
    /\ holds' = [holds EXCEPT ![c] = {}]
    /\ late' = [late EXCEPT ![c] = 0]
    /\ UNCHANGED <<topologyVars, job, lock, tx, failures>>

-----------------------------------------------------------------------------
Work(w) == Claim(w) \/ Complete(w) \/ Lock(w) \/ Commit(w)

Next ==
    \/ \E q \in Request : Ingest(q)
    \/ \E w \in Replica : Work(w) \/ Fail(w) \/ Restart(w)
    \/ \E r \in Revisions : LeaseExpires(r)
    \/ \E p \in Caller, c \in Customer : Apply(p, c)
    \/ \E p \in Caller, renewed \in BOOLEAN : Finish(p, renewed)
    \/ \E c \in Expiring : Lapse(c)
    \/ \E c \in Leaving : Delete(c) \/ Erase(c)

Spec == Init /\ [][Next]_vars

\* The loop of a worker tries again at once after progress and after its period
\* otherwise; PostgreSQL queues those who wait for a row; a transaction ends;
\* time passes.
Fairness ==
    /\ \A w \in Replica : WF_vars(Work(w)) /\ SF_vars(Lock(w))
    /\ WF_vars(\E r \in Revisions : LeaseExpires(r))
    /\ \A p \in Caller : WF_vars(Finish(p, TRUE))

FairSpec == Spec /\ Fairness

-----------------------------------------------------------------------------
(* Properties *)

CurrentRoutes == {r.route : r \in {x \in routes : x.current}}

\* The current rows are the newest accepted snapshot, nothing more and nothing
\* less, whatever keys and nodes left and came back on the way there: WritePlan
\* writes only the difference PlanManifest worked out, and never moves a pair.
ProjectionIsSnapshot ==
    digest # NoContent =>
        digest = [nodes |-> node, fleets |-> fleets, members |-> member,
                  routes |-> CurrentRoutes]

\* A manifest that passes every check of PlanManifest is not turned down by the
\* unique index on current pairs: a pair may move to a new key and back, because
\* what leaves is marked before what comes is written.
AcceptableLands ==
    \A q \in Request : Acceptable(q) => IndexHolds(RetireRoutes(q.content), q.content)

Wanted(c) == TargetsOf(FleetNodes(FleetOf[c]), FleetRoutes(FleetOf[c]))

\* An expired customer keeps what he has and gets nothing new.
Lagging(c) ==
    /\ life[c] = "ACTIVE"
    /\ IF paid[c] THEN holds[c] # Wanted(c) ELSE ~(holds[c] \subseteq Wanted(c))

\* Nobody is left behind by a manifest: a customer whose accesses differ from the
\* topology has an unfinished job of the newest revision ahead of him, however the
\* two reads of the topology, the renewals, the replicas and their failures fell.
\* The exception is the customer whose first Apply read the topology before the
\* manifest and committed after it: the job may have passed him unseen.
NothingForgotten ==
    \A c \in Customer :
        Lagging(c) /\ late[c] # revision =>
            Unfinished(revision) /\ job[revision].cursor < c

\* docs/OPERATIONS.md: once the fan-out of the newest revision has ended, the new
\* topology has come to every customer, those included who were being created
\* while it ran.
MaterializedIsEverywhere ==
    revision > 0 /\ ~Unfinished(revision) => \A c \in Customer : ~Lagging(c)

\* Again and again there is a moment when nobody lags behind the newest topology
\* (but for the exception), whichever replica dies with the job in its hands: so
\* every manifest reaches everybody.
TopologyArrives == []<>(\A c \in Customer : Lagging(c) => late[c] = revision)

\* What the senders of manifests and the customers see of all this is a Rollout:
\* the topology is the current rows, and due is whom the cursor of the newest job
\* has not passed and who was made behind a manifest's back.
Topology == [nodes |-> node, fleets |-> fleets, members |-> member, routes |-> CurrentRoutes]
Pairs == {[fleet |-> r.route.fleet, key |-> r.route.key,
           entry |-> r.route.entry, exit |-> r.route.exit] : r \in routes}
Due == {c \in Customer :
          /\ life[c] = "ACTIVE"
          /\ \/ Unfinished(revision) /\ job[revision].cursor < c
             \/ late[c] = revision}

\* Whose step began while his term was unexpired.
Grace == {c \in Customer : \E w \in Replica :
             tx[w].pc \in {"chosen", "locked"} /\ tx[w].customer = c /\ tx[w].paid}

Roll == INSTANCE Rollout WITH topology <- Topology, pairs <- Pairs, due <- Due, grace <- Grace

\* Whatever replicas, commands and manifests do to each other's readings, they
\* carry out a Rollout: a manifest is projected as a whole and keeps every pair,
\* a customer gets what the topology names or remains due.
ImplementsRollout == Roll!Spec
=============================================================================
