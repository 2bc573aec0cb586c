---------------------------- MODULE RolloutProofs ----------------------------
(***************************************************************************)
(* Manifest implements Rollout: every step of a manifest, a worker or a    *)
(* command is a step of the abstract specification, or none.               *)
(***************************************************************************)
EXTENDS ManifestProofs

-----------------------------------------------------------------------------
(* What the abstract specification sees. *)

LEMMA TopologyFields ==
  /\ Topology.nodes = node /\ Topology.fleets = fleets
  /\ Topology.members = member /\ Topology.routes = CurrentRoutes
BY DEF Topology

LEMMA TargetsMap ==
  ASSUME NEW c \in Customer, NEW nodes
  PROVE  Roll!Targets(c, nodes) = TargetsOf(nodes, FleetRoutes(FleetOf[c]))
<1>1. {x \in Topology.routes : x.fleet = FleetOf[c]} = FleetRoutes(FleetOf[c])
  BY TopologyFields DEF CurrentRoutes, FleetRoutes
<1> QED
  BY <1>1 DEF Roll!Targets, TargetsOf

LEMMA PromisedMaps ==
  ASSUME NEW c \in Customer
  PROVE  Roll!Promised(c) = Wanted(c)
BY TopologyFields, TargetsMap DEF Roll!Promised, Wanted, FleetNodes

LEMMA CarriedMaps ==
  ASSUME NEW targets, NEW held, NEW unexpired \in BOOLEAN
  PROVE  Roll!Carried(targets, held, unexpired) = Materialized(targets, held, unexpired)
BY DEF Roll!Carried, Roll!Kept, Materialized, Known, Missing, SameTarget

LEMMA CompletedMaps ==
  ASSUME NEW targets, NEW held
  PROVE  Roll!Completed(targets, held) = Applied(targets, held)
BY DEF Roll!Completed, Roll!Kept, Applied, Missing, SameTarget

LEMMA DiffersMaps ==
  ASSUME NEW c \in Customer
  PROVE  Roll!Differs(c) <=> Lagging(c)
BY PromisedMaps DEF Roll!Differs, Lagging

\* The topology that a step leaves.
LEMMA SameInfra ==
  ASSUME UNCHANGED topologyVars
  PROVE  UNCHANGED Roll!infraVars
BY DEF Roll!infraVars, Topology, Pairs, CurrentRoutes, topologyVars

\* A customer is due as long as the newest job's place and his own rows stay.
LEMMA SameDue ==
  ASSUME NEW c \in Customer, UNCHANGED revision,
         life'[c] = life[c], late'[c] = late[c],
         job'[revision].status = job[revision].status,
         job'[revision].cursor = job[revision].cursor
  PROVE  c \in Due' <=> c \in Due
BY DEF Due, Unfinished

\* Whoever differs is due: what NothingForgotten says, late customers included.
DueInv == \A c \in Customer : Lagging(c) => c \in Due

LEMMA LaggardIsDue ==
  ForgetInv => DueInv
BY DEF ForgetInv, LagsAhead, Ahead, Lagging, Due, DueInv

-----------------------------------------------------------------------------
(* A manifest. *)

LEMMA UpsertedEnds ==
  ASSUME ManifestAssumption, NEW rows \in SUBSET RowSet, NEW s \in Content,
         NEW x \in UpsertRoutes(rows, s)
  PROVE  \/ x \in rows \/ x.route \in s.routes
         \/ \E r \in rows : /\ x.route.fleet = r.route.fleet /\ x.route.key = r.route.key
                            /\ x.route.entry = r.route.entry /\ x.route.exit = r.route.exit
<1>1. CASE x \in rows /\ ~ \E b \in s.routes : SameRow(b, x.route)
  BY <1>1
<1>2. CASE \E r \in rows, b \in s.routes :
             /\ SameRow(b, r.route) /\ x.current
             /\ x.route.fleet = r.route.fleet /\ x.route.key = r.route.key
             /\ x.route.entry = r.route.entry /\ x.route.exit = r.route.exit
             /\ x.route.tag = b.tag
             /\ x = UpsertedForm(s, r)
  BY <1>2
<1>3. CASE x.current /\ x.route \in s.routes /\ x = [route |-> x.route, current |-> TRUE]
             /\ ~ \E r \in rows : SameRow(x.route, r.route)
  BY <1>3
<1> QED
  BY <1>1, <1>2, <1>3, UpsertFacts

\* Marking what leaves and writing what comes neither forgets nor moves a pair.
LEMMA PairsGrow ==
  ASSUME ManifestAssumption, TypeOK, NEW q \in Request, Ingest(q)
  PROVE  Pairs' = Pairs \cup {Roll!PairOf(b) : b \in q.content.routes}
<1> DEFINE s == q.content
           P(b) == [fleet |-> b.fleet, key |-> b.key, entry |-> b.entry, exit |-> b.exit]
           rows == RetireRoutes(s)
<1>1. s \in Content /\ routes \subseteq RowSet
  BY RevisionFacts DEF TypeOK, RowSet
<1>2. SoundBridges(s) /\ PairsKept(s) /\ routes' = UpsertRoutes(rows, s)
  BY DEF Ingest, Acceptable, Valid
<1>3. /\ rows \subseteq RowSet
      /\ \A x \in rows : \E r \in routes : x.route = r.route
      /\ \A r \in routes : \E x \in rows : x.route = r.route
  BY <1>1, RetireFacts
<1>4. Pairs = {P(r.route) : r \in routes} /\ Pairs' = {P(r.route) : r \in routes'}
  BY DEF Pairs
<1>5. {Roll!PairOf(b) : b \in s.routes} = {P(b) : b \in s.routes}
  BY DEF Roll!PairOf
<1>6. \A b \in s.routes : \E x \in routes' : x.route = b
  BY <1>1, <1>2, UpsertLands
<1> HIDE DEF s, rows
<1>7. \A b, d : b.fleet = d.fleet /\ b.key = d.key /\ b.entry = d.entry /\ b.exit = d.exit
                  => P(b) = P(d)
  OBVIOUS
<1>8. ASSUME NEW x \in routes' PROVE P(x.route) \in Pairs \cup {P(b) : b \in s.routes}
  <2>1. CASE x \in rows
    <3>1. PICK r \in routes : x.route = r.route
      BY <1>3, <2>1
    <3> QED
      BY <1>4, <3>1
  <2>2. CASE \E r \in rows : /\ x.route.fleet = r.route.fleet /\ x.route.key = r.route.key
                             /\ x.route.entry = r.route.entry /\ x.route.exit = r.route.exit
    <3>1. PICK r \in rows : P(x.route) = P(r.route)
      BY <1>7, <2>2
    <3>2. PICK u \in routes : r.route = u.route
      BY <1>3
    <3> QED
      BY <1>4, <3>1, <3>2
  <2>3. CASE x.route \in s.routes
    BY <2>3
  <2>4. \/ x \in rows \/ x.route \in s.routes
        \/ \E r \in rows : /\ x.route.fleet = r.route.fleet /\ x.route.key = r.route.key
                           /\ x.route.entry = r.route.entry /\ x.route.exit = r.route.exit
    BY <1>1, <1>2, <1>3, UpsertedEnds
  <2> QED
    BY <2>1, <2>2, <2>3, <2>4
<1>9. ASSUME NEW r \in routes PROVE \E x \in routes' : P(x.route) = P(r.route)
  <2>1. PICK y \in rows : y.route = r.route
    BY <1>3
  <2>2. CASE \E b \in s.routes : SameRow(b, r.route)
    <3>1. PICK b \in s.routes : SameRow(b, r.route)
      BY <2>2
    <3>2. SamePair(b, r.route)
      BY <1>2, <3>1 DEF PairsKept
    <3>3. P(b) = P(r.route)
      BY <1>7, <3>1, <3>2 DEF SameRow, SamePair
    <3> QED
      BY <1>6, <3>3
  <2>3. CASE ~ \E b \in s.routes : SameRow(b, r.route)
    <3>1. y \in UpsertRoutes(rows, s)
      BY <2>1, <2>3 DEF UpsertRoutes
    <3> QED
      BY <1>2, <2>1, <3>1
  <2> QED
    BY <2>2, <2>3
<1>10. \A b \in s.routes : \E x \in routes' : P(x.route) = P(b)
  BY <1>6
<1> QED
  <2> HIDE DEF P
  <2>1. Pairs' \subseteq Pairs \cup {P(b) : b \in s.routes}
    BY <1>4, <1>8
  <2>2. Pairs \subseteq Pairs'
    BY <1>4, <1>9
  <2>3. {P(b) : b \in s.routes} \subseteq Pairs'
    BY <1>4, <1>10
  <2> QED
    BY <1>5, <2>1, <2>2, <2>3 DEF s

\* What PlanManifest compares with the rows is what the abstract specification
\* compares with the snapshot and the pairs before.
LEMMA GuardsMap ==
  ASSUME NEW s
  PROVE  /\ Valid(s) => Roll!Sound(s)
         /\ PairsKept(s) => Roll!KeepsPairs(s)
         /\ FleetsKept(s) => Topology.fleets \subseteq s.fleets
         /\ ~Destroys(s) => Roll!TakesNothing(s)
<1>1. Valid(s) => Roll!Sound(s)
  BY DEF Valid, KnownMembers, SoundBridges, SameFleet, Roll!Sound, Roll!SameKey, Roll!SameEnds
<1>2. PairsKept(s) => Roll!KeepsPairs(s)
  BY DEF PairsKept, SameRow, SamePair, Pairs, Roll!KeepsPairs, Roll!SameKey, Roll!SameEnds
<1>3. ~Destroys(s) => Roll!TakesNothing(s)
  BY TopologyFields DEF Destroys, RemovedNodes, RemovedMembers, RemovedRoutes, SameRow,
     CurrentRoutes, Roll!TakesNothing, Roll!SameKey
<1> QED
  BY <1>1, <1>2, <1>3, TopologyFields DEF FleetsKept

LEMMA IngestMaps ==
  ASSUME ManifestAssumption, IInv, RowsInv', NEW q \in Request, Ingest(q)
  PROVE  Roll!Publish(q)
<1>1. /\ q.revision \in Revisions /\ q.content \in Content /\ q.content # NoContent
      /\ revision \in Nat /\ q.revision > revision
  BY RevisionFacts DEF IInv, TypeOK, Ingest, Acceptable, IsNewer, ManifestAssumption
<1>2. /\ revision' = q.revision /\ digest' = q.content
      /\ job' = [job EXCEPT ![q.revision].status = "PENDING"]
      /\ UNCHANGED <<life, paid, holds, late, tx>>
  BY DEF Ingest, customerVars
<1>3. Topology' = q.content
  BY <1>1, <1>2 DEF RowsInv, ProjectionIsSnapshot, Topology
<1>4. job'[q.revision].status = "PENDING" /\ job'[q.revision].cursor = 0
  BY <1>1, <1>2 DEF IInv, JobsInv, NoJob, TypeOK
<1>5. Due' = Roll!Active
  <2>1. \A c \in Customer : 0 < c
    BY DEF ManifestAssumption
  <2> QED
    BY <1>2, <1>4, <2>1 DEF Due, Unfinished, Roll!Active
<1>6. Grace' = Grace
  BY <1>2 DEF Grace
<1>7. Pairs' = Pairs \cup {Roll!PairOf(b) : b \in q.content.routes}
  BY PairsGrow DEF IInv
<1>8. Valid(q.content) /\ PairsKept(q.content) /\ FleetsKept(q.content)
        /\ (Destroys(q.content) => q.destructive)
  BY DEF Ingest, Acceptable
<1> QED
  BY <1>1, <1>2, <1>3, <1>5, <1>6, <1>7, <1>8, GuardsMap
     DEF Roll!Publish, Roll!customerVars

-----------------------------------------------------------------------------
(* Steps that change no customer. *)

\* Without a manifest nobody is there, so nobody is due.
LEMMA DueKept ==
  ASSUME LifeInv, revision \in Revisions \cup {0}, UNCHANGED <<revision, life, late>>,
         revision \in Revisions => /\ job'[revision].status = job[revision].status
                                   /\ job'[revision].cursor = job[revision].cursor
  PROVE  Due' = Due
<1>1. CASE revision \in Revisions
  BY <1>1 DEF Due, Unfinished
<1>2. CASE revision = 0
  BY <1>2 DEF Due, LifeInv
<1> QED
  BY <1>1, <1>2

LEMMA NothingPasses ==
  ASSUME UNCHANGED <<topologyVars, life, paid, holds>>, Due' = Due, Grace' \subseteq Grace
  PROVE  Roll!Next
<1>1. Roll!Pass({})
  BY SameInfra DEF Roll!Pass, Roll!Settled, Roll!customerVars
<1>2. \E done \in SUBSET Due : Roll!Pass(done)
  BY <1>1
<1> QED
  BY <1>2 DEF Roll!Next

\* A step of a transaction that begins nothing gives nobody grace.
LEMMA GraceShrinks ==
  ASSUME \A w \in Replica :
           tx'[w].pc \in {"chosen", "locked"} =>
             /\ tx[w].pc \in {"chosen", "locked"}
             /\ tx'[w].customer = tx[w].customer /\ tx'[w].paid = tx[w].paid
  PROVE  Grace' \subseteq Grace
BY DEF Grace

LEMMA ClaimMaps ==
  ASSUME ManifestAssumption, IInv, NEW w \in Replica, Claim(w)
  PROVE  Roll!Next
<1> DEFINE r == Min(Claimable(w))
           c == Min(Following(job[r].cursor))
<1>1. c \in Customer /\ life[c] = "ACTIVE"
  BY FollowingFacts DEF Claim, Following
<1>2. /\ tx' = [tx EXCEPT ![w] = [pc |-> "chosen", job |-> r, customer |-> c,
                                  paid |-> paid[c]]]
      /\ UNCHANGED <<topologyVars, job, life, paid, holds, late>>
      /\ tx[w] = Idle
  BY DEF Claim, customerVars
<1>3. tx \in [Replica \cup Caller -> Txs] /\ paid[c] \in BOOLEAN
        /\ revision \in Revisions \cup {0}
  BY <1>1, TypeParts DEF IInv, TypeOK, TxsType
<1> HIDE DEF c, r
<1>4. /\ \A v \in Replica : v # w => tx'[v] = tx[v]
      /\ tx'[w].pc = "chosen" /\ tx'[w].customer = c /\ tx'[w].paid = paid[c]
      /\ tx[w].pc = "idle"
  BY <1>2, <1>3 DEF Idle
<1>5. Due' = Due
  BY <1>2, <1>3, DueKept DEF IInv, topologyVars
<1>6. CASE paid[c]
  <2> DEFINE At(v, d) == tx[v].pc \in {"chosen", "locked"} /\ tx[v].customer = d /\ tx[v].paid
  <2>3. \A d \in Customer : (At(w, d)' <=> d = c) /\ ~At(w, d)
    BY <1>4, <1>6
  <2>4. \A v \in Replica : v # w => \A d \in Customer : At(v, d)' <=> At(v, d)
    BY <1>4
  <2>5. Grace = {d \in Customer : \E v \in Replica : At(v, d)}
    BY DEF Grace
  <2>6. Grace' = {d \in Customer : \E v \in Replica : At(v, d)'}
    BY DEF Grace
  <2> HIDE DEF At
  <2>1. Grace' = Grace \cup {c}
    BY <1>1, <2>3, <2>4, <2>5, <2>6
  <2>2. Roll!Begin(c)
    BY <1>1, <1>2, <1>5, <1>6, <2>1, SameInfra DEF Roll!Begin, Roll!customerVars
  <2> QED
    BY <1>1, <2>2 DEF Roll!Next
<1>7. CASE ~paid[c]
  <2>1. Grace' \subseteq Grace
    BY <1>4, <1>7 DEF Grace
  <2> QED
    BY <1>2, <1>5, <2>1, NothingPasses
<1> QED
  BY <1>6, <1>7

\* A finished job leaves nobody behind its cursor who is there.
LEMMA CompleteMaps ==
  ASSUME ManifestAssumption, IInv, NEW w \in Replica, Complete(w)
  PROVE  Roll!Next
<1> DEFINE r == Min(Claimable(w))
<1>1. /\ r \in Revisions /\ Following(job[r].cursor) = {}
      /\ job' = [job EXCEPT ![r].status = "DONE", ![r].owner = Nobody]
  BY TypeParts, ClaimableFacts DEF IInv, Complete
<1>2. UNCHANGED <<topologyVars, life, paid, holds, late, tx>>
  BY DEF Complete, customerVars
<1> HIDE DEF r
<1>3. CASE r = revision
  <2>1. \A d \in Customer : life[d] = "ACTIVE" => ~(job[revision].cursor < d)
    BY <1>1, <1>3 DEF Following, ManifestAssumption, IInv, TypeOK
  <2>2. job'[revision].cursor = job[revision].cursor
    BY <1>1, <1>3 DEF IInv, TypeOK
  <2> QED
    <3>1. Due' = Due
      BY <1>2, <2>1, <2>2 DEF Due, topologyVars
    <3>2. Grace' \subseteq Grace
      BY <1>2, GraceShrinks
    <3> QED
      BY <1>2, <3>1, <3>2, NothingPasses
<1>4. CASE r # revision
  <2>1. revision \in Revisions => job'[revision] = job[revision]
    BY <1>1, <1>4 DEF IInv, TypeOK
  <2>2. Due' = Due
    BY <1>2, <2>1, DueKept DEF IInv, TypeOK, topologyVars
  <2>3. Grace' \subseteq Grace
    BY <1>2, GraceShrinks
  <2> QED
    BY <1>2, <2>2, <2>3, NothingPasses
<1> QED
  BY <1>3, <1>4

LEMMA LockMaps ==
  ASSUME ManifestAssumption, IInv, NEW w \in Replica, Lock(w)
  PROVE  Roll!Next
<1>1. /\ tx[w].pc = "chosen"
      /\ tx' = [tx EXCEPT ![w] =
             [pc |-> "locked", job |-> tx[w].job, customer |-> tx[w].customer,
              paid |-> tx[w].paid, nodes |-> FleetNodes(FleetOf[tx[w].customer])]]
      /\ UNCHANGED <<topologyVars, job, life, paid, holds, late>>
  BY DEF Lock, customerVars
<1>2. /\ \A v \in Replica : v # w => tx'[v] = tx[v]
      /\ tx'[w].customer = tx[w].customer /\ tx'[w].paid = tx[w].paid
  BY <1>1 DEF IInv, TypeOK
<1>3. Grace' \subseteq Grace
  BY <1>1, <1>2, GraceShrinks
<1>4. Due' = Due
  BY <1>1, DueKept DEF IInv, TypeOK, topologyVars
<1> QED
  BY <1>1, <1>3, <1>4, NothingPasses

LEMMA FaultMaps ==
  ASSUME ManifestAssumption, IInv, NEW w \in Replica, Fail(w) \/ Restart(w)
  PROVE  Roll!Next
<1>1. UNCHANGED <<topologyVars, life, paid, holds, late>> /\ tx' = [tx EXCEPT ![w] = Idle]
  BY DEF Fail, Restart, customerVars
<1>2. \A v \in Replica : tx'[v] = tx[v] \/ tx'[v] = Idle
  BY <1>1 DEF IInv, TypeOK
<1>3. \A r \in Revisions : job'[r].status = job[r].status /\ job'[r].cursor = job[r].cursor
  BY DEF Fail, Restart, IInv, TypeOK
<1>4. Grace' \subseteq Grace
  BY <1>2, GraceShrinks DEF Idle
<1>5. Due' = Due
  BY <1>1, <1>3, DueKept DEF IInv, TypeOK, topologyVars
<1> QED
  BY <1>1, <1>4, <1>5, NothingPasses

LEMMA LeaseExpiresMaps ==
  ASSUME ManifestAssumption, IInv, NEW r \in Revisions, LeaseExpires(r)
  PROVE  Roll!Next
<1>1. UNCHANGED <<topologyVars, life, paid, holds, late, tx>>
        /\ job' = [job EXCEPT ![r].owner = Nobody]
  BY DEF LeaseExpires, customerVars
<1>2. \A u \in Revisions : job'[u].status = job[u].status /\ job'[u].cursor = job[u].cursor
  BY <1>1 DEF IInv, TypeOK
<1>3. Due' = Due
  BY <1>1, <1>2, DueKept DEF IInv, TypeOK, topologyVars
<1>4. Grace' \subseteq Grace
  BY <1>1, GraceShrinks
<1> QED
  BY <1>1, <1>3, <1>4, NothingPasses

LEMMA ApplyMaps ==
  ASSUME ManifestAssumption, IInv, NEW p \in Caller, NEW c \in Customer, Apply(p, c)
  PROVE  Roll!Next
<1>1. /\ tx' = [tx EXCEPT ![p] = [pc |-> "applying", customer |-> c, read |-> revision,
                                  nodes |-> FleetNodes(FleetOf[c])]]
      /\ UNCHANGED <<topologyVars, job, life, paid, holds, late>>
  BY DEF Apply, customerVars
<1>2. \A v \in Replica : tx'[v] = tx[v]
  BY <1>1 DEF IInv, TypeOK, ManifestAssumption
<1>3. Due' = Due
  BY <1>1, DueKept DEF IInv, TypeOK, topologyVars
<1>4. Grace' \subseteq Grace
  BY <1>2, GraceShrinks
<1> QED
  BY <1>1, <1>3, <1>4, NothingPasses

-----------------------------------------------------------------------------
(* What else a transaction relies on. *)

\* The fleet an Apply has found stays, and nobody takes away or moves the job of a
\* worker while he works.
CourseOk(p) ==
    /\ tx[p].pc = "applying" => FleetOf[tx[p].customer] \in fleets
    /\ Works(p) => /\ Unfinished(tx[p].job)
                   /\ job[tx[p].job].cursor < tx[p].customer

CourseInv == \A p \in Process : CourseOk(p)

LEMMA QuietCourse ==
  ASSUME CourseInv, fleets \subseteq fleets',
         \A p \in Process : tx'[p] = tx[p] \/ tx'[p] = Idle,
         \A p \in Process : Works(p) /\ tx'[p] = tx[p] =>
            /\ job'[tx[p].job].status = job[tx[p].job].status
            /\ job'[tx[p].job].cursor = job[tx[p].job].cursor
  PROVE  CourseInv'
<1> SUFFICES ASSUME NEW p \in Process PROVE CourseOk(p)'
  BY DEF CourseInv
<1>1. CASE tx'[p] = Idle
  BY <1>1 DEF CourseOk, Works, Idle
<1>2. CASE tx'[p] = tx[p]
  <2>1. CourseOk(p) /\ (Works(p)' <=> Works(p))
    BY <1>2 DEF CourseInv, Works
  <2> QED
    BY <1>2, <2>1 DEF CourseOk, Unfinished
<1> QED
  BY <1>1, <1>2

LEMMA IngestCourse ==
  ASSUME ManifestAssumption, IInv, CourseInv, NEW q \in Request, Ingest(q)
  PROVE  CourseInv'
<1>1. /\ q.revision > revision /\ q.revision \in Nat /\ revision \in Nat
      /\ job' = [job EXCEPT ![q.revision].status = "PENDING"]
      /\ fleets \subseteq fleets' /\ tx' = tx
  BY RevisionFacts DEF Ingest, Acceptable, IsNewer, IInv, TypeOK
<1>2. ASSUME NEW p \in Process, Works(p) PROVE job'[tx[p].job] = job[tx[p].job]
  <2>1. tx[p].job <= revision /\ tx[p].job \in Revisions
    BY <1>2, ProcessFacts DEF IInv, TxOk, TxType, Works
  <2>2. tx[p].job # q.revision
    BY <1>1, <2>1, RevisionFacts
  <2> QED
    BY <1>1, <2>1, <2>2 DEF IInv, TypeOK
<1> QED
  BY <1>1, <1>2, QuietCourse

LEMMA ClaimCourse ==
  ASSUME ManifestAssumption, IInv, CourseInv, NEW w \in Replica, Claim(w)
  PROVE  CourseInv'
<1> DEFINE r == Min(Claimable(w))
           c == Min(Following(job[r].cursor))
<1>1. r \in Claimable(w) /\ job[r].cursor < c
  BY TypeParts, ClaimableFacts, FollowingFacts DEF Claim, IInv
<1>2. Unfinished(r)
  BY <1>1 DEF Claimable
<1>3. /\ tx' = [tx EXCEPT ![w] = [pc |-> "chosen", job |-> r, customer |-> c,
                                  paid |-> paid[c]]]
      /\ fleets' = fleets /\ job' = job
  BY DEF Claim, topologyVars
<1> HIDE DEF c, r
<1>4. /\ \A p \in Process : p # w => tx'[p] = tx[p]
      /\ tx'[w].pc = "chosen" /\ tx'[w].job = r /\ tx'[w].customer = c
  BY <1>3 DEF IInv, TypeOK, Process
<1> SUFFICES ASSUME NEW p \in Process PROVE CourseOk(p)'
  BY DEF CourseInv
<1>5. CASE p = w
  BY <1>1, <1>2, <1>3, <1>4, <1>5 DEF CourseOk, Unfinished
<1>6. CASE p # w
  <2>1. CourseOk(p) /\ tx'[p] = tx[p]
    BY <1>4, <1>6 DEF CourseInv
  <2> QED
    BY <1>3, <2>1 DEF CourseOk, Unfinished, Works
<1> QED
  BY <1>5, <1>6

LEMMA CompleteCourse ==
  ASSUME ManifestAssumption, IInv, CourseInv, NEW w \in Replica, Complete(w)
  PROVE  CourseInv'
<1> DEFINE r == Min(Claimable(w))
<1>1. r \in Claimable(w) /\ r \in Revisions
  BY TypeParts, ClaimableFacts DEF Complete, IInv
<1>2. job' = [job EXCEPT ![r].status = "DONE", ![r].owner = Nobody]
        /\ fleets' = fleets /\ tx' = tx
  BY DEF Complete, topologyVars
<1> HIDE DEF r
<1>3. ASSUME NEW p \in Process, Works(p) PROVE job'[tx[p].job] = job[tx[p].job]
  <2>1. p \in Replica /\ tx[p].job \in Revisions
    BY <1>3, ProcessFacts DEF IInv, TxOk, TxType, Works
  <2>2. tx[p].job # r
    BY <1>1, <1>3, <2>1 DEF Claimable, RowLocked, Works
  <2> QED
    BY <1>2, <2>1, <2>2 DEF IInv, TypeOK
<1> QED
  BY <1>2, <1>3, QuietCourse

LEMMA LockCourse ==
  ASSUME ManifestAssumption, IInv, CourseInv, NEW w \in Replica, Lock(w)
  PROVE  CourseInv'
<1>1. /\ tx[w].pc = "chosen" /\ fleets' = fleets /\ job' = job
      /\ tx' = [tx EXCEPT ![w] =
             [pc |-> "locked", job |-> tx[w].job, customer |-> tx[w].customer,
              paid |-> tx[w].paid, nodes |-> FleetNodes(FleetOf[tx[w].customer])]]
  BY DEF Lock, topologyVars
<1>2. /\ \A p \in Process : p # w => tx'[p] = tx[p]
      /\ tx'[w].pc = "locked" /\ tx'[w].job = tx[w].job /\ tx'[w].customer = tx[w].customer
  BY <1>1 DEF IInv, TypeOK, Process
<1> SUFFICES ASSUME NEW p \in Process PROVE CourseOk(p)'
  BY DEF CourseInv
<1>3. CourseOk(p)
  BY DEF CourseInv
<1>4. CASE p = w
  BY <1>1, <1>2, <1>3, <1>4 DEF CourseOk, Unfinished, Works
<1>5. CASE p # w
  BY <1>1, <1>2, <1>3, <1>5 DEF CourseOk, Unfinished, Works
<1> QED
  BY <1>4, <1>5

LEMMA CommitCourse ==
  ASSUME ManifestAssumption, IInv, CourseInv, NEW w \in Replica, Commit(w)
  PROVE  CourseInv'
<1>1. /\ tx[w].pc = "locked" /\ fleets' = fleets
      /\ job' = [job EXCEPT ![tx[w].job] =
                   [status |-> "IN_PROGRESS", cursor |-> tx[w].customer, owner |-> w]]
      /\ tx' = [tx EXCEPT ![w] = Idle]
  BY DEF Commit, topologyVars
<1>2. Works(w) /\ w \in Process
  BY <1>1 DEF Works, Process
<1>3. /\ \A p \in Process : tx'[p] = tx[p] \/ tx'[p] = Idle
      /\ tx'[w] = Idle
  BY <1>1, <1>2 DEF IInv, TypeOK, Process
<1>4. ASSUME NEW p \in Process, Works(p), tx'[p] = tx[p]
      PROVE  job'[tx[p].job] = job[tx[p].job]
  <2>1. p \in Replica /\ tx[p].job \in Revisions /\ tx[w].job \in Revisions
    BY <1>2, <1>4, ProcessFacts DEF IInv, TxOk, TxType, Works
  <2>2. p # w
    BY <1>3, <1>4 DEF Works, Idle
  <2>3. tx[p].job # tx[w].job
    BY <1>2, <1>4, <2>1, <2>2 DEF IInv, TxInv, Apart
  <2> QED
    BY <1>1, <2>1, <2>3 DEF IInv, TypeOK
<1> QED
  BY <1>1, <1>3, <1>4, QuietCourse

LEMMA RestCourse ==
  ASSUME ManifestAssumption, IInv, CourseInv,
         \/ \E w \in Replica : Fail(w) \/ Restart(w)
         \/ \E r \in Revisions : LeaseExpires(r)
         \/ \E p \in Caller, renewed \in BOOLEAN : Finish(p, renewed)
         \/ \E c \in Customer : Lapse(c) \/ Delete(c) \/ Erase(c)
  PROVE  CourseInv'
<1>1. fleets' = fleets
  BY DEF Fail, Restart, LeaseExpires, Finish, Lapse, Delete, Erase, topologyVars
<1>2. \A p \in Process : tx'[p] = tx[p] \/ tx'[p] = Idle
  BY DEF Fail, Restart, LeaseExpires, Finish, Lapse, Delete, Erase, IInv, TypeOK, Process
<1>3. \A r \in Revisions : job'[r].status = job[r].status /\ job'[r].cursor = job[r].cursor
  BY DEF Fail, Restart, LeaseExpires, Finish, Lapse, Delete, Erase, IInv, TypeOK
<1>4. \A p \in Process : Works(p) => tx[p].job \in Revisions
  BY ProcessFacts DEF IInv, TxType, Works
<1> QED
  BY <1>1, <1>2, <1>3, <1>4, QuietCourse

LEMMA ApplyCourse ==
  ASSUME ManifestAssumption, IInv, CourseInv, NEW p \in Caller, NEW c \in Customer,
         Apply(p, c)
  PROVE  CourseInv'
<1>1. /\ FleetOf[c] \in fleets /\ fleets' = fleets /\ job' = job
      /\ tx' = [tx EXCEPT ![p] = [pc |-> "applying", customer |-> c, read |-> revision,
                                  nodes |-> FleetNodes(FleetOf[c])]]
  BY DEF Apply, topologyVars
<1>2. /\ \A x \in Process : x # p => tx'[x] = tx[x]
      /\ tx'[p].pc = "applying" /\ tx'[p].customer = c
  BY <1>1 DEF IInv, TypeOK, Process
<1> SUFFICES ASSUME NEW x \in Process PROVE CourseOk(x)'
  BY DEF CourseInv
<1>3. CASE x = p
  BY <1>1, <1>2, <1>3 DEF CourseOk, Works
<1>4. CASE x # p
  <2>1. CourseOk(x) /\ tx'[x] = tx[x]
    BY <1>2, <1>4 DEF CourseInv
  <2> QED
    BY <1>1, <2>1 DEF CourseOk, Unfinished, Works
<1> QED
  BY <1>3, <1>4

LEMMA StepCourse ==
  ASSUME ManifestAssumption, IInv, CourseInv, Step
  PROVE  CourseInv'
BY IngestCourse, ClaimCourse, CompleteCourse, LockCourse, CommitCourse, RestCourse,
   ApplyCourse DEF Step

-----------------------------------------------------------------------------
(* Commands. *)

LEMMA SameLagging ==
  ASSUME NEW c \in Customer, UNCHANGED topologyVars,
         life'[c] = life[c], paid'[c] = paid[c], holds'[c] = holds[c]
  PROVE  Lagging(c)' <=> Lagging(c)
BY DEF Lagging, Wanted, TargetsOf, FleetNodes, FleetRoutes, topologyVars

LEMMA LapseMaps ==
  ASSUME IInv, NEW c \in Customer, Lapse(c)
  PROVE  Roll!Lapse(c)
<1>1. Due' = Due
  BY DueKept DEF Lapse, IInv, TypeOK, topologyVars
<1>2. Grace' = Grace
  BY DEF Lapse, Grace
<1> QED
  BY <1>1, <1>2, SameInfra DEF Lapse, Roll!Lapse, Roll!rolloutVars

LEMMA DeleteMaps ==
  ASSUME IInv, NEW c \in Customer, Delete(c)
  PROVE  Roll!Leave(c)
<1>1. UNCHANGED <<topologyVars, job, paid, holds, late, tx>>
        /\ life' = [life EXCEPT ![c] = "DELETING"] /\ life[c] = "ACTIVE"
  BY DEF Delete
<1>2. life'[c] = "DELETING" /\ \A d \in Customer : d # c => life'[d] = life[d]
  BY <1>1 DEF IInv, TypeOK
<1>3. Due' = Due \ {c}
  BY <1>1, <1>2 DEF Due, Unfinished, topologyVars
<1>4. Grace' = Grace
  BY <1>1 DEF Grace
<1> QED
  BY <1>1, <1>3, <1>4, SameInfra DEF Roll!Leave

LEMMA EraseMaps ==
  ASSUME IInv, NEW c \in Customer, Erase(c)
  PROVE  Roll!Vanish(c)
<1>1. /\ UNCHANGED <<topologyVars, job, tx>> /\ life[c] = "DELETING"
      /\ life' = [life EXCEPT ![c] = "none"] /\ late' = [late EXCEPT ![c] = 0]
      /\ paid' = [paid EXCEPT ![c] = FALSE] /\ holds' = [holds EXCEPT ![c] = {}]
  BY DEF Erase
<1>2. /\ life'[c] = "none"
      /\ \A d \in Customer : d # c => life'[d] = life[d] /\ late'[d] = late[d]
  BY <1>1 DEF IInv, TypeOK
<1>3. Due' = Due
  BY <1>1, <1>2 DEF Due, Unfinished, topologyVars
<1>4. Grace' = Grace
  BY <1>1 DEF Grace
<1> QED
  BY <1>1, <1>3, <1>4, SameInfra DEF Roll!Vanish, Roll!rolloutVars

\* A first Apply that missed a manifest leaves its customer due; any other gives
\* him what the topology promises, or the rest of it.
LEMMA FinishMaps ==
  ASSUME ManifestAssumption, IInv, CourseInv,
         NEW p \in Caller, NEW renewed \in BOOLEAN, Finish(p, renewed)
  PROVE  Roll!Next
<1>1. tx[p].pc = "applying" /\ p \in Process /\ Holds(p)
  BY DEF Finish, Process, Holds
<1>2. PICK c \in Customer : c = tx[p].customer
  BY <1>1, ProcessFacts DEF IInv
<1> DEFINE nodes == tx[p].nodes
           targets == TargetsOf(nodes, FleetRoutes(FleetOf[c]))
<1>3. /\ UNCHANGED <<topologyVars, job>>
      /\ life[c] = "none" => renewed
      /\ life' = [life EXCEPT ![c] = "ACTIVE"]
      /\ paid' = [paid EXCEPT ![c] = paid[c] \/ renewed]
      /\ holds' = [holds EXCEPT ![c] = Applied(targets, holds[c])]
      /\ late' = IF life[c] = "none" /\ tx[p].read < revision
                 THEN [late EXCEPT ![c] = revision] ELSE late
      /\ tx' = [tx EXCEPT ![p] = Idle]
  BY <1>2 DEF Finish, IInv, TypeOK
<1>4. TxOk(p) /\ TxType(p)
  BY <1>1, ProcessFacts DEF IInv
<1>5. nodes \in SUBSET Node
  BY <1>1, <1>4 DEF TxType
<1>6. Fresh(p) => targets = Wanted(c)
  BY <1>2 DEF Fresh, Wanted
<1>7. Roll!Targets(c, nodes) = targets /\ Roll!Promised(c) = Wanted(c)
  BY TargetsMap, PromisedMaps
<1>8. Grace' = Grace
  <2>1. \A v \in Replica : tx'[v] = tx[v]
    BY <1>3 DEF IInv, TypeOK, ManifestAssumption
  <2> QED
    BY <2>1 DEF Grace
<1> HIDE DEF nodes, targets
<1>9. UNCHANGED Roll!infraVars
  BY <1>3, SameInfra
<1>10. CASE life[c] = "none"
  <2>1. FleetOf[c] \in Topology.fleets
    BY <1>1, <1>2, TopologyFields DEF CourseInv, CourseOk
  <2>2. holds[c] = {}
    BY <1>10 DEF IInv, LifeInv
  <2>3. Applied(targets, holds[c]) = targets
    BY <2>2 DEF Applied, Missing
  <2>4. paid' = [paid EXCEPT ![c] = TRUE] /\ holds' = [holds EXCEPT ![c] = targets]
    <3>1. (paid[c] \/ renewed) = TRUE
      BY <1>3, <1>10
    <3> QED
      BY <1>3, <2>3, <3>1
  <2>5. life'[c] = "ACTIVE" /\ \A d \in Customer : d # c => life'[d] = life[d] /\ late'[d] = late[d]
    BY <1>3, <1>10 DEF IInv, TypeOK
  <2>6. c \notin Due
    BY <1>10 DEF Due
  <2>7. \A d \in Customer : d # c => (d \in Due' <=> d \in Due)
    BY <1>3, <2>5, SameDue DEF topologyVars
  <2>8. Due \subseteq Customer /\ Due' \subseteq Customer
    BY DEF Due
  <2>9. Due' = Due \cup {c} \/ (Due' = Due /\ targets = Wanted(c))
    <3>1. CASE tx[p].read < revision
      <4>1. late'[c] = revision'
        BY <1>3, <1>10, <3>1 DEF IInv, TypeOK, topologyVars
      <4>2. c \in Due'
        BY <2>5, <4>1 DEF Due
      <4> QED
        BY <2>7, <2>8, <4>2
    <3>2. CASE ~(tx[p].read < revision)
      <4>1. tx[p].read <= revision /\ tx[p].read \in Nat /\ revision \in Nat
        BY <1>1, <1>4, RevisionFacts DEF TxOk, TxType, IInv, TypeOK
      <4>2. Fresh(p)
        BY <1>1, <1>4, <3>2, <4>1 DEF TxOk
      <4>3. Due' = Due \cup {c} \/ Due' = Due
        <5>1. c \in Due' => Due' = Due \cup {c}
          BY <2>7, <2>8
        <5>2. c \notin Due' => Due' \subseteq Due
          BY <2>7, <2>8
        <5>3. Due \subseteq Due'
          BY <2>6, <2>7, <2>8
        <5> QED
          BY <5>1, <5>2, <5>3
      <4> QED
        BY <1>6, <4>2, <4>3
    <3> QED
      BY <3>1, <3>2
  <2>10. Roll!Join(c, nodes)
    BY <1>3, <1>7, <1>8, <1>9, <1>10, <2>1, <2>4, <2>9 DEF Roll!Join
  <2> QED
    BY <1>5, <2>10 DEF Roll!Next, Roll!Command
<1>11. CASE life[c] = "ACTIVE"
  <2>1. life' = life /\ late' = late
    BY <1>3, <1>11 DEF IInv, TypeOK
  <2>2. Due' = Due
    BY <1>3, <2>1, DueKept DEF IInv, TypeOK, topologyVars
  <2>3. c \notin Due => Applied(targets, holds[c]) = Wanted(c)
    <3> SUFFICES ASSUME c \notin Due PROVE Applied(targets, holds[c]) = Wanted(c)
      OBVIOUS
    <3>1. ~Ahead(c)
      BY <1>11 DEF Due, Ahead
    <3>2. Fresh(p)
      BY <1>1, <1>2, <1>11, <3>1 DEF IInv, ForgetInv, StaleAhead
    <3>3. ~Lagging(c)
      BY LaggardIsDue DEF IInv, DueInv
    <3>4. holds[c] \subseteq Wanted(c)
      BY <1>11, <3>3 DEF Lagging
    <3> QED
      BY <1>6, <3>2, <3>4, AppliedIsWanted DEF IInv, RowsInv
  <2>4. holds' = [holds EXCEPT ![c] = IF c \in Due
                                      THEN Roll!Completed(Roll!Targets(c, nodes), holds[c])
                                      ELSE Roll!Promised(c)]
    BY <1>3, <1>7, <2>3, CompletedMaps
  <2>5. Roll!Renew(c, nodes, renewed)
    BY <1>3, <1>8, <1>9, <1>11, <2>1, <2>2, <2>4 DEF Roll!Renew, Roll!rolloutVars
  <2> QED
    BY <1>5, <2>5 DEF Roll!Next, Roll!Command
<1>12. life[c] # "DELETING"
  BY <1>1, <1>2, <1>4 DEF TxOk
<1> QED
  BY <1>10, <1>11, <1>12 DEF IInv, TypeOK

-----------------------------------------------------------------------------
(* The commit of a worker. *)

\* Only customers who have what they should cease to be due, and nobody becomes
\* due.
LEMMA CommitDue ==
  ASSUME ManifestAssumption, IInv, IInv', CourseInv, NEW w \in Replica, Commit(w),
         NEW c \in Customer, c = tx[w].customer
  PROVE  /\ Due' \subseteq Due
         /\ \A d \in Due \ Due' : d # c => ~Lagging(d)
         /\ tx[w].job # revision /\ Ahead(c) => Due' = Due
<1>1. tx[w].pc = "locked" /\ w \in Process /\ Works(w)
  BY DEF Commit, Process, Works
<1>2. PICK j \in Revisions : j = tx[w].job
  BY <1>1, ProcessFacts DEF IInv, TxType
<1>3. /\ UNCHANGED <<topologyVars, life, paid>>
      /\ \A d \in Customer : d # c => holds'[d] = holds[d] /\ late'[d] = late[d]
      /\ late'[c] = 0
      /\ job' = [job EXCEPT ![j] = [status |-> "IN_PROGRESS", cursor |-> c, owner |-> w]]
  BY <1>2 DEF Commit, IInv, TypeOK
<1>4. Unfinished(j) /\ job[j].cursor < c
  BY <1>1, <1>2 DEF CourseInv, CourseOk
<1>5. \A d \in Customer : life[d] = "ACTIVE" => revision # 0
  BY DEF IInv, LifeInv
<1>6. revision # j => job'[revision] = job[revision] \/ revision = 0
  BY <1>3 DEF IInv, TypeOK
<1>7. job'[j].cursor = c
  BY <1>3 DEF IInv, TypeOK
<1>8. \A d \in Customer : job[j].cursor < c /\ c < d => job[j].cursor < d
  <2>1. job[j].cursor \in Customer \cup {0}
    BY DEF IInv, TypeOK
  <2>2. Customer \subseteq Nat
    BY DEF ManifestAssumption
  <2> DEFINE k == job[j].cursor
  <2>5. k \in Customer \cup {0}
    BY <2>1
  <2> HIDE DEF k
  <2>6. Customer \cup {0} \subseteq Nat
    BY <2>2
  <2>3. k \in Nat /\ c \in Nat
    BY <2>5, <2>6
  <2>4. \A d \in Nat : k < c /\ c < d => k < d
    <3>1. \A x, y, z \in Nat : x < y /\ y < z => x < z
      OBVIOUS
    <3> QED
      BY <2>3, <3>1
  <2> QED
    BY <2>2, <2>4 DEF k
<1>9. ~(c < c)
  <2>1. c \in Nat
    BY DEF ManifestAssumption
  <2> QED
    BY <2>1
<1>10. ASSUME NEW d \in Due' PROVE d \in Due
  <2>1. d \in Customer /\ life[d] = "ACTIVE" /\ revision' = revision
    BY <1>3 DEF Due, topologyVars
  <2>2. late'[d] = revision => d # c /\ late[d] = revision
    BY <1>3, <1>5, <2>1
  <2>3. (Unfinished(revision) /\ job[revision].cursor < d)' =>
           Unfinished(revision) /\ job[revision].cursor < d
    <3>1. CASE revision = j
      BY <1>3, <1>4, <1>7, <1>8, <2>1, <3>1
    <3>2. CASE revision # j
      BY <1>5, <1>6, <2>1, <3>2 DEF Unfinished
    <3> QED
      BY <3>1, <3>2
  <2> QED
    BY <2>1, <2>2, <2>3 DEF Due
<1>11. ASSUME NEW d \in Due \ Due', d # c PROVE ~Lagging(d)
  <2>1. d \in Customer
    BY DEF Due
  <2>2. DueInv'
    <3>1. ForgetInv'
      BY DEF IInv
    <3> QED
      BY <3>1, LaggardIsDue, PTL
  <2>3. ~Lagging(d)'
    BY <2>1, <2>2, <1>11 DEF DueInv
  <2> QED
    BY <1>3, <1>11, <2>1, <2>3, SameLagging
<1>12. ASSUME j # revision, Ahead(c) PROVE Due' = Due
  <2>1. revision \in Revisions /\ job'[revision] = job[revision]
    BY <1>3, <1>12 DEF Ahead, IInv, TypeOK
  <2>2. Unfinished(revision)' /\ job'[revision].cursor < c
    BY <1>3, <1>12, <2>1 DEF Ahead, Unfinished, topologyVars
  <2>3. life[c] = "ACTIVE" => c \in Due' /\ c \in Due
    BY <1>3, <1>12, <2>2 DEF Due, Ahead, topologyVars
  <2>4. life[c] # "ACTIVE" => c \notin Due' /\ c \notin Due
    BY <1>3 DEF Due
  <2>5. \A d \in Customer : d # c => (d \in Due' <=> d \in Due)
    BY <1>3, <2>1, SameDue DEF topologyVars
  <2>6. Due \subseteq Customer /\ Due' \subseteq Customer
    BY DEF Due
  <2>7. c \in Due' <=> c \in Due
    BY <2>3, <2>4
  <2>8. Due' \subseteq Due
    BY <2>5, <2>6, <2>7
  <2>9. Due \subseteq Due'
    BY <2>5, <2>6, <2>7
  <2> QED
    BY <2>8, <2>9
<1> QED
  BY <1>2, <1>10, <1>11, <1>12

LEMMA CommitMaps ==
  ASSUME ManifestAssumption, IInv, IInv', CourseInv, NEW w \in Replica, Commit(w)
  PROVE  Roll!Next
<1>1. tx[w].pc = "locked" /\ w \in Process /\ Holds(w) /\ Works(w)
  BY DEF Commit, Process, Holds, Works
<1>2. PICK c \in Customer : c = tx[w].customer
  BY <1>1, ProcessFacts DEF IInv
<1>3. TxOk(w) /\ TxType(w)
  BY <1>1, ProcessFacts DEF IInv
<1> DEFINE nodes == tx[w].nodes
           targets == TargetsOf(nodes, FleetRoutes(FleetOf[c]))
           unexpired == tx[w].paid \/ paid[c]
           done == Due \ Due'
<1>4. /\ UNCHANGED <<topologyVars, life, paid>>
      /\ holds' = IF life[c] # "ACTIVE" THEN holds
                  ELSE [holds EXCEPT ![c] = Materialized(targets, holds[c], unexpired)]
      /\ tx' = [tx EXCEPT ![w] = Idle]
  BY <1>2 DEF Commit, IInv, TypeOK
<1>5. /\ Due' \subseteq Due
      /\ \A d \in Due \ Due' : d # c => ~Lagging(d)
      /\ tx[w].job # revision /\ Ahead(c) => Due' = Due
  BY <1>2, CommitDue
<1>6. Grace' \subseteq Grace
  <2>1. \A v \in Replica : tx'[v] = tx[v] \/ tx'[v] = Idle
    BY <1>4 DEF IInv, TypeOK
  <2> QED
    BY <2>1, GraceShrinks DEF Idle
<1>7. UNCHANGED Roll!infraVars
  BY <1>4, SameInfra
<1>8. done \in SUBSET Due /\ Due' = Due \ done
  BY <1>5
<1>9. nodes \in SUBSET Node /\ tx[w].paid \in BOOLEAN /\ paid[c] \in BOOLEAN
  BY <1>1, <1>3 DEF TxType, IInv, TypeOK
<1>10. unexpired \in BOOLEAN
  BY <1>9
<1>11. Roll!MayCount(c, unexpired)
  <2>1. tx[w].paid => c \in Grace
    BY <1>1, <1>2 DEF Grace
  <2> QED
    BY <2>1 DEF Roll!MayCount
<1>12. \A d \in done : d # c => ~Roll!Differs(d)
  <2>1. done \subseteq Customer
    BY DEF Due
  <2> QED
    BY <1>5, <2>1, DiffersMaps
<1>13. Roll!Targets(c, nodes) = targets /\ Roll!Promised(c) = Wanted(c)
  BY TargetsMap, PromisedMaps
<1>14. Fresh(w) => targets = Wanted(c)
  BY <1>2 DEF Fresh, Wanted
<1>15. ~Fresh(w) /\ life[c] = "ACTIVE" => Ahead(c) /\ tx[w].job # revision
  BY <1>1, <1>2, <1>3 DEF IInv, ForgetInv, StaleAhead, TxOk
<1>16. Roll!Carried(targets, holds[c], unexpired) = Materialized(targets, holds[c], unexpired)
  BY <1>10, CarriedMaps
<1> HIDE DEF nodes, targets, unexpired, done
<1>17. CASE life[c] # "ACTIVE"
  <2>1. c \notin Due
    BY <1>17 DEF Due
  <2>2. Roll!Settled(done)
    BY <1>8, <1>12, <2>1 DEF Roll!Settled
  <2>3. Roll!Pass(done)
    BY <1>4, <1>7, <1>8, <1>17, <2>2 DEF Roll!Pass, Roll!customerVars
  <2> QED
    BY <1>6, <1>8, <2>3 DEF Roll!Next
<1>18. CASE life[c] = "ACTIVE" /\ Fresh(w)
  <2>1. Roll!Settled(done \ {c})
    BY <1>12 DEF Roll!Settled
  <2>2. holds' = [holds EXCEPT ![c] = Roll!Carried(Roll!Promised(c), holds[c], unexpired)]
    BY <1>4, <1>13, <1>14, <1>16, <1>18
  <2>3. Roll!Carry(c, unexpired, done)
    BY <1>4, <1>7, <1>8, <1>11, <1>18, <2>1, <2>2 DEF Roll!Carry
  <2> QED
    BY <1>6, <1>8, <1>10, <2>3 DEF Roll!Next, Roll!Bring
<1>19. CASE life[c] = "ACTIVE" /\ ~Fresh(w)
  <2>1. Ahead(c) /\ Due' = Due
    BY <1>5, <1>15, <1>19
  <2>2. c \in Due
    BY <1>19, <2>1 DEF Ahead, Due
  <2>3. holds' = [holds EXCEPT ![c] = Roll!Carried(Roll!Targets(c, nodes), holds[c], unexpired)]
    BY <1>4, <1>13, <1>16, <1>19
  <2>4. Roll!Mix(c, nodes, unexpired)
    BY <1>4, <1>7, <1>11, <2>1, <2>2, <2>3 DEF Roll!Mix
  <2> QED
    BY <1>6, <1>9, <1>10, <2>4 DEF Roll!Next, Roll!Bring
<1> QED
  BY <1>17, <1>18, <1>19

-----------------------------------------------------------------------------
(* The refinement. *)

LEMMA RolloutInit ==
  ASSUME ManifestAssumption, Init
  PROVE  Roll!Init /\ CourseInv
<1>1. CourseInv
  <2>1. \A p \in Process : tx[p] = Idle
    BY DEF Init, Process
  <2> QED
    BY <2>1 DEF CourseInv, CourseOk, Works, Idle
<1>2. Due = {} /\ Grace = {}
  BY DEF Init, Due, Grace, Idle
<1>3. Topology = Roll!Nothing /\ Pairs = {}
  BY DEF Init, Topology, Pairs, CurrentRoutes, Roll!Nothing
<1> QED
  BY <1>1, <1>2, <1>3 DEF Init, Roll!Init

LEMMA RolloutStep ==
  ASSUME ManifestAssumption, IInv, IInv', CourseInv, Step
  PROVE  Roll!Next
<1>1. ASSUME NEW q \in Request, Ingest(q) PROVE Roll!Next
  <2>1. RowsInv'
    BY DEF IInv
  <2> QED
    BY <1>1, <2>1, IngestMaps DEF Roll!Next
<1>2. ASSUME NEW c \in Customer, Lapse(c) \/ Delete(c) \/ Erase(c) PROVE Roll!Next
  BY <1>2, LapseMaps, DeleteMaps, EraseMaps DEF Roll!Next, Roll!Command
<1> QED
  BY <1>1, <1>2, ClaimMaps, CompleteMaps, LockMaps, CommitMaps, FaultMaps, LeaseExpiresMaps,
     ApplyMaps, FinishMaps DEF Step

LEMMA RolloutStutter ==
  ASSUME UNCHANGED vars
  PROVE  UNCHANGED Roll!vars /\ (CourseInv => CourseInv')
<1>1. Due' = Due /\ Grace' = Grace
  BY DEF vars, topologyVars, customerVars, Due, Grace, Unfinished
<1>2. UNCHANGED Roll!infraVars
  BY SameInfra DEF vars
<1>3. CourseInv => CourseInv'
  BY DEF vars, topologyVars, CourseInv, CourseOk, Works, Unfinished
<1> QED
  BY <1>1, <1>2, <1>3 DEF vars, customerVars, Roll!vars, Roll!rolloutVars, Roll!customerVars

\* The manifest service, the job and its workers, and the commands carry out a
\* Rollout, for any customers, manifests, replicas and callers: projected rows are
\* the whole snapshot, pairs are kept for ever, and nobody who differs from the
\* topology ceases to be due, however readings, locks, leases and failures fall.
THEOREM RolledOut ==
  ASSUME ManifestAssumption
  PROVE  Spec => ImplementsRollout
<1>1. IInv /\ CourseInv /\ [Next]_vars => CourseInv'
  BY NextIsStep, StepCourse, RolloutStutter
<1>2. IInv /\ IInv' /\ CourseInv /\ [Next]_vars => [Roll!Next]_(Roll!vars)
  BY NextIsStep, RolloutStep, RolloutStutter
<1>3. Init => Roll!Init /\ CourseInv
  BY RolloutInit
<1> QED
  BY <1>1, <1>2, <1>3, Inductive, PTL DEF Spec, ImplementsRollout, Roll!Spec

=============================================================================
