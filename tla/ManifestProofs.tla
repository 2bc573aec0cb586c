--------------------------- MODULE ManifestProofs ---------------------------
(***************************************************************************)
(* Theorems about Manifest, for every set of customers, fleets, nodes,     *)
(* keys, manifests, replicas and callers.                                  *)
(***************************************************************************)
EXTENDS Manifest, FiniteSetTheorems, WellFoundedInduction, TLAPS

-----------------------------------------------------------------------------
(* Values *)

\* Least elements exist: the sets of smaller elements are finite and ordered by
\* inclusion.
LEMMA MinFacts ==
  ASSUME NEW S, S \subseteq Nat, S # {}
  PROVE  Min(S) \in S /\ \A y \in S : Min(S) <= y
<1> DEFINE Below(x) == {y \in S : y < x}
           T == {Below(x) : x \in S}
           R == StrictSubsetOrdering(S)
<1>1. \A x \in S : Below(x) \in FiniteSubsetsOf(S)
  <2> SUFFICES ASSUME NEW x \in S PROVE IsFiniteSet(Below(x))
    BY DEF FiniteSubsetsOf
  <2> QED
    BY FS_BoundedSetOfNaturals
<1>2. \A x, y \in S : y < x => <<Below(y), Below(x)>> \in R
  <2> SUFFICES ASSUME NEW x \in S, NEW y \in S, y < x
               PROVE  Below(y) \subseteq Below(x) /\ Below(y) # Below(x)
    BY DEF StrictSubsetOrdering
  <2>1. x \in Nat /\ y \in Nat
    OBVIOUS
  <2>2. y \in Below(x) /\ y \notin Below(y)
    BY <2>1
  <2>3. ASSUME NEW z \in Below(y) PROVE z \in Below(x)
    BY <2>1
  <2> QED
    BY <2>2, <2>3
<1>3. T \subseteq FiniteSubsetsOf(S) /\ T # {}
  BY <1>1
<1>4. IsWellFoundedOn(R, FiniteSubsetsOf(S))
  BY FS_StrictSubsetOrderingWellFounded
<1> HIDE DEF Below, R
<1>5. PICK m \in T : \A u \in T : ~ (<<u, m>> \in R)
  <2> HIDE DEF T
  <2> QED
    BY <1>3, <1>4, WFMin
<1>6. PICK x \in S : m = Below(x)
  <2>1. m \in T
    BY <1>5
  <2> QED
    BY ONLY <2>1, Zenon
<1>7. ASSUME NEW y \in S PROVE x <= y
  <2>1. Below(y) \in T
    OBVIOUS
  <2>2. ~ (y < x)
    BY <1>2, <1>5, <1>6, <2>1
  <2>3. x \in Nat /\ y \in Nat
    OBVIOUS
  <2> QED
    BY <2>2, <2>3
<1> QED
  BY <1>7 DEF Min

LEMMA RevisionFacts ==
  ASSUME ManifestAssumption
  PROVE  /\ Revisions \subseteq Nat /\ 0 \notin Revisions
         /\ \A q \in Request : q.revision \in Revisions /\ q.content \in Content
  BY DEF ManifestAssumption, Revisions

LEMMA ContentFields ==
  ASSUME NEW s \in Content
  PROVE  /\ s.nodes \subseteq Node /\ s.fleets \subseteq Fleet
         /\ s.members \subseteq Member /\ s.routes \subseteq Route
  BY DEF Content

\* What a transaction keeps, by its place.
TxType(p) ==
    /\ tx[p] = Idle \/ tx[p].pc \in {"chosen", "locked", "applying"}
    /\ tx[p].pc \in {"chosen", "locked"} =>
          tx[p].job \in Revisions /\ tx[p].customer \in Customer /\ tx[p].paid \in BOOLEAN
    /\ tx[p].pc = "locked" => tx[p].nodes \subseteq Node
    /\ tx[p].pc = "applying" =>
          /\ tx[p].customer \in Customer /\ tx[p].read \in Revisions \cup {0}
          /\ tx[p].nodes \subseteq Node

Txs ==
    {Idle}
      \cup [pc : {"chosen"}, job : Revisions, customer : Customer, paid : BOOLEAN]
      \cup [pc : {"locked"}, job : Revisions, customer : Customer, paid : BOOLEAN,
            nodes : SUBSET Node]
      \cup [pc : {"applying"}, customer : Customer, read : Revisions \cup {0},
            nodes : SUBSET Node]

LEMMA TxFields ==
  ASSUME tx \in [Replica \cup Caller -> Txs], NEW p \in Replica \cup Caller
  PROVE  TxType(p) /\ (tx[p] = Idle <=> tx[p].pc = "idle")
<1>1. tx[p] \in Txs
  OBVIOUS
<1>2. CASE tx[p] = Idle
  BY <1>2 DEF TxType, Idle
<1>3. CASE tx[p] \in [pc : {"chosen"}, job : Revisions, customer : Customer, paid : BOOLEAN]
  BY <1>3 DEF TxType, Idle
<1>4. CASE tx[p] \in [pc : {"locked"}, job : Revisions, customer : Customer, paid : BOOLEAN,
                      nodes : SUBSET Node]
  BY <1>4 DEF TxType, Idle
<1>5. CASE tx[p] \in [pc : {"applying"}, customer : Customer, read : Revisions \cup {0},
                      nodes : SUBSET Node]
  BY <1>5 DEF TxType, Idle
<1> QED
  BY <1>1, <1>2, <1>3, <1>4, <1>5 DEF Txs

-----------------------------------------------------------------------------
(* Type correctness, part by part. *)

TopologyType ==
    /\ revision \in Revisions \cup {0}
    /\ digest \in Content \cup {NoContent}
    /\ node \subseteq Node
    /\ fleets \subseteq Fleet
    /\ member \subseteq Member
    /\ routes \subseteq [route : Route, current : BOOLEAN]

JobType ==
    job \in [Revisions ->
         [status : {"none", "PENDING", "IN_PROGRESS", "DONE"},
          cursor : Customer \cup {0}, owner : Replica \cup {Gone, Nobody}]]

CustomerType ==
    /\ life \in [Customer -> {"none", "ACTIVE", "DELETING"}]
    /\ paid \in [Customer -> BOOLEAN]
    /\ holds \in [Customer -> SUBSET Target]
    /\ late \in [Customer -> Revisions \cup {0}]

LockType == lock \in [Customer -> Replica \cup Caller \cup {Nobody}]
TxsType  == tx \in [Replica \cup Caller -> Txs]

LEMMA TypeParts ==
  TypeOK <=> TopologyType /\ JobType /\ CustomerType /\ LockType /\ TxsType
               /\ failures \in 0 .. MaxFailures
BY DEF TypeOK, TopologyType, JobType, CustomerType, LockType, TxsType, Txs

LEMMA TypePartsNext ==
  ASSUME TopologyType', JobType', CustomerType', LockType', TxsType',
         (failures \in 0 .. MaxFailures)'
  PROVE  TypeOK'
BY DEF TypeOK, TopologyType, JobType, CustomerType, LockType, TxsType, Txs

LEMMA FleetFacts ==
  ASSUME ManifestAssumption, TopologyType, NEW f \in Fleet
  PROVE  FleetNodes(f) \subseteq Node /\ FleetRoutes(f) \subseteq Route
<1>1. FleetNodes(f) \subseteq Node
  BY DEF FleetNodes, TopologyType, Member
<1>2. FleetRoutes(f) \subseteq Route
  BY DEF FleetRoutes, TopologyType
<1> QED
  BY <1>1, <1>2

LEMMA TargetsFacts ==
  ASSUME NEW nodes \in SUBSET Node, NEW bridges \in SUBSET Route
  PROVE  TargetsOf(nodes, bridges) \subseteq Target
  BY DEF TargetsOf, Target, Route

\* A route of the snapshot that a row stands for.
Of(s, r) == CHOOSE b \in s.routes : SameRow(b, r.route)

RowSet == [route : Route, current : BOOLEAN]

LEMMA UpsertedRow ==
  ASSUME NEW r \in RowSet, NEW tag \in Tag
  PROVE  LET row == [r EXCEPT !.current = TRUE, !.route.tag = tag]
         IN  /\ row \in RowSet
             /\ row.route.fleet = r.route.fleet /\ row.route.key = r.route.key
             /\ row.route.entry = r.route.entry /\ row.route.exit = r.route.exit
             /\ row.route.tag = tag
             /\ row.current
  BY DEF RowSet, Route

LEMMA RetiredRow ==
  ASSUME NEW r \in RowSet
  PROVE  LET row == [r EXCEPT !.current = FALSE]
         IN  row \in RowSet /\ row.route = r.route /\ ~row.current
  BY DEF RowSet

RetiredForm(s, r) == IF r \in RemovedRoutes(s) THEN [r EXCEPT !.current = FALSE] ELSE r

LEMMA RetireFacts ==
  ASSUME ManifestAssumption, routes \subseteq RowSet, NEW s \in Content
  PROVE  /\ RetireRoutes(s) \subseteq RowSet
         /\ \A x \in RetireRoutes(s) : \E r \in routes :
               /\ x.route = r.route
               /\ x.current => x = r /\ \E b \in s.routes : SameRow(b, r.route)
         /\ \A r \in routes : \E x \in RetireRoutes(s) : x.route = r.route
         /\ \A x \in RetireRoutes(s) : \E r \in routes :
               x.route = r.route /\ x = RetiredForm(s, r)
<1>1. ASSUME NEW x \in RetireRoutes(s)
      PROVE  /\ x \in RowSet
             /\ \E r \in routes : /\ x.route = r.route
                                  /\ x.current => x = r /\ \E b \in s.routes : SameRow(b, r.route)
  <2>1. CASE x \in routes \ RemovedRoutes(s)
    BY <2>1 DEF RemovedRoutes
  <2>2. CASE x \notin routes \ RemovedRoutes(s)
    <3>1. PICK r \in RemovedRoutes(s) : x = [r EXCEPT !.current = FALSE]
      BY <2>2 DEF RetireRoutes
    <3>2. r \in routes /\ r \in RowSet
      BY DEF RemovedRoutes
    <3>3. x \in RowSet /\ x.route = r.route /\ ~x.current
      BY <3>1, <3>2, RetiredRow
    <3> QED
      BY <3>2, <3>3
  <2> QED
    BY <2>1, <2>2
<1>2. ASSUME NEW r \in routes
      PROVE  \E x \in RetireRoutes(s) : x.route = r.route
  <2>1. CASE r \in RemovedRoutes(s)
    <3>1. [r EXCEPT !.current = FALSE] \in RetireRoutes(s)
      BY <2>1 DEF RetireRoutes
    <3>2. [r EXCEPT !.current = FALSE].route = r.route
      BY RetiredRow
    <3> QED
      BY <3>1, <3>2
  <2>2. CASE r \notin RemovedRoutes(s)
    BY <2>2 DEF RetireRoutes
  <2> QED
    BY <2>1, <2>2
<1>3. ASSUME NEW x \in RetireRoutes(s)
      PROVE  \E r \in routes : x.route = r.route /\ x = RetiredForm(s, r)
  <2>1. CASE x \in routes \ RemovedRoutes(s)
    BY <2>1 DEF RetiredForm
  <2>2. CASE x \notin routes \ RemovedRoutes(s)
    <3>1. PICK r \in RemovedRoutes(s) : x = [r EXCEPT !.current = FALSE]
      BY <2>2 DEF RetireRoutes
    <3>2. r \in routes /\ r \in RowSet
      BY DEF RemovedRoutes
    <3>3. x.route = r.route
      BY <3>1, <3>2, RetiredRow
    <3> QED
      BY <3>1, <3>2, <3>3 DEF RetiredForm
  <2> QED
    BY <2>1, <2>2
<1> QED
  BY <1>1, <1>2, <1>3

UpsertedForm(s, r) == [r EXCEPT !.current = TRUE, !.route.tag = Of(s, r).tag]

\* The three kinds of rows that an upsert leaves.
LEMMA UpsertFacts ==
  ASSUME ManifestAssumption, NEW rows \in SUBSET RowSet, NEW s \in Content
  PROVE  /\ UpsertRoutes(rows, s) \subseteq RowSet
         /\ \A x \in UpsertRoutes(rows, s) :
              \/ x \in rows /\ ~ \E b \in s.routes : SameRow(b, x.route)
              \/ \E r \in rows, b \in s.routes :
                    /\ SameRow(b, r.route) /\ x.current
                    /\ x.route.fleet = r.route.fleet /\ x.route.key = r.route.key
                    /\ x.route.entry = r.route.entry /\ x.route.exit = r.route.exit
                    /\ x.route.tag = b.tag
                    /\ x = UpsertedForm(s, r)
              \/ x.current /\ x.route \in s.routes /\ x = [route |-> x.route, current |-> TRUE]
                   /\ ~ \E r \in rows : SameRow(x.route, r.route)
<1> DEFINE A == {r \in rows : ~ \E b \in s.routes : SameRow(b, r.route)}
           B == {[r EXCEPT !.current = TRUE, !.route.tag = Of(s, r).tag] :
                   r \in {x \in rows : \E b \in s.routes : SameRow(b, x.route)}}
           C == {[route |-> b, current |-> TRUE] :
                   b \in {x \in s.routes : ~ \E r \in rows : SameRow(x, r.route)}}
<1>1. UpsertRoutes(rows, s) = A \cup B \cup C
  BY DEF UpsertRoutes, Of
<1>2. s.routes \subseteq Route
  BY ContentFields
<1>3. ASSUME NEW x \in B
      PROVE  /\ x \in RowSet
             /\ \E r \in rows, b \in s.routes :
                    /\ SameRow(b, r.route) /\ x.current
                    /\ x.route.fleet = r.route.fleet /\ x.route.key = r.route.key
                    /\ x.route.entry = r.route.entry /\ x.route.exit = r.route.exit
                    /\ x.route.tag = b.tag
                    /\ x = UpsertedForm(s, r)
  <2>1. PICK r \in rows : /\ \E b \in s.routes : SameRow(b, r.route)
                          /\ x = [r EXCEPT !.current = TRUE, !.route.tag = Of(s, r).tag]
    OBVIOUS
  <2>2. Of(s, r) \in s.routes /\ SameRow(Of(s, r), r.route) /\ Of(s, r).tag \in Tag
    <3>1. Of(s, r) \in s.routes /\ SameRow(Of(s, r), r.route)
      BY <2>1 DEF Of
    <3> QED
      BY <1>2, <3>1 DEF Route
  <2> DEFINE b == Of(s, r)
  <2>3. b \in s.routes /\ SameRow(b, r.route) /\ b.tag \in Tag /\ b = Of(s, r)
    BY <2>2
  <2>4. x = [r EXCEPT !.current = TRUE, !.route.tag = b.tag]
    BY <2>1
  <2> HIDE DEF b
  <2>5. /\ x \in RowSet /\ x.current
        /\ x.route.fleet = r.route.fleet /\ x.route.key = r.route.key
        /\ x.route.entry = r.route.entry /\ x.route.exit = r.route.exit
        /\ x.route.tag = b.tag
    <3>1. r \in RowSet /\ r.route \in Route
      BY DEF RowSet
    <3> QED
      BY <2>3, <2>4, <3>1 DEF RowSet, Route
  <2>6. x = UpsertedForm(s, r)
    BY <2>1 DEF UpsertedForm
  <2> HIDE DEF B
  <2> QED
    BY <2>3, <2>5, <2>6
<1>4. ASSUME NEW x \in C
      PROVE  /\ x \in RowSet /\ x.current /\ x.route \in s.routes
             /\ x = [route |-> x.route, current |-> TRUE]
             /\ ~ \E r \in rows : SameRow(x.route, r.route)
  <2>1. PICK b \in s.routes : /\ ~ \E r \in rows : SameRow(b, r.route)
                              /\ x = [route |-> b, current |-> TRUE]
    OBVIOUS
  <2>2. x.route = b /\ x.current
    BY <2>1
  <2> QED
    BY <1>2, <2>1, <2>2 DEF RowSet
<1>5. \A x \in A : x \in RowSet /\ x \in rows /\ ~ \E b \in s.routes : SameRow(b, x.route)
  OBVIOUS
<1> HIDE DEF A, B, C
<1> QED
  BY <1>1, <1>3, <1>4, <1>5

-----------------------------------------------------------------------------
(* The projection *)

\* The primary key of vpn_bridge_routes.
Keyed(rows) == \A x, y \in rows : SameRow(x.route, y.route) => x = y

LEMMA RetireKeyed ==
  ASSUME ManifestAssumption, routes \subseteq RowSet, Keyed(routes), NEW s \in Content
  PROVE  Keyed(RetireRoutes(s))
<1> SUFFICES ASSUME NEW x \in RetireRoutes(s), NEW y \in RetireRoutes(s),
                    SameRow(x.route, y.route)
             PROVE  x = y
  BY DEF Keyed
<1>1. PICK r \in routes : x.route = r.route /\ x = RetiredForm(s, r)
  BY RetireFacts
<1>2. PICK u \in routes : y.route = u.route /\ y = RetiredForm(s, u)
  BY RetireFacts
<1>3. SameRow(r.route, u.route)
  BY <1>1, <1>2
<1>4. r = u
  BY <1>3 DEF Keyed
<1> QED
  BY <1>1, <1>2, <1>4

LEMMA UpsertKeyed ==
  ASSUME ManifestAssumption, NEW rows \in SUBSET RowSet, Keyed(rows),
         NEW s \in Content, SoundBridges(s)
  PROVE  Keyed(UpsertRoutes(rows, s))
<1> DEFINE InA(x) == x \in rows /\ ~ \E b \in s.routes : SameRow(b, x.route)
           InB(x) == \E r \in rows :
                        /\ \E b \in s.routes : SameRow(b, r.route)
                        /\ SameRow(x.route, r.route)
                        /\ x = UpsertedForm(s, r)
           InC(x) == /\ x.route \in s.routes /\ x = [route |-> x.route, current |-> TRUE]
                     /\ ~ \E r \in rows : SameRow(x.route, r.route)
<1>1. ASSUME NEW x \in UpsertRoutes(rows, s)
      PROVE  InA(x) \/ InB(x) \/ InC(x)
  <2> DEFINE Old == {r \in rows : \E b \in s.routes : SameRow(b, r.route)}
             New == {b \in s.routes : ~ \E r \in rows : SameRow(b, r.route)}
  <2>1. UpsertRoutes(rows, s) =
          {r \in rows : ~ \E b \in s.routes : SameRow(b, r.route)}
            \cup {UpsertedForm(s, r) : r \in Old}
            \cup {[route |-> b, current |-> TRUE] : b \in New}
    BY DEF UpsertRoutes, UpsertedForm, Of
  <2>2. CASE x \in {UpsertedForm(s, r) : r \in Old}
    <3>1. PICK r \in Old : x = UpsertedForm(s, r)
      BY <2>2
    <3>2. r \in RowSet /\ \E b \in s.routes : SameRow(b, r.route)
      OBVIOUS
    <3>3. x.route.fleet = r.route.fleet /\ x.route.key = r.route.key
      BY <3>1, <3>2 DEF UpsertedForm, RowSet, Route
    <3> QED
      BY <3>1, <3>2, <3>3 DEF SameRow
  <2>3. CASE x \in {[route |-> b, current |-> TRUE] : b \in New}
    <3>1. PICK b \in New : x = [route |-> b, current |-> TRUE]
      BY <2>3
    <3>2. x.route = b
      BY <3>1
    <3> QED
      BY <3>1, <3>2
  <2>4. CASE x \in {r \in rows : ~ \E b \in s.routes : SameRow(b, r.route)}
    BY <2>4
  <2> QED
    BY <2>1, <2>2, <2>3, <2>4
<1> SUFFICES ASSUME NEW x \in UpsertRoutes(rows, s), NEW y \in UpsertRoutes(rows, s),
                    SameRow(x.route, y.route)
             PROVE  x = y
  BY DEF Keyed
<1>2. \A u, v \in {x, y} : SameRow(u.route, v.route)
  BY DEF SameRow
<1>3. \A u, v \in {x, y} : ~(InA(u) /\ (InB(v) \/ InC(v)))
  BY <1>2 DEF SameRow
<1>4. \A u, v \in {x, y} : ~(InB(u) /\ InC(v))
  BY <1>2 DEF SameRow
<1>5. InA(x) /\ InA(y) => x = y
  BY DEF Keyed
<1>6. ASSUME InB(x), InB(y) PROVE x = y
  <2>1. PICK r \in rows : /\ SameRow(x.route, r.route)
                          /\ x = UpsertedForm(s, r)
    BY <1>6
  <2>2. PICK u \in rows : /\ SameRow(y.route, u.route)
                          /\ y = UpsertedForm(s, u)
    BY <1>6
  <2>3. r = u
    BY <2>1, <2>2 DEF Keyed, SameRow
  <2> QED
    BY <2>1, <2>2, <2>3
<1>7. InC(x) /\ InC(y) => x = y
  BY DEF SoundBridges, SameRow, SameFleet
<1> HIDE DEF InA, InB, InC
<1> QED
  BY <1>1, <1>3, <1>4, <1>5, <1>6, <1>7

\* After the upsert the current rows are the routes of the snapshot.
LEMMA UpsertLands ==
  ASSUME ManifestAssumption, routes \subseteq RowSet, NEW s \in Content,
         SoundBridges(s), PairsKept(s)
  PROVE  \A b : b \in s.routes <=>
            \E x \in UpsertRoutes(RetireRoutes(s), s) : x.current /\ x.route = b
<1> DEFINE rows == RetireRoutes(s)
<1>1. rows \subseteq RowSet
  BY RetireFacts
<1>2. s.routes \subseteq Route
  BY ContentFields
<1>3. \A r \in rows : r.route \in Route
  BY <1>1 DEF RowSet
<1>4. \A b \in s.routes, r \in rows : SameRow(b, r.route) => SamePair(b, r.route)
  <2> SUFFICES ASSUME NEW b \in s.routes, NEW r \in rows, SameRow(b, r.route)
               PROVE  SamePair(b, r.route)
    OBVIOUS
  <2>1. PICK u \in routes : r.route = u.route
    BY RetireFacts
  <2> QED
    BY <2>1 DEF PairsKept
<1>5. \A x \in rows : x.current => \E b \in s.routes : SameRow(b, x.route)
  <2> SUFFICES ASSUME NEW x \in rows, x.current
               PROVE  \E b \in s.routes : SameRow(b, x.route)
    OBVIOUS
  <2>1. PICK r \in routes : /\ x.route = r.route
                            /\ x.current => x = r /\ \E b \in s.routes : SameRow(b, r.route)
    BY RetireFacts
  <2> QED
    BY <2>1
<1>6. \A b, d \in s.routes : SameRow(b, d) => b = d
  BY DEF SoundBridges, SameRow, SameFleet
<1> HIDE DEF rows
<1>7. ASSUME NEW x \in UpsertRoutes(rows, s), x.current
      PROVE  x.route \in s.routes
  <2>1. CASE \E r \in rows, b \in s.routes :
               /\ SameRow(b, r.route)
               /\ x.route.fleet = r.route.fleet /\ x.route.key = r.route.key
               /\ x.route.entry = r.route.entry /\ x.route.exit = r.route.exit
               /\ x.route.tag = b.tag
    <3>1. PICK r \in rows, b \in s.routes :
               /\ SameRow(b, r.route)
               /\ x.route.fleet = r.route.fleet /\ x.route.key = r.route.key
               /\ x.route.entry = r.route.entry /\ x.route.exit = r.route.exit
               /\ x.route.tag = b.tag
      BY <2>1
    <3>2. SamePair(b, r.route)
      BY <1>4, <3>1
    <3>3. x.route \in Route
      <4>1. UpsertRoutes(rows, s) \subseteq RowSet
        BY <1>1, UpsertFacts
      <4> QED
        BY <4>1 DEF RowSet
    <3>4. x.route = b
      BY <1>2, <3>1, <3>2, <3>3 DEF Route, SameRow, SamePair
    <3> QED
      BY <3>4
  <2> QED
    BY <1>1, <1>5, <1>7, <2>1, UpsertFacts
<1>8. ASSUME NEW b \in s.routes
      PROVE  \E x \in UpsertRoutes(rows, s) : x.current /\ x.route = b
  <2>1. CASE \E r \in rows : SameRow(b, r.route)
    <3>1. PICK r \in rows : SameRow(b, r.route)
      BY <2>1
    <3> DEFINE x == [r EXCEPT !.current = TRUE, !.route.tag = Of(s, r).tag]
    <3>2. x \in UpsertRoutes(rows, s)
      BY <3>1 DEF UpsertRoutes, Of
    <3>3. Of(s, r) \in s.routes /\ SameRow(Of(s, r), r.route)
      BY <3>1 DEF Of
    <3>4. Of(s, r) = b
      BY <1>6, <3>1, <3>3 DEF SameRow
    <3>5. b \in Route /\ r \in RowSet /\ r.route \in Route /\ SamePair(b, r.route)
      BY <1>1, <1>2, <1>3, <1>4, <3>1
    <3>6. x.current /\ x.route.fleet = r.route.fleet /\ x.route.key = r.route.key
          /\ x.route.entry = r.route.entry /\ x.route.exit = r.route.exit
          /\ x.route.tag = b.tag /\ x.route \in Route
      BY <3>4, <3>5 DEF RowSet, Route
    <3> HIDE DEF x
    <3>7. x.route = b
      BY <3>1, <3>5, <3>6 DEF Route, SameRow, SamePair
    <3> QED
      BY <3>2, <3>6, <3>7
  <2>2. CASE ~ \E r \in rows : SameRow(b, r.route)
    <3> DEFINE x == [route |-> b, current |-> TRUE]
    <3>1. x \in UpsertRoutes(rows, s)
      BY <2>2 DEF UpsertRoutes
    <3>2. x.current /\ x.route = b
      OBVIOUS
    <3> QED
      BY <3>1, <3>2
  <2> QED
    BY <2>1, <2>2
<1> QED
  BY <1>7, <1>8 DEF rows

LEMMA IndexLemma ==
  ASSUME ManifestAssumption, routes \subseteq RowSet, NEW s \in Content,
         SoundBridges(s), PairsKept(s)
  PROVE  IndexHolds(RetireRoutes(s), s)
<1> SUFFICES ASSUME NEW b \in s.routes,
                    NEW r \in RetireRoutes(s) \cup UpsertRoutes(RetireRoutes(s), s),
                    r.current, SameFleet(b, r.route), SamePair(b, r.route)
             PROVE  SameRow(b, r.route)
  BY DEF IndexHolds
<1>1. \A d \in s.routes : SameFleet(b, d) /\ SamePair(b, d) => b = d
  BY DEF SoundBridges, SamePair
<1>2. CASE r \in RetireRoutes(s)
  <2>1. PICK u \in routes : r.route = u.route /\ \E d \in s.routes : SameRow(d, u.route)
    BY <1>2, RetireFacts
  <2>2. PICK d \in s.routes : SameRow(d, r.route)
    BY <2>1
  <2>3. SamePair(d, r.route)
    BY <2>1, <2>2 DEF PairsKept
  <2>4. b = d
    BY <1>1, <2>2, <2>3 DEF SamePair, SameFleet, SameRow
  <2> QED
    BY <2>2, <2>4
<1>3. CASE r \in UpsertRoutes(RetireRoutes(s), s)
  <2>1. r.route \in s.routes
    BY <1>3, UpsertLands
  <2>2. b = r.route
    BY <1>1, <2>1
  <2> QED
    BY <2>2 DEF SameRow
<1> QED
  BY <1>2, <1>3

-----------------------------------------------------------------------------
(* Type correctness of the steps *)

Process == Replica \cup Caller

LEMMA ClaimableFacts ==
  ASSUME ManifestAssumption, JobType, NEW w \in Replica, Claimable(w) # {}
  PROVE  /\ Min(Claimable(w)) \in Claimable(w)
         /\ Min(Claimable(w)) \in Revisions
         /\ \A r \in Claimable(w) : Min(Claimable(w)) <= r
<1>1. Claimable(w) \subseteq Revisions /\ Revisions \subseteq Nat
  BY RevisionFacts DEF Claimable
<1> QED
  BY <1>1, MinFacts

LEMMA FollowingFacts ==
  ASSUME ManifestAssumption, NEW cursor, Following(cursor) # {}
  PROVE  /\ Min(Following(cursor)) \in Customer
         /\ Min(Following(cursor)) > cursor
         /\ life[Min(Following(cursor))] = "ACTIVE"
         /\ \A c \in Following(cursor) : Min(Following(cursor)) <= c
<1>1. Following(cursor) \subseteq Nat
  BY DEF Following, ManifestAssumption
<1>2. /\ Min(Following(cursor)) \in Following(cursor)
      /\ \A c \in Following(cursor) : Min(Following(cursor)) <= c
  BY <1>1, MinFacts
<1> QED
  BY <1>2 DEF Following

LEMMA ReleasedType ==
  ASSUME LockType, NEW p
  PROVE  Released(p) \in [Customer -> Replica \cup Caller \cup {Nobody}]
  BY DEF LockType, Released

LEMMA IngestType ==
  ASSUME ManifestAssumption, TypeOK, NEW q \in Request, Ingest(q)
  PROVE  TypeOK'
<1>1. q.revision \in Revisions /\ q.content \in Content
  BY RevisionFacts
<1>2. /\ q.content.nodes \subseteq Node /\ q.content.fleets \subseteq Fleet
      /\ q.content.members \subseteq Member /\ q.content.routes \subseteq Route
  BY <1>1, ContentFields
<1>3. TopologyType /\ JobType /\ CustomerType /\ LockType /\ TxsType
        /\ failures \in 0 .. MaxFailures
  BY TypeParts
<1>4. routes' \subseteq RowSet
  <2>1. routes \subseteq RowSet
    BY <1>3 DEF TopologyType, RowSet
  <2>2. RetireRoutes(q.content) \subseteq RowSet
    BY <1>1, <2>1, RetireFacts
  <2> QED
    BY <1>1, <2>2, UpsertFacts DEF Ingest
<1>5. TopologyType'
  BY <1>1, <1>2, <1>3, <1>4 DEF TopologyType, Ingest, RowSet
<1>6. JobType'
  BY <1>1, <1>3 DEF JobType, Ingest
<1>7. CustomerType' /\ LockType' /\ TxsType' /\ (failures \in 0 .. MaxFailures)'
  BY <1>3 DEF CustomerType, LockType, TxsType, Ingest, customerVars
<1> QED
  BY <1>5, <1>6, <1>7, TypePartsNext

LEMMA ClaimType ==
  ASSUME ManifestAssumption, TypeOK, NEW w \in Replica, Claim(w)
  PROVE  TypeOK'
<1>1. TopologyType /\ JobType /\ CustomerType /\ LockType /\ TxsType
        /\ failures \in 0 .. MaxFailures
  BY TypeParts
<1> DEFINE r == Min(Claimable(w))
           c == Min(Following(job[r].cursor))
<1>2. r \in Revisions
  BY <1>1, ClaimableFacts DEF Claim
<1>3. c \in Customer
  BY FollowingFacts DEF Claim
<1>4. tx' = [tx EXCEPT ![w] = [pc |-> "chosen", job |-> r, customer |-> c,
                               paid |-> paid[c]]]
  BY DEF Claim
<1>5. paid[c] \in BOOLEAN
  BY <1>1, <1>3 DEF CustomerType
<1> HIDE DEF r, c
<1>6. TxsType'
  BY <1>1, <1>2, <1>3, <1>4, <1>5 DEF TxsType, Txs
<1>7. TopologyType' /\ JobType' /\ CustomerType' /\ LockType' /\ (failures \in 0 .. MaxFailures)'
  BY <1>1 DEF TopologyType, JobType, CustomerType, LockType, Claim, customerVars, topologyVars
<1> QED
  BY <1>6, <1>7, TypePartsNext

LEMMA CompleteType ==
  ASSUME ManifestAssumption, TypeOK, NEW w \in Replica, Complete(w)
  PROVE  TypeOK'
<1>1. TopologyType /\ JobType /\ CustomerType /\ LockType /\ TxsType
        /\ failures \in 0 .. MaxFailures
  BY TypeParts
<1> DEFINE r == Min(Claimable(w))
<1>2. r \in Revisions
  BY <1>1, ClaimableFacts DEF Complete
<1>3. job' = [job EXCEPT ![r].status = "DONE", ![r].owner = Nobody]
  BY DEF Complete
<1> HIDE DEF r
<1>4. JobType'
  BY <1>1, <1>2, <1>3 DEF JobType
<1>5. TopologyType' /\ CustomerType' /\ LockType' /\ TxsType' /\ (failures \in 0 .. MaxFailures)'
  BY <1>1 DEF TopologyType, TxsType, CustomerType, LockType, Complete, customerVars, topologyVars
<1> QED
  BY <1>4, <1>5, TypePartsNext

LEMMA LockStepType ==
  ASSUME ManifestAssumption, TypeOK, NEW w \in Replica, Lock(w)
  PROVE  TypeOK'
<1>1. TopologyType /\ JobType /\ CustomerType /\ LockType /\ TxsType
        /\ failures \in 0 .. MaxFailures
  BY TypeParts
<1>2. TxType(w) /\ tx[w].pc = "chosen"
  BY <1>1, TxFields DEF TxsType, Lock
<1>3. tx[w].job \in Revisions /\ tx[w].customer \in Customer /\ tx[w].paid \in BOOLEAN
  BY <1>2 DEF TxType
<1> DEFINE ns == FleetNodes(FleetOf[tx[w].customer])
<1>4. ns \subseteq Node
  BY <1>1, <1>3, FleetFacts DEF ManifestAssumption
<1>5. tx' = [tx EXCEPT ![w] = [pc |-> "locked", job |-> tx[w].job, customer |-> tx[w].customer,
                               paid |-> tx[w].paid, nodes |-> ns]]
  BY DEF Lock
<1> HIDE DEF ns
<1>6. TxsType'
  BY <1>1, <1>3, <1>4, <1>5 DEF TxsType, Txs
<1>7. LockType'
  BY <1>1, <1>3 DEF LockType, Lock
<1>8. TopologyType' /\ JobType' /\ CustomerType' /\ (failures \in 0 .. MaxFailures)'
  BY <1>1 DEF TopologyType, JobType, CustomerType, Lock, customerVars, topologyVars
<1> QED
  BY <1>6, <1>7, <1>8, TypePartsNext

LEMMA CommitType ==
  ASSUME ManifestAssumption, TypeOK, NEW w \in Replica, Commit(w)
  PROVE  TypeOK'
<1>1. TopologyType /\ JobType /\ CustomerType /\ LockType /\ TxsType
        /\ failures \in 0 .. MaxFailures
  BY TypeParts
<1>2. TxType(w) /\ tx[w].pc = "locked"
  BY <1>1, TxFields DEF TxsType, Commit
<1> DEFINE c == tx[w].customer
           targets == TargetsOf(tx[w].nodes, FleetRoutes(FleetOf[c]))
<1>3. tx[w].job \in Revisions /\ c \in Customer /\ tx[w].nodes \subseteq Node
  BY <1>2 DEF TxType
<1>4. targets \subseteq Target
  <2>1. FleetRoutes(FleetOf[c]) \subseteq Route
    BY <1>1, <1>3, FleetFacts DEF ManifestAssumption
  <2> QED
    BY <1>3, <2>1, TargetsFacts
<1>5. holds' = IF life[c] # "ACTIVE" THEN holds
               ELSE [holds EXCEPT ![c] = Materialized(targets, holds[c], tx[w].paid \/ paid[c])]
  BY <1>1, <1>3 DEF Commit, CustomerType
<1>6. job' = [job EXCEPT ![tx[w].job] = [status |-> "IN_PROGRESS", cursor |-> c, owner |-> w]]
  BY DEF Commit
<1>7. late' = [late EXCEPT ![c] = 0] /\ lock' = [lock EXCEPT ![c] = Nobody]
  BY DEF Commit
<1> HIDE DEF c, targets
<1>8. Materialized(targets, holds[c], tx[w].paid \/ paid[c]) \subseteq Target
  BY <1>4 DEF Materialized, Known, Missing
<1>9. CustomerType'
  <2>1. holds' \in [Customer -> SUBSET Target]
    BY <1>1, <1>3, <1>5, <1>8 DEF CustomerType
  <2>2. late' \in [Customer -> Revisions \cup {0}]
    BY <1>1, <1>7 DEF CustomerType
  <2> QED
    BY <1>1, <2>1, <2>2 DEF CustomerType, Commit
<1>10. JobType'
  BY <1>1, <1>3, <1>6 DEF JobType
<1>11. LockType'
  BY <1>1, <1>3, <1>7 DEF LockType
<1>12. TxsType'
  BY <1>1 DEF TxsType, Txs, Commit
<1>13. TopologyType' /\ (failures \in 0 .. MaxFailures)'
  BY <1>1 DEF TopologyType, Commit, topologyVars
<1> QED
  BY <1>9, <1>10, <1>11, <1>12, <1>13, TypePartsNext

LEMMA FaultType ==
  ASSUME ManifestAssumption, TypeOK, NEW w \in Replica, Fail(w) \/ Restart(w)
  PROVE  TypeOK'
<1>1. TopologyType /\ JobType /\ CustomerType /\ LockType /\ TxsType
        /\ failures \in 0 .. MaxFailures
  BY TypeParts
<1>2. LockType'
  BY <1>1, ReleasedType DEF LockType, Fail, Restart
<1>3. TxsType'
  BY <1>1 DEF TxsType, Txs, Fail, Restart
<1>4. JobType'
  BY <1>1 DEF JobType, Fail, Restart
<1>5. (failures \in 0 .. MaxFailures)'
  BY <1>1 DEF Fail, Restart, ManifestAssumption
<1>6. TopologyType' /\ CustomerType'
  BY <1>1 DEF TopologyType, CustomerType, Fail, Restart, customerVars, topologyVars
<1> QED
  BY <1>2, <1>3, <1>4, <1>5, <1>6, TypePartsNext

LEMMA LeaseExpiresType ==
  ASSUME ManifestAssumption, TypeOK, NEW r \in Revisions, LeaseExpires(r)
  PROVE  TypeOK'
<1>1. TopologyType /\ JobType /\ CustomerType /\ LockType /\ TxsType
        /\ failures \in 0 .. MaxFailures
  BY TypeParts
<1>2. JobType'
  BY <1>1 DEF JobType, LeaseExpires
<1>3. TopologyType' /\ CustomerType' /\ LockType' /\ TxsType' /\ (failures \in 0 .. MaxFailures)'
  BY <1>1 DEF TopologyType, CustomerType, LockType, TxsType, LeaseExpires, customerVars,
              topologyVars
<1> QED
  BY <1>2, <1>3, TypePartsNext

LEMMA ApplyType ==
  ASSUME ManifestAssumption, TypeOK, NEW p \in Caller, NEW c \in Customer, Apply(p, c)
  PROVE  TypeOK'
<1>1. TopologyType /\ JobType /\ CustomerType /\ LockType /\ TxsType
        /\ failures \in 0 .. MaxFailures
  BY TypeParts
<1> DEFINE ns == FleetNodes(FleetOf[c])
<1>2. ns \subseteq Node
  BY <1>1, FleetFacts DEF ManifestAssumption
<1>3. tx' = [tx EXCEPT ![p] = [pc |-> "applying", customer |-> c, read |-> revision,
                               nodes |-> ns]]
  BY DEF Apply
<1>4. revision \in Revisions \cup {0}
  BY <1>1 DEF TopologyType
<1> HIDE DEF ns
<1>5. TxsType'
  BY <1>1, <1>2, <1>3, <1>4 DEF TxsType, Txs
<1>6. LockType'
  BY <1>1 DEF LockType, Apply
<1>7. TopologyType' /\ JobType' /\ CustomerType' /\ (failures \in 0 .. MaxFailures)'
  BY <1>1 DEF TopologyType, JobType, CustomerType, Apply, customerVars, topologyVars
<1> QED
  BY <1>5, <1>6, <1>7, TypePartsNext

LEMMA FinishType ==
  ASSUME ManifestAssumption, TypeOK, NEW p \in Caller, NEW renewed \in BOOLEAN, Finish(p, renewed)
  PROVE  TypeOK'
<1>1. TopologyType /\ JobType /\ CustomerType /\ LockType /\ TxsType
        /\ failures \in 0 .. MaxFailures
  BY TypeParts
<1>2. TxType(p) /\ tx[p].pc = "applying"
  BY <1>1, TxFields DEF TxsType, Finish
<1> DEFINE c == tx[p].customer
           targets == TargetsOf(tx[p].nodes, FleetRoutes(FleetOf[c]))
<1>3. c \in Customer /\ tx[p].nodes \subseteq Node
  BY <1>2 DEF TxType
<1>4. targets \subseteq Target
  <2>1. FleetRoutes(FleetOf[c]) \subseteq Route
    BY <1>1, <1>3, FleetFacts DEF ManifestAssumption
  <2> QED
    BY <1>3, <2>1, TargetsFacts
<1>5. /\ life' = [life EXCEPT ![c] = "ACTIVE"]
      /\ paid' = [paid EXCEPT ![c] = paid[c] \/ renewed]
      /\ holds' = [holds EXCEPT ![c] = Applied(targets, holds[c])]
      /\ late' = [late EXCEPT ![c] = revision] \/ late' = late
      /\ lock' = [lock EXCEPT ![c] = Nobody]
  BY <1>1, <1>3 DEF Finish, CustomerType
<1> HIDE DEF c, targets
<1>6. Applied(targets, holds[c]) \subseteq Target
  BY <1>1, <1>3, <1>4 DEF Applied, Missing, CustomerType
<1>7. revision \in Revisions \cup {0}
  BY <1>1 DEF TopologyType
<1>8. CustomerType'
  <2>1. paid' \in [Customer -> BOOLEAN]
    BY <1>1, <1>3, <1>5 DEF CustomerType
  <2>2. late' \in [Customer -> Revisions \cup {0}]
    BY <1>1, <1>3, <1>5, <1>7 DEF CustomerType
  <2>3. life' \in [Customer -> {"none", "ACTIVE", "DELETING"}]
        /\ holds' \in [Customer -> SUBSET Target]
    BY <1>1, <1>3, <1>5, <1>6 DEF CustomerType
  <2> QED
    BY <2>1, <2>2, <2>3 DEF CustomerType
<1>9. LockType'
  BY <1>1, <1>3, <1>5 DEF LockType
<1>10. TxsType'
  BY <1>1 DEF TxsType, Txs, Finish
<1>11. TopologyType' /\ JobType' /\ (failures \in 0 .. MaxFailures)'
  BY <1>1 DEF TopologyType, JobType, Finish, topologyVars
<1> QED
  BY <1>8, <1>9, <1>10, <1>11, TypePartsNext

LEMMA LifeStepType ==
  ASSUME ManifestAssumption, TypeOK, NEW c \in Customer, Lapse(c) \/ Delete(c) \/ Erase(c)
  PROVE  TypeOK'
<1>1. TopologyType /\ JobType /\ CustomerType /\ LockType /\ TxsType
        /\ failures \in 0 .. MaxFailures
  BY TypeParts
<1>2. CustomerType'
  <2>1. CASE Lapse(c)
    BY <1>1, <2>1 DEF CustomerType, Lapse
  <2>2. CASE Delete(c)
    BY <1>1, <2>2 DEF CustomerType, Delete
  <2>3. CASE Erase(c)
    BY <1>1, <2>3 DEF CustomerType, Erase
  <2> QED
    BY <2>1, <2>2, <2>3
<1>3. TopologyType' /\ JobType' /\ LockType' /\ TxsType' /\ (failures \in 0 .. MaxFailures)'
  BY <1>1 DEF TopologyType, JobType, LockType, TxsType, Lapse, Delete, Erase, topologyVars
<1> QED
  BY <1>2, <1>3, TypePartsNext

\* The ways a step happens.
Step ==
    \/ \E q \in Request : Ingest(q)
    \/ \E w \in Replica : Claim(w)
    \/ \E w \in Replica : Complete(w)
    \/ \E w \in Replica : Lock(w)
    \/ \E w \in Replica : Commit(w)
    \/ \E w \in Replica : Fail(w) \/ Restart(w)
    \/ \E r \in Revisions : LeaseExpires(r)
    \/ \E p \in Caller, c \in Customer : Apply(p, c)
    \/ \E p \in Caller, renewed \in BOOLEAN : Finish(p, renewed)
    \/ \E c \in Customer : Lapse(c) \/ Delete(c) \/ Erase(c)

LEMMA NextIsStep ==
  ASSUME ManifestAssumption, Next
  PROVE  Step
  BY DEF Next, Work, Step, ManifestAssumption

LEMMA InitType ==
  ASSUME ManifestAssumption, Init
  PROVE  TypeOK
<1>1. TopologyType /\ JobType /\ CustomerType /\ LockType /\ TxsType
        /\ failures \in 0 .. MaxFailures
  BY DEF Init, TopologyType, JobType, CustomerType, LockType, TxsType, Txs, NoJob,
         ManifestAssumption
<1> QED
  BY <1>1, TypeParts

LEMMA StepType ==
  ASSUME ManifestAssumption, TypeOK, Step
  PROVE  TypeOK'
  BY IngestType, ClaimType, CompleteType, LockStepType, CommitType, FaultType,
     LeaseExpiresType, ApplyType, FinishType, LifeStepType DEF Step

LEMMA StutterType ==
  ASSUME TypeOK, UNCHANGED vars
  PROVE  TypeOK'
<1>1. TopologyType /\ JobType /\ CustomerType /\ LockType /\ TxsType
        /\ failures \in 0 .. MaxFailures
  BY TypeParts
<1>2. TopologyType' /\ JobType' /\ CustomerType' /\ LockType' /\ TxsType'
        /\ (failures \in 0 .. MaxFailures)'
  BY <1>1 DEF TopologyType, JobType, CustomerType, LockType, TxsType, vars, topologyVars,
              customerVars
<1> QED
  BY <1>2, TypePartsNext

\* Every state of the model is well typed, for every set of manifests, customers
\* and processes.
THEOREM TypeCorrect ==
  ASSUME ManifestAssumption
  PROVE  Spec => []TypeOK
<1>1. Init => TypeOK
  BY InitType
<1>2. TypeOK /\ [Next]_vars => TypeOK'
  BY NextIsStep, StepType, StutterType
<1> QED
  BY <1>1, <1>2, PTL DEF Spec

-----------------------------------------------------------------------------
(* Manifests *)

RowsInv == Keyed(routes) /\ ProjectionIsSnapshot

LEMMA IngestRows ==
  ASSUME ManifestAssumption, TypeOK, RowsInv, NEW q \in Request, Ingest(q)
  PROVE  RowsInv'
<1> DEFINE s == q.content
<1>1. s \in Content
  BY RevisionFacts
<1>2. SoundBridges(s) /\ PairsKept(s) /\ FleetsKept(s)
  BY DEF Ingest, Acceptable, Valid
<1>3. routes \subseteq RowSet
  BY DEF TypeOK, RowSet
<1>4. routes' = UpsertRoutes(RetireRoutes(s), s) /\ digest' = s
  BY DEF Ingest
<1>5. /\ node' = (node \ RemovedNodes(s)) \cup s.nodes
      /\ fleets' = fleets \cup s.fleets
      /\ member' = (member \ RemovedMembers(s)) \cup s.members
  BY DEF Ingest
<1> HIDE DEF s
<1>6. Keyed(routes')
  <2>1. Keyed(RetireRoutes(s)) /\ RetireRoutes(s) \subseteq RowSet
    BY <1>1, <1>3, RetireKeyed, RetireFacts DEF RowsInv
  <2> QED
    BY <1>1, <1>2, <1>4, <2>1, UpsertKeyed
<1>7. CurrentRoutes' = s.routes
  <2>1. \A b : b \in s.routes <=> \E x \in routes' : x.current /\ x.route = b
    BY <1>1, <1>2, <1>3, <1>4, UpsertLands
  <2>2. CurrentRoutes' = {x.route : x \in {y \in routes' : y.current}}
    BY DEF CurrentRoutes
  <2> QED
    BY <2>1, <2>2
<1>8. node' = s.nodes /\ fleets' = s.fleets /\ member' = s.members
  BY <1>2, <1>5 DEF RemovedNodes, RemovedMembers, FleetsKept
<1>9. s = [nodes |-> s.nodes, fleets |-> s.fleets, members |-> s.members,
           routes |-> s.routes]
  BY <1>1 DEF Content
<1>10. ProjectionIsSnapshot'
  BY <1>4, <1>7, <1>8, <1>9 DEF ProjectionIsSnapshot
<1> QED
  BY <1>6, <1>10 DEF RowsInv, Keyed

LEMMA KeptRows ==
  ASSUME RowsInv, UNCHANGED topologyVars
  PROVE  RowsInv'
  BY DEF RowsInv, Keyed, ProjectionIsSnapshot, CurrentRoutes, topologyVars

\* Only a manifest writes to the topology.
LEMMA OnlyIngestWrites ==
  ASSUME Step, ~ \E q \in Request : Ingest(q)
  PROVE  UNCHANGED topologyVars
  BY DEF Step, Claim, Complete, Lock, Commit, Fail, Restart, LeaseExpires, Apply, Finish,
         Lapse, Delete, Erase

LEMMA StepRows ==
  ASSUME ManifestAssumption, TypeOK, RowsInv, Step
  PROVE  RowsInv'
  BY IngestRows, OnlyIngestWrites, KeptRows

LEMMA InitRows ==
  ASSUME Init
  PROVE  RowsInv
  BY DEF Init, RowsInv, Keyed, ProjectionIsSnapshot

\* After every manifest the current rows are exactly the accepted snapshot, for
\* any sequence of manifests: WritePlan, which writes only the difference, loses
\* and keeps nothing.
THEOREM ProjectionHolds ==
  ASSUME ManifestAssumption
  PROVE  Spec => []ProjectionIsSnapshot
<1>1. Init => TypeOK /\ RowsInv
  BY InitType, InitRows
<1>2. TypeOK /\ RowsInv /\ [Next]_vars => (TypeOK /\ RowsInv)'
  <2> SUFFICES ASSUME TypeOK, RowsInv, [Next]_vars
               PROVE  TypeOK' /\ RowsInv'
    OBVIOUS
  <2>1. CASE Next
    BY <2>1, NextIsStep, StepType, StepRows
  <2>2. CASE UNCHANGED vars
    BY <2>2, StutterType, KeptRows DEF vars
  <2> QED
    BY <2>1, <2>2
<1>3. RowsInv => ProjectionIsSnapshot
  BY DEF RowsInv
<1> QED
  BY <1>1, <1>2, <1>3, PTL DEF Spec

\* No manifest that PlanManifest accepts is turned down by the unique index on
\* current pairs, whatever the rows of the removed routes look like.
THEOREM AcceptedIsStored ==
  ASSUME ManifestAssumption
  PROVE  Spec => []AcceptableLands
<1>1. TypeOK => AcceptableLands
  <2> SUFFICES ASSUME TypeOK, NEW q \in Request, Acceptable(q)
               PROVE  IndexHolds(RetireRoutes(q.content), q.content)
    BY DEF AcceptableLands
  <2>1. q.content \in Content
    BY RevisionFacts
  <2>2. routes \subseteq RowSet
    BY DEF TypeOK, RowSet
  <2> QED
    BY <2>1, <2>2, IndexLemma DEF Acceptable, Valid
<1>2. Spec => []TypeOK
  BY TypeCorrect
<1> QED
  BY <1>1, <1>2, PTL

-----------------------------------------------------------------------------
(* Transactions *)

Works(p) == tx[p].pc \in {"chosen", "locked"}
Holds(p) == tx[p].pc \in {"locked", "applying"}

\* The nodes read under the lock are still those of the fleet.
Fresh(p) == tx[p].nodes = FleetNodes(FleetOf[tx[p].customer])

JobsInv == \A r \in Revisions : r > revision => job[r] = NoJob

LifeInv ==
    /\ revision = 0 => fleets = {}
    /\ \A c \in Customer : /\ life[c] # "none" => revision # 0
                           /\ life[c] = "none" => holds[c] = {}

TxOk(p) ==
    /\ Holds(p) => lock[tx[p].customer] = p
    /\ Works(p) => p \in Replica /\ tx[p].job <= revision
    /\ tx[p].pc = "locked" /\ tx[p].job = revision => Fresh(p)
    /\ tx[p].pc = "applying" =>
         /\ p \in Caller /\ revision # 0
         /\ life[tx[p].customer] # "DELETING"
         /\ tx[p].read <= revision
         /\ tx[p].read = revision => Fresh(p)

\* Two workers never hold the same job.
Apart == \A p, q \in Replica : Works(p) /\ Works(q) /\ tx[p].job = tx[q].job => p = q

TxInv == (\A p \in Process : TxOk(p)) /\ Apart

LEMMA IngestTx ==
  ASSUME ManifestAssumption, TypeOK, JobsInv, LifeInv, TxInv, NEW q \in Request, Ingest(q)
  PROVE  JobsInv' /\ LifeInv' /\ TxInv'
<1>1. /\ revision' = q.revision /\ q.revision \in Revisions /\ q.revision > revision
      /\ revision \in Nat /\ revision' \in Nat /\ revision' # 0
  BY RevisionFacts DEF Ingest, Acceptable, IsNewer, TypeOK
<1>2. UNCHANGED <<life, holds, lock, tx>>
  BY DEF Ingest, customerVars
<1>3. job' = [job EXCEPT ![q.revision].status = "PENDING"]
  BY DEF Ingest
<1>4. JobsInv'
  <2> SUFFICES ASSUME NEW r \in Revisions, r > revision' PROVE job'[r] = NoJob
    BY DEF JobsInv, NoJob
  <2>1. r \in Nat /\ r > revision /\ r # q.revision
    BY <1>1, RevisionFacts
  <2> QED
    BY <1>3, <2>1 DEF JobsInv, TypeOK
<1>5. LifeInv'
  BY <1>1, <1>2 DEF LifeInv
<1>6. Apart'
  BY <1>2 DEF Apart, TxInv, Works
<1>7. ASSUME NEW p \in Process PROVE TxOk(p)'
  <2>1. TxOk(p) /\ TxType(p)
    BY TypeParts, TxFields DEF TxInv, Process, TxsType
  <2>2. Holds(p)' => lock'[tx'[p].customer] = p
    BY <1>2, <2>1 DEF TxOk, Holds
  <2>3. ASSUME Works(p) PROVE p \in Replica /\ tx[p].job < revision' /\ tx[p].job # revision'
    <3>1. tx[p].job \in Nat /\ tx[p].job <= revision /\ p \in Replica
      BY <2>1, <2>3, RevisionFacts DEF TxOk, TxType, Works
    <3> QED
      BY <1>1, <3>1
  <2>4. ASSUME tx[p].pc = "applying"
        PROVE  tx[p].read < revision' /\ tx[p].read # revision'
    <3>1. tx[p].read \in Nat /\ tx[p].read <= revision
      BY <2>1, <2>4, RevisionFacts DEF TxOk, TxType
    <3> QED
      BY <1>1, <3>1
  <2>5. tx[p].pc = "locked" => Works(p)
    BY DEF Works
  <2>6. Works(p)' => p \in Replica /\ tx'[p].job <= revision'
    <3>1. ASSUME Works(p) PROVE tx[p].job <= revision'
      BY <1>1, <2>1, <2>3, <3>1, RevisionFacts DEF TxType, Works
    <3> QED
      BY <1>2, <2>3, <3>1 DEF Works
  <2>7. tx[p].pc = "applying" => tx[p].read <= revision'
    BY <1>1, <2>1, <2>4, RevisionFacts DEF TxType
  <2> QED
    BY <1>1, <1>2, <2>1, <2>2, <2>3, <2>4, <2>5, <2>6, <2>7 DEF TxOk
<1> QED
  BY <1>4, <1>5, <1>6, <1>7 DEF TxInv

\* A step that neither takes a lock nor begins work keeps the transactions: tx[p]
\* stays or becomes Idle.
LEMMA QuietTx ==
  ASSUME TxInv, UNCHANGED topologyVars,
         \A p \in Process : tx'[p] = tx[p] \/ tx'[p] = Idle,
         \A p \in Process : tx'[p] # Idle =>
            \A c \in Customer : lock[c] = p => lock'[c] = p,
         \A p \in Process : tx'[p] # Idle =>
            \A c \in Customer : lock[c] = p /\ life[c] # "DELETING" => life'[c] # "DELETING",
         TypeOK
  PROVE  TxInv'
<1>1. \A p \in Process : Works(p)' => Works(p) /\ tx'[p] = tx[p]
  BY DEF Works, Idle
<1>2. \A p \in Process : Holds(p)' => Holds(p) /\ tx'[p] = tx[p]
  BY DEF Holds, Idle
<1>3. Apart'
  BY <1>1 DEF Apart, TxInv, Process
<1>4. revision' = revision /\ member' = member
  BY DEF topologyVars
<1>5. ASSUME NEW p \in Process PROVE TxOk(p)'
  <2>1. TxOk(p) /\ TxType(p)
    BY TypeParts, TxFields DEF TxInv, Process, TxsType
  <2>2. CASE tx'[p] = Idle
    BY <2>2 DEF TxOk, Holds, Works, Idle
  <2>3. CASE tx'[p] # Idle
    <3>1. tx'[p] = tx[p]
      BY <2>3
    <3>2. Fresh(p) => Fresh(p)'
      BY <1>4, <3>1 DEF Fresh, FleetNodes
    <3>3. Holds(p) => tx[p].customer \in Customer /\ lock[tx[p].customer] = p
      BY <2>1 DEF TxType, TxOk, Holds
    <3>4. Holds(p)' => lock'[tx'[p].customer] = p
      BY <1>2, <2>3, <3>1, <3>3
    <3>5. tx[p].pc = "applying" => life'[tx[p].customer] # "DELETING"
      BY <2>1, <2>3, <3>3 DEF TxOk, Holds
    <3>6. Works(p)' => Works(p)
      BY <1>1
    <3> QED
      BY <1>4, <2>1, <3>1, <3>2, <3>4, <3>5, <3>6 DEF TxOk
  <2> QED
    BY <2>2, <2>3
<1> QED
  BY <1>3, <1>5 DEF TxInv

LEMMA ClaimTx ==
  ASSUME ManifestAssumption, TypeOK, JobsInv, LifeInv, TxInv, NEW w \in Replica, Claim(w)
  PROVE  JobsInv' /\ LifeInv' /\ TxInv'
<1> DEFINE r == Min(Claimable(w))
           c == Min(Following(job[r].cursor))
<1>1. /\ r \in Claimable(w) /\ r \in Revisions
      /\ tx' = [tx EXCEPT ![w] = [pc |-> "chosen", job |-> r, customer |-> c,
                                  paid |-> paid[c]]]
  BY TypeParts, ClaimableFacts DEF Claim
<1>2. UNCHANGED <<topologyVars, job, life, holds, lock>>
  BY DEF Claim, customerVars
<1>3. JobsInv' /\ LifeInv'
  BY <1>2 DEF JobsInv, LifeInv, topologyVars, NoJob
<1> HIDE DEF c
<1>4. r <= revision
  <2>1. Unfinished(r) /\ job[r] # NoJob
    BY <1>1 DEF Claimable, Unfinished, NoJob
  <2>2. revision \in Nat /\ r \in Nat
    BY <1>1, RevisionFacts DEF TypeOK
  <2> QED
    BY <1>1, <2>1, <2>2 DEF JobsInv
<1>5. \A v \in Replica : ~(Works(v) /\ tx[v].job = r)
  BY <1>1 DEF Claimable, RowLocked, Works
<1> HIDE DEF r
<1>6. /\ \A p \in Process : p # w => tx'[p] = tx[p]
      /\ tx'[w].pc = "chosen" /\ tx'[w].job = r
  BY <1>1 DEF TypeOK, Process
<1>7. Apart'
  <2> SUFFICES ASSUME NEW p \in Replica, NEW q \in Replica, Works(p)', Works(q)',
                      tx'[p].job = tx'[q].job
               PROVE  p = q
    BY DEF Apart
  <2>1. CASE p # w /\ q # w
    BY <1>6, <2>1 DEF TxInv, Apart, Works, Process
  <2>2. CASE p = w /\ q # w
    BY <1>5, <1>6, <2>2 DEF Works, Process
  <2>3. CASE q = w /\ p # w
    BY <1>5, <1>6, <2>3 DEF Works, Process
  <2> QED
    BY <2>1, <2>2, <2>3
<1>8. ASSUME NEW p \in Process PROVE TxOk(p)'
  <2>1. CASE p = w
    BY <1>2, <1>4, <1>6, <2>1 DEF TxOk, Holds, Works, topologyVars
  <2>2. CASE p # w
    BY <1>2, <1>6, <2>2 DEF TxInv, TxOk, Holds, Works, Fresh, FleetNodes, topologyVars
  <2> QED
    BY <2>1, <2>2
<1> QED
  BY <1>3, <1>7, <1>8 DEF TxInv

LEMMA LockTx ==
  ASSUME ManifestAssumption, TypeOK, JobsInv, LifeInv, TxInv, NEW w \in Replica, Lock(w)
  PROVE  JobsInv' /\ LifeInv' /\ TxInv'
<1> DEFINE c == tx[w].customer
<1>1. /\ tx[w].pc = "chosen" /\ lock[c] = Nobody
      /\ lock' = [lock EXCEPT ![c] = w]
      /\ tx' = [tx EXCEPT ![w] =
             [pc |-> "locked", job |-> tx[w].job, customer |-> c, paid |-> tx[w].paid,
              nodes |-> FleetNodes(FleetOf[c])]]
  BY DEF Lock
<1>2. UNCHANGED <<topologyVars, job, life, holds>>
  BY DEF Lock, customerVars
<1>3. JobsInv' /\ LifeInv'
  BY <1>2 DEF JobsInv, LifeInv, topologyVars, NoJob
<1>4. c \in Customer /\ TxOk(w) /\ w \in Process
  BY <1>1, TypeParts, TxFields DEF TxInv, Process, TxsType, TxType
<1>5. lock'[c] = w /\ \A d \in Customer : d # c => lock'[d] = lock[d]
  BY <1>1, <1>4 DEF TypeOK
<1>6. /\ \A p \in Process : p # w => tx'[p] = tx[p]
      /\ tx'[w].pc = "locked" /\ tx'[w].job = tx[w].job /\ tx'[w].customer = c
      /\ tx'[w].nodes = FleetNodes(FleetOf[c])
  BY <1>1 DEF TypeOK, Process
<1>7. Works(w)
  BY <1>1 DEF Works
<1> HIDE DEF c
<1>8. Apart'
  BY <1>6, <1>7 DEF TxInv, Apart, Works, Process
<1>9. ASSUME NEW p \in Process PROVE TxOk(p)'
  <2>1. CASE p = w
    <3>1. Fresh(p)'
      BY <1>2, <1>6, <2>1 DEF Fresh, FleetNodes, topologyVars
    <3>2. Works(p)' => p \in Replica /\ tx'[p].job <= revision'
      BY <1>2, <1>4, <1>6, <1>7, <2>1 DEF TxOk, topologyVars
    <3>3. Holds(p)' => lock'[tx'[p].customer] = p
      BY <1>5, <1>6, <2>1
    <3> QED
      BY <1>6, <2>1, <3>1, <3>2, <3>3 DEF TxOk
  <2>2. CASE p # w
    <3>1. TxOk(p) /\ TxType(p) /\ p # Nobody
      BY TypeParts, TxFields DEF TxInv, Process, TxsType, ManifestAssumption
    <3>2. Holds(p) => lock[tx[p].customer] = p /\ tx[p].customer # c
                        /\ tx[p].customer \in Customer
      BY <1>1, <3>1 DEF c, Holds, TxOk, TxType
    <3>3. Holds(p)' => lock'[tx'[p].customer] = p
      BY <1>5, <1>6, <2>2, <3>2 DEF Holds
    <3>4. Fresh(p) => Fresh(p)'
      BY <1>2, <1>6, <2>2 DEF Fresh, FleetNodes, topologyVars
    <3> QED
      BY <1>2, <1>6, <2>2, <3>1, <3>3, <3>4 DEF TxOk, Works, topologyVars
  <2> QED
    BY <2>1, <2>2
<1> QED
  BY <1>3, <1>8, <1>9 DEF TxInv

LEMMA ApplyTx ==
  ASSUME ManifestAssumption, TypeOK, JobsInv, LifeInv, TxInv,
         NEW p \in Caller, NEW c \in Customer, Apply(p, c)
  PROVE  JobsInv' /\ LifeInv' /\ TxInv'
<1>1. /\ lock[c] = Nobody /\ life[c] # "DELETING" /\ FleetOf[c] \in fleets
      /\ lock' = [lock EXCEPT ![c] = p]
      /\ tx' = [tx EXCEPT ![p] = [pc |-> "applying", customer |-> c, read |-> revision,
                                  nodes |-> FleetNodes(FleetOf[c])]]
  BY DEF Apply
<1>2. UNCHANGED <<topologyVars, job, life, holds>>
  BY DEF Apply, customerVars
<1>3. JobsInv' /\ LifeInv'
  BY <1>2 DEF JobsInv, LifeInv, topologyVars, NoJob
<1>4. revision # 0 /\ revision \in Nat
  BY <1>1, RevisionFacts DEF LifeInv, TypeOK
<1>5. lock'[c] = p /\ \A d \in Customer : d # c => lock'[d] = lock[d]
  BY <1>1 DEF TypeOK
<1>6. /\ \A x \in Process : x # p => tx'[x] = tx[x]
      /\ tx'[p].pc = "applying" /\ tx'[p].customer = c /\ tx'[p].read = revision
      /\ tx'[p].nodes = FleetNodes(FleetOf[c])
  BY <1>1 DEF TypeOK, Process
<1>7. ~Works(p)'
  BY <1>6 DEF Works
<1>8. Apart'
  BY <1>6, <1>7 DEF TxInv, Apart, Works, Process
<1>9. ASSUME NEW x \in Process PROVE TxOk(x)'
  <2>1. CASE x = p
    <3>1. Fresh(x)'
      BY <1>2, <1>6, <2>1 DEF Fresh, FleetNodes, topologyVars
    <3>2. Holds(x)' => lock'[tx'[x].customer] = x
      BY <1>5, <1>6, <2>1
    <3>3. tx'[x].read <= revision' /\ revision' # 0 /\ life'[c] # "DELETING"
      BY <1>1, <1>2, <1>4, <1>6, <2>1 DEF topologyVars
    <3> QED
      BY <1>6, <1>7, <2>1, <3>1, <3>2, <3>3 DEF TxOk
  <2>2. CASE x # p
    <3>1. TxOk(x) /\ TxType(x) /\ x # Nobody
      BY TypeParts, TxFields DEF TxInv, Process, TxsType, ManifestAssumption
    <3>2. Holds(x) => lock[tx[x].customer] = x /\ tx[x].customer # c
                        /\ tx[x].customer \in Customer
      BY <1>1, <3>1 DEF Holds, TxOk, TxType
    <3>3. Holds(x)' => lock'[tx'[x].customer] = x
      BY <1>5, <1>6, <2>2, <3>2 DEF Holds
    <3>4. Fresh(x) => Fresh(x)'
      BY <1>2, <1>6, <2>2 DEF Fresh, FleetNodes, topologyVars
    <3> QED
      BY <1>2, <1>6, <2>2, <3>1, <3>3, <3>4 DEF TxOk, Works, topologyVars
  <2> QED
    BY <2>1, <2>2
<1> QED
  BY <1>3, <1>8, <1>9 DEF TxInv

LEMMA ReleaseFacts ==
  ASSUME ManifestAssumption, TypeOK, TxInv, NEW w \in Process, Holds(w)
  PROVE  /\ tx[w].customer \in Customer /\ lock[tx[w].customer] = w
         /\ \A p \in Process, d \in Customer :
              p # w /\ lock[d] = p => [lock EXCEPT ![tx[w].customer] = Nobody][d] = p
         /\ \A p \in Process : p # w /\ Holds(p) => tx[p].customer # tx[w].customer
<1>1. \A p \in Process : TxOk(p) /\ TxType(p)
  BY TypeParts, TxFields DEF TxInv, Process, TxsType
<1>2. tx[w].customer \in Customer /\ lock[tx[w].customer] = w
  BY <1>1 DEF TxOk, TxType, Holds
<1>3. \A p \in Process : p # w /\ Holds(p) => tx[p].customer # tx[w].customer
  BY <1>1, <1>2 DEF TxOk
<1> QED
  BY <1>2, <1>3 DEF TypeOK

LEMMA CommitTx ==
  ASSUME ManifestAssumption, TypeOK, JobsInv, LifeInv, TxInv, NEW w \in Replica, Commit(w)
  PROVE  JobsInv' /\ LifeInv' /\ TxInv'
<1>1. tx[w].pc = "locked" /\ w \in Process
  BY DEF Commit, Process
<1>2. Holds(w) /\ Works(w) /\ TxOk(w) /\ TxType(w)
  BY <1>1, TypeParts, TxFields DEF TxInv, Process, TxsType, Holds, Works
<1>3. UNCHANGED <<topologyVars, life>>
  BY DEF Commit
<1>4. JobsInv'
  <2>1. tx[w].job <= revision /\ tx[w].job \in Revisions
    BY <1>1, <1>2 DEF TxOk, TxType
  <2>2. revision \in Nat /\ Revisions \subseteq Nat
    BY RevisionFacts DEF TypeOK
  <2>3. \A r \in Revisions : r > revision => job'[r] = job[r]
    BY <2>1, <2>2 DEF Commit, TypeOK
  <2> QED
    BY <1>3, <2>3 DEF JobsInv, topologyVars, NoJob
<1>5. LifeInv'
  BY <1>1, <1>2, <1>3 DEF LifeInv, Commit, TypeOK, TxType, topologyVars
<1>6. \A p \in Process : p # w => tx'[p] = tx[p]
  BY DEF Commit, TypeOK, Process
<1>7. tx'[w] = Idle
  BY <1>1 DEF Commit, TypeOK, Process
<1>8. TxInv'
  <2>1. \A p \in Process : tx'[p] # Idle =>
            \A c \in Customer : lock[c] = p => lock'[c] = p
    BY <1>1, <1>2, <1>7, ReleaseFacts DEF Commit
  <2> QED
    BY <1>3, <1>6, <1>7, <2>1, QuietTx
<1> QED
  BY <1>4, <1>5, <1>8

LEMMA FinishTx ==
  ASSUME ManifestAssumption, TypeOK, JobsInv, LifeInv, TxInv,
         NEW p \in Caller, NEW renewed \in BOOLEAN, Finish(p, renewed)
  PROVE  JobsInv' /\ LifeInv' /\ TxInv'
<1>1. tx[p].pc = "applying" /\ p \in Process
  BY DEF Finish, Process
<1>2. Holds(p) /\ TxOk(p) /\ TxType(p)
  BY <1>1, TypeParts, TxFields DEF TxInv, Process, TxsType, Holds
<1>3. UNCHANGED <<topologyVars, job>> /\ revision # 0 /\ tx[p].customer \in Customer
  BY <1>1, <1>2 DEF Finish, TxOk, TxType
<1>4. JobsInv'
  BY <1>3 DEF JobsInv, topologyVars, NoJob
<1>5. /\ life' = [life EXCEPT ![tx[p].customer] = "ACTIVE"]
      /\ \A d \in Customer : d # tx[p].customer => holds'[d] = holds[d]
  BY DEF Finish, TypeOK
<1>6. LifeInv'
  BY <1>3, <1>5 DEF LifeInv, TypeOK, topologyVars
<1>7. \A x \in Process : x # p => tx'[x] = tx[x]
  BY DEF Finish, TypeOK, Process
<1>8. tx'[p] = Idle
  BY <1>1 DEF Finish, TypeOK, Process
<1>9. TxInv'
  <2>1. \A x \in Process : tx'[x] # Idle =>
            \A c \in Customer : lock[c] = x => lock'[c] = x
    BY <1>1, <1>2, <1>8, ReleaseFacts DEF Finish
  <2>2. \A c \in Customer : life[c] # "DELETING" => life'[c] # "DELETING"
    BY <1>5 DEF TypeOK
  <2> QED
    BY <1>3, <1>7, <1>8, <2>1, <2>2, QuietTx
<1> QED
  BY <1>4, <1>6, <1>9

LEMMA FaultTx ==
  ASSUME ManifestAssumption, TypeOK, JobsInv, LifeInv, TxInv, NEW w \in Replica,
         Fail(w) \/ Restart(w)
  PROVE  JobsInv' /\ LifeInv' /\ TxInv'
<1>1. UNCHANGED <<topologyVars, life, holds>> /\ tx' = [tx EXCEPT ![w] = Idle]
        /\ lock' = Released(w)
  BY DEF Fail, Restart, customerVars
<1>2. JobsInv'
  <2>1. \A r \in Revisions : job[r] = NoJob => job'[r] = NoJob
    BY DEF Fail, Restart, NoJob, ManifestAssumption
  <2> QED
    BY <1>1, <2>1 DEF JobsInv, topologyVars, NoJob
<1>3. LifeInv'
  BY <1>1 DEF LifeInv, topologyVars
<1>4. TxInv'
  <2>1. \A p \in Process : p # w => tx'[p] = tx[p]
    BY <1>1 DEF TypeOK, Process
  <2>2. tx'[w] = Idle
    BY <1>1 DEF TypeOK
  <2>3. \A p \in Process, c \in Customer : p # w /\ lock[c] = p => lock'[c] = p
    BY <1>1 DEF Released
  <2> QED
    BY <1>1, <2>1, <2>2, <2>3, QuietTx
<1> QED
  BY <1>2, <1>3, <1>4

LEMMA CompleteTx ==
  ASSUME ManifestAssumption, TypeOK, JobsInv, LifeInv, TxInv,
         NEW w \in Replica, Complete(w)
  PROVE  JobsInv' /\ LifeInv' /\ TxInv'
<1> DEFINE r == Min(Claimable(w))
<1>1. r \in Claimable(w) /\ r \in Revisions
  BY TypeParts, ClaimableFacts DEF Complete
<1>2. job' = [job EXCEPT ![r].status = "DONE", ![r].owner = Nobody]
  BY DEF Complete
<1>3. UNCHANGED <<topologyVars, life, holds, lock, tx>>
  BY DEF Complete, customerVars
<1>4. job[r] # NoJob
  BY <1>1 DEF Claimable, Unfinished, NoJob
<1> HIDE DEF r
<1>5. JobsInv'
  BY <1>1, <1>2, <1>3, <1>4 DEF JobsInv, topologyVars, NoJob, TypeOK
<1>6. LifeInv'
  BY <1>3 DEF LifeInv, topologyVars
<1>7. TxInv'
  BY <1>3, QuietTx
<1> QED
  BY <1>5, <1>6, <1>7

LEMMA LeaseExpiresTx ==
  ASSUME ManifestAssumption, TypeOK, JobsInv, LifeInv, TxInv,
         NEW r \in Revisions, LeaseExpires(r)
  PROVE  JobsInv' /\ LifeInv' /\ TxInv'
<1>1. UNCHANGED <<topologyVars, life, holds, lock, tx>>
        /\ job' = [job EXCEPT ![r].owner = Nobody] /\ job[r].owner # Nobody
  BY DEF LeaseExpires, customerVars
<1>2. JobsInv'
  BY <1>1 DEF JobsInv, topologyVars, NoJob, TypeOK
<1>3. LifeInv'
  BY <1>1 DEF LifeInv, topologyVars
<1>4. TxInv'
  BY <1>1, QuietTx
<1> QED
  BY <1>2, <1>3, <1>4

LEMMA LifeStepTx ==
  ASSUME ManifestAssumption, TypeOK, JobsInv, LifeInv, TxInv, NEW c \in Customer,
         Lapse(c) \/ Delete(c) \/ Erase(c)
  PROVE  JobsInv' /\ LifeInv' /\ TxInv'
<1>1. UNCHANGED <<topologyVars, job, lock, tx>>
  BY DEF Lapse, Delete, Erase
<1>2. JobsInv'
  BY <1>1 DEF JobsInv, topologyVars, NoJob
<1>3. LifeInv'
  <2>1. CASE Lapse(c)
    BY <1>1, <2>1 DEF LifeInv, Lapse, topologyVars
  <2>2. CASE Delete(c)
    BY <1>1, <2>2 DEF LifeInv, Delete, topologyVars, TypeOK
  <2>3. CASE Erase(c)
    BY <1>1, <2>3 DEF LifeInv, Erase, topologyVars, TypeOK
  <2> QED
    BY <2>1, <2>2, <2>3
<1>4. TxInv'
  <2>1. \A p \in Process, d \in Customer :
           lock[d] = p /\ life[d] # "DELETING" => life'[d] # "DELETING"
    <3>1. CASE Lapse(c)
      BY <3>1 DEF Lapse
    <3>2. CASE Delete(c)
      BY <3>2 DEF Delete, Process, TypeOK, ManifestAssumption
    <3>3. CASE Erase(c)
      BY <3>3 DEF Erase, TypeOK
    <3> QED
      BY <3>1, <3>2, <3>3
  <2> QED
    BY <1>1, <2>1, QuietTx
<1> QED
  BY <1>2, <1>3, <1>4

LEMMA StepTx ==
  ASSUME ManifestAssumption, TypeOK, JobsInv, LifeInv, TxInv, Step
  PROVE  JobsInv' /\ LifeInv' /\ TxInv'
  BY IngestTx, ClaimTx, CompleteTx, LockTx, CommitTx, FaultTx, LeaseExpiresTx, ApplyTx,
     FinishTx, LifeStepTx DEF Step

-----------------------------------------------------------------------------
(* Nobody is forgotten *)

\* The newest job will still come to c.
Ahead(c) ==
    /\ revision \in Revisions
    /\ Unfinished(revision)
    /\ job[revision].cursor < c
    /\ \A w \in Replica : Works(w) /\ tx[w].job = revision => tx[w].customer <= c

LagsAhead(c)  == Lagging(c) /\ late[c] # revision => Ahead(c)
StaleAhead(p) == Holds(p) /\ ~Fresh(p) /\ life[tx[p].customer] = "ACTIVE" => Ahead(tx[p].customer)

ForgetInv == (\A c \in Customer : LagsAhead(c)) /\ (\A p \in Process : StaleAhead(p))

LEMMA AheadKept ==
  ASSUME NEW c \in Customer, Ahead(c), UNCHANGED revision,
         job'[revision].status = job[revision].status,
         job'[revision].cursor = job[revision].cursor,
         \A w \in Replica : Works(w)' /\ tx'[w].job = revision =>
            \/ Works(w) /\ tx[w].job = revision /\ tx'[w].customer = tx[w].customer
            \/ tx'[w].customer <= c
  PROVE  Ahead(c)'
  BY DEF Ahead, Unfinished

\* In one fleet a kind and a key name one target.
LEMMA WantedKeyed ==
  ASSUME ManifestAssumption, TypeOK, Keyed(routes), NEW c \in Customer,
         NEW t \in Wanted(c), NEW u \in Wanted(c), SameTarget(t, u)
  PROVE  t = u
<1> DEFINE f == FleetOf[c]
           N == {[kind |-> "FREEDOM", key |-> n, egress |-> "direct"] : n \in FleetNodes(f)}
           B == {[kind |-> "BRIDGE", key |-> b.key, egress |-> b.tag] : b \in FleetRoutes(f)}
<1>1. Wanted(c) = N \cup B
  BY DEF Wanted, TargetsOf
<1>2. \A x \in N : x.kind = "FREEDOM" /\ x.egress = "direct" /\
                   x = [kind |-> "FREEDOM", key |-> x.key, egress |-> "direct"]
  OBVIOUS
<1>3. \A x \in B : x.kind = "BRIDGE"
  OBVIOUS
<1>4. ASSUME t \in B, u \in B PROVE t = u
  <2>1. PICK b \in FleetRoutes(f) : t = [kind |-> "BRIDGE", key |-> b.key, egress |-> b.tag]
    BY <1>4
  <2>2. PICK d \in FleetRoutes(f) : u = [kind |-> "BRIDGE", key |-> d.key, egress |-> d.tag]
    BY <1>4
  <2>3. b.key = d.key
    BY <2>1, <2>2 DEF SameTarget
  <2>4. PICK x \in routes : x.route = b /\ b.fleet = f
    BY DEF FleetRoutes
  <2>5. PICK y \in routes : y.route = d /\ d.fleet = f
    BY DEF FleetRoutes
  <2>6. x = y
    BY <2>3, <2>4, <2>5 DEF Keyed, SameRow
  <2> QED
    BY <2>1, <2>2, <2>4, <2>5, <2>6
<1>5. ASSUME t \in N, u \in N PROVE t = u
  BY <1>2, <1>5 DEF SameTarget
<1> HIDE DEF N, B
<1> QED
  BY <1>1, <1>2, <1>3, <1>4, <1>5 DEF SameTarget

LEMMA MaterializedIsWanted ==
  ASSUME NEW targets, NEW held, NEW unexpired \in BOOLEAN
  PROVE  /\ Materialized(targets, held, unexpired) \subseteq targets
         /\ unexpired => Materialized(targets, held, unexpired) = targets
  BY DEF Materialized, Known, Missing

\* Apply completes a customer who kept only what the topology names.
LEMMA AppliedIsWanted ==
  ASSUME ManifestAssumption, TypeOK, Keyed(routes), NEW c \in Customer,
         NEW held \in SUBSET Wanted(c)
  PROVE  Applied(Wanted(c), held) = Wanted(c)
<1> SUFFICES ASSUME NEW t \in Wanted(c), t \notin Missing(Wanted(c), held)
             PROVE  t \in held
  BY DEF Applied, Missing
<1>1. PICK h \in held : SameTarget(t, h)
  BY DEF Missing
<1>2. t = h
  BY <1>1, WantedKeyed
<1> QED
  BY <1>2

LEMMA LaggingKept ==
  ASSUME NEW c \in Customer, UNCHANGED topologyVars,
         life'[c] = life[c], paid'[c] = paid[c], holds'[c] = holds[c], Lagging(c)'
  PROVE  Lagging(c)
  BY DEF Lagging, Wanted, TargetsOf, FleetNodes, FleetRoutes, topologyVars

LEMMA FreshKept ==
  ASSUME NEW p, UNCHANGED topologyVars, tx'[p] = tx[p]
  PROVE  Fresh(p)' <=> Fresh(p)
  BY DEF Fresh, FleetNodes, topologyVars

LEMMA ProcessFacts ==
  ASSUME ManifestAssumption, TypeOK, TxInv, NEW p \in Process
  PROVE  TxOk(p) /\ TxType(p) /\ (Holds(p) => tx[p].customer \in Customer)
<1>1. TxOk(p) /\ TxType(p)
  BY TypeParts, TxFields DEF TxInv, Process, TxsType
<1> QED
  BY <1>1 DEF TxType, Holds

\* A step that leaves the topology and the customers, gives nobody a stale
\* reading and keeps the newest job ahead of those who need it.
LEMMA QuietForget ==
  ASSUME ManifestAssumption, TypeOK, TxInv, ForgetInv,
         UNCHANGED <<topologyVars, life, paid, holds, late>>,
         \A p \in Process : Holds(p)' => (tx'[p] = tx[p] /\ Holds(p)) \/ Fresh(p)',
         \A c \in Customer : life[c] = "ACTIVE" /\ Ahead(c) => Ahead(c)'
  PROVE  ForgetInv'
<1>1. ASSUME NEW c \in Customer PROVE LagsAhead(c)'
  <2> SUFFICES ASSUME Lagging(c)', late[c] # revision PROVE Ahead(c)'
    BY DEF LagsAhead, topologyVars
  <2>1. Lagging(c)
    BY LaggingKept
  <2>2. Ahead(c) /\ life[c] = "ACTIVE"
    BY <2>1 DEF ForgetInv, LagsAhead, Lagging
  <2> QED
    BY <2>2
<1>2. ASSUME NEW p \in Process PROVE StaleAhead(p)'
  <2> SUFFICES ASSUME Holds(p)', ~Fresh(p)', life'[tx'[p].customer] = "ACTIVE"
               PROVE  Ahead(tx[p].customer)'
    BY DEF StaleAhead
  <2>1. tx'[p] = tx[p] /\ Holds(p)
    OBVIOUS
  <2>2. PICK d \in Customer : d = tx[p].customer
    BY <2>1, ProcessFacts
  <2>3. ~Fresh(p) /\ life[d] = "ACTIVE"
    BY <2>1, <2>2, FreshKept
  <2>4. Ahead(d)
    BY <2>1, <2>2, <2>3 DEF ForgetInv, StaleAhead
  <2>5. Ahead(d)'
    BY <2>3, <2>4
  <2> QED
    BY <2>1, <2>2, <2>5
<1> QED
  BY <1>1, <1>2 DEF ForgetInv

LEMMA IngestForget ==
  ASSUME ManifestAssumption, TypeOK, JobsInv, LifeInv, TxInv, ForgetInv,
         NEW q \in Request, Ingest(q)
  PROVE  ForgetInv'
<1>1. /\ revision' = q.revision /\ q.revision \in Revisions /\ q.revision > revision
      /\ revision \in Nat /\ tx' = tx
      /\ job' = [job EXCEPT ![q.revision].status = "PENDING"]
  BY RevisionFacts DEF Ingest, Acceptable, IsNewer, TypeOK
<1>2. job'[q.revision].status = "PENDING" /\ job'[q.revision].cursor = 0
  BY <1>1 DEF JobsInv, NoJob, TypeOK
<1>3. \A w \in Replica : Works(w) => tx[w].job # q.revision
  <2> SUFFICES ASSUME NEW w \in Replica, Works(w) PROVE tx[w].job # q.revision
    OBVIOUS
  <2>1. tx[w].job <= revision /\ tx[w].job \in Revisions
    BY ProcessFacts DEF Process, TxOk, TxType, Works
  <2> QED
    BY <1>1, <2>1, RevisionFacts
<1>4. ASSUME NEW c \in Customer PROVE Ahead(c)'
  <2>1. 0 < c
    BY DEF ManifestAssumption
  <2> QED
    BY <1>1, <1>2, <1>3, <2>1 DEF Ahead, Unfinished, Works
<1>5. \A p \in Process : Holds(p)' => tx'[p].customer \in Customer
  BY <1>1, ProcessFacts DEF Holds
<1>6. \A c \in Customer : LagsAhead(c)'
  BY <1>4 DEF LagsAhead
<1>7. ASSUME NEW p \in Process PROVE StaleAhead(p)'
  <2>1. Holds(p)' => Ahead(tx[p].customer)'
    BY <1>1, <1>4, <1>5
  <2> QED
    BY <1>1, <2>1 DEF StaleAhead, Holds
<1> QED
  BY <1>6, <1>7 DEF ForgetInv

LEMMA ClaimForget ==
  ASSUME ManifestAssumption, TypeOK, JobsInv, LifeInv, TxInv, ForgetInv,
         NEW w \in Replica, Claim(w)
  PROVE  ForgetInv'
<1> DEFINE r == Min(Claimable(w))
           c == Min(Following(job[r].cursor))
<1>1. \A d \in Following(job[r].cursor) : c <= d
  BY FollowingFacts DEF Claim
<1>2. tx' = [tx EXCEPT ![w] = [pc |-> "chosen", job |-> r, customer |-> c,
                               paid |-> paid[c]]]
  BY DEF Claim
<1> HIDE DEF c
<1>3. UNCHANGED <<topologyVars, job, life, paid, holds, late>>
  BY DEF Claim, customerVars
<1> HIDE DEF r
<1>4. /\ \A p \in Process : p # w => tx'[p] = tx[p]
      /\ tx'[w].pc = "chosen" /\ tx'[w].job = r /\ tx'[w].customer = c
  BY <1>2 DEF TypeOK, Process
<1>5. \A p \in Process : Holds(p)' => tx'[p] = tx[p] /\ Holds(p)
  BY <1>4 DEF Holds
<1>6. ASSUME NEW d \in Customer, life[d] = "ACTIVE", Ahead(d) PROVE Ahead(d)'
  <2>1. r = revision => c <= d
    BY <1>1, <1>6 DEF Following, Ahead, ManifestAssumption
  <2>2. \A v \in Replica : Works(v)' /\ tx'[v].job = revision =>
            \/ Works(v) /\ tx[v].job = revision /\ tx'[v].customer = tx[v].customer
            \/ tx'[v].customer <= d
    BY <1>4, <2>1 DEF Works, Process
  <2> QED
    BY <1>3, <1>6, <2>2, AheadKept DEF topologyVars
<1> QED
  BY <1>3, <1>5, <1>6, QuietForget

LEMMA CompleteForget ==
  ASSUME ManifestAssumption, TypeOK, JobsInv, LifeInv, TxInv, ForgetInv,
         NEW w \in Replica, Complete(w)
  PROVE  ForgetInv'
<1> DEFINE r == Min(Claimable(w))
<1>1. /\ r \in Revisions /\ Following(job[r].cursor) = {}
      /\ job' = [job EXCEPT ![r].status = "DONE", ![r].owner = Nobody]
  BY TypeParts, ClaimableFacts DEF Complete
<1>2. UNCHANGED <<topologyVars, life, paid, holds, late, tx>>
  BY DEF Complete, customerVars
<1> HIDE DEF r
<1>3. \A p \in Process : Holds(p)' => tx'[p] = tx[p] /\ Holds(p)
  BY <1>2 DEF Holds
<1>4. ASSUME NEW d \in Customer, life[d] = "ACTIVE", Ahead(d) PROVE Ahead(d)'
  <2>1. r # revision
    BY <1>1, <1>4 DEF Following, Ahead, ManifestAssumption
  <2>2. job'[revision] = job[revision]
    BY <1>1, <1>4, <2>1 DEF TypeOK, Ahead
  <2> QED
    BY <1>2, <1>4, <2>2, AheadKept DEF topologyVars, Works
<1> QED
  BY <1>2, <1>3, <1>4, QuietForget

LEMMA LockForget ==
  ASSUME ManifestAssumption, TypeOK, JobsInv, LifeInv, TxInv, ForgetInv,
         NEW w \in Replica, Lock(w)
  PROVE  ForgetInv'
<1>1. /\ tx[w].pc = "chosen"
      /\ tx' = [tx EXCEPT ![w] =
             [pc |-> "locked", job |-> tx[w].job, customer |-> tx[w].customer,
              paid |-> tx[w].paid, nodes |-> FleetNodes(FleetOf[tx[w].customer])]]
  BY DEF Lock
<1>2. UNCHANGED <<topologyVars, job, life, paid, holds, late>>
  BY DEF Lock, customerVars
<1>3. /\ \A p \in Process : p # w => tx'[p] = tx[p]
      /\ tx'[w].job = tx[w].job /\ tx'[w].customer = tx[w].customer
      /\ tx'[w].nodes = FleetNodes(FleetOf[tx[w].customer])
  BY <1>1 DEF TypeOK, Process
<1>4. Fresh(w)'
  BY <1>2, <1>3 DEF Fresh, FleetNodes, topologyVars
<1>5. \A p \in Process : Holds(p)' => (tx'[p] = tx[p] /\ Holds(p)) \/ Fresh(p)'
  BY <1>3, <1>4 DEF Holds
<1>6. Works(w)
  BY <1>1 DEF Works
<1>7. ASSUME NEW d \in Customer, life[d] = "ACTIVE", Ahead(d) PROVE Ahead(d)'
  <2>1. \A v \in Replica : Works(v)' /\ tx'[v].job = revision =>
            Works(v) /\ tx[v].job = revision /\ tx'[v].customer = tx[v].customer
    BY <1>3, <1>6 DEF Works, Process
  <2> QED
    BY <1>2, <1>7, <2>1, AheadKept DEF topologyVars
<1> QED
  BY <1>2, <1>5, <1>7, QuietForget

LEMMA FaultForget ==
  ASSUME ManifestAssumption, TypeOK, JobsInv, LifeInv, TxInv, ForgetInv,
         NEW w \in Replica, Fail(w) \/ Restart(w)
  PROVE  ForgetInv'
<1>1. UNCHANGED <<topologyVars, life, paid, holds, late>> /\ tx' = [tx EXCEPT ![w] = Idle]
  BY DEF Fail, Restart, customerVars
<1>2. \A p \in Process : tx'[p] = tx[p] \/ tx'[p] = Idle
  BY <1>1 DEF TypeOK, Process
<1>3. \A p \in Process : Holds(p)' => tx'[p] = tx[p] /\ Holds(p)
  BY <1>2 DEF Holds, Idle
<1>4. \A r \in Revisions : job'[r].status = job[r].status /\ job'[r].cursor = job[r].cursor
  BY DEF Fail, Restart, TypeOK
<1>5. ASSUME NEW d \in Customer, life[d] = "ACTIVE", Ahead(d) PROVE Ahead(d)'
  <2>1. \A v \in Replica : Works(v)' => Works(v) /\ tx'[v] = tx[v]
    BY <1>2 DEF Works, Idle, Process
  <2> QED
    BY <1>1, <1>4, <1>5, <2>1, AheadKept DEF topologyVars, Ahead
<1> QED
  BY <1>1, <1>3, <1>5, QuietForget

LEMMA LeaseExpiresForget ==
  ASSUME ManifestAssumption, TypeOK, JobsInv, LifeInv, TxInv, ForgetInv,
         NEW r \in Revisions, LeaseExpires(r)
  PROVE  ForgetInv'
<1>1. UNCHANGED <<topologyVars, life, paid, holds, late, tx>>
        /\ job' = [job EXCEPT ![r].owner = Nobody]
  BY DEF LeaseExpires, customerVars
<1>2. \A p \in Process : Holds(p)' => tx'[p] = tx[p] /\ Holds(p)
  BY <1>1 DEF Holds
<1>3. \A u \in Revisions : job'[u].status = job[u].status /\ job'[u].cursor = job[u].cursor
  BY <1>1 DEF TypeOK
<1>4. ASSUME NEW d \in Customer, life[d] = "ACTIVE", Ahead(d) PROVE Ahead(d)'
  BY <1>1, <1>3, <1>4, AheadKept DEF topologyVars, Works, Ahead
<1> QED
  BY <1>1, <1>2, <1>4, QuietForget

LEMMA ApplyForget ==
  ASSUME ManifestAssumption, TypeOK, JobsInv, LifeInv, TxInv, ForgetInv,
         NEW p \in Caller, NEW c \in Customer, Apply(p, c)
  PROVE  ForgetInv'
<1>1. tx' = [tx EXCEPT ![p] = [pc |-> "applying", customer |-> c, read |-> revision,
                               nodes |-> FleetNodes(FleetOf[c])]]
  BY DEF Apply
<1>2. UNCHANGED <<topologyVars, job, life, paid, holds, late>>
  BY DEF Apply, customerVars
<1>3. /\ \A x \in Process : x # p => tx'[x] = tx[x]
      /\ tx'[p].pc = "applying" /\ tx'[p].customer = c
      /\ tx'[p].nodes = FleetNodes(FleetOf[c])
  BY <1>1 DEF TypeOK, Process
<1>4. Fresh(p)'
  BY <1>2, <1>3 DEF Fresh, FleetNodes, topologyVars
<1>5. \A x \in Process : Holds(x)' => (tx'[x] = tx[x] /\ Holds(x)) \/ Fresh(x)'
  BY <1>3, <1>4 DEF Holds
<1>6. ASSUME NEW d \in Customer, life[d] = "ACTIVE", Ahead(d) PROVE Ahead(d)'
  <2>1. \A v \in Replica : Works(v)' => Works(v) /\ tx'[v] = tx[v]
    BY <1>3 DEF Works, Process, ManifestAssumption
  <2> QED
    BY <1>2, <1>6, <2>1, AheadKept DEF topologyVars
<1> QED
  BY <1>2, <1>5, <1>6, QuietForget

\* The customer of another transaction that holds a row keeps what StaleAhead
\* speaks of.
LEMMA OtherStale ==
  ASSUME ManifestAssumption, TypeOK, TxInv, ForgetInv, UNCHANGED topologyVars,
         NEW c \in Customer, NEW p \in Process, tx'[p] = tx[p],
         Holds(p) => tx[p].customer # c,
         \A d \in Customer : d # c => life'[d] = life[d],
         \A d \in Customer : d # c /\ Ahead(d) => Ahead(d)'
  PROVE  StaleAhead(p)'
<1> SUFFICES ASSUME Holds(p)', ~Fresh(p)', life'[tx'[p].customer] = "ACTIVE"
             PROVE  Ahead(tx[p].customer)'
  BY DEF StaleAhead
<1>1. Holds(p)
  BY DEF Holds
<1>2. PICK d \in Customer : d = tx[p].customer
  BY <1>1, ProcessFacts
<1>3. ~Fresh(p) /\ d # c /\ life[d] = "ACTIVE"
  BY <1>1, <1>2, FreshKept
<1>4. Ahead(d)
  BY <1>1, <1>2, <1>3 DEF ForgetInv, StaleAhead
<1>5. Ahead(d)'
  BY <1>3, <1>4
<1> QED
  BY <1>2, <1>5

LEMMA CommitForget ==
  ASSUME ManifestAssumption, TypeOK, RowsInv, JobsInv, LifeInv, TxInv, ForgetInv,
         NEW w \in Replica, Commit(w)
  PROVE  ForgetInv'
<1>1. tx[w].pc = "locked" /\ w \in Process /\ Holds(w) /\ Works(w)
  BY DEF Commit, Process, Holds, Works
<1>2. PICK c \in Customer : c = tx[w].customer
  BY <1>1, ProcessFacts
<1>3. PICK j \in Revisions : j = tx[w].job
  BY <1>1, ProcessFacts DEF TxType
<1>4. tx[w].paid \in BOOLEAN
  BY <1>1, ProcessFacts DEF TxType
<1> DEFINE targets == TargetsOf(tx[w].nodes, FleetRoutes(FleetOf[c]))
           unexpired == tx[w].paid \/ paid[c]
<1>5. /\ UNCHANGED <<topologyVars, life, paid>>
      /\ holds' = IF life[c] # "ACTIVE" THEN holds
                  ELSE [holds EXCEPT ![c] = Materialized(targets, holds[c], unexpired)]
      /\ job' = [job EXCEPT ![j] = [status |-> "IN_PROGRESS", cursor |-> c, owner |-> w]]
      /\ late' = [late EXCEPT ![c] = 0]
  BY <1>2, <1>3 DEF Commit, TypeOK
<1>6. /\ \A p \in Process : p # w => tx'[p] = tx[p]
      /\ tx'[w] = Idle
  BY <1>1 DEF Commit, TypeOK, Process
<1>7. \A p \in Process : Works(p)' => Works(p) /\ tx'[p] = tx[p] /\ p # w
  BY <1>6 DEF Works, Idle
\* Ahead stays for everybody, but for c when his own job has come to him.
<1>8. ASSUME NEW d \in Customer, Ahead(d), j # revision \/ d # c PROVE Ahead(d)'
  <2>1. CASE j # revision
    <3>1. job'[revision] = job[revision]
      BY <1>5, <1>8, <2>1 DEF TypeOK, Ahead
    <3> QED
      BY <1>5, <1>7, <1>8, <3>1, AheadKept DEF topologyVars, Process
  <2>2. CASE j = revision /\ d # c
    <3>1. c < d
      <4>1. c <= d
        BY <1>1, <1>2, <1>3, <1>8, <2>2 DEF Ahead
      <4>2. c \in Nat /\ d \in Nat
        BY DEF ManifestAssumption
      <4> QED
        BY <2>2, <4>1, <4>2
    <3>2. job'[revision].status = "IN_PROGRESS" /\ job'[revision].cursor = c
      BY <1>5, <2>2 DEF TypeOK
    <3>3. \A v \in Replica : ~(Works(v)' /\ tx'[v].job = revision)
      BY <1>1, <1>3, <1>7, <2>2 DEF TxInv, Apart, Process
    <3> QED
      BY <1>5, <2>2, <3>1, <3>2, <3>3 DEF Ahead, Unfinished, topologyVars
  <2> QED
    BY <1>8, <2>1, <2>2
<1>9. Fresh(w) => targets = Wanted(c)
  BY <1>2 DEF Fresh, Wanted
<1>10. unexpired \in BOOLEAN
  BY <1>4 DEF TypeOK
<1> HIDE DEF targets
<1>11. Fresh(w) => ~Lagging(c)'
  <2> SUFFICES ASSUME Fresh(w), life[c] = "ACTIVE" PROVE ~Lagging(c)'
    BY <1>5 DEF Lagging
  <2> DEFINE new == Materialized(Wanted(c), holds[c], unexpired)
  <2>1. new \subseteq Wanted(c) /\ (unexpired => new = Wanted(c))
    BY <1>10, MaterializedIsWanted
  <2>2. holds'[c] = new
    BY <1>5, <1>9 DEF TypeOK
  <2>3. Wanted(c)' = Wanted(c)
    BY <1>5 DEF Wanted, TargetsOf, FleetNodes, FleetRoutes, topologyVars
  <2>4. paid'[c] = paid[c]
    BY <1>5
  <2> HIDE DEF new
  <2> QED
    BY <2>1, <2>2, <2>3, <2>4 DEF Lagging
<1>12. ~Fresh(w) /\ life[c] = "ACTIVE" => Ahead(c) /\ j # revision
  <2>1. TxOk(w)
    BY <1>1, ProcessFacts
  <2> QED
    BY <1>1, <1>2, <1>3, <2>1 DEF ForgetInv, StaleAhead, TxOk
<1>13. ASSUME NEW d \in Customer PROVE LagsAhead(d)'
  <2>1. CASE d = c
    <3>1. Lagging(c)' => life[c] = "ACTIVE"
      BY <1>5 DEF Lagging
    <3> QED
      BY <1>8, <1>11, <1>12, <2>1, <3>1 DEF LagsAhead
  <2>2. CASE d # c
    <3>1. holds'[d] = holds[d] /\ late'[d] = late[d]
      BY <1>5, <2>2 DEF TypeOK
    <3>2. Lagging(d)' => Lagging(d)
      BY <1>5, <3>1, LaggingKept
    <3> QED
      BY <1>5, <1>8, <2>2, <3>1, <3>2 DEF ForgetInv, LagsAhead, topologyVars
  <2> QED
    BY <2>1, <2>2
<1>14. ASSUME NEW p \in Process PROVE StaleAhead(p)'
  <2>1. CASE p = w
    BY <1>6, <2>1 DEF StaleAhead, Holds, Idle
  <2>2. CASE p # w
    <3>1. Holds(p) => tx[p].customer # c
      BY <1>1, <1>2, <2>2, ReleaseFacts
    <3>2. \A d \in Customer : d # c /\ Ahead(d) => Ahead(d)'
      BY <1>8
    <3> QED
      BY <1>5, <1>6, <2>2, <3>1, <3>2, OtherStale
  <2> QED
    BY <2>1, <2>2
<1> QED
  BY <1>13, <1>14 DEF ForgetInv

LEMMA FinishForget ==
  ASSUME ManifestAssumption, TypeOK, RowsInv, JobsInv, LifeInv, TxInv, ForgetInv,
         NEW p \in Caller, NEW renewed \in BOOLEAN, Finish(p, renewed)
  PROVE  ForgetInv'
<1>1. tx[p].pc = "applying" /\ p \in Process /\ Holds(p)
  BY DEF Finish, Process, Holds
<1>2. PICK c \in Customer : c = tx[p].customer
  BY <1>1, ProcessFacts
<1> DEFINE targets == TargetsOf(tx[p].nodes, FleetRoutes(FleetOf[c]))
<1>3. /\ UNCHANGED <<topologyVars, job>>
      /\ life' = [life EXCEPT ![c] = "ACTIVE"]
      /\ paid' = [paid EXCEPT ![c] = paid[c] \/ renewed]
      /\ holds' = [holds EXCEPT ![c] = Applied(targets, holds[c])]
      /\ late' = IF life[c] = "none" /\ tx[p].read < revision
                 THEN [late EXCEPT ![c] = revision] ELSE late
  BY <1>2 DEF Finish, TypeOK
<1>4. /\ \A x \in Process : x # p => tx'[x] = tx[x]
      /\ tx'[p] = Idle
  BY <1>1 DEF Finish, TypeOK, Process
<1>5. \A x \in Process : Works(x)' => Works(x) /\ tx'[x] = tx[x]
  BY <1>4 DEF Works, Idle
<1>6. ASSUME NEW d \in Customer, Ahead(d) PROVE Ahead(d)'
  BY <1>3, <1>5, <1>6, AheadKept DEF topologyVars, Process
<1>7. TxOk(p) /\ TxType(p)
  BY <1>1, ProcessFacts
<1>8. Fresh(p) => targets = Wanted(c)
  BY <1>2 DEF Fresh, Wanted
<1> HIDE DEF targets
<1>9. Wanted(c)' = Wanted(c)
  BY <1>3 DEF Wanted, TargetsOf, FleetNodes, FleetRoutes, topologyVars
\* Who had nothing wrong has everything now.
<1>10. ASSUME Fresh(p), holds[c] \subseteq Wanted(c) PROVE ~Lagging(c)'
  <2>1. Applied(Wanted(c), holds[c]) = Wanted(c)
    BY <1>10, AppliedIsWanted DEF RowsInv
  <2>2. holds'[c] = Wanted(c)
    BY <1>3, <1>8, <1>10, <2>1 DEF TypeOK
  <2> QED
    BY <1>9, <2>2 DEF Lagging
<1>11. LagsAhead(c)'
  <2>1. CASE life[c] = "none"
    <3>1. holds[c] = {}
      BY <2>1 DEF LifeInv
    <3>2. CASE tx[p].read < revision
      <4>1. late'[c] = revision'
        BY <1>3, <2>1, <3>2 DEF TypeOK, topologyVars
      <4> QED
        BY <4>1 DEF LagsAhead
    <3>3. CASE ~(tx[p].read < revision)
      <4>1. tx[p].read <= revision /\ tx[p].read \in Nat /\ revision \in Nat
        BY <1>1, <1>7, RevisionFacts DEF TxOk, TxType, TypeOK
      <4>2. Fresh(p)
        BY <1>1, <1>7, <3>3, <4>1 DEF TxOk
      <4> QED
        BY <1>10, <3>1, <4>2 DEF LagsAhead
    <3> QED
      BY <3>2, <3>3
  <2>2. CASE life[c] = "ACTIVE"
    <3>1. late'[c] = late[c] /\ revision' = revision
      BY <1>3, <2>2 DEF topologyVars
    <3>2. CASE ~Fresh(p)
      <4>1. Ahead(c)
        BY <1>1, <1>2, <2>2, <3>2 DEF ForgetInv, StaleAhead
      <4> QED
        BY <1>6, <4>1 DEF LagsAhead
    <3>3. CASE Fresh(p) /\ Lagging(c)
      <4>1. late[c] # revision => Ahead(c)
        BY <3>3 DEF ForgetInv, LagsAhead
      <4> QED
        BY <1>6, <3>1, <4>1 DEF LagsAhead
    <3>4. CASE Fresh(p) /\ ~Lagging(c)
      <4>1. holds[c] \subseteq Wanted(c)
        BY <2>2, <3>4 DEF Lagging
      <4> QED
        BY <1>10, <3>4, <4>1 DEF LagsAhead
    <3> QED
      BY <3>2, <3>3, <3>4
  <2>3. life[c] # "DELETING"
    BY <1>1, <1>2, <1>7 DEF TxOk
  <2> QED
    BY <2>1, <2>2, <2>3 DEF TypeOK
<1>12. ASSUME NEW d \in Customer, d # c PROVE LagsAhead(d)'
  <2>1. life'[d] = life[d] /\ paid'[d] = paid[d] /\ holds'[d] = holds[d] /\ late'[d] = late[d]
    BY <1>3, <1>12 DEF TypeOK
  <2>2. Lagging(d)' => Lagging(d)
    BY <1>3, <2>1, LaggingKept
  <2> QED
    BY <1>3, <1>6, <2>1, <2>2 DEF ForgetInv, LagsAhead, topologyVars
<1>13. ASSUME NEW x \in Process PROVE StaleAhead(x)'
  <2>1. CASE x = p
    BY <1>4, <2>1 DEF StaleAhead, Holds, Idle
  <2>2. CASE x # p
    <3>1. Holds(x) => tx[x].customer # c
      BY <1>1, <1>2, <2>2, ReleaseFacts
    <3>2. \A d \in Customer : d # c => life'[d] = life[d]
      BY <1>3 DEF TypeOK
    <3> QED
      BY <1>3, <1>4, <1>6, <2>2, <3>1, <3>2, OtherStale
  <2> QED
    BY <2>1, <2>2
<1> QED
  BY <1>11, <1>12, <1>13 DEF ForgetInv

LEMMA LifeStepForget ==
  ASSUME ManifestAssumption, TypeOK, JobsInv, LifeInv, TxInv, ForgetInv,
         NEW c \in Customer, Lapse(c) \/ Delete(c) \/ Erase(c)
  PROVE  ForgetInv'
<1>1. UNCHANGED <<topologyVars, job, lock, tx>>
  BY DEF Lapse, Delete, Erase
<1>2. ASSUME NEW d \in Customer, Ahead(d) PROVE Ahead(d)'
  BY <1>1, <1>2, AheadKept DEF topologyVars, Works
<1>3. ASSUME NEW d \in Customer PROVE LagsAhead(d)'
  <2>1. Lagging(d)' => Lagging(d) /\ late'[d] = late[d]
    <3>1. CASE d # c
      <4>1. life'[d] = life[d] /\ paid'[d] = paid[d] /\ holds'[d] = holds[d] /\ late'[d] = late[d]
        <5>1. CASE Lapse(c)
          BY <3>1, <5>1 DEF Lapse, TypeOK
        <5>2. CASE Delete(c)
          BY <3>1, <5>2 DEF Delete, TypeOK
        <5>3. CASE Erase(c)
          BY <3>1, <5>3 DEF Erase, TypeOK
        <5> QED
          BY <5>1, <5>2, <5>3
      <4> QED
        BY <1>1, <4>1, LaggingKept
    <3>2. CASE d = c /\ Lapse(c)
      <4>1. life' = life /\ holds' = holds /\ late' = late /\ life[d] = "ACTIVE" /\ paid[d]
        BY <3>2 DEF Lapse
      <4>2. paid'[d] = FALSE
        BY <3>2 DEF Lapse, TypeOK
      <4>3. Wanted(d)' = Wanted(d)
        BY <1>1 DEF Wanted, TargetsOf, FleetNodes, FleetRoutes, topologyVars
      <4>4. Lagging(d)' => ~(holds[d] \subseteq Wanted(d))
        BY <4>1, <4>2, <4>3 DEF Lagging
      <4>5. ~(holds[d] \subseteq Wanted(d)) => Lagging(d)
        BY <4>1 DEF Lagging
      <4> QED
        BY <4>1, <4>4, <4>5
    <3>3. CASE d = c /\ (Delete(c) \/ Erase(c))
      <4>1. life'[d] # "ACTIVE"
        BY <3>3 DEF Delete, Erase, TypeOK
      <4> QED
        BY <4>1 DEF Lagging
    <3> QED
      BY <3>1, <3>2, <3>3
  <2> QED
    BY <1>1, <1>2, <2>1 DEF ForgetInv, LagsAhead, topologyVars
<1>4. ASSUME NEW p \in Process PROVE StaleAhead(p)'
  <2> SUFFICES ASSUME Holds(p)', ~Fresh(p)', life'[tx'[p].customer] = "ACTIVE"
               PROVE  Ahead(tx[p].customer)'
    BY DEF StaleAhead
  <2>1. Holds(p)
    BY <1>1 DEF Holds
  <2>2. PICK d \in Customer : d = tx[p].customer
    BY <2>1, ProcessFacts
  <2>3. life'[d] = "ACTIVE" => life[d] = "ACTIVE"
    <3>1. CASE Lapse(c)
      BY <3>1 DEF Lapse
    <3>2. CASE Delete(c)
      BY <3>2 DEF Delete, TypeOK
    <3>3. CASE Erase(c)
      BY <3>3 DEF Erase, TypeOK
    <3> QED
      BY <3>1, <3>2, <3>3
  <2>4. ~Fresh(p) /\ life[d] = "ACTIVE"
    BY <1>1, <2>2, <2>3, FreshKept
  <2>5. Ahead(d)
    BY <2>1, <2>2, <2>4 DEF ForgetInv, StaleAhead
  <2>6. Ahead(d)'
    BY <1>2, <2>5
  <2> QED
    BY <1>1, <2>2, <2>6
<1> QED
  BY <1>3, <1>4 DEF ForgetInv

\* The inductive invariant.
IInv == TypeOK /\ RowsInv /\ JobsInv /\ LifeInv /\ TxInv /\ ForgetInv

LEMMA InitInv ==
  ASSUME ManifestAssumption, Init
  PROVE  IInv
<1>1. \A p \in Process : tx[p] = Idle
  BY DEF Init, Process
<1>2. \A p \in Process : ~Works(p) /\ ~Holds(p) /\ tx[p].pc # "applying" /\ tx[p].pc # "locked"
  BY <1>1 DEF Works, Holds, Idle
<1>3. TxInv
  BY <1>2 DEF TxInv, TxOk, Apart, Process
<1>4. \A c \in Customer : life[c] = "none" /\ holds[c] = {}
  BY DEF Init
<1>5. ForgetInv
  BY <1>2, <1>4 DEF ForgetInv, LagsAhead, StaleAhead, Lagging
<1>6. LifeInv
  BY <1>4 DEF Init, LifeInv
<1>7. JobsInv
  BY DEF Init, JobsInv
<1> QED
  BY <1>3, <1>5, <1>6, <1>7, InitType, InitRows DEF IInv

LEMMA StepForget ==
  ASSUME ManifestAssumption, TypeOK, RowsInv, JobsInv, LifeInv, TxInv, ForgetInv, Step
  PROVE  ForgetInv'
  BY IngestForget, ClaimForget, CompleteForget, LockForget, CommitForget, FaultForget,
     LeaseExpiresForget, ApplyForget, FinishForget, LifeStepForget DEF Step

LEMMA StutterTx ==
  ASSUME ManifestAssumption, IInv, UNCHANGED vars
  PROVE  IInv'
<1>1. TypeOK' /\ RowsInv'
  BY StutterType, KeptRows DEF IInv, vars
<1>2. JobsInv' /\ LifeInv'
  BY DEF IInv, JobsInv, LifeInv, NoJob, vars, topologyVars, customerVars
<1>3. TxInv'
  BY QuietTx DEF IInv, vars, topologyVars, customerVars
<1>4. ForgetInv'
  <2>1. \A c \in Customer : Ahead(c) => Ahead(c)'
    BY AheadKept DEF vars, topologyVars, Works, Unfinished, Ahead
  <2>2. \A p \in Process : Holds(p)' => tx'[p] = tx[p] /\ Holds(p)
    BY DEF Holds, vars
  <2> QED
    BY <2>1, <2>2, QuietForget DEF IInv, vars, customerVars
<1> QED
  BY <1>1, <1>2, <1>3, <1>4 DEF IInv

\* The inductive invariant holds in every state: the types, the projection and its
\* keys, the jobs of revisions not yet taken, the lives of customers, what each
\* transaction has read and holds, and that nobody lags behind the job's back.
THEOREM Inductive ==
  ASSUME ManifestAssumption
  PROVE  Spec => []IInv
<1>1. Init => IInv
  BY InitInv
<1>2. IInv /\ [Next]_vars => IInv'
  <2> SUFFICES ASSUME IInv, [Next]_vars PROVE IInv'
    OBVIOUS
  <2>1. CASE Next
    <3>1. Step
      BY <2>1, NextIsStep
    <3> QED
      BY <3>1, StepType, StepRows, StepTx, StepForget DEF IInv
  <2>2. CASE UNCHANGED vars
    BY <2>2, StutterTx
  <2> QED
    BY <2>1, <2>2
<1> QED
  BY <1>1, <1>2, PTL DEF Spec

\* Whoever differs from the newest topology (but for the named exception) still
\* has the job of the newest manifest ahead of him, for any number of replicas,
\* callers, customers and manifests and any order of their steps.
THEOREM NobodyIsForgotten ==
  ASSUME ManifestAssumption
  PROVE  Spec => []NothingForgotten
<1>1. IInv => NothingForgotten
  BY DEF IInv, ForgetInv, LagsAhead, Ahead, NothingForgotten
<1> QED
  BY <1>1, Inductive, PTL

=============================================================================
