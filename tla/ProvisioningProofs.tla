------------------------- MODULE ProvisioningProofs -------------------------
(***************************************************************************)
(* Delivery implements Provisioning: every step of a worker, a reconciler, *)
(* an agent or a writer is a step of the abstract specification, or none.  *)
(***************************************************************************)
EXTENDS DeliveryProofs

-----------------------------------------------------------------------------
(* What the abstract specification sees. *)

\* Steps that leave the rows, the operations and the agents alone are none.
LEMMA Unseen ==
  ASSUME UNCHANGED <<current, version, goal, applyState, status, users, reached>>
  PROVE  UNCHANGED Provision!vars
BY DEF Provision!vars, Provision!askedVars, Provision!claimVars, Provision!nodeVars,
       Outcomes, Journals, ClaimOf, Journal

LEMMA SameOutcomes ==
  ASSUME \A a \in Access : applyState'[a] = applyState[a]
  PROVE  UNCHANGED Outcomes
BY DEF Outcomes, ClaimOf

LEMMA SameJournals ==
  ASSUME \A a \in Access, v \in Version :
           \/ status'[a][v] = status[a][v]
           \/ status[a][v] \in Open /\ status'[a][v] \in Open
  PROVE  UNCHANGED Journals
BY DEF Journals, Journal

LEMMA Unfinished ==
  ASSUME TypeOK
  PROVE  \A a \in Access :
           Provision!Unfinished(a) = {v \in Version : status[a][v] \in Open}
<1> SUFFICES ASSUME NEW a \in Access, NEW v \in Version
             PROVE  Journals[a][v] = "OPEN" <=> status[a][v] \in Open
  BY DEF Provision!Unfinished
<1>1. status[a][v] \in Open \cup Terminal \cup {"NONE"}
  BY DEF TypeOK, OpStatus
<1>2. Journals[a][v] = Journal(a, v)
  BY DEF Journals
<1> QED
  BY <1>1, <1>2 DEF Journal, Terminal

-----------------------------------------------------------------------------
(* Writers. *)

\* A writer issues no operation only if it asks for nothing and there is nobody
\* to tell.
LEMMA SilentAsks ==
  ASSUME TypeOK, "retire" \notin Events, [Next]_vars, Writes
  PROVE  \E b \in Access, d \in Desired, i \in BOOLEAN :
           /\ Rewrite(b, d, i)
           /\ ~i => d = Absent /\ (version[b] = 0 \/ ~current[EntryNode[b]])
<1>0. /\ egress \in [Access -> Config] /\ entitled \in [Access -> BOOLEAN]
      /\ EntryNode \in [Access -> Node] /\ current \in [Node -> BOOLEAN]
      /\ \A c \in Config : c \in Desired
      /\ Absent \in Desired
  BY DeliveryAssumption DEF TypeOK, Desired
<1> DEFINE Silent(b, d, i) ==
             ~i => d = Absent /\ (version[b] = 0 \/ ~current[EntryNode[b]])
<1> SUFFICES \E b \in Access, d \in Desired, i \in BOOLEAN :
               Rewrite(b, d, i) /\ Silent(b, d, i)
  OBVIOUS
<1>1. ASSUME NEW b \in Access, Insert(b)
      PROVE  \E d \in Desired, i \in BOOLEAN : Rewrite(b, d, i) /\ Silent(b, d, i)
  <2>1. entitled[b] \in BOOLEAN /\ egress[b] \in Desired
    BY <1>0
  <2>2. CASE entitled[b] = TRUE
    BY <1>1, <2>1, <2>2 DEF Insert
  <2>3. CASE entitled[b] = FALSE
    BY <1>0, <1>1, <2>3 DEF Insert
  <2> QED
    BY <2>1, <2>2, <2>3
<1>2. ASSUME NEW b \in Access, Enable(b) \/ Exhaust(b) \/ Expire(b)
      PROVE  \E d \in Desired, i \in BOOLEAN : Rewrite(b, d, i) /\ Silent(b, d, i)
  BY <1>0, <1>2 DEF Enable, Exhaust, Expire
<1>3. ASSUME NEW b \in Access, ForceAbsent(b)
      PROVE  \E d \in Desired, i \in BOOLEAN : Rewrite(b, d, i) /\ Silent(b, d, i)
  BY <1>0, <1>3 DEF ForceAbsent
<1>4. ASSUME NEW b \in Access, Repoint(b)
      PROVE  \E d \in Desired, i \in BOOLEAN : Rewrite(b, d, i) /\ Silent(b, d, i)
  BY <1>0, <1>4 DEF Repoint
<1>5. ASSUME NEW b \in Access, Retire(b)
      PROVE  FALSE
  BY <1>5 DEF Retire, Spend
<1>6. \E b \in Access : \/ Insert(b) \/ Enable(b) \/ Exhaust(b) \/ Expire(b)
                        \/ ForceAbsent(b) \/ Repoint(b) \/ Retire(b)
  <2>1. PICK b \in Access, d \in Desired, i \in BOOLEAN : Rewrite(b, d, i)
    BY DEF Writes
  <2>2. version' # version
    <3>1. version[b] \in Nat
      BY DeliveryAssumption DEF TypeOK
    <3> QED
      BY <2>1, <3>1 DEF Rewrite, TypeOK
  <2>3. CASE UNCHANGED vars
    BY <2>2, <2>3 DEF vars, rowVars
  <2>4. CASE Customer \/ \E a \in Access : Expire(a)
    BY <2>2, <2>4 DEF Customer, RenewInTime, Lapse
  <2>5. CASE \E w \in Worker : Dispatch(w)
    BY <2>2, <2>5 DEF Dispatch, BeginReap, EndReap, LeaseNext, Deliver, Succeed, Refuse,
                      GiveUp, Record, Crash, rowVars
  <2>6. CASE \E r \in Reconciler : Reconcile(r)
    BY <2>2, <2>6 DEF Reconcile, ClaimSnapshot, ClaimLost, ClaimCommit, Observe,
                      Reconciled, ReconcileFails, Accept, Release, CrashReconciler, rowVars
  <2>7. CASE (\E n \in Node : NodeStep(n)) \/ ArriveLate
    BY <2>2, <2>7 DEF NodeStep, Drop, Restore, Lose, PullReports,
                      ReconcileLeaseExpires, ArriveLate, rowVars
  <2> QED
    BY <2>3, <2>4, <2>5, <2>6, <2>7 DEF Next
<1> QED
  <2> HIDE DEF Silent
  <2> QED
    BY <1>1, <1>2, <1>3, <1>4, <1>5, <1>6

LEMMA RewriteAsks ==
  ASSUME TypeOK, Grounded, NEW b \in Access, NEW d \in Desired, NEW i \in BOOLEAN,
         Rewrite(b, d, i),
         ~i => d = Absent /\ (version[b] = 0 \/ ~current[EntryNode[b]])
  PROVE  \E s \in BOOLEAN, o \in SUBSET Provision!Unfinished(b) :
           Provision!Ask(b, d, s, o)
<1> DEFINE s == ~i
           o == {x \in Version : status[b][x] \in Waiting}
           v == version[b] + 1
<1>1. v \in Version /\ v > version[b] /\ version' = [version EXCEPT ![b] = v]
  <2>1. version[b] \in Nat
    BY DeliveryAssumption DEF TypeOK
  <2> QED
    BY <2>1, DeliveryAssumption DEF Rewrite, Version
<1>2. s \in BOOLEAN /\ o \in SUBSET Provision!Unfinished(b)
  <2>1. o \subseteq {x \in Version : status[b][x] \in Open}
    BY DEF Open
  <2>2. Provision!Unfinished(b) = {x \in Version : status[b][x] \in Open}
    BY Unfinished
  <2>3. s \in BOOLEAN
    OBVIOUS
  <2> HIDE DEF s, o
  <2> QED
    BY <2>1, <2>2, <2>3
<1>3. Outcomes' = [Outcomes EXCEPT ![b] = IF s THEN "APPLIED" ELSE "OPEN"]
  <2>1. applyState' = [applyState EXCEPT ![b] = IF i THEN "PENDING" ELSE "APPLIED"]
    BY DEF Rewrite
  <2>2. \A a \in Access : applyState'[a] = IF a # b THEN applyState[a]
                                           ELSE IF i THEN "PENDING" ELSE "APPLIED"
    BY <2>1 DEF TypeOK
  <2> QED
    BY <2>2 DEF Outcomes, ClaimOf
<1>4. Journals' = [Journals EXCEPT ![b] = [x \in Version |->
                     IF x = v THEN IF s THEN "NONE" ELSE "OPEN"
                     ELSE IF x \in o THEN "SUPERSEDED"
                     ELSE @[x]]]
  <2>1. status[b][v] = "NONE"
    BY <1>1 DEF Grounded
  <2>2. \A x \in Version : status'[b][x] =
          IF x = v /\ i THEN "PENDING" ELSE Overtake(status[b][x])
    BY DEF Rewrite, TypeOK
  <2>3. \A a \in Access \ {b} : status'[a] = status[a]
    BY DEF Rewrite, TypeOK
  <2>4. \A x \in Version : Journal(b, x)' =
          IF x = v THEN IF s THEN "NONE" ELSE "OPEN"
          ELSE IF x \in o THEN "SUPERSEDED"
          ELSE Journal(b, x)
    BY <2>1, <2>2 DEF Journal, Overtake, Open, Waiting
  <2>5. \A a \in Access \ {b}, x \in Version : Journal(a, x)' = Journal(a, x)
    BY <2>3 DEF Journal
  <2> DEFINE J(x) == IF x = v THEN IF s THEN "NONE" ELSE "OPEN"
                     ELSE IF x \in o THEN "SUPERSEDED"
                     ELSE Journal(b, x)
  <2>6. Journals' = [a \in Access |-> [x \in Version |-> Journal(a, x)']]
    BY DEF Journals
  <2>7. [x \in Version |-> Journal(b, x)'] = [x \in Version |-> J(x)]
    BY <2>4
  <2>8. \A a \in Access \ {b} : [x \in Version |-> Journal(a, x)']
                                  = [x \in Version |-> Journal(a, x)]
    BY <2>5
  <2>9. Journals[b] = [x \in Version |-> Journal(b, x)]
    BY DEF Journals
  <2>10. [x \in Version |-> J(x)] = [x \in Version |->
           IF x = v THEN IF s THEN "NONE" ELSE "OPEN"
           ELSE IF x \in o THEN "SUPERSEDED"
           ELSE Journals[b][x]]
    BY <2>9
  <2> QED
    BY <2>6, <2>7, <2>8, <2>10 DEF Journals
<1>5. Provision!Ask(b, d, s, o)
  <2>1. s => d = Absent /\ (version[b] = 0 \/ ~current[EntryNode[b]])
    OBVIOUS
  <2>2. o \subseteq Provision!Unfinished(b)
    BY <1>2
  <2>3. goal' = [goal EXCEPT ![b][v] = d] /\ UNCHANGED <<current, users, reached>>
    BY DEF Rewrite, agentVars
  <2> HIDE DEF s, o
  <2> QED
    BY <1>1, <1>3, <1>4, <2>1, <2>2, <2>3 DEF Provision!Ask, Provision!nodeVars
<1> QED
  <2> HIDE DEF s, o
  <2> QED
    BY <1>2, <1>5

-----------------------------------------------------------------------------
(* The agents. *)

LEMMA OperationExecutes ==
  ASSUME TypeOK, Grounded, Orderly, NEW w \in Worker, task[w].pc = "calling",
         Execute(task[w].access, task[w].version),
         UNCHANGED <<current, version, goal, applyState, status>>
  PROVE  \E some \in SUBSET Access, v \in [Access -> {0} \cup Version] :
           Provision!Execute(some, v)
<1> DEFINE a == task[w].access
           some == {a}
           v == [x \in Access |-> task[w].version]
<1>1. a \in Access /\ task[w].version \in Version
  BY TypeTask
<1>2. some \in SUBSET Access /\ v \in [Access -> {0} \cup Version]
  BY <1>1
<1>3. /\ version[a] \in Nat /\ reached[a] \in Nat /\ task[w].version \in Nat
      /\ users \in [Access -> 0 .. MaxVersion] /\ reached \in [Access -> 0 .. MaxVersion]
  BY <1>1, DeliveryAssumption DEF TypeOK, Version
<1>4. reached[a] <= task[w].version
  BY DEF Orderly, TaskAhead
<1>5. task[w].version <= version[a]
  <2>1. status[a][task[w].version] # "NONE"
    BY DEF Grounded, Active
  <2> QED
    BY <1>1, <1>3, <2>1 DEF Grounded
<1>6. users' = [x \in Access |-> IF x \in some THEN v[x] ELSE users[x]]
  BY <1>1, <1>3 DEF Execute
<1>7. reached' = [x \in Access |-> IF x \in some THEN v[x] ELSE reached[x]]
  <2>1. reached' = [reached EXCEPT ![a] = task[w].version]
    <3>1. (IF task[w].version > reached[a] THEN task[w].version ELSE reached[a])
            = task[w].version
      BY <1>3, <1>4
    <3> QED
      BY <3>1 DEF Execute
  <2>2. \A x \in Access : reached'[x] = IF x \in some THEN v[x] ELSE reached[x]
    BY <1>1, <1>3, <2>1
  <2>3. reached' = [x \in Access |-> reached'[x]]
    BY <1>3, <2>1
  <2> HIDE DEF some, v
  <2> QED
    BY <2>2, <2>3
<1>8. UNCHANGED Outcomes /\ UNCHANGED Journals
  BY SameOutcomes, SameJournals
<1>9. \A x \in some : reached[x] <= v[x] /\ v[x] <= version[x]
  BY <1>1, <1>4, <1>5
<1> QED
  <2> HIDE DEF some, v
  <2> QED
    BY <1>2, <1>6, <1>7, <1>8, <1>9
       DEF Provision!Execute, Provision!askedVars, Provision!claimVars

LEMMA FullSetExecutes ==
  ASSUME TypeOK, Orderly, SetWhole, NEW r \in Reconciler, rec[r].pc = "calling",
         NEW part \in SUBSET On(rec[r].node),
         ExecuteSet(rec[r].node, rec[r].set, part),
         UNCHANGED <<current, version, goal, applyState, status>>
  PROVE  \E some \in SUBSET Access, v \in [Access -> {0} \cup Version] :
           Provision!Execute(some, v)
<1> DEFINE v == rec[r].set
<1>1. HasClaim(r) /\ v \in FullSet /\ part \in SUBSET Access
  BY TypeRec DEF HasClaim, On
<1>2. v \in [Access -> {0} \cup Version]
  <2>1. 0 .. MaxVersion \subseteq {0} \cup Version
    BY DeliveryAssumption DEF Version
  <2> QED
    BY <1>1, <2>1 DEF FullSet
<1>3. \A x \in part : reached[x] <= v[x] /\ v[x] <= version[x]
  BY <1>1 DEF SetWhole, Orderly, SetInPast
<1>4. users' = [x \in Access |-> IF x \in part THEN v[x] ELSE users[x]]
  BY DEF ExecuteSet
<1>5. reached' = [x \in Access |-> IF x \in part THEN v[x] ELSE reached[x]]
  <2>1. \A x \in part : reached[x] \in Nat /\ v[x] \in Nat
    BY <1>1, SetOfNats, DeliveryAssumption DEF TypeOK
  <2>2. \A x \in part : (IF v[x] > reached[x] THEN v[x] ELSE reached[x]) = v[x]
    BY <1>3, <2>1
  <2> QED
    BY <2>2 DEF ExecuteSet
<1>6. UNCHANGED Outcomes /\ UNCHANGED Journals
  BY SameOutcomes, SameJournals
<1> QED
  <2> HIDE DEF v
  <2> QED
    BY <1>1, <1>2, <1>3, <1>4, <1>5, <1>6
       DEF Provision!Execute, Provision!askedVars, Provision!claimVars

LEMMA NodeMaps ==
  ASSUME NEW n \in Node, NodeStep(n)
  PROVE  Provision!Manifest(n) \/ Provision!Lose(n) \/ UNCHANGED Provision!vars
<1>1. CASE Drop(n) \/ Restore(n)
  <2>1. UNCHANGED Outcomes /\ UNCHANGED Journals
    BY <1>1, SameOutcomes, SameJournals DEF Drop, Restore, rowVars
  <2>2. current' = [current EXCEPT ![n] = ~@]
    BY <1>1 DEF Drop, Restore
  <2> QED
    BY <1>1, <2>1, <2>2
       DEF Drop, Restore, Provision!Manifest, Provision!claimVars, Provision!nodeVars,
           rowVars, agentVars
<1>2. CASE Lose(n)
  <2>1. UNCHANGED Outcomes /\ UNCHANGED Journals
    BY <1>2, SameOutcomes, SameJournals DEF Lose, rowVars
  <2>2. users' = [a \in Access |-> IF EntryNode[a] = n THEN 0 ELSE users[a]]
    BY <1>2 DEF Lose, On
  <2> QED
    BY <1>2, <2>1, <2>2
       DEF Lose, Provision!Lose, Provision!askedVars, Provision!claimVars, rowVars, nodeVars
<1>3. CASE PullReports(n) \/ ReconcileLeaseExpires(n)
  BY <1>3, Unseen DEF PullReports, ReconcileLeaseExpires, rowVars, agentVars
<1> QED
  BY <1>1, <1>2, <1>3 DEF NodeStep

-----------------------------------------------------------------------------
(* The operations. *)

\* An operation of the newest version that may still end leaves the row
\* unconfirmed, and a version without an operation counts as applied.
OpenIsUnconfirmed ==
  \A a \in Access : version[a] > 0 =>
    /\ status[a][version[a]] \in Open => applyState[a] \in {"PENDING", "RETRYING"}
    /\ status[a][version[a]] = "NONE" => applyState[a] = "APPLIED"

LEMMA OpenStep ==
  ASSUME TypeOK, Grounded, ClaimKeepsOut, OpenIsUnconfirmed, [Next]_vars
  PROVE  OpenIsUnconfirmed'
<1> DEFINE Fine(a) ==
      /\ status[a][version[a]] \in Open => applyState[a] \in {"PENDING", "RETRYING"}
      /\ status[a][version[a]] = "NONE" => applyState[a] = "APPLIED"
<1> SUFFICES ASSUME NEW a \in Access, version'[a] > 0
             PROVE  Fine(a)'
  BY DEF OpenIsUnconfirmed
<1> USE DEF Open, Waiting
<1>0. version[a] \in Nat /\ version[a] <= MaxVersion
  BY DeliveryAssumption DEF TypeOK
<1>a. version[a] > 0 => version[a] \in Version /\ Fine(a)
  BY <1>0, DeliveryAssumption DEF OpenIsUnconfirmed, Version
<1>1. CASE Writes
  <2>1. PICK b \in Access, d \in Desired, i \in BOOLEAN : Rewrite(b, d, i)
    BY <1>1 DEF Writes
  <2>2. CASE a # b
    <3>1. version'[a] = version[a] /\ status'[a] = status[a] /\ applyState'[a] = applyState[a]
      BY <2>1, <2>2, RewriteMoves
    <3> QED
      BY <1>a, <3>1
  <2>3. CASE a = b
    <3>1. version'[a] = version[a] + 1 /\ version'[a] \in Version
      BY <2>1, <2>3, RewriteMoves
    <3>2. status[a][version'[a]] = "NONE"
      BY <1>0, <3>1 DEF Grounded
    <3>3. status'[a][version'[a]] = IF i THEN "PENDING" ELSE "NONE"
      BY <2>1, <2>3, <3>1, <3>2 DEF Rewrite, TypeOK, Overtake
    <3>4. applyState'[a] = IF i THEN "PENDING" ELSE "APPLIED"
      BY <2>1, <2>3 DEF Rewrite, TypeOK
    <3> QED
      BY <3>3, <3>4
  <2> QED
    BY <2>2, <2>3
<1>2. ASSUME UNCHANGED version, applyState'[a] = applyState[a],
             version[a] \in Version =>
               \/ status'[a][version[a]] = status[a][version[a]]
               \/ status[a][version[a]] \in Open
                    /\ status'[a][version[a]] # "NONE"
      PROVE  Fine(a)'
  BY <1>a, <1>2
<1>3. ASSUME NEW w \in Worker, Record(w)
      PROVE  Fine(a)'
  <2> DEFINE b == task[w].access
             v == task[w].version
             o == task[w].outcome
  <2>1. b \in Access /\ v \in Version /\ o \in Outcome /\ UNCHANGED version
    BY <1>3, TypeTask DEF Record
  <2>2. status' = [status EXCEPT ![b][v] = PlannedStatus(o, Fresh(b, v))]
    BY <1>3 DEF Record, SetStatus
  <2>3. applyState' = [applyState EXCEPT ![b] =
                         IF Fresh(b, v) THEN PlannedState(o) ELSE @]
    BY <1>3 DEF Record
  <2>4. CASE a = b /\ v = version[a]
    <3>1. status'[a][version'[a]] = PlannedStatus(o, TRUE)
      BY <2>1, <2>2, <2>4 DEF TypeOK, Fresh
    <3>2. applyState'[a] = PlannedState(o)
      BY <2>1, <2>3, <2>4 DEF TypeOK, Fresh
    <3> QED
      BY <2>1, <3>1, <3>2 DEF Outcome, PlannedStatus, PlannedState
  <2>5. CASE ~(a = b /\ v = version[a])
    <3>1. applyState'[a] = applyState[a]
      BY <2>1, <2>3, <2>5 DEF Fresh, TypeOK
    <3>2. version[a] \in Version => status'[a][version[a]] = status[a][version[a]]
      BY <2>1, <2>2, <2>5 DEF TypeOK
    <3> QED
      BY <1>2, <2>1, <3>1, <3>2
  <2> QED
    BY <2>4, <2>5
<1>4. ASSUME NEW r \in Reconciler, Accept(r)
      PROVE  Fine(a)'
  <2>1. UNCHANGED version /\ version[a] \in Version /\ Fine(a)
    BY <1>4, <1>a, AcceptStatus
  <2>2. CASE Acceptable(r) /\ a \in On(rec[r].node)
    <3>1. status[a][version[a]] # "IN_FLIGHT"
      BY <1>4, <2>1, <2>2 DEF Accept, ClaimKeepsOut, HasClaim, InFlightOn
    <3>2. status'[a][version[a]] =
            IF status[a][version[a]] \in {"PENDING", "RETRY_WAIT"} THEN "SUCCEEDED"
            ELSE status[a][version[a]]
      BY <1>4, <2>1, <2>2 DEF Accept
    <3>3. applyState'[a] \in {"APPLIED", applyState[a]}
      BY <1>4, <2>2 DEF Accept
    <3> QED
      BY <2>1, <3>1, <3>2, <3>3
  <2>3. CASE ~(Acceptable(r) /\ a \in On(rec[r].node))
    <3>1. applyState'[a] = applyState[a]
      BY <1>4, <2>3 DEF Accept, Satisfied, TypeOK
    <3>2. status'[a][version[a]] = status[a][version[a]]
      BY <1>4, <2>1, <2>3 DEF Accept, TypeOK
    <3> QED
      BY <2>1, <3>1, <3>2
  <2> QED
    BY <2>2, <2>3
<1>5. ASSUME NEW w \in Worker, EndReap(w), UNCHANGED applyState
      PROVE  Fine(a)'
  BY <1>2, <1>5, EndReapStatus DEF LeaseExpired
<1>6. CASE /\ UNCHANGED <<version, status, applyState>>
  BY <1>2, <1>6
<1>7. ASSUME NEW w \in Worker, Works(w), UNCHANGED applyState
      PROVE  Fine(a)'
  BY <1>2, <1>7, WorkKeeps
<1>8. ASSUME NEW w \in Worker, NEW b \in Access, LeaseNext(w, b), UNCHANGED applyState
      PROVE  Fine(a)'
  BY <1>2, <1>8, LeaseNextStatus
<1> QED
  <2> HIDE DEF Fine
  <2> QED
    BY <1>1, <1>3, <1>4, <1>5, <1>6, <1>7, <1>8, Classes, ApplyStateMoves

\* An operation that goes from one open state to another.
LEMMA JournalKeeps ==
  ASSUME TypeOK, NEW b \in Access, NEW x \in Version, NEW s \in Open,
         status[b][x] \in Open, SetStatus(b, x, s)
  PROVE  UNCHANGED Journals
<1>1. \A a \in Access, v \in Version :
        status'[a][v] = IF a = b /\ v = x THEN s ELSE status[a][v]
  BY DEF SetStatus, TypeOK
<1> QED
  BY <1>1, SameJournals

LEMMA JournalSet ==
  ASSUME TypeOK, NEW b \in Access, NEW x \in Version, NEW s \in Terminal,
         SetStatus(b, x, s)
  PROVE  Journals' = [Journals EXCEPT ![b][x] = s]
<1>1. s \notin Open
  BY DEF Terminal, Open, Waiting
<1>2. \A a \in Access, v \in Version :
        status'[a][v] = IF a = b /\ v = x THEN s ELSE status[a][v]
  BY DEF SetStatus, TypeOK
<1>3. \A a \in Access, v \in Version :
        Journal(a, v)' = IF a = b /\ v = x THEN s ELSE Journal(a, v)
  BY <1>1, <1>2 DEF Journal
<1>4. Journals' = [a \in Access |-> [v \in Version |-> Journal(a, v)']]
  BY DEF Journals
<1>5. \A a \in Access \ {b} :
        [v \in Version |-> Journal(a, v)'] = [v \in Version |-> Journal(a, v)]
  BY <1>3
<1>6. [v \in Version |-> Journal(b, v)']
        = [[v \in Version |-> Journal(b, v)] EXCEPT ![x] = s]
  BY <1>3
<1> QED
  BY <1>4, <1>5, <1>6 DEF Journals

LEMMA ReapMaps ==
  ASSUME TypeOK, SeenInPast, NEW w \in Worker, EndReap(w)
  PROVE  (\E a \in Access, v \in Version : Provision!Abandon(a, v))
           \/ UNCHANGED Provision!vars
<1> DEFINE a == task[w].access
           v == task[w].version
<1>1. a \in Access /\ v \in Version /\ task[w].seen \in Nat
  <2>1. task[w] \in Task /\ task[w].pc = "reaping"
    BY DEF EndReap, TypeOK
  <2>2. a \in Access /\ v \in Version /\ task[w].seen \in 0 .. MaxVersion
    BY <2>1, TaskFields
  <2> QED
    BY <2>2, DeliveryAssumption
<1>2. UNCHANGED <<current, version, goal, applyState, users, reached>>
  BY DEF EndReap, nodeVars, agentVars
<1>3. CASE LeaseExpired(a, v) /\ task[w].seen > v
  <2>1. SetStatus(a, v, "SUPERSEDED")
    BY <1>3 DEF EndReap
  <2>2. Journals' = [Journals EXCEPT ![a][v] = "SUPERSEDED"]
    BY <1>1, <2>1, JournalSet DEF Terminal
  <2>3. v \in Provision!Unfinished(a)
    BY <1>1, <1>3, Unfinished DEF LeaseExpired, Open
  <2>4. v < version[a]
    <3>1. task[w].seen <= version[a]
      BY DEF SeenInPast, EndReap
    <3>2. v \in Nat /\ version[a] \in Nat
      BY <1>1, DeliveryAssumption DEF TypeOK, Version
    <3> QED
      BY <1>1, <1>3, <3>1, <3>2
  <2>5. UNCHANGED Outcomes
    BY <1>2, SameOutcomes
  <2>6. Provision!Abandon(a, v)
    <3> HIDE DEF a, v
    <3> QED
      BY <1>2, <2>2, <2>3, <2>4, <2>5
         DEF Provision!Abandon, Provision!askedVars, Provision!nodeVars
  <2> QED
    BY <1>1, <2>6
<1>4. CASE ~(LeaseExpired(a, v) /\ task[w].seen > v)
  <2>1. UNCHANGED Journals
    <3>1. CASE LeaseExpired(a, v)
      <4>1. SetStatus(a, v, "RETRY_WAIT") /\ status[a][v] \in Open
        BY <1>4, <3>1 DEF EndReap, LeaseExpired, Open
      <4>2. "RETRY_WAIT" \in Open
        BY DEF Open, Waiting
      <4> HIDE DEF a, v
      <4> QED
        BY <1>1, <4>1, <4>2, JournalKeeps
    <3>2. CASE ~LeaseExpired(a, v)
      BY <3>2, SameJournals DEF EndReap
    <3> QED
      BY <3>1, <3>2
  <2> QED
    BY <1>2, <2>1, SameOutcomes
       DEF Provision!vars, Provision!askedVars, Provision!claimVars, Provision!nodeVars
<1> QED
  BY <1>3, <1>4

LEMMA LeaseMaps ==
  ASSUME TypeOK, NEW w \in Worker, NEW b \in Access, LeaseNext(w, b)
  PROVE  UNCHANGED Provision!vars
<1>1. UNCHANGED <<current, version, goal, applyState, users, reached>>
  BY DEF LeaseNext, nodeVars, agentVars
<1>2. UNCHANGED Journals
  <2>1. PICK v \in Version : status[b][v] \in Waiting /\ SetStatus(b, v, "IN_FLIGHT")
    BY DEF LeaseNext
  <2>2. status[b][v] \in Open /\ "IN_FLIGHT" \in Open
    BY <2>1 DEF Open
  <2> QED
    BY <2>1, <2>2, JournalKeeps
<1> QED
  BY <1>1, <1>2, SameOutcomes
     DEF Provision!vars, Provision!askedVars, Provision!claimVars, Provision!nodeVars

LEMMA RecordMaps ==
  ASSUME TypeOK, Grounded, Owned, LeaseCoversCall, OutcomeConfirmed, ReachedInPast,
         OpenIsUnconfirmed, NEW w \in Worker, Record(w)
  PROVE  \/ \E a \in Access, v \in Version : Provision!Refuse(a, v) \/ Provision!Abandon(a, v)
         \/ \E done \in SUBSET Access, ops \in [Access -> SUBSET Version] :
              /\ \A a \in Access : ops[a] \subseteq Provision!Unfinished(a)
              /\ Provision!Confirm(done, ops)
         \/ UNCHANGED Provision!vars
<1> DEFINE a == task[w].access
           v == task[w].version
           o == task[w].outcome
<1>a. task[w].pc = "answered" /\ a \in Access /\ v \in Version /\ o \in Outcome
  BY TypeTask DEF Record
<1>0. /\ task[w].pc = "answered" /\ a \in Access /\ v \in Version /\ o \in Outcome
      /\ v \in Nat /\ v > 0 /\ version[a] \in Nat
  <2>1. v \in Nat /\ v > 0
    BY <1>a, DeliveryAssumption DEF Version
  <2>2. version[a] \in Nat
    BY <1>a, DeliveryAssumption DEF TypeOK
  <2> QED
    BY <1>a, <2>1, <2>2
<1>1. UNCHANGED <<current, version, goal, users, reached>>
  BY DEF Record, nodeVars, agentVars
<1>2. status[a][v] = "IN_FLIGHT"
  BY <1>0 DEF Owned, Active
<1>3. v \in Provision!Unfinished(a)
  BY <1>0, <1>2, Unfinished DEF Open
<1>4. v <= version[a]
  BY <1>0, <1>2 DEF Grounded
<1>5. SetStatus(a, v, PlannedStatus(o, Fresh(a, v)))
  BY DEF Record
<1>6. \A x \in Access :
        applyState'[x] = IF x = a /\ Fresh(a, v) THEN PlannedState(o) ELSE applyState[x]
  BY <1>0 DEF Record, TypeOK
<1>7. CASE o = "SUCCEEDED"
  <2> DEFINE done == IF v = version[a] THEN {a} ELSE {}
             ops == [x \in Access |-> IF x = a THEN {v} ELSE {}]
  <2>1. done \in SUBSET Access /\ ops \in [Access -> SUBSET Version]
    BY <1>0
  <2>2. \A x \in Access : ops[x] \subseteq Provision!Unfinished(x)
    BY <1>3
  <2>3. v <= reached[a]
    BY <1>0, <1>7 DEF OutcomeConfirmed
  <2>4. \A x \in done : reached[x] = version[x]
    <3>1. reached[a] \in Nat /\ reached[a] <= version[a]
      BY <1>0, DeliveryAssumption DEF ReachedInPast, TypeOK
    <3> QED
      BY <1>0, <2>3, <3>1
  <2>5. \A x \in Access :
          /\ \A y \in ops[x] : y <= reached[x]
          /\ x \in done <=> version[x] \in ops[x]
    BY <2>3
  <2>6. Outcomes' = [x \in Access |-> IF x \in done THEN "APPLIED" ELSE Outcomes[x]]
    <3>1. \A x \in Access :
            applyState'[x] = IF x \in done THEN "APPLIED" ELSE applyState[x]
      BY <1>6, <1>7 DEF PlannedState, Fresh
    <3> HIDE DEF done
    <3> QED
      BY <3>1 DEF Outcomes, ClaimOf
  <2>7. Journals' = [x \in Access |-> [y \in Version |->
                       IF y \in ops[x] THEN "SUCCEEDED" ELSE Journals[x][y]]]
    <3>1. Journals' = [Journals EXCEPT ![a][v] = "SUCCEEDED"]
      BY <1>0, <1>5, <1>7, JournalSet DEF PlannedStatus, Terminal
    <3>2. \A x \in Access, y \in Version :
            y \in ops[x] <=> x = a /\ y = v
      BY <1>0
    <3> HIDE DEF ops
    <3> QED
      BY <1>0, <3>1, <3>2 DEF Journals
  <2>8. Provision!Confirm(done, ops)
    <3> HIDE DEF done, ops
    <3> QED
      BY <1>1, <2>4, <2>5, <2>6, <2>7
         DEF Provision!Confirm, Provision!askedVars, Provision!nodeVars
  <2> HIDE DEF done, ops
  <2> QED
    BY <2>1, <2>2, <2>8
<1>8. CASE o = "PERMANENT"
  <2>1. Journals' = [Journals EXCEPT ![a][v] = "FAILED_PERMANENT"]
    BY <1>0, <1>5, <1>8, JournalSet DEF PlannedStatus, Terminal
  <2>2. Outcomes' = [Outcomes EXCEPT ![a] = IF v = version[a] THEN "FAILED" ELSE @]
    <3>1. \A x \in Access :
            applyState'[x] = IF x = a /\ v = version[a] THEN "FAILED" ELSE applyState[x]
      BY <1>6, <1>8 DEF PlannedState, Fresh
    <3> QED
      BY <3>1 DEF Outcomes, ClaimOf
  <2>3. Provision!Refuse(a, v)
    BY <1>1, <1>3, <2>1, <2>2
       DEF Provision!Refuse, Provision!askedVars, Provision!nodeVars
  <2> QED
    BY <1>0, <2>3
<1>9. CASE o = "RETRYABLE" /\ v # version[a]
  <2>1. Journals' = [Journals EXCEPT ![a][v] = "SUPERSEDED"]
    BY <1>0, <1>5, <1>9, JournalSet DEF PlannedStatus, Terminal, Fresh
  <2>2. UNCHANGED Outcomes
    BY <1>6, <1>9, SameOutcomes DEF Fresh
  <2>3. v < version[a]
    BY <1>0, <1>4, <1>9
  <2>4. Provision!Abandon(a, v)
    BY <1>1, <1>3, <2>1, <2>2, <2>3
       DEF Provision!Abandon, Provision!askedVars, Provision!nodeVars
  <2> QED
    BY <1>0, <2>4
<1>10. CASE o = "RETRYABLE" /\ v = version[a]
  <2>1. SetStatus(a, v, "RETRY_WAIT") /\ "RETRY_WAIT" \in Open
    BY <1>5, <1>10 DEF PlannedStatus, Fresh, Open, Waiting
  <2>2. UNCHANGED Journals
    <3>1. status[a][v] \in Open
      BY <1>2 DEF Open
    <3> HIDE DEF a, v
    <3> QED
      BY <1>0, <2>1, <3>1, JournalKeeps
  <2>3. applyState[a] \in {"PENDING", "RETRYING"}
    BY <1>0, <1>2, <1>10 DEF OpenIsUnconfirmed, Open
  <2>4. \A x \in Access : ClaimOf(x)' = ClaimOf(x)
    BY <1>6, <1>10, <2>3 DEF ClaimOf, PlannedState
  <2>5. UNCHANGED Outcomes
    BY <2>4 DEF Outcomes
  <2> QED
    BY <1>1, <2>2, <2>5
       DEF Provision!vars, Provision!askedVars, Provision!claimVars, Provision!nodeVars
<1> QED
  BY <1>0, <1>7, <1>8, <1>9, <1>10 DEF Outcome

\* An accepted full set confirms what it closes: the operations it ends were
\* all executed, and so was whatever it newly calls applied.
LEMMA AcceptMaps ==
  ASSUME TypeOK, ReachedInPast, ClaimKeepsOut, OpenIsUnconfirmed,
         SucceededWasExecuted', AppliedWasExecuted', NoLostWork',
         NEW r \in Reconciler, Accept(r)
  PROVE  \/ \E done \in SUBSET Access, ops \in [Access -> SUBSET Version] :
              /\ \A a \in Access : ops[a] \subseteq Provision!Unfinished(a)
              /\ Provision!Confirm(done, ops)
         \/ UNCHANGED Provision!vars
<1>1. UNCHANGED <<current, version, goal, users, reached>>
  BY DEF Accept, nodeVars, agentVars
<1>2. CASE ~Acceptable(r)
  <2>1. UNCHANGED Outcomes /\ UNCHANGED Journals
    BY <1>2, SameOutcomes, SameJournals DEF Accept
  <2> QED
    BY <1>1, <2>1
       DEF Provision!vars, Provision!askedVars, Provision!claimVars, Provision!nodeVars
<1>3. CASE Acceptable(r)
  <2> DEFINE n == rec[r].node
             done == {a \in Access : Satisfied(r, a) /\ applyState[a] # "APPLIED"}
             ops == [a \in Access |-> {v \in Version : a \in On(n) /\ status[a][v] \in Waiting}]
  <2>1. done \in SUBSET Access /\ ops \in [Access -> SUBSET Version]
    OBVIOUS
  <2>2. \A a \in Access : ops[a] \subseteq Provision!Unfinished(a)
    <3>1. \A a \in Access : Provision!Unfinished(a) = {v \in Version : status[a][v] \in Open}
      BY Unfinished
    <3> QED
      BY <3>1 DEF Open
  <2>3. \A a \in Access : applyState'[a] = IF Satisfied(r, a) THEN "APPLIED" ELSE applyState[a]
    BY <1>3 DEF Accept
  <2>4. \A a \in Access, v \in Version :
          status'[a][v] = IF v \in ops[a] THEN "SUCCEEDED" ELSE status[a][v]
    BY <1>3 DEF Accept
  <2>5. \A a \in Access : version[a] \in Nat /\ reached[a] \in Nat /\ reached[a] <= version[a]
    BY DeliveryAssumption DEF TypeOK, ReachedInPast
  <2>6. \A a \in Access : version[a] > 0 => version[a] \in Version
    BY DeliveryAssumption DEF TypeOK, Version
  <2>7. \A a \in done : reached[a] = version[a]
    <3> SUFFICES ASSUME NEW a \in done
                 PROVE  reached[a] >= version[a]
      BY <2>5
    <3>1. a \in Access /\ version[a] > 0 /\ applyState'[a] = "APPLIED" /\ applyState[a] # "APPLIED"
      BY <2>3 DEF Satisfied, Live
    <3>2. status[a][version[a]] # "NONE"
      BY <3>1 DEF OpenIsUnconfirmed
    <3>3. status'[a][version[a]] # "NONE"
      BY <2>4, <2>6, <3>1, <3>2
    <3> QED
      BY <1>1, <3>1, <3>3 DEF AppliedWasExecuted
  <2>8. \A a \in Access : \A v \in ops[a] : v <= reached[a]
    <3> SUFFICES ASSUME NEW a \in Access, NEW v \in ops[a]
                 PROVE  v <= reached[a]
      OBVIOUS
    <3>1. v \in Version /\ status'[a][v] = "SUCCEEDED"
      BY <2>4
    <3>2. v \in Nat
      BY <3>1, DeliveryAssumption DEF Version
    <3> QED
      BY <1>1, <2>5, <3>1, <3>2 DEF SucceededWasExecuted
  <2>9. \A a \in Access : version[a] \in Provision!Unfinished(a) =>
          (a \in done <=> version[a] \in ops[a])
    <3> SUFFICES ASSUME NEW a \in Access, version[a] \in Provision!Unfinished(a)
                 PROVE  a \in done <=> version[a] \in ops[a]
      OBVIOUS
    <3>1. version[a] \in Version /\ status[a][version[a]] \in Open
      BY Unfinished
    <3>2. version[a] > 0
      BY <3>1, DeliveryAssumption DEF Version
    <3>3. applyState[a] \in {"PENDING", "RETRYING"}
      BY <3>1, <3>2 DEF OpenIsUnconfirmed
    <3>4. ASSUME a \in done
          PROVE  version[a] \in ops[a]
      <4>1. a \in On(n)
        BY <3>4 DEF Satisfied
      <4>2. status[a][version[a]] # "IN_FLIGHT"
        BY <3>1, <4>1 DEF Accept, ClaimKeepsOut, HasClaim, InFlightOn
      <4> QED
        BY <3>1, <4>1, <4>2 DEF Open
    <3>5. ASSUME version[a] \in ops[a]
          PROVE  a \in done
      <4>1. status'[a][version[a]] = "SUCCEEDED" /\ "SUCCEEDED" \notin Open
        BY <2>4, <3>1, <3>5 DEF Open, Waiting
      <4>2. applyState'[a] \notin {"PENDING", "RETRYING"}
        BY <1>1, <4>1 DEF NoLostWork
      <4> QED
        BY <2>3, <3>3, <4>2
    <3> QED
      BY <3>4, <3>5
  <2>10. Outcomes' = [a \in Access |-> IF a \in done THEN "APPLIED" ELSE Outcomes[a]]
    <3>1. \A a \in Access :
            applyState'[a] = IF a \in done THEN "APPLIED" ELSE applyState[a]
      BY <2>3
    <3> HIDE DEF done
    <3> QED
      BY <3>1 DEF Outcomes, ClaimOf
  <2>11. Journals' = [a \in Access |-> [v \in Version |->
                        IF v \in ops[a] THEN "SUCCEEDED" ELSE Journals[a][v]]]
    <3>1. "SUCCEEDED" \notin Open
      BY DEF Open, Waiting
    <3> HIDE DEF ops
    <3>2. \A a \in Access, v \in Version :
            Journal(a, v)' = IF v \in ops[a] THEN "SUCCEEDED" ELSE Journal(a, v)
      BY <2>4, <3>1 DEF Journal
    <3> QED
      BY <3>2 DEF Journals
  <2>12. Provision!Confirm(done, ops)
    <3> HIDE DEF done, ops
    <3> QED
      BY <1>1, <2>7, <2>8, <2>9, <2>10, <2>11
         DEF Provision!Confirm, Provision!askedVars, Provision!nodeVars
  <2> HIDE DEF done, ops
  <2> QED
    BY <2>1, <2>2, <2>12
<1> QED
  BY <1>2, <1>3

-----------------------------------------------------------------------------
(* The whole. *)

\* What the mapping rests on.
Delivered ==
  /\ TypeOK /\ Grounded /\ Owned /\ OneInFlightPerNode
  /\ Orderly /\ SetWhole /\ EntitledIfPresent /\ NoneRetired
  /\ ClaimInPast /\ ClaimCurrent /\ ClaimCovers
  /\ OutcomeConfirmed /\ SetConfirmed
  /\ SucceededWasExecuted /\ AppliedWasExecuted
  /\ NoLostWork /\ UnconfirmedExists /\ SeenInPast
  /\ OpenIsUnconfirmed

LEMMA DeliveredInit == Init => Delivered
<1> SUFFICES ASSUME Init
             PROVE  Delivered
  OBVIOUS
<1>1. TypeOK /\ Orderly
  BY TypeInit, OrderlyInit
<1>2. Grounded /\ Owned /\ OneInFlightPerNode
  BY DEF Init, Grounded, Owned, OneInFlightPerNode, Active, Idle
<1>3. SetWhole /\ ClaimInPast /\ ClaimCurrent /\ ClaimCovers /\ SetConfirmed
  BY DEF Init, SetWhole, ClaimInPast, ClaimCurrent, ClaimCovers, SetConfirmed, HasClaim,
         Idle
<1>4. EntitledIfPresent /\ NoneRetired
  BY DEF Init, EntitledIfPresent, NoneRetired, Wanted, At
<1>5. OutcomeConfirmed /\ SeenInPast
  BY DEF Init, OutcomeConfirmed, SeenInPast, Idle
<1>6. /\ SucceededWasExecuted /\ AppliedWasExecuted /\ NoLostWork /\ UnconfirmedExists
      /\ OpenIsUnconfirmed
  BY DEF Init, SucceededWasExecuted, AppliedWasExecuted, NoLostWork, UnconfirmedExists,
         OpenIsUnconfirmed
<1> QED
  BY <1>1, <1>2, <1>3, <1>4, <1>5, <1>6 DEF Delivered

LEMMA DeliveredStep ==
  ASSUME LeaseCoversCall, {"late", "overtake", "lapse", "retire"} \cap Events = {},
         Delivered, [Next]_vars
  PROVE  Delivered'
<1> USE DEF Delivered
<1>1. /\ {"late", "overtake"} \cap Events = {}
      /\ "lapse" \notin Events /\ "retire" \notin Events
  OBVIOUS
<1>2. TypeOK' /\ Grounded' /\ Owned' /\ OneInFlightPerNode'
  BY TypeStep, GroundedStep, OwnedStep, OneInFlightStep
<1>3. Orderly'
  BY <1>1, OrderlyStep
<1>4. EntitledIfPresent' /\ NoneRetired'
  BY <1>1, EntitledStep, NoneRetiredStep
<1>5. SetWhole'
  BY SetWholeStep
<1>6. ClaimInPast' /\ ClaimCurrent' /\ ClaimCovers'
  BY ClaimPastStep, ClaimCurrentStep, ClaimCoversStep
<1>7. OutcomeConfirmed' /\ SetConfirmed'
  BY OutcomeStep, SetStep
<1>8. SucceededWasExecuted' /\ AppliedWasExecuted'
  BY SucceededStep, AppliedStep
<1>9. NoLostWork' /\ UnconfirmedExists' /\ SeenInPast'
  BY NoLostStep, SeenStep
<1>10. OpenIsUnconfirmed'
  BY OpenStep DEF Orderly
<1> QED
  BY <1>2, <1>3, <1>4, <1>5, <1>6, <1>7, <1>8, <1>9, <1>10

LEMMA ProvisionInit == Init => Provision!Init
  BY DEF Init, Provision!Init, Outcomes, Journals, ClaimOf, Journal, Open, Waiting

LEMMA ProvisionStep ==
  ASSUME LeaseCoversCall, {"late", "overtake", "lapse", "retire"} \cap Events = {},
         Delivered, Delivered', [Next]_vars
  PROVE  [Provision!Next]_(Provision!vars)
<1>0. /\ TypeOK /\ Grounded /\ Owned /\ Orderly /\ SetWhole /\ OutcomeConfirmed
      /\ SeenInPast /\ OpenIsUnconfirmed /\ ReachedInPast /\ ClaimKeepsOut
      /\ SucceededWasExecuted' /\ AppliedWasExecuted' /\ NoLostWork'
      /\ "late" \notin Events /\ "retire" \notin Events
  BY DEF Delivered, Orderly
<1>1. CASE UNCHANGED vars
  BY <1>1, Unseen DEF vars, rowVars, nodeVars, agentVars
<1>2. CASE Writes
  <2>1. PICK b \in Access, d \in Desired, i \in BOOLEAN :
          /\ Rewrite(b, d, i)
          /\ ~i => d = Absent /\ (version[b] = 0 \/ ~current[EntryNode[b]])
    BY <1>0, <1>2, SilentAsks
  <2>2. \E s \in BOOLEAN, o \in SUBSET Provision!Unfinished(b) : Provision!Ask(b, d, s, o)
    BY <1>0, <2>1, RewriteAsks
  <2> QED
    BY <2>2 DEF Provision!Next
<1>3. CASE Customer \/ \E a \in Access : Expire(a)
  <2>1. ASSUME NEW a \in Access, RenewInTime(a) \/ Lapse(a)
        PROVE  UNCHANGED Provision!vars
    BY <2>1, Unseen DEF RenewInTime, Lapse, nodeVars, agentVars
  <2> QED
    BY <1>0, <1>2, <1>3, <2>1, WritersWrite DEF Customer
<1>4. ASSUME NEW w \in Worker, Dispatch(w)
      PROVE  [Provision!Next]_(Provision!vars)
  <2>1. CASE BeginReap(w) \/ Deliver(w) \/ Refuse(w) \/ Crash(w)
    BY <2>1, Unseen DEF BeginReap, Deliver, Refuse, Crash, rowVars, nodeVars, agentVars
  <2>2. CASE Succeed(w) \/ GiveUp(w)
    <3>1. /\ task[w].pc = "calling" /\ Execute(task[w].access, task[w].version)
          /\ UNCHANGED <<current, version, goal, applyState, status>>
      BY <1>0, <2>2 DEF Succeed, GiveUp, Spend, rowVars, nodeVars
    <3>2. \E some \in SUBSET Access, v \in [Access -> {0} \cup Version] :
            Provision!Execute(some, v)
      BY <1>0, <3>1, OperationExecutes
    <3> QED
      BY <3>2 DEF Provision!Next
  <2>3. CASE EndReap(w)
    BY <1>0, <2>3, ReapMaps DEF Provision!Next
  <2>4. CASE \E a \in Access : LeaseNext(w, a)
    BY <1>0, <2>4, LeaseMaps
  <2>5. CASE Record(w)
    BY <1>0, <2>5, RecordMaps DEF Provision!Next
  <2> QED
    BY <1>4, <2>1, <2>2, <2>3, <2>4, <2>5 DEF Dispatch
<1>5. ASSUME NEW r \in Reconciler, Reconcile(r)
      PROVE  [Provision!Next]_(Provision!vars)
  <2>1. CASE \/ \E n \in Node : ClaimSnapshot(r, n)
             \/ ClaimLost(r) \/ ClaimCommit(r) \/ Observe(r) \/ Release(r)
             \/ CrashReconciler(r)
    BY <2>1, Unseen DEF ClaimSnapshot, ClaimLost, ClaimCommit, Observe, Release,
                        CrashReconciler, rowVars, nodeVars, agentVars
  <2>2. CASE Reconciled(r) \/ ReconcileFails(r)
    <3>1. PICK part \in SUBSET On(rec[r].node) :
            /\ rec[r].pc = "calling" /\ ExecuteSet(rec[r].node, rec[r].set, part)
            /\ UNCHANGED <<current, version, goal, applyState, status>>
      BY <1>0, <2>2 DEF Reconciled, ReconcileFails, Spend, rowVars, nodeVars
    <3>2. \E some \in SUBSET Access, v \in [Access -> {0} \cup Version] :
            Provision!Execute(some, v)
      BY <1>0, <3>1, FullSetExecutes
    <3> QED
      BY <3>2 DEF Provision!Next
  <2>3. CASE Accept(r)
    BY <1>0, <2>3, AcceptMaps DEF Provision!Next
  <2> QED
    BY <1>5, <2>1, <2>2, <2>3 DEF Reconcile
<1>6. CASE \E n \in Node : NodeStep(n)
  BY <1>6, NodeMaps DEF Provision!Next
<1>7. ~ArriveLate
  BY <1>0 DEF ArriveLate, Orderly
<1> QED
  BY <1>1, <1>3, <1>4, <1>5, <1>6, <1>7 DEF Next

\* While leases outlast their holders, no claim overtakes a lease that is just
\* being written, no request outlives its call, no period ends unnoticed and no
\* access is retired: delivery, with all its workers, retries, crashes, reaped
\* leases, lost agents and full sets, is what Provisioning promises.
THEOREM Provisioned ==
  ASSUME LeaseCoversCall, {"late", "overtake", "lapse", "retire"} \cap Events = {}
  PROVE  Spec => ImplementsProvisioning
<1>1. Spec => []Delivered
  <2>1. Delivered /\ [Next]_vars => Delivered'
    BY DeliveredStep
  <2> QED
    BY <2>1, DeliveredInit, PTL DEF Spec
<1>2. Delivered /\ Delivered' /\ [Next]_vars => [Provision!Next]_(Provision!vars)
  BY ProvisionStep
<1> QED
  BY <1>1, <1>2, ProvisionInit, PTL DEF Spec, ImplementsProvisioning, Provision!Spec

=============================================================================
