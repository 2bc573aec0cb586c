---------------------------- MODULE UsageProofs ----------------------------
(***************************************************************************)
(* Theorems about UsagePull, for every set of customers, accesses and      *)
(* goroutines, every quota and every bound.                                *)
(***************************************************************************)
EXTENDS UsagePull, FiniteSetTheorems, TLAPS

-----------------------------------------------------------------------------
(* What a goroutine carries. *)

LEMMA TaskFields ==
  ASSUME NEW t \in Task
  PROVE  /\ t.pc = "pulling" => t.from \in Cursor
         /\ t.pc \in {"choosing", "consuming"} =>
              t.at \in Cursor /\ t.spool \in 1 .. MaxSpool /\ t.rest \subseteq Batch
         /\ t.pc = "choosing" => t \in Choosing
         /\ t.pc = "consuming" =>
              /\ t \in Consuming
              /\ t.batch \in Batch
              /\ t.bad \subseteq Item
              /\ t.known \subseteq Access
<1>1. CASE t = Idle
  BY <1>1 DEF Idle
<1>2. CASE t = Releasing
  BY <1>2 DEF Releasing
<1>3. CASE t \in Pulling
  BY <1>3 DEF Pulling
<1>4. CASE t \in Choosing
  BY <1>4 DEF Choosing
<1>5. CASE t \in Consuming
  BY <1>5 DEF Consuming
<1> QED
  BY <1>1, <1>2, <1>3, <1>4, <1>5 DEF Task

LEMMA BatchFields ==
  ASSUME NEW b \in Batch
  PROVE  /\ b.seq \in 1 .. MaxSeq
         /\ b.items \subseteq Item
         /\ b.at \in [Customer -> 0 .. MaxPeriod + 1]
  BY DEF Batch

LEMMA KeysAreKeys ==
  ASSUME NEW t \in Consuming, NEW some \in SUBSET Item
  PROVE  KeysOf(t, some) \subseteq Key
  BY BatchFields DEF KeysOf, KeyOf, Key, Consuming, Batch

LEMMA PositionType ==
  ASSUME NEW t \in Choosing, UsageAssumption
  PROVE  Position(t) \in Cursor
<1>1. t.at \in Cursor /\ t.spool \in 1 .. MaxSpool
  BY DEF Choosing
<1>2. [spool |-> t.spool, seq |-> 0] \in Cursor
  BY <1>1, UsageAssumption DEF Cursor, UsageAssumption
<1> QED
  BY <1>1, <1>2 DEF Position

LEMMA RewriteType ==
  ASSUME NEW changed, NEW new, NEW gone, NEW state \in AccessState,
         access \in [Access -> AccessState],
         Rewrite(changed, new, gone, state)
  PROVE  access' \in [Access -> AccessState]
  BY DEF Rewrite, AccessState

LEMMA DesiredStateType ==
  ASSUME NEW s, NEW e
  PROVE  DesiredState(s, e) \in {"PRESENT", "ABSENT"}
  BY DEF DesiredState

LEMMA SpendType ==
  ASSUME budget \in 0 .. MaxEvents, NEW e, Spend(e), UsageAssumption
  PROVE  budget' \in 0 .. MaxEvents
  BY DEF Spend, UsageAssumption

LEMMA FreshIsFinite ==
  ASSUME NEW t \in Consuming, NEW k
  PROVE  /\ Fresh(t, k) \subseteq Access
         /\ IsFiniteSet(Fresh(t, k))
         /\ Cardinality(Fresh(t, k)) \in Nat
<1>1. Fresh(t, k) \subseteq Access
  BY DEF Fresh, Group, Consuming
<1>2. IsFiniteSet(Fresh(t, k))
  BY <1>1, UsageAssumption, FS_Subset DEF UsageAssumption
<1> QED
  BY <1>1, <1>2, FS_CardinalityType

LEMMA TaskType ==
  ASSUME TypeOK, NEW w \in Worker, NEW t \in Task, Becomes(w, t)
  PROVE  task' \in [Worker -> Task]
  BY DEF TypeOK, Becomes

-----------------------------------------------------------------------------
(* Type correctness. *)

LEMMA TypeInit == Init => TypeOK
<1> SUFFICES ASSUME Init
             PROVE  TypeOK
  OBVIOUS
<1> USE UsageAssumption DEF UsageAssumption
<1>1. 0 \in Period /\ [spool |-> 0, seq |-> 0] \in Cursor
  BY DEF Period, Cursor
<1>2. [id |-> 1, top |-> 0] \in [id : 1 .. MaxSpool, top : 0 .. MaxSeq]
  OBVIOUS
<1>3. /\ Idle \in Task
      /\ budget \in 0 .. MaxEvents
  BY DEF Init, Task
<1> QED
  BY <1>1, <1>2, <1>3 DEF Init, TypeOK, Lifecycle, AccessState

LEMMA CommandsType ==
  ASSUME TypeOK, NEW k \in Customer, Commands(k)
  PROVE  TypeOK'
<1> USE DEF TypeOK, customerVars, accessVars, registryVars, nodeVars, pullVars
<1>0. {"PRESENT", "ABSENT"} \subseteq AccessState /\ "RETIRED" \in AccessState
  BY DEF AccessState
<1>1. ASSUME NEW limit \in Quota, NEW new \in SUBSET Access, OpenPeriod(k, limit, new)
      PROVE  TypeOK'
  <2> DEFINE to == IF lifecycle[k] = "DELETED" THEN "ACTIVE" ELSE lifecycle[k]
  <2>1. access' \in [Access -> AccessState]
    <3>1. Rewrite(InSync(k), new, {}, DesiredState(to, FALSE))
      BY <1>1 DEF OpenPeriod
    <3>2. DesiredState(to, FALSE) \in AccessState
      BY <1>0, DesiredStateType
    <3> QED
      BY <3>1, <3>2, RewriteType
  <2>2. to \in Lifecycle /\ period[k] + 1 \in Period
    BY <1>1, UsageAssumption DEF OpenPeriod, Period, Lifecycle, UsageAssumption
  <2> QED
    BY <1>1, <2>1, <2>2 DEF OpenPeriod
<1>2. ASSUME NEW limit \in Quota, NEW new \in SUBSET Access, ChangeQuota(k, limit, new)
      PROVE  TypeOK'
  <2> DEFINE spent == RecomputeExhausted(k, limit)
  <2>1. access' \in [Access -> AccessState]
    <3>1. Rewrite(InSync(k), new, {}, DesiredState(lifecycle[k], spent))
      BY <1>2 DEF ChangeQuota
    <3>2. DesiredState(lifecycle[k], spent) \in AccessState
      BY <1>0, DesiredStateType
    <3> QED
      BY <3>1, <3>2, RewriteType
  <2>2. spent \in BOOLEAN
    BY DEF RecomputeExhausted, IsQuotaExhausted
  <2> QED
    BY <1>2, <2>1, <2>2 DEF ChangeQuota
<1>3. CASE Block(k) \/ Delete(k)
  <2>1. access' \in [Access -> AccessState]
    BY <1>0, <1>3, RewriteType DEF Block, Delete
  <2> QED
    BY <1>3, <2>1 DEF Block, Delete, Lifecycle
<1>4. CASE Unblock(k)
  <2>1. access' \in [Access -> AccessState]
    <3> DEFINE state == DesiredState("ACTIVE", IsQuotaExhausted(Spent(k), quota[k]))
    <3>1. Rewrite(InSync(k), {}, {}, state)
      BY <1>4 DEF Unblock
    <3>2. state \in AccessState
      BY <1>0, DesiredStateType
    <3> QED
      BY <3>1, <3>2, RewriteType
  <2> QED
    BY <1>4, <2>1 DEF Unblock, Lifecycle
<1>5. CASE Finalize(k)
  <2>1. access' \in [Access -> AccessState]
    BY <1>5 DEF Finalize, AccessState
  <2>2. quarantined' \in [Key -> Nat]
    BY <1>5 DEF Finalize
  <2>3. registry' \subseteq Key /\ aged' \subseteq registry'
    BY <1>5 DEF Finalize
  <2> QED
    BY <1>5, <2>1, <2>2, <2>3 DEF Finalize, Lifecycle
<1>6. ASSUME NEW gone \in SUBSET Access, NEW new \in SUBSET Access,
             Materialize(k, gone, new)
      PROVE  TypeOK'
  <2>1. access' \in [Access -> AccessState]
    <3> DEFINE state == DesiredState(lifecycle[k], IsQuotaExhausted(Spent(k), quota[k]))
    <3>1. Rewrite(Live(k), new, gone, state)
      BY <1>6 DEF Materialize
    <3>2. state \in AccessState
      BY <1>0, DesiredStateType
    <3> QED
      BY <3>1, <3>2, RewriteType
  <2> QED
    BY <1>6, <2>1 DEF Materialize
<1> QED
  BY <1>1, <1>2, <1>3, <1>4, <1>5, <1>6 DEF Commands

LEMMA NodeType ==
  ASSUME TypeOK,
         \/ \E a \in Access : Drift(a)
         \/ \E items \in SUBSET Item, at \in Moment : Collect(items, at)
         \/ LoseSpool
  PROVE  TypeOK'
<1> USE DEF customerVars, accessVars, registryVars, nodeVars, pullVars
<1>0. budget \in 0 .. MaxEvents
  BY DEF TypeOK
<1>1. ASSUME NEW a \in Access, Drift(a)
      PROVE  TypeOK'
  BY <1>0, <1>1, SpendType, UsageAssumption DEF Drift, TypeOK
<1>2. ASSUME NEW items \in SUBSET Item, NEW at \in Moment, Collect(items, at)
      PROVE  TypeOK'
  <2>1. spool' \in [id : 1 .. MaxSpool, top : 0 .. MaxSeq]
    BY <1>2, UsageAssumption DEF Collect, TypeOK, UsageAssumption
  <2>2. pending' \subseteq Batch
    <3>1. spool.top + 1 \in 1 .. MaxSeq
      BY <1>2, UsageAssumption DEF Collect, TypeOK, UsageAssumption
    <3>2. at \in [Customer -> 0 .. MaxPeriod + 1]
      BY DEF Moment
    <3>3. [seq |-> spool.top + 1, items |-> items, at |-> at] \in Batch
      BY <3>1, <3>2 DEF Batch
    <3> QED
      BY <1>2, <3>3 DEF Collect, TypeOK
  <2>3. budget' \in 0 .. MaxEvents
    BY <1>0, <1>2, SpendType, UsageAssumption DEF Collect
  <2> QED
    BY <1>2, <2>1, <2>2, <2>3 DEF Collect, TypeOK
<1>3. CASE LoseSpool
  <2>1. spool' \in [id : 1 .. MaxSpool, top : 0 .. MaxSeq]
    BY <1>3, UsageAssumption DEF LoseSpool, TypeOK, UsageAssumption
  <2>2. budget' \in 0 .. MaxEvents
    BY <1>0, <1>3, SpendType, UsageAssumption DEF LoseSpool
  <2> QED
    BY <1>3, <2>1, <2>2 DEF LoseSpool, TypeOK
<1> QED
  BY <1>1, <1>2, <1>3

\* Asking the agent, and what its answer starts.
LEMMA PullType ==
  ASSUME TypeOK, NEW w \in Worker,
         Claim(w) \/ Pull(w) \/ Repeat(w) \/ PullFails(w)
  PROVE  TypeOK'
<1> USE DEF customerVars, accessVars, registryVars, nodeVars, pullVars
<1>0. budget \in 0 .. MaxEvents /\ task[w] \in Task
  BY DEF TypeOK
<1>1. ASSUME NEW ack
      PROVE  Unacknowledged(ack) \subseteq pending
  BY DEF Unacknowledged
<1>2. ASSUME NEW kept \in SUBSET Batch, Answer(w, kept), budget' \in 0 .. MaxEvents
      PROVE  TypeOK'
  <2> DEFINE t == [pc |-> "choosing", at |-> task[w].from, spool |-> spool.id,
                   rest |-> Oldest(kept)]
  <2>1. task[w].from \in Cursor
    BY <1>0, <1>2, TaskFields DEF Answer
  <2>2. Oldest(kept) \subseteq Batch
    BY DEF Oldest
  <2>3. t \in Task
    BY <2>1, <2>2 DEF Task, Choosing, TypeOK
  <2>4. task' \in [Worker -> Task]
    <3>1. Becomes(w, t)
      BY <1>2 DEF Answer
    <3> QED
      BY <2>3, <3>1, TaskType
  <2> QED
    BY <1>2, <2>4 DEF Answer, TypeOK
<1>3. CASE Claim(w)
  <2> DEFINE t == [pc |-> "pulling", from |-> cursor]
  <2>1. t \in Task
    BY DEF Task, Pulling, TypeOK
  <2>2. task' \in [Worker -> Task]
    BY <1>3, <2>1, TaskType DEF Claim
  <2>3. budget' \in 0 .. MaxEvents
    BY <1>0, <1>3, SpendType, UsageAssumption DEF Claim
  <2>4. ProcessOf[w] \in Process
    BY UsageAssumption DEF UsageAssumption
  <2> QED
    BY <1>3, <2>2, <2>3, <2>4 DEF Claim, TypeOK
<1>4. CASE Pull(w)
  BY <1>0, <1>1, <1>2, <1>4 DEF Pull, TypeOK
<1>5. CASE Repeat(w)
  BY <1>0, <1>2, <1>5, SpendType, UsageAssumption DEF Repeat, TypeOK
<1>6. CASE PullFails(w)
  <2>1. Releasing \in Task
    BY DEF Task
  <2>2. task' \in [Worker -> Task]
    BY <1>6, <2>1, TaskType DEF PullFails
  <2>3. pending' \subseteq Batch
    BY <1>1, <1>6 DEF PullFails, TypeOK
  <2>4. budget' \in 0 .. MaxEvents
    BY <1>0, <1>6, SpendType, UsageAssumption DEF PullFails
  <2> QED
    BY <1>6, <2>2, <2>3, <2>4 DEF PullFails, TypeOK
<1> QED
  BY <1>3, <1>4, <1>5, <1>6

\* Going through the batches of an answer.
LEMMA BatchType ==
  ASSUME TypeOK, NEW w \in Worker,
         \/ \E b \in task[w].rest : SkipBatch(w, b) \/ StartBatch(w, b)
         \/ Advance(w) \/ Done(w) \/ Fail(w) \/ Release(w)
  PROVE  TypeOK'
<1> USE DEF customerVars, accessVars, registryVars, nodeVars, pullVars
<1> DEFINE t == task[w]
<1>0. budget \in 0 .. MaxEvents /\ t \in Task
  BY DEF TypeOK
<1>1. ASSUME NEW b \in t.rest, SkipBatch(w, b)
      PROVE  TypeOK'
  <2>1. t \in Choosing
    BY <1>0, <1>1, TaskFields DEF SkipBatch
  <2>2. Position(t) \in Cursor
    BY <2>1, PositionType, UsageAssumption
  <2>3. [t EXCEPT !.at = Position(t), !.rest = @ \ {b}] \in Task
    BY <2>1, <2>2 DEF Choosing, Task
  <2>4. task' \in [Worker -> Task]
    BY <1>1, <2>3, TaskType DEF SkipBatch
  <2> QED
    BY <1>1, <2>4 DEF SkipBatch, TypeOK
<1>2. ASSUME NEW b \in t.rest, StartBatch(w, b)
      PROVE  TypeOK'
  <2> DEFINE known == Resolved(b.items)
             u == [pc |-> "consuming", at |-> Position(t), spool |-> t.spool,
                   rest |-> t.rest \ {b}, batch |-> b,
                   bad |-> b.items \ known, known |-> known]
  <2>1. t \in Choosing
    BY <1>0, <1>2, TaskFields DEF StartBatch
  <2>2. Position(t) \in Cursor
    BY <2>1, PositionType, UsageAssumption
  <2>3. b \in Batch /\ b.items \subseteq Item
    BY <2>1, BatchFields DEF Choosing
  <2>4. known \subseteq Access
    BY DEF Resolved
  <2>5. u \in Consuming
    BY <2>1, <2>2, <2>3, <2>4 DEF Choosing, Consuming
  <2>6. task' \in [Worker -> Task]
    <3>1. Becomes(w, u) /\ u \in Task
      BY <1>2, <2>5 DEF StartBatch, Task
    <3> QED
      BY <3>1, TaskType
  <2> QED
    BY <1>2, <2>6 DEF StartBatch, TypeOK
<1>3. CASE Advance(w)
  <2> DEFINE u == [pc |-> "choosing", at |-> Ack(t), spool |-> t.spool, rest |-> t.rest]
  <2>1. t \in Consuming
    BY <1>0, <1>3, TaskFields DEF Advance
  <2>2. Ack(t) \in Cursor
    BY <2>1, BatchFields, UsageAssumption DEF Ack, Cursor, Consuming, UsageAssumption
  <2>3. u \in Task
    BY <2>1, <2>2 DEF Task, Choosing, Consuming
  <2>4. task' \in [Worker -> Task]
    BY <1>3, <2>3, TaskType DEF Advance
  <2> QED
    BY <1>3, <2>2, <2>4 DEF Advance, TypeOK
<1>4. CASE Done(w) \/ Fail(w)
  <2>1. task' \in [Worker -> Task]
    BY <1>4, TaskType DEF Done, Fail, Task
  <2>2. budget' \in 0 .. MaxEvents
    BY <1>0, <1>4, SpendType, UsageAssumption DEF Done, Fail
  <2> QED
    BY <1>4, <2>1, <2>2 DEF Done, Fail, TypeOK
<1>5. CASE Release(w)
  <2>1. task' \in [Worker -> Task]
    BY <1>5, TaskType DEF Release, Task
  <2> QED
    BY <1>5, <2>1 DEF Release, TypeOK
<1> QED
  BY <1>1, <1>2, <1>3, <1>4, <1>5

\* What registering a group does to the registry and to the goroutine.
LEMMA RegisterType ==
  ASSUME TypeOK, NEW w \in Worker, NEW k, GroupNext(task[w], k), Register(w, k)
  PROVE  /\ registry' \subseteq Key /\ registry \subseteq registry'
         /\ settled' \subseteq Key
         /\ task' \in [Worker -> Task]
<1> DEFINE t == task[w]
<1>1. t \in Consuming
  BY TaskFields DEF GroupNext, TypeOK
<1>2. Fresh(t, k) \subseteq Item /\ Group(t, k) \subseteq Item
  BY <1>1 DEF Fresh, Group, Consuming, Item
<1>3. KeysOf(t, Fresh(t, k)) \subseteq Key /\ KeysOf(t, Group(t, k)) \subseteq Key
  BY <1>1, <1>2, KeysAreKeys
<1>4. task' \in [Worker -> Task]
  <2>1. [t EXCEPT !.known = LeftAfter(t, k)] \in Task
    BY <1>1 DEF LeftAfter, Consuming, Task
  <2> QED
    BY <2>1, TaskType DEF Register
<1> QED
  BY <1>3, <1>4 DEF Register, TypeOK

\* Moments are clipped to the periods that exist.
LEMMA PeriodAtType ==
  ASSUME TypeOK, NEW k \in Customer, NEW at \in Nat
  PROVE  PeriodAt(k, at) \in Period /\ PeriodAt(k, at) <= period[k]
  BY UsageAssumption DEF PeriodAt, Period, TypeOK, UsageAssumption

LEMMA BatchMoment ==
  ASSUME NEW t \in Consuming, NEW k \in Customer
  PROVE  t.batch.at[k] \in Nat
  BY UsageAssumption, BatchFields DEF Consuming, UsageAssumption

LEMMA ChargeType ==
  ASSUME TypeOK, NEW w \in Worker, NEW k \in Customer, Charge(w, k)
  PROVE  TypeOK'
<1> USE DEF customerVars, accessVars, registryVars, nodeVars, pullVars
<1> DEFINE t       == task[w]
           p       == PeriodAt(k, t.batch.at[k])
           fresh   == Fresh(t, k)
           sum     == total[k][p] + Cardinality(fresh)
           crosses == fresh # {} /\ ~exhausted[k] /\ IsQuotaExhausted(sum, quota[k])
<1>1. t \in Consuming
  BY TaskFields DEF Charge, GroupNext, TypeOK
<1>2. p \in Period
  BY <1>1, BatchMoment, PeriodAtType
<1>3. sum \in Nat
  <2>1. total[k][p] \in Nat
    BY <1>2 DEF TypeOK
  <2>2. Cardinality(fresh) \in Nat
    BY <1>1, FreshIsFinite
  <2> QED
    BY <2>1, <2>2
<1>4. total' \in [Customer -> [Period -> Nat]]
  <2>1. total' = [total EXCEPT ![k][p] = sum]
    BY DEF Charge
  <2> QED
    BY <1>3, <2>1 DEF TypeOK
<1>5. /\ registry' \subseteq Key /\ registry \subseteq registry'
      /\ settled' \subseteq Key
      /\ task' \in [Worker -> Task]
  BY RegisterType DEF Charge
<1>6. access' \in [Access -> AccessState]
  BY RewriteType DEF Charge, AccessState, TypeOK
<1>7. counted' \in [Key -> Nat]
  BY DEF Charge, TypeOK
<1>8. exhausted' \in [Customer -> BOOLEAN]
  BY DEF Charge, TypeOK
<1> QED
  BY <1>4, <1>5, <1>6, <1>7, <1>8 DEF Charge, TypeOK

LEMMA GroupType ==
  ASSUME TypeOK, NEW w \in Worker,
         \/ Quarantine(w)
         \/ \E k \in Customer :
              NoPeriod(w, k) \/ IgnoreClosed(w, k) \/ Charge(w, k) \/ GroupFails(w, k)
  PROVE  TypeOK'
<1> USE DEF customerVars, accessVars, registryVars, nodeVars, pullVars
<1> DEFINE t == task[w]
<1>0. t.pc = "consuming" => t \in Consuming
  BY TaskFields DEF TypeOK
<1>1. CASE Quarantine(w)
  <2>1. t \in Consuming /\ t.bad \subseteq Item
    BY <1>0, <1>1 DEF Quarantine, Consuming
  <2>2. KeysOf(t, t.bad) \subseteq Key
    BY <2>1, KeysAreKeys
  <2>3. [t EXCEPT !.bad = {}] \in Task
    BY <2>1 DEF Consuming, Task
  <2>4. task' \in [Worker -> Task]
    BY <1>1, <2>3, TaskType DEF Quarantine
  <2>5. quarantined' \in [Key -> Nat]
    BY <1>1 DEF Quarantine, TypeOK
  <2> QED
    BY <1>1, <2>2, <2>4, <2>5 DEF Quarantine, TypeOK
<1>2. ASSUME NEW k \in Customer, NoPeriod(w, k)
      PROVE  TypeOK'
  <2>1. t \in Consuming
    BY <1>0, <1>2 DEF NoPeriod, GroupNext
  <2>2. [t EXCEPT !.bad = Group(t, k), !.known = LeftAfter(t, k)] \in Task
    BY <2>1 DEF Consuming, Task, Group, LeftAfter, Item
  <2>3. task' \in [Worker -> Task]
    BY <1>2, <2>2, TaskType DEF NoPeriod
  <2> QED
    BY <1>2, <2>3 DEF NoPeriod, TypeOK
<1>3. ASSUME NEW k \in Customer, IgnoreClosed(w, k)
      PROVE  TypeOK'
  <2>1. /\ registry' \subseteq Key /\ registry \subseteq registry'
        /\ settled' \subseteq Key
        /\ task' \in [Worker -> Task]
    BY <1>3, RegisterType DEF IgnoreClosed
  <2> QED
    BY <1>3, <2>1 DEF IgnoreClosed, TypeOK
<1>4. ASSUME NEW k \in Customer, GroupFails(w, k)
      PROVE  TypeOK'
  <2>1. task' \in [Worker -> Task]
    BY <1>4, TaskType DEF GroupFails, Task
  <2> QED
    BY <1>4, <2>1 DEF GroupFails, TypeOK
<1> QED
  BY <1>1, <1>2, <1>3, <1>4, ChargeType

LEMMA UpkeepType ==
  ASSUME TypeOK,
         \/ \E p \in Process : Crash(p)
         \/ LeaseExpires \/ Age
         \/ \E some \in SUBSET Prunable : Prune(some)
  PROVE  TypeOK'
<1> USE DEF customerVars, accessVars, registryVars, nodeVars, pullVars
<1>0. budget \in 0 .. MaxEvents
  BY DEF TypeOK
<1>1. ASSUME NEW p \in Process, Crash(p)
      PROVE  TypeOK'
  <2>1. task' \in [Worker -> Task]
    BY <1>1 DEF Crash, Task, TypeOK
  <2>2. budget' \in 0 .. MaxEvents
    BY <1>0, <1>1, SpendType, UsageAssumption DEF Crash
  <2> QED
    BY <1>1, <2>1, <2>2 DEF Crash, TypeOK
<1>2. CASE LeaseExpires
  BY <1>0, <1>2, SpendType, UsageAssumption DEF LeaseExpires, TypeOK
<1>3. CASE Age
  BY <1>0, <1>3, SpendType, UsageAssumption DEF Age, TypeOK
<1>4. ASSUME NEW some \in SUBSET Prunable, Prune(some)
      PROVE  TypeOK'
  BY <1>4 DEF Prune, TypeOK
<1> QED
  BY <1>1, <1>2, <1>3, <1>4

LEMMA TypeStep == TypeOK /\ [Next]_vars => TypeOK'
<1> SUFFICES ASSUME TypeOK, [Next]_vars
             PROVE  TypeOK'
  OBVIOUS
<1>1. CASE UNCHANGED vars
  BY <1>1 DEF vars, customerVars, accessVars, registryVars, nodeVars, pullVars, TypeOK
<1>2. CASE Next
  BY <1>2, CommandsType, NodeType, PullType, BatchType, GroupType, UpkeepType
     DEF Next, Step
<1> QED
  BY <1>1, <1>2

\* Every variable keeps its type, whatever customers, accesses, goroutines and
\* bounds there are.
THEOREM TypeCorrect == Spec => []TypeOK
  BY TypeInit, TypeStep, PTL DEF Spec

-----------------------------------------------------------------------------
(* Periods, totals and the mark of the quota. *)

\* Customers and accesses change by commands, by a charge that crosses the
\* quota and by a manifest; everything else leaves them alone.
LEMMA Classes ==
  ASSUME [Next]_vars
  PROVE  \/ UNCHANGED <<customerVars, accessVars>>
         \/ \E k \in Customer : Commands(k)
         \/ \E w \in Worker, k \in Customer : Charge(w, k)
         \/ \E a \in Access : Drift(a)
<1>1. CASE UNCHANGED vars
  BY <1>1 DEF vars
<1>2. CASE \/ \E items \in SUBSET Item, at \in Moment : Collect(items, at)
           \/ LoseSpool
  BY <1>2 DEF Collect, LoseSpool
<1>3. ASSUME NEW w \in Worker, Claim(w) \/ Repeat(w) \/ PullFails(w) \/ Fail(w)
      PROVE  UNCHANGED <<customerVars, accessVars>>
  BY <1>3 DEF Claim, Repeat, PullFails, Fail, Answer
<1>4. ASSUME NEW w \in Worker, Step(w)
      PROVE  \/ UNCHANGED <<customerVars, accessVars>>
             \/ \E k \in Customer : Charge(w, k)
  <2>1. CASE Pull(w) \/ Quarantine(w) \/ Advance(w) \/ Done(w) \/ Release(w)
    BY <2>1 DEF Pull, Answer, Quarantine, Advance, Done, Release
  <2>2. CASE \E b \in task[w].rest : SkipBatch(w, b) \/ StartBatch(w, b)
    BY <2>2 DEF SkipBatch, StartBatch
  <2>3. ASSUME NEW k \in Customer, NoPeriod(w, k) \/ IgnoreClosed(w, k) \/ GroupFails(w, k)
        PROVE  UNCHANGED <<customerVars, accessVars>>
    BY <2>3 DEF NoPeriod, IgnoreClosed, GroupFails
  <2> QED
    BY <1>4, <2>1, <2>2, <2>3 DEF Step
<1>5. CASE \/ \E p \in Process : Crash(p)
           \/ LeaseExpires \/ Age
           \/ \E some \in SUBSET Prunable : Prune(some)
  BY <1>5 DEF Crash, LeaseExpires, Age, Prune
<1> QED
  BY <1>1, <1>2, <1>3, <1>4, <1>5 DEF Next

\* A charge adds to the open period of its customer, which has one, and sets
\* the mark on the first crossing.
LEMMA ChargeEffect ==
  ASSUME TypeOK, NEW w \in Worker, NEW k \in Customer, Charge(w, k)
  PROVE  /\ HasPeriod(k)
         /\ \E n \in Nat :
              /\ total' = [total EXCEPT ![k][period[k]] = Spent(k) + n]
              /\ exhausted' = [exhausted EXCEPT ![k] =
                   @ \/ (n # 0 /\ IsQuotaExhausted(Spent(k) + n, quota[k]))]
<1> DEFINE t     == task[w]
           p     == PeriodAt(k, t.batch.at[k])
           fresh == Fresh(t, k)
           n     == Cardinality(fresh)
<1>1. t \in Consuming
  BY TaskFields DEF Charge, GroupNext, TypeOK
<1>2. p # 0 /\ p = period[k]
  BY DEF Charge, Open
<1>3. n \in Nat /\ (n = 0 <=> fresh = {})
  BY <1>1, FreshIsFinite, FS_EmptySet
<1>4. HasPeriod(k)
  BY <1>2 DEF HasPeriod, PeriodAt
<1>5. total' = [total EXCEPT ![k][p] = total[k][p] + n]
  BY DEF Charge
<1>6. exhausted' = [exhausted EXCEPT ![k] =
        @ \/ (fresh # {} /\ ~exhausted[k] /\ IsQuotaExhausted(total[k][p] + n, quota[k]))]
  BY DEF Charge
<1>7. exhausted[k] \in BOOLEAN
  BY DEF TypeOK
<1> QED
  BY <1>2, <1>3, <1>4, <1>5, <1>6, <1>7 DEF Spent, TypeOK

LEMMA CommandsKeepTotals ==
  ASSUME NEW k \in Customer, Commands(k)
  PROVE  total' = total
  BY DEF Commands, OpenPeriod, ChangeQuota, Block, Unblock, Delete, Finalize,
         Materialize, customerVars

LEMMA FrozenStep ==
  ASSUME TypeOK, [Next]_vars, NEW k \in Customer, NEW p \in Period, p < period[k]
  PROVE  total'[k][p] = total[k][p]
<1>1. CASE UNCHANGED <<customerVars, accessVars>> \/ \E a \in Access : Drift(a)
  BY <1>1 DEF Drift, customerVars
<1>2. CASE \E j \in Customer : Commands(j)
  BY <1>2, CommandsKeepTotals
<1>3. ASSUME NEW w \in Worker, NEW j \in Customer, Charge(w, j)
      PROVE  total'[k][p] = total[k][p]
  <2>1. PICK n \in Nat : total' = [total EXCEPT ![j][period[j]] = Spent(j) + n]
    BY <1>3, ChargeEffect
  <2>2. p # period[k]
    BY UsageAssumption DEF TypeOK, Period, UsageAssumption
  <2> QED
    BY <2>1, <2>2 DEF TypeOK
<1> QED
  BY <1>1, <1>2, <1>3, Classes

\* A late batch never changes the total of a period that was closed.
THEOREM ClosedFrozen == Spec => ClosedPeriodFrozen
<1>1. TypeOK /\ [Next]_vars =>
        [\A k \in Customer, p \in Period :
           p < period[k] => total'[k][p] = total[k][p]]_vars
  BY FrozenStep
<1> QED
  BY <1>1, TypeCorrect, PTL DEF Spec, ClosedPeriodFrozen

\* The mark is exact because nothing was spent in a period to come, and
\* because a customer who is not deleted has an open period.
MarkOf(k) ==
  /\ removed[k] <= period[k]
  /\ \A p \in Period : p > period[k] => total[k][p] = 0
  /\ lifecycle[k] # "DELETED" => HasPeriod(k)
  /\ HasPeriod(k) => (exhausted[k] <=> IsQuotaExhausted(Spent(k), quota[k]))

MarkInv == \A k \in Customer : MarkOf(k)

LEMMA Numbers ==
  ASSUME TypeOK, NEW k \in Customer
  PROVE  /\ period[k] \in Nat /\ period[k] \in Period /\ removed[k] \in Nat
         /\ quota[k] \in Nat /\ Spent(k) \in Nat
         /\ exhausted[k] \in BOOLEAN
<1>1. period[k] \in Period /\ removed[k] \in Period /\ exhausted[k] \in BOOLEAN
  BY DEF TypeOK
<1>2. Period \subseteq Nat
  BY UsageAssumption DEF Period, UsageAssumption
<1>3. quota[k] \in Quota
  BY DEF TypeOK
<1>4. Quota \subseteq Nat
  BY UsageAssumption DEF UsageAssumption
<1>5. Spent(k) \in Nat
  BY <1>1 DEF Spent, TypeOK
<1> QED
  BY <1>1, <1>2, <1>3, <1>4, <1>5

\* What a command does to the periods of its customer; the others keep theirs.
LEMMA CommandMark ==
  ASSUME TypeOK, MarkInv, NEW k \in Customer, Commands(k)
  PROVE  MarkInv'
<1> USE DEF MarkInv, MarkOf, HasPeriod, Spent
<1>0. \A j \in Customer : /\ period[j] \in Nat /\ removed[j] \in Nat
                          /\ quota[j] \in Nat /\ exhausted[j] \in BOOLEAN
  BY Numbers
<1>1. ASSUME NEW limit \in Quota, NEW new \in SUBSET Access, OpenPeriod(k, limit, new)
      PROVE  MarkInv'
  <2>1. /\ period' = [period EXCEPT ![k] = @ + 1]
        /\ quota' = [quota EXCEPT ![k] = limit]
        /\ exhausted' = [exhausted EXCEPT ![k] = FALSE]
        /\ removed' = removed /\ total' = total
        /\ \A j \in Customer \ {k} : lifecycle'[j] = lifecycle[j]
    BY <1>1 DEF OpenPeriod, TypeOK
  <2>2. period[k] + 1 \in Period /\ limit > 0 /\ limit \in Nat
    BY <1>0, <1>1, UsageAssumption DEF OpenPeriod, Period, UsageAssumption
  <2>3. total[k][period[k] + 1] = 0
    BY <1>0, <2>2
  <2>4. ~IsQuotaExhausted(0, limit)
    BY <2>2 DEF IsQuotaExhausted
  <2>5. MarkOf(k)'
    <3>1. period'[k] = period[k] + 1 /\ ~exhausted'[k] /\ quota'[k] = limit
      BY <2>1 DEF TypeOK
    <3>2. Spent(k)' = 0
      BY <2>1, <2>3, <3>1
    <3> QED
      BY <1>0, <2>1, <2>4, <3>1, <3>2 DEF Period, IsQuotaExhausted
  <2>6. ASSUME NEW j \in Customer \ {k}
        PROVE  MarkOf(j)'
    <3>1. /\ period'[j] = period[j] /\ exhausted'[j] = exhausted[j]
          /\ quota'[j] = quota[j] /\ lifecycle'[j] = lifecycle[j]
      BY <2>1 DEF TypeOK
    <3> QED
      BY <2>1, <3>1 DEF IsQuotaExhausted
  <2> QED
    BY <2>5, <2>6
<1>2. ASSUME NEW limit \in Quota, NEW new \in SUBSET Access, ChangeQuota(k, limit, new)
      PROVE  MarkInv'
  <2>1. /\ UNCHANGED <<lifecycle, period, removed, total>>
        /\ quota'[k] = limit
        /\ exhausted'[k] = IsQuotaExhausted(Spent(k), limit)
        /\ \A j \in Customer \ {k} : exhausted'[j] = exhausted[j] /\ quota'[j] = quota[j]
    BY <1>2 DEF ChangeQuota, RecomputeExhausted, TypeOK
  <2> QED
    BY <2>1 DEF IsQuotaExhausted
<1>3. CASE Block(k) \/ Unblock(k) \/ Delete(k)
  <2>1. /\ UNCHANGED <<period, removed, quota, total, exhausted>>
        /\ lifecycle[k] # "DELETED"
        /\ \A j \in Customer \ {k} : lifecycle'[j] = lifecycle[j]
    BY <1>3 DEF Block, Unblock, Delete, TypeOK
  <2> QED
    BY <2>1 DEF IsQuotaExhausted
<1>4. CASE Finalize(k)
  <2>1. /\ UNCHANGED <<period, quota, total>>
        /\ removed'[k] = period[k] /\ lifecycle'[k] = "DELETED"
        /\ \A j \in Customer \ {k} : /\ removed'[j] = removed[j]
                                     /\ lifecycle'[j] = lifecycle[j]
                                     /\ exhausted'[j] = exhausted[j]
    BY <1>4 DEF Finalize, TypeOK
  <2> QED
    BY <1>0, <2>1 DEF IsQuotaExhausted
<1>5. ASSUME NEW gone \in SUBSET Access, NEW new \in SUBSET Access,
             Materialize(k, gone, new)
      PROVE  MarkInv'
  BY <1>5 DEF Materialize, customerVars, IsQuotaExhausted
<1> QED
  BY <1>1, <1>2, <1>3, <1>4, <1>5 DEF Commands

LEMMA ChargeMark ==
  ASSUME TypeOK, MarkInv, NEW w \in Worker, NEW k \in Customer, Charge(w, k)
  PROVE  MarkInv'
<1> USE DEF MarkInv, MarkOf, HasPeriod, Spent
<1>1. PICK n \in Nat :
        /\ total' = [total EXCEPT ![k][period[k]] = Spent(k) + n]
        /\ exhausted' = [exhausted EXCEPT ![k] =
             @ \/ (n # 0 /\ IsQuotaExhausted(Spent(k) + n, quota[k]))]
  BY ChargeEffect
<1>2. UNCHANGED <<lifecycle, period, removed, quota>>
  BY DEF Charge
<1>3. HasPeriod(k)
  BY ChargeEffect
<1>4. /\ period[k] \in Nat /\ period[k] \in Period /\ quota[k] \in Nat
      /\ Spent(k) \in Nat /\ exhausted[k] \in BOOLEAN
  BY Numbers
<1>5. \A j \in Customer \ {k} : total'[j] = total[j] /\ exhausted'[j] = exhausted[j]
  BY <1>1 DEF TypeOK
<1>6. MarkOf(k)'
  <2>1. Spent(k)' = Spent(k) + n
    BY <1>1, <1>2, <1>4 DEF TypeOK
  <2>2. \A p \in Period : p > period[k] => total'[k][p] = total[k][p]
    BY <1>1, <1>4 DEF TypeOK, Period
  <2>3. exhausted'[k] <=> exhausted[k] \/ (n # 0 /\ Spent(k) + n >= quota[k])
    BY <1>1 DEF TypeOK, IsQuotaExhausted
  <2>4. exhausted[k] <=> Spent(k) >= quota[k]
    BY <1>3 DEF IsQuotaExhausted
  <2>5. exhausted'[k] <=> Spent(k) + n >= quota[k]
    BY <1>4, <2>3, <2>4
  <2>6. IsQuotaExhausted(Spent(k), quota[k])' <=> Spent(k) + n >= quota[k]
    BY <1>2, <2>1 DEF IsQuotaExhausted
  <2> QED
    BY <1>2, <2>2, <2>5, <2>6
<1>7. ASSUME NEW j \in Customer \ {k}
      PROVE  MarkOf(j)'
  BY <1>2, <1>5 DEF IsQuotaExhausted
<1> QED
  BY <1>6, <1>7

LEMMA MarkStep == TypeOK /\ MarkInv /\ [Next]_vars => MarkInv'
<1> SUFFICES ASSUME TypeOK, MarkInv, [Next]_vars
             PROVE  MarkInv'
  OBVIOUS
<1>1. CASE UNCHANGED <<customerVars, accessVars>> \/ \E a \in Access : Drift(a)
  BY <1>1 DEF Drift, customerVars, MarkInv, MarkOf, HasPeriod, Spent, IsQuotaExhausted
<1> QED
  BY <1>1, CommandMark, ChargeMark, Classes

LEMMA MarkInit == Init => MarkInv
  BY DEF Init, MarkInv, MarkOf, HasPeriod, Period

\* The mark of the quota stands exactly while the spent traffic reaches it.
THEOREM MarkIsExact == Spec => []ExhaustedExactly
<1>1. MarkInv => ExhaustedExactly
  BY DEF MarkInv, MarkOf, ExhaustedExactly
<1> QED
  BY <1>1, MarkInit, MarkStep, TypeCorrect, PTL DEF Spec

-----------------------------------------------------------------------------
(* Who has access. *)

EntitledRow(a) ==
  access[a] = "PRESENT" =>
    /\ lifecycle[OwnerOf[a]] = "ACTIVE"
    /\ exhausted[OwnerOf[a]] => a \in drifted

LEMMA DesiredPresent ==
  ASSUME NEW s, NEW e, DesiredState(s, e) = "PRESENT"
  PROVE  s = "ACTIVE" /\ ~e
  BY DEF DesiredState

\* The rows of other customers are none of a command's business.
LEMMA RewriteOthers ==
  ASSUME NEW k, NEW a \in Access, OwnerOf[a] # k,
         NEW changed \in SUBSET Rows(k), NEW new \in SUBSET Rows(k),
         NEW gone \in SUBSET Rows(k), NEW state,
         Rewrite(changed, new, gone, state)
  PROVE  access'[a] = access[a]
  BY DEF Rewrite, Rows

LEMMA CommandEntitled ==
  ASSUME TypeOK, MarkInv, PresentIsEntitled, NEW k \in Customer, Commands(k)
  PROVE  PresentIsEntitled'
<1> SUFFICES ASSUME NEW a \in Access
             PROVE  EntitledRow(a)'
  BY DEF PresentIsEntitled, EntitledRow
<1> USE DEF customerVars
<1>0. /\ EntitledRow(a)
      /\ OwnerOf[a] = k => a \in Rows(k)
      /\ Live(k) \subseteq Rows(k) /\ InSync(k) \subseteq Rows(k) /\ New(k) \subseteq Rows(k)
      /\ a \in Rows(k) /\ access[a] = "PRESENT" => a \in Live(k)
      /\ a \in Live(k) /\ a \notin drifted => a \in InSync(k)
      /\ Rows(k) \subseteq Access
      /\ {} \in SUBSET Rows(k)
  BY DEF PresentIsEntitled, EntitledRow, Live, InSync, New, Rows
<1>1. lifecycle[k] # "DELETED" =>
        (exhausted[k] <=> IsQuotaExhausted(Spent(k), quota[k]))
  BY DEF MarkInv, MarkOf
<1>2. CASE OwnerOf[a] # k
  <2> DEFINE Kept == /\ access'[a] = access[a]
                     /\ lifecycle'[OwnerOf[a]] = lifecycle[OwnerOf[a]]
                     /\ exhausted'[OwnerOf[a]] = exhausted[OwnerOf[a]]
                     /\ a \in drifted => a \in drifted'
  <2>1. Kept
    <3>1. OwnerOf[a] \in Customer /\ a \notin Rows(k)
      BY <1>2, UsageAssumption DEF Rows, UsageAssumption
    <3>2. ASSUME NEW limit \in Quota, NEW new \in SUBSET Access,
                 OpenPeriod(k, limit, new) \/ ChangeQuota(k, limit, new)
          PROVE  Kept
      <4>1. access'[a] = access[a]
        BY <1>0, <1>2, <3>2, RewriteOthers DEF OpenPeriod, ChangeQuota
      <4> QED
        BY <1>2, <3>1, <3>2, <4>1 DEF OpenPeriod, ChangeQuota, TypeOK
    <3>3. CASE Block(k) \/ Unblock(k) \/ Delete(k)
      <4>1. access'[a] = access[a]
        BY <1>0, <1>2, <3>3, RewriteOthers DEF Block, Unblock, Delete
      <4> QED
        BY <1>2, <3>1, <3>3, <4>1 DEF Block, Unblock, Delete, TypeOK
    <3>4. CASE Finalize(k)
      BY <1>2, <3>1, <3>4 DEF Finalize, Stored, TypeOK
    <3>5. ASSUME NEW gone \in SUBSET Access, NEW new \in SUBSET Access,
                 Materialize(k, gone, new)
          PROVE  Kept
      <4>1. access'[a] = access[a]
        BY <1>0, <1>2, <3>5, RewriteOthers DEF Materialize
      <4> QED
        BY <3>1, <3>5, <4>1 DEF Materialize
    <3> QED
      BY <3>2, <3>3, <3>4, <3>5 DEF Commands
  <2> QED
    BY <1>0, <2>1 DEF EntitledRow
<1>3. ASSUME OwnerOf[a] = k, NEW limit \in Quota, NEW new \in SUBSET Access,
             OpenPeriod(k, limit, new)
      PROVE  EntitledRow(a)'
  <2> DEFINE to == IF lifecycle[k] = "DELETED" THEN "ACTIVE" ELSE lifecycle[k]
  <2>1. /\ Rewrite(InSync(k), new, {}, DesiredState(to, FALSE))
        /\ lifecycle'[k] = to /\ ~exhausted'[k]
    BY <1>3 DEF OpenPeriod, TypeOK
  <2>2. access'[a] = "PRESENT" => access[a] = "PRESENT" \/ DesiredState(to, FALSE) = "PRESENT"
    BY <2>1 DEF Rewrite
  <2>3. access'[a] = "PRESENT" => to = "ACTIVE"
    BY <1>0, <1>3, <2>2, DesiredPresent DEF EntitledRow
  <2> QED
    BY <1>3, <2>1, <2>3 DEF EntitledRow
<1>4. ASSUME OwnerOf[a] = k, NEW limit \in Quota, NEW new \in SUBSET Access,
             ChangeQuota(k, limit, new)
      PROVE  EntitledRow(a)'
  <2> DEFINE spent == RecomputeExhausted(k, limit)
             state == DesiredState(lifecycle[k], spent)
  <2>1. /\ Rewrite(InSync(k), new, {}, state)
        /\ lifecycle' = lifecycle /\ drifted' = drifted
        /\ exhausted'[k] = spent
    BY <1>4 DEF ChangeQuota, TypeOK
  <2>2. CASE a \in InSync(k) \cup new
    <3>1. access'[a] = state
      BY <2>1, <2>2 DEF Rewrite
    <3> QED
      BY <1>4, <2>1, <3>1, DesiredPresent DEF EntitledRow
  <2>3. CASE a \notin InSync(k) \cup new
    <3>1. access'[a] = access[a]
      BY <2>1, <2>3 DEF Rewrite
    <3> QED
      BY <1>0, <1>4, <2>1, <2>3, <3>1 DEF EntitledRow
  <2> QED
    BY <2>2, <2>3
<1>5. CASE OwnerOf[a] = k /\ (Block(k) \/ Delete(k))
  <2>1. Rewrite(Live(k), {}, {}, "ABSENT")
    BY <1>5 DEF Block, Delete
  <2>2. access'[a] # "PRESENT"
    BY <1>0, <1>5, <2>1 DEF Rewrite
  <2> QED
    BY <2>2 DEF EntitledRow
<1>6. CASE OwnerOf[a] = k /\ Unblock(k)
  <2> DEFINE spent == IsQuotaExhausted(Spent(k), quota[k])
             state == DesiredState("ACTIVE", spent)
  <2>1. /\ Rewrite(InSync(k), {}, {}, state)
        /\ lifecycle'[k] = "ACTIVE" /\ exhausted' = exhausted
        /\ lifecycle[k] = "BLOCKED"
    BY <1>6 DEF Unblock, TypeOK
  <2>2. access[a] # "PRESENT"
    BY <1>0, <1>6, <2>1 DEF EntitledRow
  <2>3. access'[a] = "PRESENT" => state = "PRESENT"
    BY <2>1, <2>2 DEF Rewrite
  <2>4. access'[a] = "PRESENT" => ~exhausted[k]
    BY <1>1, <2>1, <2>3, DesiredPresent
  <2> QED
    BY <1>6, <2>1, <2>4 DEF EntitledRow
<1>7. CASE OwnerOf[a] = k /\ Finalize(k)
  <2>1. access'[a] # "PRESENT"
    BY <1>0, <1>7 DEF Finalize, Stored
  <2> QED
    BY <2>1 DEF EntitledRow
<1>8. ASSUME OwnerOf[a] = k, NEW gone \in SUBSET Access, NEW new \in SUBSET Access,
             Materialize(k, gone, new)
      PROVE  EntitledRow(a)'
  <2> DEFINE spent == IsQuotaExhausted(Spent(k), quota[k])
             state == DesiredState(lifecycle[k], spent)
  <2>1. /\ Rewrite(Live(k), new, gone, state)
        /\ lifecycle' = lifecycle /\ exhausted' = exhausted
        /\ lifecycle[k] # "DELETED"
    BY <1>8 DEF Materialize
  <2>2. access'[a] = "PRESENT" => state = "PRESENT"
    BY <1>0, <1>8, <2>1 DEF Rewrite
  <2>3. access'[a] = "PRESENT" => lifecycle[k] = "ACTIVE" /\ ~exhausted[k]
    BY <1>1, <2>1, <2>2, DesiredPresent
  <2> QED
    BY <1>8, <2>1, <2>3 DEF EntitledRow
<1> QED
  BY <1>2, <1>3, <1>4, <1>5, <1>6, <1>7, <1>8 DEF Commands

LEMMA ChargeEntitled ==
  ASSUME TypeOK, MarkInv, PresentIsEntitled, NEW w \in Worker, NEW k \in Customer,
         Charge(w, k)
  PROVE  PresentIsEntitled'
<1> SUFFICES ASSUME NEW a \in Access
             PROVE  EntitledRow(a)'
  BY DEF PresentIsEntitled, EntitledRow
<1> DEFINE t       == task[w]
           p       == PeriodAt(k, t.batch.at[k])
           fresh   == Fresh(t, k)
           sum     == total[k][p] + Cardinality(fresh)
           crosses == fresh # {} /\ ~exhausted[k] /\ IsQuotaExhausted(sum, quota[k])
<1>0. EntitledRow(a)
  BY DEF PresentIsEntitled, EntitledRow
<1>1. /\ Rewrite(IF crosses THEN Withdrawn(t, k) ELSE {}, {}, {}, "ABSENT")
      /\ exhausted' = [exhausted EXCEPT ![k] = @ \/ crosses]
      /\ UNCHANGED <<lifecycle, drifted>>
  BY DEF Charge
<1>2. access'[a] = "PRESENT" => access[a] = "PRESENT"
  BY <1>1 DEF Rewrite
<1>3. CASE OwnerOf[a] = k /\ crosses
  <2>1. access'[a] # "PRESENT"
    BY <1>1, <1>3 DEF Rewrite, Withdrawn, Live, Rows
  <2> QED
    BY <2>1 DEF EntitledRow
<1>4. CASE ~(OwnerOf[a] = k /\ crosses)
  <2>1. exhausted'[OwnerOf[a]] => exhausted[OwnerOf[a]]
    <3>1. OwnerOf[a] \in Customer /\ exhausted \in [Customer -> BOOLEAN]
      BY UsageAssumption DEF UsageAssumption, TypeOK
    <3> QED
      BY <1>1, <1>4, <3>1
  <2> QED
    BY <1>0, <1>1, <1>2, <2>1 DEF EntitledRow
<1> QED
  BY <1>3, <1>4

LEMMA EntitledStep == TypeOK /\ MarkInv /\ PresentIsEntitled /\ [Next]_vars => PresentIsEntitled'
<1> SUFFICES ASSUME TypeOK, MarkInv, PresentIsEntitled, [Next]_vars
             PROVE  PresentIsEntitled'
  OBVIOUS
<1>1. CASE UNCHANGED <<customerVars, accessVars>> \/ \E a \in Access : Drift(a)
  BY <1>1 DEF Drift, customerVars, accessVars, PresentIsEntitled
<1> QED
  BY <1>1, CommandEntitled, ChargeEntitled, Classes

\* Whoever is blocked, deleted or out of quota has no access on the node,
\* rows that wait for the materialization job excepted.
THEOREM PresentEntitled == Spec => []PresentIsEntitled
<1>1. Init => PresentIsEntitled
  BY DEF Init, PresentIsEntitled
<1> QED
  BY <1>1, MarkInit, MarkStep, EntitledStep, TypeCorrect, PTL DEF Spec

-----------------------------------------------------------------------------
(* Every item once. *)

LEMMA RegistrySteps ==
  ASSUME [Next]_vars
  PROVE  \/ UNCHANGED registryVars
         \/ \E k \in Customer : Finalize(k)
         \/ \E w \in Worker : Quarantine(w)
         \/ \E w \in Worker, k \in Customer : IgnoreClosed(w, k) \/ Charge(w, k)
         \/ Age \/ \E some \in SUBSET Prunable : Prune(some)
<1>1. CASE UNCHANGED vars
  BY <1>1 DEF vars
<1>2. ASSUME NEW k \in Customer, Commands(k)
      PROVE  UNCHANGED registryVars \/ Finalize(k)
  BY <1>2 DEF Commands, OpenPeriod, ChangeQuota, Block, Unblock, Delete, Materialize
<1>3. CASE \/ \E a \in Access : Drift(a)
           \/ \E items \in SUBSET Item, at \in Moment : Collect(items, at)
           \/ LoseSpool
  BY <1>3 DEF Drift, Collect, LoseSpool
<1>4. ASSUME NEW w \in Worker, Claim(w) \/ Repeat(w) \/ PullFails(w) \/ Fail(w)
      PROVE  UNCHANGED registryVars
  BY <1>4 DEF Claim, Repeat, PullFails, Fail, Answer
<1>5. ASSUME NEW w \in Worker, Step(w)
      PROVE  \/ UNCHANGED registryVars
             \/ Quarantine(w)
             \/ \E k \in Customer : IgnoreClosed(w, k) \/ Charge(w, k)
  <2>1. CASE Pull(w) \/ Advance(w) \/ Done(w) \/ Release(w)
    BY <2>1 DEF Pull, Answer, Advance, Done, Release
  <2>2. CASE \E b \in task[w].rest : SkipBatch(w, b) \/ StartBatch(w, b)
    BY <2>2 DEF SkipBatch, StartBatch
  <2>3. ASSUME NEW k \in Customer, NoPeriod(w, k) \/ GroupFails(w, k)
        PROVE  UNCHANGED registryVars
    BY <2>3 DEF NoPeriod, GroupFails
  <2> QED
    BY <1>5, <2>1, <2>2, <2>3 DEF Step
<1>6. CASE LeaseExpires \/ \E p \in Process : Crash(p)
  BY <1>6 DEF Crash, LeaseExpires
<1> QED
  BY <1>1, <1>2, <1>3, <1>4, <1>5, <1>6 DEF Next

LEMMA TaskSteps ==
  ASSUME TypeOK, [Next]_vars, NEW w \in Worker
  PROVE  \/ task'[w] = task[w]
         \/ task'[w] \in {Idle, Releasing}
         \/ Claim(w) \/ Pull(w) \/ Repeat(w)
         \/ task[w].pc = "choosing" /\ \E b \in task[w].rest : SkipBatch(w, b) \/ StartBatch(w, b)
         \/ Quarantine(w) \/ Advance(w)
         \/ \E k \in Customer : NoPeriod(w, k) \/ IgnoreClosed(w, k) \/ Charge(w, k)
<1> DEFINE Goal ==
         \/ task'[w] = task[w]
         \/ task'[w] \in {Idle, Releasing}
         \/ Claim(w) \/ Pull(w) \/ Repeat(w)
         \/ task[w].pc = "choosing" /\ \E b \in task[w].rest : SkipBatch(w, b) \/ StartBatch(w, b)
         \/ Quarantine(w) \/ Advance(w)
         \/ \E k \in Customer : NoPeriod(w, k) \/ IgnoreClosed(w, k) \/ Charge(w, k)
<1>0. ASSUME NEW u \in Worker, NEW t, Becomes(u, t)
      PROVE  (u = w => task'[w] = t) /\ (u # w => task'[w] = task[w])
  BY <1>0 DEF Becomes, TypeOK
<1> USE DEF pullVars
<1>1. CASE UNCHANGED vars
  BY <1>1 DEF vars
<1>2. ASSUME NEW k \in Customer, Commands(k)
      PROVE  task'[w] = task[w]
  BY <1>2 DEF Commands, OpenPeriod, ChangeQuota, Block, Unblock, Delete, Materialize,
              Finalize
<1>3. CASE \/ \E a \in Access : Drift(a)
           \/ \E items \in SUBSET Item, at \in Moment : Collect(items, at)
           \/ LoseSpool
  BY <1>3 DEF Drift, Collect, LoseSpool
<1>4. ASSUME NEW u \in Worker, Claim(u) \/ Repeat(u) \/ PullFails(u) \/ Fail(u)
      PROVE  Goal
  <2>1. CASE u = w
    BY <1>0, <1>4, <2>1 DEF PullFails, Fail
  <2>2. CASE u # w
    BY <1>0, <1>4, <2>2 DEF Claim, Repeat, PullFails, Fail, Answer
  <2> QED
    BY <2>1, <2>2
<1>5. ASSUME NEW u \in Worker, Step(u)
      PROVE  Goal
  <2>1. CASE u = w
    <3>1. Done(u) \/ Release(u) \/ (\E k \in Customer : GroupFails(u, k)) =>
            task'[w] \in {Idle, Releasing}
      BY <1>0, <2>1 DEF Done, Release, GroupFails
    <3> QED
      BY <1>5, <2>1, <3>1 DEF Step
  <2>2. CASE u # w
    <3>1. CASE Pull(u) \/ Quarantine(u) \/ Advance(u) \/ Done(u) \/ Release(u)
      BY <1>0, <2>2, <3>1 DEF Pull, Answer, Quarantine, Advance, Done, Release
    <3>2. CASE \E b \in task[u].rest : SkipBatch(u, b) \/ StartBatch(u, b)
      BY <1>0, <2>2, <3>2 DEF SkipBatch, StartBatch
    <3>3. ASSUME NEW k \in Customer,
                 NoPeriod(u, k) \/ IgnoreClosed(u, k) \/ Charge(u, k) \/ GroupFails(u, k)
          PROVE  task'[w] = task[w]
      BY <1>0, <2>2, <3>3 DEF NoPeriod, IgnoreClosed, Charge, GroupFails, Register
    <3> QED
      BY <1>5, <3>1, <3>2, <3>3 DEF Step
  <2> QED
    BY <2>1, <2>2
<1>6. ASSUME NEW p \in Process, Crash(p)
      PROVE  Goal
  BY <1>6 DEF Crash, TypeOK
<1>7. CASE LeaseExpires \/ Age \/ \E some \in SUBSET Prunable : Prune(some)
  BY <1>7 DEF LeaseExpires, Age, Prune
<1> QED
  BY <1>1, <1>2, <1>3, <1>4, <1>5, <1>6, <1>7 DEF Next

\* Rows are never taken back: what exists was created, what is gone is gone.
LEMMA AccessGrows ==
  ASSUME TypeOK, [Next]_vars, NEW a \in Access
  PROVE  /\ access[a] # "NONE" => access'[a] # "NONE"
         /\ access[a] = "GONE" => access'[a] = "GONE"
<1> DEFINE Grows == /\ access[a] # "NONE" => access'[a] # "NONE"
                    /\ access[a] = "GONE" => access'[a] = "GONE"
<1>1. ASSUME NEW k \in Customer, NEW changed \in SUBSET Live(k), NEW new \in SUBSET New(k),
             NEW gone \in SUBSET Live(k), NEW state \in {"PRESENT", "ABSENT"},
             Rewrite(changed, new, gone, state)
      PROVE  Grows
  BY <1>1 DEF Rewrite, Live, New
<1>2. ASSUME NEW k \in Customer, Commands(k)
      PROVE  Grows
  <2>1. InSync(k) \subseteq Live(k) /\ {} \in SUBSET New(k) /\ {} \in SUBSET Live(k)
    BY DEF InSync
  <2>2. ASSUME NEW limit \in Quota, NEW new \in SUBSET Access,
               OpenPeriod(k, limit, new) \/ ChangeQuota(k, limit, new)
        PROVE  Grows
    <3>1. new \in SUBSET New(k)
      BY <2>2 DEF OpenPeriod, ChangeQuota
    <3>2. CASE OpenPeriod(k, limit, new)
      <4> DEFINE state == DesiredState(IF lifecycle[k] = "DELETED" THEN "ACTIVE"
                                       ELSE lifecycle[k], FALSE)
      <4>1. Rewrite(InSync(k), new, {}, state)
        BY <3>2 DEF OpenPeriod
      <4>2. state \in {"PRESENT", "ABSENT"}
        BY DesiredStateType
      <4> QED
        BY <1>1, <2>1, <3>1, <4>1, <4>2
    <3>3. CASE ChangeQuota(k, limit, new)
      <4> DEFINE state == DesiredState(lifecycle[k], RecomputeExhausted(k, limit))
      <4>1. Rewrite(InSync(k), new, {}, state)
        BY <3>3 DEF ChangeQuota
      <4>2. state \in {"PRESENT", "ABSENT"}
        BY DesiredStateType
      <4> QED
        BY <1>1, <2>1, <3>1, <4>1, <4>2
    <3> QED
      BY <2>2, <3>2, <3>3
  <2>3. CASE Block(k) \/ Unblock(k) \/ Delete(k)
    BY <1>1, <2>1, <2>3, DesiredStateType DEF Block, Unblock, Delete
  <2>4. CASE Finalize(k)
    BY <2>4 DEF Finalize, Stored
  <2>5. ASSUME NEW gone \in SUBSET Access, NEW new \in SUBSET Access,
               Materialize(k, gone, new)
        PROVE  Grows
    BY <1>1, <2>1, <2>5, DesiredStateType DEF Materialize
  <2> QED
    BY <1>2, <2>2, <2>3, <2>4, <2>5 DEF Commands
<1>3. ASSUME NEW w \in Worker, NEW k \in Customer, Charge(w, k)
      PROVE  Grows
  <2>1. PICK changed \in SUBSET Live(k) : Rewrite(changed, {}, {}, "ABSENT")
    BY <1>3 DEF Charge, Withdrawn
  <2> QED
    BY <1>1, <2>1
<1>4. CASE UNCHANGED <<customerVars, accessVars>> \/ \E b \in Access : Drift(b)
  BY <1>4 DEF accessVars, Drift
<1> QED
  BY <1>2, <1>3, <1>4, Classes

\* An item counted once is in the registry, or its access is gone for ever;
\* a goroutine charges only items whose access exists or existed.
Remembered(x) ==
  /\ x.item \in Access
  /\ access[x.item] # "NONE"
  /\ x \in registry \/ access[x.item] = "GONE"

KnownExist(w) ==
  task[w].pc = "consuming" => \A a \in task[w].known : access[a] # "NONE"

OnceInv ==
  /\ aged = {}
  /\ \A x \in Key : counted[x] <= 1 /\ (counted[x] # 0 => Remembered(x))
  /\ \A w \in Worker : KnownExist(w)

LEMMA KnownStep ==
  ASSUME TypeOK, [Next]_vars, NEW w \in Worker, KnownExist(w)
  PROVE  KnownExist(w)'
<1> SUFFICES ASSUME task'[w].pc = "consuming", NEW a \in task'[w].known
             PROVE  access'[a] # "NONE"
  BY DEF KnownExist
<1> DEFINE t == task[w]
<1>0. t \in Task /\ (t.pc = "consuming" => t \in Consuming)
  BY TaskFields DEF TypeOK
<1>1. ASSUME t.pc = "consuming", a \in t.known
      PROVE  access'[a] # "NONE"
  <2>1. a \in Access /\ access[a] # "NONE"
    BY <1>0, <1>1 DEF KnownExist, Consuming
  <2> QED
    BY <2>1, AccessGrows
<1>2. CASE task'[w] = task[w]
  BY <1>1, <1>2
<1>3. CASE task'[w] \in {Idle, Releasing} \/ Claim(w) \/ Pull(w) \/ Repeat(w) \/ Advance(w)
  BY <1>3 DEF Idle, Releasing, Claim, Pull, Repeat, Answer, Advance, Becomes, TypeOK
<1>4. ASSUME NEW b \in t.rest, t.pc = "choosing", SkipBatch(w, b) \/ StartBatch(w, b)
      PROVE  access'[a] # "NONE"
  <2>1. t \in Choosing
    BY <1>0, <1>4, TaskFields
  <2>2. CASE SkipBatch(w, b)
    BY <2>1, <2>2 DEF SkipBatch, Becomes, TypeOK, Choosing
  <2>3. CASE StartBatch(w, b)
    <3>1. a \in Resolved(b.items)
      BY <2>3 DEF StartBatch, Becomes, TypeOK
    <3>2. a \in Access /\ access[a] # "NONE"
      BY <3>1 DEF Resolved
    <3> QED
      BY <3>2, AccessGrows
  <2> QED
    BY <1>4, <2>2, <2>3
<1>5. CASE Quarantine(w)
  <2>1. t.pc = "consuming" /\ a \in t.known
    BY <1>0, <1>5 DEF Quarantine, Becomes, TypeOK, Consuming
  <2> QED
    BY <1>1, <2>1
<1>6. ASSUME NEW k \in Customer, NoPeriod(w, k) \/ IgnoreClosed(w, k) \/ Charge(w, k)
      PROVE  access'[a] # "NONE"
  <2>1. t \in Consuming
    BY <1>0, <1>6 DEF NoPeriod, IgnoreClosed, Charge, GroupNext
  <2>2. task'[w].known = LeftAfter(t, k)
    <3>1. CASE NoPeriod(w, k)
      BY <2>1, <3>1 DEF NoPeriod, Becomes, TypeOK, Consuming
    <3>2. CASE Register(w, k)
      BY <2>1, <3>2 DEF Register, Becomes, TypeOK, Consuming
    <3> QED
      BY <1>6, <3>1, <3>2 DEF IgnoreClosed, Charge
  <2>3. t.pc = "consuming" /\ a \in t.known
    BY <2>1, <2>2 DEF LeftAfter, Consuming
  <2> QED
    BY <1>1, <2>3
<1> QED
  BY <1>2, <1>3, <1>4, <1>5, <1>6, TaskSteps

\* What is remembered stays so: a row of the registry goes with its access.
LEMMA RememberedStep ==
  ASSUME TypeOK, OnceInv, [Next]_vars, NEW x \in Key, Remembered(x)
  PROVE  Remembered(x)'
<1>1. x.item \in Access /\ access'[x.item] # "NONE"
  BY AccessGrows DEF Remembered
<1>2. CASE access[x.item] = "GONE"
  BY <1>1, <1>2, AccessGrows DEF Remembered
<1>3. CASE access[x.item] # "GONE" /\ UNCHANGED registryVars
  BY <1>1, <1>3 DEF Remembered, registryVars
<1>4. ASSUME access[x.item] # "GONE", NEW k \in Customer, Finalize(k)
      PROVE  Remembered(x)'
  BY <1>1, <1>4 DEF Remembered, Finalize
<1>5. CASE access[x.item] # "GONE" /\ \E w \in Worker : Quarantine(w)
  BY <1>1, <1>5 DEF Remembered, Quarantine
<1>6. ASSUME access[x.item] # "GONE", NEW w \in Worker, NEW k \in Customer,
             IgnoreClosed(w, k) \/ Charge(w, k)
      PROVE  Remembered(x)'
  BY <1>1, <1>6 DEF Remembered, IgnoreClosed, Charge, Register
<1>7. CASE access[x.item] # "GONE" /\ (Age \/ \E some \in SUBSET Prunable : Prune(some))
  BY <1>1, <1>7 DEF Remembered, OnceInv, Age, Prune, Prunable
<1> QED
  BY <1>2, <1>3, <1>4, <1>5, <1>6, <1>7, RegistrySteps DEF Remembered

\* A charge counts only what nobody remembers, and remembers it.
LEMMA ChargeOnce ==
  ASSUME TypeOK, OnceInv, NEW w \in Worker, NEW k \in Customer, Charge(w, k),
         NEW x \in Key, counted'[x] # counted[x]
  PROVE  /\ counted[x] = 0 /\ counted'[x] = 1
         /\ Remembered(x)'
<1> DEFINE t == task[w]
<1>1. t \in Consuming
  BY TaskFields DEF Charge, GroupNext, TypeOK
<1>2. x \in KeysOf(t, Fresh(t, k)) /\ counted'[x] = counted[x] + 1
  BY DEF Charge
<1>3. PICK a \in Fresh(t, k) : x = KeyOf(t, a)
  BY <1>2 DEF KeysOf
<1>4. a \in t.known /\ a \in Access /\ x \notin registry /\ x.item = a
  BY <1>1, <1>3 DEF Fresh, Group, KeyOf, Consuming
<1>5. access[a] # "GONE"
  BY <1>3 DEF Charge, Register, Registrable
<1>6. access[a] # "NONE"
  BY <1>1, <1>4 DEF OnceInv, KnownExist, Consuming
<1>7. counted[x] = 0
  BY <1>4, <1>5 DEF OnceInv, Remembered
<1>8. x \in registry'
  BY <1>2 DEF Charge, Register
<1>9. access'[a] # "NONE"
  BY <1>4, <1>6 DEF Charge, Rewrite
<1> QED
  BY <1>2, <1>4, <1>7, <1>8, <1>9 DEF Remembered

LEMMA OnceStep ==
  ASSUME "age" \notin Events
  PROVE  TypeOK /\ OnceInv /\ [Next]_vars => OnceInv'
<1> SUFFICES ASSUME TypeOK, OnceInv, [Next]_vars
             PROVE  OnceInv'
  OBVIOUS
<1>1. aged' = {}
  BY RegistrySteps DEF OnceInv, registryVars, Finalize, Quarantine, IgnoreClosed, Charge,
                       Age, Spend, Prune, Prunable
<1>2. ASSUME NEW x \in Key
      PROVE  counted'[x] <= 1 /\ (counted'[x] # 0 => Remembered(x)')
  <2>1. CASE counted'[x] = counted[x]
    BY <2>1, RememberedStep DEF OnceInv
  <2>2. CASE counted'[x] # counted[x]
    <3>1. PICK w \in Worker, k \in Customer : Charge(w, k)
      BY <2>2, RegistrySteps DEF registryVars, Finalize, Quarantine, IgnoreClosed, Age, Prune
    <3> QED
      BY <2>2, <3>1, ChargeOnce
  <2> QED
    BY <2>1, <2>2
<1>3. ASSUME NEW w \in Worker
      PROVE  KnownExist(w)'
  BY <1>3, KnownStep DEF OnceInv
<1> QED
  BY <1>1, <1>2, <1>3 DEF OnceInv

\* While the rows of the registry are younger than the retention, no item is
\* added to a total twice, whoever pulls and whatever fails.
THEOREM OnceWhileYoung ==
  ASSUME "age" \notin Events
  PROVE  Spec => []CountedOnce
<1>1. Init => OnceInv
  BY DEF Init, OnceInv, KnownExist, Idle
<1>2. OnceInv => CountedOnce
  BY DEF OnceInv, CountedOnce
<1>3. TypeOK /\ OnceInv /\ [Next]_vars => OnceInv'
  BY OnceStep
<1> QED
  BY <1>1, <1>2, <1>3, TypeCorrect, PTL DEF Spec

-----------------------------------------------------------------------------
(* Acknowledgements.                                                       *)
(*                                                                         *)
(* What must hold of an agent (its spool n and the batches it keeps) and   *)
(* of the settled items is stated for constants, so that a step is shown   *)
(* in two parts: the world moves under a goroutine, and the goroutine      *)
(* moves in the world.                                                     *)

BatchKeys(s, b) == {[spool |-> s, seq |-> b.seq, item |-> i] : i \in b.items}

\* The batches up to the cursor c are settled, those still kept included.
Confirmed(c, n, kept, done) ==
  /\ c.spool <= n.id
  /\ c.spool = n.id =>
       /\ c.seq <= n.top
       /\ \A b \in kept : b.seq <= c.seq => BatchKeys(n.id, b) \subseteq done

\* some are the oldest unsettled batches of spool s that the agent keeps.
Orderly(s, some, n, kept, done) ==
  /\ s <= n.id
  /\ s = n.id =>
       /\ \A b \in some : b.seq <= n.top
       /\ \A b, c \in some : b.seq = c.seq => b = c
       /\ \A b \in some, c \in kept : b.seq = c.seq => b = c
       /\ \A c \in kept : \/ c \in some
                          \/ BatchKeys(s, c) \subseteq done
                          \/ \A b \in some : b.seq < c.seq

TaskOrder(t, n, kept, done) ==
  /\ t.pc = "pulling" => Confirmed(t.from, n, kept, done)
  /\ t.pc = "choosing" => /\ Confirmed(t.at, n, kept, done)
                          /\ Orderly(t.spool, t.rest, n, kept, done)
  /\ t.pc = "consuming" =>
       /\ Confirmed(t.at, n, kept, done)
       /\ Orderly(t.spool, t.rest \cup {t.batch}, n, kept, done)
       /\ t.spool = n.id => \A c \in t.rest : t.batch.seq < c.seq
       /\ \A i \in t.batch.items : i \in t.bad \cup t.known \/ KeyOf(t, i) \in done

Numbered(n, kept) ==
  /\ IsFiniteSet(kept)
  /\ \A b \in kept : b.seq <= n.top
  /\ \A b, c \in kept : b.seq = c.seq => b = c

OrderInv ==
  /\ Numbered(spool, pending)
  /\ Confirmed(cursor, spool, pending, settled)
  /\ \A w \in Worker : TaskOrder(task[w], spool, pending, settled)

\* How the world moves: items are settled, batches dropped or added at the
\* end, and a spool gives way to a later one.
Moved(n, kept, done, n1, kept1, done1) ==
  /\ done \subseteq done1
  /\ \/ /\ n1.id = n.id /\ n.top <= n1.top
        /\ \A b \in kept1 : b \in kept \/ b.seq > n.top
     \/ n1.id > n.id

AgentSpool == [id : 1 .. MaxSpool, top : 0 .. MaxSeq]

LEMMA AgentNumbers ==
  ASSUME NEW n \in AgentSpool
  PROVE  n.id \in Nat /\ n.top \in Nat
  BY UsageAssumption DEF AgentSpool, UsageAssumption

LEMMA BatchNumber ==
  ASSUME NEW b \in Batch
  PROVE  b.seq \in Nat /\ b.seq >= 1
  BY BatchFields, UsageAssumption DEF UsageAssumption

LEMMA CursorNumbers ==
  ASSUME NEW c \in Cursor
  PROVE  c.spool \in Nat /\ c.seq \in Nat
  BY UsageAssumption DEF Cursor, UsageAssumption

LEMMA MovedConfirmed ==
  ASSUME NEW n \in AgentSpool, NEW n1 \in AgentSpool,
         NEW kept \in SUBSET Batch, NEW kept1 \in SUBSET Batch, NEW done, NEW done1,
         Moved(n, kept, done, n1, kept1, done1),
         NEW c \in Cursor, Confirmed(c, n, kept, done)
  PROVE  Confirmed(c, n1, kept1, done1)
<1>1. /\ n.id \in Nat /\ n.top \in Nat /\ n1.id \in Nat /\ n1.top \in Nat
      /\ c.spool \in Nat /\ c.seq \in Nat
  BY AgentNumbers, CursorNumbers
<1>2. CASE n1.id > n.id
  BY <1>1, <1>2 DEF Confirmed
<1>3. CASE n1.id = n.id
  <2>1. n.top <= n1.top /\ \A b \in kept1 : b \in kept \/ b.seq > n.top
    BY <1>1, <1>3 DEF Moved
  <2>2. ASSUME c.spool = n1.id, NEW b \in kept1, b.seq <= c.seq
        PROVE  BatchKeys(n1.id, b) \subseteq done1
    <3>1. b \in kept
      BY <1>1, <1>3, <2>1, <2>2, BatchNumber DEF Confirmed
    <3> QED
      BY <1>3, <2>2, <3>1 DEF Confirmed, Moved
  <2> QED
    BY <1>1, <1>3, <2>1, <2>2 DEF Confirmed
<1> QED
  BY <1>1, <1>2, <1>3 DEF Moved

LEMMA MovedOrderly ==
  ASSUME NEW n \in AgentSpool, NEW n1 \in AgentSpool,
         NEW kept \in SUBSET Batch, NEW kept1 \in SUBSET Batch, NEW done, NEW done1,
         Moved(n, kept, done, n1, kept1, done1),
         NEW s \in Nat, NEW some \in SUBSET Batch, Orderly(s, some, n, kept, done)
  PROVE  Orderly(s, some, n1, kept1, done1)
<1>1. n.id \in Nat /\ n.top \in Nat /\ n1.id \in Nat /\ n1.top \in Nat
  BY AgentNumbers
<1>2. CASE n1.id > n.id
  BY <1>1, <1>2 DEF Orderly
<1>3. CASE n1.id = n.id
  <2>1. n.top <= n1.top /\ \A b \in kept1 : b \in kept \/ b.seq > n.top
    BY <1>1, <1>3 DEF Moved
  <2>2. ASSUME s = n1.id
        PROVE  /\ \A b \in some : b.seq <= n1.top
               /\ \A b, c \in some : b.seq = c.seq => b = c
    BY <1>1, <1>3, <2>1, <2>2, BatchNumber DEF Orderly
  <2>3. ASSUME s = n1.id, NEW b \in some, NEW c \in kept1, b.seq = c.seq
        PROVE  b = c
    <3>1. b.seq <= n.top
      BY <1>3, <2>3 DEF Orderly
    <3>2. c \in kept
      BY <1>1, <2>1, <2>3, <3>1, BatchNumber
    <3> QED
      BY <1>3, <2>3, <3>2 DEF Orderly
  <2>4. ASSUME s = n1.id, NEW c \in kept1
        PROVE  \/ c \in some
               \/ BatchKeys(s, c) \subseteq done1
               \/ \A b \in some : b.seq < c.seq
    <3>1. CASE c \in kept
      BY <1>3, <2>4, <3>1 DEF Orderly, Moved
    <3>2. CASE c.seq > n.top
      BY <1>1, <1>3, <2>4, <3>2, BatchNumber DEF Orderly
    <3> QED
      BY <2>1, <3>1, <3>2
  <2> QED
    BY <1>1, <1>3, <2>2, <2>3, <2>4 DEF Orderly
<1> QED
  BY <1>1, <1>2, <1>3 DEF Moved

\* A goroutine that does nothing keeps what it relies on.
LEMMA MovedTask ==
  ASSUME NEW n \in AgentSpool, NEW n1 \in AgentSpool,
         NEW kept \in SUBSET Batch, NEW kept1 \in SUBSET Batch, NEW done, NEW done1,
         Moved(n, kept, done, n1, kept1, done1),
         NEW t \in Task, TaskOrder(t, n, kept, done)
  PROVE  TaskOrder(t, n1, kept1, done1)
<1>0. n.id \in Nat /\ n1.id \in Nat
  BY AgentNumbers
<1>1. t.pc = "pulling" => Confirmed(t.from, n1, kept1, done1)
  BY TaskFields, MovedConfirmed DEF TaskOrder
<1>2. t.pc \in {"choosing", "consuming"} =>
        Confirmed(t.at, n1, kept1, done1) /\ t.spool \in Nat /\ t.rest \in SUBSET Batch
  BY TaskFields, MovedConfirmed, UsageAssumption DEF TaskOrder, UsageAssumption
<1>3. t.pc = "choosing" => Orderly(t.spool, t.rest, n1, kept1, done1)
  BY <1>2, MovedOrderly DEF TaskOrder
<1>4. t.pc = "consuming" => Orderly(t.spool, t.rest \cup {t.batch}, n1, kept1, done1)
  <2>1. t.pc = "consuming" => t.rest \cup {t.batch} \in SUBSET Batch
    BY <1>2, TaskFields
  <2> QED
    BY <1>2, <2>1, MovedOrderly DEF TaskOrder
<1>5. t.pc = "consuming" /\ t.spool = n1.id => \A c \in t.rest : t.batch.seq < c.seq
  <2>1. t.pc = "consuming" /\ t.spool = n1.id => t.spool = n.id
    BY <1>0, <1>2 DEF TaskOrder, Orderly, Moved
  <2> QED
    BY <2>1 DEF TaskOrder
<1>6. t.pc = "consuming" =>
        \A i \in t.batch.items : i \in t.bad \cup t.known \/ KeyOf(t, i) \in done1
  BY DEF TaskOrder, Moved
<1> QED
  BY <1>1, <1>2, <1>3, <1>4, <1>5, <1>6 DEF TaskOrder

\* The agent answers with a prefix of what it keeps.
LEMMA OldestPrefix ==
  ASSUME NEW kept \in SUBSET Batch, IsFiniteSet(kept),
         NEW b \in kept, NEW c \in Oldest(kept), b.seq < c.seq
  PROVE  b \in Oldest(kept)
<1> DEFINE Before(d) == {e \in kept : e.seq < d.seq}
<1>1. Before(b) \subseteq Before(c)
  <2>1. c \in kept
    BY DEF Oldest
  <2> QED
    BY <2>1, BatchNumber
<1>2. IsFiniteSet(Before(c)) /\ IsFiniteSet(Before(b))
  BY FS_Subset
<1>3. Cardinality(Before(b)) <= Cardinality(Before(c))
  BY <1>1, <1>2, FS_Subset
<1>4. Cardinality(Before(c)) < PullLimit
  BY DEF Oldest
<1>5. Cardinality(Before(b)) \in Nat /\ Cardinality(Before(c)) \in Nat
  BY <1>2, FS_CardinalityType
<1>6. Cardinality(Before(b)) < PullLimit
  BY <1>3, <1>4, <1>5, UsageAssumption DEF UsageAssumption
<1> QED
  BY <1>6 DEF Oldest

LEMMA OldestOrderly ==
  ASSUME NEW n \in AgentSpool, NEW kept \in SUBSET Batch, NEW done, Numbered(n, kept)
  PROVE  Orderly(n.id, Oldest(kept), n, kept, done)
<1>1. Oldest(kept) \subseteq kept
  BY DEF Oldest
<1>2. ASSUME NEW c \in kept, c \notin Oldest(kept), NEW b \in Oldest(kept)
      PROVE  b.seq < c.seq
  <2>1. ~(c.seq < b.seq)
    BY <1>2, OldestPrefix DEF Numbered
  <2>2. b.seq # c.seq
    BY <1>1, <1>2 DEF Numbered
  <2> QED
    BY <1>1, <2>1, <2>2, BatchNumber
<1> QED
  BY <1>1, <1>2, AgentNumbers DEF Orderly, Numbered

LEMMA NodeSteps ==
  ASSUME [Next]_vars
  PROVE  \/ UNCHANGED nodeVars
         \/ \E items \in SUBSET Item, at \in Moment : Collect(items, at)
         \/ LoseSpool
         \/ \E w \in Worker : Pull(w) \/ Repeat(w) \/ PullFails(w)
<1>1. CASE UNCHANGED vars
  BY <1>1 DEF vars
<1>2. CASE (\E k \in Customer : Commands(k)) \/ \E a \in Access : Drift(a)
  BY <1>2 DEF Commands, OpenPeriod, ChangeQuota, Block, Unblock, Delete, Materialize,
              Finalize, Drift
<1>3. ASSUME NEW w \in Worker, Claim(w) \/ Fail(w)
      PROVE  UNCHANGED nodeVars
  BY <1>3 DEF Claim, Fail
<1>4. ASSUME NEW w \in Worker, Step(w)
      PROVE  UNCHANGED nodeVars \/ Pull(w)
  <2>1. CASE Quarantine(w) \/ Advance(w) \/ Done(w) \/ Release(w)
    BY <2>1 DEF Quarantine, Advance, Done, Release
  <2>2. CASE \E b \in task[w].rest : SkipBatch(w, b) \/ StartBatch(w, b)
    BY <2>2 DEF SkipBatch, StartBatch
  <2>3. ASSUME NEW k \in Customer,
               NoPeriod(w, k) \/ IgnoreClosed(w, k) \/ Charge(w, k) \/ GroupFails(w, k)
        PROVE  UNCHANGED nodeVars
    BY <2>3 DEF NoPeriod, IgnoreClosed, Charge, GroupFails
  <2> QED
    BY <1>4, <2>1, <2>2, <2>3 DEF Step
<1>5. CASE \/ \E p \in Process : Crash(p)
           \/ LeaseExpires \/ Age
           \/ \E some \in SUBSET Prunable : Prune(some)
  BY <1>5 DEF Crash, LeaseExpires, Age, Prune
<1> QED
  BY <1>1, <1>2, <1>3, <1>4, <1>5 DEF Next

LEMMA SettledGrows ==
  ASSUME [Next]_vars
  PROVE  settled \subseteq settled'
  BY RegistrySteps DEF registryVars, Finalize, Quarantine, IgnoreClosed, Charge, Register,
                       Age, Prune

\* Every step moves the world, and the agent's numbering stays in order.
LEMMA WorldMoves ==
  ASSUME TypeOK, Numbered(spool, pending), [Next]_vars
  PROVE  /\ Moved(spool, pending, settled, spool', pending', settled')
         /\ Numbered(spool', pending')
<1>0. /\ settled \subseteq settled'
      /\ spool \in AgentSpool /\ spool.id \in Nat /\ spool.top \in Nat
      /\ pending \subseteq Batch
  BY SettledGrows, AgentNumbers DEF TypeOK, AgentSpool
<1>1. ASSUME spool' = spool, pending' \subseteq pending
      PROVE  /\ Moved(spool, pending, settled, spool', pending', settled')
             /\ Numbered(spool', pending')
  <2>1. IsFiniteSet(pending')
    BY <1>1, FS_Subset DEF Numbered
  <2> QED
    BY <1>0, <1>1, <2>1 DEF Moved, Numbered
<1>2. CASE UNCHANGED nodeVars
  BY <1>1, <1>2 DEF nodeVars
<1>3. ASSUME NEW items \in SUBSET Item, NEW at \in Moment, Collect(items, at)
      PROVE  /\ Moved(spool, pending, settled, spool', pending', settled')
             /\ Numbered(spool', pending')
  <2> DEFINE new == [seq |-> spool.top + 1, items |-> items, at |-> at]
  <2>1. pending' = pending \cup {new} /\ spool'.id = spool.id /\ spool'.top = spool.top + 1
    BY <1>3 DEF Collect, TypeOK
  <2>2. IsFiniteSet(pending')
    BY <2>1, FS_AddElement DEF Numbered
  <2>3. \A b \in pending : b.seq \in Nat /\ b.seq <= spool.top
    BY <1>0, BatchNumber DEF Numbered
  <2>4. Numbered(spool', pending')
    BY <1>0, <2>1, <2>2, <2>3 DEF Numbered
  <2> QED
    BY <1>0, <2>1, <2>4 DEF Moved
<1>4. CASE LoseSpool
  <2>1. pending' = {} /\ spool'.id = spool.id + 1
    BY <1>4 DEF LoseSpool
  <2> QED
    BY <1>0, <2>1, FS_EmptySet DEF Moved, Numbered
<1>5. ASSUME NEW w \in Worker, Pull(w) \/ Repeat(w) \/ PullFails(w)
      PROVE  spool' = spool /\ pending' \subseteq pending
  BY <1>5 DEF Pull, Repeat, PullFails, Answer, Unacknowledged
<1> QED
  BY <1>1, <1>2, <1>3, <1>4, <1>5, NodeSteps

LEMMA PositionConfirmed ==
  ASSUME NEW n \in AgentSpool, NEW kept \in SUBSET Batch, NEW done,
         NEW t \in Choosing, TaskOrder(t, n, kept, done)
  PROVE  /\ Confirmed(Position(t), n, kept, done)
         /\ Position(t).spool = t.spool
<1>1. /\ t.pc = "choosing" /\ t.spool \in Nat /\ n.top \in Nat
      /\ \A b \in kept : b.seq \in Nat /\ b.seq >= 1
  BY AgentNumbers, BatchNumber, UsageAssumption DEF Choosing, UsageAssumption
<1>2. Confirmed(t.at, n, kept, done) /\ t.spool <= n.id
  BY <1>1 DEF TaskOrder, Orderly
<1>3. CASE t.at.spool = t.spool
  BY <1>2, <1>3 DEF Position
<1>4. CASE t.at.spool # t.spool
  <2>1. Position(t) = [spool |-> t.spool, seq |-> 0]
    BY <1>4 DEF Position
  <2>2. Position(t).spool = t.spool /\ Position(t).seq = 0
    BY <2>1
  <2> QED
    BY <1>1, <1>2, <2>2 DEF Confirmed
<1> QED
  BY <1>3, <1>4

LEMMA SkipOrder ==
  ASSUME NEW n \in AgentSpool, NEW kept \in SUBSET Batch, NEW done,
         NEW t \in Choosing, TaskOrder(t, n, kept, done),
         NEW b \in t.rest, b.seq <= Position(t).seq,
         NEW u, u = [t EXCEPT !.at = Position(t), !.rest = @ \ {b}]
  PROVE  TaskOrder(u, n, kept, done)
<1>1. u.pc = "choosing" /\ u.at = Position(t) /\ u.spool = t.spool /\ u.rest = t.rest \ {b}
  BY DEF Choosing
<1>2. Orderly(t.spool, t.rest, n, kept, done) /\ t.pc = "choosing"
  BY DEF TaskOrder, Choosing
<1>3. ASSUME t.spool = n.id, b \in kept
      PROVE  BatchKeys(t.spool, b) \subseteq done
  BY <1>3, PositionConfirmed DEF Confirmed
<1>4. Orderly(t.spool, t.rest \ {b}, n, kept, done)
  BY <1>2, <1>3 DEF Orderly
<1> QED
  BY <1>1, <1>4, PositionConfirmed DEF TaskOrder

LEMMA StartOrder ==
  ASSUME NEW n \in AgentSpool, NEW kept \in SUBSET Batch, NEW done,
         NEW t \in Choosing, TaskOrder(t, n, kept, done),
         NEW b, IsNext(b, t.rest), NEW known, NEW u,
         u = [pc |-> "consuming", at |-> Position(t), spool |-> t.spool,
              rest |-> t.rest \ {b}, batch |-> b,
              bad |-> b.items \ known, known |-> known]
  PROVE  TaskOrder(u, n, kept, done)
<1>1. /\ u.pc = "consuming" /\ u.at = Position(t) /\ u.spool = t.spool
      /\ u.rest = t.rest \ {b} /\ u.batch = b
      /\ u.bad = b.items \ known /\ u.known = known
  OBVIOUS
<1>2. Orderly(t.spool, t.rest, n, kept, done) /\ t.pc = "choosing"
  BY DEF TaskOrder, Choosing
<1>3. u.rest \cup {u.batch} = t.rest
  BY <1>1 DEF IsNext
<1>4. ASSUME u.spool = n.id, NEW c \in u.rest
      PROVE  u.batch.seq < c.seq
  <2>1. c \in t.rest /\ b \in t.rest /\ c # b /\ b.seq <= c.seq
    BY <1>1, <1>4 DEF IsNext
  <2>2. b.seq # c.seq
    BY <1>1, <1>2, <1>4, <2>1 DEF Orderly
  <2>3. b \in Batch /\ c \in Batch
    BY <2>1 DEF Choosing
  <2> QED
    BY <1>1, <2>1, <2>2, <2>3, BatchNumber
<1>5. Orderly(u.spool, u.rest \cup {u.batch}, n, kept, done)
  BY <1>1, <1>2, <1>3
<1>6. \A i \in u.batch.items : i \in u.bad \cup u.known
  BY <1>1
<1> QED
  BY <1>1, <1>4, <1>5, <1>6, PositionConfirmed DEF TaskOrder

\* Dealing with items: what leaves the hands of the goroutine is settled.
LEMMA WorkOrder ==
  ASSUME NEW n, NEW kept, NEW done,
         NEW t \in Consuming, TaskOrder(t, n, kept, done), NEW u,
         /\ u.pc = "consuming" /\ u.at = t.at /\ u.spool = t.spool
         /\ u.rest = t.rest /\ u.batch = t.batch,
         \A i \in t.bad \cup t.known : i \in u.bad \cup u.known \/ KeyOf(t, i) \in done
  PROVE  TaskOrder(u, n, kept, done)
<1>1. \A i : KeyOf(u, i) = KeyOf(t, i)
  BY DEF KeyOf
<1>2. t.pc = "consuming"
  BY DEF Consuming
<1> QED
  BY <1>1, <1>2 DEF TaskOrder

LEMMA AdvanceOrder ==
  ASSUME NEW n \in AgentSpool, NEW kept \in SUBSET Batch, NEW done,
         NEW t \in Consuming, TaskOrder(t, n, kept, done), t.bad = {}, t.known = {}
  PROVE  /\ Confirmed(Ack(t), n, kept, done)
         /\ TaskOrder([pc |-> "choosing", at |-> Ack(t), spool |-> t.spool,
                       rest |-> t.rest], n, kept, done)
<1> DEFINE some == t.rest \cup {t.batch}
           u == [pc |-> "choosing", at |-> Ack(t), spool |-> t.spool, rest |-> t.rest]
<1>1. /\ t.pc = "consuming" /\ t.batch \in Batch
      /\ Orderly(t.spool, some, n, kept, done)
  BY DEF TaskOrder, Consuming
<1>2. Ack(t).spool = t.spool /\ Ack(t).seq = t.batch.seq
  BY DEF Ack
<1>3. BatchKeys(t.spool, t.batch) \subseteq done
  BY <1>1 DEF TaskOrder, BatchKeys, KeyOf
<1>4. ASSUME t.spool = n.id, NEW b \in kept, b.seq <= t.batch.seq
      PROVE  BatchKeys(n.id, b) \subseteq done
  <2>1. b.seq \in Nat /\ t.batch.seq \in Nat
    BY <1>1, BatchNumber
  <2>2. CASE b \in t.rest
    BY <1>1, <1>4, <2>1, <2>2 DEF TaskOrder
  <2>3. CASE b = t.batch
    BY <1>3, <1>4, <2>3
  <2>4. ~(\A c \in some : c.seq < b.seq)
    BY <1>4, <2>1
  <2> QED
    BY <1>1, <1>4, <2>2, <2>3, <2>4 DEF Orderly
<1>5. Confirmed(Ack(t), n, kept, done)
  BY <1>1, <1>2, <1>4 DEF Confirmed, Orderly
<1>6. Orderly(t.spool, t.rest, n, kept, done)
  <2>1. ASSUME t.spool = n.id, NEW c \in kept
        PROVE  \/ c \in t.rest
               \/ BatchKeys(t.spool, c) \subseteq done
               \/ \A b \in t.rest : b.seq < c.seq
    BY <1>1, <1>3, <2>1 DEF Orderly
  <2> QED
    BY <1>1, <2>1 DEF Orderly
<1>7. u.pc = "choosing" /\ u.at = Ack(t) /\ u.spool = t.spool /\ u.rest = t.rest
  OBVIOUS
<1> QED
  BY <1>5, <1>6, <1>7 DEF TaskOrder

LEMMA CursorSteps ==
  ASSUME [Next]_vars
  PROVE  cursor' = cursor \/ \E w \in Worker : Advance(w)
<1> USE DEF pullVars
<1>1. CASE UNCHANGED vars
  BY <1>1 DEF vars
<1>2. CASE (\E k \in Customer : Commands(k)) \/ \E a \in Access : Drift(a)
  BY <1>2 DEF Commands, OpenPeriod, ChangeQuota, Block, Unblock, Delete, Materialize,
              Finalize, Drift
<1>3. CASE \/ \E items \in SUBSET Item, at \in Moment : Collect(items, at)
           \/ LoseSpool
  BY <1>3 DEF Collect, LoseSpool
<1>4. ASSUME NEW w \in Worker, Claim(w) \/ Repeat(w) \/ PullFails(w) \/ Fail(w)
      PROVE  cursor' = cursor
  BY <1>4 DEF Claim, Repeat, PullFails, Fail, Answer
<1>5. ASSUME NEW w \in Worker, Step(w)
      PROVE  cursor' = cursor \/ Advance(w)
  <2>1. CASE Pull(w) \/ Quarantine(w) \/ Done(w) \/ Release(w)
    BY <2>1 DEF Pull, Answer, Quarantine, Done, Release
  <2>2. CASE \E b \in task[w].rest : SkipBatch(w, b) \/ StartBatch(w, b)
    BY <2>2 DEF SkipBatch, StartBatch
  <2>3. ASSUME NEW k \in Customer,
               NoPeriod(w, k) \/ IgnoreClosed(w, k) \/ Charge(w, k) \/ GroupFails(w, k)
        PROVE  cursor' = cursor
    BY <2>3 DEF NoPeriod, IgnoreClosed, Charge, GroupFails
  <2> QED
    BY <1>5, <2>1, <2>2, <2>3 DEF Step
<1>6. CASE \/ \E p \in Process : Crash(p)
           \/ LeaseExpires \/ Age
           \/ \E some \in SUBSET Prunable : Prune(some)
  BY <1>6 DEF Crash, LeaseExpires, Age, Prune
<1> QED
  BY <1>1, <1>2, <1>3, <1>4, <1>5, <1>6 DEF Next

\* Settling a group: its items are in done, the others stay in hand.
LEMMA RegisterOrder ==
  ASSUME TypeOK, NEW w \in Worker, NEW k, GroupNext(task[w], k), Register(w, k),
         NEW n, NEW kept, TaskOrder(task[w], n, kept, settled')
  PROVE  TaskOrder(task'[w], n, kept, settled')
<1> DEFINE t == task[w]
           u == task'[w]
<1>1. t \in Consuming
  BY TaskFields DEF GroupNext, TypeOK
<1>2. u = [t EXCEPT !.known = LeftAfter(t, k)]
  BY DEF Register, Becomes, TypeOK
<1>3. /\ u.pc = "consuming" /\ u.at = t.at /\ u.spool = t.spool
      /\ u.rest = t.rest /\ u.batch = t.batch
      /\ u.bad = t.bad /\ u.known = LeftAfter(t, k)
  BY <1>1, <1>2 DEF Consuming
<1>4. \A i \in Group(t, k) : KeyOf(t, i) \in settled'
  BY DEF Register, KeysOf
<1>5. \A i \in t.bad \cup t.known : i \in u.bad \cup u.known \/ KeyOf(t, i) \in settled'
  BY <1>3, <1>4 DEF LeftAfter
<1> QED
  BY <1>1, <1>3, <1>5, WorkOrder

LEMMA TaskOrderStep ==
  ASSUME TypeOK, OrderInv, [Next]_vars, NEW w \in Worker
  PROVE  TaskOrder(task'[w], spool', pending', settled')
<1> DEFINE t == task[w]
           Ordered(u) == TaskOrder(u, spool', pending', settled')
<1>0. /\ spool \in AgentSpool /\ spool' \in AgentSpool
      /\ pending \in SUBSET Batch /\ pending' \in SUBSET Batch
      /\ t \in Task /\ task \in [Worker -> Task] /\ cursor \in Cursor
  <2>1. TypeOK'
    BY TypeStep
  <2> QED
    BY <2>1 DEF TypeOK, AgentSpool
<1>1. Moved(spool, pending, settled, spool', pending', settled')
  BY WorldMoves DEF OrderInv
<1>2. Ordered(t)
  BY <1>0, <1>1, MovedTask DEF OrderInv
<1>3. CASE task'[w] = t
  BY <1>2, <1>3
<1>4. CASE task'[w] \in {Idle, Releasing}
  BY <1>4 DEF Idle, Releasing, TaskOrder
<1>5. CASE Claim(w)
  <2>1. task'[w].pc = "pulling" /\ task'[w].from = cursor
    BY <1>0, <1>5 DEF Claim, Becomes
  <2>2. Confirmed(cursor, spool', pending', settled')
    BY <1>0, <1>1, MovedConfirmed DEF OrderInv
  <2> QED
    BY <2>1, <2>2 DEF TaskOrder
<1>6. CASE Pull(w) \/ Repeat(w)
  <2>1. PICK kept : Answer(w, kept)
    BY <1>6 DEF Pull, Repeat
  <2>2. t.pc = "pulling" /\ pending' = kept /\ spool' = spool
    BY <2>1 DEF Answer
  <2>3. task'[w] = [pc |-> "choosing", at |-> t.from, spool |-> spool.id,
                    rest |-> Oldest(pending')]
    BY <1>0, <2>1, <2>2 DEF Answer, Becomes
  <2>4. /\ task'[w].pc = "choosing" /\ task'[w].at = t.from
        /\ task'[w].spool = spool'.id /\ task'[w].rest = Oldest(pending')
    BY <2>2, <2>3
  <2>5. Confirmed(t.from, spool', pending', settled')
    BY <1>2, <2>2 DEF TaskOrder
  <2>6. Orderly(spool'.id, Oldest(pending'), spool', pending', settled')
    <3>1. Numbered(spool', pending')
      BY WorldMoves DEF OrderInv
    <3> QED
      BY <1>0, <3>1, OldestOrderly
  <2> QED
    BY <2>4, <2>5, <2>6 DEF TaskOrder
<1>7. ASSUME t.pc = "choosing", NEW b \in t.rest, SkipBatch(w, b) \/ StartBatch(w, b)
      PROVE  Ordered(task'[w])
  <2>1. t \in Choosing
    BY <1>0, <1>7, TaskFields
  <2>2. CASE SkipBatch(w, b)
    <3>1. task'[w] = [t EXCEPT !.at = Position(t), !.rest = @ \ {b}]
      BY <1>0, <2>2 DEF SkipBatch, Becomes
    <3>2. b.seq <= Position(t).seq
      BY <2>2 DEF SkipBatch
    <3> QED
      BY <1>0, <1>2, <1>7, <2>1, <3>1, <3>2, SkipOrder
  <2>3. CASE StartBatch(w, b)
    <3> DEFINE known == Resolved(b.items)
    <3>1. task'[w] = [pc |-> "consuming", at |-> Position(t), spool |-> t.spool,
                      rest |-> t.rest \ {b}, batch |-> b,
                      bad |-> b.items \ known, known |-> known]
      BY <1>0, <2>3 DEF StartBatch, Becomes
    <3>2. IsNext(b, t.rest)
      BY <2>3 DEF StartBatch
    <3> HIDE DEF known
    <3> QED
      BY <1>0, <1>2, <2>1, <3>1, <3>2, StartOrder
  <2> QED
    BY <1>7, <2>2, <2>3
<1>8. CASE Quarantine(w)
  <2>1. t \in Consuming
    BY <1>0, <1>8, TaskFields DEF Quarantine
  <2>2. task'[w] = [t EXCEPT !.bad = {}]
    BY <1>0, <1>8 DEF Quarantine, Becomes
  <2>3. /\ task'[w].pc = "consuming" /\ task'[w].at = t.at /\ task'[w].spool = t.spool
        /\ task'[w].rest = t.rest /\ task'[w].batch = t.batch
        /\ task'[w].known = t.known
    BY <2>1, <2>2 DEF Consuming
  <2>4. \A i \in t.bad : KeyOf(t, i) \in settled'
    BY <1>8 DEF Quarantine, KeysOf
  <2> QED
    BY <1>2, <2>1, <2>3, <2>4, WorkOrder
<1>9. CASE Advance(w)
  <2>1. t \in Consuming /\ t.bad = {} /\ t.known = {}
    BY <1>0, <1>9, TaskFields DEF Advance
  <2>2. task'[w] = [pc |-> "choosing", at |-> Ack(t), spool |-> t.spool, rest |-> t.rest]
    BY <1>0, <1>9 DEF Advance, Becomes
  <2> QED
    BY <1>0, <1>2, <2>1, <2>2, AdvanceOrder
<1>10. ASSUME NEW k \in Customer, NoPeriod(w, k)
       PROVE  Ordered(task'[w])
  <2>1. t \in Consuming /\ t.bad = {}
    BY <1>0, <1>10, TaskFields DEF NoPeriod, GroupNext
  <2>2. task'[w] = [t EXCEPT !.bad = Group(t, k), !.known = LeftAfter(t, k)]
    BY <1>0, <1>10 DEF NoPeriod, Becomes
  <2>3. /\ task'[w].pc = "consuming" /\ task'[w].at = t.at /\ task'[w].spool = t.spool
        /\ task'[w].rest = t.rest /\ task'[w].batch = t.batch
        /\ task'[w].bad = Group(t, k) /\ task'[w].known = LeftAfter(t, k)
    BY <2>1, <2>2 DEF Consuming
  <2>4. \A i \in t.bad \cup t.known : i \in task'[w].bad \cup task'[w].known
    BY <2>1, <2>3 DEF LeftAfter
  <2> QED
    BY <1>2, <2>1, <2>3, <2>4, WorkOrder
<1>11. ASSUME NEW k \in Customer, IgnoreClosed(w, k) \/ Charge(w, k)
       PROVE  Ordered(task'[w])
  <2>1. GroupNext(t, k) /\ Register(w, k)
    BY <1>11 DEF IgnoreClosed, Charge
  <2> QED
    BY <1>2, <2>1, RegisterOrder
<1> QED
  BY <1>3, <1>4, <1>5, <1>6, <1>7, <1>8, <1>9, <1>10, <1>11, TaskSteps

LEMMA OrderStep == TypeOK /\ OrderInv /\ [Next]_vars => OrderInv'
<1> SUFFICES ASSUME TypeOK, OrderInv, [Next]_vars
             PROVE  OrderInv'
  OBVIOUS
<1>1. /\ Numbered(spool', pending')
      /\ Moved(spool, pending, settled, spool', pending', settled')
  BY WorldMoves DEF OrderInv
<1>2. /\ spool \in AgentSpool /\ spool' \in AgentSpool
      /\ pending \in SUBSET Batch /\ pending' \in SUBSET Batch /\ cursor \in Cursor
  <2>1. TypeOK'
    BY TypeStep
  <2> QED
    BY <2>1 DEF TypeOK, AgentSpool
<1>3. Confirmed(cursor', spool', pending', settled')
  <2>1. CASE cursor' = cursor
    BY <1>1, <1>2, <2>1, MovedConfirmed DEF OrderInv
  <2>2. ASSUME NEW w \in Worker, Advance(w)
        PROVE  Confirmed(cursor', spool', pending', settled')
    <3>1. /\ task[w] \in Consuming /\ task[w].bad = {} /\ task[w].known = {}
          /\ cursor' = Ack(task[w])
          /\ spool' = spool /\ pending' = pending /\ settled' = settled
      BY <2>2, TaskFields DEF Advance, TypeOK, nodeVars, registryVars
    <3>2. TaskOrder(task[w], spool, pending, settled)
      BY DEF OrderInv
    <3> QED
      BY <1>2, <3>1, <3>2, AdvanceOrder
  <2> QED
    BY <2>1, <2>2, CursorSteps
<1> QED
  BY <1>1, <1>3, TaskOrderStep DEF OrderInv

\* What the agent drops in a step was confirmed by a cursor.
LEMMA DropSettled ==
  ASSUME TypeOK, OrderInv, [Next]_vars, spool'.id = spool.id
  PROVE  Held \ Held' \subseteq settled
<1> SUFFICES ASSUME NEW x \in Held \ Held'
             PROVE  x \in settled
  OBVIOUS
<1>1. PICK b \in pending : x \in BatchKeys(spool.id, b)
  BY DEF Held, BatchKeys
<1>2. b \notin pending'
  BY <1>1 DEF Held, BatchKeys
<1>3. PICK w \in Worker : /\ task[w].pc = "pulling"
                          /\ b \notin Unacknowledged(task[w].from)
  <2>1. CASE \E items \in SUBSET Item, at \in Moment : Collect(items, at)
    BY <1>2, <2>1 DEF Collect
  <2>2. CASE LoseSpool
    BY <2>2 DEF LoseSpool, TypeOK
  <2>3. CASE UNCHANGED nodeVars
    BY <1>2, <2>3 DEF nodeVars
  <2>4. ASSUME NEW w \in Worker, Pull(w) \/ Repeat(w) \/ PullFails(w)
        PROVE  task[w].pc = "pulling" /\ b \notin Unacknowledged(task[w].from)
    BY <1>2, <2>4 DEF Pull, Repeat, PullFails, Answer
  <2> QED
    BY <2>1, <2>2, <2>3, <2>4, NodeSteps
<1>4. task[w].from.spool = spool.id /\ ~(b.seq > task[w].from.seq)
  BY <1>3 DEF Unacknowledged
<1>5. b.seq <= task[w].from.seq
  <2>1. task[w].from \in Cursor
    BY <1>3, TaskFields DEF TypeOK
  <2>2. b \in Batch
    BY DEF TypeOK
  <2> QED
    BY <1>4, <2>1, <2>2, BatchNumber, CursorNumbers
<1>6. Confirmed(task[w].from, spool, pending, settled)
  BY <1>3 DEF OrderInv, TaskOrder
<1> QED
  BY <1>1, <1>4, <1>5, <1>6 DEF Confirmed

LEMMA OrderInit == Init => OrderInv
<1> SUFFICES ASSUME Init
             PROVE  OrderInv
  OBVIOUS
<1>1. Numbered(spool, pending)
  BY FS_EmptySet DEF Init, Numbered
<1>2. Confirmed(cursor, spool, pending, settled)
  BY DEF Init, Confirmed
<1>3. \A w \in Worker : TaskOrder(task[w], spool, pending, settled)
  BY DEF Init, Idle, TaskOrder
<1> QED
  BY <1>1, <1>2, <1>3 DEF OrderInv

\* An acknowledgement never runs ahead of the accounting, whoever pulls the
\* node at the same time and whatever fails in between.
THEOREM AckedSettled == Spec => AckedIsSettled
<1>1. TypeOK /\ OrderInv /\ [Next]_vars =>
        [spool'.id = spool.id => Held \ Held' \subseteq settled]_vars
  BY DropSettled
<1> QED
  BY <1>1, OrderInit, OrderStep, TypeCorrect, PTL DEF Spec, AckedIsSettled

-----------------------------------------------------------------------------
(* What became of the items.                                               *)
(*                                                                         *)
(* A batch is known by its spool and its number: whoever carries a copy of *)
(* it carries the same items with the same moment, so what was done to one *)
(* copy was done to all.                                                   *)

Carries(t, s, b) ==
  /\ t.pc \in {"choosing", "consuming"}
  /\ t.spool = s
  /\ b \in t.rest \/ (t.pc = "consuming" /\ b = t.batch)

Seen(s, b) ==
  \/ s = spool.id /\ b \in pending
  \/ \E w \in Worker : Carries(task[w], s, b)

\* A batch nobody saw before is the next one of the agent's spool.
Collected(s, b) ==
  /\ s = spool.id /\ spool'.id = spool.id
  /\ b.seq = spool.top + 1
  /\ pending' = pending \cup {b}
  /\ settled' = settled
  /\ \A a \in b.items \cap Access : access[a] # "NONE"

\* A settled item was added to a total, unless its access is gone for ever or
\* the batch came too late for the period.
Explained(s, b, a) ==
  [spool |-> s, seq |-> b.seq, item |-> a] \in settled =>
    \/ access[a] = "GONE"
    \/ counted[[spool |-> s, seq |-> b.seq, item |-> a]] > 0
    \/ b.at[OwnerOf[a]] < period[OwnerOf[a]]

\* What a goroutine has in hand belongs to its batch, and what it is about to
\* quarantine has no access or no period any more.
InHand(w) ==
  task[w].pc = "consuming" =>
    /\ task[w].bad \cup task[w].known \subseteq task[w].batch.items
    /\ \A a \in task[w].bad \cap Access :
         \/ access[a] = "GONE"
         \/ task[w].batch.at[OwnerOf[a]] < period[OwnerOf[a]]

SettledNumbered ==
  \A x \in settled : /\ x.spool <= spool.id
                     /\ x.spool = spool.id => x.seq <= spool.top

Unambiguous == \A s, b, c : Seen(s, b) /\ Seen(s, c) /\ b.seq = c.seq => b = c
ItemsExist  == \A s, b : Seen(s, b) => \A a \in b.items \cap Access : access[a] # "NONE"
AllExplained == \A s, b : Seen(s, b) => \A a \in b.items \cap Access : Explained(s, b, a)

\* A customer whose deletion was finished has no row left.
Emptied ==
  \A a \in Access : lifecycle[OwnerOf[a]] = "DELETED" => access[a] \in {"NONE", "GONE"}

ChargeInv ==
  /\ registry \subseteq settled
  /\ SettledNumbered
  /\ Unambiguous
  /\ ItemsExist
  /\ AllExplained
  /\ Emptied
  /\ \A w \in Worker : KnownExist(w) /\ InHand(w)

\* The goroutine that deals with items keeps its batches.
LEMMA WorkKeeps ==
  ASSUME TypeOK, NEW w \in Worker,
         \/ Quarantine(w)
         \/ \E k \in Customer : NoPeriod(w, k) \/ IgnoreClosed(w, k) \/ Charge(w, k)
  PROVE  /\ task[w] \in Consuming
         /\ task'[w].pc = "consuming" /\ task'[w].spool = task[w].spool
         /\ task'[w].rest = task[w].rest /\ task'[w].batch = task[w].batch
<1> DEFINE t == task[w]
<1>0. t \in Task /\ task \in [Worker -> Task]
  BY DEF TypeOK
<1>1. CASE Quarantine(w)
  <2>1. t \in Consuming
    BY <1>0, <1>1, TaskFields DEF Quarantine
  <2>2. task'[w] = [t EXCEPT !.bad = {}]
    BY <1>0, <1>1 DEF Quarantine, Becomes
  <2> QED
    BY <2>1, <2>2 DEF Consuming
<1>2. ASSUME NEW k \in Customer, NoPeriod(w, k)
      PROVE  /\ t \in Consuming
             /\ task'[w].pc = "consuming" /\ task'[w].spool = t.spool
             /\ task'[w].rest = t.rest /\ task'[w].batch = t.batch
  <2>1. t \in Consuming
    BY <1>0, <1>2, TaskFields DEF NoPeriod, GroupNext
  <2>2. task'[w] = [t EXCEPT !.bad = Group(t, k), !.known = LeftAfter(t, k)]
    BY <1>0, <1>2 DEF NoPeriod, Becomes
  <2> QED
    BY <2>1, <2>2 DEF Consuming
<1>3. ASSUME NEW k \in Customer, IgnoreClosed(w, k) \/ Charge(w, k)
      PROVE  /\ t \in Consuming
             /\ task'[w].pc = "consuming" /\ task'[w].spool = t.spool
             /\ task'[w].rest = t.rest /\ task'[w].batch = t.batch
  <2>1. t \in Consuming
    BY <1>0, <1>3, TaskFields DEF IgnoreClosed, Charge, GroupNext
  <2>2. task'[w] = [t EXCEPT !.known = LeftAfter(t, k)]
    BY <1>0, <1>3 DEF IgnoreClosed, Charge, Register, Becomes
  <2> QED
    BY <2>1, <2>2 DEF Consuming
<1> QED
  BY <1>1, <1>2, <1>3

\* What a goroutine carries it carried before, or the agent has just sent it.
LEMMA CarriesStep ==
  ASSUME TypeOK, [Next]_vars, NEW w \in Worker, NEW s, NEW b, Carries(task'[w], s, b)
  PROVE  Seen(s, b)
<1> DEFINE t == task[w]
<1>0. t \in Task /\ task \in [Worker -> Task]
  BY DEF TypeOK
<1>1. Carries(t, s, b) => Seen(s, b)
  BY DEF Seen
<1>2. CASE task'[w] = t
  BY <1>1, <1>2
<1>3. CASE task'[w] \in {Idle, Releasing} \/ Claim(w)
  BY <1>0, <1>3 DEF Idle, Releasing, Claim, Becomes, Carries
<1>4. CASE Pull(w) \/ Repeat(w)
  <2>1. PICK kept \in SUBSET pending : Answer(w, kept)
    BY <1>4 DEF Pull, Repeat, Unacknowledged
  <2>2. task'[w] = [pc |-> "choosing", at |-> t.from, spool |-> spool.id,
                    rest |-> Oldest(kept)]
    BY <1>0, <2>1 DEF Answer, Becomes
  <2>3. s = spool.id /\ b \in Oldest(kept)
    BY <2>2 DEF Carries
  <2> QED
    BY <2>3 DEF Oldest, Seen
<1>5. ASSUME t.pc = "choosing", NEW c \in t.rest, SkipBatch(w, c) \/ StartBatch(w, c)
      PROVE  Seen(s, b)
  <2>1. t \in Choosing
    BY <1>0, <1>5, TaskFields
  <2>2. CASE SkipBatch(w, c)
    <3>1. task'[w] = [t EXCEPT !.at = Position(t), !.rest = @ \ {c}]
      BY <1>0, <2>2 DEF SkipBatch, Becomes
    <3>2. task'[w].pc = "choosing" /\ task'[w].spool = t.spool /\ task'[w].rest \subseteq t.rest
      BY <2>1, <3>1 DEF Choosing
    <3> QED
      BY <1>1, <1>5, <3>2 DEF Carries
  <2>3. CASE StartBatch(w, c)
    <3> DEFINE known == Resolved(c.items)
    <3>1. task'[w] = [pc |-> "consuming", at |-> Position(t), spool |-> t.spool,
                      rest |-> t.rest \ {c}, batch |-> c,
                      bad |-> c.items \ known, known |-> known]
      BY <1>0, <2>3 DEF StartBatch, Becomes
    <3>2. /\ task'[w].pc = "consuming" /\ task'[w].spool = t.spool
          /\ task'[w].rest \subseteq t.rest /\ task'[w].batch = c
      BY <3>1
    <3> QED
      BY <1>1, <1>5, <3>2 DEF Carries
  <2> QED
    BY <1>5, <2>2, <2>3
<1>6. CASE \/ Quarantine(w)
           \/ \E k \in Customer : NoPeriod(w, k) \/ IgnoreClosed(w, k) \/ Charge(w, k)
  <2>1. /\ t.pc = "consuming"
        /\ task'[w].pc = "consuming" /\ task'[w].spool = t.spool
        /\ task'[w].rest = t.rest /\ task'[w].batch = t.batch
    BY <1>6, WorkKeeps DEF Consuming
  <2> QED
    BY <1>1, <2>1 DEF Carries
<1>7. CASE Advance(w)
  <2>1. task'[w] = [pc |-> "choosing", at |-> Ack(t), spool |-> t.spool, rest |-> t.rest]
    BY <1>0, <1>7 DEF Advance, Becomes
  <2>2. t.pc = "consuming"
    BY <1>7 DEF Advance
  <2>3. task'[w].pc = "choosing" /\ task'[w].spool = t.spool /\ task'[w].rest = t.rest
    BY <2>1
  <2> QED
    BY <1>1, <2>2, <2>3 DEF Carries
<1> QED
  BY <1>2, <1>3, <1>4, <1>5, <1>6, <1>7, TaskSteps

LEMMA SeenStep ==
  ASSUME TypeOK, [Next]_vars, NEW s, NEW b, Seen(s, b)'
  PROVE  Seen(s, b) \/ Collected(s, b)
<1>1. ASSUME NEW w \in Worker, Carries(task'[w], s, b)
      PROVE  Seen(s, b)
  BY <1>1, CarriesStep
<1>2. ASSUME s = spool'.id, b \in pending'
      PROVE  Seen(s, b) \/ Collected(s, b)
  <2>1. CASE UNCHANGED nodeVars
    BY <1>2, <2>1 DEF nodeVars, Seen
  <2>2. ASSUME NEW items \in SUBSET Item, NEW at \in Moment, Collect(items, at)
        PROVE  Seen(s, b) \/ Collected(s, b)
    <3> DEFINE new == [seq |-> spool.top + 1, items |-> items, at |-> at]
    <3>1. /\ pending' = pending \cup {new} /\ spool'.id = spool.id
          /\ settled' = settled
          /\ items \subseteq Stranger \cup {a \in Access : access[a] # "NONE"}
      BY <2>2 DEF Collect, TypeOK, registryVars
    <3>2. \A a \in items \cap Access : access[a] # "NONE"
      BY <3>1, UsageAssumption DEF UsageAssumption
    <3>3. CASE b = new
      BY <1>2, <3>1, <3>2, <3>3 DEF Collected
    <3>4. CASE b # new
      BY <1>2, <3>1, <3>4 DEF Seen
    <3> QED
      BY <3>3, <3>4
  <2>3. CASE LoseSpool
    BY <1>2, <2>3 DEF LoseSpool
  <2>4. ASSUME NEW w \in Worker, Pull(w) \/ Repeat(w) \/ PullFails(w)
        PROVE  Seen(s, b)
    <3>1. spool' = spool /\ pending' \subseteq pending
      BY <2>4 DEF Pull, Repeat, PullFails, Answer, Unacknowledged
    <3> QED
      BY <1>2, <3>1 DEF Seen
  <2> QED
    BY <2>1, <2>2, <2>3, <2>4, NodeSteps
<1> QED
  BY <1>1, <1>2 DEF Seen

\* Numbers of what was seen lie below the agent's, so a new batch is new.
LEMMA SeenNumbered ==
  ASSUME TypeOK, OrderInv, NEW s, NEW b, Seen(s, b)
  PROVE  /\ b \in Batch
         /\ s \in Nat /\ s <= spool.id
         /\ s = spool.id => b.seq <= spool.top
<1>0. spool.id \in Nat /\ pending \subseteq Batch
  BY AgentNumbers DEF TypeOK, AgentSpool
<1>1. CASE s = spool.id /\ b \in pending
  BY <1>0, <1>1 DEF OrderInv, Numbered
<1>2. ASSUME NEW w \in Worker, Carries(task[w], s, b)
      PROVE  /\ b \in Batch
             /\ s \in Nat /\ s <= spool.id
             /\ s = spool.id => b.seq <= spool.top
  <2> DEFINE t == task[w]
  <2>1. /\ t \in Task /\ t.spool = s
        /\ TaskOrder(t, spool, pending, settled)
    BY <1>2 DEF TypeOK, OrderInv, Carries
  <2>2. t.spool \in Nat /\ b \in Batch
    BY <1>2, <2>1, TaskFields, UsageAssumption DEF Carries, UsageAssumption
  <2>3. CASE t.pc = "choosing"
    BY <1>2, <2>1, <2>2, <2>3 DEF Carries, TaskOrder, Orderly
  <2>4. CASE t.pc = "consuming"
    <3>1. b \in t.rest \cup {t.batch} /\ Orderly(t.spool, t.rest \cup {t.batch}, spool, pending, settled)
      BY <1>2, <2>1, <2>4 DEF Carries, TaskOrder
    <3> QED
      BY <2>1, <2>2, <3>1 DEF Orderly
  <2> QED
    BY <1>2, <2>3, <2>4 DEF Carries
<1> QED
  BY <1>1, <1>2 DEF Seen

LEMMA UnambiguousStep ==
  ASSUME TypeOK, OrderInv, Unambiguous, [Next]_vars
  PROVE  Unambiguous'
<1> SUFFICES ASSUME NEW s, NEW b, NEW c, Seen(s, b)', Seen(s, c)', b.seq = c.seq
             PROVE  b = c
  BY DEF Unambiguous
<1>0. spool.top \in Nat
  BY AgentNumbers DEF TypeOK, AgentSpool
<1>1. ASSUME NEW d, Collected(s, d)
      PROVE  ~Seen(s, d) /\ d \notin pending
  <2>1. ~Seen(s, d)
    BY <1>0, <1>1, SeenNumbered DEF Collected
  <2> QED
    BY <1>1, <2>1 DEF Seen, Collected
<1>2. ASSUME NEW d, NEW e, Collected(s, d), Seen(s, e)
      PROVE  d.seq # e.seq
  BY <1>0, <1>2, SeenNumbered DEF Collected
<1>3. CASE Seen(s, b) /\ Seen(s, c)
  BY <1>3 DEF Unambiguous
<1>4. CASE Collected(s, b) /\ Collected(s, c)
  BY <1>1, <1>4 DEF Collected
<1> QED
  BY <1>2, <1>3, <1>4, SeenStep

LEMMA ItemsExistStep ==
  ASSUME TypeOK, ItemsExist, [Next]_vars
  PROVE  ItemsExist'
<1> SUFFICES ASSUME NEW s, NEW b, Seen(s, b)', NEW a \in b.items \cap Access
             PROVE  access'[a] # "NONE"
  BY DEF ItemsExist
<1>1. access[a] # "NONE"
  BY SeenStep DEF ItemsExist, Collected
<1> QED
  BY <1>1, AccessGrows

\* Rows appear only for a customer who is not deleted.
LEMMA EmptiedStep ==
  ASSUME TypeOK, Emptied, [Next]_vars
  PROVE  Emptied'
<1> SUFFICES ASSUME NEW a \in Access, lifecycle'[OwnerOf[a]] = "DELETED"
             PROVE  access'[a] \in {"NONE", "GONE"}
  BY DEF Emptied
<1>0. OwnerOf[a] \in Customer /\ lifecycle \in [Customer -> Lifecycle]
  BY UsageAssumption DEF UsageAssumption, TypeOK
<1>1. CASE UNCHANGED <<customerVars, accessVars>>
  BY <1>1 DEF customerVars, accessVars, Emptied
<1>2. ASSUME NEW c \in Access, Drift(c)
      PROVE  access'[a] \in {"NONE", "GONE"}
  BY <1>2 DEF Drift, customerVars, Emptied
<1>3. ASSUME NEW w \in Worker, NEW k \in Customer, Charge(w, k)
      PROVE  access'[a] \in {"NONE", "GONE"}
  <2>1. access[a] \in {"NONE", "GONE"} /\ a \notin Live(k)
    BY <1>3 DEF Charge, Emptied, Live
  <2>2. access'[a] = access[a]
    BY <1>3, <2>1 DEF Charge, Rewrite, Withdrawn
  <2> QED
    BY <2>1, <2>2
<1>4. ASSUME NEW k \in Customer, Commands(k)
      PROVE  access'[a] \in {"NONE", "GONE"}
  <2>1. CASE Finalize(k) /\ OwnerOf[a] = k
    BY <2>1 DEF Finalize, Stored, Rows
  <2>2. CASE ~(Finalize(k) /\ OwnerOf[a] = k)
    <3>1. CASE Finalize(k)
      <4>1. lifecycle[OwnerOf[a]] = "DELETED" /\ a \notin Stored(k)
        BY <1>0, <2>2, <3>1 DEF Finalize, Stored, Rows
      <4> QED
        BY <3>1, <4>1 DEF Finalize, Emptied
    <3>2. ASSUME OwnerOf[a] = k, ~Finalize(k)
          PROVE  FALSE
      <4>1. lifecycle'[k] # "DELETED"
        <5>1. ASSUME NEW limit \in Quota, NEW new \in SUBSET Access,
                     OpenPeriod(k, limit, new)
              PROVE  lifecycle'[k] # "DELETED"
          BY <1>0, <5>1 DEF OpenPeriod
        <5>2. ASSUME NEW limit \in Quota, NEW new \in SUBSET Access,
                     ChangeQuota(k, limit, new)
              PROVE  lifecycle'[k] # "DELETED"
          BY <5>2 DEF ChangeQuota
        <5>3. CASE Block(k) \/ Unblock(k) \/ Delete(k)
          BY <1>0, <5>3 DEF Block, Unblock, Delete
        <5>4. ASSUME NEW gone \in SUBSET Access, NEW new \in SUBSET Access,
                     Materialize(k, gone, new)
              PROVE  lifecycle'[k] # "DELETED"
          BY <5>4 DEF Materialize, customerVars
        <5> QED
          BY <1>4, <3>2, <5>1, <5>2, <5>3, <5>4 DEF Commands
      <4> QED
        BY <3>2, <4>1
    <3>3. ASSUME OwnerOf[a] # k, ~Finalize(k)
          PROVE  access'[a] \in {"NONE", "GONE"}
      <4>1. /\ a \notin Rows(k) /\ Rows(k) \subseteq Access
            /\ InSync(k) \subseteq Rows(k) /\ Live(k) \subseteq Rows(k)
            /\ New(k) \subseteq Rows(k) /\ {} \in SUBSET Rows(k)
        BY <3>3 DEF Rows, InSync, Live, New
      <4>2. ASSUME NEW limit \in Quota, NEW new \in SUBSET Access,
                   OpenPeriod(k, limit, new) \/ ChangeQuota(k, limit, new)
            PROVE  access'[a] = access[a] /\ lifecycle'[OwnerOf[a]] = lifecycle[OwnerOf[a]]
        <5>1. access'[a] = access[a]
          BY <3>3, <4>1, <4>2, RewriteOthers DEF OpenPeriod, ChangeQuota
        <5> QED
          BY <1>0, <3>3, <4>2, <5>1 DEF OpenPeriod, ChangeQuota
      <4>3. CASE Block(k) \/ Unblock(k) \/ Delete(k)
        <5>1. access'[a] = access[a]
          BY <3>3, <4>1, <4>3, RewriteOthers DEF Block, Unblock, Delete
        <5>2. lifecycle'[OwnerOf[a]] = lifecycle[OwnerOf[a]]
          BY <1>0, <3>3, <4>3 DEF Block, Unblock, Delete
        <5> QED
          BY <5>1, <5>2 DEF Emptied
      <4>4. ASSUME NEW gone \in SUBSET Access, NEW new \in SUBSET Access,
                   Materialize(k, gone, new)
            PROVE  access'[a] = access[a] /\ lifecycle'[OwnerOf[a]] = lifecycle[OwnerOf[a]]
        <5>1. access'[a] = access[a]
          BY <3>3, <4>1, <4>4, RewriteOthers DEF Materialize
        <5> QED
          BY <4>4, <5>1 DEF Materialize, customerVars
      <4> QED
        BY <1>4, <3>3, <4>2, <4>3, <4>4 DEF Commands, Emptied
    <3> QED
      BY <3>1, <3>2, <3>3
  <2> QED
    BY <2>1, <2>2
<1> QED
  BY <1>1, <1>2, <1>3, <1>4, Classes

\* Periods are only opened, and what was counted stays counted.
LEMMA HistoryGrows ==
  ASSUME TypeOK, [Next]_vars
  PROVE  /\ \A k \in Customer : period[k] <= period'[k]
         /\ \A x \in Key : counted[x] <= counted'[x]
<1>0. period \in [Customer -> Nat] /\ counted \in [Key -> Nat]
  BY UsageAssumption DEF TypeOK, Period, UsageAssumption
<1>1. \A k \in Customer : period[k] <= period'[k]
  <2>1. ASSUME NEW j \in Customer, Commands(j), NEW k \in Customer
        PROVE  period[k] <= period'[k]
    <3>1. period' = period \/ period' = [period EXCEPT ![j] = @ + 1]
      BY <2>1 DEF Commands, OpenPeriod, ChangeQuota, Block, Unblock, Delete, Finalize,
                  Materialize, customerVars
    <3> QED
      BY <1>0, <3>1
  <2>2. ASSUME period' = period
        PROVE  \A k \in Customer : period[k] <= period'[k]
    BY <1>0, <2>2
  <2>3. CASE \/ UNCHANGED <<customerVars, accessVars>>
             \/ \E w \in Worker, k \in Customer : Charge(w, k)
             \/ \E a \in Access : Drift(a)
    <3>1. period' = period
      BY <2>3 DEF customerVars, Charge, Drift
    <3> QED
      BY <2>2, <3>1
  <2> QED
    BY <2>1, <2>3, Classes
<1>2. \A x \in Key : counted[x] <= counted'[x]
  <2>1. CASE counted' = counted
    BY <1>0, <2>1
  <2>2. ASSUME NEW w \in Worker, NEW k \in Customer, Charge(w, k), NEW x \in Key
        PROVE  counted[x] <= counted'[x]
    <3>1. counted'[x] \in {counted[x], counted[x] + 1} /\ counted[x] \in Nat
      BY <1>0, <2>2 DEF Charge
    <3> QED
      BY <3>1
  <2> QED
    BY <2>1, <2>2, RegistrySteps
       DEF registryVars, Finalize, Quarantine, IgnoreClosed, Age, Prune
<1> QED
  BY <1>1, <1>2

LEMMA MomentNumber ==
  ASSUME NEW b \in Batch, NEW k \in Customer
  PROVE  b.at[k] \in Nat
<1>1. b.at \in [Customer -> 0 .. MaxPeriod + 1]
  BY BatchFields
<1> QED
  BY <1>1, UsageAssumption DEF UsageAssumption

LEMMA PeriodNumber ==
  ASSUME TypeOK, [Next]_vars, NEW k \in Customer
  PROVE  period[k] \in Nat /\ period'[k] \in Nat
<1>1. TypeOK'
  BY TypeStep
<1>2. period[k] \in Period /\ period'[k] \in Period
  BY <1>1 DEF TypeOK
<1> QED
  BY <1>2, UsageAssumption DEF Period, UsageAssumption

LEMMA SettledNumberedStep ==
  ASSUME TypeOK, OrderInv, SettledNumbered, [Next]_vars
  PROVE  SettledNumbered'
<1> SUFFICES ASSUME NEW x \in settled'
             PROVE  /\ x.spool <= spool'.id
                    /\ x.spool = spool'.id => x.seq <= spool'.top
  BY DEF SettledNumbered
<1>0. /\ spool.id \in Nat /\ spool.top \in Nat /\ spool'.id \in Nat /\ spool'.top \in Nat
      /\ x.spool \in Nat /\ x.seq \in Nat
  <2>1. TypeOK'
    BY TypeStep
  <2>2. x \in Key
    BY <2>1 DEF TypeOK
  <2> QED
    BY <2>1, <2>2, AgentNumbers, UsageAssumption DEF TypeOK, AgentSpool, Key, UsageAssumption
<1>1. ASSUME NEW w \in Worker, task[w].pc = "consuming", NEW some, x \in KeysOf(task[w], some)
      PROVE  x.spool <= spool.id /\ (x.spool = spool.id => x.seq <= spool.top)
  <2>1. Seen(task[w].spool, task[w].batch)
    BY <1>1 DEF Seen, Carries
  <2>2. x.spool = task[w].spool /\ x.seq = task[w].batch.seq
    BY <1>1 DEF KeysOf, KeyOf
  <2> QED
    BY <2>1, <2>2, SeenNumbered
<1>2. x.spool <= spool.id /\ (x.spool = spool.id => x.seq <= spool.top)
  <2>1. CASE x \in settled
    BY <2>1 DEF SettledNumbered
  <2>2. ASSUME NEW w \in Worker, Quarantine(w), x \notin settled
        PROVE  x.spool <= spool.id /\ (x.spool = spool.id => x.seq <= spool.top)
    BY <1>1, <2>2 DEF Quarantine
  <2>3. ASSUME NEW w \in Worker, NEW k \in Customer, IgnoreClosed(w, k) \/ Charge(w, k),
               x \notin settled
        PROVE  x.spool <= spool.id /\ (x.spool = spool.id => x.seq <= spool.top)
    BY <1>1, <2>3 DEF IgnoreClosed, Charge, Register, GroupNext
  <2> QED
    BY <2>1, <2>2, <2>3, RegistrySteps DEF registryVars, Finalize, Age, Prune
<1>3. Moved(spool, pending, settled, spool', pending', settled')
  BY WorldMoves DEF OrderInv
<1> QED
  BY <1>0, <1>2, <1>3 DEF Moved

LEMMA RegistrySettled ==
  ASSUME TypeOK, registry \subseteq settled, [Next]_vars
  PROVE  registry' \subseteq settled'
<1>1. ASSUME NEW w \in Worker, NEW k \in Customer, IgnoreClosed(w, k) \/ Charge(w, k)
      PROVE  registry' \subseteq settled'
  BY <1>1 DEF IgnoreClosed, Charge, Register, KeysOf, Fresh
<1>2. CASE \/ UNCHANGED registryVars
           \/ \E k \in Customer : Finalize(k)
           \/ \E w \in Worker : Quarantine(w)
           \/ Age \/ \E some \in SUBSET Prunable : Prune(some)
  BY <1>2 DEF registryVars, Finalize, Quarantine, Age, Prune
<1> QED
  BY <1>1, <1>2, RegistrySteps

\* Which moments have no period: those before the open one, or any moment when
\* nothing is open, and then the customer has no rows either.
LEMMA NoPeriodWhy ==
  ASSUME TypeOK, MarkInv, Emptied, NEW a \in Access, access[a] # "NONE", NEW at \in Nat,
         PeriodAt(OwnerOf[a], at) = 0
  PROVE  access[a] = "GONE" \/ at < period[OwnerOf[a]]
<1> DEFINE k == OwnerOf[a]
<1>1. k \in Customer
  BY UsageAssumption DEF UsageAssumption
<1>2. period[k] \in Nat /\ removed[k] \in Nat
  BY <1>1, Numbers
<1>3. CASE HasPeriod(k)
  BY <1>2, <1>3 DEF HasPeriod, PeriodAt
<1>4. CASE ~HasPeriod(k)
  <2>1. lifecycle[k] = "DELETED"
    BY <1>1, <1>4 DEF MarkInv, MarkOf
  <2> QED
    BY <2>1 DEF Emptied
<1> QED
  BY <1>3, <1>4

LEMMA InHandStep ==
  ASSUME TypeOK, MarkInv, ChargeInv, [Next]_vars, NEW w \in Worker
  PROVE  InHand(w)'
<1> SUFFICES ASSUME task'[w].pc = "consuming"
             PROVE  /\ task'[w].bad \cup task'[w].known \subseteq task'[w].batch.items
                    /\ \A a \in task'[w].bad \cap Access :
                         \/ access'[a] = "GONE"
                         \/ task'[w].batch.at[OwnerOf[a]] < period'[OwnerOf[a]]
  BY DEF InHand
<1> DEFINE t == task[w]
           u == task'[w]
           Late(b, a) == access[a] = "GONE" \/ b.at[OwnerOf[a]] < period[OwnerOf[a]]
<1>0. t \in Task /\ task \in [Worker -> Task]
  BY DEF TypeOK
\* Lateness lasts.
<1>1. ASSUME NEW b \in Batch, NEW a \in Access, Late(b, a)
      PROVE  access'[a] = "GONE" \/ b.at[OwnerOf[a]] < period'[OwnerOf[a]]
  <2>1. OwnerOf[a] \in Customer
    BY UsageAssumption DEF UsageAssumption
  <2>2. /\ b.at[OwnerOf[a]] \in Nat
        /\ period[OwnerOf[a]] \in Nat /\ period'[OwnerOf[a]] \in Nat
    BY <2>1, MomentNumber, PeriodNumber
  <2>3. period[OwnerOf[a]] <= period'[OwnerOf[a]]
    BY <2>1, HistoryGrows
  <2>4. access[a] = "GONE" => access'[a] = "GONE"
    BY AccessGrows
  <2> QED
    BY <1>1, <2>2, <2>3, <2>4
<1>2. ASSUME u.batch \in Batch,
             u.bad \cup u.known \subseteq u.batch.items,
             \A a \in u.bad \cap Access : Late(u.batch, a)
      PROVE  /\ u.bad \cup u.known \subseteq u.batch.items
             /\ \A a \in u.bad \cap Access :
                  \/ access'[a] = "GONE"
                  \/ u.batch.at[OwnerOf[a]] < period'[OwnerOf[a]]
  BY <1>1, <1>2
<1>3. t.pc = "consuming" =>
        /\ t.batch \in Batch
        /\ t.bad \cup t.known \subseteq t.batch.items
        /\ \A a \in t.bad \cap Access : Late(t.batch, a)
  BY <1>0, TaskFields DEF ChargeInv, InHand
<1> HIDE DEF Late
<1>4. CASE u = t
  BY <1>2, <1>3, <1>4
<1>5. CASE u \in {Idle, Releasing} \/ Claim(w) \/ Pull(w) \/ Repeat(w) \/ Advance(w)
  BY <1>0, <1>5 DEF Idle, Releasing, Claim, Pull, Repeat, Answer, Advance, Becomes
<1>6. ASSUME t.pc = "choosing", NEW b \in t.rest, SkipBatch(w, b) \/ StartBatch(w, b)
      PROVE  /\ u.batch \in Batch
             /\ u.bad \cup u.known \subseteq u.batch.items
             /\ \A a \in u.bad \cap Access : Late(u.batch, a)
  <2>1. t \in Choosing
    BY <1>0, <1>6, TaskFields
  <2>2. CASE SkipBatch(w, b)
    BY <1>0, <2>1, <2>2 DEF SkipBatch, Becomes, Choosing
  <2>3. CASE StartBatch(w, b)
    <3> DEFINE known == Resolved(b.items)
    <3>1. u = [pc |-> "consuming", at |-> Position(t), spool |-> t.spool,
               rest |-> t.rest \ {b}, batch |-> b,
               bad |-> b.items \ known, known |-> known]
      BY <1>0, <2>3 DEF StartBatch, Becomes
    <3>2. u.batch = b /\ u.bad = b.items \ known /\ u.known = known
      BY <3>1
    <3>3. Seen(t.spool, b)
      BY <1>6 DEF Seen, Carries
    <3>4. ASSUME NEW a \in u.bad \cap Access
          PROVE  Late(b, a)
      <4>1. access[a] # "NONE"
        BY <3>2, <3>3 DEF ChargeInv, ItemsExist
      <4>2. access[a] = "GONE"
        BY <3>2, <4>1 DEF Resolved
      <4> QED
        BY <4>2 DEF Late
    <3>5. b \in Batch /\ known \subseteq b.items
      BY <2>1 DEF Choosing, Resolved
    <3> QED
      BY <3>2, <3>4, <3>5
  <2> QED
    BY <1>6, <2>2, <2>3
<1>7. CASE Quarantine(w)
  <2>1. t \in Consuming /\ u.batch = t.batch
    BY <1>7, WorkKeeps
  <2>2. u = [t EXCEPT !.bad = {}]
    BY <1>0, <1>7 DEF Quarantine, Becomes
  <2>3. t.pc = "consuming" /\ u.bad = {} /\ u.known = t.known
    BY <2>1, <2>2 DEF Consuming
  <2> QED
    BY <1>2, <1>3, <2>1, <2>3
<1>8. ASSUME NEW k \in Customer, NoPeriod(w, k)
      PROVE  /\ u.batch \in Batch
             /\ u.bad \cup u.known \subseteq u.batch.items
             /\ \A a \in u.bad \cap Access : Late(u.batch, a)
  <2>1. t \in Consuming /\ u.batch = t.batch
    BY <1>8, WorkKeeps
  <2>2. u = [t EXCEPT !.bad = Group(t, k), !.known = LeftAfter(t, k)]
    BY <1>0, <1>8 DEF NoPeriod, Becomes
  <2>3. t.pc = "consuming" /\ u.bad = Group(t, k) /\ u.known = LeftAfter(t, k)
    BY <2>1, <2>2 DEF Consuming
  <2>4. ASSUME NEW a \in u.bad \cap Access
        PROVE  Late(t.batch, a)
    <3>1. a \in t.known /\ OwnerOf[a] = k
      BY <2>3, <2>4 DEF Group
    <3>2. access[a] # "NONE"
      BY <2>3, <3>1 DEF ChargeInv, KnownExist
    <3>3. t.batch.at[k] \in Nat
      BY <2>1, BatchMoment
    <3>4. PeriodAt(k, t.batch.at[k]) = 0
      BY <1>8 DEF NoPeriod
    <3> QED
      BY <3>1, <3>2, <3>3, <3>4, NoPeriodWhy DEF Late, ChargeInv
  <2> QED
    BY <1>3, <2>1, <2>3, <2>4 DEF Group, LeftAfter
<1>9. ASSUME NEW k \in Customer, IgnoreClosed(w, k) \/ Charge(w, k)
      PROVE  /\ u.batch \in Batch
             /\ u.bad \cup u.known \subseteq u.batch.items
             /\ \A a \in u.bad \cap Access : Late(u.batch, a)
  <2>1. t \in Consuming /\ u.batch = t.batch
    BY <1>9, WorkKeeps
  <2>2. u = [t EXCEPT !.known = LeftAfter(t, k)]
    BY <1>0, <1>9 DEF IgnoreClosed, Charge, Register, Becomes
  <2>3. t.pc = "consuming" /\ u.bad = t.bad /\ u.known = LeftAfter(t, k)
    BY <2>1, <2>2 DEF Consuming
  <2> QED
    BY <1>3, <2>1, <2>3 DEF LeftAfter
<1> QED
  BY <1>2, <1>4, <1>5, <1>6, <1>7, <1>8, <1>9, TaskSteps

\* What is settled in this step is explained at once.
LEMMA NewlyExplained ==
  ASSUME TypeOK, MarkInv, ChargeInv, [Next]_vars, NEW s, NEW b, Seen(s, b),
         NEW a \in b.items \cap Access, NEW x, x = [spool |-> s, seq |-> b.seq, item |-> a],
         x \in settled', x \notin settled
  PROVE  \/ access[a] = "GONE"
         \/ counted'[x] > 0
         \/ b.at[OwnerOf[a]] < period[OwnerOf[a]]
<1>0. settled' # settled /\ counted \in [Key -> Nat]
  BY DEF TypeOK
<1>1. ASSUME NEW w \in Worker, task[w].pc = "consuming", NEW some,
             x \in KeysOf(task[w], some)
      PROVE  task[w].batch = b /\ a \in some
  <2>1. PICK i \in some : x = KeyOf(task[w], i)
    BY <1>1 DEF KeysOf
  <2>2. x.spool = s /\ x.seq = b.seq /\ x.item = a
    OBVIOUS
  <2>3. s = task[w].spool /\ b.seq = task[w].batch.seq /\ a = i
    BY <2>1, <2>2 DEF KeyOf
  <2>4. Seen(task[w].spool, task[w].batch)
    BY <1>1 DEF Seen, Carries
  <2> QED
    BY <2>3, <2>4 DEF ChargeInv, Unambiguous
<1>2. ASSUME NEW w \in Worker, Quarantine(w)
      PROVE  access[a] = "GONE" \/ b.at[OwnerOf[a]] < period[OwnerOf[a]]
  <2>1. task[w].pc = "consuming" /\ x \in KeysOf(task[w], task[w].bad)
    BY <1>2 DEF Quarantine
  <2>2. task[w].batch = b /\ a \in task[w].bad
    BY <1>1, <2>1
  <2> QED
    BY <2>1, <2>2 DEF ChargeInv, InHand
<1>3. ASSUME NEW w \in Worker, NEW k \in Customer, IgnoreClosed(w, k)
      PROVE  b.at[OwnerOf[a]] < period[OwnerOf[a]]
  <2>1. task[w].pc = "consuming" /\ x \in KeysOf(task[w], Group(task[w], k))
    BY <1>3 DEF IgnoreClosed, Register, GroupNext
  <2>2. task[w].batch = b /\ OwnerOf[a] = k
    BY <1>1, <2>1 DEF Group
  <2>3. task[w] \in Consuming /\ b.at[k] \in Nat
    BY <1>3, <2>2, WorkKeeps, BatchMoment
  <2>4. period[k] \in Nat /\ removed[k] \in Nat
    BY Numbers
  <2> QED
    BY <1>3, <2>2, <2>3, <2>4 DEF IgnoreClosed, PeriodAt
<1>4. ASSUME NEW w \in Worker, NEW k \in Customer, Charge(w, k)
      PROVE  counted'[x] > 0
  <2> DEFINE t == task[w]
  <2>1. x \in KeysOf(t, Group(t, k))
    BY <1>4 DEF Charge, Register
  <2>2. x \notin registry
    BY DEF ChargeInv
  <2>3. x \in KeysOf(t, Fresh(t, k))
    BY <2>1, <2>2 DEF KeysOf, Fresh
  <2>4. x \in Key
    <3>1. TypeOK'
      BY TypeStep
    <3> QED
      BY <3>1 DEF TypeOK
  <2>5. counted'[x] = counted[x] + 1
    BY <1>4, <2>3, <2>4 DEF Charge
  <2> QED
    BY <1>0, <2>4, <2>5
<1> QED
  BY <1>0, <1>2, <1>3, <1>4, RegistrySteps DEF registryVars, Finalize, Age, Prune

LEMMA AllExplainedStep ==
  ASSUME TypeOK, OrderInv, MarkInv, ChargeInv, [Next]_vars
  PROVE  AllExplained'
<1> SUFFICES ASSUME NEW s, NEW b, Seen(s, b)', NEW a \in b.items \cap Access,
                    NEW x, x = [spool |-> s, seq |-> b.seq, item |-> a], x \in settled'
             PROVE  \/ access'[a] = "GONE"
                    \/ counted'[x] > 0
                    \/ b.at[OwnerOf[a]] < period'[OwnerOf[a]]
  BY DEF AllExplained, Explained
<1>1. Seen(s, b)
  <2>1. CASE Collected(s, b)
    <3>1. x \in settled /\ x.spool = spool.id /\ x.seq = spool.top + 1
      BY <2>1 DEF Collected
    <3>2. spool.top \in Nat
      BY AgentNumbers DEF TypeOK, AgentSpool
    <3> QED
      BY <3>1, <3>2 DEF ChargeInv, SettledNumbered
  <2> QED
    BY <2>1, SeenStep
<1>2. x \in Key /\ OwnerOf[a] \in Customer /\ b \in Batch
  <2>1. TypeOK'
    BY TypeStep
  <2> QED
    BY <1>1, <2>1, SeenNumbered, UsageAssumption DEF TypeOK, UsageAssumption
<1>3. /\ b.at[OwnerOf[a]] \in Nat /\ counted[x] \in Nat /\ counted'[x] \in Nat
      /\ period[OwnerOf[a]] \in Nat /\ period'[OwnerOf[a]] \in Nat
  <2>1. TypeOK'
    BY TypeStep
  <2>2. counted[x] \in Nat /\ counted'[x] \in Nat
    BY <1>2, <2>1 DEF TypeOK
  <2> QED
    BY <1>2, <2>2, MomentNumber, PeriodNumber
<1>4. \/ access[a] = "GONE"
      \/ counted[x] > 0 \/ counted'[x] > 0
      \/ b.at[OwnerOf[a]] < period[OwnerOf[a]]
  <2>1. CASE x \in settled
    BY <1>1, <2>1 DEF ChargeInv, AllExplained, Explained
  <2>2. CASE x \notin settled
    BY <1>1, <2>2, NewlyExplained
  <2> QED
    BY <2>1, <2>2
<1>5. /\ access[a] = "GONE" => access'[a] = "GONE"
      /\ counted[x] <= counted'[x]
      /\ period[OwnerOf[a]] <= period'[OwnerOf[a]]
  BY <1>2, AccessGrows, HistoryGrows
<1> QED
  BY <1>3, <1>4, <1>5

LEMMA ChargeStep == TypeOK /\ OrderInv /\ MarkInv /\ ChargeInv /\ [Next]_vars => ChargeInv'
<1> SUFFICES ASSUME TypeOK, OrderInv, MarkInv, ChargeInv, [Next]_vars
             PROVE  ChargeInv'
  OBVIOUS
<1>1. (registry \subseteq settled)'
  BY RegistrySettled DEF ChargeInv
<1>2. SettledNumbered' /\ Unambiguous' /\ ItemsExist' /\ Emptied'
  BY SettledNumberedStep, UnambiguousStep, ItemsExistStep, EmptiedStep DEF ChargeInv
<1>3. AllExplained'
  BY AllExplainedStep
<1>4. ASSUME NEW w \in Worker
      PROVE  KnownExist(w)' /\ InHand(w)'
  BY KnownStep, InHandStep DEF ChargeInv
<1> QED
  BY <1>1, <1>2, <1>3, <1>4 DEF ChargeInv

LEMMA ChargeInit == Init => ChargeInv
<1> SUFFICES ASSUME Init
             PROVE  ChargeInv
  OBVIOUS
<1>1. \A w \in Worker : task[w].pc = "idle"
  BY DEF Init, Idle
<1>2. \A s, b : ~Seen(s, b)
  BY <1>1 DEF Init, Seen, Carries
<1>3. \A w \in Worker : KnownExist(w) /\ InHand(w)
  BY <1>1 DEF KnownExist, InHand
<1> QED
  BY <1>2, <1>3 DEF Init, ChargeInv, SettledNumbered, Unambiguous, ItemsExist, AllExplained,
                    Emptied

\* The item of a dropped batch is settled, and its explanation is the charge
\* when neither the access nor the period is gone.
LEMMA DroppedCharged ==
  ASSUME TypeOK, OrderInv, ChargeInv, [Next]_vars, spool'.id = spool.id,
         NEW b \in pending \ pending', NEW a \in b.items \cap Access,
         access[a] # "GONE", b.at[OwnerOf[a]] >= period[OwnerOf[a]]
  PROVE  counted[[spool |-> spool.id, seq |-> b.seq, item |-> a]] > 0
<1> DEFINE x == [spool |-> spool.id, seq |-> b.seq, item |-> a]
<1>1. Seen(spool.id, b)
  BY DEF Seen
<1>2. x \in Held
  BY DEF Held
<1>3. x \notin Held'
  <2> SUFFICES ASSUME NEW c \in pending', x \in BatchKeys(spool'.id, c)
               PROVE  FALSE
    BY DEF Held, BatchKeys
  <2>1. c.seq = b.seq
    BY DEF BatchKeys
  <2>2. Seen(spool.id, c) \/ Collected(spool.id, c)
    BY SeenStep DEF Seen
  <2>3. b.seq \in Nat /\ spool.top \in Nat /\ b.seq <= spool.top
    BY <1>1, SeenNumbered, BatchNumber, AgentNumbers DEF TypeOK, AgentSpool
  <2>4. Seen(spool.id, c)
    BY <2>1, <2>2, <2>3 DEF Collected
  <2>5. c = b
    BY <1>1, <2>1, <2>4 DEF ChargeInv, Unambiguous
  <2> QED
    BY <2>5
<1>4. x \in settled
  BY <1>2, <1>3, DropSettled
<1>5. access[a] = "GONE" \/ counted[x] > 0 \/ b.at[OwnerOf[a]] < period[OwnerOf[a]]
  BY <1>1, <1>4 DEF ChargeInv, AllExplained, Explained
<1>6. b.at[OwnerOf[a]] \in Nat /\ period[OwnerOf[a]] \in Nat
  <2>1. OwnerOf[a] \in Customer /\ b \in Batch
    BY UsageAssumption DEF UsageAssumption, TypeOK
  <2> QED
    BY <2>1, MomentNumber, PeriodNumber
<1> QED
  BY <1>5, <1>6

\* No traffic is lost to quarantine, to a filter or to two goroutines at the
\* same node: what the agent drops was charged while its period was open.
THEOREM ChargedOpen == Spec => ChargedWhileOpen
<1>1. TypeOK /\ OrderInv /\ ChargeInv /\ [Next]_vars =>
        [spool'.id = spool.id =>
           \A b \in pending \ pending' : \A a \in b.items \cap Access :
              LET x == [spool |-> spool.id, seq |-> b.seq, item |-> a]
                  k == OwnerOf[a]
              IN  (/\ access[a] # "GONE"
                   /\ HasPeriod(k)
                   /\ b.at[k] >= period[k]) => counted[x] > 0]_vars
  BY DroppedCharged
<1> QED
  BY <1>1, OrderInit, OrderStep, MarkInit, MarkStep, ChargeInit, ChargeStep, TypeCorrect, PTL
     DEF Spec, ChargedWhileOpen

-----------------------------------------------------------------------------
(* What may be charged again.                                              *)
(*                                                                         *)
(* When no goroutine outlives the pause between two pulls or its lease,    *)
(* pulls do not overlap and the cursor only moves forward.                 *)

Exclusive ==
  /\ \A w \in Worker : Busy(w) => lease = ProcessOf[w]
  /\ \A v, w \in Worker : Busy(v) /\ Busy(w) => v = w

LEMMA BusyStep ==
  ASSUME TypeOK, [Next]_vars, NEW w \in Worker, Busy(w)'
  PROVE  Busy(w) \/ Claim(w)
<1> DEFINE t == task[w]
<1>0. ASSUME NEW u \in Worker, NEW r, Becomes(u, r), u # w
      PROVE  task'[w] = t
  BY <1>0 DEF Becomes, TypeOK
<1>1. task'[w] = t => Busy(w)
  BY DEF Busy
<1>2. t.pc # "idle" => Busy(w)
  BY DEF Busy, Idle
<1> USE DEF pullVars
<1>3. CASE UNCHANGED vars
  BY <1>1, <1>3 DEF vars
<1>4. ASSUME NEW k \in Customer, Commands(k)
      PROVE  task'[w] = t
  BY <1>4 DEF Commands, OpenPeriod, ChangeQuota, Block, Unblock, Delete, Materialize,
              Finalize
<1>5. CASE \/ \E a \in Access : Drift(a)
           \/ \E items \in SUBSET Item, at \in Moment : Collect(items, at)
           \/ LoseSpool
  BY <1>1, <1>5 DEF Drift, Collect, LoseSpool
<1>6. ASSUME NEW u \in Worker, Claim(u) \/ Repeat(u) \/ PullFails(u) \/ Fail(u)
      PROVE  Busy(w) \/ Claim(w)
  <2>1. CASE u = w
    BY <1>2, <1>6, <2>1 DEF Repeat, PullFails, Fail
  <2>2. CASE u # w
    BY <1>0, <1>1, <1>6, <2>2 DEF Claim, Repeat, PullFails, Fail, Answer
  <2> QED
    BY <2>1, <2>2
<1>7. ASSUME NEW u \in Worker, Step(u)
      PROVE  Busy(w)
  <2>1. CASE Pull(u) \/ Quarantine(u) \/ Advance(u) \/ Done(u) \/ Release(u)
    BY <1>0, <1>1, <1>2, <2>1 DEF Pull, Answer, Quarantine, Advance, Done, Release
  <2>2. CASE \E b \in task[u].rest : SkipBatch(u, b) \/ StartBatch(u, b)
    BY <1>0, <1>1, <1>2, <2>2 DEF SkipBatch, StartBatch
  <2>3. ASSUME NEW k \in Customer,
               NoPeriod(u, k) \/ IgnoreClosed(u, k) \/ Charge(u, k) \/ GroupFails(u, k)
        PROVE  Busy(w)
    <3>1. task[u].pc = "consuming"
      BY <2>3 DEF NoPeriod, IgnoreClosed, Charge, GroupFails, GroupNext
    <3>2. \E r : Becomes(u, r)
      BY <2>3 DEF NoPeriod, IgnoreClosed, Charge, GroupFails, Register
    <3> QED
      BY <1>0, <1>1, <1>2, <3>1, <3>2
  <2> QED
    BY <1>7, <2>1, <2>2, <2>3 DEF Step
<1>8. ASSUME NEW p \in Process, Crash(p)
      PROVE  Busy(w)
  BY <1>1, <1>8 DEF Crash, Busy, TypeOK
<1>9. CASE LeaseExpires \/ Age \/ \E some \in SUBSET Prunable : Prune(some)
  BY <1>1, <1>9 DEF LeaseExpires, Age, Prune
<1> QED
  BY <1>1, <1>3, <1>4, <1>5, <1>6, <1>7, <1>8, <1>9 DEF Next

LEMMA LeaseSteps ==
  ASSUME [Next]_vars
  PROVE  \/ lease' = lease
         \/ \E w \in Worker : Claim(w) \/ Release(w)
         \/ LeaseExpires
<1> USE DEF pullVars
<1>1. CASE UNCHANGED vars
  BY <1>1 DEF vars
<1>2. CASE (\E k \in Customer : Commands(k)) \/ \E a \in Access : Drift(a)
  BY <1>2 DEF Commands, OpenPeriod, ChangeQuota, Block, Unblock, Delete, Materialize,
              Finalize, Drift
<1>3. CASE \/ \E items \in SUBSET Item, at \in Moment : Collect(items, at)
           \/ LoseSpool
  BY <1>3 DEF Collect, LoseSpool
<1>4. ASSUME NEW w \in Worker, Repeat(w) \/ PullFails(w) \/ Fail(w)
      PROVE  lease' = lease
  BY <1>4 DEF Repeat, PullFails, Fail, Answer
<1>5. ASSUME NEW w \in Worker, Step(w)
      PROVE  lease' = lease \/ Release(w)
  <2>1. CASE Pull(w) \/ Quarantine(w) \/ Advance(w) \/ Done(w)
    BY <2>1 DEF Pull, Answer, Quarantine, Advance, Done
  <2>2. CASE \E b \in task[w].rest : SkipBatch(w, b) \/ StartBatch(w, b)
    BY <2>2 DEF SkipBatch, StartBatch
  <2>3. ASSUME NEW k \in Customer,
               NoPeriod(w, k) \/ IgnoreClosed(w, k) \/ Charge(w, k) \/ GroupFails(w, k)
        PROVE  lease' = lease
    BY <2>3 DEF NoPeriod, IgnoreClosed, Charge, GroupFails
  <2> QED
    BY <1>5, <2>1, <2>2, <2>3 DEF Step
<1>6. CASE \/ \E p \in Process : Crash(p)
           \/ Age
           \/ \E some \in SUBSET Prunable : Prune(some)
  BY <1>6 DEF Crash, Age, Prune
<1> QED
  BY <1>1, <1>2, <1>3, <1>4, <1>5, <1>6 DEF Next

\* The lease excludes when neither goroutines of a process nor replicas are slow.
LEMMA ExclusiveStep ==
  ASSUME "slow" \notin Events, "stall" \notin Events,
         TypeOK, Exclusive, [Next]_vars
  PROVE  Exclusive'
<1>0. \A w \in Worker : ProcessOf[w] \in Process /\ ProcessOf[w] # Free
  BY UsageAssumption DEF UsageAssumption
<1>1. ASSUME NEW u \in Worker, Claim(u)
      PROVE  Exclusive'
  <2>1. ASSUME NEW v \in Worker
        PROVE  ~Busy(v)
    <3>1. ~(Busy(v) /\ ProcessOf[v] = ProcessOf[u])
      BY <1>1 DEF Claim, Spend
    <3>2. Busy(v) => lease = ProcessOf[v]
      BY DEF Exclusive
    <3> QED
      BY <1>0, <1>1, <3>1, <3>2 DEF Claim
  <2>2. ASSUME NEW v \in Worker, v # u
        PROVE  ~Busy(v)'
    BY <1>1, <2>1, <2>2 DEF Claim, Becomes, Busy, TypeOK
  <2>3. lease' = ProcessOf[u]
    BY <1>1 DEF Claim
  <2> QED
    BY <2>2, <2>3 DEF Exclusive
<1>2. ASSUME NEW u \in Worker, Release(u)
      PROVE  Exclusive'
  <2>1. Busy(u) /\ task' = [task EXCEPT ![u] = Idle] /\ task \in [Worker -> Task]
    BY <1>2 DEF Release, Becomes, Busy, Idle, TypeOK
  <2>2. ASSUME NEW v \in Worker
        PROVE  ~Busy(v)'
    BY <2>1 DEF Exclusive, Busy
  <2> QED
    BY <2>2 DEF Exclusive
<1>3. CASE LeaseExpires
  <2>1. ASSUME NEW v \in Worker
        PROVE  ~Busy(v)'
    BY <1>3 DEF LeaseExpires, Spend, Exclusive, Busy
  <2> QED
    BY <2>1 DEF Exclusive
<1>4. CASE lease' = lease /\ \A u \in Worker : ~Claim(u)
  <2>1. \A v \in Worker : Busy(v)' => Busy(v)
    BY <1>4, BusyStep
  <2> QED
    BY <1>4, <2>1 DEF Exclusive
<1> QED
  BY <1>1, <1>2, <1>3, <1>4, LeaseSteps

\* Until the cursor names the spool, the agent still keeps its first batch.
FirstKept ==
  \/ spool.top = 0 /\ pending = {}
  \/ \E b \in pending : b.seq = 1

\* What a goroutine consumes lies beyond the cursor c, and is the first batch
\* of a spool that c does not name yet.
BeyondCursor(t, c) ==
  /\ t.pc = "pulling" => t.from = c
  /\ t.pc = "choosing" =>
       /\ t.at = c
       /\ c.spool <= t.spool
       /\ c.spool < t.spool => t.rest = {} \/ \E b \in t.rest : b.seq = 1
  /\ t.pc = "consuming" =>
       /\ c.spool <= t.spool
       /\ c.spool < t.spool => t.batch.seq = 1
       /\ c.spool = t.spool => c.seq < t.batch.seq

Behind(x) ==
  \/ x.spool < cursor.spool
  \/ x.spool = cursor.spool /\ x.seq <= cursor.seq

\* A later batch is counted only in the spool of the cursor, and the registry
\* forgets it only behind the cursor.
Withheld(x) ==
  /\ x.item \in Access
  /\ access[x.item] # "NONE"
  /\ x.spool <= cursor.spool
  /\ x \in registry \/ access[x.item] = "GONE" \/ Behind(x)

LaterInv ==
  /\ cursor.spool < spool.id => FirstKept
  /\ \A w \in Worker : KnownExist(w) /\ BeyondCursor(task[w], cursor)
  /\ \A x \in Key : x.seq # 1 => /\ counted[x] <= 1
                                 /\ counted[x] # 0 => Withheld(x)

LEMMA AdvanceForward ==
  ASSUME TypeOK, LaterInv, NEW w \in Worker, Advance(w)
  PROVE  /\ task[w] \in Consuming
         /\ cursor' = Ack(task[w]) /\ cursor'.spool = task[w].spool
         /\ cursor.spool <= cursor'.spool
         /\ cursor.spool = cursor'.spool => cursor.seq <= cursor'.seq
<1> DEFINE t == task[w]
<1>1. t \in Consuming /\ t.pc = "consuming" /\ cursor' = Ack(t)
  BY TaskFields DEF Advance, TypeOK
<1>2. cursor'.spool = t.spool /\ cursor'.seq = t.batch.seq
  BY <1>1 DEF Ack
<1>3. BeyondCursor(t, cursor)
  BY DEF LaterInv
<1>4. t.batch.seq \in Nat /\ cursor.seq \in Nat
  BY <1>1, BatchNumber, CursorNumbers DEF Consuming, TypeOK
<1> QED
  BY <1>1, <1>2, <1>3, <1>4 DEF BeyondCursor

LEMMA CursorForward ==
  ASSUME TypeOK, LaterInv, [Next]_vars
  PROVE  /\ cursor.spool <= cursor'.spool
         /\ cursor.spool = cursor'.spool => cursor.seq <= cursor'.seq
<1>0. cursor.spool \in Nat /\ cursor.seq \in Nat
  BY CursorNumbers DEF TypeOK
<1>1. CASE cursor' = cursor
  BY <1>0, <1>1
<1> QED
  BY <1>1, AdvanceForward, CursorSteps

LEMMA OldestHasFirst ==
  ASSUME NEW kept \in SUBSET Batch, NEW b \in kept, b.seq = 1
  PROVE  b \in Oldest(kept)
<1>1. {c \in kept : c.seq < b.seq} = {}
  BY BatchNumber
<1>2. Cardinality({c \in kept : c.seq < b.seq}) = 0
  BY <1>1, FS_EmptySet
<1>3. Cardinality({c \in kept : c.seq < b.seq}) < PullLimit
  BY <1>2, UsageAssumption DEF UsageAssumption
<1> QED
  BY <1>3, Zenon DEF Oldest

LEMMA FirstKeptStep ==
  ASSUME TypeOK, OrderInv, LaterInv, [Next]_vars, cursor'.spool < spool'.id
  PROVE  FirstKept'
<1>0. /\ cursor.spool \in Nat /\ cursor'.spool \in Nat /\ spool.id \in Nat /\ spool.top \in Nat
      /\ cursor.spool <= cursor'.spool
  <2>1. TypeOK'
    BY TypeStep
  <2> QED
    BY <2>1, CursorForward, CursorNumbers, AgentNumbers DEF TypeOK, AgentSpool
<1>1. CASE UNCHANGED nodeVars
  BY <1>0, <1>1 DEF LaterInv, FirstKept, nodeVars
<1>2. CASE LoseSpool
  BY <1>2 DEF LoseSpool, FirstKept
<1>3. ASSUME NEW items \in SUBSET Item, NEW at \in Moment, Collect(items, at)
      PROVE  FirstKept'
  <2> DEFINE new == [seq |-> spool.top + 1, items |-> items, at |-> at]
  <2>1. pending' = pending \cup {new} /\ spool'.id = spool.id /\ new.seq = spool.top + 1
    BY <1>3 DEF Collect, TypeOK
  <2>2. FirstKept
    BY <1>0, <2>1 DEF LaterInv
  <2>3. CASE spool.top = 0
    <3>1. new \in pending' /\ new.seq = 1
      BY <2>1, <2>3
    <3> QED
      BY <3>1 DEF FirstKept
  <2>4. CASE \E b \in pending : b.seq = 1
    BY <2>1, <2>4 DEF FirstKept
  <2> QED
    BY <2>2, <2>3, <2>4 DEF FirstKept
<1>4. ASSUME NEW w \in Worker, Pull(w) \/ Repeat(w) \/ PullFails(w)
      PROVE  FirstKept'
  <2>1. /\ task[w].pc = "pulling" /\ spool' = spool
        /\ pending' \in {pending, Unacknowledged(task[w].from)}
    BY <1>4 DEF Pull, Repeat, PullFails, Answer
  <2>2. task[w].from.spool # spool.id /\ FirstKept
    BY <1>0, <2>1 DEF LaterInv, BeyondCursor
  <2>3. pending' = pending
    BY <2>1, <2>2 DEF Unacknowledged
  <2> QED
    BY <2>1, <2>2, <2>3 DEF FirstKept
<1> QED
  BY <1>1, <1>2, <1>3, <1>4, NodeSteps

LEMMA BeyondStep ==
  ASSUME TypeOK, OrderInv, LaterInv, Exclusive, [Next]_vars, NEW w \in Worker
  PROVE  BeyondCursor(task'[w], cursor')
<1> DEFINE t == task[w]
           u == task'[w]
<1>0. /\ t \in Task /\ task \in [Worker -> Task] /\ cursor \in Cursor
      /\ cursor.spool \in Nat /\ cursor.seq \in Nat
  BY CursorNumbers DEF TypeOK
<1>1. BeyondCursor(t, cursor)
  BY DEF LaterInv
<1>2. ASSUME NEW v \in Worker, Advance(v)
      PROVE  BeyondCursor(u, cursor')
  <2>1. CASE v = w
    <3>1. u = [pc |-> "choosing", at |-> Ack(t), spool |-> t.spool, rest |-> t.rest]
      BY <1>0, <1>2, <2>1 DEF Advance, Becomes
    <3>2. u.pc = "choosing" /\ u.at = Ack(t) /\ u.spool = t.spool
      BY <3>1
    <3>3. cursor' = Ack(t) /\ cursor'.spool = t.spool /\ t.spool \in Nat
      BY <1>0, <1>2, <2>1, AdvanceForward, UsageAssumption DEF Consuming, UsageAssumption
    <3> QED
      BY <3>2, <3>3 DEF BeyondCursor
  <2>2. CASE v # w
    <3>1. Busy(v)
      BY <1>2 DEF Advance, Busy, Idle
    <3>2. t = Idle
      BY <2>2, <3>1 DEF Exclusive, Busy
    <3>3. u = t
      BY <1>0, <1>2, <2>2 DEF Advance, Becomes
    <3> QED
      BY <3>2, <3>3 DEF Idle, BeyondCursor
  <2> QED
    BY <2>1, <2>2
<1>3. ASSUME cursor' = cursor, u = t \/ u \in {Idle, Releasing}
      PROVE  BeyondCursor(u, cursor')
  BY <1>1, <1>3 DEF Idle, Releasing, BeyondCursor
<1>4. CASE cursor' = cursor /\ Claim(w)
  <2>1. u.pc = "pulling" /\ u.from = cursor
    BY <1>0, <1>4 DEF Claim, Becomes
  <2> QED
    BY <1>4, <2>1 DEF BeyondCursor
<1>5. CASE cursor' = cursor /\ (Pull(w) \/ Repeat(w))
  <2>1. PICK kept \in {pending, Unacknowledged(t.from)} : Answer(w, kept)
    BY <1>5 DEF Pull, Repeat
  <2>2. t.pc = "pulling" /\ t.from = cursor
    BY <1>1, <2>1 DEF Answer, BeyondCursor
  <2>3. u = [pc |-> "choosing", at |-> t.from, spool |-> spool.id, rest |-> Oldest(kept)]
    BY <1>0, <2>1 DEF Answer, Becomes
  <2>4. u.pc = "choosing" /\ u.at = t.from /\ u.spool = spool.id /\ u.rest = Oldest(kept)
    BY <2>3
  <2>5. cursor.spool <= spool.id
    BY DEF OrderInv, Confirmed
  <2>6. ASSUME cursor.spool < spool.id
        PROVE  u.rest = {} \/ \E b \in u.rest : b.seq = 1
    <3>1. kept = pending
      BY <1>0, <2>1, <2>2, <2>6, AgentNumbers DEF Unacknowledged, TypeOK, AgentSpool
    <3>2. FirstKept /\ pending \subseteq Batch
      BY <2>6 DEF LaterInv, TypeOK
    <3>3. CASE pending = {}
      BY <2>4, <3>1, <3>3 DEF Oldest
    <3>4. CASE \E b \in pending : b.seq = 1
      BY <2>4, <3>1, <3>2, <3>4, OldestHasFirst
    <3> QED
      BY <3>2, <3>3, <3>4 DEF FirstKept
  <2> QED
    BY <1>5, <2>2, <2>4, <2>5, <2>6 DEF BeyondCursor
<1>6. ASSUME cursor' = cursor, t.pc = "choosing", NEW b \in t.rest,
             SkipBatch(w, b) \/ StartBatch(w, b)
      PROVE  BeyondCursor(u, cursor')
  <2>1. /\ t \in Choosing /\ t.spool \in Nat /\ b \in Batch
        /\ t.at = cursor /\ cursor.spool <= t.spool
        /\ cursor.spool < t.spool => \E c \in t.rest : c.seq = 1
    BY <1>0, <1>1, <1>6, TaskFields, UsageAssumption DEF BeyondCursor, Choosing, UsageAssumption
  <2>2. /\ Position(t).seq \in Nat
        /\ cursor.spool = t.spool => Position(t) = cursor
        /\ cursor.spool # t.spool => Position(t).seq = 0
    <3>1. cursor.spool # t.spool => Position(t) = [spool |-> t.spool, seq |-> 0]
      BY <2>1 DEF Position
    <3> QED
      BY <2>1, <3>1, PositionType, CursorNumbers, UsageAssumption DEF Position
  <2>3. IsNext(b, t.rest) /\ b.seq \in Nat /\ b.seq >= 1
    BY <1>6, <2>1, BatchNumber DEF SkipBatch, StartBatch
  <2>4. CASE SkipBatch(w, b)
    <3>1. u = [t EXCEPT !.at = Position(t), !.rest = @ \ {b}] /\ b.seq <= Position(t).seq
      BY <1>0, <2>4 DEF SkipBatch, Becomes
    <3>2. cursor.spool = t.spool
      BY <2>2, <2>3, <3>1
    <3>3. u.pc = "choosing" /\ u.at = cursor /\ u.spool = t.spool
      BY <1>6, <2>1, <2>2, <3>1, <3>2 DEF Choosing
    <3> QED
      BY <1>6, <2>1, <3>2, <3>3 DEF BeyondCursor
  <2>5. CASE StartBatch(w, b)
    <3> DEFINE known == Resolved(b.items)
    <3>1. u = [pc |-> "consuming", at |-> Position(t), spool |-> t.spool,
               rest |-> t.rest \ {b}, batch |-> b,
               bad |-> b.items \ known, known |-> known]
      BY <1>0, <2>5 DEF StartBatch, Becomes
    <3>2. u.pc = "consuming" /\ u.spool = t.spool /\ u.batch = b
      BY <3>1
    <3>3. b.seq > Position(t).seq
      BY <2>5 DEF StartBatch
    <3>4. cursor.spool < t.spool => b.seq = 1
      BY <2>1, <2>3 DEF IsNext
    <3> QED
      BY <1>6, <2>1, <2>2, <3>2, <3>3, <3>4 DEF BeyondCursor
  <2> QED
    BY <1>6, <2>4, <2>5
<1>7. CASE /\ cursor' = cursor
           /\ \/ Quarantine(w)
              \/ \E k \in Customer : NoPeriod(w, k) \/ IgnoreClosed(w, k) \/ Charge(w, k)
  <2>1. /\ t.pc = "consuming"
        /\ u.pc = "consuming" /\ u.spool = t.spool /\ u.batch = t.batch
    BY <1>7, WorkKeeps DEF Consuming
  <2> QED
    BY <1>1, <1>7, <2>1 DEF BeyondCursor
<1> QED
  BY <1>2, <1>3, <1>4, <1>5, <1>6, <1>7, TaskSteps, CursorSteps

LEMMA WithheldStep ==
  ASSUME TypeOK, OrderInv, LaterInv, [Next]_vars, NEW x \in Key, Withheld(x)
  PROVE  Withheld(x)'
<1>0. /\ x.spool \in Nat /\ x.seq \in Nat
      /\ cursor.spool \in Nat /\ cursor.seq \in Nat
      /\ cursor'.spool \in Nat /\ cursor'.seq \in Nat
      /\ cursor.spool <= cursor'.spool
      /\ cursor.spool = cursor'.spool => cursor.seq <= cursor'.seq
  <2>1. TypeOK'
    BY TypeStep
  <2> QED
    BY <2>1, CursorForward, CursorNumbers, UsageAssumption DEF TypeOK, Key, UsageAssumption
<1>1. x.item \in Access /\ access'[x.item] # "NONE" /\ x.spool <= cursor'.spool
  BY <1>0, AccessGrows DEF Withheld
<1>2. CASE access[x.item] = "GONE"
  BY <1>1, <1>2, AccessGrows DEF Withheld
<1>3. CASE Behind(x)
  BY <1>0, <1>1, <1>3 DEF Withheld, Behind
<1>4. CASE x \in registry
  <2>1. CASE UNCHANGED registryVars
    BY <1>1, <1>4, <2>1 DEF Withheld, registryVars
  <2>2. ASSUME NEW k \in Customer, Finalize(k)
        PROVE  Withheld(x)'
    BY <1>1, <1>4, <2>2 DEF Withheld, Finalize
  <2>3. CASE (\E w \in Worker : Quarantine(w)) \/ Age
    BY <1>1, <1>4, <2>3 DEF Withheld, Quarantine, Age
  <2>4. ASSUME NEW w \in Worker, NEW k \in Customer, IgnoreClosed(w, k) \/ Charge(w, k)
        PROVE  Withheld(x)'
    BY <1>1, <1>4, <2>4 DEF Withheld, IgnoreClosed, Charge, Register
  <2>5. ASSUME NEW some \in SUBSET Prunable, Prune(some)
        PROVE  Withheld(x)'
    <3>1. CASE x \in some
      <4>1. x.spool # cursor.spool \/ x.seq <= cursor.seq
        BY <3>1 DEF Prunable
      <4>2. Behind(x)
        BY <1>0, <4>1 DEF Withheld, Behind
      <4> QED
        BY <1>3, <4>2
    <3>2. CASE x \notin some
      BY <1>1, <1>4, <2>5, <3>2 DEF Withheld, Prune
    <3> QED
      BY <3>1, <3>2
  <2> QED
    BY <2>1, <2>2, <2>3, <2>4, <2>5, RegistrySteps
<1> QED
  BY <1>2, <1>3, <1>4 DEF Withheld

\* A charge of a later batch lies beyond the cursor: nobody counted it yet.
LEMMA ChargeLater ==
  ASSUME TypeOK, LaterInv, NEW w \in Worker, NEW k \in Customer, Charge(w, k),
         NEW x \in Key, x.seq # 1, counted'[x] # counted[x]
  PROVE  /\ counted[x] = 0 /\ counted'[x] = 1
         /\ Withheld(x)'
<1> DEFINE t == task[w]
<1>1. t \in Consuming /\ t.pc = "consuming"
  BY TaskFields DEF Charge, GroupNext, TypeOK
<1>2. x \in KeysOf(t, Fresh(t, k)) /\ counted'[x] = counted[x] + 1
  BY DEF Charge
<1>3. PICK a \in Fresh(t, k) : x = KeyOf(t, a)
  BY <1>2 DEF KeysOf
<1>4. /\ a \in t.known /\ a \in Access /\ x \notin registry /\ x.item = a
      /\ x.spool = t.spool /\ x.seq = t.batch.seq
  BY <1>1, <1>3 DEF Fresh, Group, KeyOf, Consuming
<1>5. /\ cursor.spool <= t.spool
      /\ cursor.spool < t.spool => t.batch.seq = 1
      /\ cursor.spool = t.spool => cursor.seq < t.batch.seq
  BY <1>1 DEF LaterInv, BeyondCursor
<1>6. /\ t.spool \in Nat /\ t.batch.seq \in Nat
      /\ cursor.spool \in Nat /\ cursor.seq \in Nat
  BY <1>1, BatchNumber, CursorNumbers, UsageAssumption
     DEF Consuming, TypeOK, UsageAssumption
<1>7. cursor.spool = x.spool /\ cursor.seq < x.seq
  BY <1>4, <1>5, <1>6
<1>8. access[a] # "GONE"
  BY <1>3 DEF Charge, Register, Registrable
<1>9. access[a] # "NONE"
  BY <1>1, <1>4 DEF LaterInv, KnownExist
<1>10. counted[x] = 0
  <2>1. ~Behind(x)
    BY <1>4, <1>6, <1>7 DEF Behind
  <2> QED
    BY <1>4, <1>8, <2>1 DEF LaterInv, Withheld
<1>11. Withheld(x)'
  <2>1. x \in registry' /\ cursor' = cursor
    BY <1>2 DEF Charge, Register
  <2>2. access'[a] # "NONE"
    BY <1>4, <1>9 DEF Charge, Rewrite
  <2> QED
    BY <1>4, <1>6, <1>7, <2>1, <2>2 DEF Withheld
<1> QED
  BY <1>2, <1>10, <1>11

LEMMA LaterStep ==
  ASSUME TypeOK, OrderInv, LaterInv, Exclusive, [Next]_vars
  PROVE  LaterInv'
<1>1. (cursor.spool < spool.id => FirstKept)'
  BY FirstKeptStep
<1>2. ASSUME NEW w \in Worker
      PROVE  KnownExist(w)' /\ BeyondCursor(task[w], cursor)'
  BY <1>2, KnownStep, BeyondStep DEF LaterInv
<1>3. ASSUME NEW x \in Key, x.seq # 1
      PROVE  counted'[x] <= 1 /\ (counted'[x] # 0 => Withheld(x)')
  <2>1. CASE counted'[x] = counted[x]
    BY <1>3, <2>1, WithheldStep DEF LaterInv
  <2>2. CASE counted'[x] # counted[x]
    <3>1. PICK w \in Worker, k \in Customer : Charge(w, k)
      BY <2>2, RegistrySteps DEF registryVars, Finalize, Quarantine, IgnoreClosed, Age, Prune
    <3> QED
      BY <1>3, <2>2, <3>1, ChargeLater
  <2> QED
    BY <2>1, <2>2
<1> QED
  BY <1>1, <1>2, <1>3 DEF LaterInv

\* When pulls do not overlap, the registry may forget at any time: only the
\* first batch of a spool can ever be charged again.
THEOREM LateRepeatFirst ==
  ASSUME "slow" \notin Events, "stall" \notin Events
  PROVE  Spec => []LateRepeatIsFirstBatch
<1>1. Init => LaterInv /\ Exclusive
  <2> SUFFICES ASSUME Init
               PROVE  LaterInv /\ Exclusive
    OBVIOUS
  <2>1. \A w \in Worker : task[w].pc = "idle" /\ ~Busy(w)
    BY DEF Init, Busy, Idle
  <2>2. FirstKept
    BY DEF Init, FirstKept
  <2> QED
    BY <2>1, <2>2 DEF Init, LaterInv, Exclusive, KnownExist, BeyondCursor
<1>2. TypeOK /\ LaterInv => LateRepeatIsFirstBatch
  BY DEF TypeOK, LaterInv, LateRepeatIsFirstBatch
<1>3. TypeOK /\ OrderInv /\ LaterInv /\ Exclusive /\ [Next]_vars => LaterInv' /\ Exclusive'
  BY LaterStep, ExclusiveStep
<1> QED
  BY <1>1, <1>2, <1>3, OrderInit, OrderStep, TypeCorrect, PTL DEF Spec

=============================================================================
