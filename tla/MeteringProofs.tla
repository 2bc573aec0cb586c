--------------------------- MODULE MeteringProofs ---------------------------
(***************************************************************************)
(* UsagePull implements Metering, for every set of customers, accesses,    *)
(* goroutines and replicas, as long as no row of the registry outlives the *)
(* retention.                                                              *)
(***************************************************************************)
EXTENDS UsageProofs

-----------------------------------------------------------------------------
(* What is reported and owed. *)

LEMMA CarriesBatches ==
  ASSUME NEW t, NEW s, NEW b
  PROVE  Carries(t, s, b) <=> t.spool = s /\ b \in Batches(t)
  BY DEF Carries, Batches

ReportedIsSeen ==
  \A o : o \in Reported <=> \E s, b : Seen(s, b) /\ \E i \in b.items : o = Entry(s, b, i)

LEMMA ReportedSeen == ReportedIsSeen
<1> SUFFICES ASSUME NEW o
             PROVE  o \in Reported <=>
                      \E s, b : Seen(s, b) /\ \E i \in b.items : o = Entry(s, b, i)
  BY DEF ReportedIsSeen
<1>1. ASSUME o \in Reported
      PROVE  \E s, b : Seen(s, b) /\ \E i \in b.items : o = Entry(s, b, i)
  <2>1. CASE o \in Entries(spool.id, pending)
    BY <2>1 DEF Entries, Seen
  <2>2. ASSUME NEW w \in Worker, o \in Entries(task[w].spool, Batches(task[w]))
        PROVE  \E s, b : Seen(s, b) /\ \E i \in b.items : o = Entry(s, b, i)
    <3>1. PICK b \in Batches(task[w]) : \E i \in b.items : o = Entry(task[w].spool, b, i)
      BY <2>2 DEF Entries
    <3>2. Seen(task[w].spool, b)
      BY <3>1, CarriesBatches DEF Seen
    <3> QED
      BY <3>1, <3>2
  <2> QED
    BY <1>1, <2>1, <2>2 DEF Reported, Carrier
<1>2. ASSUME NEW s, NEW b, Seen(s, b), NEW i \in b.items, o = Entry(s, b, i)
      PROVE  o \in Reported
  <2>1. CASE s = spool.id /\ b \in pending
    BY <1>2, <2>1 DEF Reported, Entries
  <2>2. ASSUME NEW w \in Worker, Carries(task[w], s, b)
        PROVE  o \in Reported
    <3>1. task[w].spool = s /\ b \in Batches(task[w])
      BY <2>2, CarriesBatches
    <3>2. o \in Entries(task[w].spool, Batches(task[w]))
      BY <1>2, <3>1 DEF Entries
    <3>3. w \in Carrier
      BY <3>1 DEF Carrier
    <3> QED
      BY <3>2, <3>3 DEF Reported
  <2> QED
    BY <1>2, <2>1, <2>2 DEF Seen
<1> QED
  BY <1>1, <1>2

\* What is owed comes from a batch somebody holds.
LEMMA OwedSeen ==
  ASSUME TypeOK, OrderInv, NEW o \in Owed
  PROVE  \E s \in Nat, b \in Batch, i \in Item :
           /\ Seen(s, b) /\ i \in b.items /\ o = Entry(s, b, i)
           /\ o.unit = [spool |-> s, seq |-> b.seq, item |-> i] /\ o.at = b.at
           /\ o.unit \notin settled
<1>1. PICK s, b : Seen(s, b) /\ \E i \in b.items : o = Entry(s, b, i)
  BY ReportedSeen DEF ReportedIsSeen, Owed
<1>2. PICK i \in b.items : o = Entry(s, b, i)
  BY <1>1
<1>3. s \in Nat /\ b \in Batch /\ i \in Item
  BY <1>1, SeenNumbered, BatchFields
<1>4. o.unit = [spool |-> s, seq |-> b.seq, item |-> i] /\ o.at = b.at
  BY <1>2 DEF Entry
<1> QED
  BY <1>1, <1>2, <1>3, <1>4 DEF Owed

-----------------------------------------------------------------------------
(* The inductive invariant. *)

\* A settled item of a row is in the registry as long as the row exists.
Remaining(x) ==
  x.item \in Access => x \in registry \/ access[x.item] = "GONE"

\* A copy of a batch of the current spool is with the agent too, or settled.
Copies(s, b) ==
  s = spool.id => b \in pending \/ BatchKeys(s, b) \subseteq settled

MeterInv ==
  /\ MarkInv
  /\ PresentIsEntitled
  /\ OrderInv
  /\ ChargeInv
  /\ OnceInv
  /\ \A x \in settled : Remaining(x)
  /\ \A s, b : Seen(s, b) => Copies(s, b)

LEMMA RemainingStep ==
  ASSUME "age" \notin Events, TypeOK, OnceInv, \A x \in settled : Remaining(x), [Next]_vars
  PROVE  \A x \in settled' : Remaining(x)'
<1> SUFFICES ASSUME NEW x \in settled', x.item \in Access
             PROVE  x \in registry' \/ access'[x.item] = "GONE"
  BY DEF Remaining
<1>1. CASE access[x.item] = "GONE"
  BY <1>1, AccessGrows
<1>2. CASE access[x.item] # "GONE" /\ UNCHANGED registryVars
  BY <1>2 DEF Remaining, registryVars
<1>3. ASSUME access[x.item] # "GONE", NEW k \in Customer, Finalize(k)
      PROVE  x \in registry' \/ access'[x.item] = "GONE"
  BY <1>3 DEF Remaining, Finalize
<1>4. ASSUME access[x.item] # "GONE", NEW w \in Worker, Quarantine(w)
      PROVE  x \in registry' \/ access'[x.item] = "GONE"
  BY <1>4 DEF Remaining, Quarantine
<1>5. ASSUME access[x.item] # "GONE", NEW w \in Worker, NEW k \in Customer,
             IgnoreClosed(w, k) \/ Charge(w, k)
      PROVE  x \in registry' \/ access'[x.item] = "GONE"
  <2>1. Register(w, k)
    BY <1>5 DEF IgnoreClosed, Charge
  <2>2. KeysOf(task[w], Group(task[w], k)) \subseteq registry'
    BY <2>1 DEF Register, Fresh, KeysOf
  <2> QED
    BY <1>5, <2>1, <2>2 DEF Remaining, Register
<1>6. CASE access[x.item] # "GONE" /\ (Age \/ \E some \in SUBSET Prunable : Prune(some))
  BY <1>6 DEF Remaining, OnceInv, Age, Spend, Prune, Prunable
<1> QED
  BY <1>1, <1>2, <1>3, <1>4, <1>5, <1>6, RegistrySteps

\* A batch of the current spool that the agent drops is settled.
LEMMA DroppedSettled ==
  ASSUME TypeOK, OrderInv, [Next]_vars, spool'.id = spool.id, NEW b \in pending
  PROVE  b \in pending' \/ BatchKeys(spool.id, b) \subseteq settled
<1> SUFFICES ASSUME b \notin pending', NEW x \in BatchKeys(spool.id, b)
             PROVE  x \in settled
  OBVIOUS
<1>1. x \in Held /\ x.spool = spool.id /\ x.seq = b.seq
  BY DEF Held, BatchKeys
<1>2. x \notin Held'
  <2> SUFFICES ASSUME NEW c \in pending', c.seq = b.seq
               PROVE  FALSE
    BY <1>1 DEF Held
  <2>1. Moved(spool, pending, settled, spool', pending', settled')
    BY WorldMoves DEF OrderInv
  <2>2. spool.id \in Nat /\ spool.top \in Nat /\ b.seq \in Nat
    BY AgentNumbers, BatchNumber DEF TypeOK, AgentSpool
  <2>3. b.seq <= spool.top
    BY DEF OrderInv, Numbered
  <2>4. c \in pending
    BY <2>1, <2>2, <2>3 DEF Moved
  <2> QED
    BY <2>4 DEF OrderInv, Numbered
<1> QED
  BY <1>1, <1>2, DropSettled

LEMMA CopiesStep ==
  ASSUME TypeOK, OrderInv, \A s, b : Seen(s, b) => Copies(s, b), [Next]_vars
  PROVE  \A s, b : Seen(s, b)' => Copies(s, b)'
<1> SUFFICES ASSUME NEW s, NEW b, Seen(s, b)', s = spool'.id, b \notin pending'
             PROVE  BatchKeys(s, b) \subseteq settled'
  BY DEF Copies, BatchKeys
<1>1. settled \subseteq settled' /\ Moved(spool, pending, settled, spool', pending', settled')
  BY WorldMoves, SettledGrows DEF OrderInv
<1>2. Seen(s, b)
  BY SeenStep DEF Collected
<1>3. s = spool.id
  <2>1. s \in Nat /\ s <= spool.id /\ spool.id \in Nat
    BY <1>2, SeenNumbered, AgentNumbers DEF TypeOK, AgentSpool
  <2> QED
    BY <1>1, <2>1 DEF Moved
<1>4. CASE b \in pending
  BY <1>1, <1>3, <1>4, DroppedSettled
<1>5. CASE b \notin pending
  BY <1>1, <1>2, <1>3, <1>5 DEF Copies
<1> QED
  BY <1>4, <1>5

LEMMA MeterInit == Init => MeterInv
<1> SUFFICES ASSUME Init
             PROVE  MeterInv
  OBVIOUS
<1>1. MarkInv /\ OrderInv /\ ChargeInv
  BY MarkInit, OrderInit, ChargeInit
<1>2. PresentIsEntitled /\ OnceInv /\ \A x \in settled : Remaining(x)
  BY DEF Init, PresentIsEntitled, OnceInv, KnownExist, Idle
<1>3. \A s, b : ~Seen(s, b)
  BY DEF Init, Seen, Carries, Idle
<1> QED
  BY <1>1, <1>2, <1>3 DEF MeterInv

LEMMA MeterStep ==
  ASSUME "age" \notin Events
  PROVE  TypeOK /\ MeterInv /\ [Next]_vars => MeterInv'
<1> SUFFICES ASSUME TypeOK, MeterInv, [Next]_vars
             PROVE  MeterInv'
  OBVIOUS
<1>1. MarkInv' /\ PresentIsEntitled'
  BY MarkStep, EntitledStep DEF MeterInv
<1>2. OrderInv' /\ ChargeInv' /\ OnceInv'
  BY OrderStep, ChargeStep, OnceStep DEF MeterInv
<1>3. \A x \in settled' : Remaining(x)'
  BY RemainingStep DEF MeterInv
<1>4. \A s, b : Seen(s, b)' => Copies(s, b)'
  BY CopiesStep DEF MeterInv
<1> QED
  BY <1>1, <1>2, <1>3, <1>4 DEF MeterInv

-----------------------------------------------------------------------------
(* Customers. *)

\* A command is about the rows of its customer, and only the end of a deletion
\* makes rows disappear.
LEMMA CommandRows ==
  ASSUME NEW k \in Customer, Commands(k), NEW a \in Access
  PROVE  /\ OwnerOf[a] # k => access'[a] = access[a] /\ (a \in drifted' <=> a \in drifted)
         /\ ~Finalize(k) => (access'[a] = "GONE" <=> access[a] = "GONE")
<1> DEFINE Own == OwnerOf[a] # k => access'[a] = access[a] /\ (a \in drifted' <=> a \in drifted)
           Lasts == access'[a] = "GONE" <=> access[a] = "GONE"
<1>1. ASSUME NEW changed \in SUBSET Live(k), NEW new \in SUBSET New(k),
             NEW gone \in SUBSET Live(k), NEW state \in {"PRESENT", "ABSENT"},
             Rewrite(changed, new, gone, state)
      PROVE  (OwnerOf[a] # k => access'[a] = access[a]) /\ Lasts
  BY <1>1 DEF Rewrite, Live, New, Rows
<1>2. InSync(k) \subseteq Live(k) /\ {} \in SUBSET New(k) /\ {} \in SUBSET Live(k)
  BY DEF InSync
<1>3. ASSUME NEW limit \in Quota, NEW new \in SUBSET Access, OpenPeriod(k, limit, new)
      PROVE  Own /\ Lasts
  <2> DEFINE state == DesiredState(IF lifecycle[k] = "DELETED" THEN "ACTIVE"
                                   ELSE lifecycle[k], FALSE)
  <2>1. Rewrite(InSync(k), new, {}, state) /\ new \in SUBSET New(k) /\ drifted' = drifted
    BY <1>3 DEF OpenPeriod
  <2>2. state \in {"PRESENT", "ABSENT"}
    BY DesiredStateType
  <2> QED
    BY <1>1, <1>2, <2>1, <2>2
<1>4. ASSUME NEW limit \in Quota, NEW new \in SUBSET Access, ChangeQuota(k, limit, new)
      PROVE  Own /\ Lasts
  <2> DEFINE state == DesiredState(lifecycle[k], RecomputeExhausted(k, limit))
  <2>1. Rewrite(InSync(k), new, {}, state) /\ new \in SUBSET New(k) /\ drifted' = drifted
    BY <1>4 DEF ChangeQuota
  <2>2. state \in {"PRESENT", "ABSENT"}
    BY DesiredStateType
  <2> QED
    BY <1>1, <1>2, <2>1, <2>2
<1>5. CASE Block(k) \/ Unblock(k) \/ Delete(k)
  <2>1. drifted' = drifted
    BY <1>5 DEF Block, Unblock, Delete
  <2> QED
    BY <1>1, <1>2, <1>5, <2>1, DesiredStateType DEF Block, Unblock, Delete
<1>6. CASE Finalize(k)
  BY <1>6 DEF Finalize, Stored, Rows
<1>7. ASSUME NEW gone \in SUBSET Access, NEW new \in SUBSET Access,
             Materialize(k, gone, new)
      PROVE  Own /\ Lasts
  <2>1. OwnerOf[a] # k => (a \in drifted' <=> a \in drifted)
    BY <1>7 DEF Materialize, Rows
  <2> QED
    BY <1>1, <1>7, <2>1, DesiredStateType DEF Materialize
<1> QED
  BY <1>3, <1>4, <1>5, <1>6, <1>7 DEF Commands

LEMMA VoidKept ==
  ASSUME \A a \in Access : access'[a] = "GONE" <=> access[a] = "GONE"
  PROVE  Void' = Void
  BY DEF Void

\* Nobody is served out of quota or without a period.
LEMMA ServedEntitled ==
  ASSUME MarkInv, PresentIsEntitled, NEW k \in Customer, k \in Served
  PROVE  HasPeriod(k) /\ ~exhausted[k]
<1>1. PICK a \in Access \ drifted : access[a] = "PRESENT" /\ OwnerOf[a] = k
  BY DEF Served
<1>2. lifecycle[k] = "ACTIVE" /\ ~exhausted[k]
  BY <1>1 DEF PresentIsEntitled
<1> QED
  BY <1>2 DEF MarkInv, MarkOf

LEMMA ServeStep ==
  ASSUME MarkInv', PresentIsEntitled', NEW k \in Customer,
         \A a \in Access : OwnerOf[a] # k =>
           access'[a] = access[a] /\ (a \in drifted' <=> a \in drifted)
  PROVE  Meter!Serve(k)
<1>1. Served' \ {k} = Served \ {k}
  BY DEF Served
<1>2. k \in Served' => HasPeriod(k)' /\ ~exhausted'[k]
  <2> SUFFICES ASSUME k \in Served'
               PROVE  HasPeriod(k)' /\ ~exhausted'[k]
    OBVIOUS
  <2>1. PICK a \in Access \ drifted' : access'[a] = "PRESENT" /\ OwnerOf[a] = k
    BY DEF Served
  <2>2. lifecycle'[k] = "ACTIVE" /\ ~exhausted'[k]
    BY <2>1 DEF PresentIsEntitled
  <2> QED
    BY <2>2 DEF MarkInv, MarkOf
<1>3. HasPeriod(k)' <=> Present'[k]
  BY DEF Present
<1> QED
  BY <1>1, <1>2, <1>3 DEF Meter!Serve

\* What is owed and charged changes neither with commands nor with manifests.
LEMMA TrafficKept ==
  ASSUME UNCHANGED <<nodeVars, task, settled, counted>>
  PROVE  UNCHANGED Meter!trafficVars
<1>1. Owed' = Owed /\ Charged' = Charged
  BY DEF Owed, Reported, Carrier, Charged, nodeVars
<1> QED
  BY <1>1 DEF Meter!trafficVars, nodeVars

\* The map of the open periods changes at one customer.
LEMMA PresentExcept ==
  ASSUME NEW k \in Customer
  PROVE  /\ (\A j \in Customer : HasPeriod(j)' <=> j = k \/ HasPeriod(j)) =>
              Present' = [Present EXCEPT ![k] = TRUE]
         /\ (\A j \in Customer : HasPeriod(j)' <=> j # k /\ HasPeriod(j)) =>
              Present' = [Present EXCEPT ![k] = FALSE]
<1>1. Present \in [Customer -> BOOLEAN] /\ Present' \in [Customer -> BOOLEAN]
  BY DEF Present, HasPeriod
<1>2. \A j \in Customer : (Present[j] <=> HasPeriod(j)) /\ (Present'[j] <=> HasPeriod(j)')
  BY DEF Present
<1> QED
  BY <1>1, <1>2

LEMMA CommandMeter ==
  ASSUME TypeOK, MeterInv, MarkInv', PresentIsEntitled', NEW k \in Customer, Commands(k)
  PROVE  \/ \E limit \in Quota : Meter!Renew(k, limit) \/ Meter!Limit(k, limit)
         \/ Meter!Admit(k) \/ Meter!End(k)
<1>0. /\ \A j \in Customer : /\ period[j] \in Nat /\ removed[j] \in Nat
                              /\ removed[j] <= period[j]
                              /\ period[j] \in Period
      /\ MarkOf(k)
  BY Numbers DEF MeterInv, MarkInv, MarkOf
<1>1. Meter!Serve(k)
  BY CommandRows, ServeStep
<1>2. UNCHANGED <<nodeVars, task, settled, counted>>
  BY DEF Commands, OpenPeriod, ChangeQuota, Block, Unblock, Delete, Finalize,
         Materialize, registryVars, pullVars
<1>3. UNCHANGED Meter!trafficVars
  BY <1>2, TrafficKept
<1>4. ~Finalize(k) => Void' = Void
  BY CommandRows, VoidKept
<1>5. ASSUME NEW limit \in Quota, NEW new \in SUBSET Access, OpenPeriod(k, limit, new),
             ~Finalize(k)
      PROVE  Meter!Renew(k, limit)
  <2>1. /\ period' = [period EXCEPT ![k] = @ + 1]
        /\ quota' = [quota EXCEPT ![k] = limit]
        /\ exhausted' = [exhausted EXCEPT ![k] = FALSE]
        /\ removed' = removed /\ total' = total
        /\ period[k] < MaxPeriod
    BY <1>5 DEF OpenPeriod
  <2>2. period[k] + 1 \in Period
    BY <1>0, <2>1, UsageAssumption DEF Period, UsageAssumption
  <2>3. total[k][period[k] + 1] = 0
    BY <1>0, <2>2 DEF MarkOf
  <2>4. Present' = [Present EXCEPT ![k] = TRUE]
    <3>1. \A j \in Customer : HasPeriod(j)' <=> j = k \/ HasPeriod(j)
      BY <1>0, <2>1 DEF HasPeriod, TypeOK
    <3> QED
      BY <3>1, PresentExcept
  <2> QED
    BY <1>1, <1>3, <1>4, <1>5, <2>1, <2>3, <2>4 DEF Meter!Renew
<1>6. ASSUME NEW limit \in Quota, NEW new \in SUBSET Access, ChangeQuota(k, limit, new),
             ~Finalize(k)
      PROVE  Meter!Limit(k, limit)
  <2>1. /\ quota' = [quota EXCEPT ![k] = limit]
        /\ exhausted' = [exhausted EXCEPT ![k] = total[k][period[k]] >= limit]
        /\ UNCHANGED <<period, removed, total>>
    BY <1>6 DEF ChangeQuota, RecomputeExhausted, IsQuotaExhausted, Spent
  <2>2. Present' = Present
    BY <2>1 DEF Present, HasPeriod
  <2>3. Present[k]
    BY <1>0, <1>6 DEF ChangeQuota, MarkOf, Present
  <2> QED
    BY <1>1, <1>3, <1>4, <1>6, <2>1, <2>2, <2>3 DEF Meter!Limit
<1>7. ASSUME \/ Block(k) \/ Unblock(k) \/ Delete(k)
             \/ \E gone, new \in SUBSET Access : Materialize(k, gone, new),
             ~Finalize(k)
      PROVE  Meter!Admit(k)
  <2>1. UNCHANGED <<period, removed, quota, total, exhausted>>
    BY <1>7 DEF Block, Unblock, Delete, Materialize, customerVars
  <2>2. Present' = Present
    BY <2>1 DEF Present, HasPeriod
  <2> QED
    BY <1>1, <1>3, <1>4, <1>7, <2>1, <2>2 DEF Meter!Admit, Meter!customerVars
<1>8. CASE Finalize(k)
  <2>1. /\ removed' = [removed EXCEPT ![k] = period[k]]
        /\ exhausted' = [exhausted EXCEPT ![k] = FALSE]
        /\ access' = [a \in Access |-> IF a \in Stored(k) THEN "GONE" ELSE access[a]]
        /\ lifecycle[k] = "DELETING"
        /\ UNCHANGED <<period, quota, total>>
    BY <1>8 DEF Finalize
  <2>2. Present' = [Present EXCEPT ![k] = FALSE]
    <3>1. \A j \in Customer : HasPeriod(j)' <=> j # k /\ HasPeriod(j)
      BY <1>0, <2>1 DEF HasPeriod, TypeOK
    <3> QED
      BY <3>1, PresentExcept
  <2>3. Present[k]
    BY <1>0, <2>1 DEF MarkOf, Present
  <2>4. Void \subseteq Void' /\ Void' \ Void \subseteq TrafficOf[k]
    BY <2>1 DEF Void, TrafficOf, Stored
  <2> QED
    BY <1>1, <1>3, <2>1, <2>2, <2>3, <2>4 DEF Meter!End
<1> QED
  BY <1>5, <1>6, <1>7, <1>8 DEF Commands

LEMMA DriftMeter ==
  ASSUME TypeOK, MarkInv', PresentIsEntitled', NEW a \in Access, Drift(a)
  PROVE  \E k \in Customer : Meter!Admit(k)
<1> DEFINE k == OwnerOf[a]
<1>0. k \in Customer
  BY UsageAssumption DEF UsageAssumption
<1>1. /\ drifted' = drifted \cup {a} /\ access' = access
      /\ UNCHANGED <<period, removed, quota, total, exhausted>>
      /\ UNCHANGED <<nodeVars, task, settled, counted>>
  BY DEF Drift, customerVars, registryVars, pullVars
<1>2. Meter!Serve(k)
  BY <1>0, <1>1, ServeStep
<1>3. Present' = Present /\ Void' = Void
  BY <1>1, VoidKept DEF Present, HasPeriod
<1>4. Meter!Admit(k)
  BY <1>1, <1>2, <1>3, TrafficKept DEF Meter!Admit, Meter!customerVars
<1> QED
  BY <1>0, <1>4

-----------------------------------------------------------------------------
(* Traffic. *)

LEMMA SeenSpool ==
  ASSUME TypeOK, NEW s, NEW b, Seen(s, b)
  PROVE  s \in 1 .. MaxSpool
<1>1. spool.id \in 1 .. MaxSpool
  BY DEF TypeOK
<1>2. ASSUME NEW w \in Worker, Carries(task[w], s, b)
      PROVE  s \in 1 .. MaxSpool
  <2>1. task[w] \in Task /\ task[w].pc \in {"choosing", "consuming"} /\ task[w].spool = s
    BY <1>2 DEF TypeOK, Carries
  <2> QED
    BY <2>1, TaskFields
<1> QED
  BY <1>1, <1>2 DEF Seen

LEMMA OwedUnit ==
  ASSUME TypeOK, NEW s, NEW b \in Batch, NEW i \in b.items, Seen(s, b)
  PROVE  /\ [spool |-> s, seq |-> b.seq, item |-> i] \in Key
         /\ SpoolOf[[spool |-> s, seq |-> b.seq, item |-> i]] = s
<1>1. [spool |-> s, seq |-> b.seq, item |-> i] \in Key
  BY SeenSpool, BatchFields DEF Key
<1> QED
  BY <1>1 DEF SpoolOf

LEMMA SpoolForward ==
  ASSUME TypeOK, [Next]_vars
  PROVE  /\ spool.id \in Nat /\ spool'.id \in {spool.id, spool.id + 1}
         /\ ~LoseSpool => spool'.id = spool.id
<1>1. spool.id \in Nat
  BY AgentNumbers DEF TypeOK, AgentSpool
<1>2. CASE UNCHANGED nodeVars \/ \E w \in Worker : Pull(w) \/ Repeat(w) \/ PullFails(w)
  <2>1. spool' = spool
    BY <1>2 DEF nodeVars, Pull, Repeat, PullFails, Answer
  <2> QED
    BY <1>1, <2>1
<1>3. ASSUME NEW items \in SUBSET Item, NEW at \in Moment, Collect(items, at)
      PROVE  spool'.id = spool.id
  BY <1>3 DEF Collect, TypeOK
<1>4. CASE LoseSpool
  <2>1. spool'.id = spool.id + 1
    BY <1>4 DEF LoseSpool
  <2> QED
    BY <1>1, <1>4, <2>1
<1> QED
  BY <1>1, <1>2, <1>3, <1>4, NodeSteps

\* When nothing is reported and nothing settled, what is owed stays so, unless
\* it belongs to a spool that is lost.
LEMMA OwedStays ==
  ASSUME TypeOK, MeterInv, [Next]_vars, settled' = settled, \A s, b : ~Collected(s, b)
  PROVE  /\ Owed' \subseteq Owed
         /\ \A o \in Owed \ Owed' : SpoolOf[o.unit] # spool'.id
<1> USE DEF ReportedIsSeen
<1>0. ReportedIsSeen'
  BY ReportedSeen, PTL
<1>1. ASSUME NEW o \in Owed'
      PROVE  o \in Owed
  <2>1. PICK s, b : Seen(s, b)' /\ \E i \in b.items : o = Entry(s, b, i)
    BY <1>0, <1>1 DEF Owed
  <2>2. Seen(s, b)
    BY <2>1, SeenStep
  <2>3. o \in Reported
    BY <2>1, <2>2, ReportedSeen
  <2> QED
    BY <1>1, <2>3 DEF Owed
<1>2. ASSUME NEW o \in Owed, o \notin Owed', SpoolOf[o.unit] = spool'.id
      PROVE  FALSE
  <2>1. PICK s \in Nat, b \in Batch, i \in Item :
          /\ Seen(s, b) /\ i \in b.items /\ o = Entry(s, b, i)
          /\ o.unit = [spool |-> s, seq |-> b.seq, item |-> i]
          /\ o.unit \notin settled
    BY OwedSeen DEF MeterInv
  <2>2. s = spool'.id
    BY <1>2, <2>1, OwedUnit
  <2>3. ~Seen(s, b)'
    <3>1. o \notin Reported'
      BY <1>2, <2>1 DEF Owed
    <3> QED
      BY <1>0, <2>1, <3>1
  <2>4. s = spool.id
    BY <2>1, <2>2, SeenNumbered, SpoolForward DEF MeterInv
  <2>5. ~(BatchKeys(s, b) \subseteq settled)
    BY <2>1 DEF BatchKeys
  <2>6. b \in pending
    BY <2>1, <2>4, <2>5 DEF MeterInv, Copies
  <2>7. b \in pending'
    BY <2>2, <2>4, <2>5, <2>6, DroppedSettled DEF MeterInv
  <2> QED
    BY <2>2, <2>3, <2>7 DEF Seen
<1> QED
  BY <1>1, <1>2

\* A goroutine that deals with items holds on to its batches.
LEMMA WorkSeen ==
  ASSUME TypeOK, NEW w \in Worker,
         \/ Quarantine(w)
         \/ \E k \in Customer : IgnoreClosed(w, k) \/ Charge(w, k)
  PROVE  /\ \A s, b : Seen(s, b)' <=> Seen(s, b)
         /\ spool' = spool
         /\ task[w] \in Consuming /\ Seen(task[w].spool, task[w].batch)
<1>1. /\ task[w] \in Consuming
      /\ task'[w].pc = "consuming" /\ task'[w].spool = task[w].spool
      /\ task'[w].rest = task[w].rest /\ task'[w].batch = task[w].batch
  BY WorkKeeps
<1>2. spool' = spool /\ pending' = pending
  BY DEF Quarantine, IgnoreClosed, Charge, nodeVars
<1>3. \A v \in Worker : v # w => task'[v] = task[v]
  BY DEF Quarantine, IgnoreClosed, Charge, Register, Becomes, TypeOK
<1>4. task[w].pc = "consuming"
  BY <1>1 DEF Consuming
<1>5. \A v \in Worker : \A s, b : Carries(task'[v], s, b) <=> Carries(task[v], s, b)
  BY <1>1, <1>3, <1>4 DEF Carries
<1>6. \A s, b : Seen(s, b)' <=> Seen(s, b)
  BY <1>2, <1>5 DEF Seen
<1>7. Seen(task[w].spool, task[w].batch)
  BY <1>4 DEF Seen, Carries
<1> QED
  BY <1>1, <1>2, <1>6, <1>7

LEMMA SettleStep ==
  ASSUME \A s, b : Seen(s, b)' <=> Seen(s, b), NEW units, settled' = settled \cup units
  PROVE  Owed' = {o \in Owed : o.unit \notin units}
<1>1. ReportedIsSeen'
  BY ReportedSeen, PTL
<1>2. \A o : o \in Reported' <=> o \in Reported
  BY <1>1, ReportedSeen DEF ReportedIsSeen
<1> QED
  BY <1>2 DEF Owed

LEMMA CollectMeter ==
  ASSUME TypeOK, MeterInv, NEW items \in SUBSET Item, NEW at \in Moment, Collect(items, at)
  PROVE  \E units \in SUBSET {x \in Key : SpoolOf[x] = spool.id}, m \in Moments :
           Meter!Report(units, m)
<1> DEFINE b     == [seq |-> spool.top + 1, items |-> items, at |-> at]
           units == {[spool |-> spool.id, seq |-> b.seq, item |-> i] : i \in items}
<1> USE DEF ReportedIsSeen
<1>0. /\ spool.id \in 1 .. MaxSpool /\ spool.top \in Nat
      /\ spool.top + 1 \in 1 .. MaxSeq
  BY UsageAssumption, AgentNumbers DEF TypeOK, AgentSpool, Collect, UsageAssumption
<1>1. /\ spool'.id = spool.id /\ pending' = pending \cup {b}
      /\ UNCHANGED <<customerVars, access, drifted, task, settled, counted>>
  BY DEF Collect, TypeOK, accessVars, registryVars, pullVars
<1>2. \A s, c : Seen(s, c)' <=> Seen(s, c) \/ (s = spool.id /\ c = b)
  BY <1>1 DEF Seen
<1>3. units \subseteq {x \in Key : SpoolOf[x] = spool.id}
  <2> SUFFICES ASSUME NEW i \in items
               PROVE  /\ [spool |-> spool.id, seq |-> b.seq, item |-> i] \in Key
                      /\ SpoolOf[[spool |-> spool.id, seq |-> b.seq, item |-> i]] = spool.id
    OBVIOUS
  <2>1. [spool |-> spool.id, seq |-> b.seq, item |-> i] \in Key
    BY <1>0 DEF Key
  <2> QED
    BY <2>1 DEF SpoolOf
<1>4. \A x \in units : x \notin settled
  BY <1>0 DEF MeterInv, ChargeInv, SettledNumbered
<1>5. units \cap Meter!Owing = {}
  <2> SUFFICES ASSUME NEW o \in Owed, o.unit \in units
               PROVE  FALSE
    BY DEF Meter!Owing
  <2>1. PICK s \in Nat, c \in Batch, i \in Item :
          Seen(s, c) /\ o.unit = [spool |-> s, seq |-> c.seq, item |-> i]
    BY OwedSeen DEF MeterInv
  <2>2. PICK j \in items : o.unit = [spool |-> spool.id, seq |-> spool.top + 1, item |-> j]
    OBVIOUS
  <2>3. s = o.unit.spool /\ c.seq = o.unit.seq
    BY <2>1
  <2>4. s = spool.id /\ c.seq = spool.top + 1
    BY <2>2, <2>3
  <2> QED
    BY <1>0, <2>1, <2>4, SeenNumbered DEF MeterInv
<1>6. Owed' = Owed \cup {[unit |-> x, at |-> at] : x \in units}
  <2>0. ReportedIsSeen'
    BY ReportedSeen, PTL
  <2>1. \A o : o \in Reported' <=> o \in Reported \/ \E i \in b.items : o = Entry(spool.id, b, i)
    BY <1>2, <2>0, ReportedSeen
  <2>2. \A o : (\E i \in b.items : o = Entry(spool.id, b, i)) <=>
                 o \in {[unit |-> x, at |-> at] : x \in units}
    BY DEF Entry
  <2>3. \A o \in {[unit |-> x, at |-> at] : x \in units} : o.unit \notin settled
    BY <1>4
  <2> QED
    BY <1>1, <2>1, <2>2, <2>3 DEF Owed
<1>7. UNCHANGED <<Meter!customerVars, Served, spool.id, settled, Charged>>
  <2>1. Present' = Present
    BY <1>1 DEF Present, HasPeriod, customerVars
  <2>2. Served' = Served /\ Void' = Void /\ Charged' = Charged
    BY <1>1 DEF Served, Void, Charged
  <2> QED
    BY <1>1, <2>1, <2>2 DEF Meter!customerVars, customerVars
<1>8. at \in Moments
  BY DEF Moment, Moments
<1>9. Meter!Report(units, at)
  BY <1>4, <1>5, <1>6, <1>7 DEF Meter!Report
<1> QED
  BY <1>3, <1>8, <1>9

\* What a goroutine has in hand and nobody settled yet is owed, with the
\* moment of its batch.
LEMMA ItemOwed ==
  ASSUME TypeOK, OrderInv, Unambiguous, NEW w \in Worker, task[w] \in Consuming,
         NEW i \in task[w].batch.items
  PROVE  /\ KeyOf(task[w], i) \notin settled => KeyOf(task[w], i) \in Meter!Owing
         /\ \A o \in Owed : o.unit = KeyOf(task[w], i) => o.at = task[w].batch.at
<1> DEFINE t == task[w]
           b == t.batch
<1> USE DEF ReportedIsSeen
<1>1. Seen(t.spool, b)
  BY DEF Seen, Carries, Consuming
<1>2. KeyOf(t, i) = Entry(t.spool, b, i).unit
  BY DEF KeyOf, Entry
<1>3. Entry(t.spool, b, i) \in Reported
  BY <1>1, ReportedSeen
<1>4. ASSUME NEW o \in Owed, o.unit = KeyOf(t, i)
      PROVE  o.at = b.at
  <2>1. PICK s \in Nat, c \in Batch, j \in Item :
          /\ Seen(s, c) /\ o.at = c.at
          /\ o.unit = [spool |-> s, seq |-> c.seq, item |-> j]
    BY OwedSeen
  <2>2. s = t.spool /\ c.seq = b.seq
    BY <1>4, <2>1 DEF KeyOf
  <2>3. c = b
    BY <1>1, <2>1, <2>2 DEF Unambiguous
  <2> QED
    BY <2>1, <2>3
<1> QED
  BY <1>2, <1>3, <1>4 DEF Meter!Owing, Owed

\* Items are waived for a reason.
LEMMA WaiveMeter ==
  ASSUME TypeOK, MeterInv, NEW w \in Worker, task[w] \in Consuming,
         \A s, b : Seen(s, b)' <=> Seen(s, b), spool' = spool,
         NEW some \in SUBSET task[w].batch.items,
         \A a \in some \cap Access :
           \/ access[a] = "GONE"
           \/ task[w].batch.at[OwnerOf[a]] < period[OwnerOf[a]],
         settled' = settled \cup KeysOf(task[w], some),
         UNCHANGED <<customerVars, accessVars, counted>>
  PROVE  \E units \in SUBSET Meter!Owing : Meter!Waive(units)
<1> DEFINE t     == task[w]
           keys  == KeysOf(t, some)
           units == keys \ settled
<1>1. units \subseteq Meter!Owing
  BY ItemOwed DEF KeysOf, MeterInv, ChargeInv
<1>2. ASSUME NEW k \in Customer, NEW o \in Owed, o.unit \in units \cap TrafficOf[k]
      PROVE  Meter!Excused(k, o)
  <2>1. PICK a \in some : o.unit = KeyOf(t, a)
    BY <1>2 DEF KeysOf
  <2>2. o.unit \in Key /\ o.unit.item = a /\ a \in Access /\ OwnerOf[a] = k
    BY <1>2, <2>1 DEF TrafficOf, Rows, KeyOf
  <2>3. o.at = t.batch.at
    BY <2>1, ItemOwed DEF MeterInv, ChargeInv
  <2>4. access[a] = "GONE" \/ t.batch.at[k] < period[k]
    BY <2>2
  <2> QED
    BY <2>2, <2>3, <2>4 DEF Meter!Excused, Void
<1>3. Meter!Settle(units)
  <2>1. settled' = settled \cup units
    OBVIOUS
  <2>2. Owed' = {o \in Owed : o.unit \notin units}
    BY <2>1, SettleStep
  <2>3. Present' = Present /\ Void' = Void
    BY DEF Present, HasPeriod, Void, customerVars, accessVars
  <2> QED
    BY <2>1, <2>2, <2>3 DEF Meter!Settle, customerVars
<1>4. UNCHANGED <<total, exhausted, Served, Charged>>
  BY DEF Served, Charged, customerVars, accessVars
<1>5. Meter!Waive(units)
  BY <1>2, <1>3, <1>4 DEF Meter!Waive
<1> QED
  BY <1>1, <1>5

LEMMA QuarantineMeter ==
  ASSUME TypeOK, MeterInv, NEW w \in Worker, Quarantine(w)
  PROVE  \E units \in SUBSET Meter!Owing : Meter!Waive(units)
<1>1. /\ \A s, b : Seen(s, b)' <=> Seen(s, b)
      /\ spool' = spool /\ task[w] \in Consuming /\ task[w].pc = "consuming"
  BY WorkSeen DEF Quarantine
<1>2. InHand(w)
  BY DEF MeterInv, ChargeInv
<1>3. /\ task[w].bad \subseteq task[w].batch.items
      /\ \A a \in task[w].bad \cap Access :
           \/ access[a] = "GONE"
           \/ task[w].batch.at[OwnerOf[a]] < period[OwnerOf[a]]
  BY <1>1, <1>2 DEF InHand
<1>4. /\ settled' = settled \cup KeysOf(task[w], task[w].bad)
      /\ UNCHANGED <<customerVars, accessVars, counted>>
  BY DEF Quarantine
<1> QED
  BY <1>1, <1>3, <1>4, WaiveMeter

\* A period that is not the latest one lies behind the moment.
LEMMA ClosedMoment ==
  ASSUME TypeOK, NEW k \in Customer, NEW at \in Nat, PeriodAt(k, at) # 0,
         PeriodAt(k, at) < period[k]
  PROVE  at < period[k]
<1>1. period[k] \in Nat
  BY Numbers
<1> QED
  BY <1>1 DEF PeriodAt

LEMMA IgnoreMeter ==
  ASSUME TypeOK, MeterInv, NEW w \in Worker, NEW k \in Customer, IgnoreClosed(w, k)
  PROVE  \E units \in SUBSET Meter!Owing : Meter!Waive(units)
<1> DEFINE t == task[w]
<1>1. /\ \A s, b : Seen(s, b)' <=> Seen(s, b)
      /\ spool' = spool /\ t \in Consuming /\ t.pc = "consuming"
  BY WorkSeen DEF IgnoreClosed, GroupNext
<1>2. InHand(w)
  BY DEF MeterInv, ChargeInv
<1>3. Group(t, k) \subseteq t.batch.items /\ \A a \in Group(t, k) : OwnerOf[a] = k
  BY <1>1, <1>2 DEF InHand, Group
<1>4. t.batch.at[k] < period[k]
  BY <1>1, BatchMoment, ClosedMoment DEF IgnoreClosed
<1>5. /\ settled' = settled \cup KeysOf(t, Group(t, k))
      /\ UNCHANGED <<customerVars, accessVars, counted>>
  BY DEF IgnoreClosed, Register
<1> QED
  BY <1>1, <1>3, <1>4, <1>5, WaiveMeter

LEMMA MeterCardinality ==
  ASSUME NEW S
  PROVE  Meter!Cardinality(S) = Cardinality(S)
  BY DEF Meter!Cardinality, Cardinality

\* An item has one key per batch.
LEMMA KeysCardinality ==
  ASSUME NEW t, NEW some, IsFiniteSet(some)
  PROVE  Cardinality(KeysOf(t, some)) = Cardinality(some)
<1> DEFINE f == [i \in some |-> KeyOf(t, i)]
<1>1. f \in [some -> KeysOf(t, some)]
  BY DEF KeysOf
<1>2. \A i, j \in some : f[i] = f[j] => i = j
  BY DEF KeyOf
<1>3. \A x \in KeysOf(t, some) : \E i \in some : f[i] = x
  BY DEF KeysOf
<1>4. f \in Bijection(some, KeysOf(t, some))
  BY <1>1, <1>2, <1>3 DEF Bijection, Injection, Surjection, IsInjective
<1> QED
  BY <1>4, FS_Bijection DEF ExistsBijection

\* What a charge is about: the items of the group that nobody settled.
LEMMA FreshOwed ==
  ASSUME TypeOK, MeterInv, NEW w \in Worker, NEW k \in Customer,
         GroupNext(task[w], k), Register(w, k)
  PROVE  LET units == KeysOf(task[w], Fresh(task[w], k))
         IN  /\ units \subseteq Meter!Owing
             /\ units \subseteq TrafficOf[k]
             /\ units \subseteq Key
             /\ settled' = settled \cup units
<1> DEFINE t     == task[w]
           fresh == Fresh(t, k)
           units == KeysOf(t, fresh)
<1>1. t \in Consuming /\ t.pc = "consuming"
  BY TaskFields DEF GroupNext, TypeOK
<1>2. InHand(w)
  BY DEF MeterInv, ChargeInv
<1>3. fresh \subseteq Group(t, k) /\ Group(t, k) \subseteq t.batch.items
  BY <1>1, <1>2 DEF InHand, Group, Fresh
<1>4. fresh \subseteq Rows(k) /\ fresh \subseteq Item
  BY <1>1, <1>3, FreshIsFinite DEF Group, Rows, Item
<1>5. units \subseteq Key
  BY <1>1, <1>4, KeysAreKeys
<1>6. units \subseteq TrafficOf[k]
  <2> SUFFICES ASSUME NEW a \in fresh
               PROVE  KeyOf(t, a) \in TrafficOf[k]
    BY DEF KeysOf
  <2>1. KeyOf(t, a) \in Key /\ KeyOf(t, a).item = a
    BY <1>5 DEF KeysOf, KeyOf
  <2> QED
    BY <1>4, <2>1 DEF TrafficOf
<1>7. ASSUME NEW a \in fresh
      PROVE  KeyOf(t, a) \notin settled
  <2>1. KeyOf(t, a).item = a /\ a \in Access
    BY <1>4 DEF KeyOf, Rows
  <2>2. KeyOf(t, a) \notin registry /\ access[a] # "GONE"
    BY DEF Fresh, Register, Registrable
  <2> QED
    BY <2>1, <2>2 DEF MeterInv, Remaining
<1>8. units \subseteq Meter!Owing
  BY <1>1, <1>3, <1>7, ItemOwed DEF KeysOf, MeterInv, ChargeInv
<1>9. settled' = settled \cup units
  <2>1. settled' = settled \cup KeysOf(t, Group(t, k))
    BY DEF Register
  <2>2. \A a \in Group(t, k) \ fresh : KeyOf(t, a) \in settled
    BY DEF Fresh, MeterInv, ChargeInv
  <2> QED
    BY <1>3, <2>1, <2>2 DEF KeysOf
<1> QED
  BY <1>5, <1>6, <1>8, <1>9

\* Crossing the quota takes every access of the customer off the node.
LEMMA ChargeServed ==
  ASSUME TypeOK, MarkInv, PresentIsEntitled, MarkInv', PresentIsEntitled',
         NEW w \in Worker, NEW k \in Customer, Charge(w, k)
  PROVE  Served' = IF exhausted'[k] THEN Served \ {k} ELSE Served
<1> DEFINE crosses == /\ Fresh(task[w], k) # {}
                      /\ ~exhausted[k]
                      /\ IsQuotaExhausted(total[k][PeriodAt(k, task[w].batch.at[k])]
                                            + Cardinality(Fresh(task[w], k)), quota[k])
<1>1. /\ Rewrite(IF crosses THEN Live(k) ELSE {}, {}, {}, "ABSENT")
      /\ exhausted' = [exhausted EXCEPT ![k] = @ \/ crosses]
      /\ drifted' = drifted
  BY DEF Charge, Withdrawn
<1>2. \A a \in Access : /\ OwnerOf[a] # k => access'[a] = access[a]
                        /\ ~crosses => access'[a] = access[a]
  BY <1>1 DEF Rewrite, Live, Rows
<1>3. Served' \ {k} = Served \ {k}
  BY <1>1, <1>2 DEF Served
<1>4. exhausted'[k] => k \notin Served'
  <2> SUFFICES ASSUME exhausted'[k], NEW a \in Access \ drifted', access'[a] = "PRESENT",
                      OwnerOf[a] = k
               PROVE  FALSE
    BY DEF Served
  <2> QED
    BY DEF PresentIsEntitled
<1>5. ~exhausted'[k] => Served' = Served
  <2> SUFFICES ASSUME ~exhausted'[k]
               PROVE  Served' = Served
    OBVIOUS
  <2>1. exhausted'[k] <=> exhausted[k] \/ crosses
    BY <1>1 DEF TypeOK
  <2>2. access' = access
    <3>1. \A a \in Access : access'[a] = access[a]
      BY <1>2, <2>1
    <3>2. access' \in [Access -> AccessState]
      BY <1>1, TypeStep DEF Rewrite, TypeOK, AccessState
    <3> QED
      BY <3>1, <3>2 DEF TypeOK
  <2> QED
    BY <1>1, <2>2 DEF Served
<1> QED
  BY <1>3, <1>4, <1>5

LEMMA ChargeMeter ==
  ASSUME TypeOK, MeterInv, MarkInv', PresentIsEntitled',
         NEW w \in Worker, NEW k \in Customer, Charge(w, k)
  PROVE  \E units \in SUBSET Meter!Owing : Meter!Charge(k, units)
<1> DEFINE t     == task[w]
           p     == PeriodAt(k, t.batch.at[k])
           fresh == Fresh(t, k)
           units == KeysOf(t, fresh)
<1>1. /\ GroupNext(t, k) /\ Register(w, k) /\ p = period[k]
      /\ total' = [total EXCEPT ![k][p] = total[k][p] + Cardinality(fresh)]
      /\ counted' = [x \in Key |-> IF x \in units THEN counted[x] + 1 ELSE counted[x]]
      /\ \E crosses \in BOOLEAN : exhausted' = [exhausted EXCEPT ![k] = @ \/ crosses]
      /\ UNCHANGED <<period, removed, quota>>
  BY DEF Charge, Open
<1>2. /\ units \subseteq Meter!Owing /\ units \subseteq TrafficOf[k] /\ units \subseteq Key
      /\ settled' = settled \cup units
  BY <1>1, FreshOwed
<1>3. HasPeriod(k) /\ Present[k] /\ Present' = Present
  BY <1>1, ChargeEffect DEF Present, HasPeriod
<1>4. Meter!Settle(units)
  <2>1. spool' = spool /\ \A s, b : Seen(s, b)' <=> Seen(s, b)
    BY WorkSeen
  <2>2. Owed' = {o \in Owed : o.unit \notin units}
    BY <1>2, <2>1, SettleStep
  <2>3. Void' = Void
    <3>1. access' = [a \in Access |-> access'[a]] /\
          \A a \in Access : access'[a] = access[a] \/
                            (access'[a] = "ABSENT" /\ a \in Live(k))
      BY DEF Charge, Rewrite, Withdrawn
    <3>2. \A a \in Access : access'[a] = "GONE" <=> access[a] = "GONE"
      BY <3>1 DEF Live
    <3> QED
      BY <3>2, VoidKept
  <2> QED
    BY <1>1, <1>2, <1>3, <2>1, <2>2, <2>3 DEF Meter!Settle
<1>5. Charged' = Charged \cup units
  BY <1>1, <1>2 DEF Charged, TypeOK
<1>6. total' = [total EXCEPT ![k][period[k]] = @ + Cardinality(units)]
  <2>1. Cardinality(units) = Cardinality(fresh)
    <3>1. t \in Consuming
      BY <1>1, TaskFields DEF GroupNext, TypeOK
    <3> QED
      BY <3>1, FreshIsFinite, KeysCardinality
  <2> QED
    BY <1>1, <2>1
<1>7. exhausted' = [exhausted EXCEPT ![k] = total'[k][period[k]] >= quota[k]]
  <2>1. exhausted'[k] <=> total'[k][period[k]] >= quota[k]
    BY <1>1, <1>3 DEF MarkInv, MarkOf, HasPeriod, IsQuotaExhausted, Spent
  <2>2. exhausted \in [Customer -> BOOLEAN] /\ exhausted' \in [Customer -> BOOLEAN]
    BY <1>1 DEF TypeOK
  <2>3. \A j \in Customer \ {k} : exhausted'[j] = exhausted[j]
    BY <1>1 DEF TypeOK
  <2> QED
    BY <2>1, <2>2, <2>3
<1>8. Served' = IF exhausted'[k] THEN Served \ {k} ELSE Served
  BY ChargeServed DEF MeterInv
<1>9. Meter!Charge(k, units)
  BY <1>2, <1>3, <1>4, <1>5, <1>6, <1>7, <1>8, MeterCardinality DEF Meter!Charge
<1> QED
  BY <1>2, <1>9

\* Pulls, pauses, failures, crashes, leases and the retention lose at most what
\* went with a spool.
LEMMA OtherMeter ==
  ASSUME TypeOK, MeterInv, [Next]_vars, UNCHANGED <<customerVars, accessVars>>,
         UNCHANGED <<settled, counted>>,
         ~\E items \in SUBSET Item, at \in Moment : Collect(items, at)
  PROVE  Meter!Lose
<1>1. \A s, b : ~Collected(s, b)
  <2> SUFFICES ASSUME NEW b \in pending, b.seq = spool.top + 1
               PROVE  FALSE
    <3>1. spool'.id = spool.id => pending' \subseteq pending
      <4>1. CASE UNCHANGED nodeVars
        BY <4>1 DEF nodeVars
      <4>2. CASE LoseSpool
        BY <4>2 DEF LoseSpool
      <4>3. CASE \E w \in Worker : Pull(w) \/ Repeat(w) \/ PullFails(w)
        BY <4>3 DEF Pull, Repeat, PullFails, Answer, Unacknowledged
      <4> QED
        BY <4>1, <4>2, <4>3, NodeSteps
    <3> QED
      BY <3>1 DEF Collected
  <2>1. spool.top \in Nat /\ b.seq <= spool.top
    BY AgentNumbers DEF TypeOK, AgentSpool, MeterInv, OrderInv, Numbered
  <2> QED
    BY <2>1
<1>2. Owed' \subseteq Owed /\ \A o \in Owed \ Owed' : SpoolOf[o.unit] # spool'.id
  BY <1>1, OwedStays
<1>3. spool'.id \in {spool.id, spool.id + 1}
  BY SpoolForward
<1>4. UNCHANGED <<Meter!customerVars, Served, settled, Charged>>
  BY DEF Meter!customerVars, Present, HasPeriod, Served, Void, Charged, customerVars, accessVars
<1> QED
  BY <1>2, <1>3, <1>4 DEF Meter!Lose

-----------------------------------------------------------------------------

LEMMA MeteringInit == Init => Meter!Init
<1> SUFFICES ASSUME Init
             PROVE  Meter!Init
  OBVIOUS
<1>1. \A s, b : ~Seen(s, b)
  BY DEF Init, Seen, Carries, Idle
<1>2. Owed = {}
  BY <1>1, ReportedSeen DEF ReportedIsSeen, Owed
<1>3. Present = [k \in Customer |-> FALSE]
  <2>1. \A k \in Customer : HasPeriod(k) = FALSE
    BY DEF Init, HasPeriod
  <2> QED
    BY <2>1, Zenon DEF Present
<1>4. Served = {} /\ Void = {} /\ Charged = {}
  BY DEF Init, Served, Void, Charged
<1>5. 0 \in Period
  BY UsageAssumption DEF Period, UsageAssumption
<1> QED
  BY <1>2, <1>3, <1>4, <1>5 DEF Init, Meter!Init

LEMMA MeteringStep ==
  ASSUME TypeOK, MeterInv, MeterInv', [Next]_vars
  PROVE  [Meter!Next]_(Meter!vars)
<1>0. MarkInv' /\ PresentIsEntitled'
  BY DEF MeterInv
<1>1. ASSUME NEW k \in Customer, Commands(k)
      PROVE  Meter!Next
  BY <1>0, <1>1, CommandMeter DEF Meter!Next
<1>2. ASSUME NEW a \in Access, Drift(a)
      PROVE  Meter!Next
  BY <1>0, <1>2, DriftMeter DEF Meter!Next
<1>3. ASSUME NEW w \in Worker, NEW k \in Customer, Charge(w, k)
      PROVE  Meter!Next
  BY <1>0, <1>3, ChargeMeter DEF Meter!Next
<1>4. ASSUME NEW w \in Worker, Quarantine(w) \/ \E k \in Customer : IgnoreClosed(w, k)
      PROVE  Meter!Next
  BY <1>4, QuarantineMeter, IgnoreMeter DEF Meter!Next
<1>5. ASSUME NEW items \in SUBSET Item, NEW at \in Moment, Collect(items, at)
      PROVE  Meter!Next
  BY <1>5, CollectMeter DEF Meter!Next
<1>6. CASE /\ UNCHANGED <<customerVars, accessVars>>
           /\ UNCHANGED <<settled, counted>>
           /\ ~\E items \in SUBSET Item, at \in Moment : Collect(items, at)
  BY <1>6, OtherMeter DEF Meter!Next
<1>7. \/ UNCHANGED <<settled, counted>>
      \/ \E w \in Worker : Quarantine(w)
      \/ \E w \in Worker, k \in Customer : IgnoreClosed(w, k) \/ Charge(w, k)
  BY RegistrySteps DEF registryVars, Finalize, Age, Prune
<1> QED
  BY <1>1, <1>2, <1>3, <1>4, <1>5, <1>6, <1>7, Classes

\* UsagePull implements Metering: whoever pulls, crashes, pulls twice or pulls
\* at the same time as others, what an agent reported is settled once, to the
\* period it was used in while that period is open and the access exists, the
\* quota cuts a customer off in the step in which he reaches it, and only a
\* lost spool takes unsettled traffic with it, as long as a row of the registry
\* does not outlive the retention.
THEOREM Metered ==
  ASSUME "age" \notin Events
  PROVE  Spec => ImplementsMetering
<1>1. Init => MeterInv /\ Meter!Init
  BY MeterInit, MeteringInit
<1>2. TypeOK /\ MeterInv /\ [Next]_vars => MeterInv'
  BY MeterStep
<1>3. TypeOK /\ MeterInv /\ MeterInv' /\ [Next]_vars => [Meter!Next]_(Meter!vars)
  BY MeteringStep
<1> QED
  BY <1>1, <1>2, <1>3, TypeCorrect, PTL DEF Spec, ImplementsMetering, Meter!Spec

=============================================================================
