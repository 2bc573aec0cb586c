--------------------------- MODULE CommandsProofs ---------------------------
(***************************************************************************)
(* Theorems about CustomerCommands, for every fleet, every set of          *)
(* commands, callers and workers, and every bound.                         *)
(***************************************************************************)
EXTENDS CustomerCommands, FiniteSetTheorems, TLAPS

-----------------------------------------------------------------------------
(* Constants and the shapes of values. *)

LEMMA TimeIsNat == ASSUME CustomerAssumption PROVE Time \subseteq Nat /\ 0 \in Time
  BY DEF Time, CustomerAssumption

LEMMA GenFacts ==
  ASSUME CustomerAssumption, NEW n \in 0 .. MaxGen
  PROVE  /\ n \in Nat
         /\ n > 0 => n \in Gen
         /\ n < MaxGen => n + 1 \in Gen /\ n + 1 \in 0 .. MaxGen
  BY DEF Gen, CustomerAssumption

LEMMA CommandFields ==
  ASSUME CustomerAssumption, NEW cmd \in Command
  PROVE  /\ cmd.kind \in {"apply", "block", "unblock", "delete"}
         /\ cmd.number \in Nat /\ cmd.number > 0
         /\ cmd.kind = "apply" => cmd.until \in Nat /\ cmd.until > 0 /\ cmd.quota \in Nat
         /\ cmd # NoCommand
<1>1. cmd \in Commands
  BY DEF CustomerAssumption
<1>2. cmd # NoCommand
  BY <1>1 DEF CustomerAssumption
<1>3. CASE cmd \in [kind : {"apply"}, number : Nat \ {0}, until : Nat \ {0}, quota : Nat \ {0}]
  BY <1>2, <1>3
<1>4. CASE cmd \in [kind : {"block", "unblock", "delete"}, number : Nat \ {0}]
  BY <1>2, <1>4
<1> QED
  BY <1>1, <1>3, <1>4 DEF Commands

LEMMA RequestFields ==
  ASSUME CustomerAssumption, TypeOK, NEW c \in Caller, request[c].pc = "begun"
  PROVE  request[c].cmd \in Command /\ request[c].at \in Time /\ request[c] # Idle
<1>1. request[c] \in {Idle} \cup [pc : {"begun"}, cmd : Command, at : Time]
  BY DEF TypeOK
<1>2. request[c] # Idle
  BY DEF Idle
<1> QED
  BY <1>1, <1>2

LEMMA RowFields ==
  ASSUME NEW row \in Row
  PROVE  /\ row.state \in {"PRESENT", "ABSENT"}
         /\ row.egress \in Egress
         /\ row.retired \in BOOLEAN
         /\ row.apply \in {"PENDING", "APPLIED", "FAILED"}
         /\ row.op \in {"none", "waiting", "sent"}
         /\ row.stray \in BOOLEAN
  BY DEF Row

LEMMA BlankIsRow ==
  ASSUME CustomerAssumption
  PROVE  Blank \in Row /\ Blank.state = "ABSENT"
<1>1. (CHOOSE e \in Egress : TRUE) \in Egress
  BY DEF CustomerAssumption
<1> QED
  BY <1>1 DEF Blank, Row

LEMMA RewrittenFacts ==
  ASSUME NEW row \in Row, NEW state \in {"PRESENT", "ABSENT"}, NEW egress \in Egress,
         NEW retired \in BOOLEAN, NEW issue \in BOOLEAN
  PROVE  /\ Rewritten(row, state, egress, retired, issue) \in Row
         /\ Rewritten(row, state, egress, retired, issue).state = state
         /\ Rewritten(row, state, egress, retired, issue).egress = egress
         /\ Rewritten(row, state, egress, retired, issue).retired = retired
  BY RowFields DEF Rewritten, Row

LEMMA DesiredFacts ==
  ASSUME NEW lifecycle, NEW at, NEW until, NEW exhausted
  PROVE  /\ Desired(lifecycle, at, until, exhausted) \in {"PRESENT", "ABSENT"}
         /\ Desired(lifecycle, at, until, exhausted) = "PRESENT" => lifecycle = "ACTIVE"
  BY DEF Desired

LEMMA BornFacts ==
  ASSUME CustomerAssumption, NEW state \in {"PRESENT", "ABSENT"}, NEW egress \in Egress
  PROVE  /\ Born(state, egress) \in Row
         /\ Born(state, egress).state = state
         /\ Born(state, egress).egress = egress
         /\ Born(state, egress).retired = FALSE
<1>1. Blank \in Row
  BY BlankIsRow
<1>2. Blank.stray \in BOOLEAN
  BY <1>1, RowFields
<1> QED
  BY <1>2 DEF Born, Rewritten, Row

LEMMA RestatedFacts ==
  ASSUME NEW row \in Row, NEW state \in {"PRESENT", "ABSENT"}
  PROVE  /\ Restated(row, state) \in Row
         /\ Restated(row, state).state = state
         /\ Restated(row, state).egress = row.egress
         /\ Restated(row, state).retired = row.retired
<1>1. row.egress \in Egress /\ row.retired \in BOOLEAN
  BY RowFields
<1>2. CASE row.state = state
  BY <1>2 DEF Restated
<1>3. CASE row.state # state
  <2>1. Restated(row, state) = Rewritten(row, state, row.egress, row.retired, TRUE)
    BY <1>3 DEF Restated
  <2> QED
    BY <1>1, <2>1, RowFields DEF Rewritten, Row
<1> QED
  BY <1>2, <1>3

LEMMA NewestFacts ==
  ASSUME CustomerAssumption, gen \in [Target -> 0 .. MaxGen],
         access \in [Target -> [Gen -> Row]], NEW t \in Target
  PROVE  /\ Newest(t) \in Row
         /\ gen[t] \in 0 .. MaxGen
         /\ Exists(t) => gen[t] \in Gen /\ Newest(t) = access[t][gen[t]] /\ ~Newest(t).retired
<1>1. gen[t] \in 0 .. MaxGen /\ access[t] \in [Gen -> Row]
  OBVIOUS
<1>2. CASE gen[t] = 0
  BY <1>1, <1>2, BlankIsRow DEF Newest, Exists
<1>3. CASE gen[t] > 0
  <2>1. gen[t] \in Gen
    BY <1>1, <1>3, GenFacts
  <2> QED
    BY <1>1, <1>3, <2>1, GenFacts DEF Newest, Exists
<1> QED
  BY <1>1, <1>2, <1>3, GenFacts

-----------------------------------------------------------------------------
(* What the three writers of accesses do: the types, and the rows that are   *)
(* PRESENT afterwards.                                                       *)

\* Every PRESENT row belongs to an ACTIVE customer, is not retired and has a
\* generation that was given out.
RowsInv ==
    \A t \in Target, g \in Gen :
        access[t][g].state = "PRESENT" => life = "ACTIVE" /\ g <= gen[t] /\ ~access[t][g].retired

\* The rows a writer leaves PRESENT: its own, where the lifecycle allows it,
\* and those that were PRESENT before.
PresentAfter(lifecycle) ==
    \A t \in Target, g \in Gen :
        access'[t][g].state = "PRESENT" =>
            /\ lifecycle = "ACTIVE" \/ access[t][g].state = "PRESENT"
            /\ g <= gen'[t]
            /\ ~access'[t][g].retired

RowsOK ==
    /\ gen \in [Target -> 0 .. MaxGen]
    /\ access \in [Target -> [Gen -> Row]]

\* A row that a lifecycle allows to be written over another one.
Allowed(row, before, lifecycle) ==
    /\ row \in Row
    /\ row.state = "PRESENT" =>
          ~row.retired /\ (lifecycle = "ACTIVE" \/ before.state = "PRESENT")

LEMMA TopologyFacts ==
  ASSUME CustomerAssumption, topology \in [Target -> Egress \cup {Outside}], NEW t \in Target
  PROVE  InFleet(t) => topology[t] \in Egress
  BY DEF InFleet

LEMMA BornAllowed ==
  ASSUME CustomerAssumption, NEW egress \in Egress,
         NEW lifecycle, NEW at, NEW until, NEW exhausted
  PROVE  Allowed(Born(Desired(lifecycle, at, until, exhausted), egress), Blank, lifecycle)
<1>1. Blank.stray \in BOOLEAN
  BY BlankIsRow, RowFields
<1> DEFINE state == Desired(lifecycle, at, until, exhausted)
<1>2. state \in {"PRESENT", "ABSENT"} /\ (state = "PRESENT" => lifecycle = "ACTIVE")
  BY DEF Desired
<1> HIDE DEF state
<1>3. Allowed(Born(state, egress), Blank, lifecycle)
  BY <1>1, <1>2 DEF Born, Rewritten, Row, Allowed
<1> QED
  BY <1>3 DEF state

LEMMA RestatedAllowed ==
  ASSUME NEW row \in Row, ~row.retired, NEW lifecycle, NEW at, NEW until, NEW exhausted
  PROVE  Allowed(Restated(row, Desired(lifecycle, at, until, exhausted)), row, lifecycle)
<1> DEFINE state == Desired(lifecycle, at, until, exhausted)
<1>1. state \in {"PRESENT", "ABSENT"} /\ (state = "PRESENT" => lifecycle = "ACTIVE")
  BY DEF Desired
<1> HIDE DEF state
<1>2. Allowed(Restated(row, state), row, lifecycle)
  BY <1>1, RowFields DEF Restated, Rewritten, Row, Allowed
<1> QED
  BY <1>2 DEF state

LEMMA RewrittenAllowed ==
  ASSUME NEW row \in Row, NEW egress \in Egress,
         NEW lifecycle, NEW at, NEW until, NEW exhausted
  PROVE  Allowed(Rewritten(row, Desired(lifecycle, at, until, exhausted), egress, FALSE, TRUE),
                 row, lifecycle)
<1> DEFINE state == Desired(lifecycle, at, until, exhausted)
<1>1. state \in {"PRESENT", "ABSENT"} /\ (state = "PRESENT" => lifecycle = "ACTIVE")
  BY DEF Desired
<1> HIDE DEF state
<1>2. Allowed(Rewritten(row, state, egress, FALSE, TRUE), row, lifecycle)
  BY <1>1, RowFields DEF Rewritten, Row, Allowed
<1> QED
  BY <1>2 DEF state

LEMMA WithdrawnAllowed ==
  ASSUME NEW row \in Row, NEW lifecycle, ~row.retired
  PROVE  Allowed(Restated(row, "ABSENT"), row, lifecycle)
  BY RowFields DEF Restated, Rewritten, Row, Allowed

LEMMA SameAllowed ==
  ASSUME NEW row \in Row, NEW lifecycle, ~row.retired
  PROVE  Allowed(row, row, lifecycle)
  BY DEF Allowed

LEMMA UpdateFacts ==
  ASSUME CustomerAssumption, RowsOK, RowsInv, NEW lifecycle, NEW update,
         \A t \in Target : Exists(t) => Allowed(update[t], Newest(t), lifecycle),
         UpdateAccesses(update)
  PROVE  RowsOK' /\ gen' = gen /\ PresentAfter(lifecycle)
<1>1. \A t \in Target : gen[t] \in Nat /\ (Exists(t) => Newest(t) = access[t][gen[t]])
  BY NewestFacts, GenFacts DEF RowsOK
<1>2. RowsOK' /\ gen' = gen
  BY DEF UpdateAccesses, RowsOK, Allowed
<1>3. ASSUME NEW t \in Target, NEW g \in Gen, access'[t][g].state = "PRESENT"
      PROVE  /\ lifecycle = "ACTIVE" \/ access[t][g].state = "PRESENT"
             /\ g <= gen'[t]
             /\ ~access'[t][g].retired
  <2>1. g \in Nat /\ access'[t][g] = IF g = gen[t] /\ Exists(t) THEN update[t] ELSE access[t][g]
    BY DEF UpdateAccesses, Gen
  <2>2. CASE g = gen[t] /\ Exists(t)
    <3>1. Allowed(access'[t][g], access[t][g], lifecycle)
      BY <1>1, <2>1, <2>2
    <3> QED
      BY <1>1, <1>2, <1>3, <2>1, <2>2, <3>1 DEF Allowed
  <2>3. CASE ~(g = gen[t] /\ Exists(t))
    BY <1>2, <1>3, <2>1, <2>3 DEF RowsInv
  <2> QED
    BY <2>2, <2>3
<1> QED
  BY <1>2, <1>3 DEF PresentAfter

LEMMA WriteFacts ==
  ASSUME CustomerAssumption, RowsOK, RowsInv, NEW lifecycle,
         NEW new \in SUBSET Target, NEW born, NEW update,
         \A t \in new : Allowed(born[t], Blank, lifecycle),
         \A t \in Target : Exists(t) => Allowed(update[t], Newest(t), lifecycle),
         WriteAccesses(new, born, update)
  PROVE  RowsOK' /\ PresentAfter(lifecycle)
<1>1. \A t \in Target : gen[t] \in Nat /\ (Exists(t) => Newest(t) = access[t][gen[t]])
  BY NewestFacts, GenFacts DEF RowsOK
<1>2. RowsOK'
  <2>1. \A t \in Target : gen[t] \in 0 .. MaxGen /\ (t \in new => gen[t] < MaxGen)
    BY DEF WriteAccesses, RowsOK
  <2>2. gen' \in [Target -> 0 .. MaxGen]
    BY <2>1, GenFacts DEF WriteAccesses
  <2>3. access' \in [Target -> [Gen -> Row]]
    BY DEF WriteAccesses, RowsOK, Allowed
  <2> QED
    BY <2>2, <2>3 DEF RowsOK
<1>3. ASSUME NEW t \in Target, NEW g \in Gen, access'[t][g].state = "PRESENT"
      PROVE  /\ lifecycle = "ACTIVE" \/ access[t][g].state = "PRESENT"
             /\ g <= gen'[t]
             /\ ~access'[t][g].retired
  <2>1. /\ g \in Nat
        /\ gen'[t] = IF t \in new THEN gen[t] + 1 ELSE gen[t]
        /\ access'[t][g] = IF t \in new /\ g = gen[t] + 1 THEN born[t]
                           ELSE IF g = gen[t] /\ Exists(t) THEN update[t] ELSE access[t][g]
    BY DEF WriteAccesses, Gen
  <2>2. CASE t \in new /\ g = gen[t] + 1
    <3>1. Allowed(access'[t][g], Blank, lifecycle)
      BY <2>1, <2>2
    <3> QED
      BY <1>1, <1>3, <2>1, <2>2, <3>1, BlankIsRow DEF Allowed
  <2>3. CASE ~(t \in new /\ g = gen[t] + 1) /\ g = gen[t] /\ Exists(t)
    <3>1. Allowed(access'[t][g], access[t][g], lifecycle)
      BY <1>1, <2>1, <2>3
    <3> QED
      BY <1>1, <1>3, <2>1, <2>3, <3>1 DEF Allowed
  <2>4. CASE ~(t \in new /\ g = gen[t] + 1) /\ ~(g = gen[t] /\ Exists(t))
    <3>1. g <= gen[t] /\ ~access[t][g].retired /\ access[t][g].state = "PRESENT"
      BY <1>3, <2>1, <2>4 DEF RowsInv
    <3> QED
      BY <1>1, <2>1, <2>4, <3>1
  <2> QED
    BY <2>2, <2>3, <2>4
<1> QED
  BY <1>2, <1>3 DEF PresentAfter

LEMMA ApplyFacts ==
  ASSUME CustomerAssumption, RowsOK, topology \in [Target -> Egress \cup {Outside}],
         RowsInv,
         NEW lifecycle, NEW at, NEW until, NEW exhausted,
         ApplyAccesses(lifecycle, at, until, exhausted)
  PROVE  RowsOK' /\ PresentAfter(lifecycle)
<1> DEFINE state(t) == Desired(lifecycle, at, until, exhausted[EntryNode[t]])
           new == {t \in Target : Missing(t)}
           born == [t \in Target |-> Born(state(t), topology[t])]
           update == [t \in Target |-> IF InSync(t) THEN Restated(Newest(t), state(t))
                                       ELSE Newest(t)]
<1>1. \A t \in new : Allowed(born[t], Blank, lifecycle)
  BY TopologyFacts, BornAllowed DEF Missing
<1>2. ASSUME NEW t \in Target, Exists(t)
      PROVE  Allowed(update[t], Newest(t), lifecycle)
  BY <1>2, NewestFacts, RestatedAllowed, SameAllowed DEF RowsOK
<1>3. WriteAccesses(new, born, update)
  BY DEF ApplyAccesses
<1>4. new \subseteq Target
  OBVIOUS
<1> HIDE DEF state, new, born, update
<1> QED
  BY <1>1, <1>2, <1>3, <1>4, WriteFacts

LEMMA MaterializeFacts ==
  ASSUME CustomerAssumption, RowsOK, topology \in [Target -> Egress \cup {Outside}],
         RowsInv, NEW at, PlanMaterialize(at)
  PROVE  RowsOK' /\ PresentAfter(life)
<1> DEFINE exhausted == ExhaustedBy(total, quota)
           state(t) == Desired(life, at, expires, exhausted[EntryNode[t]])
           new == {t \in Target : Missing(t) /\ at < expires}
           born == [t \in Target |-> Born(state(t), topology[t])]
           update == [t \in Target |->
                         IF InSync(t) THEN Restated(Newest(t), state(t))
                         ELSE IF InFleet(t)
                           THEN Rewritten(Newest(t), state(t), topology[t], FALSE, TRUE)
                         ELSE RetiredRow(t)]
<1>1. \A t \in new : Allowed(born[t], Blank, life)
  BY TopologyFacts, BornAllowed DEF Missing
<1>2. ASSUME NEW t \in Target, Exists(t)
      PROVE  Allowed(update[t], Newest(t), life)
  <2>1. Newest(t) \in Row /\ ~Newest(t).retired
    BY <1>2, NewestFacts DEF RowsOK
  <2>2. CASE InSync(t)
    BY <2>1, <2>2, RestatedAllowed
  <2>3. CASE ~InSync(t) /\ InFleet(t)
    <3>1. update[t] = Rewritten(Newest(t), state(t), topology[t], FALSE, TRUE)
      BY <2>3
    <3>2. topology[t] \in Egress
      BY <2>3, TopologyFacts
    <3>3. Allowed(Rewritten(Newest(t), state(t), topology[t], FALSE, TRUE), Newest(t), life)
      BY <2>1, <3>2, RewrittenAllowed
    <3> QED
      BY <3>1, <3>3
  <2>4. CASE ~InSync(t) /\ ~InFleet(t)
    <3>1. update[t] = RetiredRow(t)
      BY <2>4
    <3>2. RetiredRow(t) \in Row /\ RetiredRow(t).state = "ABSENT"
      BY <2>1, RowFields DEF RetiredRow, Rewritten, Row
    <3> QED
      BY <3>1, <3>2 DEF Allowed
  <2> QED
    BY <2>2, <2>3, <2>4
<1>3. WriteAccesses(new, born, update)
  BY DEF PlanMaterialize
<1>4. new \subseteq Target
  OBVIOUS
<1> HIDE DEF exhausted, state, new, born, update
<1> QED
  BY <1>1, <1>2, <1>3, <1>4, WriteFacts

LEMMA ForceFacts ==
  ASSUME CustomerAssumption, RowsOK, ForceAbsent, RowsInv
  PROVE  /\ RowsOK' /\ gen' = gen
         /\ \A t \in Target, g \in Gen : access'[t][g].state # "PRESENT"
<1> DEFINE issue(t) == EntryNode[t] \in live
           row(t, g) == Rewritten(access[t][g], "ABSENT", access[t][g].egress,
                                  access[t][g].retired, issue(t))
<1>1. \A t \in Target, g \in Gen :
        access[t][g] \in Row /\ row(t, g) \in Row /\ row(t, g).state = "ABSENT"
  BY RowFields DEF RowsOK, Rewritten, Row
<1>2. \A t \in Target, g \in Gen : g > gen[t] => access[t][g].state # "PRESENT"
  BY GenFacts DEF RowsInv, RowsOK, Gen
<1>3. /\ gen' = gen
      /\ access' = [t \in Target |-> [g \in Gen |->
                       IF g <= gen[t] THEN row(t, g) ELSE access[t][g]]]
  BY DEF ForceAbsent
<1> HIDE DEF row
<1>4. RowsOK'
  BY <1>1, <1>3 DEF RowsOK
<1>5. \A t \in Target, g \in Gen : access'[t][g].state # "PRESENT"
  BY <1>1, <1>2, <1>3, GenFacts DEF RowsOK, Gen
<1> QED
  BY <1>3, <1>4, <1>5

LEMMA UnblockFacts ==
  ASSUME CustomerAssumption, RowsOK, RowsInv, NEW at, NEW until, NEW exhausted,
         UpdateAccesses([t \in Target |->
             IF InSync(t)
               THEN Restated(Newest(t), Desired("ACTIVE", at, until, exhausted[EntryNode[t]]))
               ELSE Newest(t)])
  PROVE  RowsOK' /\ gen' = gen /\ PresentAfter("ACTIVE")
<1> DEFINE update == [t \in Target |->
             IF InSync(t)
               THEN Restated(Newest(t), Desired("ACTIVE", at, until, exhausted[EntryNode[t]]))
               ELSE Newest(t)]
<1>1. ASSUME NEW t \in Target, Exists(t)
      PROVE  Allowed(update[t], Newest(t), "ACTIVE")
  BY <1>1, NewestFacts, RestatedAllowed, SameAllowed DEF RowsOK
<1>2. UpdateAccesses(update)
  OBVIOUS
<1> HIDE DEF update
<1> QED
  BY <1>1, <1>2, UpdateFacts

\* Expiry and the crossing of a quota withdraw some of the accesses.
LEMMA WithdrawFacts ==
  ASSUME CustomerAssumption, RowsOK, RowsInv, NEW some \in SUBSET Target,
         UpdateAccesses([t \in Target |->
             IF t \in some THEN Restated(Newest(t), "ABSENT") ELSE Newest(t)])
  PROVE  RowsOK' /\ gen' = gen /\ PresentAfter(life)
<1> DEFINE update == [t \in Target |->
             IF t \in some THEN Restated(Newest(t), "ABSENT") ELSE Newest(t)]
<1>1. ASSUME NEW t \in Target, Exists(t)
      PROVE  Allowed(update[t], Newest(t), life)
  BY <1>1, NewestFacts, WithdrawnAllowed, SameAllowed DEF RowsOK
<1>2. UpdateAccesses(update)
  OBVIOUS
<1> HIDE DEF update
<1> QED
  BY <1>1, <1>2, UpdateFacts

-----------------------------------------------------------------------------
(* The inductive invariant. *)

RootType ==
    /\ life \in {"ACTIVE", "BLOCKED", "DELETING", "DELETED"}
    /\ expires \in Nat
    /\ last \in Nat
    /\ stamp \in Command \cup {NoCommand}
    /\ eraseAfter \in Nat

PeriodType ==
    /\ opened \in Time \cup {Nobody}
    /\ quota \in Nat
    /\ closed \subseteq [from : Time, to : Time]
    /\ total \in [Node -> 0 .. MaxBytes]

WorldType ==
    /\ clock \in Time
    /\ topology \in [Target -> Egress \cup {Outside}]
    /\ live \subseteq Node
    /\ manifests \in 0 .. MaxManifests
    /\ failures \in 0 .. MaxFailures

RequestType ==
    /\ request \in [Caller -> {Idle} \cup [pc : {"begun"}, cmd : Command, at : Time]]
    /\ begun \in [Worker -> Time \cup {Nobody}]
    /\ reply \in {"none", "PENDING", "COMPLETED"}

LEMMA TypeParts ==
  TypeOK <=> RootType /\ PeriodType /\ RowsOK /\ WorldType /\ RequestType /\ drifted \in BOOLEAN
BY DEF TypeOK, RootType, PeriodType, RowsOK, WorldType, RequestType

\* A DELETED customer has no rows but the tombstone, any other one a period.
RootInv ==
    /\ life # "DELETED" => opened # Nobody
    /\ life = "DELETED" =>
          opened = Nobody /\ closed = {} /\ expires = 0 /\ (\A t \in Target : gen[t] = 0)

\* now() of a transaction is not in the future.
TimesInv ==
    /\ \A c \in Caller : request[c] # Idle => request[c].at <= clock
    /\ \A w \in Worker : begun[w] # Nobody => begun[w] <= clock

\* The fingerprint that a repeated Delete is compared with tells that the
\* customer is being deleted or is deleted.
StampInv ==
    /\ stamp = NoCommand => last = 0
    /\ stamp # NoCommand /\ stamp.kind = "delete" => life \in {"DELETING", "DELETED"}

\* The closed periods are ordered, do not overlap, and leave no gap before the
\* open one.
Covers(p, m) == p.from <= m /\ m < p.to
PeriodsInv ==
    opened # Nobody =>
        /\ \A p \in closed : p.from <= p.to /\ p.to <= opened
        /\ \A p, q \in closed, m \in Time : Covers(p, m) /\ Covers(q, m) => p = q
        /\ \A p \in closed, m \in Time :
              p.from <= m /\ m < opened => \E q \in closed : Covers(q, m)

IInv == TypeOK /\ RowsInv /\ RootInv /\ TimesInv /\ StampInv /\ PeriodsInv

LEMMA InitInv == ASSUME CustomerAssumption PROVE Init => IInv
<1> SUFFICES ASSUME Init PROVE IInv
  OBVIOUS
<1>1. RootType /\ PeriodType /\ RequestType /\ drifted \in BOOLEAN
  <2>1. RootType /\ RequestType /\ drifted \in BOOLEAN
    BY DEF Init, RootType, RequestType
  <2>2. total \in [Node -> 0 .. MaxBytes]
    BY DEF Init, CustomerAssumption
  <2> QED
    BY <2>1, <2>2 DEF Init, PeriodType
<1>4. WorldType
  <2>1. topology \in [Target -> Egress \cup {Outside}]
    BY DEF Init, CustomerAssumption
  <2>2. live \subseteq Node
    BY DEF Init, EntryNodes, CustomerAssumption
  <2> QED
    BY <2>1, <2>2, TimeIsNat DEF Init, WorldType, CustomerAssumption
<1>2. RowsOK /\ RowsInv
  BY BlankIsRow DEF Init, RowsOK, RowsInv, NoRows, CustomerAssumption
<1>3. RootInv /\ TimesInv /\ StampInv /\ PeriodsInv
  BY DEF Init, RootInv, TimesInv, StampInv, PeriodsInv
<1> QED
  BY <1>1, <1>2, <1>3, <1>4, TypeParts DEF IInv

LEMMA ReturnFacts ==
  ASSUME CustomerAssumption, IInv, NEW c \in Caller, NEW answer \in {"none", "PENDING", "COMPLETED"},
         Returns(c, answer)
  PROVE  WorldType' /\ RequestType' /\ TimesInv' /\ (drifted \in BOOLEAN)'
<1>1. WorldType' /\ (drifted \in BOOLEAN)'
  BY TypeParts DEF IInv, Returns, worldVars, WorldType
<1>2. RequestType'
  BY TypeParts DEF IInv, Returns, RequestType
<1>3. TimesInv'
  BY TypeParts DEF IInv, Returns, worldVars, RequestType, TimesInv
<1> QED
  BY <1>1, <1>2, <1>3

\* What a writer left PRESENT is allowed for the lifecycle it leaves.
LEMMA RowsStep ==
  ASSUME RowsInv, NEW lifecycle, PresentAfter(lifecycle),
         lifecycle = "ACTIVE" => life' = "ACTIVE", life = "ACTIVE" => life' = "ACTIVE"
  PROVE  RowsInv'
BY DEF RowsInv, PresentAfter

LEMMA AcceptFacts ==
  ASSUME CustomerAssumption, RootType, NEW cmd \in Command, Accept(cmd)
  PROVE  /\ last' \in Nat /\ stamp' \in Command \cup {NoCommand}
         /\ stamp' = cmd /\ stamp' # NoCommand /\ last' = cmd.number
BY CommandFields DEF Accept

LEMMA OpenFacts ==
  ASSUME CustomerAssumption, PeriodType, RootInv, PeriodsInv,
         NEW at \in Time, NEW limit \in Nat, OpenPeriod(at, limit)
  PROVE  PeriodType' /\ PeriodsInv' /\ opened' = at /\ opened' # Nobody
<1>1. opened' = at /\ at # Nobody /\ at \in Nat
  BY TimeIsNat DEF OpenPeriod, CustomerAssumption
<1>2. PeriodType'
  BY <1>1 DEF OpenPeriod, PeriodType, CustomerAssumption
<1>3. CASE opened = Nobody
  <2>1. closed' = {}
    BY <1>3 DEF OpenPeriod, RootInv
  <2> QED
    BY <1>1, <1>2, <2>1 DEF PeriodsInv
<1>4. CASE opened # Nobody
  <2> DEFINE new == [from |-> opened, to |-> at]
  <2>1. /\ closed' = closed \cup {new} /\ opened \in Time /\ opened <= at
        /\ opened \in Nat
    BY <1>4, TimeIsNat DEF OpenPeriod, IntervalHolds, PeriodType
  <2>2. \A p \in closed : p.from \in Nat /\ p.to \in Nat /\ p.from <= p.to /\ p.to <= opened
    BY <1>4, TimeIsNat DEF PeriodType, PeriodsInv
  <2>3. new.from = opened /\ new.to = at
    OBVIOUS
  <2> HIDE DEF new
  <2>4. \A p \in closed' : p.from <= p.to /\ p.to <= opened'
    BY <1>1, <2>1, <2>2, <2>3
  <2>5. ASSUME NEW p \in closed', NEW q \in closed', NEW m \in Time, Covers(p, m), Covers(q, m)
        PROVE  p = q
    <3>1. m \in Nat
      BY TimeIsNat
    <3>2. CASE p \in closed /\ q \in closed
      BY <1>4, <2>5, <3>2 DEF PeriodsInv
    <3>3. CASE p = new /\ q = new
      BY <3>3
    <3>4. CASE p = new /\ q \in closed
      BY <2>1, <2>2, <2>3, <2>5, <3>1, <3>4 DEF Covers
    <3>5. CASE p \in closed /\ q = new
      BY <2>1, <2>2, <2>3, <2>5, <3>1, <3>5 DEF Covers
    <3> QED
      BY <2>1, <3>2, <3>3, <3>4, <3>5
  <2>6. ASSUME NEW p \in closed', NEW m \in Time, p.from <= m, m < opened'
        PROVE  \E q \in closed' : Covers(q, m)
    <3>1. m \in Nat
      BY TimeIsNat
    <3>2. CASE opened <= m
      BY <1>1, <2>1, <2>3, <2>6, <3>1, <3>2 DEF Covers
    <3>3. CASE m < opened
      <4>1. p \in closed
        BY <2>1, <2>3, <2>6, <3>1, <3>3
      <4> QED
        BY <1>4, <2>1, <2>6, <3>3, <4>1 DEF PeriodsInv
    <3> QED
      BY <2>1, <3>1, <3>2, <3>3
  <2> QED
    BY <1>1, <1>2, <2>4, <2>5, <2>6 DEF PeriodsInv, Covers
<1> QED
  BY <1>3, <1>4

LEMMA Parts ==
  ASSUME IInv
  PROVE  /\ RootType /\ PeriodType /\ RowsOK /\ WorldType /\ RequestType /\ drifted \in BOOLEAN
         /\ RowsInv /\ RootInv /\ TimesInv /\ StampInv /\ PeriodsInv
         /\ topology \in [Target -> Egress \cup {Outside}]
BY TypeParts DEF IInv, WorldType

LEMMA Assembled ==
  ASSUME RootType', PeriodType', RowsOK', WorldType', RequestType', (drifted \in BOOLEAN)',
         RowsInv', RootInv', TimesInv', StampInv', PeriodsInv'
  PROVE  IInv'
BY TypeParts DEF IInv, TypeOK, RootType, PeriodType, RowsOK, WorldType, RequestType

LEMMA CreateInv ==
  ASSUME CustomerAssumption, IInv, NEW c \in Caller, NEW cmd \in Command, NEW at \in Time,
         cmd.kind = "apply", Create(c, cmd, at)
  PROVE  IInv'
<1>1. WorldType' /\ RequestType' /\ TimesInv' /\ (drifted \in BOOLEAN)'
  BY ReturnFacts DEF Create
<1>2. PeriodType' /\ PeriodsInv' /\ opened' # Nobody
  BY Parts, OpenFacts, CommandFields DEF Create
<1>3. RowsOK' /\ PresentAfter("ACTIVE")
  BY Parts, ApplyFacts DEF Create
<1>4. life' = "ACTIVE" /\ eraseAfter' = 0 /\ expires' = cmd.until /\ life = "DELETED"
  BY DEF Create, SetLifecycle, Creates
<1>5. RootType'
  BY <1>4, Parts, AcceptFacts, CommandFields DEF Create, RootType
<1>6. RowsInv'
  BY <1>3, <1>4, Parts, RowsStep
<1>7. RootInv'
  BY <1>2, <1>4 DEF RootInv
<1>8. StampInv'
  BY Parts, AcceptFacts DEF Create, StampInv
<1> QED
  BY <1>1, <1>2, <1>3, <1>5, <1>6, <1>7, <1>8, Assembled

LEMMA RenewInv ==
  ASSUME CustomerAssumption, IInv, NEW c \in Caller, NEW cmd \in Command, NEW at \in Time,
         cmd.kind = "apply", Renew(c, cmd, at)
  PROVE  IInv'
<1>1. WorldType' /\ RequestType' /\ TimesInv' /\ (drifted \in BOOLEAN)'
  BY ReturnFacts DEF Renew
<1>2. PeriodType' /\ PeriodsInv' /\ opened' # Nobody
  BY Parts, OpenFacts, CommandFields DEF Renew
<1>3. RowsOK' /\ PresentAfter(life)
  BY Parts, ApplyFacts DEF Renew
<1>4. life' = life /\ eraseAfter' = eraseAfter /\ expires' = cmd.until /\ life \in {"ACTIVE", "BLOCKED"}
  BY DEF Renew, Renews
<1>5. RootType'
  BY <1>4, Parts, AcceptFacts, CommandFields DEF Renew, RootType
<1>6. RowsInv'
  BY <1>3, <1>4, Parts, RowsStep
<1>7. RootInv'
  BY <1>2, <1>4 DEF RootInv
<1>8. StampInv'
  BY Parts, AcceptFacts DEF Renew, StampInv
<1> QED
  BY <1>1, <1>2, <1>3, <1>5, <1>6, <1>7, <1>8, Assembled

LEMMA ChangeQuotaInv ==
  ASSUME CustomerAssumption, IInv, NEW c \in Caller, NEW cmd \in Command, NEW at \in Time,
         cmd.kind = "apply", ChangeQuota(c, cmd, at)
  PROVE  IInv'
<1>1. WorldType' /\ RequestType' /\ TimesInv' /\ (drifted \in BOOLEAN)'
  BY ReturnFacts DEF ChangeQuota
<1>2. PeriodType' /\ PeriodsInv'
  BY Parts, CommandFields DEF ChangeQuota, PeriodType, PeriodsInv
<1>3. RowsOK' /\ PresentAfter(life)
  BY Parts, ApplyFacts DEF ChangeQuota
<1>4. /\ life' = life /\ eraseAfter' = eraseAfter /\ expires' = expires
      /\ opened' = opened /\ life \in {"ACTIVE", "BLOCKED"}
  BY DEF ChangeQuota, Requotas
<1>5. RootType'
  BY <1>4, Parts, AcceptFacts, CommandFields DEF ChangeQuota, RootType
<1>6. RowsInv'
  BY <1>3, <1>4, Parts, RowsStep
<1>7. RootInv'
  BY <1>4, Parts DEF RootInv
<1>8. StampInv'
  BY Parts, AcceptFacts DEF ChangeQuota, StampInv
<1> QED
  BY <1>1, <1>2, <1>3, <1>5, <1>6, <1>7, <1>8, Assembled

LEMMA BlockInv ==
  ASSUME CustomerAssumption, IInv, NEW c \in Caller, NEW cmd \in Command,
         cmd.kind = "block", Block(c, cmd)
  PROVE  IInv'
<1>1. WorldType' /\ RequestType' /\ TimesInv' /\ (drifted \in BOOLEAN)'
  BY ReturnFacts DEF Block
<1>2. PeriodType' /\ PeriodsInv' /\ opened' = opened
  BY Parts DEF Block, periodVars, PeriodType, PeriodsInv
<1>3. RowsOK' /\ RowsInv'
  <2>1. CASE life = "ACTIVE"
    <3>1. RowsOK' /\ \A t \in Target, g \in Gen : access'[t][g].state # "PRESENT"
      BY <2>1, Parts, ForceFacts DEF Block
    <3> QED
      BY <3>1 DEF RowsInv
  <2>2. CASE life # "ACTIVE"
    BY <2>2, Parts DEF Block, accessVars, RowsOK, RowsInv
  <2> QED
    BY <2>1, <2>2
<1>4. /\ life' = "BLOCKED" /\ eraseAfter' = 0 /\ expires' = expires
      /\ life \in {"ACTIVE", "BLOCKED"}
  BY DEF Block, SetLifecycle
<1>5. RootType'
  BY <1>4, Parts, AcceptFacts DEF Block, RootType
<1>7. RootInv'
  BY <1>2, <1>4, Parts DEF RootInv
<1>8. StampInv'
  BY Parts, AcceptFacts DEF Block, StampInv
<1> QED
  BY <1>1, <1>2, <1>3, <1>5, <1>7, <1>8, Assembled

LEMMA UnblockInv ==
  ASSUME CustomerAssumption, IInv, NEW c \in Caller, NEW cmd \in Command, NEW at \in Time,
         cmd.kind = "unblock", Unblock(c, cmd, at)
  PROVE  IInv'
<1>1. WorldType' /\ RequestType' /\ TimesInv' /\ (drifted \in BOOLEAN)'
  BY ReturnFacts DEF Unblock
<1>2. PeriodType' /\ PeriodsInv' /\ opened' = opened
  BY Parts DEF Unblock, periodVars, PeriodType, PeriodsInv
<1>3. /\ life' = "ACTIVE" /\ eraseAfter' = 0 /\ expires' = expires
      /\ life \in {"ACTIVE", "BLOCKED"}
  BY DEF Unblock, SetLifecycle
<1>4. RowsOK' /\ RowsInv'
  <2>1. CASE life = "BLOCKED"
    <3>1. RowsOK' /\ PresentAfter("ACTIVE")
      BY <2>1, Parts, UnblockFacts DEF Unblock
    <3> QED
      BY <1>3, <3>1, Parts, RowsStep
  <2>2. CASE life # "BLOCKED"
    BY <1>3, <2>2, Parts DEF Unblock, accessVars, RowsOK, RowsInv
  <2> QED
    BY <2>1, <2>2
<1>5. RootType'
  BY <1>3, Parts, AcceptFacts DEF Unblock, RootType
<1>7. RootInv'
  BY <1>2, <1>3, Parts DEF RootInv
<1>8. StampInv'
  BY Parts, AcceptFacts DEF Unblock, StampInv
<1> QED
  BY <1>1, <1>2, <1>4, <1>5, <1>7, <1>8, Assembled

LEMMA StartDeleteInv ==
  ASSUME CustomerAssumption, IInv, NEW c \in Caller, NEW cmd \in Command, NEW at \in Time,
         cmd.kind = "delete", StartDelete(c, cmd, at)
  PROVE  IInv'
<1>1. WorldType' /\ RequestType' /\ TimesInv' /\ (drifted \in BOOLEAN)'
  BY ReturnFacts DEF StartDelete
<1>2. PeriodType' /\ PeriodsInv' /\ opened' = opened
  BY Parts DEF StartDelete, periodVars, PeriodType, PeriodsInv
<1>3. /\ life' = "DELETING" /\ eraseAfter' = at + Grace /\ expires' = expires
      /\ life # "DELETED" /\ at + Grace \in Nat
  BY TimeIsNat DEF StartDelete, SetLifecycle, CustomerAssumption
<1>4. RowsOK' /\ \A t \in Target, g \in Gen : access'[t][g].state # "PRESENT"
  BY Parts, ForceFacts DEF StartDelete
<1>5. RootType'
  BY <1>3, Parts, AcceptFacts DEF StartDelete, RootType
<1>6. RowsInv'
  BY <1>4 DEF RowsInv
<1>7. RootInv'
  BY <1>2, <1>3, Parts DEF RootInv
<1>8. StampInv'
  BY <1>3, Parts, AcceptFacts DEF StartDelete, StampInv
<1> QED
  BY <1>1, <1>2, <1>4, <1>5, <1>6, <1>7, <1>8, Assembled

LEMMA DeleteAgainInv ==
  ASSUME CustomerAssumption, IInv, NEW c \in Caller, NEW cmd \in Command,
         cmd.kind = "delete", DeleteAgain(c, cmd)
  PROVE  IInv'
<1>1. WorldType' /\ RequestType' /\ TimesInv' /\ (drifted \in BOOLEAN)'
  BY ReturnFacts DEF DeleteAgain
<1>2. PeriodType' /\ PeriodsInv' /\ RowsOK' /\ RowsInv' /\ RootInv'
  BY Parts DEF DeleteAgain, periodVars, accessVars, PeriodType, PeriodsInv, RowsOK, RowsInv, RootInv
<1>3. RootType' /\ StampInv'
  BY Parts, AcceptFacts DEF DeleteAgain, RootType, StampInv
<1> QED
  BY <1>1, <1>2, <1>3, Assembled

LEMMA NoEffectInv ==
  ASSUME CustomerAssumption, IInv, NEW c \in Caller, NEW cmd \in Command, NEW at \in Time,
         NoEffect(c, cmd, at)
  PROVE  IInv'
<1>1. WorldType' /\ RequestType' /\ TimesInv' /\ (drifted \in BOOLEAN)'
  <2>1. PICK answer \in {"none", "PENDING", "COMPLETED"} : Returns(c, answer)
    BY DEF NoEffect, DeleteAnswer
  <2> QED
    BY <2>1, ReturnFacts
<1>2. PeriodType' /\ PeriodsInv' /\ RowsOK' /\ RowsInv' /\ RootInv' /\ RootType' /\ StampInv'
  BY Parts DEF NoEffect, rootVars, periodVars, accessVars, PeriodType, PeriodsInv, RowsOK, RowsInv,
     RootInv, RootType, StampInv
<1> QED
  BY <1>1, <1>2, Assembled

LEMMA ExecuteInv ==
  ASSUME CustomerAssumption, IInv, NEW c \in Caller, Execute(c)
  PROVE  IInv'
<1> DEFINE cmd == request[c].cmd
           at == request[c].at
<1>1. cmd \in Command /\ at \in Time
  BY RequestFields DEF Execute, IInv
<1>2. \/ cmd.kind = "apply" /\ Create(c, cmd, at)
      \/ cmd.kind = "apply" /\ Renew(c, cmd, at)
      \/ cmd.kind = "apply" /\ ChangeQuota(c, cmd, at)
      \/ cmd.kind = "block" /\ Block(c, cmd)
      \/ cmd.kind = "unblock" /\ Unblock(c, cmd, at)
      \/ cmd.kind = "delete" /\ StartDelete(c, cmd, at)
      \/ cmd.kind = "delete" /\ DeleteAgain(c, cmd)
      \/ NoEffect(c, cmd, at)
  BY DEF Execute
<1> HIDE DEF cmd, at
<1> QED
  BY <1>1, <1>2, CreateInv, RenewInv, ChangeQuotaInv, BlockInv, UnblockInv, StartDeleteInv,
     DeleteAgainInv, NoEffectInv

LEMMA BeginInv ==
  ASSUME CustomerAssumption, IInv, NEW c \in Caller, NEW cmd \in Command, Begin(c, cmd)
  PROVE  IInv'
<1>1. /\ PeriodType' /\ PeriodsInv' /\ RowsOK' /\ RowsInv' /\ RootInv' /\ RootType' /\ StampInv'
      /\ WorldType' /\ (drifted \in BOOLEAN)'
  BY Parts DEF Begin, rootVars, periodVars, accessVars, worldVars, PeriodType, PeriodsInv, RowsOK,
     RowsInv, RootInv, RootType, StampInv, WorldType
<1>2. clock \in Time /\ clock \in Nat /\ clock' = clock /\ begun' = begun
  BY Parts, TimeIsNat DEF Begin, worldVars, WorldType
<1> DEFINE new == [pc |-> "begun", cmd |-> cmd, at |-> clock]
<1>3. new \in [pc : {"begun"}, cmd : Command, at : Time] /\ new.at = clock
  BY <1>2
<1>4. request' = [request EXCEPT ![c] = new] /\ reply' = "none"
  BY DEF Begin
<1> HIDE DEF new
<1>5. RequestType'
  BY <1>2, <1>3, <1>4, Parts DEF RequestType
<1>6. TimesInv'
  BY <1>2, <1>3, <1>4, Parts DEF TimesInv, RequestType
<1> QED
  BY <1>1, <1>5, <1>6, Assembled

LEMMA AbandonInv ==
  ASSUME CustomerAssumption, IInv, NEW c \in Caller, Abandon(c)
  PROVE  IInv'
<1>1. /\ PeriodType' /\ PeriodsInv' /\ RowsOK' /\ RowsInv' /\ RootInv' /\ RootType' /\ StampInv'
      /\ WorldType' /\ (drifted \in BOOLEAN)'
  BY Parts DEF Abandon, rootVars, periodVars, accessVars, worldVars, PeriodType, PeriodsInv, RowsOK,
     RowsInv, RootInv, RootType, StampInv, WorldType
<1>2. RequestType'
  BY Parts DEF Abandon, RequestType
<1>3. TimesInv'
  BY Parts DEF Abandon, worldVars, RequestType, TimesInv
<1> QED
  BY <1>1, <1>2, <1>3, Assembled

LEMMA ChooseInv ==
  ASSUME CustomerAssumption, IInv, NEW w, NEW chosen, Choose(w, chosen)
  PROVE  IInv'
<1>1. /\ PeriodType' /\ PeriodsInv' /\ RowsOK' /\ RowsInv' /\ RootInv' /\ RootType' /\ StampInv'
      /\ WorldType' /\ (drifted \in BOOLEAN)'
  BY Parts DEF Choose, rootVars, periodVars, accessVars, worldVars, PeriodType, PeriodsInv, RowsOK,
     RowsInv, RootInv, RootType, StampInv, WorldType
<1>2. clock \in Time /\ clock \in Nat /\ clock' = clock /\ request' = request
  BY Parts, TimeIsNat DEF Choose, worldVars, WorldType
<1>3. RequestType'
  BY <1>2, Parts DEF Choose, RequestType
<1>4. TimesInv'
  BY <1>2, Parts DEF Choose, TimesInv, RequestType
<1> QED
  BY <1>1, <1>3, <1>4, Assembled

LEMMA FinishFacts ==
  ASSUME CustomerAssumption, IInv, NEW w, Finishes(w)
  PROVE  WorldType' /\ RequestType' /\ TimesInv' /\ w \in Worker /\ begun[w] \in Time
<1>1. WorldType' /\ w \in Worker /\ begun[w] \in Time
  BY Parts DEF Finishes, worldVars, WorldType, RequestType
<1>2. RequestType'
  BY Parts DEF Finishes, RequestType
<1>3. TimesInv'
  BY Parts DEF Finishes, worldVars, RequestType, TimesInv
<1> QED
  BY <1>1, <1>2, <1>3

LEMMA ExpireInv ==
  ASSUME CustomerAssumption, IInv, Expire
  PROVE  IInv'
<1>1. WorldType' /\ RequestType' /\ TimesInv'
  BY FinishFacts DEF Expire
<1>2. /\ PeriodType' /\ PeriodsInv' /\ RootType' /\ StampInv' /\ (drifted \in BOOLEAN)'
  BY Parts DEF Expire, rootVars, periodVars, PeriodType, PeriodsInv, RootType, StampInv
<1>3. RowsOK' /\ RowsInv' /\ gen' = gen
  <2>1. CASE StillExpired(begun["expiry"])
    <3>1. UpdateAccesses([t \in Target |->
             IF t \in Target THEN Restated(Newest(t), "ABSENT") ELSE Newest(t)])
      BY <2>1 DEF Expire
    <3>2. RowsOK' /\ gen' = gen /\ PresentAfter(life)
      BY <3>1, Parts, WithdrawFacts
    <3> QED
      BY <3>2, Parts, RowsStep DEF Expire, rootVars
  <2>2. CASE ~StillExpired(begun["expiry"])
    BY <2>2, Parts DEF Expire, accessVars, rootVars, RowsOK, RowsInv
  <2> QED
    BY <2>1, <2>2
<1>4. RootInv'
  BY <1>3, Parts DEF Expire, rootVars, periodVars, RootInv
<1> QED
  BY <1>1, <1>2, <1>3, <1>4, Assembled

LEMMA MaterializeInv ==
  ASSUME CustomerAssumption, IInv, Materialize
  PROVE  IInv'
<1>1. WorldType' /\ RequestType' /\ TimesInv'
  BY FinishFacts DEF Materialize
<1>2. PeriodType' /\ PeriodsInv' /\ RootType' /\ StampInv'
  BY Parts DEF Materialize, rootVars, periodVars, PeriodType, PeriodsInv, RootType, StampInv
<1>3. life' = life
  BY DEF Materialize, rootVars
<1>4. RowsOK' /\ RowsInv' /\ (drifted \in BOOLEAN)' /\ RootInv'
  <2>1. CASE life \in {"ACTIVE", "BLOCKED"}
    <3>1. PlanMaterialize(begun["materialize"]) /\ drifted' = FALSE
      BY <2>1 DEF Materialize
    <3>2. RowsOK' /\ PresentAfter(life)
      BY <3>1, Parts, MaterializeFacts
    <3>3. RootInv'
      BY <2>1, <1>3, Parts DEF RootInv, Materialize, periodVars
    <3> QED
      BY <1>3, <3>1, <3>2, <3>3, Parts, RowsStep
  <2>2. CASE life \notin {"ACTIVE", "BLOCKED"}
    BY <2>2, Parts DEF Materialize, accessVars, rootVars, periodVars, RowsOK, RowsInv, RootInv
  <2> QED
    BY <2>1, <2>2
<1> QED
  BY <1>1, <1>2, <1>4, Assembled

LEMMA FinalizeInv ==
  ASSUME CustomerAssumption, IInv, Finalize
  PROVE  IInv'
<1>1. WorldType' /\ RequestType' /\ TimesInv'
  BY FinishFacts DEF Finalize
<1>2. CASE Erasable(begun["finalize"])
  <2>1. /\ EraseRows /\ life = "DELETING" /\ life' = "DELETED" /\ eraseAfter' = 0 /\ expires' = 0
        /\ last' = last /\ stamp' = stamp /\ drifted' = drifted
    BY <1>2 DEF Finalize, Erasable, DueForErasure, SetLifecycle
  <2>2. PeriodType'
    BY <2>1 DEF EraseRows, PeriodType, CustomerAssumption
  <2>3. RowsOK' /\ RowsInv'
    BY <2>1, BlankIsRow DEF EraseRows, NoRows, RowsOK, RowsInv, CustomerAssumption
  <2>4. RootType' /\ StampInv' /\ (drifted \in BOOLEAN)'
    BY <2>1, Parts DEF RootType, StampInv
  <2>5. RootInv' /\ PeriodsInv'
    BY <2>1 DEF EraseRows, RootInv, PeriodsInv
  <2> QED
    BY <1>1, <2>2, <2>3, <2>4, <2>5, Assembled
<1>3. CASE ~Erasable(begun["finalize"])
  <2>1. UNCHANGED <<life, eraseAfter, expires, periodVars, accessVars, last, stamp, drifted>>
    BY <1>3 DEF Finalize
  <2>2. /\ PeriodType' /\ PeriodsInv' /\ RowsOK' /\ RowsInv' /\ RootInv' /\ RootType' /\ StampInv'
        /\ (drifted \in BOOLEAN)'
    BY <2>1, Parts DEF periodVars, accessVars, PeriodType, PeriodsInv, RowsOK, RowsInv, RootInv,
       RootType, StampInv
  <2> QED
    BY <1>1, <2>2, Assembled
<1> QED
  BY <1>2, <1>3

LEMMA ChargeInv ==
  ASSUME CustomerAssumption, IInv, NEW n \in Node, Charge(n)
  PROVE  IInv'
<1>1. /\ WorldType' /\ RequestType' /\ TimesInv' /\ RootType' /\ StampInv' /\ PeriodsInv'
      /\ (drifted \in BOOLEAN)'
  BY Parts DEF Charge, rootVars, worldVars, WorldType, RequestType, TimesInv, RootType, StampInv,
     PeriodsInv
<1>2. PeriodType'
  BY Parts DEF Charge, PeriodType, CustomerAssumption
<1>3. RowsOK' /\ RowsInv' /\ gen' = gen
  <2>1. CASE ~IsQuotaExhausted(total[n], quota) /\ IsQuotaExhausted(total'[n], quota)
    <3> DEFINE some == {t \in Target : EntryNode[t] = n}
    <3>1. UpdateAccesses([t \in Target |->
             IF t \in some THEN Restated(Newest(t), "ABSENT") ELSE Newest(t)])
      <4>1. UpdateAccesses([t \in Target |->
                 IF EntryNode[t] = n THEN Restated(Newest(t), "ABSENT") ELSE Newest(t)])
        BY <2>1 DEF Charge
      <4>2. [t \in Target |-> IF EntryNode[t] = n THEN Restated(Newest(t), "ABSENT") ELSE Newest(t)]
             = [t \in Target |-> IF t \in some THEN Restated(Newest(t), "ABSENT") ELSE Newest(t)]
        OBVIOUS
      <4> QED
        BY <4>1, <4>2
    <3>2. RowsOK' /\ gen' = gen /\ PresentAfter(life)
      BY <3>1, Parts, WithdrawFacts
    <3> QED
      BY <3>2, Parts, RowsStep DEF Charge, rootVars
  <2>2. CASE ~(~IsQuotaExhausted(total[n], quota) /\ IsQuotaExhausted(total'[n], quota))
    BY <2>2, Parts DEF Charge, accessVars, rootVars, RowsOK, RowsInv
  <2> QED
    BY <2>1, <2>2
<1>4. RootInv'
  BY <1>3, Parts DEF Charge, rootVars, RootInv
<1> QED
  BY <1>1, <1>2, <1>3, <1>4, Assembled

\* Delivery writes the progress of one row and leaves its desired tuple alone.
LEMMA SetRowInv ==
  ASSUME CustomerAssumption, IInv, NEW t \in Target, NEW g \in Gen, NEW row \in Row,
         row.state = access[t][g].state, row.retired = access[t][g].retired,
         SetRow(t, g, row), failures' \in 0 .. MaxFailures
  PROVE  IInv'
<1>1. /\ WorldType' /\ RequestType' /\ TimesInv' /\ RootType' /\ StampInv' /\ PeriodsInv'
      /\ (drifted \in BOOLEAN)' /\ PeriodType' /\ RootInv'
  BY Parts DEF SetRow, rootVars, periodVars, WorldType, RequestType, TimesInv, RootType, StampInv,
     PeriodsInv, PeriodType, RootInv
<1>2. RowsOK'
  BY Parts DEF SetRow, RowsOK
<1>3. RowsInv'
  BY Parts DEF SetRow, rootVars, RowsOK, RowsInv
<1> QED
  BY <1>1, <1>2, <1>3, Assembled

LEMMA DeliveryInv ==
  ASSUME CustomerAssumption, IInv, NEW t \in Target, NEW g \in Gen,
         Delivery(t, g) \/ Fail(t, g)
  PROVE  IInv'
<1>1. /\ access[t][g] \in Row /\ failures \in 0 .. MaxFailures /\ MaxFailures \in Nat
  BY Parts DEF RowsOK, WorldType, CustomerAssumption
<1> DEFINE waits == [access[t][g] EXCEPT !.op = "waiting"]
           sent == [access[t][g] EXCEPT !.op = "sent"]
           applied == [access[t][g] EXCEPT !.op = "none", !.apply = "APPLIED"]
           failed == [access[t][g] EXCEPT !.op = "none", !.apply = "FAILED"]
           ended == [access[t][g] EXCEPT !.stray = FALSE]
<1>2. \A row \in {waits, sent, applied, failed, ended} :
        row \in Row /\ row.state = access[t][g].state /\ row.retired = access[t][g].retired
  <2> DEFINE Keeps(row) == /\ row \in Row /\ row.state = access[t][g].state
                           /\ row.retired = access[t][g].retired
  <2>1. Keeps(waits) /\ Keeps(sent)
    BY <1>1 DEF Row
  <2>2. Keeps(applied) /\ Keeps(failed)
    BY <1>1 DEF Row
  <2>3. Keeps(ended)
    BY <1>1 DEF Row
  <2> HIDE DEF Keeps
  <2>4. \A row \in {waits, sent, applied, failed, ended} : Keeps(row)
    BY <2>1, <2>2, <2>3
  <2> QED
    BY <2>4 DEF Keeps
<1>3. PICK row \in {waits, sent, applied, failed, ended} : SetRow(t, g, row)
  <2>1. SetRow(t, g, waits) \/ SetRow(t, g, sent) \/ SetRow(t, g, applied)
          \/ SetRow(t, g, failed) \/ SetRow(t, g, ended)
    BY DEF Delivery, Send, Deliver, EndStray, Fail
  <2> QED
    BY <2>1
<1>4. failures' \in 0 .. MaxFailures
  BY <1>1 DEF Delivery, Send, Deliver, EndStray, Fail
<1> HIDE DEF waits, sent, applied, failed, ended
<1> QED
  BY <1>2, <1>3, <1>4, SetRowInv

LEMMA ReconcileInv ==
  ASSUME CustomerAssumption, IInv, NEW n \in Node, Reconcile(n)
  PROVE  IInv'
<1>1. /\ WorldType' /\ RequestType' /\ TimesInv' /\ RootType' /\ StampInv' /\ PeriodsInv'
      /\ (drifted \in BOOLEAN)' /\ PeriodType' /\ RootInv'
  BY Parts DEF Reconcile, rootVars, periodVars, worldVars, WorldType, RequestType, TimesInv, RootType,
     StampInv, PeriodsInv, PeriodType, RootInv
<1> DEFINE taken(t, g) == [access[t][g] EXCEPT !.op = "none",
                              !.apply = IF Satisfied(t, g) THEN "APPLIED" ELSE @]
<1>2. ASSUME NEW t \in Target, NEW g \in Gen
      PROVE  /\ access[t][g] \in Row /\ taken(t, g) \in Row
             /\ taken(t, g).state = access[t][g].state
             /\ taken(t, g).retired = access[t][g].retired
  <2>1. access[t][g] \in Row
    BY Parts DEF RowsOK
  <2> DEFINE ended == [access[t][g] EXCEPT !.op = "none", !.apply = "APPLIED"]
             waits == [access[t][g] EXCEPT !.op = "none", !.apply = access[t][g].apply]
  <2>2. CASE Satisfied(t, g)
    <3>1. taken(t, g) = ended
      BY <2>2
    <3>2. ended \in Row /\ ended.state = access[t][g].state /\ ended.retired = access[t][g].retired
      BY <2>1 DEF Row
    <3> QED
      BY <2>1, <3>1, <3>2
  <2>3. CASE ~Satisfied(t, g)
    <3>1. taken(t, g) = waits
      BY <2>3
    <3>2. waits \in Row /\ waits.state = access[t][g].state /\ waits.retired = access[t][g].retired
      BY <2>1 DEF Row
    <3> QED
      BY <2>1, <3>1, <3>2
  <2> QED
    BY <2>2, <2>3
<1>3. /\ gen' = gen /\ life' = life
      /\ access' = [t \in Target |-> [g \in Gen |->
                       IF <<t, g>> \in On(n) THEN taken(t, g) ELSE access[t][g]]]
  BY DEF Reconcile, rootVars
<1> HIDE DEF taken
<1>4. RowsOK'
  BY <1>2, <1>3, Parts DEF RowsOK
<1>5. RowsInv'
  BY <1>2, <1>3, Parts DEF RowsInv
<1> QED
  BY <1>1, <1>4, <1>5, Assembled

LEMMA ManifestInv ==
  ASSUME CustomerAssumption, IInv, NEW top \in Topologies, NEW nodes \in SUBSET Node,
         Manifest(top, nodes)
  PROVE  IInv'
<1>1. /\ RequestType' /\ TimesInv' /\ RootType' /\ StampInv' /\ PeriodsInv'
      /\ PeriodType' /\ RootInv' /\ RowsOK' /\ RowsInv' /\ (drifted \in BOOLEAN)'
  BY Parts DEF Manifest, rootVars, periodVars, accessVars, RequestType, TimesInv, RootType, StampInv,
     PeriodsInv, PeriodType, RootInv, RowsOK, RowsInv
<1>2. WorldType'
  BY Parts DEF Manifest, WorldType, CustomerAssumption
<1> QED
  BY <1>1, <1>2, Assembled

LEMMA TickInv ==
  ASSUME CustomerAssumption, IInv, Tick
  PROVE  IInv'
<1>1. /\ RequestType' /\ RootType' /\ StampInv' /\ PeriodsInv'
      /\ PeriodType' /\ RootInv' /\ RowsOK' /\ RowsInv' /\ (drifted \in BOOLEAN)'
  BY Parts DEF Tick, rootVars, periodVars, accessVars, RequestType, RootType, StampInv,
     PeriodsInv, PeriodType, RootInv, RowsOK, RowsInv
<1>2. WorldType' /\ clock' = clock + 1 /\ clock \in Nat
  BY Parts DEF Tick, WorldType, Time, CustomerAssumption
<1>3. TimesInv'
  <2>1. /\ \A c \in Caller : request[c] # Idle => request[c].at \in Nat
        /\ \A w \in Worker : begun[w] # Nobody => begun[w] \in Nat
    BY Parts, TimeIsNat DEF RequestType
  <2> QED
    BY <1>2, <2>1, Parts DEF Tick, TimesInv
<1> QED
  BY <1>1, <1>2, <1>3, Assembled

LEMMA StutterInv ==
  ASSUME IInv, UNCHANGED vars
  PROVE  IInv'
BY DEF vars, rootVars, periodVars, accessVars, worldVars, IInv, TypeOK, RowsInv, RootInv, TimesInv,
   StampInv, PeriodsInv

LEMMA StepInv ==
  ASSUME CustomerAssumption, IInv, [Next]_vars
  PROVE  IInv'
<1>1. ASSUME NEW c \in Caller, NEW cmd \in Command, Begin(c, cmd) PROVE IInv'
  BY <1>1, BeginInv
<1>2. ASSUME NEW c \in Caller, Execute(c) PROVE IInv'
  BY <1>2, ExecuteInv
<1>3. ASSUME NEW c \in Caller, Abandon(c) PROVE IInv'
  BY <1>3, AbandonInv
<1>4. CASE Work
  <2>1. CASE ChooseExpired \/ ChooseMaterialize \/ ChooseErasure
    BY <2>1, ChooseInv DEF ChooseExpired, ChooseMaterialize, ChooseErasure
  <2> QED
    BY <1>4, <2>1, ExpireInv, MaterializeInv, FinalizeInv DEF Work
<1>5. ASSUME NEW n \in Node, Charge(n) \/ Reconcile(n) PROVE IInv'
  BY <1>5, ChargeInv, ReconcileInv
<1>6. ASSUME NEW t \in Target, NEW g \in Gen, Delivery(t, g) \/ Fail(t, g) PROVE IInv'
  BY <1>6, DeliveryInv
<1>7. ASSUME NEW top \in Topologies, NEW nodes \in SUBSET Node, Manifest(top, nodes) PROVE IInv'
  BY <1>7, ManifestInv
<1>8. CASE Tick
  BY <1>8, TickInv
<1>9. CASE UNCHANGED vars
  BY <1>9, StutterInv
<1> QED
  BY <1>1, <1>2, <1>3, <1>4, <1>5, <1>6, <1>7, <1>8, <1>9 DEF Next

-----------------------------------------------------------------------------
(* Theorems *)

\* The strengthening the safety theorems rest on is an invariant.
THEOREM Inductive == ASSUME CustomerAssumption PROVE Spec => []IInv
<1>1. Init => IInv
  BY InitInv
<1>2. IInv /\ [Next]_vars => IInv'
  BY StepInv
<1> QED
  BY <1>1, <1>2, PTL DEF Spec

\* Every variable keeps its type, whatever the fleet, the commands and the bounds.
THEOREM TypeCorrect == ASSUME CustomerAssumption PROVE Spec => []TypeOK
<1>1. IInv => TypeOK
  BY DEF IInv
<1> QED
  BY <1>1, Inductive, PTL

\* Only an ACTIVE customer has PRESENT accesses, and none of them is retired,
\* whichever of the writers came last.
THEOREM OnlyActiveHavePresent == ASSUME CustomerAssumption PROVE Spec => []OnlyActivePresent
<1>1. CustomerAssumption /\ IInv => OnlyActivePresent
  <2> SUFFICES ASSUME CustomerAssumption, IInv, NEW t \in Target, NEW g \in 1 .. gen[t],
                      access[t][g].state = "PRESENT"
               PROVE  life = "ACTIVE" /\ ~access[t][g].retired
    BY DEF OnlyActivePresent
  <2>1. gen[t] \in 0 .. MaxGen
    BY Parts DEF RowsOK
  <2>2. g \in Gen
    BY <2>1 DEF Gen, CustomerAssumption
  <2> QED
    BY <2>2, Parts DEF RowsInv
<1> QED
  BY <1>1, Inductive, PTL

LEMMA LifecycleOfStep ==
  ASSUME [Next]_vars, life = "DELETING", life' = "DELETED"
  PROVE  Finalize
<1>1. ASSUME NEW c \in Caller, NEW cmd \in Command, Begin(c, cmd) PROVE FALSE
  BY <1>1 DEF Begin, rootVars
<1>2. ASSUME NEW c \in Caller, Execute(c) PROVE FALSE
  BY <1>2 DEF Execute, Create, Renew, ChangeQuota, Block, Unblock, StartDelete, DeleteAgain, NoEffect,
     SetLifecycle, rootVars
<1>3. ASSUME NEW c \in Caller, Abandon(c) PROVE FALSE
  BY <1>3 DEF Abandon, rootVars
<1>4. ASSUME NEW n \in Node, Charge(n) \/ Reconcile(n) PROVE FALSE
  BY <1>4 DEF Charge, Reconcile, rootVars
<1>5. ASSUME NEW t \in Target, NEW g \in Gen, Delivery(t, g) \/ Fail(t, g) PROVE FALSE
  BY <1>5 DEF Delivery, Send, Deliver, EndStray, Fail, SetRow, rootVars
<1>6. ASSUME NEW top \in Topologies, NEW nodes \in SUBSET Node, Manifest(top, nodes) PROVE FALSE
  BY <1>6 DEF Manifest, rootVars
<1>7. ASSUME Tick \/ UNCHANGED vars PROVE FALSE
  BY <1>7 DEF Tick, vars, rootVars
<1>8. ASSUME Work, ~Finalize PROVE FALSE
  BY <1>8 DEF Work, ChooseExpired, ChooseMaterialize, ChooseErasure, Choose, Expire, Materialize, rootVars
<1> QED
  BY <1>1, <1>2, <1>3, <1>4, <1>5, <1>6, <1>7, <1>8 DEF Next

\* The end of a deletion finds every row confirmed ABSENT, nothing queued or on
\* its way, and the pause over, although the worker chose the customer earlier.
THEOREM ErasureIsSettled == ASSUME CustomerAssumption PROVE Spec => ErasedOnlyWhenSettled
<1>1. CustomerAssumption /\ IInv /\ [Next]_vars =>
        [(life = "DELETING" /\ life' = "DELETED") => Ready /\ eraseAfter <= clock]_vars
  <2> SUFFICES ASSUME CustomerAssumption, IInv, [Next]_vars, life = "DELETING", life' = "DELETED"
               PROVE  Ready /\ eraseAfter <= clock
    OBVIOUS
  <2>1. Finalize
    BY LifecycleOfStep
  <2> DEFINE at == begun["finalize"]
  <2>2. Erasable(at)
    BY <2>1 DEF Finalize
  <2>3. at \in Nat /\ at <= clock /\ clock \in Nat /\ eraseAfter \in Nat
    BY <2>1, Parts, FinishFacts, TimeIsNat DEF Finalize, Finishes, TimesInv, RootType, WorldType
  <2> HIDE DEF at
  <2> QED
    BY <2>2, <2>3 DEF Erasable, DueForErasure
<1> QED
  BY <1>1, Inductive, PTL DEF Spec, ErasedOnlyWhenSettled

\* A Delete that no newer command overtook is answered COMPLETED only when
\* nothing of the customer but the tombstone is left.
THEOREM CompletedIsErased == ASSUME CustomerAssumption PROVE Spec => CompletedMeansErased
<1> DEFINE Step == reply' = "COMPLETED" =>
                     \/ life' = "DELETED" /\ \A t \in Target : gen'[t] = 0
                     \/ \E c \in Caller : request[c] # Idle /\ request'[c] = Idle
                                          /\ IsStale(request[c].cmd)
<1>1. CustomerAssumption /\ IInv /\ [Next]_vars => [Step]_vars
  <2> SUFFICES ASSUME CustomerAssumption, IInv, Next, reply' = "COMPLETED"
               PROVE  Step
    OBVIOUS
  <2>1. PICK c \in Caller : Execute(c)
    <3>1. ASSUME NEW c \in Caller, NEW cmd \in Command, Begin(c, cmd) PROVE FALSE
      BY <3>1 DEF Begin
    <3>2. ASSUME NEW c \in Caller, Abandon(c) PROVE FALSE
      BY <3>2 DEF Abandon
    <3>3. ASSUME NEW n \in Node, Charge(n) \/ Reconcile(n) PROVE FALSE
      BY <3>3 DEF Charge, Reconcile
    <3>4. ASSUME NEW t \in Target, NEW g \in Gen, Delivery(t, g) \/ Fail(t, g) PROVE FALSE
      BY <3>4 DEF Delivery, Send, Deliver, EndStray, Fail, SetRow
    <3>5. ASSUME NEW top \in Topologies, NEW nodes \in SUBSET Node, Manifest(top, nodes) PROVE FALSE
      BY <3>5 DEF Manifest
    <3>6. ASSUME Tick PROVE FALSE
      BY <3>6 DEF Tick
    <3>7. ASSUME Work PROVE FALSE
      BY <3>7 DEF Work, ChooseExpired, ChooseMaterialize, ChooseErasure, Choose, Expire, Materialize,
         Finalize, Finishes
    <3> QED
      BY <3>1, <3>2, <3>3, <3>4, <3>5, <3>6, <3>7 DEF Next
  <2> DEFINE cmd == request[c].cmd
             at == request[c].at
  <2>2. cmd \in Command /\ request[c] # Idle
    BY <2>1, RequestFields DEF Execute, IInv
  <2>3. cmd.kind = "delete" /\ (DeleteAgain(c, cmd) \/ NoEffect(c, cmd, at))
    BY <2>1 DEF Execute, Create, Renew, ChangeQuota, Block, Unblock, StartDelete, NoEffect, Returns
  <2>4. request'[c] = Idle
    BY <2>3, Parts DEF DeleteAgain, NoEffect, Returns, RequestType
  <2> HIDE DEF cmd, at
  <2>5. CASE DeleteAgain(c, cmd)
    BY <2>5, Parts DEF DeleteAgain, accessVars, RootInv
  <2>6. CASE NoEffect(c, cmd, at)
    <3>1. UNCHANGED <<rootVars, accessVars>> /\ life # "DELETING"
            /\ (IsStale(cmd) \/ IsReplay(cmd))
      BY <2>3, <2>6 DEF NoEffect, Returns, DeleteAnswer, Refusals
    <3>2. CASE IsStale(cmd)
      BY <2>2, <2>4, <3>2 DEF cmd
    <3>3. CASE IsReplay(cmd)
      <4>1. stamp = cmd
        BY <2>2, <3>3, CommandFields, Parts DEF IsReplay, StampInv
      <4>2. life = "DELETED"
        BY <2>2, <2>3, <3>1, <4>1, CommandFields, Parts DEF StampInv
      <4> QED
        BY <3>1, <4>2, Parts DEF RootInv, rootVars, accessVars
    <3> QED
      BY <3>1, <3>2, <3>3
  <2> QED
    BY <2>3, <2>5, <2>6
<1> QED
  BY <1>1, Inductive, PTL DEF Spec, CompletedMeansErased

\* Every moment since the first period lies in exactly one period.
THEOREM PeriodsArePartition == ASSUME CustomerAssumption PROVE Spec => []PeriodsPartition
<1>1. CustomerAssumption /\ IInv => PeriodsPartition
  <2> SUFFICES ASSUME CustomerAssumption, IInv
               PROVE  PeriodsPartition
    OBVIOUS
  <2>1. opened # Nobody <=> life # "DELETED"
    BY Parts DEF RootInv
  <2>2. ASSUME NEW m \in 0 .. clock, NEW b \in Beginnings, b <= m
        PROVE  Cardinality({p \in closed : p.from <= m /\ m < p.to})
                 + (IF opened <= m THEN 1 ELSE 0) = 1
    <3>1. m \in Time /\ m \in Nat
      BY Parts DEF WorldType, Time, CustomerAssumption
    <3>2. opened # Nobody /\ opened \in Nat
      BY <2>2, Parts, TimeIsNat DEF Beginnings, RootInv, PeriodType
    <3>3. \A p \in closed : p.from \in Nat /\ p.to \in Nat /\ p.from <= p.to /\ p.to <= opened
      BY <3>2, Parts, TimeIsNat DEF PeriodType, PeriodsInv
    <3> DEFINE S == {p \in closed : p.from <= m /\ m < p.to}
    <3>4. CASE opened <= m
      <4>1. S = {}
        BY <3>1, <3>2, <3>3, <3>4
      <4>2. Cardinality(S) = 0
        BY <4>1, FS_EmptySet
      <4>3. (IF opened <= m THEN 1 ELSE 0) = 1
        BY <3>4
      <4> HIDE DEF S
      <4>4. Cardinality(S) + (IF opened <= m THEN 1 ELSE 0) = 1
        BY <4>2, <4>3
      <4> QED
        BY <4>4 DEF S
    <3>5. CASE m < opened
      <4>1. PICK p \in closed : p.from <= m
        BY <2>2, <3>1, <3>2, <3>5 DEF Beginnings
      <4>2. PICK q \in closed : Covers(q, m)
        BY <3>1, <3>2, <3>5, <4>1, Parts DEF PeriodsInv
      <4>3. \A r \in S : r = q
        BY <3>1, <3>2, <4>2, Parts DEF PeriodsInv, Covers
      <4>4. S = {q}
        BY <4>2, <4>3 DEF Covers
      <4>5. Cardinality(S) = 1
        BY <4>4, FS_Singleton
      <4>6. (IF opened <= m THEN 1 ELSE 0) = 0
        BY <3>1, <3>2, <3>5
      <4> HIDE DEF S
      <4>7. Cardinality(S) + (IF opened <= m THEN 1 ELSE 0) = 1
        BY <4>5, <4>6
      <4> QED
        BY <4>7 DEF S
    <3> QED
      BY <3>1, <3>2, <3>4, <3>5
  <2> QED
    BY <2>1, <2>2 DEF PeriodsPartition
<1> QED
  BY <1>1, Inductive, PTL

-----------------------------------------------------------------------------
(* The refinement of Subscription. *)

LEMMA GrantFacts ==
  ASSUME RowsInv
  PROVE  Granted => life = "ACTIVE"
BY DEF RowsInv, Granted

LEMMA GrantStep ==
  ASSUME RowsInv'
  PROVE  Service!Grant
<1>1. Granted' => life' = "ACTIVE"
  BY DEF RowsInv, Granted
<1>2. Granted' \in BOOLEAN
  BY DEF Granted
<1> QED
  BY <1>1, <1>2 DEF Service!Grant

LEMMA RegrantStep ==
  ASSUME RowsInv', UNCHANGED <<life, expires, quota, last, stamp>>
  PROVE  Service!Regrant
BY GrantStep DEF Service!Regrant

LEMMA ObeyStep ==
  ASSUME CustomerAssumption, IInv, RowsInv', NEW c \in Caller, Execute(c)
  PROVE  (\E cmd \in Command : Service!Obey(cmd)) \/ Service!Regrant
<1> DEFINE cmd == request[c].cmd
           at == request[c].at
<1>1. cmd \in Command /\ at \in Time
  BY RequestFields DEF Execute, IInv
<1>2. \/ cmd.kind = "apply" /\ Create(c, cmd, at)
      \/ cmd.kind = "apply" /\ Renew(c, cmd, at)
      \/ cmd.kind = "apply" /\ ChangeQuota(c, cmd, at)
      \/ cmd.kind = "block" /\ Block(c, cmd)
      \/ cmd.kind = "unblock" /\ Unblock(c, cmd, at)
      \/ cmd.kind = "delete" /\ StartDelete(c, cmd, at)
      \/ cmd.kind = "delete" /\ DeleteAgain(c, cmd)
      \/ NoEffect(c, cmd, at)
  BY DEF Execute
<1> HIDE DEF cmd, at
<1>3. cmd.kind = "apply" => cmd.until \in Nat /\ cmd.until > 0
  BY <1>1, CommandFields
<1>4. expires \in Nat /\ (life = "DELETED" => expires = 0)
  BY Parts DEF RootType, RootInv
<1>5. CASE cmd.kind = "apply" /\ Create(c, cmd, at)
  <2>1. Service!Accept(cmd) /\ Service!Subscribe(cmd)
    BY <1>3, <1>4, <1>5 DEF Create, IsNew, Creates, Accept, SetLifecycle, OpenPeriod,
       Service!Accept, Service!Subscribe
  <2> QED
    BY <1>1, <2>1, GrantStep DEF Service!Obey
<1>6. CASE cmd.kind = "apply" /\ Renew(c, cmd, at)
  <2>1. Service!Accept(cmd) /\ Service!Subscribe(cmd)
    BY <1>3, <1>4, <1>6 DEF Renew, IsNew, Renews, Accept, OpenPeriod,
       Service!Accept, Service!Subscribe
  <2> QED
    BY <1>1, <2>1, GrantStep DEF Service!Obey
<1>7. CASE cmd.kind = "apply" /\ ChangeQuota(c, cmd, at)
  <2>1. Service!Accept(cmd) /\ Service!Subscribe(cmd)
    BY <1>3, <1>4, <1>7 DEF ChangeQuota, IsNew, Requotas, Accept,
       Service!Accept, Service!Subscribe
  <2> QED
    BY <1>1, <2>1, GrantStep DEF Service!Obey
<1>8. CASE cmd.kind = "block" /\ Block(c, cmd)
  <2>1. Service!Accept(cmd) /\ Service!Block(cmd)
    BY <1>8 DEF Block, IsNew, Accept, SetLifecycle, periodVars, Service!Accept, Service!Block
  <2> QED
    BY <1>1, <2>1, GrantStep DEF Service!Obey
<1>9. CASE cmd.kind = "unblock" /\ Unblock(c, cmd, at)
  <2>1. Service!Accept(cmd) /\ Service!Unblock(cmd)
    BY <1>9 DEF Unblock, IsNew, Accept, SetLifecycle, periodVars, Service!Accept, Service!Unblock
  <2> QED
    BY <1>1, <2>1, GrantStep DEF Service!Obey
<1>10. CASE cmd.kind = "delete" /\ StartDelete(c, cmd, at)
  <2>1. Service!Accept(cmd) /\ Service!Delete(cmd)
    BY <1>10 DEF StartDelete, IsNew, Accept, SetLifecycle, periodVars, Service!Accept, Service!Delete
  <2> QED
    BY <1>1, <2>1, GrantStep DEF Service!Obey
<1>11. CASE cmd.kind = "delete" /\ DeleteAgain(c, cmd)
  <2>1. Service!Accept(cmd) /\ Service!Delete(cmd)
    BY <1>11 DEF DeleteAgain, IsNew, Accept, periodVars, Service!Accept, Service!Delete
  <2> QED
    BY <1>1, <2>1, GrantStep DEF Service!Obey
<1>12. CASE NoEffect(c, cmd, at)
  BY <1>12, RegrantStep DEF NoEffect, rootVars, periodVars
<1> QED
  BY <1>2, <1>5, <1>6, <1>7, <1>8, <1>9, <1>10, <1>11, <1>12

LEMMA VanishStep ==
  ASSUME CustomerAssumption, IInv, Finalize, RowsInv'
  PROVE  Service!Vanish \/ Service!Regrant
<1>1. CASE Erasable(begun["finalize"])
  <2>1. /\ life = "DELETING" /\ life' = "DELETED" /\ expires' = 0 /\ quota' = 0
        /\ last' = last /\ stamp' = stamp
    BY <1>1 DEF Finalize, Erasable, DueForErasure, SetLifecycle, EraseRows
  <2>2. ~Granted /\ ~Granted'
    BY <2>1, Parts DEF RowsInv, Granted
  <2>3. Granted' = Granted
    BY <2>2 DEF Granted
  <2> QED
    BY <2>1, <2>2, <2>3 DEF Service!Vanish
<1>2. CASE ~Erasable(begun["finalize"])
  BY <1>2, RegrantStep DEF Finalize, periodVars
<1> QED
  BY <1>1, <1>2

\* Commands in any order, repeated, from several connections and between the
\* steps of the workers act as one stream of increasing numbers: every step is
\* a step of Subscription or stutters.
THEOREM Refinement == ASSUME CustomerAssumption PROVE Spec => ImplementsSubscription
<1>1. CustomerAssumption /\ Init => Service!Init
  <2> SUFFICES ASSUME CustomerAssumption, Init PROVE Service!Init
    OBVIOUS
  <2>1. ~Granted
    BY BlankIsRow DEF Init, NoRows, Granted
  <2>2. Granted = FALSE
    BY <2>1 DEF Granted
  <2> QED
    BY <2>2 DEF Init, Service!Init
<1>2. CustomerAssumption /\ IInv /\ IInv' /\ [Next]_vars => [Service!Next]_(Service!vars)
  <2> SUFFICES ASSUME CustomerAssumption, IInv, IInv', [Next]_vars
               PROVE  Service!Next \/ UNCHANGED Service!vars
    OBVIOUS
  <2>1. RowsInv'
    BY DEF IInv
  <2>2. CASE UNCHANGED <<life, expires, quota, last, stamp>>
    BY <2>1, <2>2, RegrantStep DEF Service!Next
  <2>3. ASSUME NEW c \in Caller, Execute(c) PROVE Service!Next
    BY <2>1, <2>3, ObeyStep DEF Service!Next
  <2>4. CASE Finalize
    BY <2>1, <2>4, VanishStep DEF Service!Next
  <2>5. ASSUME NEW c \in Caller, (\E cmd \in Command : Begin(c, cmd)) \/ Abandon(c)
        PROVE  UNCHANGED <<life, expires, quota, last, stamp>>
    BY <2>5 DEF Begin, Abandon, rootVars, periodVars
  <2>6. ASSUME Work, ~Finalize
        PROVE  UNCHANGED <<life, expires, quota, last, stamp>>
    BY <2>6 DEF Work, ChooseExpired, ChooseMaterialize, ChooseErasure, Choose, Expire, Materialize,
       rootVars, periodVars
  <2>7. ASSUME NEW n \in Node, Charge(n) \/ Reconcile(n)
        PROVE  UNCHANGED <<life, expires, quota, last, stamp>>
    BY <2>7 DEF Charge, Reconcile, rootVars, periodVars
  <2>8. ASSUME NEW t \in Target, NEW g \in Gen, Delivery(t, g) \/ Fail(t, g)
        PROVE  UNCHANGED <<life, expires, quota, last, stamp>>
    BY <2>8 DEF Delivery, Send, Deliver, EndStray, Fail, SetRow, rootVars, periodVars
  <2>9. ASSUME NEW top \in Topologies, NEW nodes \in SUBSET Node, Manifest(top, nodes)
        PROVE  UNCHANGED <<life, expires, quota, last, stamp>>
    BY <2>9 DEF Manifest, rootVars, periodVars
  <2>10. ASSUME Tick \/ UNCHANGED vars
         PROVE  UNCHANGED <<life, expires, quota, last, stamp>>
    BY <2>10 DEF Tick, vars, rootVars, periodVars
  <2> QED
    BY <2>2, <2>3, <2>4, <2>5, <2>6, <2>7, <2>8, <2>9, <2>10 DEF Next
<1> QED
  BY <1>1, <1>2, Inductive, PTL DEF Spec, Service!Spec, ImplementsSubscription

-----------------------------------------------------------------------------
(* The access set is the topology.  What a writer makes of the newest row of *)
(* each target.                                                              *)

\* Every access of the customer is one the manifest names, as it names it.
Fit == \A t \in Target : Exists(t) => InFleet(t) /\ Newest(t).egress = topology[t]

SetInv ==
    ~drifted /\ life \in {"ACTIVE", "BLOCKED"} =>
        /\ Fit
        /\ clock < expires =>
             \A t \in Target : InFleet(t) =>
                /\ Exists(t)
                /\ life = "ACTIVE" =>
                     ((Newest(t).state = "PRESENT") <=> ~IsQuotaExhausted(total[EntryNode[t]], quota))

LEMMA UpdateNewest ==
  ASSUME CustomerAssumption, RowsOK, NEW update, UpdateAccesses(update), NEW t \in Target
  PROVE  /\ ~Exists(t) => ~Exists(t)'
         /\ Exists(t) => Newest(t)' = update[t] /\ (Exists(t)' <=> ~update[t].retired)
<1>1. gen[t] \in Nat /\ gen' = gen /\ (gen[t] > 0 => gen[t] \in Gen)
  BY GenFacts DEF RowsOK, UpdateAccesses
<1>2. CASE gen[t] = 0
  BY <1>1, <1>2 DEF Exists
<1>3. CASE gen[t] > 0
  <2>1. access'[t][gen[t]] = IF Exists(t) THEN update[t] ELSE access[t][gen[t]]
    BY <1>1, <1>3 DEF UpdateAccesses
  <2>2. Newest(t) = access[t][gen[t]] /\ Newest(t)' = access'[t][gen[t]]
    BY <1>1, <1>3 DEF Newest
  <2> QED
    BY <1>1, <1>3, <2>1, <2>2 DEF Exists
<1> QED
  BY <1>1, <1>2, <1>3

LEMMA WriteNewest ==
  ASSUME CustomerAssumption, RowsOK, NEW new \in SUBSET Target, NEW born, NEW update,
         WriteAccesses(new, born, update), \A u \in new : ~Exists(u), NEW t \in Target
  PROVE  /\ t \in new => Newest(t)' = born[t] /\ (Exists(t)' <=> ~born[t].retired)
         /\ t \notin new /\ ~Exists(t) => ~Exists(t)'
         /\ t \notin new /\ Exists(t) =>
              Newest(t)' = update[t] /\ (Exists(t)' <=> ~update[t].retired)
<1>1. /\ gen[t] \in Nat /\ (gen[t] > 0 => gen[t] \in Gen)
      /\ gen[t] < MaxGen => gen[t] + 1 \in Gen
  BY GenFacts DEF RowsOK
<1>2. gen'[t] = IF t \in new THEN gen[t] + 1 ELSE gen[t]
  BY DEF WriteAccesses
<1>3. CASE t \in new
  <2>1. gen[t] + 1 \in Gen /\ gen'[t] = gen[t] + 1
    BY <1>1, <1>2, <1>3 DEF WriteAccesses
  <2>2. access'[t][gen[t] + 1] = born[t]
    BY <1>1, <1>3, <2>1 DEF WriteAccesses
  <2> QED
    BY <1>1, <1>3, <2>1, <2>2 DEF Exists, Newest
<1>4. CASE t \notin new /\ gen[t] = 0
  BY <1>1, <1>2, <1>4 DEF Exists
<1>5. CASE t \notin new /\ gen[t] > 0
  <2>1. access'[t][gen[t]] = IF Exists(t) THEN update[t] ELSE access[t][gen[t]]
    BY <1>1, <1>5 DEF WriteAccesses
  <2>2. Newest(t) = access[t][gen[t]] /\ Newest(t)' = access'[t][gen[t]]
    BY <1>1, <1>2, <1>5 DEF Newest
  <2> QED
    BY <1>1, <1>2, <1>5, <2>1, <2>2 DEF Exists
<1> QED
  BY <1>1, <1>3, <1>4, <1>5

LEMMA ForceNewest ==
  ASSUME CustomerAssumption, RowsOK, ForceAbsent, NEW t \in Target
  PROVE  (Exists(t)' <=> Exists(t)) /\ Newest(t)'.egress = Newest(t).egress
<1>1. gen[t] \in Nat /\ gen' = gen /\ (gen[t] > 0 => gen[t] \in Gen)
  BY GenFacts DEF RowsOK, ForceAbsent
<1>2. CASE gen[t] = 0
  BY <1>1, <1>2 DEF Exists, Newest
<1>3. CASE gen[t] > 0
  <2> DEFINE issue == EntryNode[t] \in live
             row == access[t][gen[t]]
  <2>1. access'[t][gen[t]] = Rewritten(row, "ABSENT", row.egress, row.retired, issue)
    BY <1>1, <1>3 DEF ForceAbsent
  <2>2. access'[t][gen[t]].egress = row.egress /\ access'[t][gen[t]].retired = row.retired
    BY <2>1 DEF Rewritten
  <2>3. Newest(t) = row /\ Newest(t)' = access'[t][gen[t]]
    BY <1>1, <1>3 DEF Newest
  <2> HIDE DEF row
  <2>4. Exists(t)' <=> Exists(t)
    BY <1>1, <1>3, <2>2, <2>3 DEF Exists
  <2> QED
    BY <2>2, <2>3, <2>4
<1> QED
  BY <1>1, <1>2, <1>3

LEMMA RestatedIs ==
  ASSUME NEW row, ~row.retired, NEW state
  PROVE  /\ Restated(row, state).state = state
         /\ Restated(row, state).egress = row.egress
         /\ ~Restated(row, state).retired
<1>1. CASE row.state = state
  BY <1>1 DEF Restated
<1>2. CASE row.state # state
  BY <1>2 DEF Restated, Rewritten
<1> QED
  BY <1>1, <1>2

LEMMA BornIs ==
  ASSUME NEW state, NEW egress
  PROVE  Born(state, egress).state = state /\ Born(state, egress).egress = egress
           /\ ~Born(state, egress).retired
BY DEF Born, Rewritten

\* Where the set fits the topology, an Apply completes it.
LEMMA ApplySet ==
  ASSUME CustomerAssumption, RowsOK, Fit, NEW lifecycle, NEW at, NEW until, NEW exhausted,
         ApplyAccesses(lifecycle, at, until, exhausted), topology' = topology, NEW t \in Target
  PROVE  /\ Exists(t)' <=> InFleet(t)
         /\ InFleet(t) =>
              /\ Newest(t)'.egress = topology[t]
              /\ Newest(t)'.state = Desired(lifecycle, at, until, exhausted[EntryNode[t]])
<1> DEFINE state(u) == Desired(lifecycle, at, until, exhausted[EntryNode[u]])
           new == {u \in Target : Missing(u)}
           born == [u \in Target |-> Born(state(u), topology[u])]
           update == [u \in Target |-> IF InSync(u) THEN Restated(Newest(u), state(u))
                                       ELSE Newest(u)]
<1>1. WriteAccesses(new, born, update)
  BY DEF ApplyAccesses
<1>2. \A u \in new : ~Exists(u)
  BY DEF Missing
<1>4. born[t] = Born(state(t), topology[t])
  OBVIOUS
<1>5. Exists(t) => update[t] = Restated(Newest(t), state(t)) /\ InFleet(t) /\ t \notin new
                     /\ Newest(t).egress = topology[t]
  BY DEF Fit, InSync, Missing
<1>6. ~Exists(t) => (t \in new <=> InFleet(t))
  BY DEF Missing
<1>7. Exists(t) => ~Newest(t).retired
  BY DEF Exists
<1> HIDE DEF state, new, born, update
<1>8. /\ t \in new => Newest(t)' = born[t] /\ (Exists(t)' <=> ~born[t].retired)
      /\ t \notin new /\ ~Exists(t) => ~Exists(t)'
      /\ t \notin new /\ Exists(t) => Newest(t)' = update[t] /\ (Exists(t)' <=> ~update[t].retired)
  <2>1. new \in SUBSET Target
    BY DEF new
  <2> QED
    BY <1>1, <1>2, <2>1, WriteNewest
<1>9. /\ Exists(t)' <=> InFleet(t)
      /\ InFleet(t) => Newest(t)'.egress = topology[t] /\ Newest(t)'.state = state(t)
  <2>1. CASE Exists(t)
    <3>1. LET row == Restated(Newest(t), state(t))
          IN  row.state = state(t) /\ row.egress = Newest(t).egress /\ ~row.retired
      BY <1>7, <2>1, RestatedIs
    <3> QED
      BY <1>5, <1>8, <2>1, <3>1
  <2>2. CASE ~Exists(t) /\ InFleet(t)
    <3>1. LET row == Born(state(t), topology[t])
          IN  row.state = state(t) /\ row.egress = topology[t] /\ ~row.retired
      BY BornIs
    <3> QED
      BY <1>4, <1>6, <1>8, <2>2, <3>1
  <2>3. CASE ~Exists(t) /\ ~InFleet(t)
    BY <1>6, <1>8, <2>3
  <2> QED
    BY <2>1, <2>2, <2>3
<1> QED
  BY <1>9 DEF state

\* The job makes any set fit, and completes it while the subscription runs.
LEMMA MaterializeSet ==
  ASSUME CustomerAssumption, RowsOK, NEW at, PlanMaterialize(at), topology' = topology,
         NEW t \in Target
  PROVE  /\ Exists(t)' => InFleet(t)
         /\ InFleet(t) /\ at < expires => Exists(t)'
         /\ Exists(t)' =>
              /\ Newest(t)'.egress = topology[t]
              /\ Newest(t)'.state
                   = Desired(life, at, expires, ExhaustedBy(total, quota)[EntryNode[t]])
<1> DEFINE exhausted == ExhaustedBy(total, quota)
           state(u) == Desired(life, at, expires, exhausted[EntryNode[u]])
           new == {u \in Target : Missing(u) /\ at < expires}
           born == [u \in Target |-> Born(state(u), topology[u])]
           update == [u \in Target |->
                         IF InSync(u) THEN Restated(Newest(u), state(u))
                         ELSE IF InFleet(u)
                           THEN Rewritten(Newest(u), state(u), topology[u], FALSE, TRUE)
                         ELSE RetiredRow(u)]
<1>1. WriteAccesses(new, born, update)
  BY DEF PlanMaterialize
<1>2. \A u \in new : ~Exists(u)
  BY DEF Missing
<1>4. born[t] = Born(state(t), topology[t])
  OBVIOUS
<1>5. t \in new <=> InFleet(t) /\ ~Exists(t) /\ at < expires
  BY DEF Missing
<1>6. update[t] = IF InSync(t) THEN Restated(Newest(t), state(t))
                  ELSE IF InFleet(t)
                    THEN Rewritten(Newest(t), state(t), topology[t], FALSE, TRUE)
                  ELSE RetiredRow(t)
  OBVIOUS
<1>7. Exists(t) => ~Newest(t).retired
  BY DEF Exists
<1> HIDE DEF exhausted, state, new, born, update
<1>8. /\ t \in new => Newest(t)' = born[t] /\ (Exists(t)' <=> ~born[t].retired)
      /\ t \notin new /\ ~Exists(t) => ~Exists(t)'
      /\ t \notin new /\ Exists(t) => Newest(t)' = update[t] /\ (Exists(t)' <=> ~update[t].retired)
  <2>1. new \in SUBSET Target
    BY DEF new
  <2> QED
    BY <1>1, <1>2, <2>1, WriteNewest
<1>9. /\ Exists(t)' => InFleet(t) /\ Newest(t)'.egress = topology[t] /\ Newest(t)'.state = state(t)
      /\ InFleet(t) /\ at < expires => Exists(t)'
  <2>1. CASE t \in new
    <3>1. LET row == Born(state(t), topology[t])
          IN  row.state = state(t) /\ row.egress = topology[t] /\ ~row.retired
      BY BornIs
    <3> QED
      BY <1>4, <1>5, <1>8, <2>1, <3>1
  <2>2. CASE t \notin new /\ ~Exists(t)
    BY <1>5, <1>8, <2>2
  <2>3. CASE Exists(t) /\ InSync(t)
    <3>1. update[t] = Restated(Newest(t), state(t)) /\ InFleet(t) /\ Newest(t).egress = topology[t]
      BY <1>6, <2>3 DEF InSync
    <3>2. LET row == Restated(Newest(t), state(t))
          IN  row.state = state(t) /\ row.egress = Newest(t).egress /\ ~row.retired
      BY <1>7, <2>3, RestatedIs
    <3> QED
      BY <1>5, <1>8, <2>3, <3>1, <3>2
  <2>4. CASE Exists(t) /\ ~InSync(t) /\ InFleet(t)
    <3>1. update[t] = Rewritten(Newest(t), state(t), topology[t], FALSE, TRUE)
      BY <1>6, <2>4
    <3>2. LET row == Rewritten(Newest(t), state(t), topology[t], FALSE, TRUE)
          IN  row.state = state(t) /\ row.egress = topology[t] /\ ~row.retired
      BY DEF Rewritten
    <3> QED
      BY <1>5, <1>8, <2>4, <3>1, <3>2
  <2>5. CASE Exists(t) /\ ~InSync(t) /\ ~InFleet(t)
    <3>1. update[t] = RetiredRow(t)
      BY <1>6, <2>5
    <3>2. RetiredRow(t).retired
      BY DEF RetiredRow, Rewritten
    <3> QED
      BY <1>5, <1>8, <2>5, <3>1, <3>2
  <2> QED
    BY <2>1, <2>2, <2>3, <2>4, <2>5
<1> QED
  BY <1>9 DEF state, exhausted

LEMMA SetMeaning ==
  ASSUME Fit', clock \in Nat, clock' = clock, topology' = topology, NEW at \in Nat, at <= clock,
         expires' \in Nat,
         \A t \in Target : InFleet(t) /\ at < expires' => Exists(t)',
         \A t \in Target : InFleet(t) /\ Exists(t)' =>
            Newest(t)'.state = Desired(life', at, expires', ExhaustedBy(total', quota')[EntryNode[t]]),
         EntryNode \in [Target -> Node]
  PROVE  SetInv'
<1>1. ASSUME clock' < expires', NEW t \in Target, InFleet(t)'
      PROVE  /\ Exists(t)'
             /\ life' = "ACTIVE" =>
                  ((Newest(t)'.state = "PRESENT") <=> ~IsQuotaExhausted(total'[EntryNode[t]], quota'))
  <2>1. at < expires' /\ InFleet(t)
    BY <1>1 DEF InFleet
  <2>2. Exists(t)'
    BY <2>1
  <2>3. Newest(t)'.state = Desired(life', at, expires', ExhaustedBy(total', quota')[EntryNode[t]])
    BY <2>1, <2>2
  <2>4. (Desired(life', at, expires', ExhaustedBy(total', quota')[EntryNode[t]]) = "PRESENT")
           <=> life' = "ACTIVE" /\ at < expires' /\ ~IsQuotaExhausted(total'[EntryNode[t]], quota')
    <3>1. EntryNode[t] \in Node
      OBVIOUS
    <3> QED
      BY <3>1 DEF Desired, ExhaustedBy
  <2> QED
    BY <2>1, <2>2, <2>3, <2>4
<1> QED
  BY <1>1 DEF SetInv

\* Apply, on a set that fits.
LEMMA ApplyKeepsSet ==
  ASSUME CustomerAssumption, RowsOK, Fit, clock \in Nat, clock' = clock, topology' = topology,
         NEW at \in Nat, at <= clock, expires' \in Nat,
         ApplyAccesses(life', at, expires', ExhaustedBy(total', quota'))
  PROVE  SetInv'
<1>1. ASSUME NEW t \in Target
      PROVE  /\ Exists(t)' <=> InFleet(t)
             /\ InFleet(t) =>
                  /\ Newest(t)'.egress = topology[t]
                  /\ Newest(t)'.state
                       = Desired(life', at, expires', ExhaustedBy(total', quota')[EntryNode[t]])
  BY ApplySet
<1>2. Fit'
  BY <1>1 DEF Fit, InFleet
<1> QED
  BY <1>1, <1>2, SetMeaning DEF CustomerAssumption

\* Writers that change neither the subscription nor what is PRESENT where.
LEMMA SameSet ==
  ASSUME SetInv, UNCHANGED <<life, expires, quota, total, clock, topology, drifted>>,
         \A t \in Target : /\ Exists(t)' <=> Exists(t)
                           /\ Newest(t)'.egress = Newest(t).egress
                           /\ Newest(t)'.state = Newest(t).state
  PROVE  SetInv'
<1>1. \A t \in Target : InFleet(t)' <=> InFleet(t)
  BY DEF InFleet
<1>2. Fit => Fit'
  BY <1>1 DEF Fit
<1> QED
  BY <1>1, <1>2 DEF SetInv

LEMMA SetOfExecute ==
  ASSUME CustomerAssumption, IInv, SetInv, NEW c \in Caller, Execute(c)
  PROVE  SetInv'
<1> DEFINE cmd == request[c].cmd
           at == request[c].at
<1>1. cmd \in Command /\ at \in Nat /\ at <= clock
  BY RequestFields, TimeIsNat, Parts DEF Execute, IInv, TimesInv
<1>2. \/ cmd.kind = "apply" /\ Create(c, cmd, at)
      \/ cmd.kind = "apply" /\ Renew(c, cmd, at)
      \/ cmd.kind = "apply" /\ ChangeQuota(c, cmd, at)
      \/ cmd.kind = "block" /\ Block(c, cmd)
      \/ cmd.kind = "unblock" /\ Unblock(c, cmd, at)
      \/ cmd.kind = "delete" /\ StartDelete(c, cmd, at)
      \/ cmd.kind = "delete" /\ DeleteAgain(c, cmd)
      \/ NoEffect(c, cmd, at)
  BY DEF Execute
<1> HIDE DEF cmd, at
<1>3. /\ clock \in Nat /\ expires \in Nat /\ RowsOK /\ EntryNode \in [Target -> Node]
      /\ cmd.kind = "apply" => cmd.until \in Nat
  BY <1>1, Parts, TimeIsNat, CommandFields DEF WorldType, RootType, CustomerAssumption
<1>4. CASE cmd.kind = "apply" /\ Create(c, cmd, at)
  <2>1. /\ life' = "ACTIVE" /\ expires' = cmd.until /\ quota' = cmd.quota /\ clock' = clock
        /\ topology' = topology /\ life = "DELETED"
        /\ ApplyAccesses("ACTIVE", at, cmd.until, ExhaustedBy(total', cmd.quota))
    BY <1>4 DEF Create, Creates, SetLifecycle, OpenPeriod, Returns, worldVars
  <2>2. Fit
    BY <2>1, Parts DEF Fit, Exists, RootInv
  <2>3. ApplyAccesses(life', at, expires', ExhaustedBy(total', quota'))
    BY <2>1
  <2> QED
    BY <1>1, <1>3, <1>4, <2>1, <2>2, <2>3, ApplyKeepsSet
<1>5. CASE cmd.kind = "apply" /\ Renew(c, cmd, at)
  <2>1. /\ life' = life /\ expires' = cmd.until /\ quota' = cmd.quota /\ clock' = clock
        /\ topology' = topology /\ life \in {"ACTIVE", "BLOCKED"} /\ drifted' = drifted
        /\ ApplyAccesses(life, at, cmd.until, ExhaustedBy(total', cmd.quota))
    BY <1>5 DEF Renew, Renews, OpenPeriod, Returns, worldVars
  <2>2. CASE drifted
    BY <2>1, <2>2 DEF SetInv
  <2>3. CASE ~drifted
    <3>1. Fit
      BY <2>1, <2>3 DEF SetInv
    <3>2. ApplyAccesses(life', at, expires', ExhaustedBy(total', quota'))
      BY <2>1
    <3> QED
      BY <1>1, <1>3, <1>5, <2>1, <3>1, <3>2, ApplyKeepsSet
  <2> QED
    BY <2>2, <2>3
<1>6. CASE cmd.kind = "apply" /\ ChangeQuota(c, cmd, at)
  <2>1. /\ life' = life /\ expires' = expires /\ quota' = cmd.quota /\ clock' = clock /\ total' = total
        /\ topology' = topology /\ life \in {"ACTIVE", "BLOCKED"} /\ drifted' = drifted
        /\ ApplyAccesses(life, at, expires, ExhaustedBy(total, cmd.quota))
    BY <1>6 DEF ChangeQuota, Requotas, Returns, worldVars
  <2>2. CASE drifted
    BY <2>1, <2>2 DEF SetInv
  <2>3. CASE ~drifted
    <3>1. Fit
      BY <2>1, <2>3 DEF SetInv
    <3>2. ApplyAccesses(life', at, expires', ExhaustedBy(total', quota'))
      BY <2>1
    <3> QED
      BY <1>1, <1>3, <2>1, <3>1, <3>2, ApplyKeepsSet
  <2> QED
    BY <2>2, <2>3
<1>7. CASE cmd.kind = "block" /\ Block(c, cmd)
  <2>1. /\ life' = "BLOCKED" /\ life \in {"ACTIVE", "BLOCKED"} /\ expires' = expires /\ clock' = clock
        /\ topology' = topology /\ drifted' = drifted
    BY <1>7 DEF Block, SetLifecycle, Returns, worldVars
  <2>2. \A t \in Target : (Exists(t)' <=> Exists(t)) /\ Newest(t)'.egress = Newest(t).egress
    <3>1. CASE life = "ACTIVE"
      BY <1>3, <1>7, <3>1, ForceNewest DEF Block
    <3>2. CASE life # "ACTIVE"
      BY <1>7, <3>2 DEF Block, accessVars, Exists, Newest
    <3> QED
      BY <3>1, <3>2
  <2>3. \A t \in Target : InFleet(t)' <=> InFleet(t)
    BY <2>1 DEF InFleet
  <2>4. Fit => Fit'
    BY <2>1, <2>2, <2>3 DEF Fit
  <2> QED
    BY <2>1, <2>2, <2>3, <2>4 DEF SetInv
<1>8. CASE cmd.kind = "unblock" /\ Unblock(c, cmd, at)
  <2>1. /\ life' = "ACTIVE" /\ life \in {"ACTIVE", "BLOCKED"} /\ expires' = expires /\ clock' = clock
        /\ topology' = topology /\ drifted' = drifted /\ total' = total /\ quota' = quota
    BY <1>8 DEF Unblock, SetLifecycle, Returns, worldVars, periodVars
  <2>2. CASE drifted
    BY <2>1, <2>2 DEF SetInv
  <2>3. CASE ~drifted /\ life = "ACTIVE"
    <3>1. UNCHANGED <<gen, access>>
      BY <1>8, <2>3 DEF Unblock, accessVars
    <3>2. \A t \in Target : /\ Exists(t)' <=> Exists(t)
                            /\ Newest(t)'.egress = Newest(t).egress
                            /\ Newest(t)'.state = Newest(t).state
      BY <3>1 DEF Exists, Newest
    <3> QED
      BY <2>1, <2>3, <3>2, SameSet
  <2>4. CASE ~drifted /\ life = "BLOCKED"
    <3> DEFINE exhausted == ExhaustedBy(total, quota)
               state(t) == Desired("ACTIVE", at, expires, exhausted[EntryNode[t]])
               update == [t \in Target |->
                            IF InSync(t) THEN Restated(Newest(t), state(t)) ELSE Newest(t)]
    <3>1. UpdateAccesses(update)
      BY <1>8, <2>4 DEF Unblock
    <3>2. Fit
      BY <2>4 DEF SetInv
    <3>3. ASSUME NEW t \in Target, Exists(t)
          PROVE  update[t] = Restated(Newest(t), state(t)) /\ ~Newest(t).retired
      BY <3>2, <3>3 DEF Fit, InSync, Exists
    <3> HIDE DEF state, update
    <3>4. ASSUME NEW t \in Target
          PROVE  /\ Exists(t)' <=> Exists(t)
                 /\ Exists(t) => Newest(t)'.egress = Newest(t).egress /\ Newest(t)'.state = state(t)
      <4>1. /\ ~Exists(t) => ~Exists(t)'
            /\ Exists(t) => Newest(t)' = update[t] /\ (Exists(t)' <=> ~update[t].retired)
        BY <1>3, <3>1, UpdateNewest
      <4>2. CASE Exists(t)
        <5>1. LET row == Restated(Newest(t), state(t))
              IN  row.state = state(t) /\ row.egress = Newest(t).egress /\ ~row.retired
          BY <3>3, <4>2, RestatedIs
        <5> QED
          BY <3>3, <4>1, <4>2, <5>1
      <4> QED
        BY <4>1, <4>2
    <3>5. Fit'
      BY <2>1, <3>2, <3>4 DEF Fit, InFleet
    <3>6. ASSUME NEW t \in Target, InFleet(t), Exists(t)'
          PROVE  Newest(t)'.state
                   = Desired(life', at, expires', ExhaustedBy(total', quota')[EntryNode[t]])
      BY <2>1, <3>4, <3>6 DEF state
    <3>7. ASSUME clock' < expires', NEW t \in Target, InFleet(t)'
          PROVE  /\ Exists(t)'
                 /\ (Newest(t)'.state = "PRESENT") <=> ~IsQuotaExhausted(total'[EntryNode[t]], quota')
      <4>1. InFleet(t) /\ Exists(t) /\ Exists(t)' /\ at < expires
        BY <1>1, <1>3, <2>1, <2>4, <3>4, <3>7 DEF SetInv, InFleet
      <4>2. Newest(t)'.state = Desired("ACTIVE", at, expires, ExhaustedBy(total, quota)[EntryNode[t]])
        BY <2>1, <3>6, <4>1
      <4>3. (Desired("ACTIVE", at, expires, ExhaustedBy(total, quota)[EntryNode[t]]) = "PRESENT")
              <=> at < expires /\ ~IsQuotaExhausted(total[EntryNode[t]], quota)
        <5>1. EntryNode[t] \in Node
          BY <1>3
        <5> QED
          BY <5>1 DEF Desired, ExhaustedBy
      <4> QED
        BY <2>1, <4>1, <4>2, <4>3
    <3> QED
      BY <3>5, <3>7 DEF SetInv
  <2> QED
    BY <2>1, <2>2, <2>3, <2>4
<1>9. CASE cmd.kind = "delete" /\ StartDelete(c, cmd, at)
  BY <1>9 DEF StartDelete, SetLifecycle, SetInv
<1>10. CASE cmd.kind = "delete" /\ DeleteAgain(c, cmd)
  BY <1>10 DEF DeleteAgain, SetInv
<1>11. CASE NoEffect(c, cmd, at)
  <2>1. PICK answer : Returns(c, answer)
    BY <1>11 DEF NoEffect
  <2>2. UNCHANGED <<life, expires, quota, total, clock, topology, drifted, gen, access>>
    BY <1>11, <2>1 DEF NoEffect, Returns, rootVars, periodVars, accessVars, worldVars
  <2>3. \A t \in Target : /\ Exists(t)' <=> Exists(t)
                          /\ Newest(t)'.egress = Newest(t).egress
                          /\ Newest(t)'.state = Newest(t).state
    BY <2>2 DEF Exists, Newest
  <2> QED
    BY <2>2, <2>3, SameSet
<1> QED
  BY <1>2, <1>4, <1>5, <1>6, <1>7, <1>8, <1>9, <1>10, <1>11

LEMMA SetOfExpire ==
  ASSUME CustomerAssumption, IInv, SetInv, Expire
  PROVE  SetInv'
<1>1. /\ UNCHANGED <<life, expires, quota, total, clock, topology, drifted>>
      /\ begun["expiry"] \in Nat /\ begun["expiry"] <= clock /\ clock \in Nat /\ expires \in Nat
  BY Parts, FinishFacts, TimeIsNat
     DEF Expire, Finishes, TimesInv, RootType, WorldType, worldVars, rootVars, periodVars
<1>2. CASE StillExpired(begun["expiry"])
  <2> DEFINE update == [t \in Target |-> Restated(Newest(t), "ABSENT")]
  <2>1. UpdateAccesses(update)
    BY <1>2 DEF Expire
  <2>2. \A t \in Target : update[t] = Restated(Newest(t), "ABSENT")
    OBVIOUS
  <2> HIDE DEF update
  <2>3. ASSUME NEW t \in Target
        PROVE  (Exists(t)' <=> Exists(t)) /\ (Exists(t) => Newest(t)'.egress = Newest(t).egress)
    <3>1. /\ ~Exists(t) => ~Exists(t)'
          /\ Exists(t) => Newest(t)' = update[t] /\ (Exists(t)' <=> ~update[t].retired)
      BY <2>1, Parts, UpdateNewest
    <3>2. CASE Exists(t)
      <4>1. LET row == Restated(Newest(t), "ABSENT")
            IN  row.egress = Newest(t).egress /\ ~row.retired
        BY <3>2, RestatedIs DEF Exists
      <4> QED
        BY <2>2, <3>1, <3>2, <4>1
    <3> QED
      BY <3>1, <3>2
  <2>4. Fit => Fit'
    BY <1>1, <2>3 DEF Fit, InFleet
  <2>5. ~(clock' < expires')
    BY <1>1, <1>2 DEF StillExpired
  <2> QED
    BY <1>1, <2>4, <2>5 DEF SetInv
<1>3. CASE ~StillExpired(begun["expiry"])
  <2>1. UNCHANGED <<gen, access>>
    BY <1>3 DEF Expire, accessVars
  <2> QED
    BY <1>1, <2>1, SameSet DEF Exists, Newest
<1> QED
  BY <1>2, <1>3

LEMMA SetOfMaterialize ==
  ASSUME CustomerAssumption, IInv, SetInv, Materialize
  PROVE  SetInv'
<1> DEFINE at == begun["materialize"]
<1>1. /\ UNCHANGED <<life, expires, quota, total, clock, topology>>
      /\ at \in Nat /\ at <= clock /\ clock \in Nat /\ expires \in Nat
  BY Parts, FinishFacts, TimeIsNat
     DEF Materialize, Finishes, TimesInv, RootType, WorldType, worldVars, rootVars, periodVars
<1>2. CASE life \in {"ACTIVE", "BLOCKED"}
  <2>1. PlanMaterialize(at)
    BY <1>2 DEF Materialize
  <2> HIDE DEF at
  <2>2. ASSUME NEW t \in Target
        PROVE  /\ Exists(t)' => InFleet(t)
               /\ InFleet(t) /\ at < expires => Exists(t)'
               /\ Exists(t)' =>
                    /\ Newest(t)'.egress = topology[t]
                    /\ Newest(t)'.state
                         = Desired(life, at, expires, ExhaustedBy(total, quota)[EntryNode[t]])
    BY <1>1, <2>1, Parts, MaterializeSet
  <2>3. Fit'
    BY <1>1, <2>2 DEF Fit, InFleet
  <2>4. /\ \A t \in Target : InFleet(t) /\ at < expires' => Exists(t)'
        /\ \A t \in Target : InFleet(t) /\ Exists(t)' =>
             Newest(t)'.state = Desired(life', at, expires', ExhaustedBy(total', quota')[EntryNode[t]])
    BY <1>1, <2>2
  <2> QED
    BY <1>1, <2>3, <2>4, SetMeaning DEF CustomerAssumption
<1>3. CASE life \notin {"ACTIVE", "BLOCKED"}
  BY <1>1, <1>3 DEF SetInv
<1> QED
  BY <1>2, <1>3

LEMMA SetOfFinalize ==
  ASSUME CustomerAssumption, SetInv, Finalize
  PROVE  SetInv'
<1>1. CASE Erasable(begun["finalize"])
  BY <1>1 DEF Finalize, SetLifecycle, SetInv
<1>2. CASE ~Erasable(begun["finalize"])
  BY <1>2, SameSet DEF Finalize, Finishes, periodVars, accessVars, worldVars, Exists, Newest
<1> QED
  BY <1>1, <1>2

LEMMA SetOfCharge ==
  ASSUME CustomerAssumption, IInv, SetInv, NEW n \in Node, Charge(n)
  PROVE  SetInv'
<1>1. /\ UNCHANGED <<life, expires, quota, clock, topology, drifted>>
      /\ quota \in Nat /\ total[n] \in Nat /\ total'[n] = total[n] + 1
      /\ \A m \in Node : m # n => total'[m] = total[m]
  BY Parts DEF Charge, rootVars, worldVars, PeriodType, CustomerAssumption
<1>2. \A t \in Target : EntryNode[t] \in Node
  BY DEF CustomerAssumption
<1>3. CASE ~IsQuotaExhausted(total[n], quota) /\ IsQuotaExhausted(total'[n], quota)
  <2> DEFINE update == [t \in Target |->
                IF EntryNode[t] = n THEN Restated(Newest(t), "ABSENT") ELSE Newest(t)]
  <2>1. UpdateAccesses(update)
    BY <1>3 DEF Charge
  <2>2. \A t \in Target : update[t] = IF EntryNode[t] = n THEN Restated(Newest(t), "ABSENT")
                                      ELSE Newest(t)
    OBVIOUS
  <2> HIDE DEF update
  <2>3. ASSUME NEW t \in Target
        PROVE  /\ Exists(t)' <=> Exists(t)
               /\ Exists(t) =>
                    /\ Newest(t)'.egress = Newest(t).egress
                    /\ Newest(t)'.state = IF EntryNode[t] = n THEN "ABSENT" ELSE Newest(t).state
    <3>1. /\ ~Exists(t) => ~Exists(t)'
          /\ Exists(t) => Newest(t)' = update[t] /\ (Exists(t)' <=> ~update[t].retired)
      BY <2>1, Parts, UpdateNewest
    <3>2. CASE Exists(t) /\ EntryNode[t] = n
      <4>1. LET row == Restated(Newest(t), "ABSENT")
            IN  row.state = "ABSENT" /\ row.egress = Newest(t).egress /\ ~row.retired
        BY <3>2, RestatedIs DEF Exists
      <4> QED
        BY <2>2, <3>1, <3>2, <4>1
    <3>3. CASE Exists(t) /\ EntryNode[t] # n
      BY <2>2, <3>1, <3>3 DEF Exists
    <3> QED
      BY <3>1, <3>2, <3>3
  <2>4. Fit => Fit'
    BY <1>1, <2>3 DEF Fit, InFleet
  <2>5. ASSUME NEW t \in Target, InFleet(t), Exists(t),
               (Newest(t).state = "PRESENT") <=> ~IsQuotaExhausted(total[EntryNode[t]], quota)
        PROVE  (Newest(t)'.state = "PRESENT") <=> ~IsQuotaExhausted(total'[EntryNode[t]], quota')
    <3>1. CASE EntryNode[t] = n
      BY <1>1, <1>3, <2>3, <2>5, <3>1
    <3>2. CASE EntryNode[t] # n
      BY <1>1, <1>2, <2>3, <2>5, <3>2
    <3> QED
      BY <3>1, <3>2
  <2> QED
    BY <1>1, <2>3, <2>4, <2>5 DEF SetInv, InFleet
<1>4. CASE ~(~IsQuotaExhausted(total[n], quota) /\ IsQuotaExhausted(total'[n], quota))
  <2>1. UNCHANGED <<gen, access>>
    BY <1>4 DEF Charge, accessVars
  <2>2. \A t \in Target : /\ Exists(t)' <=> Exists(t)
                          /\ Newest(t)' = Newest(t)
                          /\ InFleet(t)' <=> InFleet(t)
    BY <1>1, <2>1 DEF Exists, Newest, InFleet
  <2>3. ASSUME NEW t \in Target
        PROVE  IsQuotaExhausted(total'[EntryNode[t]], quota')
                 <=> IsQuotaExhausted(total[EntryNode[t]], quota)
    <3>1. CASE EntryNode[t] = n
      BY <1>1, <1>4, <3>1 DEF IsQuotaExhausted
    <3>2. CASE EntryNode[t] # n
      BY <1>1, <1>2, <3>2
    <3> QED
      BY <3>1, <3>2
  <2>4. Fit => Fit'
    BY <1>1, <2>2 DEF Fit
  <2> QED
    BY <1>1, <2>2, <2>3, <2>4 DEF SetInv
<1> QED
  BY <1>3, <1>4

LEMMA SetOfDelivery ==
  ASSUME CustomerAssumption, IInv, SetInv,
         NEW t \in Target, NEW g \in Gen, Delivery(t, g) \/ Fail(t, g)
  PROVE  SetInv'
<1>1. UNCHANGED <<life, expires, quota, total, clock, topology, drifted, gen>>
  BY DEF Delivery, Send, Deliver, EndStray, Fail, SetRow, rootVars, periodVars
<1>2. ASSUME NEW u \in Target, NEW h \in Gen
      PROVE  /\ access'[u][h].state = access[u][h].state
             /\ access'[u][h].egress = access[u][h].egress
             /\ access'[u][h].retired = access[u][h].retired
  <2>1. access \in [Target -> [Gen -> Row]] /\ access[t][g] \in Row
    BY Parts DEF RowsOK
  <2>2. PICK row : /\ access' = [access EXCEPT ![t][g] = row]
                   /\ row.state = access[t][g].state
                   /\ row.egress = access[t][g].egress
                   /\ row.retired = access[t][g].retired
    <3> DEFINE Keeps(row) == /\ row.state = access[t][g].state
                             /\ row.egress = access[t][g].egress
                             /\ row.retired = access[t][g].retired
               waits == [access[t][g] EXCEPT !.op = "waiting"]
               sent == [access[t][g] EXCEPT !.op = "sent"]
               applied == [access[t][g] EXCEPT !.op = "none", !.apply = "APPLIED"]
               failed == [access[t][g] EXCEPT !.op = "none", !.apply = "FAILED"]
               ended == [access[t][g] EXCEPT !.stray = FALSE]
    <3>1. Keeps(waits) /\ Keeps(sent) /\ Keeps(applied)
      BY <2>1 DEF Row
    <3>2. Keeps(failed) /\ Keeps(ended)
      BY <2>1 DEF Row
    <3>3. SetRow(t, g, waits) \/ SetRow(t, g, sent) \/ SetRow(t, g, applied)
            \/ SetRow(t, g, failed) \/ SetRow(t, g, ended)
      BY DEF Delivery, Send, Deliver, EndStray, Fail
    <3> HIDE DEF Keeps, waits, sent, applied, failed, ended
    <3>4. PICK row : SetRow(t, g, row) /\ Keeps(row)
      BY <3>1, <3>2, <3>3
    <3> QED
      BY <3>4 DEF SetRow, Keeps
  <2>3. access'[u][h] = IF u = t /\ h = g THEN row ELSE access[u][h]
    BY <2>1, <2>2
  <2> QED
    BY <2>2, <2>3
<1>3. ASSUME NEW u \in Target
      PROVE  /\ Exists(u)' <=> Exists(u)
             /\ Newest(u)'.egress = Newest(u).egress
             /\ Newest(u)'.state = Newest(u).state
  <2>1. gen[u] \in Nat /\ (gen[u] > 0 => gen[u] \in Gen)
    BY Parts, GenFacts DEF RowsOK
  <2>2. CASE gen[u] = 0
    BY <1>1, <2>1, <2>2 DEF Exists, Newest
  <2>3. CASE gen[u] > 0
    BY <1>1, <1>2, <2>1, <2>3 DEF Exists, Newest
  <2> QED
    BY <2>1, <2>2, <2>3
<1> QED
  BY <1>1, <1>3, SameSet

LEMMA SetOfReconcile ==
  ASSUME CustomerAssumption, IInv, SetInv, NEW n \in Node, Reconcile(n)
  PROVE  SetInv'
<1>1. UNCHANGED <<life, expires, quota, total, clock, topology, drifted, gen>>
  BY DEF Reconcile, worldVars, rootVars, periodVars
<1>2. ASSUME NEW u \in Target, NEW h \in Gen
      PROVE  /\ access'[u][h].state = access[u][h].state
             /\ access'[u][h].egress = access[u][h].egress
             /\ access'[u][h].retired = access[u][h].retired
  <2> DEFINE row == [access[u][h] EXCEPT !.op = "none",
                                        !.apply = IF Satisfied(u, h) THEN "APPLIED" ELSE @]
  <2>1. access[u][h] \in Row
    BY Parts DEF RowsOK
  <2>2. /\ row.state = access[u][h].state /\ row.egress = access[u][h].egress
        /\ row.retired = access[u][h].retired
    BY <2>1 DEF Row
  <2>3. access'[u][h] = IF <<u, h>> \in On(n) THEN row ELSE access[u][h]
    BY DEF Reconcile
  <2> HIDE DEF row
  <2> QED
    BY <2>2, <2>3
<1>3. ASSUME NEW u \in Target
      PROVE  /\ Exists(u)' <=> Exists(u)
             /\ Newest(u)'.egress = Newest(u).egress
             /\ Newest(u)'.state = Newest(u).state
  <2>1. gen[u] \in Nat /\ (gen[u] > 0 => gen[u] \in Gen)
    BY Parts, GenFacts DEF RowsOK
  <2>2. CASE gen[u] = 0
    BY <1>1, <2>1, <2>2 DEF Exists, Newest
  <2>3. CASE gen[u] > 0
    BY <1>1, <1>2, <2>1, <2>3 DEF Exists, Newest
  <2> QED
    BY <2>1, <2>2, <2>3
<1> QED
  BY <1>1, <1>3, SameSet

LEMMA SetOfTick ==
  ASSUME CustomerAssumption, IInv, SetInv, Tick
  PROVE  SetInv'
<1>1. /\ UNCHANGED <<life, expires, quota, total, topology, drifted, gen, access>>
      /\ clock' = clock + 1 /\ clock \in Nat /\ expires \in Nat
  BY Parts, TimeIsNat DEF Tick, rootVars, periodVars, accessVars, WorldType, RootType
<1>2. \A t \in Target : /\ Exists(t)' <=> Exists(t)
                        /\ Newest(t)' = Newest(t)
                        /\ InFleet(t)' <=> InFleet(t)
  BY <1>1 DEF Exists, Newest, InFleet
<1>3. Fit => Fit'
  BY <1>1, <1>2 DEF Fit
<1>4. clock' < expires' => clock < expires
  BY <1>1
<1> QED
  BY <1>1, <1>2, <1>3, <1>4 DEF SetInv

LEMMA SetStep ==
  ASSUME CustomerAssumption, IInv, SetInv, [Next]_vars
  PROVE  SetInv'
<1>1. ASSUME UNCHANGED <<life, expires, quota, total, clock, topology, drifted, gen, access>>
      PROVE  SetInv'
  BY <1>1, SameSet DEF Exists, Newest
<1>2. ASSUME NEW c \in Caller, (\E cmd \in Command : Begin(c, cmd)) \/ Abandon(c) PROVE SetInv'
  BY <1>1, <1>2 DEF Begin, Abandon, rootVars, periodVars, accessVars, worldVars
<1>3. ASSUME NEW c \in Caller, Execute(c) PROVE SetInv'
  BY <1>3, SetOfExecute
<1>4. CASE Work
  <2>1. CASE ChooseExpired \/ ChooseMaterialize \/ ChooseErasure
    BY <1>1, <2>1 DEF ChooseExpired, ChooseMaterialize, ChooseErasure, Choose, rootVars, periodVars,
       accessVars, worldVars
  <2> QED
    BY <1>4, <2>1, SetOfExpire, SetOfMaterialize, SetOfFinalize DEF Work
<1>5. ASSUME NEW n \in Node, Charge(n) \/ Reconcile(n) PROVE SetInv'
  BY <1>5, SetOfCharge, SetOfReconcile
<1>6. ASSUME NEW t \in Target, NEW g \in Gen, Delivery(t, g) \/ Fail(t, g) PROVE SetInv'
  BY <1>6, SetOfDelivery
<1>7. ASSUME NEW top \in Topologies, NEW nodes \in SUBSET Node, Manifest(top, nodes) PROVE SetInv'
  BY <1>7 DEF Manifest, SetInv
<1>8. CASE Tick
  BY <1>8, SetOfTick
<1>9. CASE UNCHANGED vars
  BY <1>1, <1>9 DEF vars, rootVars, periodVars, accessVars, worldVars
<1> QED
  BY <1>2, <1>3, <1>4, <1>5, <1>6, <1>7, <1>8, <1>9 DEF Next

\* While the subscription runs and no manifest waits for its job, the accesses
\* are exactly the fleet's targets, under their present egress, and PRESENT
\* wherever the quota allows, whatever commands and workers came in between.
THEOREM AccessSetIsTopology == ASSUME CustomerAssumption PROVE Spec => []SetIsTopology
<1>1. Init => SetInv
  BY DEF Init, SetInv
<1>2. CustomerAssumption /\ IInv /\ SetInv /\ [Next]_vars => SetInv'
  BY SetStep
<1>3. SetInv => SetIsTopology
  BY DEF SetInv, SetIsTopology, Fit
<1> QED
  BY <1>1, <1>2, <1>3, Inductive, PTL DEF Spec

=============================================================================
