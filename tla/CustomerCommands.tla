-------------------------- MODULE CustomerCommands --------------------------
(***************************************************************************)
(* The rows of one customer and everybody who writes them: the three       *)
(* commands of the customer service (Apply, SetState, Delete) with their   *)
(* repetitions and reorderings, the expiry worker, the materialization     *)
(* step of the manifest job, the usage worker, and the worker that erases  *)
(* a deleted customer.                                                     *)
(*                                                                         *)
(* Every writer locks the customer's root row first and keeps it to the    *)
(* end of its transaction, so what it does under the lock is one step of   *)
(* the model, and different customers do not meet.  What a transaction     *)
(* read before it had the lock is kept apart: its now() (at) and, for the  *)
(* workers that choose a customer by a query, the state that query saw.    *)
(*                                                                         *)
(* Time is a small number.  The delivery of an access's operations is      *)
(* reduced to what the writers ask about: whether the newest operation     *)
(* waits, is on its way or is finished, and whether an older one is still  *)
(* on its way (stray).                                                     *)
(***************************************************************************)
EXTENDS Integers, FiniteSets

CONSTANTS
    Target,       \* logical targets of the fleet: its nodes and its bridges
    Node,
    EntryNode,    \* entry node of a target
    Egress,       \* what egress_key may be
    Outside,      \* the target is not in the manifest
    Topologies,   \* the contents a manifest may give the fleet
    Worker,       \* background workers of the instance
    Caller,       \* connections on which the customer service sends commands
    Command,      \* the commands it ever sends, each any number of times
    NoCommand,    \* the fingerprint of a row no command was accepted for
    Nobody,       \* no transaction is running
    Grace,        \* the pause between Delete and erasing
    MaxTime,      \* bound on the clock
    MaxBytes,     \* bound on the traffic of one period
    MaxGen,       \* bound on the generations of a target
    MaxManifests, \* bound on the manifests taken
    MaxFailures   \* bound on operations that fail for good

Time == 0 .. MaxTime
Gen  == 1 .. MaxGen

Commands ==
    [kind : {"apply"}, number : Nat \ {0}, until : Nat \ {0}, quota : Nat \ {0}]
      \cup [kind : {"block", "unblock", "delete"}, number : Nat \ {0}]

ASSUME CustomerAssumption ==
    /\ MaxTime \in Nat
    /\ MaxBytes \in Nat
    /\ MaxGen \in Nat
    /\ MaxManifests \in Nat
    /\ MaxFailures \in Nat
    /\ Grace \in Nat
    /\ EntryNode \in [Target -> Node]
    /\ Outside \notin Egress
    /\ Egress # {}
    /\ Topologies \subseteq [Target -> Egress \cup {Outside}]
    /\ Topologies # {}
    /\ Command \subseteq Commands
    /\ NoCommand \notin Commands
    /\ Worker \subseteq {"expiry", "materialize", "finalize"}
    /\ Nobody \notin Time

VARIABLES
    clock,
    \* customer_entitlements
    life, expires, last, stamp, eraseAfter,
    \* quota_periods and node_quota_usage of the open period
    opened, quota, closed, total,
    \* vpn_accesses with their operations
    gen, access,
    \* the manifest, as this customer's fleet sees it
    topology, live, drifted, manifests, failures,
    \* transactions before they hold the lock
    request, begun,
    \* what Delete answered in the last step
    reply

rootVars   == <<life, expires, last, stamp, eraseAfter>>
periodVars == <<opened, quota, closed, total>>
accessVars == <<gen, access>>
worldVars  == <<clock, topology, live, manifests, failures>>
vars == <<rootVars, periodVars, accessVars, worldVars, drifted, request, begun, reply>>

Row ==
    [state : {"PRESENT", "ABSENT"}, egress : Egress, retired : BOOLEAN,
     apply : {"PENDING", "APPLIED", "FAILED"},
     op : {"none", "waiting", "sent"}, stray : BOOLEAN]

Idle == [pc |-> "idle"]

TypeOK ==
    /\ clock \in Time
    /\ life \in {"ACTIVE", "BLOCKED", "DELETING", "DELETED"}
    /\ expires \in Nat
    /\ last \in Nat
    /\ stamp \in Command \cup {NoCommand}
    /\ eraseAfter \in Nat
    /\ opened \in Time \cup {Nobody}
    /\ quota \in Nat
    /\ closed \subseteq [from : Time, to : Time]
    /\ total \in [Node -> 0 .. MaxBytes]
    /\ gen \in [Target -> 0 .. MaxGen]
    /\ access \in [Target -> [Gen -> Row]]
    /\ topology \in [Target -> Egress \cup {Outside}]
    /\ live \subseteq Node
    /\ drifted \in BOOLEAN
    /\ manifests \in 0 .. MaxManifests
    /\ failures \in 0 .. MaxFailures
    /\ request \in [Caller -> {Idle} \cup [pc : {"begun"}, cmd : Command, at : Time]]
    /\ begun \in [Worker -> Time \cup {Nobody}]
    /\ reply \in {"none", "PENDING", "COMPLETED"}

Blank ==
    [state |-> "ABSENT", egress |-> CHOOSE e \in Egress : TRUE, retired |-> TRUE,
     apply |-> "APPLIED", op |-> "none", stray |-> FALSE]

NoRows == [t \in Target |-> [g \in Gen |-> Blank]]

EntryNodes(top) == {EntryNode[t] : t \in {x \in Target : top[x] # Outside}}

\* LockEntitlement makes the root row of an unknown customer itself: a
\* tombstone with number 0, rolled back when the command is refused.
Init ==
    /\ clock = 0
    /\ life = "DELETED"
    /\ expires = 0
    /\ last = 0
    /\ stamp = NoCommand
    /\ eraseAfter = 0
    /\ opened = Nobody
    /\ quota = 0
    /\ closed = {}
    /\ total = [n \in Node |-> 0]
    /\ gen = [t \in Target |-> 0]
    /\ access = NoRows
    /\ topology \in Topologies
    /\ live = EntryNodes(topology)
    /\ drifted = FALSE
    /\ manifests = 0
    /\ failures = 0
    /\ request = [c \in Caller |-> Idle]
    /\ begun = [w \in Worker |-> Nobody]
    /\ reply = "none"

-----------------------------------------------------------------------------
(* The access set against the topology: PlanAccessSet *)

InFleet(t)  == topology[t] # Outside
Newest(t)   == IF gen[t] = 0 THEN Blank ELSE access[t][gen[t]]
Exists(t)   == gen[t] > 0 /\ ~Newest(t).retired
Missing(t)  == InFleet(t) /\ ~Exists(t)
InSyncByKey(t) == InFleet(t) /\ Exists(t)
InSync(t)   == InFleet(t) /\ Exists(t) /\ Newest(t).egress = topology[t]
Repointed(t) == InFleet(t) /\ Exists(t) /\ Newest(t).egress # topology[t]
Vanished(t) == ~InFleet(t) /\ Exists(t)

IsQuotaExhausted(bytes, limit) == bytes >= limit

DesiredByTime(lifecycle, at, until, exhausted) ==
    IF at < until /\ ~exhausted THEN "PRESENT" ELSE "ABSENT"
\* DesiredStateForLifecycle
Desired(lifecycle, at, until, exhausted) ==
    IF lifecycle = "ACTIVE" /\ at < until /\ ~exhausted THEN "PRESENT" ELSE "ABSENT"

\* The desired tuple is rewritten in a new version: waiting operations of the
\* older ones are superseded, one already sent is not.
Rewritten(row, state, egress, retired, issue) ==
    [state |-> state, egress |-> egress, retired |-> retired,
     apply |-> IF issue THEN "PENDING" ELSE "APPLIED",
     op |-> IF issue THEN "waiting" ELSE "none",
     stray |-> row.stray \/ row.op = "sent"]

\* A new access; one born ABSENT has nothing to deliver.
Born(state, egress) == Rewritten(Blank, state, egress, FALSE, state = "PRESENT")

Restated(row, state) ==
    IF row.state = state THEN row
    ELSE Rewritten(row, state, row.egress, row.retired, TRUE)

\* New contents for the newest rows that are not retired.
UpdateAccesses(update) ==
    /\ access' = [t \in Target |-> [g \in Gen |->
          IF g = gen[t] /\ Exists(t) THEN update[t] ELSE access[t][g]]]
    /\ UNCHANGED gen

\* New rows for the targets in new, new contents for the others.
WriteAccesses(new, born, update) ==
    /\ \A t \in new : gen[t] < MaxGen
    /\ gen' = [t \in Target |-> IF t \in new THEN gen[t] + 1 ELSE gen[t]]
    /\ access' = [t \in Target |-> [g \in Gen |->
          IF t \in new /\ g = gen[t] + 1 THEN born[t]
          ELSE IF g = gen[t] /\ Exists(t) THEN update[t]
          ELSE access[t][g]]]

\* PlanForceAbsent: every row, retired and ABSENT ones too, is asserted again;
\* where the node has left the manifest there is nowhere to deliver to.
ForceAbsent ==
    /\ access' = [t \in Target |-> [g \in Gen |->
          IF g <= gen[t]
            THEN Rewritten(access[t][g], "ABSENT", access[t][g].egress,
                           access[t][g].retired, EntryNode[t] \in live)
            ELSE access[t][g]]]
    /\ UNCHANGED gen

-----------------------------------------------------------------------------
(* Commands *)

\* A transaction starts: now() is fixed, the lock is not taken yet.
Begin(c, cmd) ==
    /\ request[c] = Idle
    /\ request' = [request EXCEPT ![c] = [pc |-> "begun", cmd |-> cmd, at |-> clock]]
    /\ reply' = "none"
    /\ UNCHANGED <<rootVars, periodVars, accessVars, worldVars, drifted, begun>>

\* The connection breaks before the lock is granted: everything rolls back.
Abandon(c) ==
    /\ request[c] # Idle
    /\ request' = [request EXCEPT ![c] = Idle]
    /\ reply' = "none"
    /\ UNCHANGED <<rootVars, periodVars, accessVars, worldVars, drifted, begun>>

Returns(c, answer) ==
    /\ request' = [request EXCEPT ![c] = Idle]
    /\ reply' = answer
    /\ UNCHANGED <<worldVars, drifted, begun>>

IsNotOlder(cmd)  == cmd.number >= last
\* ClassifyCommand
IsNew(cmd)      == cmd.number > last
IsStale(cmd)    == cmd.number < last
IsReplay(cmd)   == cmd.number = last /\ stamp \in {NoCommand, cmd}
IsConflict(cmd) == cmd.number = last /\ stamp \notin {NoCommand, cmd}

Accept(cmd) == last' = cmd.number /\ stamp' = cmd

SetLifecycle(state, erase) == life' = state /\ eraseAfter' = erase

\* ClassifyApply; the fleet of every command is the customer's.
Creates(cmd, at)  == life = "DELETED" /\ cmd.until > at
Renews(cmd, at)   == life \in {"ACTIVE", "BLOCKED"} /\ cmd.until > expires /\ cmd.until > at
Requotas(cmd)     == life \in {"ACTIVE", "BLOCKED"} /\ cmd.until = expires

AnyInterval(at) == TRUE

\* CloseOpenQuotaPeriod and InsertQuotaPeriod, both at now(); the constraint
\* quota_periods_interval turns away a now() older than the open period.
IntervalHolds(at) == opened # Nobody => opened <= at

OpenPeriodBlindly(at, limit) ==
    /\ closed' = closed \cup {[from |-> opened, to |-> at]}
    /\ opened' = at
    /\ quota' = limit
    /\ total' = [n \in Node |-> 0]

OpenPeriod(at, limit) ==
    /\ IntervalHolds(at)
    /\ closed' = IF opened = Nobody THEN closed
                 ELSE closed \cup {[from |-> opened, to |-> at]}
    /\ opened' = at
    /\ quota' = limit
    /\ total' = [n \in Node |-> 0]

\* The exhaustion that counts is the one after this transaction.
ExhaustedBy(bytes, limit) == [n \in Node |-> IsQuotaExhausted(bytes[n], limit)]

ApplyMissing(lifecycle, at, until, exhausted) ==
    WriteAccesses({t \in Target : Missing(t)},
        [t \in Target |-> Born(Desired(lifecycle, at, until, exhausted[EntryNode[t]]), topology[t])],
        [t \in Target |-> Newest(t)])

\* PlanApply creates what is missing and restates what is in step with the
\* manifest; what is not is left to the materialization job.
ApplyAccesses(lifecycle, at, until, exhausted) ==
    LET state(t) == Desired(lifecycle, at, until, exhausted[EntryNode[t]])
    IN  WriteAccesses({t \in Target : Missing(t)},
                      [t \in Target |-> Born(state(t), topology[t])],
                      [t \in Target |-> IF InSync(t) THEN Restated(Newest(t), state(t))
                                        ELSE Newest(t)])

Create(c, cmd, at) ==
    /\ IsNew(cmd)
    /\ Creates(cmd, at)
    /\ Accept(cmd)
    /\ SetLifecycle("ACTIVE", 0)
    /\ expires' = cmd.until
    /\ OpenPeriod(at, cmd.quota)
    /\ ApplyAccesses("ACTIVE", at, cmd.until, ExhaustedBy(total', cmd.quota))
    /\ Returns(c, "none")

\* A renewal starts a period with no traffic; it does not unblock.
Renew(c, cmd, at) ==
    /\ IsNew(cmd)
    /\ Renews(cmd, at)
    /\ Accept(cmd)
    /\ expires' = cmd.until
    /\ OpenPeriod(at, cmd.quota)
    /\ ApplyAccesses(life, at, cmd.until, ExhaustedBy(total', cmd.quota))
    /\ Returns(c, "none")
    /\ UNCHANGED <<life, eraseAfter>>

ChangeQuota(c, cmd, at) ==
    /\ IsNew(cmd)
    /\ Requotas(cmd)
    /\ Accept(cmd)
    /\ quota' = cmd.quota
    /\ ApplyAccesses(life, at, expires, ExhaustedBy(total, cmd.quota))
    /\ Returns(c, "none")
    /\ UNCHANGED <<life, expires, eraseAfter, opened, closed, total>>

Block(c, cmd) ==
    /\ IsNew(cmd)
    /\ life \in {"ACTIVE", "BLOCKED"}
    /\ Accept(cmd)
    /\ SetLifecycle("BLOCKED", 0)
    /\ IF life = "ACTIVE" THEN ForceAbsent ELSE UNCHANGED accessVars
    /\ Returns(c, "none")
    /\ UNCHANGED <<expires, periodVars>>

\* Only rows in step with the manifest come back, by the ordinary rule.
Unblock(c, cmd, at) ==
    LET exhausted == ExhaustedBy(total, quota)
        state(t)  == Desired("ACTIVE", at, expires, exhausted[EntryNode[t]])
    IN  /\ IsNew(cmd)
        /\ life \in {"ACTIVE", "BLOCKED"}
        /\ Accept(cmd)
        /\ SetLifecycle("ACTIVE", 0)
        /\ IF life = "BLOCKED"
             THEN UpdateAccesses([t \in Target |->
                     IF InSync(t) THEN Restated(Newest(t), state(t)) ELSE Newest(t)])
             ELSE UNCHANGED accessVars
        /\ Returns(c, "none")
        /\ UNCHANGED <<expires, periodVars>>

\* Delete asks again even of a customer who is being deleted.
StartDelete(c, cmd, at) ==
    /\ IsNew(cmd)
    /\ life # "DELETED"
    /\ Accept(cmd)
    /\ SetLifecycle("DELETING", at + Grace)
    /\ ForceAbsent
    /\ Returns(c, "PENDING")
    /\ UNCHANGED <<expires, periodVars>>

\* Nothing is left to delete: only the ordering token moves.
DeleteAgain(c, cmd) ==
    /\ IsNew(cmd)
    /\ life = "DELETED"
    /\ Accept(cmd)
    /\ Returns(c, "COMPLETED")
    /\ UNCHANGED <<life, expires, eraseAfter, periodVars, accessVars>>

DeleteDone == "COMPLETED"
\* A stale or repeated Delete reports on the customer as he is now.
DeleteAnswer == IF life = "DELETING" THEN "PENDING" ELSE "COMPLETED"

Refusals(cmd, at) ==
    \/ IsConflict(cmd)
    \/ cmd.kind = "apply" /\ life = "DELETING"
    \/ cmd.kind = "apply" /\ ~Creates(cmd, at) /\ ~Renews(cmd, at) /\ ~Requotas(cmd)
    \/ cmd.kind = "apply" /\ ~Requotas(cmd) /\ ~IntervalHolds(at)
    \/ cmd.kind \in {"block", "unblock"} /\ life \in {"DELETING", "DELETED"}

\* Stale and repeated commands commit an empty transaction, refused ones roll
\* back; neither changes a row.
NoEffect(c, cmd, at) ==
    /\ IsStale(cmd) \/ IsReplay(cmd) \/ Refusals(cmd, at)
    /\ Returns(c, IF cmd.kind = "delete" /\ ~IsConflict(cmd) THEN DeleteAnswer ELSE "none")
    /\ UNCHANGED <<rootVars, periodVars, accessVars>>

Execute(c) ==
    /\ request[c].pc = "begun"
    /\ LET cmd == request[c].cmd
           at  == request[c].at
       IN  \/ cmd.kind = "apply" /\ Create(c, cmd, at)
           \/ cmd.kind = "apply" /\ Renew(c, cmd, at)
           \/ cmd.kind = "apply" /\ ChangeQuota(c, cmd, at)
           \/ cmd.kind = "block" /\ Block(c, cmd)
           \/ cmd.kind = "unblock" /\ Unblock(c, cmd, at)
           \/ cmd.kind = "delete" /\ StartDelete(c, cmd, at)
           \/ cmd.kind = "delete" /\ DeleteAgain(c, cmd)
           \/ NoEffect(c, cmd, at)

-----------------------------------------------------------------------------
(* Workers.  Each starts a transaction, chooses the customer by a query and  *)
(* then, holding the lock, looks again.                                      *)

HasPresent == \E t \in Target : Exists(t) /\ Newest(t).state = "PRESENT"

Choose(w, chosen) ==
    /\ w \in Worker
    /\ begun[w] = Nobody
    /\ chosen
    /\ begun' = [begun EXCEPT ![w] = clock]
    /\ reply' = "none"
    /\ UNCHANGED <<rootVars, periodVars, accessVars, worldVars, drifted, request>>

Finishes(w) ==
    /\ w \in Worker
    /\ begun[w] # Nobody
    /\ begun' = [begun EXCEPT ![w] = Nobody]
    /\ reply' = "none"
    /\ UNCHANGED <<worldVars, request>>

\* LockNextDueExpiredCustomer
ChooseExpired == Choose("expiry", life = "ACTIVE" /\ expires <= clock /\ HasPresent)

StillChosen(at) == TRUE
ExpiredBefore(at) == life = "ACTIVE" /\ expires < at

\* The row is checked again when its lock is granted, by the query and by
\* PlanExpiry, so that a renewal in between is not undone.
StillExpired(at) == life = "ACTIVE" /\ expires <= at

Expire ==
    /\ Finishes("expiry")
    /\ IF StillExpired(begun["expiry"])
         THEN UpdateAccesses([t \in Target |-> Restated(Newest(t), "ABSENT")])
         ELSE UNCHANGED accessVars
    /\ UNCHANGED <<rootVars, periodVars, drifted>>

\* NextCustomerAfter
ChooseMaterialize == Choose("materialize", life \in {"ACTIVE", "BLOCKED"})

\* PlanMaterialize: all four lists of PlanAccessSet.  An expired customer gets
\* no new access; a target that left loses its access in any case, and the node
\* is told only if it is still in the manifest and has something to forget.
RetiredRow(t) ==
    Rewritten(Newest(t), "ABSENT", Newest(t).egress, TRUE,
              EntryNode[t] \in live /\ Newest(t).state = "PRESENT")

PlanMaterialize(at) ==
    LET exhausted == ExhaustedBy(total, quota)
        state(t)  == Desired(life, at, expires, exhausted[EntryNode[t]])
    IN  WriteAccesses({t \in Target : Missing(t) /\ at < expires},
            [t \in Target |-> Born(state(t), topology[t])],
            [t \in Target |->
                IF InSync(t) THEN Restated(Newest(t), state(t))
                ELSE IF InFleet(t)
                  THEN Rewritten(Newest(t), state(t), topology[t], FALSE, TRUE)
                ELSE RetiredRow(t)])

Materialize ==
    /\ Finishes("materialize")
    /\ IF life \in {"ACTIVE", "BLOCKED"}
         THEN PlanMaterialize(begun["materialize"]) /\ drifted' = FALSE
         ELSE UNCHANGED <<accessVars, drifted>>
    /\ UNCHANGED <<rootVars, periodVars>>

\* CustomerDeletionReady: every row is confirmed ABSENT and nothing is queued
\* or on its way.
Settled(row) ==
    row.state = "ABSENT" /\ row.apply = "APPLIED" /\ row.op = "none" /\ ~row.stray
Ready == \A t \in Target, g \in Gen : g <= gen[t] => Settled(access[t][g])

DueForErasure(at) == life = "DELETING" /\ eraseAfter <= at

\* LockNextDeletionCandidate; the lock rechecks the root row, not the rows the
\* query looked at, so FinalizeNextDeletion asks once more.
ChooseErasure == Choose("finalize", DueForErasure(clock) /\ Ready)

ErasableAnyway(at) == DueForErasure(at)
Erasable(at) == DueForErasure(at) /\ Ready

EraseRows ==
    /\ opened' = Nobody
    /\ quota' = 0
    /\ closed' = {}
    /\ total' = [n \in Node |-> 0]
    /\ gen' = [t \in Target |-> 0]
    /\ access' = NoRows

Finalize ==
    /\ Finishes("finalize")
    /\ IF Erasable(begun["finalize"])
         THEN /\ EraseRows
              /\ SetLifecycle("DELETED", 0)
              /\ expires' = 0
         ELSE UNCHANGED <<life, eraseAfter, expires, periodVars, accessVars>>
    /\ UNCHANGED <<last, stamp, drifted>>

\* The usage worker charges the open period; the first crossing of the quota
\* takes every access of the customer on the node away.
Charge(n) ==
    /\ opened # Nobody
    /\ total[n] < MaxBytes
    /\ total' = [total EXCEPT ![n] = @ + 1]
    /\ IF ~IsQuotaExhausted(total[n], quota) /\ IsQuotaExhausted(total'[n], quota)
         THEN UpdateAccesses([t \in Target |->
                 IF EntryNode[t] = n THEN Restated(Newest(t), "ABSENT") ELSE Newest(t)])
         ELSE UNCHANGED accessVars
    /\ reply' = "none"
    /\ UNCHANGED <<rootVars, opened, quota, closed, worldVars, drifted, request, begun>>

-----------------------------------------------------------------------------
(* GetCustomerAccessLinks reads all of this in one snapshot. *)

\* Retired accesses, targets and entry nodes that left the manifest are not
\* shown; a DELETED customer is not found.
Shown(t) == life # "DELETED" /\ InFleet(t) /\ Exists(t) /\ EntryNode[t] \in live

\* LinkStatusOf: of several reasons the first one is given.
BlockReason(t) ==
    IF life = "DELETING" THEN "DELETION_IN_PROGRESS"
    ELSE IF life = "BLOCKED" THEN "ADMINISTRATIVE_BLOCK"
    ELSE IF expires <= clock THEN "TIME_EXPIRED"
    ELSE IF IsQuotaExhausted(total[EntryNode[t]], quota) THEN "TRAFFIC_QUOTA_EXHAUSTED"
    ELSE "NONE"

LinkState(t) ==
    IF BlockReason(t) # "NONE" THEN "BLOCKED"
    ELSE IF Newest(t).apply = "FAILED" THEN "FAILED"
    ELSE IF Newest(t).state = "PRESENT" /\ Newest(t).apply = "APPLIED" THEN "READY"
    ELSE "PENDING"

Promised(t) == Shown(t) /\ LinkState(t) = "PENDING"

-----------------------------------------------------------------------------
(* The rest of the system, as these rows see it *)

SetRow(t, g, row) ==
    /\ access' = [access EXCEPT ![t][g] = row]
    /\ reply' = "none"
    /\ UNCHANGED <<rootVars, periodVars, gen, drifted, request, begun,
                   clock, topology, live, manifests>>

\* Dispatch leases operations of nodes that left the manifest as well.
Send(t, g) ==
    /\ g <= gen[t]
    /\ access[t][g].op = "waiting"
    /\ SetRow(t, g, [access[t][g] EXCEPT !.op = "sent"])
    /\ UNCHANGED failures

Deliver(t, g) ==
    /\ access[t][g].op = "sent"
    /\ SetRow(t, g, [access[t][g] EXCEPT !.op = "none", !.apply = "APPLIED"])
    /\ UNCHANGED failures

\* A failed attempt is repeated, or it is permanent: then the operation ends
\* and the row stays FAILED until somebody writes it again.
Fail(t, g) ==
    /\ access[t][g].op = "sent"
    /\ failures < MaxFailures
    /\ failures' = failures + 1
    /\ \/ SetRow(t, g, [access[t][g] EXCEPT !.op = "waiting"])
       \/ SetRow(t, g, [access[t][g] EXCEPT !.op = "none", !.apply = "FAILED"])

StrayForgotten(t, g) ==
    /\ access[t][g].stray
    /\ SetRow(t, g, access[t][g])
    /\ UNCHANGED failures

\* An operation of an older version ends and changes nothing but itself.
EndStray(t, g) ==
    /\ access[t][g].stray
    /\ SetRow(t, g, [access[t][g] EXCEPT !.stray = FALSE])
    /\ UNCHANGED failures

\* AcceptNodeReconcile: the agent took the full set of a node on which nothing
\* is on its way.  Rows it satisfied become APPLIED, retired ones are left out,
\* and every waiting operation of the node is completed.
InSet(t, g) ==
    /\ access[t][g].state = "PRESENT"
    /\ life = "ACTIVE"
    /\ clock < expires
    /\ ~IsQuotaExhausted(total[EntryNode[t]], quota)

Satisfied(t, g) ==
    /\ ~access[t][g].retired
    /\ access[t][g].state = "ABSENT" \/ InSet(t, g)

On(n) == {x \in Target \X Gen : EntryNode[x[1]] = n /\ x[2] <= gen[x[1]]}

Reconcile(n) ==
    /\ n \in live
    /\ \A x \in On(n) : access[x[1]][x[2]].op # "sent" /\ ~access[x[1]][x[2]].stray
    /\ access' = [t \in Target |-> [g \in Gen |->
          IF <<t, g>> \in On(n)
            THEN [access[t][g] EXCEPT !.op = "none",
                                      !.apply = IF Satisfied(t, g) THEN "APPLIED" ELSE @]
            ELSE access[t][g]]]
    /\ reply' = "none"
    /\ UNCHANGED <<rootVars, periodVars, gen, drifted, request, begun, worldVars>>

\* A manifest changes the fleet's contents and perhaps the set of all nodes.
Manifest(top, nodes) ==
    /\ manifests < MaxManifests
    /\ manifests' = manifests + 1
    /\ EntryNodes(top) \subseteq nodes
    /\ topology' = top
    /\ live' = nodes
    /\ drifted' = TRUE
    /\ reply' = "none"
    /\ UNCHANGED <<rootVars, periodVars, accessVars, clock, failures, request, begun>>

Tick ==
    /\ clock < MaxTime
    /\ clock' = clock + 1
    /\ reply' = "none"
    /\ UNCHANGED <<rootVars, periodVars, accessVars, topology, live, manifests, failures,
                   drifted, request, begun>>

-----------------------------------------------------------------------------

Work ==
    \/ ChooseExpired \/ Expire
    \/ ChooseMaterialize \/ Materialize
    \/ ChooseErasure \/ Finalize

Delivery(t, g) == Send(t, g) \/ Deliver(t, g) \/ EndStray(t, g)

Next ==
    \/ \E c \in Caller :
          (\E cmd \in Command : Begin(c, cmd)) \/ Execute(c) \/ Abandon(c)
    \/ Work
    \/ \E n \in Node : Charge(n) \/ Reconcile(n)
    \/ \E t \in Target, g \in Gen : Delivery(t, g) \/ Fail(t, g)
    \/ \E top \in Topologies, nodes \in SUBSET Node : Manifest(top, nodes)
    \/ Tick

Spec == Init /\ [][Next]_vars

\* Time passes, the loops of the workers never stop (runWorker), a call ends, an
\* agent of the manifest answers, and every node is reconciled periodically.
Fairness ==
    /\ WF_vars(Tick)
    /\ WF_vars(ChooseExpired) /\ WF_vars(Expire)
    /\ WF_vars(ChooseErasure) /\ WF_vars(Finalize)
    /\ \A t \in Target, g \in Gen :
          /\ WF_vars(Send(t, g)) /\ WF_vars(EndStray(t, g))
          /\ WF_vars(EntryNode[t] \in live /\ Deliver(t, g))
    /\ \A n \in Node : WF_vars(Reconcile(n))

FairSpec == Spec /\ Fairness

-----------------------------------------------------------------------------
(* Properties *)

\* Only an ACTIVE customer may have a PRESENT access, whoever wrote it last
\* (DesiredStateForLifecycle, PlanForceAbsent).
OnlyActivePresent ==
    \A t \in Target : \A g \in 1 .. gen[t] :
        access[t][g].state = "PRESENT" => life = "ACTIVE" /\ ~access[t][g].retired

\* No paying customer is cut off and nobody gets more than he paid for: while
\* the subscription runs and no manifest waits for its job, the accesses are
\* the fleet's targets, and PRESENT wherever the quota allows.
SetIsTopology ==
    (life = "ACTIVE" /\ clock < expires /\ ~drifted) =>
        \A t \in Target :
            /\ Exists(t) <=> InFleet(t)
            /\ InFleet(t) =>
                  /\ Newest(t).egress = topology[t]
                  /\ (Newest(t).state = "PRESENT")
                        <=> ~IsQuotaExhausted(total[EntryNode[t]], quota)

\* Every moment since the first period lies in exactly one period: traffic
\* collected at any time finds its period (quota_periods.sql).
Beginnings == {p.from : p \in closed} \cup ({opened} \ {Nobody})
PeriodsPartition ==
    /\ opened # Nobody <=> life # "DELETED"
    /\ \A m \in 0 .. clock :
          (\E b \in Beginnings : b <= m) =>
              Cardinality({p \in closed : p.from <= m /\ m < p.to})
                + (IF opened <= m THEN 1 ELSE 0) = 1

\* A customer is erased only when every row, of every generation, is confirmed
\* ABSENT and no operation is queued or on its way, and the pause is over.
ErasedOnlyWhenSettled ==
    [][(life = "DELETING" /\ life' = "DELETED") => Ready /\ eraseAfter <= clock]_vars

\* What the customer service sees of all this is a Subscription.
Granted == \E t \in Target, g \in Gen : access[t][g].state = "PRESENT"
Service == INSTANCE Subscription WITH until <- expires, granted <- Granted

\* Commands arriving in any order, repeated, from several connections and
\* between the steps of the workers act as one stream of increasing numbers.
ImplementsSubscription == Service!Spec

\* customer.proto, API.md: Delete does not answer COMPLETED before the absence is
\* confirmed and the data is erased; here for a Delete no newer command overtook.
CompletedMeansErased ==
    [][reply' = "COMPLETED" =>
          \/ life' = "DELETED" /\ \A t \in Target : gen'[t] = 0
          \/ \E c \in Caller : request[c] # Idle /\ request'[c] = Idle
                               /\ IsStale(request[c].cmd)]_vars

\* An expired customer loses his accesses unless he renews.
ExpiredIsWithdrawn ==
    (life = "ACTIVE" /\ expires <= clock /\ HasPresent)
        ~> (~HasPresent \/ clock < expires)

\* PENDING promises that the link will appear by itself (LinkStatusOf): it never
\* stays PENDING, it becomes READY or there is a reason why not.
PromiseKept == \A t \in Target : Promised(t) ~> ~Promised(t)

\* Somebody must act before the deletion can go on: an operation ended without
\* confirming its row, or its node left the manifest and answers no more.
Stuck ==
    \E t \in Target, g \in Gen :
        \/ access[t][g].op = "none" /\ access[t][g].apply # "APPLIED"
        \/ access[t][g].op # "none" /\ EntryNode[t] \notin live

\* OPERATIONS.md: a deletion that does not end has an operation to look for,
\* one that waits, is on its way or has failed.
UnsettledHasOperation ==
    life = "DELETING" =>
        \A t \in Target : \A g \in 1 .. gen[t] :
            LET row == access[t][g]
            IN  ~Settled(row) => row.op # "none" \/ row.stray \/ row.apply = "FAILED"

\* A deletion ends, as far as the agents of the manifest (and the bound on the
\* clock) allow.
DeletionEnds ==
    life = "DELETING" ~> (life = "DELETED" \/ Stuck \/ eraseAfter > MaxTime)

=============================================================================
