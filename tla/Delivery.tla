------------------------------ MODULE Delivery ------------------------------
(***************************************************************************)
(* How SpiritVPN brings a node to its desired state: the rows of           *)
(* vpn_accesses and vpn_nodes, the outbox agent_operations, the dispatch   *)
(* workers that deliver one operation at a time, the reconcile worker that *)
(* sends a node its whole set, and the agents that execute both.           *)
(*                                                                         *)
(* An access is rewritten in versions.  A version's desired tuple (a       *)
(* configuration, or Absent) never changes once written, so the model      *)
(* keeps goal[a][v] for every version v, names the operation that carries  *)
(* it by the pair (a, v), and lets users[a] be the version whose state the *)
(* node of a now holds.                                                    *)
(*                                                                         *)
(* Customer commands and background jobs appear here through what they     *)
(* write, one access at a time.  A real transaction writes the accesses of *)
(* one customer together; every intermediate state the model adds is one   *)
(* in which some accesses are not yet rewritten.                           *)
(***************************************************************************)
EXTENDS Naturals

CONSTANTS
    Access,           \* rows of vpn_accesses, one per customer and target
    Node,             \* rows of vpn_nodes
    EntryNode,        \* entry_node_id of an access, never rewritten
    Worker,           \* dispatch goroutines
    Reconciler,       \* reconcile goroutines (one per replica)
    Config,           \* what ENSURE_PRESENT may ask for (egress_key)
    Absent,           \* what ENSURE_ABSENT asks for
    Free,             \* reconcile_lease_owner IS NULL
    MaxVersion,       \* bound on desired_version
    MaxEvents,        \* bound on the number of disturbances in a behaviour
    Events,           \* the disturbances a run allows
    LeaseCoversCall   \* no worker is still busy when its lease runs out

Disturbance ==
    {"lapse", "retire", "repoint", "drop", "crash", "fail", "late", "lose", "overtake"}

ASSUME DeliveryAssumption ==
    /\ EntryNode \in [Access -> Node]
    /\ MaxVersion \in Nat \ {0}
    /\ MaxEvents \in Nat
    /\ Events \subseteq Disturbance
    /\ LeaseCoversCall \in BOOLEAN
    /\ Absent \notin Config
    /\ Config # {}
    /\ Free \notin Reconciler

VARIABLES
    version,          \* desired_version; 0 while the row does not exist
    goal,             \* the desired tuple each version carries
    egress,           \* the configuration the topology asks for
    applyState,       \* apply_state
    retired,          \* retired_at IS NOT NULL
    entitled,         \* customer ACTIVE, not expired, node quota not exhausted
    status,           \* agent_operations.status of (access, version)
    revision,         \* desired_revision of a node
    current,          \* the node is in the manifest
    needsBootstrap,   \* needs_bootstrap, as last reported
    reconcileLease,   \* holder of the node's reconcile lease
    task,             \* what each dispatch worker is doing
    rec,              \* what each reconciler is doing
    users,            \* the version whose state the node holds; 0: no user
    reached,          \* history: the highest version the agent ever executed
    lost,             \* the agent lost its state and waits for a full set
    wire,             \* requests whose caller gave up and which may still run
    budget            \* disturbances left

rowVars   == <<version, goal, egress, applyState, retired, entitled, status>>
nodeVars  == <<revision, current, needsBootstrap, reconcileLease>>
agentVars == <<users, reached, lost>>
vars == <<rowVars, nodeVars, agentVars, task, rec, wire, budget>>

Version    == 1 .. MaxVersion
Desired    == Config \cup {Absent}
Waiting    == {"PENDING", "RETRY_WAIT"}
Open       == Waiting \cup {"IN_FLIGHT"}
Terminal   == {"SUCCEEDED", "FAILED_PERMANENT", "SUPERSEDED"}
OpStatus   == Open \cup Terminal
ApplyState == {"PENDING", "RETRYING", "APPLIED", "FAILED"}
Outcome    == {"SUCCEEDED", "RETRYABLE", "PERMANENT"}

On(n) == {a \in Access : EntryNode[a] = n}

Idle == [pc |-> "idle"]
Task ==
    {Idle}
      \cup [pc : {"reaping", "leased", "calling"}, access : Access,
            version : Version, seen : 0 .. MaxVersion]
      \cup [pc : {"answered"}, access : Access, version : Version,
            outcome : Outcome]

\* A full set names, for every access of the node, the version it asserts:
\* 0 means "left out although its row says PRESENT".
FullSet == [Access -> 0 .. MaxVersion]
Rec ==
    {Idle}
      \cup [pc : {"claiming", "releasing"}, node : Node]
      \cup [pc : {"claimed", "calling", "answered"}, node : Node,
            revision : Nat, set : FullSet, boot : BOOLEAN]

Request ==
    [kind : {"op"}, access : Access, version : Version]
      \cup [kind : {"set"}, node : Node, set : FullSet]

TypeOK ==
    /\ version \in [Access -> 0 .. MaxVersion]
    /\ goal \in [Access -> [Version -> Desired]]
    /\ egress \in [Access -> Config]
    /\ applyState \in [Access -> ApplyState]
    /\ retired \in [Access -> BOOLEAN]
    /\ entitled \in [Access -> BOOLEAN]
    /\ status \in [Access -> [Version -> OpStatus \cup {"NONE"}]]
    /\ revision \in [Node -> Nat]
    /\ current \in [Node -> BOOLEAN]
    /\ needsBootstrap \in [Node -> BOOLEAN]
    /\ reconcileLease \in [Node -> Reconciler \cup {Free}]
    /\ task \in [Worker -> Task]
    /\ rec \in [Reconciler -> Rec]
    /\ users \in [Access -> 0 .. MaxVersion]
    /\ reached \in [Access -> 0 .. MaxVersion]
    /\ lost \in [Node -> BOOLEAN]
    /\ wire \subseteq Request
    /\ budget \in 0 .. MaxEvents

Init ==
    /\ version = [a \in Access |-> 0]
    /\ goal = [a \in Access |-> [v \in Version |-> Absent]]
    /\ egress \in [Access -> Config]
    /\ applyState = [a \in Access |-> "APPLIED"]
    /\ retired = [a \in Access |-> FALSE]
    /\ entitled \in [Access -> BOOLEAN]
    /\ status = [a \in Access |-> [v \in Version |-> "NONE"]]
    /\ revision = [n \in Node |-> 0]
    /\ current = [n \in Node |-> TRUE]
    /\ needsBootstrap = [n \in Node |-> FALSE]
    /\ reconcileLease = [n \in Node |-> Free]
    /\ task = [w \in Worker |-> Idle]
    /\ rec = [r \in Reconciler |-> Idle]
    /\ users = [a \in Access |-> 0]
    /\ reached = [a \in Access |-> 0]
    /\ lost = [n \in Node |-> TRUE]
    /\ wire = {}
    /\ budget = MaxEvents

-----------------------------------------------------------------------------
(* What a state says. *)

At(a, v) == IF v = 0 THEN Absent ELSE goal[a][v]
Wanted(a) == At(a, version[a])
Holds(a) == At(a, users[a])

\* What a full set would make of the access: ListNodeDesiredUsers leaves out
\* a lapsed customer whatever desired_state says.
Due(a) ==
    IF Wanted(a) # Absent /\ ~retired[a] /\ ~entitled[a] THEN 0 ELSE version[a]

InFlightOn(n) == \E a \in On(n), v \in Version : status[a][v] = "IN_FLIGHT"

\* A live worker still stands behind the lease of (a, v).
Held(a, v) ==
    \E w \in Worker :
        /\ task[w].pc \in {"leased", "calling", "answered"}
        /\ task[w].access = a
        /\ task[w].version = v

LeaseExpiredEarly(a, v) == status[a][v] = "IN_FLIGHT"
LeaseExpired(a, v) ==
    /\ status[a][v] = "IN_FLIGHT"
    /\ LeaseCoversCall => ~Held(a, v)

\* SupersedeStaleOperations leaves what is already on its way alone.
OvertakeSent(s)   == IF s \in Open THEN "SUPERSEDED" ELSE s
OvertakeAll(s)    == IF s \notin {"NONE", "IN_FLIGHT"} THEN "SUPERSEDED" ELSE s
OvertakeFailed(s) == IF s = "RETRY_WAIT" THEN "SUPERSEDED" ELSE s
Overtake(s)       == IF s \in Waiting THEN "SUPERSEDED" ELSE s

Spend(e) ==
    /\ e \in Events
    /\ budget > 0
    /\ budget' = budget - 1

-----------------------------------------------------------------------------
(* Writers of desired state: commands, expiry, usage, materialization. *)

\* One change of the desired tuple, with its outbox row in the same
\* transaction.  Without an operation (nowhere or nothing to deliver) the new
\* version is declared applied and the node keeps its desired_revision.
Rewrite(a, d, issue) ==
    LET v == version[a] + 1
    IN  /\ version[a] < MaxVersion
        /\ version' = [version EXCEPT ![a] = v]
        /\ goal' = [goal EXCEPT ![a][v] = d]
        /\ applyState' =
              [applyState EXCEPT ![a] = IF issue THEN "PENDING" ELSE "APPLIED"]
        /\ status' = [status EXCEPT ![a] =
              [x \in Version |->
                  IF x = v /\ issue THEN "PENDING" ELSE Overtake(@[x])]]
        /\ revision' = [revision EXCEPT ![EntryNode[a]] =
              IF issue THEN @ + 1 ELSE @]
        /\ UNCHANGED <<current, needsBootstrap, reconcileLease, agentVars, task,
                       rec, wire>>

\* The last version is kept for the expiry worker, which must always be able
\* to withdraw an access.
HasRoom(a) == version[a] + 1 < MaxVersion

Live(a) == version[a] > 0 /\ ~retired[a]

Insert(a) ==
    /\ version[a] = 0
    /\ current[EntryNode[a]]
    /\ Rewrite(a, IF entitled[a] THEN egress[a] ELSE Absent, entitled[a])
    /\ UNCHANGED <<egress, retired, entitled, budget>>

\* Renewal, a raised quota, an unblock: the access becomes due again.
Enable(a) ==
    /\ Live(a) /\ HasRoom(a)
    /\ current[EntryNode[a]]
    /\ Wanted(a) = Absent
    /\ entitled' = [entitled EXCEPT ![a] = TRUE]
    /\ Rewrite(a, egress[a], TRUE)
    /\ UNCHANGED <<egress, retired, budget>>

\* A renewal that commits before the expiry worker reached the customer:
\* desired_state is still PRESENT, so the plan holds no change for the access.
RenewInTime(a) ==
    /\ Live(a)
    /\ Wanted(a) # Absent
    /\ ~entitled[a]
    /\ entitled' = [entitled EXCEPT ![a] = TRUE]
    /\ UNCHANGED <<version, goal, egress, applyState, retired, status, nodeVars,
                   agentVars, task, rec, wire, budget>>

\* expires_at passes; nothing is written.
Lapse(a) ==
    /\ Live(a)
    /\ entitled[a]
    /\ Spend("lapse")
    /\ entitled' = [entitled EXCEPT ![a] = FALSE]
    /\ UNCHANGED <<version, goal, egress, applyState, retired, status, nodeVars,
                   agentVars, task, rec, wire>>

Expire(a) ==
    /\ Live(a)
    /\ Wanted(a) # Absent
    /\ ~entitled[a]
    /\ Rewrite(a, Absent, TRUE)
    /\ UNCHANGED <<egress, retired, entitled, budget>>

\* The usage worker or a lowered quota: exhausted_at and the change together.
Exhaust(a) ==
    /\ Live(a) /\ HasRoom(a)
    /\ Wanted(a) # Absent
    /\ entitled[a]
    /\ entitled' = [entitled EXCEPT ![a] = FALSE]
    /\ Rewrite(a, Absent, TRUE)
    /\ UNCHANGED <<egress, retired, budget>>

\* Block and delete: every access of the customer, retired ones included.
ForceAbsent(a) ==
    /\ version[a] > 0 /\ HasRoom(a)
    /\ entitled' = [entitled EXCEPT ![a] = FALSE]
    /\ Rewrite(a, Absent, current[EntryNode[a]])
    /\ UNCHANGED <<egress, retired, budget>>

\* The target left the manifest.
Retire(a) ==
    /\ Live(a) /\ HasRoom(a)
    /\ Spend("retire")
    /\ retired' = [retired EXCEPT ![a] = TRUE]
    /\ Rewrite(a, Absent, current[EntryNode[a]] /\ Wanted(a) # Absent)
    /\ UNCHANGED <<egress, entitled>>

\* The bridge of the target got another egress_tag.
Repoint(a) ==
    /\ Live(a) /\ HasRoom(a)
    /\ current[EntryNode[a]]
    /\ Spend("repoint")
    /\ \E c \in Config \ {egress[a]} :
          /\ egress' = [egress EXCEPT ![a] = c]
          /\ Rewrite(a, IF entitled[a] THEN c ELSE Absent, TRUE)
    /\ UNCHANGED <<retired, entitled>>

\* The manifest drops a node, or brings it back.
Drop(n) ==
    /\ current[n]
    /\ Spend("drop")
    /\ current' = [current EXCEPT ![n] = FALSE]
    /\ UNCHANGED <<rowVars, revision, needsBootstrap, reconcileLease, agentVars,
                   task, rec, wire>>

Restore(n) ==
    /\ ~current[n]
    /\ current' = [current EXCEPT ![n] = TRUE]
    /\ UNCHANGED <<rowVars, revision, needsBootstrap, reconcileLease, agentVars,
                   task, rec, wire, budget>>

-----------------------------------------------------------------------------
(* The agent. *)

\* One request of a dispatch worker takes effect.
Execute(a, v) ==
    /\ users' = [users EXCEPT ![a] = v]
    /\ reached' = [reached EXCEPT ![a] = IF v > @ THEN v ELSE @]
    /\ UNCHANGED lost

\* The part of a full set that concerns the accesses in `part' takes effect.
\* Only a complete one ends the bootstrap.
ExecuteSet(n, set, part) ==
    /\ users' = [a \in Access |-> IF a \in part THEN set[a] ELSE users[a]]
    /\ reached' = [a \in Access |->
          IF a \in part /\ set[a] > reached[a] THEN set[a] ELSE reached[a]]
    /\ lost' = IF part = On(n) THEN [lost EXCEPT ![n] = FALSE] ELSE lost

\* A request whose caller is gone takes effect after all.
ArriveLate ==
    \E m \in wire :
        /\ wire' = wire \ {m}
        /\ \/ m.kind = "op" /\ Execute(m.access, m.version)
           \/ m.kind = "set" /\ ExecuteSet(m.node, m.set, On(m.node))
        /\ UNCHANGED <<rowVars, nodeVars, task, rec, budget>>

Lose(n) ==
    /\ ~lost[n]
    /\ Spend("lose")
    /\ lost' = [lost EXCEPT ![n] = TRUE]
    /\ users' = [a \in Access |-> IF a \in On(n) THEN 0 ELSE users[a]]
    /\ UNCHANGED <<rowVars, nodeVars, reached, task, rec, wire>>

\* The usage worker stores what the agent last said about itself.
PullReports(n) ==
    /\ current[n]
    /\ needsBootstrap[n] # lost[n]
    /\ needsBootstrap' = [needsBootstrap EXCEPT ![n] = lost[n]]
    /\ UNCHANGED <<rowVars, revision, current, reconcileLease, agentVars, task,
                   rec, wire, budget>>

-----------------------------------------------------------------------------
(* The dispatch workers. *)

SetTask(w, t) == task' = [task EXCEPT ![w] = t]
SetStatus(a, v, s) == status' = [status EXCEPT ![a][v] = s]
NodeOf(w) == EntryNode[task[w].access]

\* The reaper is one statement, yet the access row is read from its snapshot
\* and the verdict written later: a command may commit in between.
BeginReap(w) ==
    /\ task[w] = Idle
    /\ \E a \in Access, v \in Version :
          /\ LeaseExpired(a, v)
          /\ SetTask(w, [pc |-> "reaping", access |-> a, version |-> v,
                         seen |-> version[a]])
    /\ UNCHANGED <<rowVars, nodeVars, agentVars, rec, wire, budget>>

EndReap(w) ==
    LET a == task[w].access
        v == task[w].version
    IN  /\ task[w].pc = "reaping"
        /\ IF LeaseExpired(a, v)
           THEN SetStatus(a, v,
                    IF task[w].seen > v THEN "SUPERSEDED" ELSE "RETRY_WAIT")
           ELSE UNCHANGED status
        /\ SetTask(w, Idle)
        /\ UNCHANGED <<version, goal, egress, applyState, retired, entitled,
                       nodeVars, agentVars, rec, wire, budget>>

\* The gate row keeps out of a running reconcile; the partial unique index
\* lets one operation per node be IN_FLIGHT.
Gate(n) == reconcileLease[n] = Free /\ ~InFlightOn(n)

LeaseNext(w, a) ==
    /\ task[w] = Idle
    /\ Gate(EntryNode[a])
    /\ \E v \in Version :
          /\ status[a][v] \in Waiting
          /\ SetStatus(a, v, "IN_FLIGHT")
          /\ SetTask(w, [pc |-> "leased", access |-> a, version |-> v,
                         seen |-> version[a]])
    /\ UNCHANGED <<version, goal, egress, applyState, retired, entitled,
                   nodeVars, agentVars, rec, wire, budget>>

Answered(w, o) ==
    SetTask(w, [pc |-> "answered", access |-> task[w].access,
                version |-> task[w].version, outcome |-> o])

\* Checked before the call: a newer version of the access makes it pointless.
NeverOutdated(w) == FALSE
Outdated(w) == task[w].seen > task[w].version

\* A credential that does not open makes ENSURE_PRESENT impossible.
Deliver(w) ==
    LET a == task[w].access
        v == task[w].version
    IN  /\ task[w].pc = "leased"
        /\ \/ /\ Outdated(w)
              /\ Answered(w, "RETRYABLE")
              /\ UNCHANGED budget
           \/ /\ ~Outdated(w)
              /\ SetTask(w, [task[w] EXCEPT !.pc = "calling"])
              /\ UNCHANGED budget
           \/ /\ ~Outdated(w) /\ goal[a][v] # Absent
              /\ Spend("fail")
              /\ Answered(w, "RETRYABLE")
        /\ UNCHANGED <<rowVars, nodeVars, agentVars, rec, wire>>

Succeed(w) ==
    /\ task[w].pc = "calling"
    /\ Execute(task[w].access, task[w].version)
    /\ Answered(w, "SUCCEEDED")
    /\ UNCHANGED <<rowVars, nodeVars, rec, wire, budget>>

Refuse(w) ==
    /\ task[w].pc = "calling"
    /\ Spend("fail")
    /\ \E o \in {"RETRYABLE", "PERMANENT"} : Answered(w, o)
    /\ UNCHANGED <<rowVars, nodeVars, agentVars, rec, wire>>

\* The answer is lost after the agent did the work, or the caller stops
\* waiting while the request is still on its way.
GiveUp(w) ==
    LET a == task[w].access
        v == task[w].version
    IN  /\ task[w].pc = "calling"
        /\ Answered(w, "RETRYABLE")
        /\ \/ Spend("fail") /\ Execute(a, v) /\ UNCHANGED wire
           \/ /\ Spend("late")
              /\ wire' = wire \cup {[kind |-> "op", access |-> a, version |-> v]}
              /\ UNCHANGED agentVars
        /\ UNCHANGED <<rowVars, nodeVars, rec>>

PlannedStateMixed(o) ==
    CASE o = "SUCCEEDED" -> "APPLIED"
      [] o = "PERMANENT" -> "FAILED_PERMANENT"
      [] o = "RETRYABLE" -> "RETRYING"
PlannedState(o) ==
    CASE o = "SUCCEEDED" -> "APPLIED"
      [] o = "PERMANENT" -> "FAILED"
      [] o = "RETRYABLE" -> "RETRYING"

\* An operation of an overtaken version is not repeated; a final outcome is
\* kept, the journal stays true.
PlannedStatus(o, fresh) ==
    CASE o = "SUCCEEDED" -> "SUCCEEDED"
      [] o = "PERMANENT" -> "FAILED_PERMANENT"
      [] o = "RETRYABLE" -> IF fresh THEN "RETRY_WAIT" ELSE "SUPERSEDED"

AlwaysFresh(a, v) == TRUE
Fresh(a, v) == version[a] = v

\* The second transaction trusts the lease taken in the first: it checks the
\* version of the access, not the status of the operation.
Record(w) ==
    LET a == task[w].access
        v == task[w].version
        o == task[w].outcome
    IN  /\ task[w].pc = "answered"
        /\ applyState' = [applyState EXCEPT ![a] =
              IF Fresh(a, v) THEN PlannedState(o) ELSE @]
        /\ SetStatus(a, v, PlannedStatus(o, Fresh(a, v)))
        /\ SetTask(w, Idle)
        /\ UNCHANGED <<version, goal, egress, retired, entitled, nodeVars,
                       agentVars, rec, wire, budget>>

\* The process dies, or its context is cancelled: nothing is recorded.
Crash(w) ==
    /\ task[w] # Idle
    /\ Spend("crash")
    /\ SetTask(w, Idle)
    /\ \/ UNCHANGED wire
       \/ /\ task[w].pc = "calling" /\ "late" \in Events
          /\ wire' = wire \cup {[kind |-> "op", access |-> task[w].access,
                                 version |-> task[w].version]}
    /\ UNCHANGED <<rowVars, nodeVars, agentVars, rec>>

-----------------------------------------------------------------------------
(* The reconcile worker. *)

SetRec(r, t) == rec' = [rec EXCEPT ![r] = t]

ClaimableTwice(n) == current[n]
Claimable(n) == current[n] /\ reconcileLease[n] = Free

\* Whether an operation is IN_FLIGHT is decided on the snapshot of the claiming
\* statement; the node row, locked after that, is what it re-reads.
ClaimSnapshot(r, n) ==
    /\ rec[r] = Idle
    /\ Claimable(n)
    /\ ~InFlightOn(n)
    /\ SetRec(r, [pc |-> "claiming", node |-> n])
    /\ UNCHANGED <<rowVars, nodeVars, agentVars, task, wire, budget>>

\* The row was taken or changed meanwhile, or a lease that is just being
\* written holds it and SKIP LOCKED passes it over.
ClaimLost(r) ==
    /\ rec[r].pc = "claiming"
    /\ LET n == rec[r].node
       IN  ~Claimable(n) \/ InFlightOn(n)
    /\ SetRec(r, Idle)
    /\ UNCHANGED <<rowVars, nodeVars, agentVars, task, wire, budget>>

ClaimCommit(r) ==
    LET n == rec[r].node
    IN  /\ rec[r].pc = "claiming"
        /\ Claimable(n)
        /\ IF InFlightOn(n) THEN Spend("overtake") ELSE UNCHANGED budget
        /\ reconcileLease' = [reconcileLease EXCEPT ![n] = r]
        /\ SetRec(r, [pc |-> "claimed", node |-> n, revision |-> revision[n],
                      set |-> [a \in Access |-> IF a \in On(n) THEN Due(a) ELSE 0],
                      boot |-> needsBootstrap[n]])
        /\ UNCHANGED <<rowVars, revision, current, needsBootstrap, agentVars,
                       task, wire>>

Stop(r) == SetRec(r, [pc |-> "releasing", node |-> rec[r].node])
DriftedMissing(r) ==
    \E a \in On(rec[r].node) :
        At(a, rec[r].set[a]) # Absent /\ Holds(a) # At(a, rec[r].set[a])
Drifted(r) == \E a \in On(rec[r].node) : Holds(a) # At(a, rec[r].set[a])

\* needs_bootstrap forces the full set; otherwise the inventory decides.  An
\* unreadable configuration or credential, an agent that does not answer and
\* an unusable observation all end the step without a call.
Observe(r) ==
    /\ rec[r].pc = "claimed"
    /\ \/ /\ rec[r].boot \/ Drifted(r)
          /\ SetRec(r, [rec[r] EXCEPT !.pc = "calling"])
          /\ UNCHANGED budget
       \/ /\ ~rec[r].boot /\ ~Drifted(r)
          /\ Stop(r)
          /\ UNCHANGED budget
       \/ Spend("fail") /\ Stop(r)
    /\ UNCHANGED <<rowVars, nodeVars, agentVars, task, wire>>

Reconciled(r) ==
    /\ rec[r].pc = "calling"
    /\ ExecuteSet(rec[r].node, rec[r].set, On(rec[r].node))
    /\ SetRec(r, [rec[r] EXCEPT !.pc = "answered"])
    /\ UNCHANGED <<rowVars, nodeVars, task, wire, budget>>

\* The agent applies users one by one, so a failed call may have applied some;
\* a caller that timed out leaves the whole set on its way.
ReconcileFails(r) ==
    LET n == rec[r].node
    IN  /\ rec[r].pc = "calling"
        /\ Stop(r)
        /\ \/ /\ Spend("fail")
              /\ \E part \in SUBSET On(n) : ExecuteSet(n, rec[r].set, part)
              /\ UNCHANGED wire
           \/ /\ Spend("late")
              /\ wire' = wire \cup {[kind |-> "set", node |-> n, set |-> rec[r].set]}
              /\ UNCHANGED agentVars
        /\ UNCHANGED <<rowVars, nodeVars, task>>

\* The full set satisfied the accesses it listed and those that should be
\* absent: whatever it does not list the agent removes.
SatisfiedListed(r, a) ==
    a \in On(rec[r].node) /\ Live(a) /\ At(a, rec[r].set[a]) # Absent
Satisfied(r, a) ==
    /\ a \in On(rec[r].node) /\ Live(a)
    /\ At(a, rec[r].set[a]) # Absent \/ Wanted(a) = Absent

\* Accepted only if desired_revision did not move since the claim.
AcceptAnyway(r) == TRUE
Acceptable(r) == revision[rec[r].node] = rec[r].revision

Accept(r) ==
    LET n == rec[r].node
    IN  /\ rec[r].pc = "answered"
        /\ Stop(r)
        /\ IF Acceptable(r)
           THEN /\ applyState' = [a \in Access |->
                      IF Satisfied(r, a) THEN "APPLIED" ELSE applyState[a]]
                /\ status' = [a \in Access |-> [v \in Version |->
                      IF a \in On(n) /\ status[a][v] \in Waiting
                      THEN "SUCCEEDED" ELSE status[a][v]]]
           ELSE UNCHANGED <<applyState, status>>
        /\ UNCHANGED <<version, goal, egress, retired, entitled, nodeVars,
                       agentVars, task, wire, budget>>

\* Only one's own lease is released.
Release(r) ==
    LET n == rec[r].node
    IN  /\ rec[r].pc = "releasing"
        /\ reconcileLease' = [reconcileLease EXCEPT ![n] = IF @ = r THEN Free ELSE @]
        /\ SetRec(r, Idle)
        /\ UNCHANGED <<rowVars, revision, current, needsBootstrap, agentVars,
                       task, wire, budget>>

CrashReconciler(r) ==
    /\ rec[r] # Idle
    /\ Spend("crash")
    /\ SetRec(r, Idle)
    /\ \/ UNCHANGED wire
       \/ /\ rec[r].pc = "calling" /\ "late" \in Events
          /\ wire' = wire \cup {[kind |-> "set", node |-> rec[r].node,
                                 set |-> rec[r].set]}
    /\ UNCHANGED <<rowVars, nodeVars, agentVars, task>>

Busy(r, n) ==
    /\ rec[r].pc \in {"claimed", "calling", "answered", "releasing"}
    /\ rec[r].node = n

ReconcileLeaseExpires(n) ==
    /\ reconcileLease[n] # Free
    /\ LeaseCoversCall => ~Busy(reconcileLease[n], n)
    /\ reconcileLease' = [reconcileLease EXCEPT ![n] = Free]
    /\ UNCHANGED <<rowVars, revision, current, needsBootstrap, agentVars, task,
                   rec, wire, budget>>

-----------------------------------------------------------------------------
Customer ==
    \E a \in Access :
        \/ Insert(a) \/ Enable(a) \/ RenewInTime(a) \/ Lapse(a) \/ Exhaust(a)
        \/ ForceAbsent(a) \/ Retire(a) \/ Repoint(a)

Dispatch(w) ==
    \/ BeginReap(w) \/ EndReap(w)
    \/ \E a \in Access : LeaseNext(w, a)
    \/ Deliver(w) \/ Succeed(w) \/ Refuse(w) \/ GiveUp(w) \/ Record(w) \/ Crash(w)

Reconcile(r) ==
    \/ \E n \in Node : ClaimSnapshot(r, n)
    \/ ClaimLost(r) \/ ClaimCommit(r) \/ Observe(r) \/ Reconciled(r)
    \/ ReconcileFails(r) \/ Accept(r) \/ Release(r) \/ CrashReconciler(r)

NodeStep(n) ==
    \/ Drop(n) \/ Restore(n) \/ Lose(n) \/ PullReports(n)
    \/ ReconcileLeaseExpires(n)

Next ==
    \/ Customer
    \/ \E a \in Access : Expire(a)
    \/ \E w \in Worker : Dispatch(w)
    \/ \E r \in Reconciler : Reconcile(r)
    \/ \E n \in Node : NodeStep(n)
    \/ ArriveLate

Spec == Init /\ [][Next]_vars

\* What the code schedules: every loop keeps running, an agent answers once
\* disturbances are over, and a due row is not passed over for ever (both
\* queries order by age).  Customers owe nothing.
Fairness ==
    /\ \A a \in Access :
          /\ WF_vars(Expire(a))
          /\ SF_vars(\E w \in Worker : LeaseNext(w, a))
    /\ \A w \in Worker :
          /\ WF_vars(EndReap(w))
          /\ WF_vars(Deliver(w))
          /\ WF_vars(Succeed(w))
          /\ WF_vars(Record(w))
    /\ WF_vars(\E w \in Worker : BeginReap(w))
    /\ \A n \in Node :
          /\ WF_vars(PullReports(n))
          /\ WF_vars(ReconcileLeaseExpires(n))
          /\ SF_vars(\E r \in Reconciler : ClaimSnapshot(r, n))
    /\ \A r \in Reconciler :
          /\ WF_vars(ClaimLost(r) \/ ClaimCommit(r))
          /\ WF_vars(Observe(r))
          /\ WF_vars(Reconciled(r))
          /\ WF_vars(Accept(r))
          /\ WF_vars(Release(r))

FairSpec == Spec /\ Fairness

-----------------------------------------------------------------------------
(* Properties. *)

\* At most one operation per node is IN_FLIGHT: what the partial unique index
\* agent_operations_single_in_flight_per_node gives, and what the proofs start from.
OneInFlightPerNode ==
    \A a, b \in Access, v, x \in Version :
        /\ status[a][v] = "IN_FLIGHT" /\ status[b][x] = "IN_FLIGHT"
        /\ EntryNode[a] = EntryNode[b]
        => a = b /\ v = x

\* The outbox never promises an outdated state: an operation that was not yet
\* sent carries the version its access has now.  Every writer therefore has to
\* supersede what it overtakes.
PendingIsCurrent ==
    \A a \in Access, v \in Version : status[a][v] = "PENDING" => v = version[a]

Calling(w, n) == task[w].pc = "calling" /\ NodeOf(w) = n

\* Two workers never talk to one node at a time.  The IN_FLIGHT row, not a
\* lock, keeps them apart across the network call.
CallsSerialized ==
    LeaseCoversCall =>
        \A u, w \in Worker, n \in Node : Calling(u, n) /\ Calling(w, n) => u = w

\* A worker that has not recorded its outcome still owns an IN_FLIGHT row, so
\* record, which looks at nothing but the version, overwrites only its own.
WorkerOwnsItsOperation ==
    LeaseCoversCall =>
        \A w \in Worker :
            task[w].pc \in {"leased", "calling", "answered"} =>
                status[task[w].access][task[w].version] = "IN_FLIGHT"

\* A journal entry is final.
TerminalStays ==
    [][\A a \in Access, v \in Version :
          status[a][v] \in Terminal => status'[a][v] = status[a][v]]_vars

\* APPLIED, for a version that had an operation, was confirmed by the node:
\* the agent has executed that version, alone or within a full set.
AppliedWasExecuted ==
    \A a \in Access :
        /\ version[a] > 0 /\ applyState[a] = "APPLIED"
        /\ status[a][version[a]] # "NONE"
        => reached[a] >= version[a]

\* SUCCEEDED means the agent confirmed the state the operation asks for, or a
\* later one.
SucceededWasExecuted ==
    \A a \in Access, v \in Version :
        status[a][v] = "SUCCEEDED" => reached[a] >= v

\* An access whose delivery is not confirmed always has an operation that will
\* deliver its current version.
NoLostWork ==
    \A a \in Access :
        applyState[a] \in {"PENDING", "RETRYING"} =>
            status[a][version[a]] \in Open

\* What APPLIED claims is what the node holds, unless the agent has lost its
\* state and said so.
AppliedIsTrue ==
    \A a \in Access :
        applyState[a] = "APPLIED" /\ ~lost[EntryNode[a]] => Holds(a) = Wanted(a)

\* A node never goes back to an older version of an access: retries, reaped
\* leases and full sets claimed earlier do not undo newer work.
NeverBackwards ==
    [][\A a \in Access : users'[a] \in {users[a], 0} \/ users'[a] > users[a]]_vars

\* While a full set is on its way to a node nobody else talks to it, neither a
\* dispatch worker nor the reconciler of another replica.
Fence ==
    \A r \in Reconciler :
        rec[r].pc = "calling" =>
            /\ \A w \in Worker : ~Calling(w, rec[r].node)
            /\ \A q \in Reconciler \ {r} :
                  ~(rec[q].pc = "calling" /\ rec[q].node = rec[r].node)

\* A retired access that counts as applied is gone from its node.
RetiredIsGone ==
    \A a \in Access :
        retired[a] /\ applyState[a] = "APPLIED" /\ current[EntryNode[a]]
        => Holds(a) = Absent

\* Where everything settles: the desired tuple, and nothing for customers that
\* lost their right.
Final(a) == IF Live(a) /\ entitled[a] THEN Wanted(a) ELSE Absent

\* Once customers and disturbances are quiet, every node of the manifest holds
\* exactly what it should and keeps holding it.
Converges ==
    <>[](\A a \in Access : current[EntryNode[a]] => Holds(a) = Final(a))

\* What the writers of desired state see of all this is a Provisioning: the
\* states an operation goes through before it ends are one.
ClaimOf(a)    == IF applyState[a] \in {"PENDING", "RETRYING"} THEN "OPEN" ELSE applyState[a]
Journal(a, v) == IF status[a][v] \in Open THEN "OPEN" ELSE status[a][v]
Outcomes      == [a \in Access |-> ClaimOf(a)]
Journals      == [a \in Access |-> [v \in Version |-> Journal(a, v)]]

Provision == INSTANCE Provisioning WITH
    outcome <- Outcomes, journal <- Journals, held <- users, executed <- reached

\* Whoever leases, fails, crashes or reconciles, delivery provisions the nodes:
\* they execute versions in their order, and only what they executed is ever
\* confirmed.
ImplementsProvisioning == Provision!Spec

=============================================================================
