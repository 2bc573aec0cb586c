---------------------------- MODULE Provisioning ----------------------------
(***************************************************************************)
(* What delivery promises to those who write desired state.  An access is  *)
(* asked for in versions, and its node executes them in their order, maybe *)
(* not all of them.  A version is confirmed only after it was executed,    *)
(* and the journal of its operation is closed once and never reopened.     *)
(* There are no leases, attempts, workers, inventories or full sets here.  *)
(***************************************************************************)
EXTENDS Naturals

CONSTANTS
    Access,
    Node,
    EntryNode,    \* the node of an access
    Version,      \* numbers of versions
    Desired,      \* what a version may ask for
    Absent        \* no user

VARIABLES
    current,      \* the node is in the manifest
    version,      \* the newest version of an access; 0: there is none
    goal,         \* what each version asks for
    outcome,      \* what is claimed of the newest one: OPEN, APPLIED, FAILED
    journal,      \* the operation of each version
    held,         \* the version the node holds; 0: no user
    executed      \* the newest version it has executed

askedVars == <<current, version, goal>>
claimVars == <<outcome, journal>>
nodeVars  == <<held, executed>>
vars == <<askedVars, claimVars, nodeVars>>

Init ==
    /\ current = [n \in Node |-> TRUE]
    /\ version = [a \in Access |-> 0]
    /\ goal = [a \in Access |-> [v \in Version |-> Absent]]
    /\ outcome = [a \in Access |-> "APPLIED"]
    /\ journal = [a \in Access |-> [v \in Version |-> "NONE"]]
    /\ held = [a \in Access |-> 0]
    /\ executed = [a \in Access |-> 0]

-----------------------------------------------------------------------------
(* Asking *)

Manifest(n) ==
    /\ current' = [current EXCEPT ![n] = ~@]
    /\ UNCHANGED <<version, goal, claimVars, nodeVars>>

Unfinished(a) == {v \in Version : journal[a][v] = "OPEN"}

\* A new version, which may overtake operations of older ones.  It needs none
\* if it asks for nothing and there is nobody to tell.
Ask(a, d, silent, overtaken) ==
    LET v == version[a] + 1
    IN  /\ v \in Version
        /\ silent => d = Absent /\ (version[a] = 0 \/ ~current[EntryNode[a]])
        /\ overtaken \subseteq Unfinished(a)
        /\ version' = [version EXCEPT ![a] = v]
        /\ goal' = [goal EXCEPT ![a][v] = d]
        /\ outcome' = [outcome EXCEPT ![a] = IF silent THEN "APPLIED" ELSE "OPEN"]
        /\ journal' = [journal EXCEPT ![a] = [x \in Version |->
              IF x = v THEN IF silent THEN "NONE" ELSE "OPEN"
              ELSE IF x \in overtaken THEN "SUPERSEDED"
              ELSE @[x]]]
        /\ UNCHANGED <<current, nodeVars>>

-----------------------------------------------------------------------------
(* The node *)

\* The node executes versions of some accesses, never an older one than before.
Execute(some, v) ==
    /\ \A a \in some : executed[a] <= v[a] /\ v[a] <= version[a]
    /\ held' = [a \in Access |-> IF a \in some THEN v[a] ELSE held[a]]
    /\ executed' = [a \in Access |-> IF a \in some THEN v[a] ELSE executed[a]]
    /\ UNCHANGED <<askedVars, claimVars>>

Lose(n) ==
    /\ held' = [a \in Access |-> IF EntryNode[a] = n THEN 0 ELSE held[a]]
    /\ UNCHANGED <<askedVars, claimVars, executed>>

-----------------------------------------------------------------------------
(* Claiming *)

\* Operations succeed and accesses count as applied, together, and because the
\* node has executed them.
Confirm(done, ops) ==
    /\ \A a \in done : executed[a] = version[a]
    /\ \A a \in Access :
          /\ \A v \in ops[a] : v <= executed[a]
          /\ version[a] \in Unfinished(a) => (a \in done <=> version[a] \in ops[a])
    /\ outcome' = [a \in Access |-> IF a \in done THEN "APPLIED" ELSE outcome[a]]
    /\ journal' = [a \in Access |-> [v \in Version |->
                     IF v \in ops[a] THEN "SUCCEEDED" ELSE journal[a][v]]]
    /\ UNCHANGED <<askedVars, nodeVars>>

\* The node refuses for good.
Refuse(a, v) ==
    /\ v \in Unfinished(a)
    /\ outcome' = [outcome EXCEPT ![a] = IF v = version[a] THEN "FAILED" ELSE @]
    /\ journal' = [journal EXCEPT ![a][v] = "FAILED_PERMANENT"]
    /\ UNCHANGED <<askedVars, nodeVars>>

Abandon(a, v) ==
    /\ v \in Unfinished(a)
    /\ v < version[a]
    /\ journal' = [journal EXCEPT ![a][v] = "SUPERSEDED"]
    /\ UNCHANGED <<askedVars, outcome, nodeVars>>

-----------------------------------------------------------------------------

Next ==
    \/ \E n \in Node : Manifest(n) \/ Lose(n)
    \/ \E a \in Access :
          \/ \E d \in Desired, silent \in BOOLEAN, overtaken \in SUBSET Unfinished(a) :
                Ask(a, d, silent, overtaken)
          \/ \E v \in Version : Refuse(a, v) \/ Abandon(a, v)
    \/ \E some \in SUBSET Access, v \in [Access -> {0} \cup Version] : Execute(some, v)
    \/ \E done \in SUBSET Access, ops \in [Access -> SUBSET Version] :
          /\ \A a \in Access : ops[a] \subseteq Unfinished(a)
          /\ Confirm(done, ops)

Spec == Init /\ [][Next]_vars

=============================================================================
