------------------------------ MODULE Rollout ------------------------------
(***************************************************************************)
(* What taking a manifest promises.  The topology is the newest accepted   *)
(* snapshot, as a whole; a routing key keeps the pair of nodes it was      *)
(* given, for ever.  Every customer there is becomes due and is carried to *)
(* the new topology; meanwhile what he has may be a mixture, but nobody    *)
(* who differs from the topology ever ceases to be due.  There are no      *)
(* rows, jobs, cursors, leases, locks or transactions here.                *)
(***************************************************************************)
EXTENDS Integers

CONSTANTS Customer, FleetOf, Node, Request

VARIABLES
    revision,   \* of the newest accepted manifest
    topology,   \* its content
    pairs,      \* the pair of nodes every routing key ever had
    due,        \* whom the topology has still to reach
    life, paid, \* the customers, and who has an unexpired term
    grace,      \* whose step of the rollout began in an unexpired term
    holds       \* the targets a customer may use

infraVars == <<revision, topology, pairs>>
rolloutVars == <<due, grace>>
customerVars == <<life, paid, holds>>
vars == <<infraVars, rolloutVars, customerVars>>

Nothing == [nodes |-> {}, fleets |-> {}, members |-> {}, routes |-> {}]

Init ==
    /\ revision = 0
    /\ topology = Nothing
    /\ pairs = {}
    /\ due = {}
    /\ grace = {}
    /\ life = [c \in Customer |-> "none"]
    /\ paid = [c \in Customer |-> FALSE]
    /\ holds = [c \in Customer |-> {}]

-----------------------------------------------------------------------------
(* Snapshots *)

SameKey(x, y)  == x.fleet = y.fleet /\ x.key = y.key
SameEnds(x, y) == x.entry = y.entry /\ x.exit = y.exit
PairOf(b) == [fleet |-> b.fleet, key |-> b.key, entry |-> b.entry, exit |-> b.exit]

\* Members and bridges name what there is, and a key or a pair is named once.
Sound(s) ==
    /\ \A m \in s.members : m.fleet \in s.fleets /\ m.node \in s.nodes
    /\ \A b \in s.routes :
         /\ b.entry # b.exit
         /\ \A n \in {b.entry, b.exit} : [fleet |-> b.fleet, node |-> n] \in s.members
    /\ \A b, d \in s.routes :
         b.fleet = d.fleet /\ (SameKey(b, d) \/ SameEnds(b, d)) => b = d

KeepsPairs(s) == \A b \in s.routes, k \in pairs : SameKey(b, k) => SameEnds(b, k)

TakesNothing(s) ==
    /\ topology.nodes \subseteq s.nodes
    /\ topology.members \subseteq s.members
    /\ \A b \in topology.routes : \E d \in s.routes : SameKey(b, d)

Active == {c \in Customer : life[c] = "ACTIVE"}

\* A manifest is taken as a whole, and everybody is due.
Publish(q) ==
    /\ q.revision > revision
    /\ Sound(q.content)
    /\ KeepsPairs(q.content)
    /\ topology.fleets \subseteq q.content.fleets
    /\ q.destructive \/ TakesNothing(q.content)
    /\ revision' = q.revision
    /\ topology' = q.content
    /\ pairs' = pairs \cup {PairOf(b) : b \in q.content.routes}
    /\ due' = Active
    /\ UNCHANGED <<grace, customerVars>>

-----------------------------------------------------------------------------
(* Carrying the topology to the customers *)

\* What a customer would get who found these nodes in his fleet.
Targets(c, nodes) ==
    {[kind |-> "FREEDOM", key |-> n, egress |-> "direct"] : n \in nodes}
      \cup {[kind |-> "BRIDGE", key |-> b.key, egress |-> b.tag] :
              b \in {x \in topology.routes : x.fleet = FleetOf[c]}}

Promised(c) == Targets(c, {m.node : m \in {x \in topology.members : x.fleet = FleetOf[c]}})

Kept(targets, held) == {t \in targets : \E h \in held : t.kind = h.kind /\ t.key = h.key}

\* An expired customer only keeps.
Carried(targets, held, unexpired) == IF unexpired THEN targets ELSE Kept(targets, held)

\* A command takes nothing away.
Completed(targets, held) == held \cup (targets \ Kept(targets, held))

Differs(c) ==
    /\ life[c] = "ACTIVE"
    /\ IF paid[c] THEN holds[c] # Promised(c) ELSE ~(holds[c] \subseteq Promised(c))

\* Whom the rollout may forget.
Settled(done) == \A d \in done : ~Differs(d)

\* The end of a term is looked up when a step begins.
Begin(c) ==
    /\ life[c] = "ACTIVE" /\ paid[c]
    /\ grace' = grace \cup {c}
    /\ UNCHANGED <<infraVars, due, customerVars>>

MayCount(c, unexpired) ==
    /\ paid[c] => unexpired
    /\ unexpired => paid[c] \/ c \in grace

\* A customer is brought to the topology.
Carry(c, unexpired, done) ==
    /\ life[c] = "ACTIVE"
    /\ MayCount(c, unexpired)
    /\ Settled(done \ {c})
    /\ holds' = [holds EXCEPT ![c] = Carried(Promised(c), @, unexpired)]
    /\ due' = due \ done
    /\ UNCHANGED <<infraVars, life, paid>>

\* He meets the nodes of an older topology, and stays due.
Mix(c, nodes, unexpired) ==
    /\ c \in due
    /\ MayCount(c, unexpired)
    /\ holds' = [holds EXCEPT ![c] = Carried(Targets(c, nodes), @, unexpired)]
    /\ UNCHANGED <<infraVars, due, life, paid>>

\* A step is given up, or meets a customer who left.
Pass(done) ==
    /\ Settled(done)
    /\ due' = due \ done
    /\ UNCHANGED <<infraVars, customerVars>>

-----------------------------------------------------------------------------
(* Commands *)

\* A new customer has what the topology promises, or is due.
Join(c, nodes) ==
    /\ life[c] = "none"
    /\ FleetOf[c] \in topology.fleets
    /\ life' = [life EXCEPT ![c] = "ACTIVE"]
    /\ paid' = [paid EXCEPT ![c] = TRUE]
    /\ holds' = [holds EXCEPT ![c] = Targets(c, nodes)]
    /\ \/ due' = due \cup {c}
       \/ due' = due /\ Targets(c, nodes) = Promised(c)
    /\ UNCHANGED <<infraVars, grace>>

\* Whoever is not due has what the topology promises afterwards, paid or not.
Renew(c, nodes, renewed) ==
    /\ life[c] = "ACTIVE"
    /\ paid' = [paid EXCEPT ![c] = @ \/ renewed]
    /\ holds' = [holds EXCEPT ![c] = IF c \in due THEN Completed(Targets(c, nodes), @)
                                     ELSE Promised(c)]
    /\ UNCHANGED <<infraVars, rolloutVars, life>>

Lapse(c) ==
    /\ life[c] = "ACTIVE" /\ paid[c]
    /\ paid' = [paid EXCEPT ![c] = FALSE]
    /\ UNCHANGED <<infraVars, rolloutVars, life, holds>>

Leave(c) ==
    /\ life[c] = "ACTIVE"
    /\ life' = [life EXCEPT ![c] = "DELETING"]
    /\ due' = due \ {c}
    /\ UNCHANGED <<infraVars, grace, paid, holds>>

Vanish(c) ==
    /\ life[c] = "DELETING"
    /\ life' = [life EXCEPT ![c] = "none"]
    /\ paid' = [paid EXCEPT ![c] = FALSE]
    /\ holds' = [holds EXCEPT ![c] = {}]
    /\ UNCHANGED <<infraVars, rolloutVars>>

-----------------------------------------------------------------------------
Bring(c) ==
    \/ \E unexpired \in BOOLEAN, done \in SUBSET due : Carry(c, unexpired, done)
    \/ \E unexpired \in BOOLEAN, nodes \in SUBSET Node : Mix(c, nodes, unexpired)

Command(c) ==
    \/ \E nodes \in SUBSET Node :
         Join(c, nodes) \/ \E renewed \in BOOLEAN : Renew(c, nodes, renewed)
    \/ Lapse(c) \/ Leave(c) \/ Vanish(c)

Next ==
    \/ \E q \in Request : Publish(q)
    \/ \E c \in Customer : Begin(c) \/ Command(c)
    \/ /\ (\E c \in Customer : Bring(c)) \/ (\E done \in SUBSET due : Pass(done))
       /\ grace' \subseteq grace

Spec == Init /\ [][Next]_vars
=============================================================================
