--------------------------- MODULE DeliveryProofs ---------------------------
(***************************************************************************)
(* Theorems about Delivery, for every set of accesses, nodes and workers.  *)
(***************************************************************************)
EXTENDS Delivery, TLAPS

-----------------------------------------------------------------------------
(* What the records of the workers are made of. *)

LEMMA TaskFields ==
  ASSUME NEW t \in Task
  PROVE  /\ t.pc # "idle" => t.access \in Access /\ t.version \in Version
         /\ t.pc \in {"reaping", "leased", "calling"} => t.seen \in 0 .. MaxVersion
         /\ t.pc = "answered" => t.outcome \in Outcome
         /\ t.pc \in {"idle", "reaping", "leased", "calling", "answered"}
         /\ t.pc = "leased" => [t EXCEPT !.pc = "calling"] \in Task
<1>1. CASE t = Idle
  BY <1>1 DEF Idle
<1>2. CASE t \in [pc : {"reaping", "leased", "calling"}, access : Access,
                  version : Version, seen : 0 .. MaxVersion]
  <2>1. [t EXCEPT !.pc = "calling"]
          \in [pc : {"reaping", "leased", "calling"}, access : Access,
               version : Version, seen : 0 .. MaxVersion]
    BY <1>2
  <2> QED
    BY <1>2, <2>1 DEF Task
<1>3. CASE t \in [pc : {"answered"}, access : Access, version : Version,
                  outcome : Outcome]
  BY <1>3
<1> QED
  BY <1>1, <1>2, <1>3 DEF Task

LEMMA TaskMade ==
  ASSUME NEW a \in Access, NEW v \in Version
  PROVE  /\ \A p \in {"reaping", "leased", "calling"}, x \in 0 .. MaxVersion :
              [pc |-> p, access |-> a, version |-> v, seen |-> x] \in Task
         /\ \A o \in Outcome :
              [pc |-> "answered", access |-> a, version |-> v, outcome |-> o]
                \in Task
  BY DEF Task

LEMMA RecFields ==
  ASSUME NEW t \in Rec
  PROVE  /\ t.pc # "idle" => t.node \in Node
         /\ t.pc \in {"claimed", "calling", "answered"} =>
              /\ t.revision \in Nat
              /\ t.set \in FullSet
              /\ t.boot \in BOOLEAN
              /\ [t EXCEPT !.pc = "calling"] \in Rec
              /\ [t EXCEPT !.pc = "answered"] \in Rec
         /\ t.pc \in {"idle", "claiming", "releasing", "claimed", "calling", "answered"}
<1>1. CASE t = Idle
  BY <1>1 DEF Idle
<1>2. CASE t \in [pc : {"claiming", "releasing"}, node : Node]
  BY <1>2
<1>3. CASE t \in [pc : {"claimed", "calling", "answered"}, node : Node,
                  revision : Nat, set : FullSet, boot : BOOLEAN]
  <2>1. ASSUME NEW p \in {"calling", "answered"}
        PROVE  [t EXCEPT !.pc = p] \in Rec
    <3>1. [t EXCEPT !.pc = p]
            \in [pc : {"claimed", "calling", "answered"}, node : Node,
                 revision : Nat, set : FullSet, boot : BOOLEAN]
      BY <1>3
    <3> QED
      BY <3>1 DEF Rec
  <2> QED
    BY <1>3, <2>1
<1> QED
  BY <1>1, <1>2, <1>3 DEF Rec

LEMMA RecMade ==
  ASSUME NEW n \in Node
  PROVE  /\ \A p \in {"claiming", "releasing"} : [pc |-> p, node |-> n] \in Rec
         /\ \A i \in Nat, s \in FullSet, b \in BOOLEAN :
              [pc |-> "claimed", node |-> n, revision |-> i, set |-> s, boot |-> b]
                \in Rec
  BY DEF Rec

LEMMA IdleMade == Idle \in Task /\ Idle \in Rec
  BY DEF Task, Rec

LEMMA RequestFields ==
  ASSUME NEW m \in Request
  PROVE  /\ m.kind \in {"op", "set"}
         /\ m.kind = "op" => m.access \in Access /\ m.version \in Version
         /\ m.kind = "set" => m.node \in Node /\ m.set \in FullSet
  BY DEF Request

LEMMA RequestMade ==
  /\ \A a \in Access, v \in Version :
       [kind |-> "op", access |-> a, version |-> v] \in Request
  /\ \A n \in Node, s \in FullSet :
       [kind |-> "set", node |-> n, set |-> s] \in Request
  BY DEF Request

-----------------------------------------------------------------------------
(* Type correctness. *)

LEMMA TypeInit == Init => TypeOK
  BY DeliveryAssumption DEF Init, TypeOK, Version, Desired, ApplyState, Task, Rec

LEMMA TypeSpend == \A e : TypeOK /\ Spend(e) => budget' \in 0 .. MaxEvents
  BY DeliveryAssumption DEF TypeOK, Spend

LEMMA TypeRewrite ==
  ASSUME TypeOK, NEW a \in Access, NEW d \in Desired, NEW i \in BOOLEAN,
         Rewrite(a, d, i)
  PROVE  /\ version' \in [Access -> 0 .. MaxVersion]
         /\ goal' \in [Access -> [Version -> Desired]]
         /\ applyState' \in [Access -> ApplyState]
         /\ status' \in [Access -> [Version -> OpStatus \cup {"NONE"}]]
         /\ revision' \in [Node -> Nat]
         /\ UNCHANGED <<current, needsBootstrap, reconcileLease, agentVars, task,
                        rec, wire>>
<1>1. version' \in [Access -> 0 .. MaxVersion]
  BY DeliveryAssumption DEF TypeOK, Rewrite
<1>2. goal' \in [Access -> [Version -> Desired]]
  BY DEF TypeOK, Rewrite
<1>3. applyState' \in [Access -> ApplyState]
  BY DEF TypeOK, Rewrite, ApplyState
<1>4. status' \in [Access -> [Version -> OpStatus \cup {"NONE"}]]
  BY DEF TypeOK, Rewrite, OpStatus, Open, Waiting, Terminal, Overtake
<1>5. revision' \in [Node -> Nat]
  <2>1. revision' = [revision EXCEPT ![EntryNode[a]] = IF i THEN @ + 1 ELSE @]
    BY DEF Rewrite
  <2> QED
    BY <2>1, DeliveryAssumption DEF TypeOK
<1> QED
  BY <1>1, <1>2, <1>3, <1>4, <1>5 DEF Rewrite

LEMMA TypeExecute ==
  ASSUME TypeOK, NEW a \in Access, NEW v \in Version, Execute(a, v)
  PROVE  /\ users' \in [Access -> 0 .. MaxVersion]
         /\ reached' \in [Access -> 0 .. MaxVersion]
         /\ lost' \in [Node -> BOOLEAN]
  BY DeliveryAssumption DEF TypeOK, Execute, Version

LEMMA TypeExecuteSet ==
  ASSUME TypeOK, NEW n \in Node, NEW s \in FullSet, NEW p \in SUBSET Access,
         ExecuteSet(n, s, p)
  PROVE  /\ users' \in [Access -> 0 .. MaxVersion]
         /\ reached' \in [Access -> 0 .. MaxVersion]
         /\ lost' \in [Node -> BOOLEAN]
  BY DEF TypeOK, ExecuteSet, FullSet

LEMMA TypeSetStatus ==
  ASSUME TypeOK, NEW a \in Access, NEW v \in Version, NEW s \in OpStatus,
         SetStatus(a, v, s)
  PROVE  status' \in [Access -> [Version -> OpStatus \cup {"NONE"}]]
  BY DEF TypeOK, SetStatus

LEMMA TypeTask ==
  ASSUME TypeOK, NEW w \in Worker
  PROVE  /\ task[w] \in Task
         /\ task[w].pc # "idle" => task[w].access \in Access /\ task[w].version \in Version
         /\ task[w].pc = "answered" => task[w].outcome \in Outcome
         /\ task[w].pc = "leased" => [task[w] EXCEPT !.pc = "calling"] \in Task
<1>1. task[w] \in Task
  BY DEF TypeOK
<1> QED
  BY <1>1, TaskFields

LEMMA TypeAnswered ==
  ASSUME TypeOK, NEW w \in Worker, task[w].pc \in {"leased", "calling"},
         NEW o \in Outcome, Answered(w, o)
  PROVE  task' \in [Worker -> Task]
<1>1. [pc |-> "answered", access |-> task[w].access, version |-> task[w].version,
       outcome |-> o] \in Task
  BY TypeTask, TaskMade
<1> QED
  BY <1>1 DEF TypeOK, Answered, SetTask

LEMMA TypeRec ==
  ASSUME TypeOK, NEW r \in Reconciler
  PROVE  /\ rec[r] \in Rec
         /\ rec[r].pc # "idle" =>
              rec[r].node \in Node /\ On(rec[r].node) \in SUBSET Access
         /\ rec[r].pc \in {"claimed", "calling", "answered"} =>
              /\ rec[r].revision \in Nat
              /\ rec[r].set \in FullSet
              /\ [rec[r] EXCEPT !.pc = "calling"] \in Rec
              /\ [rec[r] EXCEPT !.pc = "answered"] \in Rec
<1>1. rec[r] \in Rec
  BY DEF TypeOK
<1> QED
  BY <1>1, RecFields DEF On

LEMMA TypeStop ==
  ASSUME TypeOK, NEW r \in Reconciler, rec[r].pc # "idle", Stop(r)
  PROVE  rec' \in [Reconciler -> Rec]
<1>1. [pc |-> "releasing", node |-> rec[r].node] \in Rec
  BY TypeRec, RecMade
<1> QED
  BY <1>1 DEF Stop, SetRec, TypeOK

LEMMA TypeStep == TypeOK /\ [Next]_vars => TypeOK'
<1> SUFFICES ASSUME TypeOK, [Next]_vars PROVE TypeOK'
  OBVIOUS
<1> USE DEF TypeOK, agentVars, rowVars, nodeVars
<1>1. ASSUME NEW a \in Access, Insert(a) PROVE TypeOK'
  <2>1. /\ (IF entitled[a] THEN egress[a] ELSE Absent) \in Desired
        /\ entitled[a] \in BOOLEAN
    BY DEF Desired
  <2>2. /\ Rewrite(a, IF entitled[a] THEN egress[a] ELSE Absent, entitled[a])
        /\ UNCHANGED <<egress, retired, entitled, budget>>
    BY <1>1 DEF Insert
  <2> QED
    BY <2>1, <2>2, TypeRewrite
<1>2. ASSUME NEW a \in Access, Enable(a) PROVE TypeOK'
  BY <1>2, TypeRewrite DEF Enable, Desired
<1>3. ASSUME NEW a \in Access, RenewInTime(a) PROVE TypeOK'
  BY <1>3 DEF RenewInTime
<1>4. ASSUME NEW a \in Access, Lapse(a) PROVE TypeOK'
  BY <1>4, TypeSpend DEF Lapse
<1>5. ASSUME NEW a \in Access, Exhaust(a) PROVE TypeOK'
  BY <1>5, TypeRewrite DEF Exhaust, Desired
<1>6. ASSUME NEW a \in Access, ForceAbsent(a) PROVE TypeOK'
  <2>1. EntryNode[a] \in Node
    BY DeliveryAssumption
  <2>2. current[EntryNode[a]] \in BOOLEAN /\ Absent \in Desired
    BY <2>1 DEF Desired
  <2>3. /\ Rewrite(a, Absent, current[EntryNode[a]])
        /\ entitled' = [entitled EXCEPT ![a] = FALSE]
        /\ UNCHANGED <<egress, retired, budget>>
    BY <1>6 DEF ForceAbsent
  <2> QED
    BY <2>2, <2>3, TypeRewrite
<1>7. ASSUME NEW a \in Access, Retire(a) PROVE TypeOK'
  <2>1. EntryNode[a] \in Node
    BY DeliveryAssumption
  <2> DEFINE issue == current[EntryNode[a]] /\ Wanted(a) # Absent
  <2>2. issue \in BOOLEAN /\ Absent \in Desired
    BY <2>1 DEF Desired
  <2>3. /\ Rewrite(a, Absent, issue)
        /\ Spend("retire")
        /\ retired' = [retired EXCEPT ![a] = TRUE]
        /\ UNCHANGED <<egress, entitled>>
    BY <1>7 DEF Retire
  <2> HIDE DEF issue
  <2> QED
    BY <2>2, <2>3, TypeRewrite, TypeSpend
<1>8. ASSUME NEW a \in Access, Expire(a) PROVE TypeOK'
  BY <1>8, TypeRewrite DEF Expire, Desired
<1>9. ASSUME NEW a \in Access, Repoint(a) PROVE TypeOK'
  <2>1. PICK c \in Config :
          /\ egress' = [egress EXCEPT ![a] = c]
          /\ Rewrite(a, IF entitled[a] THEN c ELSE Absent, TRUE)
    BY <1>9 DEF Repoint
  <2> QED
    BY <1>9, <2>1, TypeRewrite, TypeSpend DEF Repoint, Desired
<1>10. ASSUME NEW w \in Worker, BeginReap(w) PROVE TypeOK'
  <2>1. PICK a \in Access, v \in Version :
          task' = [task EXCEPT ![w] = [pc |-> "reaping", access |-> a,
                                       version |-> v, seen |-> version[a]]]
    BY <1>10 DEF BeginReap, SetTask
  <2> QED
    BY <1>10, <2>1, TaskMade DEF BeginReap
<1>11. ASSUME NEW w \in Worker, EndReap(w) PROVE TypeOK'
  <2>1. status' \in [Access -> [Version -> OpStatus \cup {"NONE"}]]
    BY <1>11, TypeTask, TypeSetStatus DEF EndReap, OpStatus, Open, Waiting, Terminal
  <2> QED
    BY <1>11, <2>1, IdleMade DEF EndReap, SetTask
<1>12. ASSUME NEW w \in Worker, NEW a \in Access, LeaseNext(w, a) PROVE TypeOK'
  <2>1. PICK v \in Version :
          /\ SetStatus(a, v, "IN_FLIGHT")
          /\ task' = [task EXCEPT ![w] = [pc |-> "leased", access |-> a,
                                          version |-> v, seen |-> version[a]]]
    BY <1>12 DEF LeaseNext, SetTask
  <2>2. status' \in [Access -> [Version -> OpStatus \cup {"NONE"}]]
    BY <2>1, TypeSetStatus DEF OpStatus, Open
  <2> QED
    BY <1>12, <2>1, <2>2, TaskMade DEF LeaseNext
<1>13. ASSUME NEW w \in Worker, Deliver(w) PROVE TypeOK'
  <2>1. task' \in [Worker -> Task]
    BY <1>13, TypeTask, TypeAnswered DEF Deliver, SetTask, Outcome
  <2> QED
    BY <1>13, <2>1, TypeSpend DEF Deliver
<1>14. ASSUME NEW w \in Worker, Succeed(w) PROVE TypeOK'
  BY <1>14, TypeTask, TypeAnswered, TypeExecute DEF Succeed, Outcome
<1>15. ASSUME NEW w \in Worker, Refuse(w) PROVE TypeOK'
  BY <1>15, TypeTask, TypeAnswered, TypeSpend DEF Refuse, Outcome
<1>16. ASSUME NEW w \in Worker, GiveUp(w) PROVE TypeOK'
  BY <1>16, TypeTask, TypeAnswered, TypeSpend, TypeExecute, RequestMade
     DEF GiveUp, Outcome
<1>17. ASSUME NEW w \in Worker, Record(w) PROVE TypeOK'
  <2>1. PlannedState(task[w].outcome) \in ApplyState
    BY <1>17, TypeTask DEF Record, PlannedState, Outcome, ApplyState
  <2>2. PlannedStatus(task[w].outcome, Fresh(task[w].access, task[w].version)) \in OpStatus
    BY <1>17, TypeTask
       DEF Record, PlannedStatus, Outcome, OpStatus, Open, Waiting, Terminal
  <2> QED
    BY <1>17, <2>1, <2>2, TypeTask, TypeSetStatus, IdleMade DEF Record, SetTask
<1>18. ASSUME NEW w \in Worker, Crash(w) PROVE TypeOK'
  <2>1. CASE UNCHANGED wire
    BY <1>18, <2>1, TypeSpend, IdleMade DEF Crash, SetTask
  <2>2. CASE /\ task[w].pc = "calling"
             /\ wire' = wire \cup {[kind |-> "op", access |-> task[w].access,
                                    version |-> task[w].version]}
    <3>1. wire' \subseteq Request
      BY <2>2, TypeTask, RequestMade
    <3> QED
      BY <1>18, <3>1, TypeSpend, IdleMade DEF Crash, SetTask
  <2> QED
    BY <1>18, <2>1, <2>2 DEF Crash
<1>19. ASSUME NEW r \in Reconciler, NEW n \in Node, ClaimSnapshot(r, n) PROVE TypeOK'
  BY <1>19, RecMade DEF ClaimSnapshot, SetRec
<1>20. ASSUME NEW r \in Reconciler, ClaimLost(r) PROVE TypeOK'
  BY <1>20, IdleMade DEF ClaimLost, SetRec
<1>21. ASSUME NEW r \in Reconciler, ClaimCommit(r) PROVE TypeOK'
  <2> DEFINE n == rec[r].node
             s == [a \in Access |-> IF a \in On(n) THEN Due(a) ELSE 0]
             c == [pc |-> "claimed", node |-> n, revision |-> revision[n],
                   set |-> s, boot |-> needsBootstrap[n]]
  <2>1. n \in Node
    BY <1>21, TypeRec DEF ClaimCommit
  <2>2. s \in FullSet
    BY DeliveryAssumption DEF FullSet, Due
  <2>3. revision[n] \in Nat /\ needsBootstrap[n] \in BOOLEAN
    BY <2>1
  <2>4. c \in Rec
    BY <2>1, <2>2, <2>3, RecMade
  <2>5. rec' = [rec EXCEPT ![r] = c]
    BY <1>21 DEF ClaimCommit, SetRec
  <2>6. reconcileLease' \in [Node -> Reconciler \cup {Free}]
    BY <1>21 DEF ClaimCommit
  <2> QED
    BY <1>21, <2>4, <2>5, <2>6, TypeSpend DEF ClaimCommit
<1>22. ASSUME NEW r \in Reconciler, Observe(r) PROVE TypeOK'
  <2>1. rec' \in [Reconciler -> Rec]
    BY <1>22, TypeRec, TypeStop DEF Observe, SetRec
  <2> QED
    BY <1>22, <2>1, TypeSpend DEF Observe
<1>23. ASSUME NEW r \in Reconciler, Reconciled(r) PROVE TypeOK'
  BY <1>23, TypeRec, TypeExecuteSet DEF Reconciled, SetRec
<1>24. ASSUME NEW r \in Reconciler, ReconcileFails(r) PROVE TypeOK'
  <2>1. /\ rec[r].node \in Node /\ rec[r].set \in FullSet
        /\ \A p \in SUBSET On(rec[r].node) : p \in SUBSET Access
    BY <1>24, TypeRec DEF ReconcileFails, On
  <2>2. rec' \in [Reconciler -> Rec]
    BY <1>24, TypeStop DEF ReconcileFails
  <2>3. CASE /\ \E part \in SUBSET On(rec[r].node) :
                   ExecuteSet(rec[r].node, rec[r].set, part)
             /\ UNCHANGED wire
    BY <1>24, <2>1, <2>2, <2>3, TypeExecuteSet, TypeSpend DEF ReconcileFails
  <2>4. CASE /\ UNCHANGED agentVars
             /\ wire' = wire \cup {[kind |-> "set", node |-> rec[r].node,
                                    set |-> rec[r].set]}
    BY <1>24, <2>1, <2>2, <2>4, RequestMade, TypeSpend DEF ReconcileFails
  <2> QED
    BY <1>24, <2>3, <2>4 DEF ReconcileFails
<1>25. ASSUME NEW r \in Reconciler, Accept(r) PROVE TypeOK'
  <2>1. rec' \in [Reconciler -> Rec]
    BY <1>25, TypeStop DEF Accept
  <2>2. applyState' \in [Access -> ApplyState]
    BY <1>25 DEF Accept, ApplyState
  <2>3. status' \in [Access -> [Version -> OpStatus \cup {"NONE"}]]
    BY <1>25 DEF Accept, OpStatus, Terminal
  <2> QED
    BY <1>25, <2>1, <2>2, <2>3 DEF Accept
<1>26. ASSUME NEW r \in Reconciler, Release(r) PROVE TypeOK'
  BY <1>26, IdleMade DEF Release, SetRec
<1>27. ASSUME NEW r \in Reconciler, CrashReconciler(r) PROVE TypeOK'
  <2>1. CASE UNCHANGED wire
    BY <1>27, <2>1, IdleMade, TypeSpend DEF CrashReconciler, SetRec
  <2>2. CASE /\ rec[r].pc = "calling"
             /\ wire' = wire \cup {[kind |-> "set", node |-> rec[r].node,
                                    set |-> rec[r].set]}
    <3>1. wire' \subseteq Request
      BY <2>2, TypeRec, RequestMade
    <3> QED
      BY <1>27, <3>1, IdleMade, TypeSpend DEF CrashReconciler, SetRec
  <2> QED
    BY <1>27, <2>1, <2>2 DEF CrashReconciler
<1>28. ASSUME NEW n \in Node, Drop(n) PROVE TypeOK'
  BY <1>28, TypeSpend DEF Drop
<1>29. ASSUME NEW n \in Node, Restore(n) PROVE TypeOK'
  BY <1>29 DEF Restore
<1>30. ASSUME NEW n \in Node, Lose(n) PROVE TypeOK'
  <2>1. users' \in [Access -> 0 .. MaxVersion]
    BY <1>30, DeliveryAssumption DEF Lose
  <2> QED
    BY <1>30, <2>1, TypeSpend DEF Lose
<1>31. ASSUME NEW n \in Node, PullReports(n) PROVE TypeOK'
  BY <1>31 DEF PullReports
<1>32. ASSUME NEW n \in Node, ReconcileLeaseExpires(n) PROVE TypeOK'
  BY <1>32 DEF ReconcileLeaseExpires
<1>33. CASE ArriveLate
  <2>1. PICK m \in wire :
          /\ wire' = wire \ {m}
          /\ \/ m.kind = "op" /\ Execute(m.access, m.version)
             \/ m.kind = "set" /\ ExecuteSet(m.node, m.set, On(m.node))
          /\ UNCHANGED <<rowVars, nodeVars, task, rec, budget>>
    BY <1>33 DEF ArriveLate
  <2>2. On(m.node) \in SUBSET Access
    BY DEF On
  <2> QED
    BY <2>1, <2>2, RequestFields, TypeExecute, TypeExecuteSet
<1>34. CASE UNCHANGED vars
  BY <1>34 DEF vars
<1> QED
  BY <1>1, <1>2, <1>3, <1>4, <1>5, <1>6, <1>7, <1>8, <1>9, <1>10, <1>11,
     <1>12, <1>13, <1>14, <1>15, <1>16, <1>17, <1>18, <1>19, <1>20, <1>21,
     <1>22, <1>23, <1>24, <1>25, <1>26, <1>27, <1>28, <1>29, <1>30, <1>31,
     <1>32, <1>33, <1>34
     DEF Next, Customer, Dispatch, Reconcile, NodeStep

\* Every variable keeps its type, whatever customers, workers and agents do.
THEOREM TypeCorrect == Spec => []TypeOK
  BY TypeInit, TypeStep, PTL DEF Spec

-----------------------------------------------------------------------------
(* The outbox.                                                             *)
(*                                                                         *)
(* Few actions touch desired_version, the operations or the workers at     *)
(* once; the lemma Classes sorts the steps by what they do to these three, *)
(* so that each invariant is shown once per kind of step.                  *)

Writes ==
  \E a \in Access, d \in Desired, i \in BOOLEAN : Rewrite(a, d, i)

\* A worker goes on with what it holds, drops it or looks for expired leases.
Works(w) ==
  BeginReap(w) \/ Deliver(w) \/ Succeed(w) \/ Refuse(w) \/ GiveUp(w) \/ Crash(w)

LEMMA WritersWrite ==
  ASSUME TypeOK, NEW a \in Access,
         Insert(a) \/ Enable(a) \/ Exhaust(a) \/ ForceAbsent(a) \/ Retire(a)
           \/ Repoint(a) \/ Expire(a)
  PROVE  Writes
<1>1. EntryNode[a] \in Node
  BY DeliveryAssumption
<1>2. entitled[a] \in BOOLEAN /\ egress[a] \in Desired /\ Absent \in Desired
  BY DEF TypeOK, Desired
<1>3. current[EntryNode[a]] \in BOOLEAN
  BY <1>1 DEF TypeOK
<1>4. CASE Insert(a)
  <2>1. (IF entitled[a] THEN egress[a] ELSE Absent) \in Desired
    BY <1>2
  <2> QED
    BY <1>2, <1>4, <2>1 DEF Insert, Writes
<1>5. CASE Enable(a)
  BY <1>2, <1>5 DEF Enable, Writes
<1>6. CASE Exhaust(a) \/ Expire(a)
  BY <1>2, <1>6 DEF Exhaust, Expire, Writes
<1>7. CASE ForceAbsent(a)
  BY <1>2, <1>3, <1>7 DEF ForceAbsent, Writes
<1>8. CASE Retire(a)
  <2>1. (current[EntryNode[a]] /\ Wanted(a) # Absent) \in BOOLEAN
    BY <1>3
  <2> QED
    BY <1>2, <1>8, <2>1 DEF Retire, Writes
<1>9. CASE Repoint(a)
  <2>1. PICK c \in Config : Rewrite(a, IF entitled[a] THEN c ELSE Absent, TRUE)
    BY <1>9 DEF Repoint
  <2>2. (IF entitled[a] THEN c ELSE Absent) \in Desired
    BY DEF Desired
  <2> QED
    BY <2>1, <2>2 DEF Writes
<1> QED
  BY <1>4, <1>5, <1>6, <1>7, <1>8, <1>9

LEMMA Classes ==
  ASSUME TypeOK, [Next]_vars
  PROVE  \/ UNCHANGED <<version, status, task>>
         \/ Writes
         \/ \E w \in Worker : Works(w) \/ EndReap(w) \/ Record(w)
         \/ \E w \in Worker, a \in Access : LeaseNext(w, a)
         \/ \E r \in Reconciler : Accept(r)
<1>1. CASE UNCHANGED vars
  BY <1>1 DEF vars, rowVars
<1>2. CASE Customer \/ \E a \in Access : Expire(a)
  <2>1. ASSUME NEW a \in Access, RenewInTime(a) \/ Lapse(a)
        PROVE  UNCHANGED <<version, status, task>>
    BY <2>1 DEF RenewInTime, Lapse
  <2> QED
    BY <1>2, <2>1, WritersWrite DEF Customer
<1>3. CASE \E w \in Worker : Dispatch(w)
  BY <1>3 DEF Dispatch, Works
<1>4. CASE \E r \in Reconciler : Reconcile(r)
  <2>1. ASSUME NEW r \in Reconciler,
               \/ \E n \in Node : ClaimSnapshot(r, n)
               \/ ClaimLost(r) \/ ClaimCommit(r) \/ Observe(r) \/ Reconciled(r)
               \/ ReconcileFails(r) \/ Release(r) \/ CrashReconciler(r)
        PROVE  UNCHANGED <<version, status, task>>
    BY <2>1 DEF ClaimSnapshot, ClaimLost, ClaimCommit, Observe, Reconciled,
                ReconcileFails, Release, CrashReconciler, rowVars
  <2> QED
    BY <1>4, <2>1 DEF Reconcile
<1>5. CASE \E n \in Node : NodeStep(n)
  BY <1>5 DEF NodeStep, Drop, Restore, Lose, PullReports, ReconcileLeaseExpires, rowVars
<1>6. CASE ArriveLate
  BY <1>6 DEF ArriveLate, rowVars
<1> QED
  BY <1>1, <1>2, <1>3, <1>4, <1>5, <1>6 DEF Next

Active(w) == task[w].pc \in {"leased", "calling", "answered"}

\* Working on a task changes neither rows nor what the worker holds.
LEMMA WorkKeeps ==
  ASSUME TypeOK, NEW w \in Worker, Works(w)
  PROVE  /\ UNCHANGED <<version, status>>
         /\ task' \in [Worker -> Task]
         /\ \A u \in Worker \ {w} : task'[u] = task[u]
         /\ Active(w)' => /\ Active(w)
                          /\ task'[w].access = task[w].access
                          /\ task'[w].version = task[w].version
<1>1. TypeOK'
  <2>1. [Next]_vars
    BY DEF Works, Next, Dispatch
  <2> QED
    BY <2>1, TypeStep
<1>2. /\ UNCHANGED <<version, status>>
      /\ task' \in [Worker -> Task]
  BY <1>1 DEF Works, BeginReap, Deliver, Succeed, Refuse, GiveUp, Crash, rowVars, TypeOK
<1>3. task \in [Worker -> Task]
  BY DEF TypeOK
<1>4. CASE BeginReap(w)
  BY <1>2, <1>3, <1>4 DEF BeginReap, SetTask, Active
<1>5. CASE Crash(w)
  BY <1>2, <1>3, <1>5 DEF Crash, SetTask, Active, Idle
<1>6. CASE Succeed(w) \/ Refuse(w) \/ GiveUp(w)
  BY <1>2, <1>3, <1>6 DEF Succeed, Refuse, GiveUp, Answered, SetTask, Active
<1>7. CASE Deliver(w)
  <2>1. CASE task' = [task EXCEPT ![w] = [task[w] EXCEPT !.pc = "calling"]]
    <3>1. task[w] \in [pc : {"reaping", "leased", "calling"}, access : Access,
                       version : Version, seen : 0 .. MaxVersion]
      BY <1>3, <1>7 DEF Deliver, Task, Idle
    <3> QED
      BY <1>2, <1>3, <1>7, <2>1, <3>1 DEF Deliver, Active
  <2>2. CASE Answered(w, "RETRYABLE")
    BY <1>2, <1>3, <1>7, <2>2 DEF Deliver, Answered, SetTask, Active
  <2> QED
    BY <1>7, <2>1, <2>2 DEF Deliver, SetTask
<1> QED
  BY <1>4, <1>5, <1>6, <1>7 DEF Works

\* OneInFlightPerNode survives whatever puts no operation in flight.
LEMMA NoNewFlight ==
  ASSUME OneInFlightPerNode,
         \A a \in Access, v \in Version :
           status'[a][v] = "IN_FLIGHT" => status[a][v] = "IN_FLIGHT"
  PROVE  OneInFlightPerNode'
  BY DEF OneInFlightPerNode

\* How each kind of step leaves the operations.
LEMMA RewriteStatus ==
  ASSUME TypeOK, NEW b \in Access, NEW d \in Desired, NEW i \in BOOLEAN,
         Rewrite(b, d, i)
  PROVE  \A a \in Access, v \in Version :
           \/ status'[a][v] = status[a][v]
                /\ (a # b \/ status[a][v] \notin Waiting)
           \/ a = b /\ v = version[b] + 1
                /\ status'[a][v] = "PENDING" /\ version'[b] = v
           \/ a = b /\ status[a][v] \in Waiting /\ status'[a][v] = "SUPERSEDED"
  BY DEF TypeOK, Rewrite, Overtake

LEMMA SetStatusOnly ==
  ASSUME TypeOK, NEW b \in Access, NEW x \in Version, NEW s \in OpStatus,
         SetStatus(b, x, s)
  PROVE  /\ status'[b][x] = s
         /\ \A a \in Access, v \in Version :
              status'[a][v] = status[a][v] \/ (a = b /\ v = x)
  BY DEF TypeOK, SetStatus

LEMMA AcceptStatus ==
  ASSUME TypeOK, NEW r \in Reconciler, Accept(r)
  PROVE  /\ UNCHANGED <<version, task>>
         /\ \A a \in Access, v \in Version :
              \/ status'[a][v] = status[a][v]
              \/ status[a][v] \in Waiting /\ status'[a][v] = "SUCCEEDED"
  BY DEF TypeOK, Accept

LEMMA EndReapStatus ==
  ASSUME TypeOK, NEW w \in Worker, EndReap(w)
  PROVE  /\ UNCHANGED version
         /\ task' = [task EXCEPT ![w] = Idle]
         /\ \A a \in Access, v \in Version :
              \/ status'[a][v] = status[a][v]
              \/ LeaseExpired(a, v) /\ status'[a][v] \in {"SUPERSEDED", "RETRY_WAIT"}
<1>1. task[w].access \in Access /\ task[w].version \in Version
  BY TypeTask DEF EndReap
<1>2. {"SUPERSEDED", "RETRY_WAIT"} \subseteq OpStatus
  BY DEF OpStatus, Open, Waiting, Terminal
<1>3. CASE LeaseExpired(task[w].access, task[w].version)
  BY <1>1, <1>2, <1>3, SetStatusOnly DEF EndReap, SetTask
<1>4. CASE ~LeaseExpired(task[w].access, task[w].version)
  BY <1>4 DEF EndReap, SetTask
<1> QED
  BY <1>3, <1>4

LEMMA RecordStatus ==
  ASSUME TypeOK, NEW w \in Worker, Record(w)
  PROVE  /\ UNCHANGED version
         /\ task' = [task EXCEPT ![w] = Idle]
         /\ task[w].pc = "answered"
         /\ \A a \in Access, v \in Version :
              \/ status'[a][v] = status[a][v]
              \/ /\ a = task[w].access /\ v = task[w].version
                 /\ status'[a][v] \in Terminal \cup {"RETRY_WAIT"}
<1>1. /\ task[w].access \in Access /\ task[w].version \in Version
      /\ task[w].outcome \in Outcome
  BY TypeTask DEF Record
<1>2. PlannedStatus(task[w].outcome, Fresh(task[w].access, task[w].version))
        \in Terminal \cup {"RETRY_WAIT"}
  BY <1>1 DEF PlannedStatus, Outcome, Terminal
<1>3. Terminal \cup {"RETRY_WAIT"} \subseteq OpStatus
  BY DEF OpStatus, Open, Waiting
<1>4. SetStatus(task[w].access, task[w].version,
        PlannedStatus(task[w].outcome, Fresh(task[w].access, task[w].version)))
  BY DEF Record
<1>5. \A a \in Access, v \in Version :
        \/ status'[a][v] = status[a][v]
        \/ /\ a = task[w].access /\ v = task[w].version
           /\ status'[a][v] \in Terminal \cup {"RETRY_WAIT"}
  BY <1>1, <1>2, <1>3, <1>4, SetStatusOnly
<1> QED
  BY <1>5 DEF Record, SetTask

LEMMA LeaseNextStatus ==
  ASSUME TypeOK, NEW w \in Worker, NEW b \in Access, LeaseNext(w, b)
  PROVE  \E x \in Version :
           /\ UNCHANGED version
           /\ task[w] = Idle
           /\ status[b][x] \in Waiting
           /\ status'[b][x] = "IN_FLIGHT"
           /\ ~InFlightOn(EntryNode[b])
           /\ \A a \in Access, v \in Version :
                status'[a][v] = status[a][v] \/ (a = b /\ v = x)
           /\ task' = [task EXCEPT ![w] = [pc |-> "leased", access |-> b,
                                           version |-> x, seen |-> version[b]]]
<1>1. PICK x \in Version :
        /\ status[b][x] \in Waiting
        /\ SetStatus(b, x, "IN_FLIGHT")
        /\ task' = [task EXCEPT ![w] = [pc |-> "leased", access |-> b,
                                        version |-> x, seen |-> version[b]]]
  BY DEF LeaseNext, SetTask
<1>2. "IN_FLIGHT" \in OpStatus
  BY DEF OpStatus, Open
<1>3. /\ status'[b][x] = "IN_FLIGHT"
      /\ \A a \in Access, v \in Version :
           status'[a][v] = status[a][v] \/ (a = b /\ v = x)
  BY <1>1, <1>2, SetStatusOnly
<1>4. task[w] = Idle /\ ~InFlightOn(EntryNode[b]) /\ UNCHANGED version
  BY DEF LeaseNext, Gate
<1> QED
  BY <1>1, <1>3, <1>4

LEMMA OneInFlightStep == TypeOK /\ OneInFlightPerNode /\ [Next]_vars => OneInFlightPerNode'
<1> SUFFICES ASSUME TypeOK, OneInFlightPerNode, [Next]_vars
             PROVE  OneInFlightPerNode'
  OBVIOUS
<1>1. CASE UNCHANGED <<version, status, task>>
  BY <1>1, NoNewFlight
<1>2. CASE Writes
  BY <1>2, RewriteStatus, NoNewFlight DEF Writes
<1>3. ASSUME NEW w \in Worker, Works(w)
      PROVE  OneInFlightPerNode'
  BY <1>3, WorkKeeps, NoNewFlight
<1>4. ASSUME NEW w \in Worker, EndReap(w)
      PROVE  OneInFlightPerNode'
  BY <1>4, EndReapStatus, NoNewFlight
<1>5. ASSUME NEW w \in Worker, Record(w)
      PROVE  OneInFlightPerNode'
  BY <1>5, RecordStatus, NoNewFlight DEF Terminal
<1>6. ASSUME NEW w \in Worker, NEW b \in Access, LeaseNext(w, b)
      PROVE  OneInFlightPerNode'
  BY <1>6, LeaseNextStatus DEF OneInFlightPerNode, InFlightOn, On
<1>7. ASSUME NEW r \in Reconciler, Accept(r)
      PROVE  OneInFlightPerNode'
  BY <1>7, AcceptStatus, NoNewFlight
<1> QED
  BY <1>1, <1>2, <1>3, <1>4, <1>5, <1>6, <1>7, Classes

\* The partial unique index, which LeaseNext respects: what CallsAreSerialized and
\* the theorems on full sets rest on.
LEMMA OneInFlight == Spec => []OneInFlightPerNode
<1>1. Init => OneInFlightPerNode
  BY DEF Init, OneInFlightPerNode
<1> QED
  BY <1>1, OneInFlightStep, TypeCorrect, PTL DEF Spec

LEMMA PendingStep == TypeOK /\ PendingIsCurrent /\ [Next]_vars => PendingIsCurrent'
<1> SUFFICES ASSUME TypeOK, PendingIsCurrent, [Next]_vars
             PROVE  PendingIsCurrent'
  OBVIOUS
<1> USE DEF PendingIsCurrent
<1>1. CASE UNCHANGED <<version, status, task>>
  BY <1>1
<1>2. CASE Writes
  <2>1. PICK b \in Access, d \in Desired, i \in BOOLEAN : Rewrite(b, d, i)
    BY <1>2 DEF Writes
  <2>2. \A a \in Access \ {b} : version'[a] = version[a]
    BY <2>1 DEF Rewrite, TypeOK
  <2> QED
    BY <2>1, <2>2, RewriteStatus DEF Waiting
<1>3. ASSUME NEW w \in Worker, Works(w)
      PROVE  PendingIsCurrent'
  BY <1>3, WorkKeeps
<1>4. ASSUME NEW w \in Worker, EndReap(w)
      PROVE  PendingIsCurrent'
  BY <1>4, EndReapStatus
<1>5. ASSUME NEW w \in Worker, Record(w)
      PROVE  PendingIsCurrent'
  BY <1>5, RecordStatus DEF Terminal
<1>6. ASSUME NEW w \in Worker, NEW b \in Access, LeaseNext(w, b)
      PROVE  PendingIsCurrent'
  BY <1>6, LeaseNextStatus
<1>7. ASSUME NEW r \in Reconciler, Accept(r)
      PROVE  PendingIsCurrent'
  BY <1>7, AcceptStatus
<1> QED
  BY <1>1, <1>2, <1>3, <1>4, <1>5, <1>6, <1>7, Classes

\* A PENDING operation always carries the current version of its access.
THEOREM PendingCurrent == Spec => []PendingIsCurrent
<1>1. Init => PendingIsCurrent
  BY DEF Init, PendingIsCurrent
<1> QED
  BY <1>1, PendingStep, TypeCorrect, PTL DEF Spec

-----------------------------------------------------------------------------
(* Who owns an IN_FLIGHT operation.                                        *)

\* Operations exist for the versions already written, and a worker holds one
\* that exists.
Grounded ==
  /\ \A a \in Access, v \in Version : v > version[a] => status[a][v] = "NONE"
  /\ \A w \in Worker :
       Active(w) => status[task[w].access][task[w].version] # "NONE"

\* While leases outlast their workers, an operation has one worker, and it is
\* IN_FLIGHT as long as that worker has not recorded its outcome.
Owned ==
  LeaseCoversCall =>
    /\ \A w \in Worker :
         Active(w) => status[task[w].access][task[w].version] = "IN_FLIGHT"
    /\ \A u, w \in Worker :
         /\ Active(u) /\ Active(w)
         /\ task[u].access = task[w].access /\ task[u].version = task[w].version
         => u = w

LEMMA ActiveTask ==
  ASSUME TypeOK, NEW w \in Worker, Active(w)
  PROVE  task[w].access \in Access /\ task[w].version \in Version
BY TypeTask DEF Active

\* Operations never disappear.
LEMMA StatusStays ==
  ASSUME TypeOK, [Next]_vars
  PROVE  \A a \in Access, v \in Version :
           status[a][v] # "NONE" => status'[a][v] # "NONE"
<1>1. CASE UNCHANGED <<version, status, task>>
  BY <1>1
<1>2. CASE Writes
  BY <1>2, RewriteStatus DEF Writes
<1>3. ASSUME NEW w \in Worker, Works(w) \/ EndReap(w) \/ Record(w)
      PROVE  \A a \in Access, v \in Version :
               status[a][v] # "NONE" => status'[a][v] # "NONE"
  BY <1>3, WorkKeeps, EndReapStatus, RecordStatus DEF Terminal
<1>4. ASSUME NEW w \in Worker, NEW b \in Access, LeaseNext(w, b)
      PROVE  \A a \in Access, v \in Version :
               status[a][v] # "NONE" => status'[a][v] # "NONE"
  BY <1>4, LeaseNextStatus
<1>5. ASSUME NEW r \in Reconciler, Accept(r)
      PROVE  \A a \in Access, v \in Version :
               status[a][v] # "NONE" => status'[a][v] # "NONE"
  BY <1>5, AcceptStatus
<1> QED
  BY <1>1, <1>2, <1>3, <1>4, <1>5, Classes

LEMMA GroundedStep == TypeOK /\ Grounded /\ [Next]_vars => Grounded'
<1> SUFFICES ASSUME TypeOK, Grounded, [Next]_vars
             PROVE  Grounded'
  OBVIOUS
<1>0. TypeOK'
  BY TypeStep
<1>1. CASE UNCHANGED <<version, status, task>>
  BY <1>1 DEF Grounded, Active
<1>2. CASE Writes
  <2>1. PICK b \in Access, d \in Desired, i \in BOOLEAN : Rewrite(b, d, i)
    BY <1>2 DEF Writes
  <2>2. /\ task' = task
        /\ \A a \in Access \ {b} : version'[a] = version[a]
        /\ version'[b] = version[b] + 1
    BY <2>1 DEF Rewrite, TypeOK
  <2>3. \A a \in Access : version[a] \in Nat
    BY DeliveryAssumption DEF TypeOK
  <2>4. \A a \in Access, v \in Version : v > version'[a] => status'[a][v] = "NONE"
    <3> SUFFICES ASSUME NEW a \in Access, NEW v \in Version, v > version'[a]
                 PROVE  status'[a][v] = "NONE"
      OBVIOUS
    <3>1. v \in Nat
      BY DeliveryAssumption DEF Version
    <3>2. v > version[a]
      BY <2>2, <2>3, <3>1
    <3>3. status[a][v] = "NONE"
      BY <3>2 DEF Grounded
    <3>4. status'[a][v] = status[a][v] \/ version'[a] = v
      BY <2>1, <3>3, RewriteStatus DEF Waiting
    <3> QED
      BY <2>2, <2>3, <3>1, <3>3, <3>4
  <2>5. \A w \in Worker :
          Active(w)' => status'[task'[w].access][task'[w].version] # "NONE"
    BY <2>2, ActiveTask, StatusStays DEF Grounded, Active
  <2> QED
    BY <2>4, <2>5 DEF Grounded
<1>3. ASSUME NEW w \in Worker, Works(w)
      PROVE  Grounded'
  <2>1. \A u \in Worker :
          Active(u)' => /\ Active(u)
                        /\ task'[u].access = task[u].access
                        /\ task'[u].version = task[u].version
    BY <1>3, WorkKeeps DEF Active
  <2> QED
    BY <1>3, <2>1, WorkKeeps DEF Grounded
<1>4. ASSUME NEW w \in Worker, EndReap(w) \/ Record(w)
      PROVE  Grounded'
  <2>1. task \in [Worker -> Task]
    BY DEF TypeOK
  <2>2. UNCHANGED version /\ task' = [task EXCEPT ![w] = Idle]
    BY <1>4, EndReapStatus, RecordStatus
  <2>3. \A u \in Worker : Active(u)' => Active(u) /\ task'[u] = task[u]
    BY <2>1, <2>2 DEF Active, Idle
  <2>4. \A a \in Access, v \in Version :
          status[a][v] = "NONE" => status'[a][v] = "NONE"
    <3>1. CASE EndReap(w)
      BY <3>1, EndReapStatus DEF LeaseExpired
    <3>2. CASE Record(w)
      <4>1. Active(w)
        BY <3>2, RecordStatus DEF Active
      <4> QED
        BY <3>2, <4>1, RecordStatus DEF Grounded
    <3> QED
      BY <1>4, <3>1, <3>2
  <2> QED
    BY <2>2, <2>3, <2>4, ActiveTask, StatusStays DEF Grounded
<1>5. ASSUME NEW w \in Worker, NEW b \in Access, LeaseNext(w, b)
      PROVE  Grounded'
  <2>1. PICK x \in Version :
           /\ UNCHANGED version
           /\ status[b][x] \in Waiting
           /\ status'[b][x] = "IN_FLIGHT"
           /\ \A a \in Access, v \in Version :
                status'[a][v] = status[a][v] \/ (a = b /\ v = x)
           /\ task' = [task EXCEPT ![w] = [pc |-> "leased", access |-> b,
                                           version |-> x, seen |-> version[b]]]
    BY <1>5, LeaseNextStatus
  <2>2. task \in [Worker -> Task]
    BY DEF TypeOK
  <2>3. \A u \in Worker \ {w} : task'[u] = task[u]
    BY <2>1, <2>2
  <2>4. task'[w].access = b /\ task'[w].version = x
    BY <2>1, <2>2
  <2>5. \A u \in Worker :
          Active(u)' => status'[task'[u].access][task'[u].version] # "NONE"
    BY <2>1, <2>3, <2>4, ActiveTask, StatusStays DEF Grounded, Active
  <2> QED
    BY <2>1, <2>5 DEF Grounded, Waiting
<1>6. ASSUME NEW r \in Reconciler, Accept(r)
      PROVE  Grounded'
  <2>1. \A u \in Worker : Active(u)' => Active(u)
    BY <1>6, AcceptStatus DEF Active
  <2> QED
    BY <1>6, <2>1, AcceptStatus, ActiveTask, StatusStays DEF Grounded, Waiting
<1> QED
  BY <1>1, <1>2, <1>3, <1>4, <1>5, <1>6, Classes

LEMMA OwnedStep == TypeOK /\ Grounded /\ Owned /\ [Next]_vars => Owned'
<1> SUFFICES ASSUME TypeOK, Grounded, Owned, [Next]_vars, LeaseCoversCall
             PROVE  Owned'
  BY DEF Owned
<1>0. TypeOK' /\ task \in [Worker -> Task]
  BY TypeStep DEF TypeOK
<1>a. ASSUME \A u \in Worker :
               Active(u)' => /\ Active(u)
                             /\ task'[u].access = task[u].access
                             /\ task'[u].version = task[u].version,
             \A u \in Worker :
               Active(u)' => status'[task[u].access][task[u].version] = "IN_FLIGHT"
      PROVE  Owned'
  BY <1>a DEF Owned
<1>1. CASE UNCHANGED <<version, status, task>>
  BY <1>1 DEF Owned, Active
<1>2. CASE Writes
  <2>1. PICK b \in Access, d \in Desired, i \in BOOLEAN : Rewrite(b, d, i)
    BY <1>2 DEF Writes
  <2>2. task' = task /\ version'[b] = version[b] + 1
    BY <2>1 DEF Rewrite, TypeOK
  <2>3. version[b] \in Nat
    BY DeliveryAssumption DEF TypeOK
  <2>4. ASSUME NEW u \in Worker, Active(u)
        PROVE  status'[task[u].access][task[u].version] = "IN_FLIGHT"
    <3>1. /\ task[u].access \in Access /\ task[u].version \in Version
          /\ task[u].version \in Nat
      BY <2>4, ActiveTask, DeliveryAssumption DEF Version
    <3>2. status[task[u].access][task[u].version] = "IN_FLIGHT"
      BY <2>4 DEF Owned
    <3>3. ~(task[u].access = b /\ task[u].version > version[b])
      BY <3>1, <3>2 DEF Grounded
    <3> QED
      BY <2>1, <2>2, <2>3, <3>1, <3>2, <3>3, RewriteStatus DEF Waiting
  <2> QED
    BY <1>a, <2>2, <2>4 DEF Active
<1>3. ASSUME NEW w \in Worker, Works(w)
      PROVE  Owned'
  <2>1. \A u \in Worker :
          Active(u)' => /\ Active(u)
                        /\ task'[u].access = task[u].access
                        /\ task'[u].version = task[u].version
    BY <1>3, WorkKeeps DEF Active
  <2> QED
    BY <1>3, <1>a, <2>1, WorkKeeps DEF Owned
<1>4. ASSUME NEW w \in Worker, EndReap(w) \/ Record(w)
      PROVE  Owned'
  <2>1. task' = [task EXCEPT ![w] = Idle]
    BY <1>4, EndReapStatus, RecordStatus
  <2>2. \A u \in Worker : Active(u)' => u # w /\ Active(u) /\ task'[u] = task[u]
    BY <1>0, <2>1 DEF Active, Idle
  <2>3. ASSUME NEW u \in Worker, Active(u)'
        PROVE  status'[task[u].access][task[u].version] = "IN_FLIGHT"
    <3>1. u # w /\ Active(u)
      BY <2>2, <2>3
    <3>2. task[u].access \in Access /\ task[u].version \in Version
      BY <3>1, ActiveTask
    <3>3. status[task[u].access][task[u].version] = "IN_FLIGHT"
      BY <3>1 DEF Owned
    <3>4. CASE EndReap(w)
      <4>1. Held(task[u].access, task[u].version)
        BY <3>1 DEF Held, Active
      <4> QED
        BY <3>2, <3>3, <3>4, <4>1, EndReapStatus DEF LeaseExpired
    <3>5. CASE Record(w)
      <4>1. Active(w)
        BY <3>5, RecordStatus DEF Active
      <4>2. ~(task[u].access = task[w].access /\ task[u].version = task[w].version)
        BY <3>1, <4>1 DEF Owned
      <4> QED
        BY <3>2, <3>3, <3>5, <4>2, RecordStatus
    <3> QED
      BY <1>4, <3>4, <3>5
  <2> QED
    BY <1>a, <2>2, <2>3
<1>5. ASSUME NEW w \in Worker, NEW b \in Access, LeaseNext(w, b)
      PROVE  Owned'
  <2>1. PICK x \in Version :
           /\ status[b][x] \in Waiting
           /\ status'[b][x] = "IN_FLIGHT"
           /\ \A a \in Access, v \in Version :
                status'[a][v] = status[a][v] \/ (a = b /\ v = x)
           /\ task' = [task EXCEPT ![w] = [pc |-> "leased", access |-> b,
                                           version |-> x, seen |-> version[b]]]
    BY <1>5, LeaseNextStatus
  <2>2. \A u \in Worker \ {w} : task'[u] = task[u]
    BY <1>0, <2>1
  <2>3. task'[w].access = b /\ task'[w].version = x
    BY <1>0, <2>1
  <2>4. ASSUME NEW u \in Worker \ {w}, Active(u)'
        PROVE  /\ Active(u)
               /\ status'[task'[u].access][task'[u].version] = "IN_FLIGHT"
               /\ ~(task'[u].access = b /\ task'[u].version = x)
    <3>1. Active(u) /\ task'[u] = task[u]
      BY <2>2, <2>4 DEF Active
    <3>2. status[task[u].access][task[u].version] = "IN_FLIGHT"
      BY <3>1 DEF Owned
    <3>3. task[u].access \in Access /\ task[u].version \in Version
      BY <3>1, ActiveTask
    <3> QED
      BY <2>1, <3>1, <3>2, <3>3 DEF Waiting
  <2>5. \A u \in Worker :
          Active(u)' => status'[task'[u].access][task'[u].version] = "IN_FLIGHT"
    BY <2>1, <2>3, <2>4
  <2>6. ASSUME NEW u \in Worker, NEW y \in Worker, Active(u)', Active(y)',
               task'[u].access = task'[y].access, task'[u].version = task'[y].version
        PROVE  u = y
    <3>1. CASE u = w \/ y = w
      BY <2>3, <2>4, <2>6, <3>1
    <3>2. CASE u # w /\ y # w
      <4>1. Active(u) /\ Active(y)
        BY <2>4, <2>6, <3>2
      <4> QED
        BY <2>2, <2>6, <3>2, <4>1 DEF Owned
    <3> QED
      BY <3>1, <3>2
  <2> QED
    BY <2>5, <2>6 DEF Owned
<1>6. ASSUME NEW r \in Reconciler, Accept(r)
      PROVE  Owned'
  <2>1. \A u \in Worker : Active(u)' => Active(u) /\ task'[u] = task[u]
    BY <1>6, AcceptStatus DEF Active
  <2>2. \A u \in Worker :
          Active(u)' => status'[task[u].access][task[u].version] = "IN_FLIGHT"
    BY <1>6, <2>1, AcceptStatus, ActiveTask DEF Owned, Waiting
  <2> QED
    BY <1>a, <2>1, <2>2
<1> QED
  BY <1>1, <1>2, <1>3, <1>4, <1>5, <1>6, Classes

THEOREM Ownership == Spec => [](Grounded /\ Owned)
<1>1. Init => Grounded /\ Owned
  BY DEF Init, Grounded, Owned, Active, Idle
<1>2. TypeOK /\ Grounded /\ Owned /\ [Next]_vars => (Grounded /\ Owned)'
  BY GroundedStep, OwnedStep
<1> QED
  BY <1>1, <1>2, TypeCorrect, PTL DEF Spec

\* While leases outlast their workers, the outcome a worker records goes to an
\* operation that is still its own.
THEOREM WorkerOwns == Spec => []WorkerOwnsItsOperation
<1>1. Owned => WorkerOwnsItsOperation
  BY DEF Owned, WorkerOwnsItsOperation, Active
<1> QED
  BY <1>1, Ownership, PTL

\* While leases outlast their workers, no two of them call one node at a time.
THEOREM CallsAreSerialized == Spec => []CallsSerialized
<1>1. ASSUME TypeOK, Owned, OneInFlightPerNode
      PROVE  CallsSerialized
  <2> SUFFICES ASSUME LeaseCoversCall, NEW u \in Worker, NEW w \in Worker,
                      NEW n \in Node, Calling(u, n), Calling(w, n)
               PROVE  u = w
    BY DEF CallsSerialized
  <2>1. Active(u) /\ Active(w)
    BY DEF Calling, Active
  <2>2. /\ status[task[u].access][task[u].version] = "IN_FLIGHT"
        /\ status[task[w].access][task[w].version] = "IN_FLIGHT"
    BY <1>1, <2>1 DEF Owned
  <2>3. /\ task[u].access \in Access /\ task[u].version \in Version
        /\ task[w].access \in Access /\ task[w].version \in Version
    BY <1>1, <2>1, ActiveTask
  <2>4. EntryNode[task[u].access] = EntryNode[task[w].access]
    BY DEF Calling, NodeOf
  <2>5. task[u].access = task[w].access /\ task[u].version = task[w].version
    BY <1>1, <2>2, <2>3, <2>4 DEF OneInFlightPerNode
  <2> QED
    BY <1>1, <2>1, <2>5 DEF Owned
<1> QED
  BY <1>1, Ownership, OneInFlight, TypeCorrect, PTL

\* A step may never change a final operation, as long as leases outlast their
\* workers: a late Record would otherwise reopen it.
THEOREM JournalIsFinal ==
  ASSUME LeaseCoversCall
  PROVE  Spec => TerminalStays
<1>1. ASSUME TypeOK, Grounded, Owned, [Next]_vars
      PROVE  [\A a \in Access, v \in Version :
                status[a][v] \in Terminal => status'[a][v] = status[a][v]]_vars
  <2> SUFFICES ASSUME NEW a \in Access, NEW v \in Version, status[a][v] \in Terminal
               PROVE  status'[a][v] = status[a][v]
    OBVIOUS
  <2> USE DEF Terminal, Waiting
  <2>1. CASE UNCHANGED <<version, status, task>>
    BY <2>1
  <2>2. ASSUME NEW b \in Access, NEW d \in Desired, NEW i \in BOOLEAN, Rewrite(b, d, i)
        PROVE  status'[a][v] = status[a][v]
    <3>1. version[a] \in Nat /\ v \in Nat
      BY <1>1, DeliveryAssumption DEF TypeOK, Version
    <3>2. v # version[a] + 1
      BY <1>1, <3>1 DEF Grounded
    <3> QED
      BY <1>1, <2>2, <3>2, RewriteStatus
  <2>3. ASSUME NEW w \in Worker, Works(w) \/ EndReap(w)
        PROVE  status'[a][v] = status[a][v]
    BY <1>1, <2>3, WorkKeeps, EndReapStatus DEF LeaseExpired
  <2>4. ASSUME NEW w \in Worker, Record(w)
        PROVE  status'[a][v] = status[a][v]
    <3>1. Active(w)
      BY <1>1, <2>4, RecordStatus DEF Active
    <3>2. status[task[w].access][task[w].version] = "IN_FLIGHT"
      BY <1>1, <3>1 DEF Owned
    <3> QED
      BY <1>1, <2>4, <3>2, RecordStatus
  <2>5. ASSUME NEW w \in Worker, NEW b \in Access, LeaseNext(w, b)
        PROVE  status'[a][v] = status[a][v]
    BY <1>1, <2>5, LeaseNextStatus
  <2>6. ASSUME NEW r \in Reconciler, Accept(r)
        PROVE  status'[a][v] = status[a][v]
    BY <1>1, <2>6, AcceptStatus
  <2> QED
    BY <1>1, <2>1, <2>2, <2>3, <2>4, <2>5, <2>6, Classes DEF Writes
<1> QED
  BY <1>1, Ownership, TypeCorrect, PTL DEF Spec, TerminalStays

-----------------------------------------------------------------------------
(* What APPLIED rests on.                                                  *)
(*                                                                         *)
(* An outcome is trusted because the agent gave it, and a full set because *)
(* desired_revision did not move: between the claim and Accept no access   *)
(* of the node can have got another version with an operation.             *)

HasClaim(r) == rec[r].pc \in {"claimed", "calling", "answered"}

\* The version of an access that has an operation.
Carried(a) == version[a] > 0 /\ status[a][version[a]] # "NONE"

OutcomeConfirmed ==
  \A w \in Worker :
    task[w].pc = "answered" /\ task[w].outcome = "SUCCEEDED" =>
      reached[task[w].access] >= task[w].version

SetConfirmed ==
  \A r \in Reconciler :
    rec[r].pc = "answered" =>
      \A a \in On(rec[r].node) : reached[a] >= rec[r].set[a]

ClaimInPast ==
  \A r \in Reconciler :
    HasClaim(r) => rec[r].revision <= revision[rec[r].node]

ClaimCurrent ==
  \A r \in Reconciler :
    HasClaim(r) /\ rec[r].revision = revision[rec[r].node] =>
      \A a \in On(rec[r].node) :
        Carried(a) => \/ version[a] = rec[r].set[a]
                      \/ rec[r].set[a] = 0 /\ Wanted(a) # Absent

LEMMA ReachedGrows ==
  ASSUME TypeOK, [Next]_vars
  PROVE  \A a \in Access :
           reached[a] \in Nat /\ reached'[a] \in Nat /\ reached'[a] >= reached[a]
<1>0. TypeOK'
  BY TypeStep
<1>a. \A a \in Access : reached[a] \in Nat /\ reached'[a] \in Nat
  BY <1>0, DeliveryAssumption DEF TypeOK
<1>b. reached \in [Access -> 0 .. MaxVersion]
  BY DEF TypeOK
<1>c. ASSUME NEW a \in Access, NEW v \in Nat, Execute(a, v)
      PROVE  \A b \in Access : reached'[b] >= reached[b]
  BY <1>a, <1>b, <1>c DEF Execute
<1>d. ASSUME NEW n \in Node, NEW set \in FullSet, NEW part, ExecuteSet(n, set, part)
      PROVE  \A b \in Access : reached'[b] >= reached[b]
  <2>1. \A b \in Access : set[b] \in Nat
    BY DeliveryAssumption DEF FullSet
  <2> QED
    BY <1>a, <1>b, <1>d, <2>1 DEF ExecuteSet
<1>1. CASE UNCHANGED reached
  BY <1>1, <1>a
<1>2. ASSUME NEW w \in Worker, Succeed(w) \/ GiveUp(w)
      PROVE  \A b \in Access : reached'[b] >= reached[b]
  <2>1. task[w].access \in Access /\ task[w].version \in Version
    BY <1>2, TypeTask DEF Succeed, GiveUp
  <2>2. task[w].version \in Nat
    BY <2>1, DeliveryAssumption DEF Version
  <2> QED
    BY <1>1, <1>2, <1>c, <2>1, <2>2 DEF Succeed, GiveUp, agentVars
<1>3. ASSUME NEW r \in Reconciler, Reconciled(r) \/ ReconcileFails(r)
      PROVE  \A b \in Access : reached'[b] >= reached[b]
  <2>1. rec[r].node \in Node /\ rec[r].set \in FullSet
    BY <1>3, TypeRec DEF Reconciled, ReconcileFails
  <2> QED
    BY <1>1, <1>3, <1>d, <2>1 DEF Reconciled, ReconcileFails, agentVars
<1>4. CASE ArriveLate
  <2>1. PICK m \in wire :
           \/ m.kind = "op" /\ Execute(m.access, m.version)
           \/ m.kind = "set" /\ ExecuteSet(m.node, m.set, On(m.node))
    BY <1>4 DEF ArriveLate
  <2>2. m \in Request
    BY DEF TypeOK
  <2>3. CASE m.kind = "op" /\ Execute(m.access, m.version)
    <3>1. m.access \in Access /\ m.version \in Nat
      BY <2>2, <2>3, DeliveryAssumption DEF Request, Version
    <3> QED
      BY <1>a, <1>c, <2>3, <3>1
  <2>4. CASE m.kind = "set" /\ ExecuteSet(m.node, m.set, On(m.node))
    <3>1. m.node \in Node /\ m.set \in FullSet
      BY <2>2, <2>4 DEF Request
    <3> QED
      BY <1>a, <1>d, <2>4, <3>1
  <2> QED
    BY <2>1, <2>3, <2>4
<1>5. CASE \E a \in Access : Expire(a)
  BY <1>1, <1>5 DEF Expire, Rewrite, agentVars
<1>6. CASE Customer
  BY <1>1, <1>6 DEF Customer, Insert, Enable, RenewInTime, Lapse, Exhaust,
                    ForceAbsent, Retire, Repoint, Rewrite, agentVars
<1>7. CASE \E w \in Worker : Dispatch(w)
  <2> SUFFICES ASSUME NEW w \in Worker,
                      \/ BeginReap(w) \/ EndReap(w)
                      \/ \E a \in Access : LeaseNext(w, a)
                      \/ Deliver(w) \/ Refuse(w) \/ Record(w) \/ Crash(w)
               PROVE  UNCHANGED reached
    BY <1>1, <1>2, <1>7, <1>a DEF Dispatch
  <2> QED
    BY DEF BeginReap, EndReap, LeaseNext, Deliver, Refuse, Record, Crash, agentVars
<1>8. CASE \E r \in Reconciler : Reconcile(r)
  <2> SUFFICES ASSUME NEW r \in Reconciler,
                      \/ \E n \in Node : ClaimSnapshot(r, n)
                      \/ ClaimLost(r) \/ ClaimCommit(r) \/ Observe(r)
                      \/ Accept(r) \/ Release(r) \/ CrashReconciler(r)
               PROVE  UNCHANGED reached
    BY <1>1, <1>3, <1>8, <1>a DEF Reconcile
  <2> QED
    BY DEF ClaimSnapshot, ClaimLost, ClaimCommit, Observe, Accept, Release,
           CrashReconciler, agentVars
<1>9. CASE \E n \in Node : NodeStep(n)
  BY <1>1, <1>9 DEF NodeStep, Drop, Restore, Lose, PullReports,
                    ReconcileLeaseExpires, agentVars
<1>10. CASE UNCHANGED vars
  BY <1>1, <1>10 DEF vars, agentVars
<1> QED
  BY <1>4, <1>5, <1>6, <1>7, <1>8, <1>9, <1>10, <1>a DEF Next

\* Only a writer moves a version, a desired tuple or desired_revision, and only
\* a writer adds an operation.
LEMMA Quiet ==
  ASSUME TypeOK, Grounded, [Next]_vars
  PROVE  \/ Writes
         \/ /\ UNCHANGED <<version, goal, revision>>
            /\ \A a \in Access, v \in Version :
                 status'[a][v] # "NONE" <=> status[a][v] # "NONE"
<1>1. CASE UNCHANGED vars
  BY <1>1 DEF vars, rowVars, nodeVars
<1>2. CASE Customer \/ \E a \in Access : Expire(a)
  <2>1. ASSUME NEW a \in Access, RenewInTime(a) \/ Lapse(a)
        PROVE  UNCHANGED <<version, goal, revision, status>>
    BY <2>1 DEF RenewInTime, Lapse, nodeVars
  <2> QED
    BY <1>2, <2>1, WritersWrite DEF Customer
<1>3. ASSUME NEW w \in Worker, Dispatch(w)
      PROVE  /\ UNCHANGED <<version, goal, revision>>
             /\ \A a \in Access, v \in Version :
                  status'[a][v] # "NONE" <=> status[a][v] # "NONE"
  <2>1. UNCHANGED <<version, goal, revision>>
    BY <1>3 DEF Dispatch, BeginReap, EndReap, LeaseNext, Deliver, Succeed, Refuse,
                GiveUp, Record, Crash, rowVars, nodeVars
  <2>2. CASE Works(w) \/ EndReap(w)
    BY <2>1, <2>2, WorkKeeps, EndReapStatus DEF LeaseExpired
  <2>3. CASE Record(w)
    <3>1. Active(w)
      BY <2>3, RecordStatus DEF Active
    <3> QED
      BY <2>1, <2>3, <3>1, RecordStatus DEF Grounded, Terminal
  <2>4. ASSUME NEW b \in Access, LeaseNext(w, b)
        PROVE  \A a \in Access, v \in Version :
                 status'[a][v] # "NONE" <=> status[a][v] # "NONE"
    BY <2>4, LeaseNextStatus DEF Waiting
  <2> QED
    BY <1>3, <2>1, <2>2, <2>3, <2>4 DEF Dispatch, Works
<1>4. ASSUME NEW r \in Reconciler, Reconcile(r)
      PROVE  /\ UNCHANGED <<version, goal, revision>>
             /\ \A a \in Access, v \in Version :
                  status'[a][v] # "NONE" <=> status[a][v] # "NONE"
  <2>1. UNCHANGED <<version, goal, revision>>
    BY <1>4 DEF Reconcile, ClaimSnapshot, ClaimLost, ClaimCommit, Observe, Reconciled,
                ReconcileFails, Accept, Release, CrashReconciler, rowVars, nodeVars
  <2>2. CASE Accept(r)
    BY <2>1, <2>2, AcceptStatus DEF Waiting
  <2>3. CASE ~Accept(r)
    <3>1. UNCHANGED status
      BY <1>4, <2>3 DEF Reconcile, ClaimSnapshot, ClaimLost, ClaimCommit, Observe,
                Reconciled, ReconcileFails, Release, CrashReconciler, rowVars
    <3> QED
      BY <2>1, <3>1
  <2> QED
    BY <2>2, <2>3
<1>5. CASE \E n \in Node : NodeStep(n)
  <2>1. UNCHANGED <<version, goal, revision, status>>
    BY <1>5 DEF NodeStep, Drop, Restore, Lose, PullReports, ReconcileLeaseExpires,
                rowVars, nodeVars
  <2> QED
    BY <2>1
<1>6. CASE ArriveLate
  BY <1>6 DEF ArriveLate, rowVars, nodeVars
<1> QED
  BY <1>1, <1>2, <1>3, <1>4, <1>5, <1>6 DEF Next

LEMMA OutcomeStep ==
  ASSUME TypeOK, OutcomeConfirmed, [Next]_vars
  PROVE  OutcomeConfirmed'
<1> SUFFICES ASSUME NEW w \in Worker,
                    task'[w].pc = "answered", task'[w].outcome = "SUCCEEDED"
             PROVE  reached'[task'[w].access] >= task'[w].version
  BY DEF OutcomeConfirmed
<1>0. task \in [Worker -> Task]
  BY DEF TypeOK
<1>a. CASE task'[w] = task[w]
  <2>1. task[w].access \in Access /\ task[w].version \in Version
    BY <1>a, TypeTask
  <2>2. reached[task[w].access] >= task[w].version /\ task[w].version \in Nat
    BY <1>a, <2>1, DeliveryAssumption DEF OutcomeConfirmed, Version
  <2> QED
    BY <1>a, <2>1, <2>2, ReachedGrows
<1>1. CASE UNCHANGED <<version, status, task>>
  BY <1>1, <1>a
<1>2. CASE Writes
  BY <1>2, <1>a DEF Writes, Rewrite
<1>3. ASSUME NEW u \in Worker, Works(u)
      PROVE  reached'[task'[w].access] >= task'[w].version
  <2>1. CASE u # w
    BY <1>3, <1>a, <2>1, WorkKeeps
  <2>2. CASE u = w /\ Succeed(w)
    <3>1. task[w].access \in Access /\ task[w].version \in Version
      BY <2>2, TypeTask DEF Succeed
    <3>2. task[w].version \in Nat /\ reached[task[w].access] \in Nat
      BY <3>1, DeliveryAssumption DEF TypeOK, Version
    <3>3. task'[w].access = task[w].access /\ task'[w].version = task[w].version
      BY <1>0, <2>2 DEF Succeed, Answered, SetTask
    <3>4. reached'[task[w].access] >= task[w].version
      BY <2>2, <3>1, <3>2 DEF Succeed, Execute, TypeOK
    <3> QED
      BY <3>3, <3>4
  <2>3. CASE u = w /\ Deliver(w)
    <3>1. task[w].pc = "leased"
      BY <2>3 DEF Deliver
    <3>2. CASE SetTask(w, [task[w] EXCEPT !.pc = "calling"])
      <4>1. task'[w] = [task[w] EXCEPT !.pc = "calling"]
        BY <1>0, <3>2 DEF SetTask
      <4>2. [task[w] EXCEPT !.pc = "calling"] \in Task
        BY <3>1, TypeTask
      <4>3. task[w] \in [pc : {"reaping", "leased", "calling"}, access : Access,
                         version : Version, seen : 0 .. MaxVersion]
        BY <1>0, <3>1 DEF Task, Idle
      <4> QED
        BY <4>1, <4>3
    <3>3. CASE Answered(w, "RETRYABLE")
      BY <1>0, <3>3 DEF Answered, SetTask
    <3> QED
      BY <2>3, <3>2, <3>3 DEF Deliver
  <2>4. CASE u = w /\ (BeginReap(w) \/ Refuse(w) \/ GiveUp(w) \/ Crash(w))
    BY <1>0, <2>4 DEF BeginReap, Refuse, GiveUp, Crash, Answered, SetTask, Idle
  <2> QED
    BY <1>3, <2>1, <2>2, <2>3, <2>4 DEF Works
<1>4. ASSUME NEW u \in Worker, EndReap(u) \/ Record(u)
      PROVE  reached'[task'[w].access] >= task'[w].version
  <2>1. task' = [task EXCEPT ![u] = Idle]
    BY <1>4, EndReapStatus, RecordStatus
  <2> QED
    BY <1>0, <1>a, <2>1 DEF Idle
<1>5. ASSUME NEW u \in Worker, NEW b \in Access, LeaseNext(u, b)
      PROVE  reached'[task'[w].access] >= task'[w].version
  BY <1>0, <1>5, <1>a, LeaseNextStatus
<1>6. ASSUME NEW r \in Reconciler, Accept(r)
      PROVE  reached'[task'[w].access] >= task'[w].version
  BY <1>6, <1>a, AcceptStatus
<1> QED
  BY <1>1, <1>2, <1>3, <1>4, <1>5, <1>6, Classes

\* What a step makes of a claim: it is kept, dropped, just taken, or its full
\* set has just been executed.
LEMMA ClaimSteps ==
  ASSUME TypeOK, [Next]_vars, NEW r \in Reconciler, HasClaim(r)'
  PROVE  \/ ClaimCommit(r)
         \/ /\ HasClaim(r)
            /\ rec'[r].node = rec[r].node
            /\ rec'[r].revision = rec[r].revision
            /\ rec'[r].set = rec[r].set
            /\ rec'[r].pc = "answered" => rec[r].pc = "answered" \/ Reconciled(r)
<1>0. rec \in [Reconciler -> Rec]
  BY DEF TypeOK
<1>a. CASE rec'[r] = rec[r]
  BY <1>a DEF HasClaim
<1>1. ASSUME NEW q \in Reconciler, Reconcile(q)
      PROVE  \/ rec'[r] = rec[r]
             \/ q = r /\ ClaimCommit(r)
             \/ /\ q = r /\ HasClaim(r)
                /\ rec'[r].node = rec[r].node
                /\ rec'[r].revision = rec[r].revision
                /\ rec'[r].set = rec[r].set
                /\ rec'[r].pc = "answered" => rec[r].pc = "answered" \/ Reconciled(r)
  <2>1. CASE q # r
    BY <1>0, <1>1, <2>1 DEF Reconcile, ClaimSnapshot, ClaimLost, ClaimCommit, Observe,
       Reconciled, ReconcileFails, Accept, Release, CrashReconciler, Stop, SetRec
  <2>2. CASE q = r /\ \/ \E n \in Node : ClaimSnapshot(r, n)
                      \/ ClaimLost(r) \/ ReconcileFails(r) \/ Accept(r)
                      \/ Release(r) \/ CrashReconciler(r)
    BY <1>0, <2>2 DEF ClaimSnapshot, ClaimLost, ReconcileFails, Accept, Release,
       CrashReconciler, Stop, SetRec, HasClaim, Idle
  <2>3. CASE q = r /\ Observe(r)
    <3>1. rec[r] \in [pc : {"claimed", "calling", "answered"}, node : Node,
                      revision : Nat, set : FullSet, boot : BOOLEAN]
      BY <1>0, <2>3 DEF Observe, Rec, Idle
    <3>2. CASE Stop(r)
      BY <1>0, <3>2 DEF Stop, SetRec, HasClaim
    <3>3. CASE SetRec(r, [rec[r] EXCEPT !.pc = "calling"])
      BY <1>0, <2>3, <3>1, <3>3 DEF Observe, SetRec, HasClaim
    <3> QED
      BY <2>3, <3>2, <3>3 DEF Observe
  <2>4. CASE q = r /\ Reconciled(r)
    <3>1. rec[r] \in [pc : {"claimed", "calling", "answered"}, node : Node,
                      revision : Nat, set : FullSet, boot : BOOLEAN]
      BY <1>0, <2>4 DEF Reconciled, Rec, Idle
    <3> QED
      BY <1>0, <2>4, <3>1 DEF Reconciled, SetRec, HasClaim
  <2> QED
    BY <1>1, <2>1, <2>2, <2>3, <2>4 DEF Reconcile
<1>2. CASE ~\E q \in Reconciler : Reconcile(q)
  <2>1. UNCHANGED rec
    <3>1. CASE UNCHANGED vars
      BY <3>1 DEF vars
    <3>2. CASE Customer \/ \E a \in Access : Expire(a)
      BY <3>2 DEF Customer, Insert, Enable, RenewInTime, Lapse, Exhaust, ForceAbsent,
                  Retire, Repoint, Expire, Rewrite
    <3>3. CASE \E w \in Worker : Dispatch(w)
      BY <3>3 DEF Dispatch, BeginReap, EndReap, LeaseNext, Deliver, Succeed, Refuse,
                  GiveUp, Record, Crash
    <3>4. CASE (\E n \in Node : NodeStep(n)) \/ ArriveLate
      BY <3>4 DEF NodeStep, Drop, Restore, Lose, PullReports, ReconcileLeaseExpires,
                  ArriveLate
    <3> QED
      BY <1>2, <3>1, <3>2, <3>3, <3>4 DEF Next
  <2> QED
    BY <1>a, <2>1
<1> QED
  BY <1>1, <1>2, <1>a

LEMMA SetStep ==
  ASSUME TypeOK, SetConfirmed, [Next]_vars
  PROVE  SetConfirmed'
<1> SUFFICES ASSUME NEW r \in Reconciler, rec'[r].pc = "answered",
                    NEW a \in On(rec'[r].node)
             PROVE  reached'[a] >= rec'[r].set[a]
  BY DEF SetConfirmed, On
<1>1. a \in Access
  BY DEF On
<1>2. HasClaim(r)'
  BY DEF HasClaim
<1>3. ~ClaimCommit(r)
  <2>1. rec \in [Reconciler -> Rec]
    BY DEF TypeOK
  <2> QED
    BY <2>1 DEF ClaimCommit, SetRec
<1>4. /\ HasClaim(r)
      /\ rec'[r].node = rec[r].node
      /\ rec'[r].set = rec[r].set
      /\ rec[r].pc = "answered" \/ Reconciled(r)
  BY <1>2, <1>3, ClaimSteps
<1>5. rec[r].node \in Node /\ rec[r].set \in FullSet
  BY <1>4, TypeRec DEF HasClaim
<1>6. rec[r].set[a] \in Nat /\ reached[a] \in Nat
  BY <1>1, <1>5, DeliveryAssumption DEF FullSet, TypeOK
<1>7. CASE rec[r].pc = "answered"
  BY <1>1, <1>4, <1>6, <1>7, ReachedGrows DEF SetConfirmed
<1>8. CASE Reconciled(r)
  BY <1>1, <1>4, <1>6, <1>8 DEF Reconciled, ExecuteSet
<1> QED
  BY <1>4, <1>7, <1>8

\* A rewrite either moves desired_revision or carries no operation.
LEMMA RewriteMoves ==
  ASSUME TypeOK, Grounded, NEW b \in Access, NEW d \in Desired, NEW i \in BOOLEAN,
         Rewrite(b, d, i)
  PROVE  /\ version'[b] = version[b] + 1 /\ version'[b] \in Version
         /\ \A a \in Access \ {b} :
              /\ version'[a] = version[a]
              /\ status'[a] = status[a]
              /\ goal'[a] = goal[a]
              /\ applyState'[a] = applyState[a]
         /\ i => revision'[EntryNode[b]] = revision[EntryNode[b]] + 1
         /\ \A n \in Node :
              revision'[n] = revision[n] \/ (i /\ n = EntryNode[b])
         /\ ~i => ~Carried(b)'
         /\ i => applyState'[b] = "PENDING"
<1>1. version[b] \in Nat /\ EntryNode[b] \in Node
  BY DeliveryAssumption DEF TypeOK
<1>2. version[b] + 1 \in Version /\ version[b] + 1 > version[b]
  BY <1>1, DeliveryAssumption DEF Rewrite, Version, TypeOK
<1>3. /\ version'[b] = version[b] + 1
      /\ \A a \in Access \ {b} :
           /\ version'[a] = version[a]
           /\ goal'[a] = goal[a]
           /\ applyState'[a] = applyState[a]
      /\ i => applyState'[b] = "PENDING"
  BY DEF Rewrite, TypeOK
<1>4. \A a \in Access \ {b} : status'[a] = status[a]
  BY DEF Rewrite, TypeOK
<1>5. /\ i => revision'[EntryNode[b]] = revision[EntryNode[b]] + 1
      /\ \A n \in Node : revision'[n] = revision[n] \/ (i /\ n = EntryNode[b])
  BY <1>1 DEF Rewrite, TypeOK
<1>6. ASSUME ~i
      PROVE  ~Carried(b)'
  <2>1. status[b][version[b] + 1] = "NONE"
    BY <1>2 DEF Grounded
  <2>2. status'[b][version[b] + 1] = Overtake(status[b][version[b] + 1])
    BY <1>2, <1>6 DEF Rewrite, TypeOK
  <2> QED
    BY <1>3, <2>1, <2>2 DEF Carried, Overtake, Waiting
<1> QED
  BY <1>2, <1>3, <1>4, <1>5, <1>6

LEMMA ClaimPastStep ==
  ASSUME TypeOK, Grounded, ClaimInPast, [Next]_vars
  PROVE  ClaimInPast'
<1> SUFFICES ASSUME NEW r \in Reconciler, HasClaim(r)'
             PROVE  rec'[r].revision <= revision'[rec'[r].node]
  BY DEF ClaimInPast
<1>1. CASE ClaimCommit(r)
  <2>1. rec[r].node \in Node
    BY <1>1, TypeRec DEF ClaimCommit
  <2>2. rec'[r].revision = revision[rec[r].node] /\ rec'[r].node = rec[r].node
    BY <1>1 DEF ClaimCommit, SetRec, TypeOK
  <2>3. UNCHANGED revision
    BY <1>1 DEF ClaimCommit
  <2>4. revision[rec[r].node] \in Nat
    BY <2>1 DEF TypeOK
  <2> QED
    BY <2>2, <2>3, <2>4
<1>2. CASE ~ClaimCommit(r)
  <2>1. HasClaim(r) /\ rec'[r].node = rec[r].node /\ rec'[r].revision = rec[r].revision
    BY <1>2, ClaimSteps
  <2>2. rec[r].node \in Node /\ rec[r].revision \in Nat
    BY <2>1, TypeRec DEF HasClaim
  <2>3. rec[r].revision <= revision[rec[r].node] /\ revision[rec[r].node] \in Nat
    BY <2>1, <2>2 DEF ClaimInPast, TypeOK
  <2>4. revision'[rec[r].node] \in {revision[rec[r].node], revision[rec[r].node] + 1}
    BY <2>2, Quiet, RewriteMoves DEF Writes
  <2> QED
    BY <2>1, <2>2, <2>3, <2>4
<1> QED
  BY <1>1, <1>2

LEMMA ClaimCurrentStep ==
  ASSUME TypeOK, Grounded, ClaimInPast, ClaimCurrent, [Next]_vars
  PROVE  ClaimCurrent'
<1> SUFFICES ASSUME NEW r \in Reconciler, HasClaim(r)',
                    rec'[r].revision = revision'[rec'[r].node],
                    NEW a \in On(rec'[r].node), Carried(a)'
             PROVE  \/ version'[a] = rec'[r].set[a]
                    \/ rec'[r].set[a] = 0 /\ Wanted(a)' # Absent
  BY DEF ClaimCurrent, On
<1>0. a \in Access
  BY DEF On
<1>1. CASE ClaimCommit(r)
  <2>1. rec'[r].node = rec[r].node /\ UNCHANGED <<version, goal, retired, entitled>>
    BY <1>1 DEF ClaimCommit, SetRec, TypeOK, rowVars
  <2>2. rec'[r].set[a] = Due(a)
    BY <1>0, <1>1, <2>1 DEF ClaimCommit, SetRec, TypeOK
  <2> QED
    BY <2>1, <2>2 DEF Due, Wanted, At
<1>2. CASE ~ClaimCommit(r)
  <2>1. /\ HasClaim(r)
        /\ rec'[r].node = rec[r].node
        /\ rec'[r].revision = rec[r].revision
        /\ rec'[r].set = rec[r].set
    BY <1>2, ClaimSteps
  <2>2. /\ rec[r].node \in Node /\ rec[r].revision \in Nat
        /\ rec[r].revision <= revision[rec[r].node]
        /\ revision[rec[r].node] \in Nat
        /\ EntryNode[a] = rec[r].node
    BY <2>1, TypeRec DEF HasClaim, ClaimInPast, TypeOK, On
  <2>3. CASE Writes
    <3>1. PICK b \in Access, d \in Desired, i \in BOOLEAN : Rewrite(b, d, i)
      BY <2>3 DEF Writes
    <3>2. ~(i /\ EntryNode[b] = rec[r].node)
      BY <2>1, <2>2, <3>1, RewriteMoves
    <3>3. a # b
      BY <2>2, <3>1, <3>2, RewriteMoves
    <3>4. version'[a] = version[a] /\ status'[a] = status[a] /\ goal'[a] = goal[a]
      BY <1>0, <3>1, <3>3, RewriteMoves
    <3>5. rec[r].revision = revision[rec[r].node]
      BY <2>1, <2>2, <3>1, <3>2, RewriteMoves
    <3>6. Carried(a) /\ Wanted(a)' = Wanted(a)
      BY <3>4 DEF Carried, Wanted, At
    <3> QED
      BY <2>1, <3>4, <3>5, <3>6 DEF ClaimCurrent
  <2>4. CASE /\ UNCHANGED <<version, goal, revision>>
             /\ \A c \in Access, v \in Version :
                  status'[c][v] # "NONE" <=> status[c][v] # "NONE"
    <3>1. version[a] \in Nat /\ version[a] <= MaxVersion
      BY <1>0, DeliveryAssumption DEF TypeOK
    <3>2. version[a] > 0 /\ version[a] \in Version
      BY <2>4, <3>1, DeliveryAssumption DEF Carried, Version
    <3>3. Carried(a) /\ Wanted(a)' = Wanted(a)
      BY <1>0, <2>4, <3>2 DEF Carried, Wanted, At
    <3> QED
      BY <2>1, <2>4, <3>3 DEF ClaimCurrent
  <2> QED
    BY <2>3, <2>4, Quiet
<1> QED
  BY <1>1, <1>2

\* Besides the writers of desired state, only an outcome and an accepted full
\* set touch apply_state.
LEMMA ApplyStateMoves ==
  ASSUME TypeOK, [Next]_vars
  PROVE  \/ Writes
         \/ UNCHANGED applyState
         \/ \E w \in Worker : Record(w)
         \/ \E r \in Reconciler : Accept(r)
<1>1. CASE UNCHANGED vars
  BY <1>1 DEF vars, rowVars
<1>2. CASE Customer \/ \E b \in Access : Expire(b)
  <2>1. ASSUME NEW b \in Access, RenewInTime(b) \/ Lapse(b)
        PROVE  UNCHANGED applyState
    BY <2>1 DEF RenewInTime, Lapse
  <2> QED
    BY <1>2, <2>1, WritersWrite DEF Customer
<1>3. ASSUME NEW w \in Worker, Dispatch(w), ~Record(w)
      PROVE  UNCHANGED applyState
  BY <1>3 DEF Dispatch, BeginReap, EndReap, LeaseNext, Deliver, Succeed, Refuse,
              GiveUp, Crash, rowVars
<1>4. ASSUME NEW r \in Reconciler, Reconcile(r), ~Accept(r)
      PROVE  UNCHANGED applyState
  BY <1>4 DEF Reconcile, ClaimSnapshot, ClaimLost, ClaimCommit, Observe, Reconciled,
              ReconcileFails, Release, CrashReconciler, rowVars
<1>5. CASE (\E n \in Node : NodeStep(n)) \/ ArriveLate
  BY <1>5 DEF NodeStep, Drop, Restore, Lose, PullReports, ReconcileLeaseExpires,
              ArriveLate, rowVars
<1> QED
  BY <1>1, <1>2, <1>3, <1>4, <1>5 DEF Next

LEMMA AppliedStep ==
  ASSUME TypeOK, Grounded, AppliedWasExecuted, OutcomeConfirmed, SetConfirmed,
         ClaimCurrent, [Next]_vars
  PROVE  AppliedWasExecuted'
<1> SUFFICES ASSUME NEW a \in Access, applyState'[a] = "APPLIED", Carried(a)'
             PROVE  reached'[a] >= version'[a]
  BY DEF AppliedWasExecuted, Carried
<1>0. /\ reached[a] \in Nat /\ reached'[a] \in Nat /\ reached'[a] >= reached[a]
      /\ version[a] \in Nat /\ version[a] <= MaxVersion
  BY ReachedGrows, DeliveryAssumption DEF TypeOK
<1>1. CASE Writes
  <2>1. PICK b \in Access, d \in Desired, i \in BOOLEAN : Rewrite(b, d, i)
    BY <1>1 DEF Writes
  <2>2. a # b
    BY <2>1, RewriteMoves
  <2>3. version'[a] = version[a] /\ status'[a] = status[a] /\ applyState'[a] = applyState[a]
    BY <2>1, <2>2, RewriteMoves
  <2> QED
    BY <1>0, <2>3 DEF AppliedWasExecuted, Carried
<1>2. CASE /\ UNCHANGED <<version, goal, revision>>
           /\ \A c \in Access, v \in Version :
                status'[c][v] # "NONE" <=> status[c][v] # "NONE"
  <2>1. version[a] \in Version /\ version'[a] = version[a]
    BY <1>0, <1>2, DeliveryAssumption DEF Carried, Version
  <2>2. Carried(a)
    BY <1>2, <2>1 DEF Carried
  <2>3. CASE applyState'[a] = applyState[a]
    BY <1>0, <2>1, <2>2, <2>3 DEF AppliedWasExecuted, Carried
  <2>4. ASSUME NEW w \in Worker, Record(w), applyState'[a] # applyState[a]
        PROVE  reached[a] >= version[a]
    <3>1. /\ a = task[w].access /\ Fresh(a, task[w].version)
          /\ PlannedState(task[w].outcome) = "APPLIED"
      BY <2>4 DEF Record, TypeOK
    <3>2. task[w].outcome = "SUCCEEDED"
      BY <2>4, <3>1, TypeTask DEF Record, PlannedState, Outcome
    <3> QED
      BY <2>4, <3>1, <3>2 DEF OutcomeConfirmed, Record, Fresh
  <2>5. ASSUME NEW r \in Reconciler, Accept(r), applyState'[a] # applyState[a]
        PROVE  reached[a] >= version[a]
    <3>1. Acceptable(r) /\ Satisfied(r, a)
      BY <2>5 DEF Accept, TypeOK
    <3>2. rec[r].pc = "answered" /\ HasClaim(r) /\ a \in On(rec[r].node)
      BY <2>5, <3>1 DEF Accept, HasClaim, Satisfied
    <3>3. \/ version[a] = rec[r].set[a]
          \/ rec[r].set[a] = 0 /\ Wanted(a) # Absent
      BY <2>2, <3>1, <3>2 DEF ClaimCurrent, Acceptable
    <3>4. version[a] = rec[r].set[a]
      BY <3>1, <3>3 DEF Satisfied, At
    <3> QED
      BY <3>2, <3>4 DEF SetConfirmed
  <2>6. ~Writes
    BY <1>0, <1>2, RewriteMoves DEF Writes, TypeOK
  <2> QED
    BY <1>0, <2>1, <2>3, <2>4, <2>5, <2>6, ApplyStateMoves
<1> QED
  BY <1>1, <1>2, Quiet

\* A version that had an operation counts as APPLIED only once the agent has
\* executed it, whatever leases run out, answers are lost or claims overtaken.
THEOREM AppliedExecuted == Spec => []AppliedWasExecuted
<1> DEFINE Inv == /\ AppliedWasExecuted /\ OutcomeConfirmed /\ SetConfirmed
                  /\ ClaimInPast /\ ClaimCurrent
<1>1. Init => Inv
  BY DEF Init, AppliedWasExecuted, OutcomeConfirmed, SetConfirmed, ClaimInPast,
         ClaimCurrent, HasClaim, Idle
<1>2. TypeOK /\ Grounded /\ Inv /\ [Next]_vars => Inv'
  BY AppliedStep, OutcomeStep, SetStep, ClaimPastStep, ClaimCurrentStep
<1>3. Inv => AppliedWasExecuted
  OBVIOUS
<1> QED
  <2> HIDE DEF Inv
  <2> QED
    BY <1>1, <1>2, <1>3, TypeCorrect, Ownership, PTL DEF Spec

-----------------------------------------------------------------------------
(* The full set alone on its node. *)

\* The two gates close on each other: a claim holds the node's lease, and
\* nothing is IN_FLIGHT on the node as long as the claim lasts.
ClaimHoldsLease ==
  \A r \in Reconciler : HasClaim(r) => reconcileLease[rec[r].node] = r

ClaimKeepsOut ==
  \A r \in Reconciler : HasClaim(r) => ~InFlightOn(rec[r].node)

LEMMA LeaseMoves ==
  ASSUME TypeOK, [Next]_vars
  PROVE  \/ UNCHANGED reconcileLease
         \/ \E r \in Reconciler : ClaimCommit(r) \/ Release(r)
         \/ \E n \in Node : ReconcileLeaseExpires(n)
<1>1. CASE UNCHANGED vars
  BY <1>1 DEF vars, nodeVars
<1>2. CASE Customer \/ \E a \in Access : Expire(a)
  BY <1>2 DEF Customer, Insert, Enable, RenewInTime, Lapse, Exhaust, ForceAbsent,
              Retire, Repoint, Expire, Rewrite, nodeVars
<1>3. CASE \E w \in Worker : Dispatch(w)
  BY <1>3 DEF Dispatch, BeginReap, EndReap, LeaseNext, Deliver, Succeed, Refuse,
              GiveUp, Record, Crash, nodeVars
<1>4. ASSUME NEW r \in Reconciler, Reconcile(r)
      PROVE  UNCHANGED reconcileLease \/ ClaimCommit(r) \/ Release(r)
  BY <1>4 DEF Reconcile, ClaimSnapshot, ClaimLost, Observe, Reconciled,
              ReconcileFails, Accept, CrashReconciler, nodeVars
<1>5. CASE (\E n \in Node : NodeStep(n)) \/ ArriveLate
  BY <1>5 DEF NodeStep, Drop, Restore, Lose, PullReports, ArriveLate, nodeVars
<1> QED
  BY <1>1, <1>2, <1>3, <1>4, <1>5 DEF Next

LEMMA ClaimLeaseStep ==
  ASSUME TypeOK, ClaimHoldsLease, LeaseCoversCall, [Next]_vars
  PROVE  ClaimHoldsLease'
<1> SUFFICES ASSUME NEW r \in Reconciler, HasClaim(r)'
             PROVE  reconcileLease'[rec'[r].node] = r
  BY DEF ClaimHoldsLease
<1>0. reconcileLease \in [Node -> Reconciler \cup {Free}] /\ rec \in [Reconciler -> Rec]
  BY DEF TypeOK
<1>1. CASE ClaimCommit(r)
  <2>1. rec[r].node \in Node
    BY <1>1, TypeRec DEF ClaimCommit
  <2> QED
    BY <1>0, <1>1, <2>1 DEF ClaimCommit, SetRec
<1>2. CASE ~ClaimCommit(r)
  <2> DEFINE n == rec[r].node
  <2>1. HasClaim(r) /\ rec'[r].node = n
    BY <1>2, ClaimSteps
  <2>2. n \in Node /\ reconcileLease[n] = r /\ r # Free
    BY <2>1, TypeRec, DeliveryAssumption DEF HasClaim, ClaimHoldsLease
  <2>3. CASE UNCHANGED reconcileLease
    BY <2>1, <2>2, <2>3
  <2>4. ASSUME NEW q \in Reconciler, ClaimCommit(q)
        PROVE  reconcileLease'[n] = r
    <3>1. rec[q].node # n
      BY <2>2, <2>4 DEF ClaimCommit, Claimable
    <3> QED
      BY <1>0, <2>2, <2>4, <3>1 DEF ClaimCommit
  <2>5. ASSUME NEW q \in Reconciler, Release(q)
        PROVE  reconcileLease'[n] = r
    <3>1. q # r
      BY <2>1, <2>5 DEF Release, HasClaim
    <3> QED
      BY <1>0, <2>2, <2>5, <3>1 DEF Release
  <2>6. ASSUME NEW m \in Node, ReconcileLeaseExpires(m)
        PROVE  reconcileLease'[n] = r
    <3>1. Busy(r, n)
      BY <2>1 DEF Busy, HasClaim
    <3>2. m # n
      BY <2>2, <2>6, <3>1 DEF ReconcileLeaseExpires
    <3> QED
      BY <1>0, <2>2, <2>6, <3>2 DEF ReconcileLeaseExpires
  <2> QED
    BY <2>1, <2>3, <2>4, <2>5, <2>6, LeaseMoves
<1> QED
  BY <1>1, <1>2

\* Only LeaseNext puts an operation in flight.
LEMMA Takeoffs ==
  ASSUME TypeOK, [Next]_vars
  PROVE  \/ \A a \in Access, v \in Version :
              status'[a][v] = "IN_FLIGHT" => status[a][v] = "IN_FLIGHT"
         \/ \E w \in Worker, b \in Access : LeaseNext(w, b)
<1>1. CASE UNCHANGED <<version, status, task>>
  BY <1>1
<1>2. CASE Writes
  BY <1>2, RewriteStatus DEF Writes
<1>3. ASSUME NEW w \in Worker, Works(w) \/ EndReap(w) \/ Record(w)
      PROVE  \A a \in Access, v \in Version :
               status'[a][v] = "IN_FLIGHT" => status[a][v] = "IN_FLIGHT"
  BY <1>3, WorkKeeps, EndReapStatus, RecordStatus DEF Terminal
<1>4. ASSUME NEW r \in Reconciler, Accept(r)
      PROVE  \A a \in Access, v \in Version :
               status'[a][v] = "IN_FLIGHT" => status[a][v] = "IN_FLIGHT"
  BY <1>4, AcceptStatus
<1> QED
  BY <1>1, <1>2, <1>3, <1>4, Classes

LEMMA ClaimKeepsOutStep ==
  ASSUME TypeOK, ClaimHoldsLease, ClaimKeepsOut, "overtake" \notin Events, [Next]_vars
  PROVE  ClaimKeepsOut'
<1> SUFFICES ASSUME NEW r \in Reconciler, HasClaim(r)'
             PROVE  ~InFlightOn(rec[r].node)'
  BY DEF ClaimKeepsOut
<1>0. rec \in [Reconciler -> Rec]
  BY DEF TypeOK
<1>1. CASE ClaimCommit(r)
  <2>1. ~InFlightOn(rec[r].node) /\ UNCHANGED status
    BY <1>1 DEF ClaimCommit, Spend, rowVars
  <2>2. rec'[r].node = rec[r].node
    BY <1>0, <1>1 DEF ClaimCommit, SetRec
  <2> QED
    BY <2>1, <2>2 DEF InFlightOn
<1>2. CASE ~ClaimCommit(r)
  <2> DEFINE n == rec[r].node
  <2>1. HasClaim(r) /\ rec'[r].node = n
    BY <1>2, ClaimSteps
  <2>2. /\ n \in Node /\ reconcileLease[n] = r /\ r # Free
        /\ ~InFlightOn(n)
    BY <2>1, TypeRec, DeliveryAssumption DEF HasClaim, ClaimHoldsLease, ClaimKeepsOut
  <2>3. CASE \A a \in Access, v \in Version :
               status'[a][v] = "IN_FLIGHT" => status[a][v] = "IN_FLIGHT"
    BY <2>1, <2>2, <2>3 DEF InFlightOn, On
  <2>4. ASSUME NEW w \in Worker, NEW b \in Access, LeaseNext(w, b)
        PROVE  ~InFlightOn(rec[r].node)'
    <3>1. EntryNode[b] # n
      BY <2>2, <2>4 DEF LeaseNext, Gate
    <3>2. \A a \in Access \ {b}, v \in Version : status'[a][v] = status[a][v]
      BY <2>4, LeaseNextStatus
    <3> QED
      BY <2>1, <2>2, <3>1, <3>2 DEF InFlightOn, On
  <2> QED
    BY <2>3, <2>4, Takeoffs
<1> QED
  BY <1>1, <1>2

\* While leases outlast their holders and no claim overtakes a lease that is
\* just being written, a full set on its way to a node is alone there: no
\* dispatch worker and no reconciler of another replica talks to that node.
THEOREM FenceHolds ==
  ASSUME LeaseCoversCall, "overtake" \notin Events
  PROVE  Spec => []Fence
<1>1. Init => ClaimHoldsLease /\ ClaimKeepsOut
  BY DEF Init, ClaimHoldsLease, ClaimKeepsOut, HasClaim, Idle
<1>2. TypeOK /\ ClaimHoldsLease /\ ClaimKeepsOut /\ [Next]_vars
        => (ClaimHoldsLease /\ ClaimKeepsOut)'
  BY ClaimLeaseStep, ClaimKeepsOutStep
<1>3. ASSUME TypeOK, Owned, ClaimHoldsLease, ClaimKeepsOut
      PROVE  Fence
  <2> SUFFICES ASSUME NEW r \in Reconciler, rec[r].pc = "calling"
               PROVE  /\ \A w \in Worker : ~Calling(w, rec[r].node)
                      /\ \A q \in Reconciler \ {r} :
                            ~(rec[q].pc = "calling" /\ rec[q].node = rec[r].node)
    BY DEF Fence
  <2>1. reconcileLease[rec[r].node] = r /\ ~InFlightOn(rec[r].node)
    BY <1>3 DEF HasClaim, ClaimHoldsLease, ClaimKeepsOut
  <2>2. ASSUME NEW w \in Worker, Calling(w, rec[r].node)
        PROVE  FALSE
    <3>1. Active(w) /\ EntryNode[task[w].access] = rec[r].node
      BY <2>2 DEF Calling, NodeOf, Active
    <3>2. /\ status[task[w].access][task[w].version] = "IN_FLIGHT"
          /\ task[w].access \in Access /\ task[w].version \in Version
      BY <1>3, <3>1, ActiveTask DEF Owned
    <3> QED
      BY <2>1, <3>1, <3>2 DEF InFlightOn, On
  <2>3. ASSUME NEW q \in Reconciler \ {r}, rec[q].pc = "calling",
               rec[q].node = rec[r].node
        PROVE  FALSE
    BY <1>3, <2>1, <2>3 DEF HasClaim, ClaimHoldsLease
  <2> QED
    BY <2>2, <2>3
<1> QED
  BY <1>1, <1>2, <1>3, TypeCorrect, Ownership, PTL DEF Spec

-----------------------------------------------------------------------------
(* What SUCCEEDED says.                                                    *)
(*                                                                         *)
(* A full set leaves out a customer whose period ended although the row    *)
(* still says PRESENT; accepting it would close an operation that never    *)
(* ran.  Without such a lapse a full set covers every operation it closes. *)

EntitledIfPresent ==
  \A a \in Access : Wanted(a) # Absent => retired[a] \/ entitled[a]

ClaimCovers ==
  \A r \in Reconciler :
    HasClaim(r) /\ rec[r].revision = revision[rec[r].node] =>
      \A a \in On(rec[r].node), v \in Version :
        status[a][v] # "NONE" => v <= rec[r].set[a]

LEMMA WantedAfter ==
  ASSUME TypeOK, Grounded, NEW b \in Access, NEW d \in Desired, NEW i \in BOOLEAN,
         Rewrite(b, d, i)
  PROVE  /\ Wanted(b)' = d
         /\ \A a \in Access \ {b} : Wanted(a)' = Wanted(a)
<1>1. version[b] \in Nat /\ version'[b] = version[b] + 1 /\ version'[b] \in Version
  BY RewriteMoves, DeliveryAssumption DEF TypeOK
<1>2. goal'[b][version'[b]] = d
  BY <1>1 DEF Rewrite, TypeOK
<1>3. version'[b] # 0
  BY <1>1
<1>4. \A a \in Access \ {b} : version'[a] = version[a] /\ goal'[a] = goal[a]
  BY RewriteMoves
<1> QED
  BY <1>2, <1>3, <1>4 DEF Wanted, At

LEMMA EntitledStep ==
  ASSUME TypeOK, Grounded, EntitledIfPresent, "lapse" \notin Events, [Next]_vars
  PROVE  EntitledIfPresent'
<1>0. /\ retired \in [Access -> BOOLEAN] /\ entitled \in [Access -> BOOLEAN]
      /\ egress \in [Access -> Config]
      /\ \A c \in Config : c \in Desired
      /\ Absent \in Desired
  BY DEF TypeOK, Desired
<1>a. ASSUME UNCHANGED <<version, goal, retired, entitled>>
      PROVE  EntitledIfPresent'
  BY <1>a DEF EntitledIfPresent, Wanted, At
\* What a writer leaves behind for the access b it rewrites decides.
<1>b. ASSUME NEW b \in Access, NEW d \in Desired, NEW i \in BOOLEAN,
             Rewrite(b, d, i),
             d # Absent => retired'[b] \/ entitled'[b],
             \A a \in Access \ {b} : retired'[a] = retired[a] /\ entitled'[a] = entitled[a]
      PROVE  EntitledIfPresent'
  BY <1>b, WantedAfter DEF EntitledIfPresent
<1>1. ASSUME NEW b \in Access, Insert(b)
      PROVE  EntitledIfPresent'
  <2>1. (IF entitled[b] THEN egress[b] ELSE Absent) \in Desired /\ entitled[b] \in BOOLEAN
    BY <1>0
  <2> QED
    BY <1>1, <1>b, <2>1 DEF Insert
<1>2. ASSUME NEW b \in Access, Enable(b)
      PROVE  EntitledIfPresent'
  BY <1>0, <1>2, <1>b DEF Enable
<1>3. ASSUME NEW b \in Access, Exhaust(b)
      PROVE  EntitledIfPresent'
  BY <1>0, <1>3, <1>b DEF Exhaust
<1>4. ASSUME NEW b \in Access, Expire(b)
      PROVE  EntitledIfPresent'
  BY <1>0, <1>4, <1>b DEF Expire
<1>5. ASSUME NEW b \in Access, ForceAbsent(b)
      PROVE  EntitledIfPresent'
  <2>1. current[EntryNode[b]] \in BOOLEAN
    BY DeliveryAssumption DEF TypeOK
  <2> QED
    BY <1>0, <1>5, <1>b, <2>1 DEF ForceAbsent
<1>6. ASSUME NEW b \in Access, Retire(b)
      PROVE  EntitledIfPresent'
  <2>1. (current[EntryNode[b]] /\ Wanted(b) # Absent) \in BOOLEAN
    BY DeliveryAssumption DEF TypeOK
  <2> QED
    BY <1>0, <1>6, <1>b, <2>1 DEF Retire
<1>7. ASSUME NEW b \in Access, Repoint(b)
      PROVE  EntitledIfPresent'
  <2>1. PICK c \in Config : Rewrite(b, IF entitled[b] THEN c ELSE Absent, TRUE)
    BY <1>7 DEF Repoint
  <2>2. (IF entitled[b] THEN c ELSE Absent) \in Desired
    BY <1>0
  <2> QED
    BY <1>7, <1>b, <2>1, <2>2 DEF Repoint
<1>8. ASSUME NEW b \in Access, RenewInTime(b)
      PROVE  EntitledIfPresent'
  BY <1>0, <1>8 DEF RenewInTime, EntitledIfPresent, Wanted, At
<1>9. ASSUME NEW b \in Access, Lapse(b)
      PROVE  EntitledIfPresent'
  BY <1>9 DEF Lapse, Spend
<1>10. CASE UNCHANGED vars
  BY <1>10, <1>a DEF vars, rowVars
<1>11. CASE \E w \in Worker : Dispatch(w)
  BY <1>11, <1>a DEF Dispatch, BeginReap, EndReap, LeaseNext, Deliver, Succeed, Refuse,
     GiveUp, Record, Crash, rowVars
<1>12. CASE \E r \in Reconciler : Reconcile(r)
  BY <1>12, <1>a DEF Reconcile, ClaimSnapshot, ClaimLost, ClaimCommit, Observe,
     Reconciled, ReconcileFails, Accept, Release, CrashReconciler, rowVars
<1>13. CASE (\E n \in Node : NodeStep(n)) \/ ArriveLate
  BY <1>13, <1>a DEF NodeStep, Drop, Restore, Lose, PullReports, ReconcileLeaseExpires,
     ArriveLate, rowVars
<1> QED
  BY <1>1, <1>2, <1>3, <1>4, <1>5, <1>6, <1>7, <1>8, <1>9, <1>10, <1>11, <1>12, <1>13
     DEF Next, Customer

LEMMA ClaimCoversStep ==
  ASSUME TypeOK, Grounded, EntitledIfPresent, ClaimInPast, ClaimCovers, [Next]_vars
  PROVE  ClaimCovers'
<1> SUFFICES ASSUME NEW r \in Reconciler, HasClaim(r)',
                    rec'[r].revision = revision'[rec'[r].node],
                    NEW a \in On(rec'[r].node), NEW v \in Version,
                    status'[a][v] # "NONE"
             PROVE  v <= rec'[r].set[a]
  BY DEF ClaimCovers, On
<1>0. a \in Access /\ version[a] \in Nat /\ v \in Nat
  BY DeliveryAssumption DEF On, TypeOK, Version
<1>1. CASE ClaimCommit(r)
  <2>1. rec'[r].node = rec[r].node /\ UNCHANGED status
    BY <1>1 DEF ClaimCommit, SetRec, TypeOK, rowVars
  <2>2. rec'[r].set[a] = Due(a)
    BY <1>0, <1>1, <2>1 DEF ClaimCommit, SetRec, TypeOK
  <2>3. Due(a) = version[a]
    BY <1>0 DEF Due, EntitledIfPresent
  <2> QED
    BY <1>0, <2>1, <2>2, <2>3 DEF Grounded
<1>2. CASE ~ClaimCommit(r)
  <2>1. /\ HasClaim(r)
        /\ rec'[r].node = rec[r].node
        /\ rec'[r].revision = rec[r].revision
        /\ rec'[r].set = rec[r].set
    BY <1>2, ClaimSteps
  <2>2. /\ rec[r].node \in Node /\ rec[r].revision \in Nat
        /\ rec[r].revision <= revision[rec[r].node]
        /\ revision[rec[r].node] \in Nat
        /\ EntryNode[a] = rec[r].node
    BY <2>1, TypeRec DEF HasClaim, ClaimInPast, TypeOK, On
  <2>3. CASE Writes
    <3>1. PICK b \in Access, d \in Desired, i \in BOOLEAN : Rewrite(b, d, i)
      BY <2>3 DEF Writes
    <3>2. ~(i /\ EntryNode[b] = rec[r].node)
      BY <2>1, <2>2, <3>1, RewriteMoves
    <3>3. rec[r].revision = revision[rec[r].node]
      BY <2>1, <2>2, <3>1, <3>2, RewriteMoves
    <3>4. status[a][v] # "NONE"
      <4>1. CASE a # b
        BY <3>1, <4>1, <1>0, RewriteMoves
      <4>2. CASE a = b
        <5>1. ~i
          BY <2>2, <3>2, <4>2
        <5>2. status'[a][v] = Overtake(status[a][v])
          BY <1>0, <3>1, <4>2, <5>1 DEF Rewrite, TypeOK
        <5> QED
          BY <5>2 DEF Overtake, Waiting
      <4> QED
        BY <4>1, <4>2
    <3> QED
      BY <2>1, <3>3, <3>4 DEF ClaimCovers
  <2>4. CASE /\ UNCHANGED <<version, goal, revision>>
             /\ \A c \in Access, x \in Version :
                  status'[c][x] # "NONE" <=> status[c][x] # "NONE"
    BY <1>0, <2>1, <2>4 DEF ClaimCovers
  <2> QED
    BY <2>3, <2>4, Quiet
<1> QED
  BY <1>1, <1>2

LEMMA SucceededStep ==
  ASSUME TypeOK, Grounded, OutcomeConfirmed, SetConfirmed, ClaimCovers,
         SucceededWasExecuted, [Next]_vars
  PROVE  SucceededWasExecuted'
<1> SUFFICES ASSUME NEW a \in Access, NEW v \in Version, status'[a][v] = "SUCCEEDED"
             PROVE  reached'[a] >= v
  BY DEF SucceededWasExecuted
<1>0. /\ reached[a] \in Nat /\ reached'[a] \in Nat /\ reached'[a] >= reached[a]
      /\ v \in Nat
  BY ReachedGrows, DeliveryAssumption DEF Version
<1>a. CASE status[a][v] = "SUCCEEDED"
  BY <1>0, <1>a DEF SucceededWasExecuted
<1>b. CASE status[a][v] # "SUCCEEDED"
  <2>1. CASE UNCHANGED <<version, status, task>>
    BY <1>b, <2>1
  <2>2. CASE Writes
    BY <1>b, <2>2, RewriteStatus DEF Writes
  <2>3. ASSUME NEW w \in Worker, Works(w) \/ EndReap(w)
        PROVE  FALSE
    BY <1>b, <2>3, WorkKeeps, EndReapStatus
  <2>4. ASSUME NEW w \in Worker, Record(w)
        PROVE  reached[a] >= v
    <3>1. a = task[w].access /\ v = task[w].version
      BY <1>b, <2>4, RecordStatus
    <3>2. status'[a][v] = PlannedStatus(task[w].outcome, Fresh(a, v))
      BY <2>4, <3>1 DEF Record, SetStatus, TypeOK
    <3>3. task[w].outcome = "SUCCEEDED" /\ task[w].pc = "answered"
      BY <2>4, <3>2, TypeTask DEF Record, PlannedStatus, Outcome
    <3> QED
      BY <3>1, <3>3 DEF OutcomeConfirmed
  <2>5. ASSUME NEW w \in Worker, NEW b \in Access, LeaseNext(w, b)
        PROVE  FALSE
    BY <1>b, <2>5, LeaseNextStatus
  <2>6. ASSUME NEW r \in Reconciler, Accept(r)
        PROVE  reached[a] >= v
    <3>1. /\ Acceptable(r) /\ a \in On(rec[r].node) /\ status[a][v] \in Waiting
          /\ rec[r].pc = "answered"
      BY <1>b, <2>6 DEF Accept, TypeOK
    <3>2. HasClaim(r) /\ rec[r].set \in FullSet
      BY <3>1, TypeRec DEF HasClaim
    <3>3. v <= rec[r].set[a] /\ rec[r].set[a] \in Nat
      BY <3>1, <3>2, DeliveryAssumption DEF ClaimCovers, Acceptable, Waiting, FullSet
    <3>4. reached[a] >= rec[r].set[a]
      BY <3>1 DEF SetConfirmed
    <3> QED
      BY <1>0, <3>3, <3>4
  <2> QED
    BY <1>0, <2>1, <2>2, <2>3, <2>4, <2>5, <2>6, Classes, <1>b
<1> QED
  BY <1>a, <1>b

\* As long as no customer's period ends unnoticed, an operation is closed as
\* SUCCEEDED only after the agent executed its version or a later one, though
\* a reconcile closes operations it never looked at one by one.
THEOREM SucceededExecuted ==
  ASSUME "lapse" \notin Events
  PROVE  Spec => []SucceededWasExecuted
<1> DEFINE Inv == /\ SucceededWasExecuted /\ OutcomeConfirmed /\ SetConfirmed
                  /\ EntitledIfPresent /\ ClaimInPast /\ ClaimCovers
<1>1. Init => Inv
  BY DEF Init, SucceededWasExecuted, OutcomeConfirmed, SetConfirmed, ClaimInPast,
         EntitledIfPresent, ClaimCovers, HasClaim, Idle, Wanted, At
<1>2. TypeOK /\ Grounded /\ Inv /\ [Next]_vars => Inv'
  BY SucceededStep, OutcomeStep, SetStep, EntitledStep, ClaimPastStep, ClaimCoversStep
<1>3. Inv => SucceededWasExecuted
  OBVIOUS
<1> QED
  <2> HIDE DEF Inv
  <2> QED
    BY <1>1, <1>2, <1>3, TypeCorrect, Ownership, PTL DEF Spec

-----------------------------------------------------------------------------
(* No work is lost.                                                        *)
(*                                                                         *)
(* An accepted full set closes every waiting operation of the node but     *)
(* marks APPLIED only what it satisfied.  The two are the same accesses    *)
(* when none is retired and none is left out of the set.                   *)

NoneRetired == \A a \in Access : ~retired[a]

UnconfirmedExists ==
  \A a \in Access : applyState[a] \in {"PENDING", "RETRYING"} => version[a] > 0

\* A reaper never thinks the access newer than it is.
SeenInPast ==
  \A w \in Worker :
    task[w].pc = "reaping" => task[w].seen <= version[task[w].access]

LEMMA NoneRetiredStep ==
  ASSUME NoneRetired, TypeOK, "retire" \notin Events, [Next]_vars
  PROVE  NoneRetired'
<1>1. CASE UNCHANGED vars
  BY <1>1 DEF NoneRetired, vars, rowVars
<1>2. CASE Customer \/ \E a \in Access : Expire(a)
  BY <1>2 DEF NoneRetired, Customer, Insert, Enable, RenewInTime, Lapse, Exhaust,
              ForceAbsent, Retire, Repoint, Expire, Spend
<1>3. CASE \E w \in Worker : Dispatch(w)
  BY <1>3 DEF NoneRetired, Dispatch, BeginReap, EndReap, LeaseNext, Deliver, Succeed,
              Refuse, GiveUp, Record, Crash, rowVars
<1>4. CASE \E r \in Reconciler : Reconcile(r)
  BY <1>4 DEF NoneRetired, Reconcile, ClaimSnapshot, ClaimLost, ClaimCommit, Observe,
              Reconciled, ReconcileFails, Accept, Release, CrashReconciler, rowVars
<1>5. CASE (\E n \in Node : NodeStep(n)) \/ ArriveLate
  BY <1>5 DEF NoneRetired, NodeStep, Drop, Restore, Lose, PullReports,
              ReconcileLeaseExpires, ArriveLate, rowVars
<1> QED
  BY <1>1, <1>2, <1>3, <1>4, <1>5 DEF Next

LEMMA VersionGrows ==
  ASSUME TypeOK, Grounded, [Next]_vars
  PROVE  \A a \in Access :
           version[a] \in Nat /\ version'[a] \in Nat /\ version'[a] >= version[a]
<1>1. \A a \in Access : version[a] \in Nat
  BY DeliveryAssumption DEF TypeOK
<1>2. CASE Writes
  <2>1. PICK b \in Access, d \in Desired, i \in BOOLEAN : Rewrite(b, d, i)
    BY <1>2 DEF Writes
  <2> QED
    BY <1>1, <2>1, RewriteMoves
<1>3. CASE UNCHANGED version
  BY <1>1, <1>3
<1> QED
  BY <1>2, <1>3, Quiet

LEMMA SeenStep ==
  ASSUME TypeOK, Grounded, SeenInPast, [Next]_vars
  PROVE  SeenInPast'
<1> SUFFICES ASSUME NEW w \in Worker, task'[w].pc = "reaping"
             PROVE  task'[w].seen <= version'[task'[w].access]
  BY DEF SeenInPast
<1>0. task \in [Worker -> Task]
  BY DEF TypeOK
<1>1. CASE task'[w] = task[w]
  <2>1. task[w] \in Task /\ task[w].pc = "reaping"
    BY <1>0, <1>1
  <2>2. task[w].access \in Access /\ task[w].seen \in 0 .. MaxVersion
    BY <2>1, TaskFields
  <2>3. task[w].seen <= version[task[w].access]
    BY <2>1 DEF SeenInPast
  <2>4. /\ version[task[w].access] \in Nat /\ version'[task[w].access] \in Nat
        /\ version'[task[w].access] >= version[task[w].access]
    BY <2>2, VersionGrows
  <2> QED
    BY <1>1, <2>2, <2>3, <2>4, DeliveryAssumption
<1>2. ASSUME NEW u \in Worker, BeginReap(u)
      PROVE  task'[w].seen <= version'[task'[w].access]
  <2>1. PICK a \in Access, v \in Version :
          task' = [task EXCEPT ![u] = [pc |-> "reaping", access |-> a, version |-> v,
                                       seen |-> version[a]]]
    BY <1>2 DEF BeginReap, SetTask
  <2>2. UNCHANGED version /\ version[a] \in Nat
    BY <1>2, DeliveryAssumption DEF BeginReap, rowVars, TypeOK
  <2> QED
    BY <1>0, <1>1, <2>1, <2>2
<1>3. ASSUME NEW u \in Worker,
             Deliver(u) \/ Succeed(u) \/ Refuse(u) \/ GiveUp(u) \/ Crash(u)
      PROVE  task'[w] = task[w]
  <2>1. CASE u # w
    BY <1>0, <1>3, <2>1 DEF Deliver, Succeed, Refuse, GiveUp, Crash, Answered, SetTask
  <2>2. CASE u = w
    <3>1. Works(w)
      BY <1>3, <2>2 DEF Works
    <3>2. CASE Crash(w)
      BY <1>0, <3>2 DEF Crash, SetTask, Idle
    <3>3. CASE Succeed(w) \/ Refuse(w) \/ GiveUp(w)
      BY <1>0, <3>3 DEF Succeed, Refuse, GiveUp, Answered, SetTask
    <3>4. CASE Deliver(w)
      <4>1. task[w] \in [pc : {"reaping", "leased", "calling"}, access : Access,
                         version : Version, seen : 0 .. MaxVersion]
        BY <1>0, <3>4 DEF Deliver, Task, Idle
      <4> QED
        BY <1>0, <3>4, <4>1 DEF Deliver, Answered, SetTask
    <3> QED
      BY <1>3, <2>2, <3>2, <3>3, <3>4
  <2> QED
    BY <2>1, <2>2
<1>4. ASSUME NEW u \in Worker, EndReap(u) \/ Record(u)
      PROVE  task'[w] = task[w]
  <2>1. task' = [task EXCEPT ![u] = Idle]
    BY <1>4, EndReapStatus, RecordStatus
  <2> QED
    BY <1>0, <2>1 DEF Idle
<1>5. ASSUME NEW u \in Worker, NEW b \in Access, LeaseNext(u, b)
      PROVE  task'[w] = task[w]
  <2>1. PICK x \in Version :
          task' = [task EXCEPT ![u] = [pc |-> "leased", access |-> b, version |-> x,
                                       seen |-> version[b]]]
    BY <1>5, LeaseNextStatus
  <2> QED
    BY <1>0, <2>1
<1>6. CASE UNCHANGED task
  BY <1>1, <1>6
<1>7. CASE Writes
  BY <1>6, <1>7 DEF Writes, Rewrite
<1>8. CASE \E r \in Reconciler : Accept(r)
  BY <1>6, <1>8, AcceptStatus
<1> QED
  BY <1>1, <1>2, <1>3, <1>4, <1>5, <1>6, <1>7, <1>8, Classes DEF Works

LEMMA NoLostStep ==
  ASSUME TypeOK, Grounded, NoLostWork, UnconfirmedExists, SeenInPast, NoneRetired,
         ClaimCurrent, ClaimCovers, [Next]_vars
  PROVE  NoLostWork' /\ UnconfirmedExists'
<1> SUFFICES ASSUME NEW a \in Access, applyState'[a] \in {"PENDING", "RETRYING"}
             PROVE  status'[a][version'[a]] \in Open /\ version'[a] > 0
  BY DEF NoLostWork, UnconfirmedExists
<1> USE DEF Open, Waiting
<1>0. version[a] \in Nat /\ version[a] <= MaxVersion
  BY DeliveryAssumption DEF TypeOK
<1>1. CASE Writes
  <2>1. PICK b \in Access, d \in Desired, i \in BOOLEAN : Rewrite(b, d, i)
    BY <1>1 DEF Writes
  <2>2. CASE a # b
    BY <1>0, <2>1, <2>2, RewriteMoves DEF NoLostWork, UnconfirmedExists
  <2>3. CASE a = b
    <3>1. version'[a] = version[a] + 1 /\ version'[a] \in Version
      BY <2>1, <2>3, RewriteMoves
    <3>2. i
      BY <2>1, <2>3 DEF Rewrite, TypeOK
    <3>3. status'[a][version[a] + 1] = "PENDING"
      BY <2>1, <2>3, <3>1, <3>2 DEF Rewrite, TypeOK
    <3> QED
      BY <1>0, <3>1, <3>3
  <2> QED
    BY <2>2, <2>3
<1>2. ASSUME UNCHANGED version, applyState'[a] = applyState[a],
             status[a][version[a]] \in Open => status'[a][version[a]] \in Open
      PROVE  status'[a][version'[a]] \in Open /\ version'[a] > 0
  BY <1>0, <1>2 DEF NoLostWork, UnconfirmedExists
<1>3. ASSUME NEW w \in Worker, Record(w)
      PROVE  status'[a][version'[a]] \in Open /\ version'[a] > 0
  <2> DEFINE b == task[w].access
             v == task[w].version
             o == task[w].outcome
  <2>1. b \in Access /\ v \in Version /\ o \in Outcome /\ UNCHANGED version
    BY <1>3, TypeTask DEF Record
  <2>2. status' = [status EXCEPT ![b][v] = PlannedStatus(o, Fresh(b, v))]
    BY <1>3 DEF Record, SetStatus
  <2>3. applyState' = [applyState EXCEPT ![b] =
                         IF Fresh(b, v) THEN PlannedState(o) ELSE @]
    BY <1>3 DEF Record
  <2>4. CASE a = b /\ v = version[a]
    <3>1. Fresh(b, v) /\ PlannedState(o) \in {"PENDING", "RETRYING"}
      BY <2>1, <2>3, <2>4 DEF Fresh, TypeOK
    <3>2. o = "RETRYABLE"
      BY <2>1, <3>1 DEF Outcome, PlannedState
    <3>3. status'[a][v] = "RETRY_WAIT"
      BY <2>1, <2>2, <2>4, <3>1, <3>2 DEF PlannedStatus, TypeOK
    <3>4. v > 0
      BY <2>1, DeliveryAssumption DEF Version
    <3> QED
      BY <2>1, <2>4, <3>3, <3>4
  <2>5. CASE ~(a = b /\ v = version[a])
    <3>1. applyState'[a] = applyState[a]
      BY <2>1, <2>3, <2>5 DEF Fresh, TypeOK
    <3>2. version[a] > 0 /\ version[a] \in Version
      BY <1>0, <3>1, DeliveryAssumption DEF UnconfirmedExists, Version
    <3>3. status'[a][version[a]] = status[a][version[a]]
      BY <2>1, <2>2, <2>5, <3>2 DEF TypeOK
    <3> QED
      BY <1>2, <2>1, <3>1, <3>3
  <2> QED
    BY <2>4, <2>5
<1>4. ASSUME NEW r \in Reconciler, Accept(r)
      PROVE  status'[a][version'[a]] \in Open /\ version'[a] > 0
  <2>1. UNCHANGED version
    BY <1>4, AcceptStatus
  <2>2. applyState'[a] = applyState[a]
    BY <1>4 DEF Accept, TypeOK
  <2>3. version[a] > 0 /\ version[a] \in Version
    BY <1>0, <2>2, DeliveryAssumption DEF UnconfirmedExists, Version
  <2>4. CASE status'[a][version[a]] = status[a][version[a]]
    BY <1>2, <2>1, <2>2, <2>4
  <2>5. CASE status'[a][version[a]] # status[a][version[a]]
    <3>1. /\ Acceptable(r) /\ a \in On(rec[r].node) /\ rec[r].pc = "answered"
          /\ status[a][version[a]] \in Waiting
      BY <1>4, <2>3, <2>5 DEF Accept, TypeOK
    <3>2. HasClaim(r) /\ rec[r].set \in FullSet
      BY <3>1, TypeRec DEF HasClaim
    <3>3. rec[r].set[a] \in Nat
      BY <3>2, DeliveryAssumption DEF FullSet
    <3>4. version[a] <= rec[r].set[a]
      BY <2>3, <3>1, <3>2 DEF ClaimCovers, Acceptable
    <3>5. version[a] = rec[r].set[a]
      BY <1>0, <2>3, <3>1, <3>2, <3>3, <3>4 DEF ClaimCurrent, Carried, Acceptable
    <3>6. Satisfied(r, a)
      BY <2>3, <3>1, <3>5 DEF Satisfied, Live, NoneRetired, Wanted
    <3>7. applyState'[a] = "APPLIED"
      BY <1>4, <3>1, <3>6 DEF Accept
    <3> QED
      BY <3>7
  <2> QED
    BY <2>4, <2>5
<1>5. ASSUME NEW w \in Worker, EndReap(w), UNCHANGED applyState
      PROVE  status'[a][version'[a]] \in Open /\ version'[a] > 0
  <2>1. version[a] > 0 /\ version[a] \in Version
    BY <1>0, <1>5, DeliveryAssumption DEF UnconfirmedExists, Version
  <2>2. CASE status'[a][version[a]] = status[a][version[a]]
    BY <1>2, <1>5, <2>2, EndReapStatus
  <2>3. CASE status'[a][version[a]] # status[a][version[a]]
    <3>1. /\ task[w].access \in Access /\ task[w].version \in Version
          /\ task[w].seen \in Nat /\ task[w].pc = "reaping"
      <4>1. task[w] \in Task /\ task[w].pc = "reaping"
        BY <1>5 DEF EndReap, TypeOK
      <4>2. /\ task[w].access \in Access /\ task[w].version \in Version
            /\ task[w].seen \in 0 .. MaxVersion
        BY <4>1, TaskFields
      <4> QED
        BY <4>1, <4>2, DeliveryAssumption
    <3>2. /\ status' = [status EXCEPT ![task[w].access][task[w].version] =
               IF task[w].seen > task[w].version THEN "SUPERSEDED" ELSE "RETRY_WAIT"]
          /\ UNCHANGED version
      BY <1>5, <2>3 DEF EndReap, SetStatus
    <3>3. a = task[w].access /\ version[a] = task[w].version
      BY <2>1, <2>3, <3>1, <3>2 DEF TypeOK
    <3>4. task[w].seen <= version[a]
      BY <3>1, <3>3 DEF SeenInPast
    <3>5. status'[a][version[a]] = "RETRY_WAIT"
      BY <1>0, <3>1, <3>2, <3>3, <3>4 DEF TypeOK
    <3> QED
      BY <2>1, <3>2, <3>5
  <2> QED
    BY <2>2, <2>3
<1>6. CASE /\ UNCHANGED <<version, status, applyState>>
  BY <1>2, <1>6
<1>7. ASSUME NEW w \in Worker, Works(w), UNCHANGED applyState
      PROVE  status'[a][version'[a]] \in Open /\ version'[a] > 0
  BY <1>2, <1>7, WorkKeeps
<1>8. ASSUME NEW w \in Worker, NEW b \in Access, LeaseNext(w, b), UNCHANGED applyState
      PROVE  status'[a][version'[a]] \in Open /\ version'[a] > 0
  <2>1. version[a] > 0 /\ version[a] \in Version
    BY <1>0, <1>8, DeliveryAssumption DEF UnconfirmedExists, Version
  <2> QED
    BY <1>2, <1>8, <2>1, LeaseNextStatus
<1> QED
  BY <1>1, <1>3, <1>4, <1>5, <1>6, <1>7, <1>8, Classes, ApplyStateMoves

\* As long as no access is retired and no period ends unnoticed, an access
\* whose delivery is not confirmed has an operation that will deliver it:
\* superseding, reaping, failed calls and accepted full sets close none too
\* many, whatever the leases do.
THEOREM NoWorkIsLost ==
  ASSUME "lapse" \notin Events, "retire" \notin Events
  PROVE  Spec => []NoLostWork
<1> DEFINE Inv == /\ NoLostWork /\ UnconfirmedExists /\ SeenInPast /\ NoneRetired
                  /\ EntitledIfPresent /\ ClaimInPast /\ ClaimCurrent /\ ClaimCovers
<1>1. Init => Inv
  BY DEF Init, NoLostWork, UnconfirmedExists, SeenInPast, NoneRetired, ClaimInPast,
         ClaimCurrent, EntitledIfPresent, ClaimCovers, HasClaim, Idle, Wanted, At
<1>2. TypeOK /\ Grounded /\ Inv /\ [Next]_vars => Inv'
  BY NoLostStep, SeenStep, NoneRetiredStep, EntitledStep, ClaimPastStep,
     ClaimCurrentStep, ClaimCoversStep
<1>3. Inv => NoLostWork
  OBVIOUS
<1> QED
  <2> HIDE DEF Inv
  <2> QED
    BY <1>1, <1>2, <1>3, TypeCorrect, Ownership, PTL DEF Spec

-----------------------------------------------------------------------------
(* A node never goes back.                                                 *)
(*                                                                         *)
(* Whatever is about to reach a node, an operation or a full set, is not   *)
(* older than what the node has executed: it was not when it was leased or *)
(* claimed, and while it lasts the gates keep everyone else out.           *)

ReachedInPast ==
  \A a \in Access : users[a] <= reached[a] /\ reached[a] <= version[a]

SetInPast ==
  \A r \in Reconciler :
    HasClaim(r) => \A a \in On(rec[r].node) : rec[r].set[a] <= version[a]

TaskAhead ==
  \A w \in Worker :
    /\ task[w].pc = "calling" => task[w].seen <= task[w].version
    /\ task[w].pc \in {"leased", "calling"} /\ task[w].seen <= task[w].version
         => reached[task[w].access] <= task[w].version

SetAhead ==
  \A r \in Reconciler :
    HasClaim(r) => \A a \in On(rec[r].node) :
                     rec[r].set[a] = 0 \/ reached[a] <= rec[r].set[a]

\* What the agents hold changes by a call, by a loss or by a late request.
LEMMA Executions ==
  ASSUME TypeOK, [Next]_vars
  PROVE  \/ UNCHANGED agentVars
         \/ \E w \in Worker :
              /\ Works(w) /\ task[w].pc = "calling" /\ task'[w].pc = "answered"
              /\ Execute(task[w].access, task[w].version)
         \/ \E r \in Reconciler : \E part \in SUBSET On(rec[r].node) :
              /\ rec[r].pc = "calling" /\ UNCHANGED <<version, task, status>>
              /\ ExecuteSet(rec[r].node, rec[r].set, part)
         \/ \E n \in Node : Lose(n)
         \/ ArriveLate
<1>0. task \in [Worker -> Task]
  BY DEF TypeOK
<1>1. CASE UNCHANGED vars
  BY <1>1 DEF vars
<1>2. CASE Customer \/ \E a \in Access : Expire(a)
  BY <1>2 DEF Customer, Insert, Enable, RenewInTime, Lapse, Exhaust, ForceAbsent,
              Retire, Repoint, Expire, Rewrite, agentVars
<1>3. ASSUME NEW w \in Worker, Dispatch(w), ~UNCHANGED agentVars
      PROVE  /\ Works(w) /\ task[w].pc = "calling" /\ task'[w].pc = "answered"
             /\ Execute(task[w].access, task[w].version)
  <2>1. CASE Succeed(w) \/ GiveUp(w)
    BY <1>0, <1>3, <2>1 DEF Succeed, GiveUp, Works, Answered, SetTask
  <2>2. CASE ~(Succeed(w) \/ GiveUp(w))
    BY <1>3, <2>2 DEF Dispatch, BeginReap, EndReap, LeaseNext, Deliver, Refuse,
                      Record, Crash
  <2> QED
    BY <2>1, <2>2
<1>4. ASSUME NEW r \in Reconciler, Reconcile(r), ~UNCHANGED agentVars
      PROVE  \E part \in SUBSET On(rec[r].node) :
               /\ rec[r].pc = "calling" /\ UNCHANGED <<version, task, status>>
               /\ ExecuteSet(rec[r].node, rec[r].set, part)
  <2>1. CASE Reconciled(r)
    BY <2>1 DEF Reconciled, rowVars
  <2>2. CASE ReconcileFails(r)
    BY <1>4, <2>2 DEF ReconcileFails, rowVars
  <2>3. CASE ~(Reconciled(r) \/ ReconcileFails(r))
    BY <1>4, <2>3 DEF Reconcile, ClaimSnapshot, ClaimLost, ClaimCommit, Observe,
                      Accept, Release, CrashReconciler
  <2> QED
    BY <2>1, <2>2, <2>3
<1>5. CASE \E n \in Node : NodeStep(n)
  BY <1>5 DEF NodeStep, Drop, Restore, PullReports, ReconcileLeaseExpires
<1> QED
  BY <1>1, <1>2, <1>3, <1>4, <1>5 DEF Next

LEMMA NothingLate ==
  ASSUME TypeOK, wire = {}, "late" \notin Events, [Next]_vars
  PROVE  wire' = {}
<1>1. CASE UNCHANGED vars
  BY <1>1 DEF vars
<1>2. CASE Customer \/ \E a \in Access : Expire(a)
  BY <1>2 DEF Customer, Insert, Enable, RenewInTime, Lapse, Exhaust, ForceAbsent,
              Retire, Repoint, Expire, Rewrite
<1>3. CASE \E w \in Worker : Dispatch(w)
  BY <1>3 DEF Dispatch, BeginReap, EndReap, LeaseNext, Deliver, Succeed, Refuse,
              GiveUp, Record, Crash, Spend
<1>4. CASE \E r \in Reconciler : Reconcile(r)
  BY <1>4 DEF Reconcile, ClaimSnapshot, ClaimLost, ClaimCommit, Observe, Reconciled,
              ReconcileFails, Accept, Release, CrashReconciler, Spend
<1>5. CASE (\E n \in Node : NodeStep(n)) \/ ArriveLate
  BY <1>5 DEF NodeStep, Drop, Restore, Lose, PullReports, ReconcileLeaseExpires,
              ArriveLate
<1> QED
  BY <1>1, <1>2, <1>3, <1>4, <1>5 DEF Next

LEMMA SetOfNats ==
  ASSUME TypeOK, NEW r \in Reconciler, HasClaim(r)
  PROVE  \A a \in Access : rec[r].set[a] \in Nat
<1>1. rec[r].set \in FullSet
  BY TypeRec DEF HasClaim
<1> QED
  BY <1>1, DeliveryAssumption DEF FullSet

LEMMA SetPastStep ==
  ASSUME TypeOK, Grounded, SetInPast, [Next]_vars
  PROVE  SetInPast'
<1> SUFFICES ASSUME NEW r \in Reconciler, HasClaim(r)', NEW a \in On(rec'[r].node)
             PROVE  rec'[r].set[a] <= version'[a]
  BY DEF SetInPast, On
<1>0. a \in Access /\ version[a] \in Nat /\ version'[a] \in Nat /\ version'[a] >= version[a]
  BY VersionGrows DEF On
<1>1. CASE ClaimCommit(r)
  <2>1. rec'[r].set[a] = Due(a)
    BY <1>0, <1>1 DEF ClaimCommit, SetRec, TypeOK, On
  <2> QED
    BY <1>0, <2>1 DEF Due
<1>2. CASE ~ClaimCommit(r)
  <2>1. HasClaim(r) /\ rec'[r].node = rec[r].node /\ rec'[r].set = rec[r].set
    BY <1>2, ClaimSteps
  <2>2. rec[r].set[a] \in Nat
    BY <1>0, <2>1, SetOfNats
  <2>3. rec[r].set[a] <= version[a]
    BY <2>1 DEF SetInPast
  <2> QED
    BY <1>0, <2>1, <2>2, <2>3
<1> QED
  BY <1>1, <1>2

LEMMA ReachedPastStep ==
  ASSUME TypeOK, Grounded, SetInPast, ReachedInPast, wire = {}, [Next]_vars
  PROVE  ReachedInPast'
<1> SUFFICES ASSUME NEW a \in Access
             PROVE  users'[a] <= reached'[a] /\ reached'[a] <= version'[a]
  BY DEF ReachedInPast
<1>0. /\ version[a] \in Nat /\ version'[a] \in Nat /\ version'[a] >= version[a]
      /\ users[a] \in Nat /\ reached[a] \in Nat
      /\ users[a] <= reached[a] /\ reached[a] <= version[a]
  BY VersionGrows, DeliveryAssumption DEF ReachedInPast, TypeOK
<1>1. CASE UNCHANGED agentVars
  BY <1>0, <1>1 DEF agentVars
<1>2. ASSUME NEW w \in Worker, task[w].pc = "calling",
             Execute(task[w].access, task[w].version)
      PROVE  users'[a] <= reached'[a] /\ reached'[a] <= version'[a]
  <2>1. task[w].access \in Access /\ task[w].version \in Version /\ task[w].version \in Nat
    <3>1. task[w].access \in Access /\ task[w].version \in Version
      BY <1>2, TypeTask
    <3> QED
      BY <3>1, DeliveryAssumption DEF Version
  <2>2. task[w].version <= version[task[w].access] /\ version[task[w].access] \in Nat
    BY <1>2, <2>1, DeliveryAssumption DEF Grounded, Active, TypeOK
  <2> QED
    BY <1>0, <1>2, <2>1, <2>2 DEF Execute, TypeOK
<1>3. ASSUME NEW r \in Reconciler, NEW part \in SUBSET On(rec[r].node),
             rec[r].pc = "calling", ExecuteSet(rec[r].node, rec[r].set, part)
      PROVE  users'[a] <= reached'[a] /\ reached'[a] <= version'[a]
  <2>1. rec[r].set[a] \in Nat
    BY <1>3, SetOfNats DEF HasClaim
  <2>2. a \in part => rec[r].set[a] <= version[a]
    BY <1>3 DEF SetInPast, HasClaim
  <2> QED
    BY <1>0, <1>3, <2>1, <2>2 DEF ExecuteSet
<1>4. ASSUME NEW n \in Node, Lose(n)
      PROVE  users'[a] <= reached'[a] /\ reached'[a] <= version'[a]
  BY <1>0, <1>4 DEF Lose
<1>5. ~ArriveLate
  BY DEF ArriveLate
<1> QED
  BY <1>1, <1>2, <1>3, <1>4, <1>5, Executions

\* While a worker holds an operation, nobody but that worker moves what the
\* node of the operation has executed.
LEMMA NobodyElse ==
  ASSUME TypeOK, Owned, OneInFlightPerNode, ClaimKeepsOut, LeaseCoversCall, wire = {},
         [Next]_vars, NEW w \in Worker, Active(w), task'[w].pc # "answered"
  PROVE  reached'[task[w].access] = reached[task[w].access]
<1> DEFINE a == task[w].access
<1>0. /\ a \in Access /\ task[w].version \in Version
      /\ status[a][task[w].version] = "IN_FLIGHT"
  BY ActiveTask DEF Owned
<1>1. CASE UNCHANGED agentVars
  BY <1>1 DEF agentVars
<1>2. ASSUME NEW u \in Worker, task[u].pc = "calling", task'[u].pc = "answered",
             Execute(task[u].access, task[u].version)
      PROVE  reached'[a] = reached[a]
  <2>1. Active(u) /\ u # w
    BY <1>2 DEF Active
  <2>2. /\ task[u].access \in Access /\ task[u].version \in Version
        /\ status[task[u].access][task[u].version] = "IN_FLIGHT"
    BY <2>1, ActiveTask DEF Owned
  <2>3. task[u].access # a
    BY <1>0, <2>1, <2>2 DEF Owned, OneInFlightPerNode
  <2> QED
    BY <1>0, <1>2, <2>2, <2>3 DEF Execute, TypeOK
<1>3. ASSUME NEW r \in Reconciler, NEW part \in SUBSET On(rec[r].node),
             rec[r].pc = "calling", ExecuteSet(rec[r].node, rec[r].set, part)
      PROVE  reached'[a] = reached[a]
  <2>1. ~InFlightOn(rec[r].node)
    BY <1>3 DEF ClaimKeepsOut, HasClaim
  <2>2. a \notin part
    BY <1>0, <2>1 DEF InFlightOn
  <2> QED
    BY <1>0, <1>3, <2>2 DEF ExecuteSet
<1>4. ASSUME NEW n \in Node, Lose(n)
      PROVE  reached'[a] = reached[a]
  BY <1>4 DEF Lose
<1>5. ~ArriveLate
  BY DEF ArriveLate
<1> QED
  BY <1>1, <1>2, <1>3, <1>4, <1>5, Executions

LEMMA TaskAheadStep ==
  ASSUME TypeOK, Grounded, Owned, OneInFlightPerNode, ClaimKeepsOut, LeaseCoversCall,
         wire = {}, ReachedInPast, TaskAhead, [Next]_vars
  PROVE  TaskAhead'
<1> SUFFICES ASSUME NEW w \in Worker, task'[w].pc \in {"leased", "calling"}
             PROVE  /\ task'[w].pc = "calling" => task'[w].seen <= task'[w].version
                    /\ task'[w].seen <= task'[w].version
                         => reached'[task'[w].access] <= task'[w].version
  BY DEF TaskAhead
<1>0. task \in [Worker -> Task]
  BY DEF TypeOK
\* The worker goes on with the operation it held.
<1>a. ASSUME task[w].pc \in {"leased", "calling"},
             task'[w].access = task[w].access, task'[w].version = task[w].version,
             task'[w].seen = task[w].seen,
             task'[w].pc = task[w].pc \/ task[w].seen <= task[w].version
      PROVE  /\ task'[w].pc = "calling" => task'[w].seen <= task'[w].version
             /\ task'[w].seen <= task'[w].version
                  => reached'[task'[w].access] <= task'[w].version
  <2>1. Active(w) /\ task'[w].pc # "answered"
    BY <1>a DEF Active
  <2>2. reached'[task[w].access] = reached[task[w].access]
    BY <2>1, NobodyElse
  <2> QED
    BY <1>a, <2>2 DEF TaskAhead
<1>1. CASE task'[w] = task[w]
  BY <1>1, <1>a
<1>2. ASSUME NEW u \in Worker, Works(u), task'[w] # task[w]
      PROVE  /\ u = w /\ Deliver(w)
             /\ task[w].pc = "leased" /\ ~Outdated(w)
             /\ task'[w] = [task[w] EXCEPT !.pc = "calling"]
  <2>1. u = w
    BY <1>2, WorkKeeps
  <2>2. CASE BeginReap(w) \/ Crash(w)
    BY <1>0, <2>2 DEF BeginReap, Crash, SetTask, Idle
  <2>3. CASE Succeed(w) \/ Refuse(w) \/ GiveUp(w)
    BY <1>0, <2>3 DEF Succeed, Refuse, GiveUp, Answered, SetTask
  <2>4. CASE Deliver(w)
    <3>1. CASE \E o \in Outcome : Answered(w, o)
      BY <1>0, <3>1 DEF Answered, SetTask
    <3> QED
      BY <1>0, <2>1, <2>4, <3>1 DEF Deliver, SetTask, Outcome
  <2> QED
    BY <1>2, <2>1, <2>2, <2>3, <2>4 DEF Works
<1>3. ASSUME NEW u \in Worker, Works(u)
      PROVE  /\ task'[w].pc = "calling" => task'[w].seen <= task'[w].version
             /\ task'[w].seen <= task'[w].version
                  => reached'[task'[w].access] <= task'[w].version
  <2>1. CASE task'[w] # task[w]
    <3>1. /\ task[w].pc = "leased" /\ ~Outdated(w)
          /\ task'[w] = [task[w] EXCEPT !.pc = "calling"]
      BY <1>2, <1>3, <2>1
    <3>2. task[w] \in [pc : {"reaping", "leased", "calling"}, access : Access,
                       version : Version, seen : 0 .. MaxVersion]
      BY <1>0, <3>1 DEF Task, Idle
    <3>3. /\ task'[w].access = task[w].access /\ task'[w].version = task[w].version
          /\ task'[w].seen = task[w].seen
      BY <3>1, <3>2
    <3>4. task[w].seen <= task[w].version
      BY <3>1, <3>2, DeliveryAssumption DEF Outdated, Version
    <3> QED
      BY <1>a, <3>1, <3>3, <3>4
  <2> QED
    BY <1>1, <2>1
<1>4. ASSUME NEW u \in Worker, EndReap(u) \/ Record(u)
      PROVE  task'[w] = task[w]
  <2>1. task' = [task EXCEPT ![u] = Idle]
    BY <1>4, EndReapStatus, RecordStatus
  <2> QED
    BY <1>0, <2>1 DEF Idle
<1>5. ASSUME NEW u \in Worker, NEW b \in Access, LeaseNext(u, b), task'[w] # task[w]
      PROVE  /\ task'[w].pc = "calling" => task'[w].seen <= task'[w].version
             /\ task'[w].seen <= task'[w].version
                  => reached'[task'[w].access] <= task'[w].version
  <2>1. PICK x \in Version :
          task' = [task EXCEPT ![u] = [pc |-> "leased", access |-> b, version |-> x,
                                       seen |-> version[b]]]
    BY <1>5, LeaseNextStatus
  <2>2. task'[w] = [pc |-> "leased", access |-> b, version |-> x, seen |-> version[b]]
    BY <1>0, <1>5, <2>1
  <2>3. UNCHANGED reached
    BY <1>5 DEF LeaseNext, agentVars
  <2>4. /\ reached[b] <= version[b] /\ reached[b] \in Nat /\ version[b] \in Nat
        /\ x \in Nat
    BY DeliveryAssumption DEF ReachedInPast, TypeOK, Version
  <2> QED
    BY <2>2, <2>3, <2>4
<1>6. CASE UNCHANGED task
  BY <1>1, <1>6
<1>7. CASE Writes \/ \E r \in Reconciler : Accept(r)
  BY <1>6, <1>7, AcceptStatus DEF Writes, Rewrite
<1> QED
  BY <1>1, <1>3, <1>4, <1>5, <1>6, <1>7, Classes

\* While a claim lasts, only its own full set moves what the node has executed.
LEMMA OnlyTheClaim ==
  ASSUME TypeOK, Owned, ClaimHoldsLease, ClaimKeepsOut, LeaseCoversCall, wire = {},
         [Next]_vars, NEW r \in Reconciler, HasClaim(r), NEW a \in On(rec[r].node)
  PROVE  \/ reached'[a] = reached[a]
         \/ reached'[a] = rec[r].set[a] /\ rec[r].set[a] > reached[a]
<1>0. a \in Access /\ EntryNode[a] = rec[r].node
  BY DEF On
<1>1. CASE UNCHANGED agentVars
  BY <1>1 DEF agentVars
<1>2. ASSUME NEW w \in Worker, task[w].pc = "calling",
             Execute(task[w].access, task[w].version)
      PROVE  reached'[a] = reached[a]
  <2>1. Active(w)
    BY <1>2 DEF Active
  <2>2. /\ task[w].access \in Access /\ task[w].version \in Version
        /\ status[task[w].access][task[w].version] = "IN_FLIGHT"
    BY <2>1, ActiveTask DEF Owned
  <2>3. task[w].access # a
    BY <1>0, <2>2 DEF ClaimKeepsOut, InFlightOn, On
  <2> QED
    BY <1>0, <1>2, <2>2, <2>3 DEF Execute, TypeOK
<1>3. ASSUME NEW q \in Reconciler, NEW part \in SUBSET On(rec[q].node),
             rec[q].pc = "calling", ExecuteSet(rec[q].node, rec[q].set, part)
      PROVE  \/ reached'[a] = reached[a]
             \/ reached'[a] = rec[r].set[a] /\ rec[r].set[a] > reached[a]
  <2>1. CASE a \in part
    <3>1. HasClaim(q) /\ rec[q].node = rec[r].node
      BY <1>0, <1>3, <2>1 DEF HasClaim, On
    <3>2. q = r
      BY <3>1 DEF ClaimHoldsLease
    <3> QED
      BY <1>0, <1>3, <3>2 DEF ExecuteSet
  <2>2. CASE a \notin part
    BY <1>0, <1>3, <2>2 DEF ExecuteSet
  <2> QED
    BY <2>1, <2>2
<1>4. ASSUME NEW n \in Node, Lose(n)
      PROVE  reached'[a] = reached[a]
  BY <1>4 DEF Lose
<1>5. ~ArriveLate
  BY DEF ArriveLate
<1> QED
  BY <1>1, <1>2, <1>3, <1>4, <1>5, Executions

LEMMA SetAheadStep ==
  ASSUME TypeOK, Owned, ClaimHoldsLease, ClaimKeepsOut, LeaseCoversCall, wire = {},
         ReachedInPast, SetAhead, [Next]_vars
  PROVE  SetAhead'
<1> SUFFICES ASSUME NEW r \in Reconciler, HasClaim(r)', NEW a \in On(rec'[r].node)
             PROVE  rec'[r].set[a] = 0 \/ reached'[a] <= rec'[r].set[a]
  BY DEF SetAhead, On
<1>0. a \in Access /\ reached[a] \in Nat /\ version[a] \in Nat /\ reached[a] <= version[a]
  BY DeliveryAssumption DEF On, TypeOK, ReachedInPast
<1>1. CASE ClaimCommit(r)
  <2>1. rec'[r].set[a] = Due(a)
    BY <1>0, <1>1 DEF ClaimCommit, SetRec, TypeOK, On
  <2>2. UNCHANGED reached
    BY <1>1 DEF ClaimCommit, agentVars
  <2> QED
    BY <1>0, <2>1, <2>2 DEF Due
<1>2. CASE ~ClaimCommit(r)
  <2>1. HasClaim(r) /\ rec'[r].node = rec[r].node /\ rec'[r].set = rec[r].set
    BY <1>2, ClaimSteps
  <2>2. rec[r].set[a] \in Nat
    BY <1>0, <2>1, SetOfNats
  <2>3. rec[r].set[a] = 0 \/ reached[a] <= rec[r].set[a]
    BY <2>1 DEF SetAhead
  <2> QED
    BY <1>0, <2>1, <2>2, <2>3, OnlyTheClaim
<1> QED
  BY <1>1, <1>2

\* What the two theorems below rest on.
Orderly ==
  /\ ClaimHoldsLease /\ ClaimKeepsOut
  /\ wire = {}
  /\ SetInPast /\ ReachedInPast /\ TaskAhead /\ SetAhead

LEMMA OrderlyStep ==
  ASSUME LeaseCoversCall, {"late", "overtake"} \cap Events = {},
         TypeOK, Grounded, Owned, OneInFlightPerNode, Orderly, [Next]_vars
  PROVE  Orderly'
<1>1. "late" \notin Events /\ "overtake" \notin Events
  OBVIOUS
<1>2. /\ ClaimHoldsLease /\ ClaimKeepsOut /\ wire = {}
      /\ SetInPast /\ ReachedInPast /\ TaskAhead /\ SetAhead
  BY DEF Orderly
<1>3. ClaimHoldsLease' /\ ClaimKeepsOut' /\ wire' = {}
  BY <1>1, <1>2, ClaimLeaseStep, ClaimKeepsOutStep, NothingLate
<1>4. SetInPast' /\ ReachedInPast'
  BY <1>2, SetPastStep, ReachedPastStep
<1>5. TaskAhead' /\ SetAhead'
  BY <1>2, TaskAheadStep, SetAheadStep
<1> QED
  BY <1>3, <1>4, <1>5 DEF Orderly

LEMMA OrderlyInit == Init => Orderly
<1> SUFFICES ASSUME Init PROVE Orderly
  OBVIOUS
<1>1. /\ \A w \in Worker : task[w].pc = "idle"
      /\ \A r \in Reconciler : rec[r].pc = "idle"
  BY DEF Init, Idle
<1> QED
  BY <1>1 DEF Init, Orderly, ClaimHoldsLease, ClaimKeepsOut, SetInPast, ReachedInPast,
              TaskAhead, SetAhead, HasClaim

\* While leases outlast their holders, no claim overtakes a lease that is just
\* being written and no request outlives its call, a node never goes back to
\* an older version of an access: retries, crashes, reaped leases, lost agents
\* and full sets claimed long ago included.
THEOREM NodesNeverGoBack ==
  ASSUME LeaseCoversCall, {"late", "overtake"} \cap Events = {}
  PROVE  Spec => NeverBackwards
<1>1. ASSUME TypeOK, Orderly, [Next]_vars
      PROVE  [\A a \in Access :
                users'[a] \in {users[a], 0} \/ users'[a] > users[a]]_vars
  <2> SUFFICES ASSUME NEW a \in Access
               PROVE  users'[a] \in {users[a], 0} \/ users'[a] > users[a]
    OBVIOUS
  <2>0. /\ users[a] \in Nat /\ reached[a] \in Nat /\ users[a] <= reached[a]
        /\ users \in [Access -> 0 .. MaxVersion]
    BY <1>1, DeliveryAssumption DEF Orderly, ReachedInPast, TypeOK
  <2>1. CASE UNCHANGED agentVars
    BY <2>1 DEF agentVars
  <2>2. ASSUME NEW w \in Worker, task[w].pc = "calling",
               Execute(task[w].access, task[w].version)
        PROVE  users'[a] \in {users[a], 0} \/ users'[a] > users[a]
    <3>1. task[w].access \in Access /\ task[w].version \in Version
      BY <1>1, <2>2, TypeTask
    <3>2. task[w].version \in Nat
      BY <3>1, DeliveryAssumption DEF Version
    <3>3. reached[task[w].access] <= task[w].version
      BY <1>1, <2>2 DEF Orderly, TaskAhead
    <3> QED
      BY <2>0, <2>2, <3>1, <3>2, <3>3 DEF Execute
  <2>3. ASSUME NEW r \in Reconciler, NEW part \in SUBSET On(rec[r].node),
               rec[r].pc = "calling", ExecuteSet(rec[r].node, rec[r].set, part)
        PROVE  users'[a] \in {users[a], 0} \/ users'[a] > users[a]
    <3>1. HasClaim(r)
      BY <2>3 DEF HasClaim
    <3>2. rec[r].set[a] \in Nat
      BY <1>1, <3>1, SetOfNats
    <3>3. a \in part => rec[r].set[a] = 0 \/ reached[a] <= rec[r].set[a]
      BY <1>1, <2>3, <3>1 DEF Orderly, SetAhead
    <3> QED
      BY <2>0, <2>3, <3>2, <3>3 DEF ExecuteSet
  <2>4. ASSUME NEW n \in Node, Lose(n)
        PROVE  users'[a] \in {users[a], 0} \/ users'[a] > users[a]
    BY <2>4 DEF Lose
  <2>5. ~ArriveLate
    BY <1>1 DEF ArriveLate, Orderly
  <2> QED
    BY <1>1, <2>1, <2>2, <2>3, <2>4, <2>5, Executions
<1>2. TypeOK /\ Grounded /\ Owned /\ OneInFlightPerNode /\ Orderly /\ [Next]_vars
        => Orderly'
  BY OrderlyStep
<1> QED
  BY <1>1, <1>2, OrderlyInit, TypeCorrect, Ownership, OneInFlight, PTL
     DEF Spec, NeverBackwards

-----------------------------------------------------------------------------
(* APPLIED is true.                                                        *)

\* An agent that did not lose its state holds whatever it executed last.
UsersAreReached ==
  \A a \in Access : ~lost[EntryNode[a]] => users[a] = reached[a]

\* Only the first version of an access may do without an operation, when the
\* customer had no right to it from the start.
UncarriedIsFirst ==
  \A a \in Access :
    ~Carried(a) => version[a] <= 1 /\ (version[a] = 1 => Wanted(a) = Absent)

AllCurrent == \A n \in Node : current[n]

LEMMA AllCurrentStep ==
  ASSUME TypeOK, AllCurrent, "drop" \notin Events, [Next]_vars
  PROVE  AllCurrent'
<1>1. CASE UNCHANGED vars
  BY <1>1 DEF AllCurrent, vars, nodeVars
<1>2. CASE Customer \/ \E a \in Access : Expire(a)
  BY <1>2 DEF AllCurrent, Customer, Insert, Enable, RenewInTime, Lapse, Exhaust,
              ForceAbsent, Retire, Repoint, Expire, Rewrite, nodeVars
<1>3. CASE \E w \in Worker : Dispatch(w)
  BY <1>3 DEF AllCurrent, Dispatch, BeginReap, EndReap, LeaseNext, Deliver, Succeed,
              Refuse, GiveUp, Record, Crash, nodeVars
<1>4. CASE \E r \in Reconciler : Reconcile(r)
  BY <1>4 DEF AllCurrent, Reconcile, ClaimSnapshot, ClaimLost, ClaimCommit, Observe,
              Reconciled, ReconcileFails, Accept, Release, CrashReconciler, nodeVars
<1>5. ASSUME NEW n \in Node, NodeStep(n)
      PROVE  AllCurrent'
  BY <1>5 DEF AllCurrent, NodeStep, Drop, Restore, Lose, PullReports,
              ReconcileLeaseExpires, nodeVars, Spend
<1>6. CASE ArriveLate
  BY <1>6 DEF AllCurrent, ArriveLate, nodeVars
<1> QED
  BY <1>1, <1>2, <1>3, <1>4, <1>5, <1>6 DEF Next

\* A rewrite without an operation is an insertion of an absent access.
LEMMA SilentWrites ==
  ASSUME TypeOK, AllCurrent, {"retire", "lapse"} \cap Events = {}, [Next]_vars
  PROVE  \/ \E b \in Access, d \in Desired : Rewrite(b, d, TRUE)
         \/ \E b \in Access : version[b] = 0 /\ Rewrite(b, Absent, FALSE)
         \/ ~Writes
<1>0. /\ egress \in [Access -> Config] /\ entitled \in [Access -> BOOLEAN]
      /\ EntryNode \in [Access -> Node]
      /\ \A c \in Config : c \in Desired
      /\ Absent \in Desired
  BY DeliveryAssumption DEF TypeOK, Desired
<1>1. ASSUME NEW b \in Access, Insert(b)
      PROVE  \/ \E d \in Desired : Rewrite(b, d, TRUE)
             \/ version[b] = 0 /\ Rewrite(b, Absent, FALSE)
  <2>1. CASE entitled[b]
    <3>1. entitled[b] = TRUE /\ egress[b] \in Desired
      BY <1>0, <2>1
    <3> QED
      BY <1>1, <3>1 DEF Insert
  <2>2. CASE ~entitled[b]
    <3>1. entitled[b] = FALSE
      BY <1>0, <2>2
    <3> QED
      BY <1>1, <3>1 DEF Insert
  <2> QED
    BY <2>1, <2>2
<1>2. ASSUME NEW b \in Access, Enable(b) \/ Exhaust(b) \/ Expire(b)
      PROVE  \E d \in Desired : Rewrite(b, d, TRUE)
  BY <1>0, <1>2 DEF Enable, Exhaust, Expire
<1>3. ASSUME NEW b \in Access, ForceAbsent(b)
      PROVE  \E d \in Desired : Rewrite(b, d, TRUE)
  <2>1. current[EntryNode[b]] = TRUE
    BY <1>0 DEF AllCurrent, TypeOK
  <2> QED
    BY <1>0, <1>3, <2>1 DEF ForceAbsent
<1>4. ASSUME NEW b \in Access, Repoint(b)
      PROVE  \E d \in Desired : Rewrite(b, d, TRUE)
  BY <1>0, <1>4 DEF Repoint
<1>5. ASSUME NEW b \in Access, Retire(b)
      PROVE  FALSE
  BY <1>5 DEF Retire, Spend
<1>6. ASSUME Writes
      PROVE  \E b \in Access : \/ Insert(b) \/ Enable(b) \/ Exhaust(b) \/ Expire(b)
                               \/ ForceAbsent(b) \/ Repoint(b) \/ Retire(b)
  <2>1. PICK b \in Access, d \in Desired, i \in BOOLEAN : Rewrite(b, d, i)
    BY <1>6 DEF Writes
  <2>2. version' # version
    <3>1. version[b] \in Nat
      BY DeliveryAssumption DEF TypeOK
    <3> QED
      BY <2>1, <3>1 DEF Rewrite, TypeOK
  <2>3. CASE UNCHANGED vars
    BY <2>2, <2>3 DEF vars, rowVars
  <2>4. CASE Customer \/ \E a \in Access : Expire(a)
    BY <2>2, <2>4 DEF Customer, RenewInTime, Lapse
  <2>5. CASE \E w \in Worker : Dispatch(w)
    BY <2>2, <2>5 DEF Dispatch, BeginReap, EndReap, LeaseNext, Deliver, Succeed, Refuse,
                      GiveUp, Record, Crash, rowVars
  <2>6. CASE \E r \in Reconciler : Reconcile(r)
    BY <2>2, <2>6 DEF Reconcile, ClaimSnapshot, ClaimLost, ClaimCommit, Observe,
                      Reconciled, ReconcileFails, Accept, Release, CrashReconciler, rowVars
  <2>7. CASE (\E n \in Node : NodeStep(n)) \/ ArriveLate
    BY <2>2, <2>7 DEF NodeStep, Drop, Restore, Lose, PullReports,
                      ReconcileLeaseExpires, ArriveLate, rowVars
  <2> QED
    BY <2>3, <2>4, <2>5, <2>6, <2>7 DEF Next
<1> QED
  BY <1>1, <1>2, <1>3, <1>4, <1>5, <1>6

\* A full set that leaves nobody out is not older than what was executed.
SetWhole ==
  \A r \in Reconciler :
    HasClaim(r) => \A a \in On(rec[r].node) : reached[a] <= rec[r].set[a]

LEMMA SetWholeStep ==
  ASSUME TypeOK, Owned, LeaseCoversCall, Orderly, EntitledIfPresent, SetWhole,
         [Next]_vars
  PROVE  SetWhole'
<1> SUFFICES ASSUME NEW r \in Reconciler, HasClaim(r)', NEW a \in On(rec'[r].node)
             PROVE  reached'[a] <= rec'[r].set[a]
  BY DEF SetWhole, On
<1>0. a \in Access /\ reached[a] \in Nat /\ version[a] \in Nat /\ reached[a] <= version[a]
  BY DeliveryAssumption DEF On, TypeOK, Orderly, ReachedInPast
<1>1. CASE ClaimCommit(r)
  <2>1. rec'[r].set[a] = Due(a)
    BY <1>0, <1>1 DEF ClaimCommit, SetRec, TypeOK, On
  <2>2. UNCHANGED reached
    BY <1>1 DEF ClaimCommit, agentVars
  <2> QED
    BY <1>0, <2>1, <2>2 DEF Due, EntitledIfPresent
<1>2. CASE ~ClaimCommit(r)
  <2>1. HasClaim(r) /\ rec'[r].node = rec[r].node /\ rec'[r].set = rec[r].set
    BY <1>2, ClaimSteps
  <2>2. rec[r].set[a] \in Nat
    BY <1>0, <2>1, SetOfNats
  <2>3. reached[a] <= rec[r].set[a]
    BY <2>1 DEF SetWhole
  <2> QED
    BY <1>0, <2>1, <2>2, <2>3, OnlyTheClaim DEF Orderly
<1> QED
  BY <1>1, <1>2

LEMMA UsersStep ==
  ASSUME TypeOK, Orderly, SetWhole, UsersAreReached, [Next]_vars
  PROVE  UsersAreReached'
<1> SUFFICES ASSUME NEW a \in Access, ~lost'[EntryNode[a]]
             PROVE  users'[a] = reached'[a]
  BY DEF UsersAreReached
<1>0. /\ EntryNode[a] \in Node /\ lost \in [Node -> BOOLEAN]
      /\ users \in [Access -> 0 .. MaxVersion] /\ reached \in [Access -> 0 .. MaxVersion]
      /\ reached[a] \in Nat
  BY DeliveryAssumption DEF TypeOK
<1>1. CASE UNCHANGED agentVars
  BY <1>1 DEF agentVars, UsersAreReached
<1>2. ASSUME NEW w \in Worker, task[w].pc = "calling",
             Execute(task[w].access, task[w].version)
      PROVE  users'[a] = reached'[a]
  <2>1. task[w].access \in Access /\ task[w].version \in Version
    BY <1>2, TypeTask
  <2>2. task[w].version \in Nat
    BY <2>1, DeliveryAssumption DEF Version
  <2>3. reached[task[w].access] <= task[w].version
    BY <1>2 DEF Orderly, TaskAhead
  <2>4. a # task[w].access => users[a] = reached[a]
    BY <1>2 DEF Execute, UsersAreReached
  <2> QED
    BY <1>0, <1>2, <2>1, <2>2, <2>3, <2>4 DEF Execute
<1>3. ASSUME NEW r \in Reconciler, NEW part \in SUBSET On(rec[r].node),
             rec[r].pc = "calling", ExecuteSet(rec[r].node, rec[r].set, part)
      PROVE  users'[a] = reached'[a]
  <2>1. HasClaim(r)
    BY <1>3 DEF HasClaim
  <2>2. rec[r].set[a] \in Nat /\ rec[r].node \in Node
    BY <1>3, <2>1, SetOfNats, TypeRec
  <2>3. CASE a \in part
    <3>1. reached[a] <= rec[r].set[a]
      BY <1>3, <2>1, <2>3 DEF SetWhole
    <3> QED
      BY <1>0, <1>3, <2>2, <2>3, <3>1 DEF ExecuteSet
  <2>4. CASE a \notin part
    <3>1. ~lost[EntryNode[a]]
      BY <1>0, <1>3, <2>2, <2>4 DEF ExecuteSet, On
    <3> QED
      BY <1>0, <1>3, <2>4, <3>1 DEF ExecuteSet, UsersAreReached
  <2> QED
    BY <2>3, <2>4
<1>4. ASSUME NEW n \in Node, Lose(n)
      PROVE  users'[a] = reached'[a]
  <2>1. EntryNode[a] # n
    BY <1>0, <1>4 DEF Lose
  <2> QED
    BY <1>0, <1>4, <2>1 DEF Lose, UsersAreReached, On
<1>5. ~ArriveLate
  BY DEF ArriveLate, Orderly
<1> QED
  BY <1>1, <1>2, <1>3, <1>4, <1>5, Executions

LEMMA UncarriedStep ==
  ASSUME TypeOK, Grounded, AllCurrent, {"retire", "lapse"} \cap Events = {},
         UncarriedIsFirst, [Next]_vars
  PROVE  UncarriedIsFirst'
<1> SUFFICES ASSUME NEW a \in Access, ~Carried(a)'
             PROVE  version'[a] <= 1 /\ (version'[a] = 1 => Wanted(a)' = Absent)
  BY DEF UncarriedIsFirst
<1>0. version[a] \in Nat /\ version[a] <= MaxVersion
  BY DeliveryAssumption DEF TypeOK
<1>1. ASSUME NEW b \in Access, NEW d \in Desired, NEW i \in BOOLEAN, Rewrite(b, d, i),
             i \/ (version[b] = 0 /\ d = Absent)
      PROVE  version'[a] <= 1 /\ (version'[a] = 1 => Wanted(a)' = Absent)
  <2>1. CASE a # b
    <3>1. version'[a] = version[a] /\ status'[a] = status[a] /\ Wanted(a)' = Wanted(a)
      BY <1>1, <2>1, RewriteMoves, WantedAfter
    <3>2. ~Carried(a)
      BY <3>1 DEF Carried
    <3> QED
      BY <3>1, <3>2 DEF UncarriedIsFirst
  <2>2. CASE a = b /\ i
    <3>1. version'[a] = version[a] + 1 /\ version'[a] \in Version
      BY <1>1, <2>2, RewriteMoves
    <3>2. status'[a][version'[a]] = "PENDING"
      BY <1>1, <2>2, <3>1 DEF Rewrite, TypeOK
    <3> QED
      BY <1>0, <3>1, <3>2 DEF Carried
  <2>3. CASE a = b /\ ~i
    BY <1>0, <1>1, <2>3, RewriteMoves, WantedAfter
  <2> QED
    BY <2>1, <2>2, <2>3
<1>2. CASE /\ UNCHANGED <<version, goal>>
           /\ \A c \in Access, v \in Version :
                status'[c][v] # "NONE" <=> status[c][v] # "NONE"
  <2>1. version[a] > 0 => version[a] \in Version
    BY <1>0, DeliveryAssumption DEF Version
  <2>2. ~Carried(a) /\ Wanted(a)' = Wanted(a)
    BY <1>2, <2>1 DEF Carried, Wanted, At
  <2> QED
    BY <1>2, <2>2 DEF UncarriedIsFirst
<1>3. Absent \in Desired
  BY DEF Desired
<1> QED
  BY <1>1, <1>2, <1>3, SilentWrites, Quiet

\* Unless accesses are retired, periods end unnoticed or nodes leave the
\* manifest, and while leases and calls keep to their time: what APPLIED
\* claims is what the node holds, until the agent loses its state and says so.
THEOREM AppliedHolds ==
  ASSUME LeaseCoversCall,
         {"late", "overtake", "lapse", "retire", "drop"} \cap Events = {}
  PROVE  Spec => []AppliedIsTrue
<1> DEFINE Inv == /\ Orderly /\ EntitledIfPresent /\ SetWhole /\ UsersAreReached
                  /\ UncarriedIsFirst /\ AllCurrent
<1>0. /\ {"late", "overtake"} \cap Events = {}
      /\ {"retire", "lapse"} \cap Events = {}
      /\ "lapse" \notin Events /\ "drop" \notin Events
  OBVIOUS
<1>1. Init => Inv
  <2> SUFFICES ASSUME Init PROVE Inv
    OBVIOUS
  <2>1. Orderly
    BY OrderlyInit
  <2>2. SetWhole
    BY DEF Init, SetWhole, HasClaim, Idle
  <2>3. EntitledIfPresent /\ UncarriedIsFirst
    BY DEF Init, EntitledIfPresent, UncarriedIsFirst, Wanted, At
  <2>4. UsersAreReached /\ AllCurrent
    BY DEF Init, UsersAreReached, AllCurrent
  <2> QED
    BY <2>1, <2>2, <2>3, <2>4
<1>2. TypeOK /\ Grounded /\ Owned /\ OneInFlightPerNode /\ Inv /\ [Next]_vars => Inv'
  BY <1>0, OrderlyStep, EntitledStep, SetWholeStep, UsersStep, UncarriedStep,
     AllCurrentStep
<1>3. ASSUME TypeOK, AppliedWasExecuted, Inv
      PROVE  AppliedIsTrue
  <2> SUFFICES ASSUME NEW a \in Access, applyState[a] = "APPLIED", ~lost[EntryNode[a]]
               PROVE  Holds(a) = Wanted(a)
    BY DEF AppliedIsTrue
  <2>1. /\ users[a] \in Nat /\ version[a] \in Nat /\ reached[a] \in Nat
        /\ users[a] = reached[a] /\ reached[a] <= version[a]
    BY <1>3, DeliveryAssumption DEF TypeOK, Orderly, ReachedInPast, UsersAreReached
  <2>2. CASE Carried(a)
    <3>1. users[a] = version[a]
      BY <1>3, <2>1, <2>2 DEF AppliedWasExecuted, Carried
    <3> QED
      BY <3>1 DEF Holds, Wanted
  <2>3. CASE ~Carried(a)
    <3>1. version[a] <= 1 /\ (version[a] = 1 => Wanted(a) = Absent)
      BY <1>3, <2>3 DEF UncarriedIsFirst
    <3>2. users[a] = version[a] \/ (users[a] = 0 /\ version[a] = 1)
      BY <2>1, <3>1
    <3> QED
      BY <3>1, <3>2 DEF Holds, Wanted, At
  <2> QED
    BY <2>2, <2>3
<1> QED
  <2> HIDE DEF Inv
  <2> QED
    BY <1>1, <1>2, <1>3, TypeCorrect, Ownership, OneInFlight, AppliedExecuted, PTL
       DEF Spec

=============================================================================
