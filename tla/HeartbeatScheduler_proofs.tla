---------------------- MODULE HeartbeatScheduler_proofs ----------------------
(***************************************************************************)
(* Proofs about HeartbeatScheduler for every number of ticks, starts and   *)
(* stops: it stays well typed, the recovery lane has one owner, and drain  *)
(* joins every recovery task, also one whose lane was given back.          *)
(***************************************************************************)
EXTENDS HeartbeatScheduler, TLAPS

\* The two promises of a recovery flight, and a simple lane's task, differ.
LEMMA TasksDiffer ==
  ASSUME NEW f \in Flight, NEW g \in Flight
  PROVE  /\ TaskOf("recovery", f) # LifeOf(g)
         /\ f # g => LifeOf(f) # LifeOf(g)
         /\ LifeOf(f).lane \notin SimpleLane
         /\ LifeOf(f) \in Task /\ TaskOf("recovery", f) \in Task
<1>1. TaskOf("recovery", f).part = "task" /\ LifeOf(g).part = "life" /\ LifeOf(g).n = g
      /\ LifeOf(f).n = f /\ LifeOf(f).lane = "recovery"
  BY DEF TaskOf, LifeOf
<1>2. TaskOf("recovery", f) # LifeOf(g) BY <1>1, "task" # "life"
<1>3. LifeOf(f) \in Task /\ TaskOf("recovery", f) \in Task BY DEF Task, TaskOf, LifeOf, Lane
<1> QED BY <1>1, <1>2, <1>3 DEF SimpleLane, Lane

\* A tick of a lane keeps the types it writes.
LEMMA RunLaneTyped ==
  ASSUME TypeOK, NEW l \in Lane, RunLane(l)
  PROVE  /\ inFlight' \in [Lane -> BOOLEAN] /\ laneFlights' \in [Lane -> 0..MaxTicks]
         /\ race' \in [Flight -> {"none", "racing", "won", "timeout"}]
         /\ stage' \in [Flight -> {"none"} \cup RecoverStage]
         /\ activeTasks' \subseteq Task
<1>1. CASE inFlight[l] BY <1>1 DEF TypeOK, RunLane
<1>2. CASE ~inFlight[l]
  <2> DEFINE n == laneFlights[l] + 1
  <2>1. n \in Flight BY <1>2 DEF RunLane
  <2>2. n \in 0..MaxTicks BY <2>1, BoundsAssumption DEF Flight
  <2>3. inFlight' = [inFlight EXCEPT ![l] = TRUE] /\ laneFlights' = [laneFlights EXCEPT ![l] = n]
    BY <1>2 DEF RunLane
  <2>4. CASE l = "recovery"
    <3>1. /\ race' = [race EXCEPT ![n] = "racing"]
          /\ stage' = [stage EXCEPT ![n] = "orphans"]
          /\ activeTasks' = activeTasks \cup {TaskOf(l, n), LifeOf(n)}
      BY <1>2, <2>4 DEF RunLane
    <3> HIDE DEF n
    <3>2. LifeOf(n) \in Task /\ TaskOf(l, n) \in Task BY <2>1, <2>4, TasksDiffer
    <3> QED BY <2>1, <2>2, <2>3, <3>1, <3>2 DEF TypeOK, RecoverStage
  <2>5. CASE l # "recovery"
    <3>1. activeTasks' = activeTasks \cup {TaskOf(l, n)} /\ UNCHANGED <<race, stage>>
      BY <1>2, <2>5 DEF RunLane
    <3> HIDE DEF n
    <3>2. TaskOf(l, n) \in Task BY <2>1 DEF TaskOf, Task
    <3> QED BY <2>2, <2>3, <3>1, <3>2 DEF TypeOK
  <2> QED BY <2>4, <2>5
<1> QED BY <1>1, <1>2

\* The initial state is typed.
LEMMA TypeOKInit == Init => TypeOK
<1>1. 0 \in 0..MaxGeneration /\ 0 \in 0..MaxTicks BY BoundsAssumption
<1>2. NotDraining \in [state : {"idle", "returned"}, on : {{}}] BY DEF NotDraining
<1> SUFFICES ASSUME Init PROVE TypeOK OBVIOUS
<1>3. /\ running \in BOOLEAN /\ timerGeneration \in 0..MaxGeneration
      /\ handle \in [Lane -> 0..MaxGeneration] /\ inFlight \in [Lane -> BOOLEAN]
      /\ laneFlights \in [Lane -> 0..MaxTicks]
  BY <1>1 DEF Init
<1>4. /\ race \in [Flight -> {"none", "racing", "won", "timeout"}]
      /\ stage \in [Flight -> {"none"} \cup RecoverStage] /\ activeTasks \subseteq Task
  BY DEF Init
<1>5. drain = NotDraining BY DEF Init
<1> QED BY <1>2, <1>3, <1>4, <1>5 DEF TypeOK

\* The three types a drain moves between.
LEMMA DrainTyped ==
  ASSUME NEW S \in SUBSET Task
  PROVE  (IF S = {} THEN [state |-> "returned", on |-> {}]
          ELSE [state |-> "waiting", on |-> S])
           \in [state : {"idle", "returned"}, on : {{}}]
                 \cup [state : {"waiting"}, on : (SUBSET Task) \ {{}}]
<1>1. CASE S = {} BY <1>1
<1>2. CASE S # {} BY <1>2
<1> QED BY <1>1, <1>2

\* Every step keeps the types.
LEMMA TypeOKNext == TypeOK /\ [Next]_vars => TypeOK'
<1> SUFFICES ASSUME TypeOK, [Next]_vars PROVE TypeOK' OBVIOUS
<1>1. "recovery" \in Lane /\ SimpleLane \subseteq Lane BY DEF Lane, SimpleLane
<1>2. ASSUME Start PROVE TypeOK'
  <2>1. timerGeneration + 1 \in 0..MaxGeneration BY <1>2, BoundsAssumption DEF Start, TypeOK
  <2> QED BY <1>1, <1>2, <2>1, RunLaneTyped DEF Start, TypeOK
<1>3. ASSUME Stop PROVE TypeOK'
  <2>1. timerGeneration + 1 \in 0..MaxGeneration /\ 0 \in 0..MaxGeneration
    BY <1>3, BoundsAssumption DEF Stop, TypeOK
  <2> QED BY <1>3, <2>1 DEF Stop, TypeOK
<1>4. ASSUME NEW l \in Lane, Tick(l) PROVE TypeOK'
  <2>1. CASE RunLane(l) BY <1>4, <2>1, RunLaneTyped DEF Tick, TypeOK
  <2>2. CASE UNCHANGED <<inFlight, laneFlights, race, stage, activeTasks>>
    BY <1>4, <2>2 DEF Tick, TypeOK
  <2> QED BY <1>4, <2>1, <2>2 DEF Tick, RunAutomaticLane
<1>5. ASSUME NEW l \in SimpleLane, SimpleTaskEnds(l) PROVE TypeOK'
  BY <1>1, <1>5 DEF SimpleTaskEnds, TypeOK
<1>6. ASSUME NEW f \in Flight, RecoverStep(f) PROVE TypeOK'
  BY <1>6 DEF RecoverStep, TypeOK, RecoverStage
<1>7. ASSUME NEW f \in Flight, RecoverSettles(f) PROVE TypeOK'
  BY <1>7 DEF RecoverSettles, TypeOK, RecoverStage
<1>8. ASSUME NEW f \in Flight, BudgetExpires(f) PROVE TypeOK'
  BY <1>8 DEF BudgetExpires, TypeOK
<1>9. ASSUME NEW f \in Flight, LifecycleFinally(f) PROVE TypeOK'
  BY <1>1, <1>9 DEF LifecycleFinally, TypeOK
<1>10. ASSUME DrainCalled \/ DrainLoops PROVE TypeOK'
  BY <1>10, DrainTyped DEF DrainCalled, DrainLoops, TypeOK
<1>11. ASSUME DrainDone PROVE TypeOK'
  BY <1>11 DEF DrainDone, NotDraining, TypeOK
<1>12. CASE UNCHANGED vars BY <1>12 DEF vars, TypeOK
<1> QED BY <1>2, <1>3, <1>4, <1>5, <1>6, <1>7, <1>8, <1>9, <1>10, <1>11, <1>12 DEF Next

\* The scheduler stays well typed for every number of ticks and generations.
THEOREM TypeCorrect == Spec => []TypeOK
  BY TypeOKInit, TypeOKNext, PTL DEF Spec

-----------------------------------------------------------------------------

\* A tick takes the lane only when nobody owns it.
LEMMA RunLaneOwned ==
  ASSUME TypeOK, RecoveryLaneHasOneOwner, NEW l \in Lane, RunLane(l)
  PROVE  RecoveryLaneHasOneOwner'
<1>1. CASE inFlight[l] BY <1>1 DEF RunLane, RecoveryLaneHasOneOwner
<1>2. CASE ~inFlight[l] /\ l # "recovery"
  <2>1. /\ inFlight'["recovery"] = inFlight["recovery"]
        /\ laneFlights'["recovery"] = laneFlights["recovery"]
        /\ activeTasks' = activeTasks \cup {TaskOf(l, laneFlights[l] + 1)}
    BY <1>2 DEF RunLane, TypeOK, Lane
  <2>2. \A f \in Flight : LifeOf(f) # TaskOf(l, laneFlights[l] + 1)
    <3>1. TaskOf(l, laneFlights[l] + 1).part = "task" /\ \A f \in Flight : LifeOf(f).part = "life"
      BY DEF TaskOf, LifeOf
    <3> QED BY <3>1, "task" # "life"
  <2> QED BY <2>1, <2>2 DEF RecoveryLaneHasOneOwner
<1>3. CASE ~inFlight[l] /\ l = "recovery"
  <2> DEFINE n == laneFlights[l] + 1
  <2>1. /\ n \in Flight
        /\ inFlight'["recovery"] = TRUE /\ laneFlights'["recovery"] = n
        /\ activeTasks' = activeTasks \cup {TaskOf("recovery", n), LifeOf(n)}
    BY <1>3 DEF RunLane, TypeOK, Lane
  <2> HIDE DEF n
  <2>2. \A f \in Flight : LifeOf(f) \notin activeTasks BY <1>3 DEF RecoveryLaneHasOneOwner
  <2>3. \A f \in Flight : LifeOf(f) \in activeTasks' <=> f = n BY <2>1, <2>2, TasksDiffer
  <2> QED BY <2>1, <2>3 DEF RecoveryLaneHasOneOwner
<1> QED BY <1>1, <1>2, <1>3

\* Every step keeps the lane's owner unique; only the owner gives it back.
LEMMA OwnedNext ==
  TypeOK /\ RecoveryLaneHasOneOwner /\ [Next]_vars => RecoveryLaneHasOneOwner'
<1> SUFFICES ASSUME TypeOK, RecoveryLaneHasOneOwner, [Next]_vars
             PROVE  RecoveryLaneHasOneOwner'
  OBVIOUS
<1>1. ASSUME UNCHANGED <<inFlight, laneFlights, activeTasks>>
      PROVE  RecoveryLaneHasOneOwner'
  BY <1>1 DEF RecoveryLaneHasOneOwner
<1>2. CASE Start BY <1>2, RunLaneOwned DEF Start, Lane
<1>3. ASSUME NEW l \in Lane, Tick(l) PROVE RecoveryLaneHasOneOwner'
  BY <1>1, <1>3, RunLaneOwned DEF Tick, RunAutomaticLane
<1>4. ASSUME NEW l \in SimpleLane, SimpleTaskEnds(l) PROVE RecoveryLaneHasOneOwner'
  <2>1. PICK t \in activeTasks : t.lane = l /\ activeTasks' = activeTasks \ {t}
    BY <1>4 DEF SimpleTaskEnds
  <2>2. \A f \in Flight : LifeOf(f) # t BY <1>4, <2>1, TasksDiffer
  <2>3. inFlight'["recovery"] = inFlight["recovery"] /\ laneFlights' = laneFlights
    BY <1>4 DEF SimpleTaskEnds, SimpleLane, Lane, TypeOK
  <2> QED BY <2>1, <2>2, <2>3 DEF RecoveryLaneHasOneOwner
<1>5. ASSUME NEW f \in Flight, RecoverSettles(f) PROVE RecoveryLaneHasOneOwner'
  BY <1>5, TasksDiffer DEF RecoverSettles, RecoveryLaneHasOneOwner
<1>6. ASSUME NEW f \in Flight, LifecycleFinally(f) PROVE RecoveryLaneHasOneOwner'
  <2>1. LifeOf(f) \in activeTasks /\ laneFlights["recovery"] = f
    BY <1>6 DEF LifecycleFinally, RecoveryLaneHasOneOwner
  <2>2. ~inFlight'["recovery"] /\ activeTasks' = activeTasks \ {LifeOf(f)}
    BY <1>6, <2>1 DEF LifecycleFinally, TypeOK, Lane
  <2>3. \A g \in Flight : LifeOf(g) \notin activeTasks'
    BY <2>1, <2>2 DEF RecoveryLaneHasOneOwner
  <2> QED BY <2>2, <2>3 DEF RecoveryLaneHasOneOwner
<1>7. CASE Stop \/ DrainCalled \/ DrainLoops \/ DrainDone \/ UNCHANGED vars
  BY <1>1, <1>7 DEF Stop, DrainCalled, DrainLoops, DrainDone, vars
<1>8. ASSUME NEW f \in Flight, RecoverStep(f) \/ BudgetExpires(f)
      PROVE  RecoveryLaneHasOneOwner'
  BY <1>1, <1>8 DEF RecoverStep, BudgetExpires
<1> QED BY <1>2, <1>3, <1>4, <1>5, <1>6, <1>7, <1>8 DEF Next

\* However late an abandoned recovery task ends, and however often the
\* scheduler is stopped and started meanwhile, it never frees the lane of a
\* newer flight.
THEOREM OneOwner == Spec => []RecoveryLaneHasOneOwner
<1>1. Init => RecoveryLaneHasOneOwner BY DEF Init, RecoveryLaneHasOneOwner, Lane
<1> QED BY <1>1, TypeCorrect, OwnedNext, PTL DEF Spec

-----------------------------------------------------------------------------

\* What drain() rests on: everything it must join is tracked.
Tracked ==
  /\ \A f \in Recovering : TaskOf("recovery", f) \in activeTasks
  /\ \A l \in SimpleLane : inFlight[l] => \E t \in activeTasks : t.lane = l

\* A tick tracks the task it starts.
LEMMA RunLaneTracked ==
  ASSUME TypeOK, Tracked, NEW l \in Lane, RunLane(l)
  PROVE  Tracked'
<1>1. CASE inFlight[l] BY <1>1 DEF RunLane, Tracked, Recovering
<1>2. CASE ~inFlight[l] /\ l # "recovery"
  <2>1. /\ inFlight' = [inFlight EXCEPT ![l] = TRUE] /\ stage' = stage
        /\ activeTasks' = activeTasks \cup {TaskOf(l, laneFlights[l] + 1)}
    BY <1>2 DEF RunLane
  <2>2. TaskOf(l, laneFlights[l] + 1).lane = l BY DEF TaskOf
  <2>3. \A k \in SimpleLane : inFlight'[k] => \E t \in activeTasks' : t.lane = k
    <3> TAKE k \in SimpleLane
    <3>1. CASE k = l BY <2>1, <2>2, <3>1
    <3>2. CASE k # l BY <2>1, <3>2 DEF Tracked, TypeOK, SimpleLane
    <3> QED BY <3>1, <3>2
  <2> QED BY <2>1, <2>3 DEF Tracked, Recovering
<1>3. CASE ~inFlight[l] /\ l = "recovery"
  <2> DEFINE n == laneFlights[l] + 1
  <2>1. /\ inFlight' = [inFlight EXCEPT !["recovery"] = TRUE]
        /\ stage' = [stage EXCEPT ![n] = "orphans"]
        /\ activeTasks' = activeTasks \cup {TaskOf("recovery", n), LifeOf(n)}
    BY <1>3 DEF RunLane
  <2> HIDE DEF n
  <2>2. \A f \in Recovering' : TaskOf("recovery", f) \in activeTasks'
    BY <2>1 DEF Tracked, Recovering, TypeOK
  <2>3. \A k \in SimpleLane : inFlight'[k] = inFlight[k]
    BY <2>1 DEF TypeOK, SimpleLane
  <2> QED BY <2>1, <2>2, <2>3 DEF Tracked
<1> QED BY <1>1, <1>2, <1>3

\* Every step keeps what is at work tracked.
LEMMA TrackedNext == TypeOK /\ Tracked /\ [Next]_vars => Tracked'
<1> SUFFICES ASSUME TypeOK, Tracked, [Next]_vars PROVE Tracked' OBVIOUS
<1>1. ASSUME UNCHANGED <<inFlight, stage, activeTasks>> PROVE Tracked'
  BY <1>1 DEF Tracked, Recovering
<1>2. CASE Start BY <1>2, RunLaneTracked DEF Start, Lane
<1>3. ASSUME NEW l \in Lane, Tick(l) PROVE Tracked'
  BY <1>1, <1>3, RunLaneTracked DEF Tick, RunAutomaticLane
<1>4. ASSUME NEW l \in SimpleLane, SimpleTaskEnds(l) PROVE Tracked'
  <2>1. PICK t \in activeTasks : t.lane = l /\ activeTasks' = activeTasks \ {t}
    BY <1>4 DEF SimpleTaskEnds
  <2>2. inFlight' = [inFlight EXCEPT ![l] = FALSE] /\ stage' = stage
    BY <1>4 DEF SimpleTaskEnds
  <2>3. \A f \in Flight : TaskOf("recovery", f).lane = "recovery" BY DEF TaskOf
  <2>4. \A f \in Recovering' : TaskOf("recovery", f) \in activeTasks'
    BY <2>1, <2>2, <2>3 DEF Tracked, Recovering, SimpleLane
  <2>5. \A k \in SimpleLane : inFlight'[k] => \E u \in activeTasks' : u.lane = k
    BY <2>1, <2>2 DEF Tracked, TypeOK, SimpleLane
  <2> QED BY <2>4, <2>5 DEF Tracked
<1>5. ASSUME NEW f \in Flight, RecoverStep(f) PROVE Tracked'
  <2>1. stage' = [stage EXCEPT ![f] = stage'[f]] /\ f \in Recovering
        /\ UNCHANGED <<inFlight, activeTasks>>
    BY <1>5 DEF RecoverStep, Recovering, TypeOK
  <2> QED BY <2>1 DEF Tracked, Recovering, TypeOK
<1>6. ASSUME NEW f \in Flight, RecoverSettles(f) PROVE Tracked'
  <2>1. /\ stage' = [stage EXCEPT ![f] = "ended"] /\ inFlight' = inFlight
        /\ activeTasks' = activeTasks \ {TaskOf("recovery", f)}
    BY <1>6 DEF RecoverSettles
  <2>2. /\ \A g \in Flight \ {f} : TaskOf("recovery", g) # TaskOf("recovery", f)
        /\ TaskOf("recovery", f).lane = "recovery"
    <3>1. \A g \in Flight : TaskOf("recovery", g).n = g BY DEF TaskOf
    <3>2. TaskOf("recovery", f).lane = "recovery" BY DEF TaskOf
    <3> QED BY <3>1, <3>2
  <2>3. \A g \in Recovering' : g \in Recovering /\ g # f
    BY <2>1 DEF Recovering, TypeOK
  <2> QED BY <2>1, <2>2, <2>3 DEF Tracked, SimpleLane, Recovering
<1>7. ASSUME NEW f \in Flight, LifecycleFinally(f) PROVE Tracked'
  <2>1. /\ \A k \in SimpleLane : inFlight'[k] = inFlight[k]
        /\ stage' = stage /\ activeTasks' = activeTasks \ {LifeOf(f)}
    BY <1>7 DEF LifecycleFinally, TypeOK, SimpleLane
  <2>2. LifeOf(f).lane \notin SimpleLane /\ \A g \in Flight : TaskOf("recovery", g) # LifeOf(f)
    BY TasksDiffer
  <2> QED BY <2>1, <2>2 DEF Tracked, Recovering
<1>8. ASSUME NEW f \in Flight, BudgetExpires(f) PROVE Tracked'
  BY <1>1, <1>8 DEF BudgetExpires
<1>9. CASE Stop \/ DrainCalled \/ DrainLoops \/ DrainDone \/ UNCHANGED vars
  BY <1>1, <1>9 DEF Stop, DrainCalled, DrainLoops, DrainDone, vars
<1> QED BY <1>2, <1>3, <1>4, <1>5, <1>6, <1>7, <1>8, <1>9 DEF Next

\* drain() joins every recovery task, the abandoned ones included, and every
\* lane: the task behind each of them is still among the promises it awaits.
THEOREM DrainJoins == Spec => DrainJoinsRecovery
<1>1. ASSUME [Next]_vars, drain.state # "returned", drain'.state = "returned"
      PROVE  activeTasks = {} /\ UNCHANGED <<stage, inFlight>>
  <2>1. drain' # drain BY <1>1
  <2>2. DrainCalled \/ DrainLoops
    BY <1>1, <2>1 DEF Next, Start, Stop, Tick, SimpleTaskEnds, RecoverStep, RecoverSettles,
         BudgetExpires, LifecycleFinally, DrainDone, NotDraining, vars
  <2>3. activeTasks # {} => drain'.state = "waiting"
    BY <2>2 DEF DrainCalled, DrainLoops
  <2> QED BY <1>1, <2>2, <2>3 DEF DrainCalled, DrainLoops
<1>2. RecoveryLaneHasOneOwner /\ Tracked /\ activeTasks = {}
        => Recovering = {} /\ \A l \in Lane : ~inFlight[l]
  BY DEF RecoveryLaneHasOneOwner, Tracked, Lane, SimpleLane
<1>3. RecoveryLaneHasOneOwner /\ Tracked /\ [Next]_vars
        => [drain.state # "returned" /\ drain'.state = "returned"
              => Recovering = {} /\ \A l \in Lane : ~inFlight[l]]_vars
  BY <1>1, <1>2
<1>4. Init => Tracked BY DEF Init, Tracked, Recovering, SimpleLane, Lane
<1>5. Spec => []Tracked BY <1>4, TypeCorrect, TrackedNext, PTL DEF Spec
<1> QED BY <1>3, <1>5, OneOwner, PTL DEF Spec, DrainJoinsRecovery
=============================================================================
