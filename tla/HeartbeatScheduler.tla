------------------------- MODULE HeartbeatScheduler -------------------------
(***************************************************************************)
(* The periodic driver of the heartbeat service                            *)
(* (server/src/services/heartbeat-scheduler.ts).                           *)
(*                                                                         *)
(* Three lanes (timer, routine, recovery) are ticked by interval timers.   *)
(* A lane skips a tick while its previous one is in flight.  A recovery    *)
(* tick that overruns its wall-clock budget gives the lane back, but its   *)
(* task cannot be cancelled: it keeps running next to its successors.      *)
(* stop() ends the ticking, drain() waits for every promise still tracked. *)
(*                                                                         *)
(* Covered: lanes, flights, the timeout race, generations, start, stop,    *)
(* drain, and the order and error handling of the recovery steps.          *)
(* Not covered: what the steps do to the database (RunFinalization), the   *)
(* lengths of the intervals, logging.                                      *)
(***************************************************************************)
EXTENDS Naturals, FiniteSets

CONSTANTS MaxGeneration,   \* bound on start/stop calls
          MaxTicks         \* bound on the ticks a lane runs

ASSUME BoundsAssumption == MaxGeneration \in Nat /\ MaxTicks \in Nat \ {0}

Lane == {"timer", "routine", "recovery"}
SimpleLane == Lane \ {"recovery"}
Flight == 1..MaxTicks

\* The awaits of recover(), in their order; "ended" is a settled task.
RecoverStage == {"orphans", "busyRuntimes", "issueLocks", "resume", "ended"}

\* A tracked promise: a lane's task, or the lifecycle racing a recovery
\* task against its budget.
Task == [lane : Lane, n : Flight, part : {"task", "life"}]

VARIABLES
  running, timerGeneration,
  handle,        \* the generation a lane's interval was created for, 0 = null
  inFlight,      \* per lane
  laneFlights,   \* the number of the lane's last tick
  race,          \* per recovery flight: "none", "racing", "won" (task), "timeout"
  stage,         \* per recovery flight: the await its task is in
  activeTasks,   \* promises that have not settled
  drain          \* the snapshot drain() awaits, or NotDraining

vars == <<running, timerGeneration, handle, inFlight, laneFlights, race, stage,
          activeTasks, drain>>

NotDraining == [state |-> "idle", on |-> {}]

TypeOK ==
  /\ running \in BOOLEAN
  /\ timerGeneration \in 0..MaxGeneration
  /\ handle \in [Lane -> 0..MaxGeneration]
  /\ inFlight \in [Lane -> BOOLEAN]
  /\ laneFlights \in [Lane -> 0..MaxTicks]
  /\ race \in [Flight -> {"none", "racing", "won", "timeout"}]
  /\ stage \in [Flight -> {"none"} \cup RecoverStage]
  /\ activeTasks \subseteq Task
  /\ drain \in [state : {"idle", "returned"}, on : {{}}]
                 \cup [state : {"waiting"}, on : (SUBSET Task) \ {{}}]

Init ==
  /\ running = FALSE
  /\ timerGeneration = 0
  /\ handle = [l \in Lane |-> 0]
  /\ inFlight = [l \in Lane |-> FALSE]
  /\ laneFlights = [l \in Lane |-> 0]
  /\ race = [f \in Flight |-> "none"]
  /\ stage = [f \in Flight |-> "none"]
  /\ activeTasks = {}
  /\ drain = NotDraining

TaskOf(l, n) == [lane |-> l, n |-> n, part |-> "task"]
LifeOf(f) == [lane |-> "recovery", n |-> f, part |-> "life"]

-----------------------------------------------------------------------------
(* runLane: skip while in flight, otherwise start the lane's task.         *)

\* Tracks the lifecycle of a recovery flight only: it settles with the budget.
RunLaneMutant(l) ==
  IF inFlight[l]
  THEN UNCHANGED <<inFlight, laneFlights, race, stage, activeTasks>>
  ELSE LET n == laneFlights[l] + 1 IN
       /\ n \in Flight
       /\ inFlight' = [inFlight EXCEPT ![l] = TRUE]
       /\ laneFlights' = [laneFlights EXCEPT ![l] = n]
       /\ IF l = "recovery"
          THEN /\ race' = [race EXCEPT ![n] = "racing"]
               /\ stage' = [stage EXCEPT ![n] = "orphans"]
               /\ activeTasks' = activeTasks \cup {LifeOf(n)}
          ELSE /\ activeTasks' = activeTasks \cup {TaskOf(l, n)}
               /\ UNCHANGED <<race, stage>>

RunLane(l) ==
  IF inFlight[l]
  THEN UNCHANGED <<inFlight, laneFlights, race, stage, activeTasks>>
  ELSE LET n == laneFlights[l] + 1 IN
       /\ n \in Flight
       /\ inFlight' = [inFlight EXCEPT ![l] = TRUE]
       /\ laneFlights' = [laneFlights EXCEPT ![l] = n]
       /\ IF l = "recovery"
          THEN /\ race' = [race EXCEPT ![n] = "racing"]
               /\ stage' = [stage EXCEPT ![n] = "orphans"]
               /\ activeTasks' = activeTasks \cup {TaskOf(l, n), LifeOf(n)}
          ELSE /\ activeTasks' = activeTasks \cup {TaskOf(l, n)}
               /\ UNCHANGED <<race, stage>>

\* runAutomaticLane, called by the interval created for generation g.
RunAutomaticLane(g, l) ==
  IF running /\ timerGeneration = g
  THEN RunLane(l)
  ELSE UNCHANGED <<inFlight, laneFlights, race, stage, activeTasks>>

Tick(l) ==
  /\ handle[l] # 0
  /\ RunAutomaticLane(handle[l], l)
  /\ UNCHANGED <<running, timerGeneration, handle, drain>>

\* start(): a recovery tick at once, then one interval per lane.
Start ==
  /\ ~running
  /\ timerGeneration < MaxGeneration
  /\ running' = TRUE
  /\ timerGeneration' = timerGeneration + 1
  /\ RunLane("recovery")
  /\ handle' = [l \in Lane |-> timerGeneration + 1]
  /\ UNCHANGED drain

Stop ==
  /\ running
  /\ timerGeneration < MaxGeneration
  /\ running' = FALSE
  /\ timerGeneration' = timerGeneration + 1
  /\ handle' = [l \in Lane |-> 0]
  /\ UNCHANGED <<inFlight, laneFlights, race, stage, activeTasks, drain>>

-----------------------------------------------------------------------------
(* Settling of the tracked promises.                                       *)

\* A timer or routine tick ends, normally or by a caught error; its finally
\* frees the lane before the tracked promise settles.
SimpleTaskEnds(l) ==
  /\ l \in SimpleLane
  /\ \E t \in activeTasks :
        /\ t.lane = l
        /\ activeTasks' = activeTasks \ {t}
  /\ inFlight' = [inFlight EXCEPT ![l] = FALSE]
  /\ UNCHANGED <<running, timerGeneration, handle, laneFlights, race, stage, drain>>

\* One await of recover() returns.  The two middle reapers are wrapped in
\* try/catch, so that their failure continues the task like their success.
RecoverStep(f) ==
  /\ stage[f] \in {"orphans", "busyRuntimes", "issueLocks"}
  /\ stage' = [stage EXCEPT ![f] =
                 CASE @ = "orphans" -> "busyRuntimes"
                   [] @ = "busyRuntimes" -> "issueLocks"
                   [] @ = "issueLocks" -> "resume"]
  /\ UNCHANGED <<running, timerGeneration, handle, inFlight, laneFlights, race,
                 activeTasks, drain>>

\* The task settles: resumeQueuedRuns returned, or one of the two unguarded
\* awaits threw.  It decides the race only if the budget has not.
RecoverSettlesMutant(f) ==
  /\ stage[f] \in {"orphans", "resume"}
  /\ stage' = [stage EXCEPT ![f] = "ended"]
  /\ race' = [race EXCEPT ![f] = IF @ = "racing" THEN "won" ELSE @]
  /\ activeTasks' = activeTasks \ {TaskOf("recovery", f)}
  /\ inFlight' = [inFlight EXCEPT !["recovery"] = FALSE]
  /\ UNCHANGED <<running, timerGeneration, handle, laneFlights, drain>>

RecoverSettles(f) ==
  /\ stage[f] \in {"orphans", "resume"}
  /\ stage' = [stage EXCEPT ![f] = "ended"]
  /\ race' = [race EXCEPT ![f] = IF @ = "racing" THEN "won" ELSE @]
  /\ activeTasks' = activeTasks \ {TaskOf("recovery", f)}
  /\ UNCHANGED <<running, timerGeneration, handle, inFlight, laneFlights, drain>>

\* The budget's setTimeout fires before the task settled.
BudgetExpiresMutant(f) ==
  /\ race[f] = "racing"
  /\ stage[f] = "ended"
  /\ race' = [race EXCEPT ![f] = "timeout"]
  /\ UNCHANGED <<running, timerGeneration, handle, inFlight, laneFlights, stage,
                 activeTasks, drain>>

BudgetExpires(f) ==
  /\ race[f] = "racing"
  /\ race' = [race EXCEPT ![f] = "timeout"]
  /\ UNCHANGED <<running, timerGeneration, handle, inFlight, laneFlights, stage,
                 activeTasks, drain>>

\* The finally of the lifecycle: the lane is freed by its own flight only.
LifecycleFinally(f) ==
  /\ race[f] \in {"won", "timeout"}
  /\ LifeOf(f) \in activeTasks
  /\ inFlight' = [inFlight EXCEPT !["recovery"] =
                    IF laneFlights["recovery"] = f THEN FALSE ELSE @]
  /\ activeTasks' = activeTasks \ {LifeOf(f)}
  /\ UNCHANGED <<running, timerGeneration, handle, laneFlights, race, stage, drain>>

-----------------------------------------------------------------------------
(* drain(): await a snapshot of the active tasks until there is none.      *)

\* Awaits before it looks, and so an empty snapshot.
DrainCalledMutant ==
  /\ drain.state = "idle"
  /\ drain' = [state |-> "waiting", on |-> activeTasks]
  /\ UNCHANGED <<running, timerGeneration, handle, inFlight, laneFlights, race,
                 stage, activeTasks>>

DrainCalled ==
  /\ drain.state = "idle"
  /\ drain' = IF activeTasks = {} THEN [state |-> "returned", on |-> {}]
              ELSE [state |-> "waiting", on |-> activeTasks]
  /\ UNCHANGED <<running, timerGeneration, handle, inFlight, laneFlights, race,
                 stage, activeTasks>>

DrainLoops ==
  /\ drain.state = "waiting"
  /\ drain.on \cap activeTasks = {}
  /\ drain' = IF activeTasks = {} THEN [state |-> "returned", on |-> {}]
              ELSE [state |-> "waiting", on |-> activeTasks]
  /\ UNCHANGED <<running, timerGeneration, handle, inFlight, laneFlights, race,
                 stage, activeTasks>>

\* The caller has resumed after drain(); it may drain again.
DrainDone ==
  /\ drain.state = "returned"
  /\ drain' = NotDraining
  /\ UNCHANGED <<running, timerGeneration, handle, inFlight, laneFlights, race,
                 stage, activeTasks>>

Next ==
  \/ Start \/ Stop
  \/ \E l \in Lane : Tick(l)
  \/ \E l \in SimpleLane : SimpleTaskEnds(l)
  \/ \E f \in Flight : RecoverStep(f) \/ RecoverSettles(f) \/ BudgetExpires(f)
                         \/ LifecycleFinally(f)
  \/ DrainCalled \/ DrainLoops \/ DrainDone

\* The runtime delivers timers and runs promise callbacks; nothing says that
\* a database call ever returns, so task ends have no fairness here.
Spec ==
  /\ Init /\ [][Next]_vars
  /\ WF_vars(DrainLoops)
  /\ \A f \in Flight : WF_vars(BudgetExpires(f)) /\ WF_vars(LifecycleFinally(f))

-----------------------------------------------------------------------------
(* Properties.                                                             *)

\* A late end of an abandoned recovery task never frees the lane of a newer
\* flight: the lane is taken exactly while the last flight's lifecycle is
\* pending, and at most one lifecycle is pending.
RecoveryLaneHasOneOwner ==
  /\ inFlight["recovery"] <=> \E f \in Flight : LifeOf(f) \in activeTasks
  /\ \A f \in Flight : LifeOf(f) \in activeTasks => f = laneFlights["recovery"]

\* A flight whose recovery task is between two of its awaits.
Recovering == {f \in Flight : stage[f] \notin {"none", "ended"}}

\* When drain() resolves, no recovery task is left between two awaits and no
\* lane is taken: not the task of the last flight, and not one whose lane the
\* budget gave back, which is joined though nothing owns it any more.
DrainJoinsRecovery ==
  [][drain.state # "returned" /\ drain'.state = "returned"
       => Recovering = {} /\ \A l \in Lane : ~inFlight[l]]_vars

\* A recovery task that never returns does not take the lane for ever: the
\* lane is given back in bounded time whatever the task does.
RecoveryLaneIsReleased ==
  \A f \in Flight :
    (inFlight["recovery"] /\ laneFlights["recovery"] = f)
      ~> ~(inFlight["recovery"] /\ laneFlights["recovery"] = f)
=============================================================================
