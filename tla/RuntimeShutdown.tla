-------------------------- MODULE RuntimeShutdown --------------------------
(***************************************************************************)
(* What a signal does to a server: the shutdown flight of                  *)
(* server/src/index.ts and the controller it drives                        *)
(* (server/src/services/runtime-shutdown-controller.ts).                   *)
(*                                                                         *)
(* Nothing is cancelled.  A signal closes the starts of every owner in one *)
(* synchronous step; the flight then waits, join by join, for the work     *)
(* that was accepted before, while requests are still served, and closes   *)
(* the database only when every join has succeeded.  One failed join holds *)
(* the shutdown for ever, with the database open.                          *)
(*                                                                         *)
(* Work is counted by kind: what matters is who joins it, who may still    *)
(* start it, and whether it has begun an external effect (a child process, *)
(* a fetch, an RPC), which the process-local fence of                      *)
(* runtime-execution-lifecycle.ts denies after the signal.                 *)
(***************************************************************************)
EXTENDS Naturals

CONSTANTS MaxWork,    \* bound on the pieces of work ever accepted
          MaxFaults   \* bound on the failures injected

ASSUME BoundsAssumption == MaxWork \in Nat /\ MaxFaults \in Nat

\* What the process may be doing, apart from executions.
\*   reconcile  a start-up reconciler that index.ts tracks
\*   startup    work that app.ts tracks while it starts
\*   backup     the scheduled database backup
\*   owner      a tick of a scheduler, worker or monitor (the heartbeat's too)
\*   job        a job the plugin scheduler has dispatched
\*   independent, callback
\*              an HTTP handler with a ticket (http-handler-lifetime.ts)
\*   untracked  any other HTTP handler, what it leaves behind it, and a
\*              workflow advance in the background: nobody joins these
Kind == {"reconcile", "startup", "backup", "owner", "job", "independent",
         "callback", "untracked"}
HttpLane == {"independent", "callback"}

\* Executions: a workflow tool over a plugin worker, another workflow tool,
\* a heartbeat run.  "started" has crossed the external-start fence.
Executor == {"pluginTool", "tool", "heartbeat"}
Phase == {"fresh", "started"}

\* The awaits of performServerShutdown, and those of one drain.
Drain == {"drain1", "drain2", "drain3"}
Await == {"none", "boot", "reconcile", "backup", "seal", "ingress", "callbacks",
          "children", "resources", "database", "closed", "held"} \cup Drain
Stage == {"startup", "owners", "http", "plugins", "tools", "heartbeats"}

VARIABLES
  boot,         \* startServerWithRuntime: "starting", "ready" or "failed"
  stopping,     \* the signal has closed all starts
  flight,       \* where the shutdown flight waits
  stage,        \* where its current drain waits
  retained,     \* the stages whose flights the controller keeps
  drainFailed,  \* the current drain has collected a finalization failure
  work,         \* [Kind -> number in flight]
  exec,         \* [Executor -> [Phase -> number in flight]]
  unresolved,   \* phases of tool executions that failed without a disposition
  heldLanes,    \* HTTP lanes with a held finalization or a failed terminal
  ownerFailed,  \* an owner failed to stop, or its drain rejects
  ingress,      \* the HTTP listener: "unopened", "open", "closing", "closed"
  sealed,       \* callbacks are no longer admitted
  plugins,      \* the plugin workers: "up" or "down"
  children,     \* adapter children that outlived their execution
  accepted, faults   \* the bounds

vars == <<boot, stopping, flight, stage, retained, drainFailed, work, exec,
          unresolved, heldLanes, ownerFailed, ingress, sealed, plugins,
          children, accepted, faults>>
load == <<work, exec, unresolved, heldLanes, children, accepted>>
control == <<flight, stage, retained, drainFailed, plugins>>

TypeOK ==
  /\ boot \in {"starting", "ready", "failed"}
  /\ stopping \in BOOLEAN
  /\ flight \in Await /\ stage \in Stage
  /\ retained \subseteq Stage /\ drainFailed \in BOOLEAN
  /\ work \in [Kind -> 0..MaxWork]
  /\ exec \in [Executor -> [Phase -> 0..MaxWork]]
  /\ unresolved \subseteq Phase /\ heldLanes \subseteq HttpLane
  /\ ownerFailed \in BOOLEAN
  /\ ingress \in {"unopened", "open", "closing", "closed"}
  /\ sealed \in BOOLEAN /\ plugins \in {"up", "down"}
  /\ children \in 0..MaxWork
  /\ accepted \in 0..MaxWork /\ faults \in 0..MaxFaults

Init ==
  /\ boot = "starting" /\ stopping = FALSE
  /\ flight = "none" /\ stage = "startup" /\ retained = {} /\ drainFailed = FALSE
  /\ work = [k \in Kind |-> 0] /\ exec = [e \in Executor |-> [p \in Phase |-> 0]]
  /\ unresolved = {} /\ heldLanes = {} /\ ownerFailed = FALSE
  /\ ingress = "unopened" /\ sealed = FALSE /\ plugins = "up" /\ children = 0
  /\ accepted = 0 /\ faults = 0

Fault == faults < MaxFaults /\ faults' = faults + 1

-----------------------------------------------------------------------------
(* The process starts.  The listener opens only before a signal.           *)

Listen ==
  /\ boot = "starting" /\ ingress = "unopened" /\ ~stopping
  /\ ingress' = "open"
  /\ UNCHANGED <<boot, stopping, sealed, ownerFailed, control, load, faults>>

Booted ==
  /\ boot = "starting"
  /\ \/ boot' = "ready" /\ (stopping \/ ingress = "open") /\ UNCHANGED faults
     \/ boot' = "failed" /\ Fault
  /\ UNCHANGED <<stopping, sealed, ownerFailed, ingress, control, load>>

-----------------------------------------------------------------------------
(* Work arrives, begins its external effect, and ends.                     *)

Running(e) == exec[e]["fresh"] + exec[e]["started"]

\* The guards at the doors: `!stopping' around every start of app.ts and
\* index.ts, one backup at a time, the two gates of the HTTP lifetime, and the
\* listener.  A connection that is being closed may still carry a request.
Admits(k) ==
  CASE k \in {"reconcile", "startup"} -> boot = "starting" /\ ~stopping
    [] k = "backup" -> boot # "failed" /\ ~stopping /\ work["backup"] = 0
    [] k \in {"owner", "job"} -> boot # "failed" /\ ~stopping
    [] k = "independent" -> ingress = "open" /\ ~stopping
    [] k = "callback" -> ingress = "open" /\ ~sealed
    [] k = "untracked" -> \/ ingress \in {"open", "closing"}
                          \/ ~stopping /\ \E e \in Executor : Running(e) > 0

Accept(k) ==
  /\ flight # "closed" /\ accepted < MaxWork /\ Admits(k)
  /\ work' = [work EXCEPT ![k] = @ + 1]
  /\ accepted' = accepted + 1
  /\ UNCHANGED <<boot, stopping, control, exec, unresolved, heldLanes, ownerFailed,
                 ingress, sealed, children, faults>>

\* Start-up work and owners wake agents, owners and handlers run workflow
\* tools, and the tail of a heartbeat execution claims the next queued run.
\* None of this is denied after the signal: only the external start is.
Begets(e) ==
  \/ work["untracked"] > 0 \/ work["owner"] > 0 \/ work["startup"] > 0
  \/ e = "heartbeat" /\ Running("heartbeat") > 0

Spawn(e) ==
  /\ flight # "closed" /\ accepted < MaxWork /\ Begets(e)
  /\ exec' = [exec EXCEPT ![e]["fresh"] = @ + 1]
  /\ accepted' = accepted + 1
  /\ UNCHANGED <<boot, stopping, control, work, unresolved, heldLanes, ownerFailed,
                 ingress, sealed, children, faults>>

\* The fence is consulted by the caller instead of inside start().
StartExternalMutant(e) ==
  /\ flight # "closed"
  /\ exec[e]["fresh"] > 0
  /\ exec' = [exec EXCEPT ![e] = [fresh |-> @["fresh"] - 1,
                                  started |-> @["started"] + 1]]
  /\ UNCHANGED <<boot, stopping, control, work, unresolved, heldLanes, ownerFailed,
                 ingress, sealed, children, accepted, faults>>

\* RuntimeExecutionScope.start.  After the signal it answers with a deferral,
\* and the execution ends without one.
StartExternal(e) ==
  /\ flight # "closed" /\ ~stopping
  /\ exec[e]["fresh"] > 0
  /\ exec' = [exec EXCEPT ![e] = [fresh |-> @["fresh"] - 1,
                                  started |-> @["started"] + 1]]
  /\ UNCHANGED <<boot, stopping, control, work, unresolved, heldLanes, ownerFailed,
                 ingress, sealed, children, accepted, faults>>

\* An execution settles.  A started heartbeat may leave its child in
\* runningProcesses; a tool that rejects has no durable disposition.
FinishExecution(e, p) ==
  /\ flight # "closed" /\ exec[e][p] > 0
  /\ exec' = [exec EXCEPT ![e][p] = @ - 1]
  /\ \/ UNCHANGED <<unresolved, children, faults>>
     \/ /\ e # "heartbeat" /\ Fault
        /\ unresolved' = unresolved \cup {p}
        /\ UNCHANGED children
     \/ /\ e = "heartbeat" /\ p = "started" /\ Fault
        /\ children' = children + 1
        /\ UNCHANGED unresolved
  /\ UNCHANGED <<boot, stopping, control, work, heldLanes, ownerFailed, ingress,
                 sealed, accepted>>

\* A promise that is in two sets is taken out of the count twice.
FinishWorkMutant(k) ==
  /\ flight # "closed"
  /\ work' = [work EXCEPT ![k] = @ - 1]
  /\ UNCHANGED <<boot, stopping, control, exec, unresolved, heldLanes, ownerFailed,
                 ingress, sealed, children, accepted, faults>>

\* A piece of work ends: a ticket whose handler could not record its receipt
\* (holdFinalization) or whose error handler failed leaves its lane held.
FinishWork(k) ==
  /\ flight # "closed" /\ work[k] > 0
  /\ work' = [work EXCEPT ![k] = @ - 1]
  /\ \/ UNCHANGED <<heldLanes, ownerFailed, faults>>
     \/ k \in HttpLane /\ Fault /\ heldLanes' = heldLanes \cup {k} /\ UNCHANGED ownerFailed
     \/ k = "owner" /\ Fault /\ ownerFailed' = TRUE /\ UNCHANGED heldLanes
  /\ UNCHANGED <<boot, stopping, control, exec, unresolved, ingress, sealed,
                 children, accepted>>

-----------------------------------------------------------------------------
(* The signal.  createRuntimeShutdownFlight: every stop runs even if an    *)
(* earlier one throws; a later signal joins the same flight.               *)

Signal ==
  /\ flight = "none"
  /\ stopping' = TRUE
  /\ \/ flight' = "boot" /\ UNCHANGED <<ownerFailed, faults>>
     \/ flight' = "boot" /\ Fault /\ ownerFailed' = TRUE   \* stopOwner caught it
     \/ flight' = "held" /\ Fault /\ UNCHANGED ownerFailed \* an index stop threw
  /\ UNCHANGED <<boot, stage, retained, drainFailed, plugins, load, ingress, sealed>>

-----------------------------------------------------------------------------
(* performServerShutdown, up to the first drain.                           *)

Go(to) == flight' = to /\ UNCHANGED <<stage, retained, drainFailed, plugins>>
Rest == UNCHANGED <<boot, stopping, load, ownerFailed>>

AwaitBoot ==
  /\ flight = "boot" /\ boot # "starting"
  /\ Go(IF boot = "ready" THEN "reconcile" ELSE "held")
  /\ Rest /\ UNCHANGED <<ingress, sealed, faults>>

JoinReconcilers ==
  /\ flight = "reconcile" /\ work["reconcile"] = 0
  /\ Go("backup")
  /\ Rest /\ UNCHANGED <<ingress, sealed, faults>>

JoinBackup ==
  /\ flight = "backup" /\ work["backup"] = 0
  /\ Go("drain1")
  /\ Rest /\ UNCHANGED <<ingress, sealed, faults>>

-----------------------------------------------------------------------------
(* One drain of createAppRuntimeShutdownController.  The flights of the    *)
(* first three joins are kept: a later drain does not repeat them.         *)

\* shutdownAll stops the workers without draining their retained results.
PendingMutant(s) ==
  CASE s = "startup" -> work["startup"] > 0
    [] s = "owners" -> work["owner"] > 0
    [] s = "http" -> work["independent"] > 0
    [] s = "plugins" -> work["job"] > 0
    [] s = "tools" -> Running("tool") > 0 \/ Running("pluginTool") > 0
    [] s = "heartbeats" -> Running("heartbeat") > 0

Pending(s) ==
  CASE s = "startup" -> work["startup"] > 0
    [] s = "owners" -> work["owner"] > 0
    [] s = "http" -> work["independent"] > 0
    [] s = "plugins" -> work["job"] > 0 \/ exec["pluginTool"]["started"] > 0
    [] s = "tools" -> Running("tool") > 0 \/ Running("pluginTool") > 0
    [] s = "heartbeats" -> Running("heartbeat") > 0

NextStage == [startup |-> "owners", owners |-> "http", http |-> "plugins",
              plugins |-> "tools", tools |-> "heartbeats", heartbeats |-> "startup"]
AfterDrain == [drain1 |-> "seal", drain2 |-> "children", drain3 |-> "resources"]

\* drainStartup, drainProducers, drain("independent"), shutdownAll.
JoinProducers ==
  /\ flight \in Drain /\ stage \in {"startup", "owners", "http", "plugins"}
  /\ IF stage \in retained
       THEN stage' = NextStage[stage] /\ UNCHANGED <<flight, retained, plugins, faults>>
       ELSE /\ ~Pending(stage)
            /\ \/ /\ ~(stage = "owners" /\ ownerFailed)
                  /\ ~(stage = "http" /\ "independent" \in heldLanes)
                  /\ stage' = NextStage[stage]
                  /\ retained' = IF stage = "http" THEN retained ELSE retained \cup {stage}
                  /\ plugins' = IF stage = "plugins" THEN "down" ELSE plugins
                  /\ UNCHANGED <<flight, faults>>
               \/ /\ \/ stage = "owners" /\ ownerFailed /\ UNCHANGED faults
                     \/ stage = "http" /\ "independent" \in heldLanes /\ UNCHANGED faults
                     \/ stage = "plugins" /\ Fault
                  /\ flight' = "held"
                  /\ UNCHANGED <<stage, retained, plugins>>
  /\ UNCHANGED drainFailed
  /\ Rest /\ UNCHANGED <<ingress, sealed>>

\* The tracker forgets the error once the execution is deleted from its set.
JoinToolsMutant ==
  /\ flight \in Drain /\ stage = "tools" /\ ~Pending("tools")
  /\ drainFailed' = FALSE
  /\ stage' = "heartbeats"
  /\ UNCHANGED <<flight, retained, plugins>>
  /\ Rest /\ UNCHANGED <<ingress, sealed, faults>>

\* createWorkflowToolExecutionTracker.drain: a failure is collected, and the
\* heartbeats are joined all the same.
JoinTools ==
  /\ flight \in Drain /\ stage = "tools" /\ ~Pending("tools")
  /\ drainFailed' = (unresolved # {})
  /\ stage' = "heartbeats"
  /\ UNCHANGED <<flight, retained, plugins>>
  /\ Rest /\ UNCHANGED <<ingress, sealed, faults>>

EndDrain(failed) ==
  /\ flight' = IF failed THEN "held" ELSE AfterDrain[flight]
  /\ stage' = "startup"
  /\ drainFailed' = FALSE
  /\ UNCHANGED <<retained, plugins>>
  /\ Rest /\ UNCHANGED <<ingress, sealed, faults>>

\* waitForHeartbeatExecutionsToDrain: no execution left, or 30 s are over.
JoinHeartbeats ==
  /\ flight \in Drain /\ stage = "heartbeats" /\ ~Pending("heartbeats")
  /\ EndDrain(drainFailed)

\* The drain of the heartbeats has no deadline.
HeartbeatsTimeOutMutant == FALSE /\ EndDrain(TRUE)

HeartbeatsTimeOut ==
  /\ flight \in Drain /\ stage = "heartbeats" /\ Pending("heartbeats")
  /\ EndDrain(TRUE)

-----------------------------------------------------------------------------
(* Between and after the drains.                                           *)

\* sealHttpIngress and the synchronous part of closeRemainingIngress.
SealIngress ==
  /\ flight = "seal"
  /\ sealed' = TRUE
  /\ ingress' = IF ingress = "open" THEN "closing" ELSE "closed"
  /\ Go("ingress")
  /\ Rest /\ UNCHANGED faults

\* The connections are gone; their handlers need not be.
IngressClosed ==
  /\ flight = "ingress"
  /\ ingress' = "closed"
  /\ \/ Go("callbacks") /\ UNCHANGED faults
     \/ Go("held") /\ Fault
  /\ Rest /\ UNCHANGED sealed

JoinCallbacks ==
  /\ flight = "callbacks" /\ work["callback"] = 0
  /\ Go(IF "callback" \in heldLanes THEN "held" ELSE "drain2")
  /\ Rest /\ UNCHANGED <<ingress, sealed, faults>>

\* terminateDrainedChildren: the flush and the signals run side by side; the
\* children are dead whatever becomes of the flush.
TerminateChildren ==
  /\ flight = "children"
  /\ children' = 0
  /\ \/ Go("drain3") /\ UNCHANGED faults
     \/ children > 0 /\ Go("held") /\ Fault
  /\ UNCHANGED <<boot, stopping, work, exec, unresolved, heldLanes, accepted,
                 ownerFailed, ingress, sealed>>

\* disposeResources, then client.end and the embedded database.
Dispose ==
  /\ flight = "resources"
  /\ \/ Go("database") /\ UNCHANGED faults
     \/ Go("held") /\ Fault
  /\ Rest /\ UNCHANGED <<ingress, sealed>>

CloseDatabase ==
  /\ flight = "database"
  /\ \/ Go("closed") /\ UNCHANGED faults
     \/ Go("held") /\ Fault
  /\ Rest /\ UNCHANGED <<ingress, sealed>>

Flight ==
  \/ AwaitBoot \/ JoinReconcilers \/ JoinBackup
  \/ JoinProducers \/ JoinTools \/ JoinHeartbeats \/ HeartbeatsTimeOut
  \/ SealIngress \/ IngressClosed \/ JoinCallbacks
  \/ TerminateChildren \/ Dispose \/ CloseDatabase

Next ==
  \/ Listen \/ Booted \/ Signal \/ Flight
  \/ \E k \in Kind : Accept(k) \/ FinishWork(k)
  \/ \E e \in Executor : Spawn(e) \/ StartExternal(e)
                         \/ \E p \in Phase : FinishExecution(e, p)

Spec == Init /\ [][Next]_vars

\* The flight is driven by its promises and its timer, the process finishes
\* starting, what is joined ends, and a tool's external call is bounded by its
\* own timeout.  A heartbeat run may work for hours and an untracked handler is
\* waited for by nobody: neither is assumed to end.
FairSpec ==
  /\ Spec
  /\ WF_vars(Booted) /\ WF_vars(Flight)
  /\ \A k \in Kind \ {"untracked"} : WF_vars(FinishWork(k))
  /\ \A e \in Executor \ {"heartbeat"}, p \in Phase : WF_vars(FinishExecution(e, p))

-----------------------------------------------------------------------------
(* Properties                                                              *)

Started == exec["pluginTool"]["started"] + exec["tool"]["started"]
           + exec["heartbeat"]["started"]

\* The database is closed under no work that can still use it: no execution
\* that began an external effect, no ticket of the HTTP lifetime, no owner, job
\* or backup in flight (index.ts:123-149).  The second and third drains repeat
\* only half of the joins of the first, so this rests on what the signal
\* stopped and on the fence, not on the last drain.
StartedWorkIsDrained ==
  flight \in {"resources", "database", "closed"} =>
    /\ Started = 0 /\ children = 0
    /\ \A k \in Kind \ {"untracked"} : work[k] = 0

\* The plugin workers stop only when nothing that may call them is left:
\* start-up, owners, jobs, independent requests, plugin tools whose result is
\* retained (runtime-shutdown-controller.ts:140-147).
PluginsOutliveTheirUsers ==
  plugins = "down" =>
    /\ exec["pluginTool"]["started"] = 0
    /\ \A k \in {"startup", "owner", "job", "independent"} : work[k] = 0

\* A result without a durable disposition keeps the database open: a started
\* tool that rejected, a held HTTP receipt, an owner that failed to stop
\* (runtime-shutdown-controller.ts:16-28, app.ts:369-383).
UnresolvedHoldsDatabase ==
  flight = "closed" => "started" \notin unresolved /\ heldLanes = {} /\ ~ownerFailed

\* The flight always settles, either way: no join waits for ever
\* (index.ts:123-155).
ShutdownSettles == stopping ~> flight \in {"closed", "held"}

\* doc/SPEC-implementation.md:1051: on a signal the server durably marks its
\* tracked running runs and signals their children.  So once the flight is
\* over, no run that was at work is still at work, unmarked.
InterruptedRunsAreFlushed ==
  flight \in {"closed", "held"} => exec["heartbeat"]["started"] = 0
=============================================================================
