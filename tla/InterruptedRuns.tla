-------------------------- MODULE InterruptedRuns ---------------------------
(***************************************************************************)
(* The runs that a server process leaves behind when it stops, while its   *)
(* successor is already, or not yet, at work on the same database.         *)
(*                                                                         *)
(* A process claims queued runs of an agent under a start lock of its own  *)
(* (heartbeat-start-lock.ts), executes them as children it tracks in       *)
(* memory, and when it is told to stop, after its drains, marks the runs   *)
(* of the children that are left "shutdown_interrupted" and queues their   *)
(* retries (markRunsShutdownInterrupted of heartbeat.ts).  The sweep of    *)
(* any process (heartbeat-orphan-reaper.ts) ends running rows that nobody  *)
(* executes and retries them, and then retries the marked runs that have   *)
(* no successor, the "backstop".                                           *)
(*                                                                         *)
(* Every action is one statement or one transaction: a mark and a retry    *)
(* are two of them, and so are the backstop's look for a successor and its *)
(* retry.  A process may crash between any two, and the sweeps of one      *)
(* process overlap: the recovery lane is given back when its budget runs   *)
(* out, while the task goes on (heartbeat-scheduler.ts:110-143).           *)
(*                                                                         *)
(* One agent, on a host that all the processes share, with an adapter that *)
(* records its child and without a fallback adapter.  Executions are cut   *)
(* down to their children and their statuses: how they settle, and what a  *)
(* sweep does with the runs of its own process, is in RunFinalization.  A  *)
(* run that ended holds no slot.  The runs are those that no workflow step *)
(* waits for: of the others a retry may be refused.                        *)
(***************************************************************************)
EXTENDS Integers, FiniteSets

CONSTANTS
  Servers,        \* how many server processes follow one another
  Sweeps,         \* bound on the sweeps at work at once
  Queued,         \* how many runs are queued at first
  Retries,        \* bound on the retries that are queued
  MaxConcurrent,  \* maxConcurrentRuns of the agent
  ScanLimit,      \* how many marked runs a backstop looks at (50)
  MaxErrors       \* bound on the statements that fail

ASSUME ConstantsAssumption ==
  /\ Servers \in Nat \ {0} /\ Sweeps \in Nat \ {0}
  /\ Queued \in Nat \ {0} /\ Retries \in Nat
  /\ MaxConcurrent \in Nat \ {0} /\ ScanLimit \in Nat \ {0}
  /\ MaxErrors \in Nat

Process == 1..Servers
Task == Process \X (1..Sweeps)    \* recovery tasks, t[1] is the process of t
Run == 1..(Queued + Retries)
None == 0                     \* no run

VARIABLES
  run,      \* heartbeat_runs: status, errorCode, processLossRetryCount,
            \* retryOfRunId, and whether processPid is recorded
  alive,    \* the runs whose child is running
  signalled,  \* those of them whose child has been sent SIGTERM
  server,   \* a process: its phase, activeRunExecutions, runningProcesses
  pass,     \* the claim pass of a process: the runs it selected
  flush,    \* its shutdown flush
  sweep,    \* the sweep of a recovery task
  errors

vars == <<run, alive, signalled, server, pass, flush, sweep, errors>>

Ended == {"succeeded", "failed"}    \* a failure of its own counts as a success
FlushSteps == {"idle", "next", "mark", "retry"}
SweepSteps == {"idle", "running", "losing", "retry", "marked", "checked"}
Steps == FlushSteps \cup SweepSteps
\* A flush or a sweep: the runs to do, the one at hand, the step, and of the
\* rows that a sweep has read and not done those with a processPid.
Job == [todo : SUBSET Run, run : Run \cup {None}, at : Steps, pids : SUBSET Run]
Idle == [todo |-> {}, run |-> None, at |-> "idle", pids |-> {}]
To(job, todo, at) == [job EXCEPT !.todo = todo, !.run = None, !.at = at]
Take(job, r, at) == [job EXCEPT !.todo = @ \ {r}, !.run = r, !.at = at]
Skip(job, r) == [job EXCEPT !.todo = @ \ {r}, !.pids = @ \ {r}]
Back(job, at) == [job EXCEPT !.run = None, !.at = at, !.pids = @ \ {job.run}]

TypeOK ==
  /\ run \in [Run -> [status : {"absent", "queued", "running"} \cup Ended,
                      code : {"none", "interrupted", "lost"}, losses : 0..1,
                      retryOf : Run \cup {None}, pid : BOOLEAN]]
  /\ alive \subseteq Run /\ signalled \subseteq Run
  /\ server \in [Process -> [phase : {"none", "up", "stopping", "flushing", "gone"},
                             active : SUBSET Run, tracked : SUBSET Run]]
  /\ pass \in [Process -> SUBSET Run]
  /\ \A p \in Process : flush[p] \in Job /\ flush[p].at \in FlushSteps
  /\ \A t \in Task : sweep[t] \in Job /\ sweep[t].at \in SweepSteps
  /\ errors \in 0..MaxErrors

Row(status, losses, retryOf) ==
  [status |-> status, code |-> "none", losses |-> losses, retryOf |-> retryOf, pid |-> FALSE]

Server(phase) == [phase |-> phase, active |-> {}, tracked |-> {}]

Init ==
  /\ run = [r \in Run |-> Row(IF r <= Queued THEN "queued" ELSE "absent", 0, None)]
  /\ alive = {} /\ signalled = {}
  /\ server = [p \in Process |-> Server(IF p = 1 THEN "up" ELSE "none")]
  /\ pass = [p \in Process |-> {}]
  /\ flush = [p \in Process |-> Idle]
  /\ sweep = [t \in Task |-> Idle]
  /\ errors = 0

-----------------------------------------------------------------------------
InStatus(status) == {r \in Run : run[r].status = status}
IsFirst(r, S) == r \in S /\ \A q \in S : r <= q
Successors(r) == {q \in Run : run[q].retryOf = r}

\* What the backstop selects: a marked run that has its retry to come, and for
\* ever after also one that has had it.
Interrupted ==
  {r \in Run : run[r].status = "failed" /\ run[r].code = "interrupted" /\ run[r].losses = 0}

\* The oldest n runs of S, or all of them.
Oldest(n, S) == {r \in S : Cardinality({q \in S : q < r}) < n}

\* setHeartbeatRunStatus with expectedStatuses: the compare-and-set of a row
\* that is still running.
EndIfRunning(r, status, code) ==
  run' = IF run[r].status = "running"
         THEN [run EXCEPT ![r].status = status, ![r].code = code]
         ELSE run

\* enqueueProcessLossRetry of a run without a workflow identity looks at
\* nothing but the parent it was given.
EnqueueRetry(r) ==
  \E q \in Run :
    /\ IsFirst(q, InStatus("absent"))
    /\ run' = [run EXCEPT ![q] = Row("queued", run[r].losses + 1, r)]

-----------------------------------------------------------------------------
(* A server process.                                                       *)

\* The successor may start before its predecessor stops.
Start(p) ==
  /\ server[p].phase = "none" /\ server[p - 1].phase # "none"
  /\ server' = [server EXCEPT ![p].phase = "up"]
  /\ UNCHANGED <<run, alive, signalled, pass, flush, sweep, errors>>

Signal(p) ==
  /\ server[p].phase = "up" /\ p # Servers
  /\ server' = [server EXCEPT ![p].phase = "stopping"]
  /\ UNCHANGED <<run, alive, signalled, pass, flush, sweep, errors>>

\* The memory of the process is gone; its children live on.
Gone(p) ==
  /\ server' = [server EXCEPT ![p] = Server("gone")]
  /\ pass' = [pass EXCEPT ![p] = {}]
  /\ flush' = [flush EXCEPT ![p] = Idle]
  /\ sweep' = [t \in Task |-> IF t[1] = p THEN Idle ELSE sweep[t]]

Crash(p) ==
  /\ server[p].phase \in {"up", "stopping", "flushing"} /\ p # Servers
  /\ Gone(p)
  /\ UNCHANGED <<run, alive, signalled, errors>>

-----------------------------------------------------------------------------
(* startNextQueuedRunForAgent.                                             *)

\* Mistake: no start lock, so that a second pass counts before the first claims.
BeginPassMutant(p) ==
  LET slots == MaxConcurrent - Cardinality(InStatus("running"))
  IN /\ server[p].phase \in {"up", "stopping"} /\ slots > 0
     /\ InStatus("queued") # {}
     /\ pass' = [pass EXCEPT ![p] = @ \cup Oldest(slots, InStatus("queued") \ @)]
     /\ UNCHANGED <<run, alive, signalled, server, flush, sweep, errors>>

\* The slots are counted and the runs selected once, under the start lock of
\* this process alone.
BeginPass(p) ==
  LET slots == MaxConcurrent - Cardinality(InStatus("running"))
  IN /\ server[p].phase \in {"up", "stopping"} /\ pass[p] = {} /\ slots > 0
     /\ InStatus("queued") # {}
     /\ pass' = [pass EXCEPT ![p] = Oldest(slots, InStatus("queued"))]
     /\ UNCHANGED <<run, alive, signalled, server, flush, sweep, errors>>

\* The claim is a compare-and-set; executeRun starts at once.
Claim(p) ==
  \E r \in Run :
    /\ IsFirst(r, pass[p])
    /\ pass' = [pass EXCEPT ![p] = @ \ {r}]
    /\ IF run[r].status = "queued"
       THEN /\ run' = [run EXCEPT ![r].status = "running"]
            /\ server' = [server EXCEPT ![p].active = @ \cup {r}]
       ELSE UNCHANGED <<run, server>>
    /\ UNCHANGED <<alive, signalled, flush, sweep, errors>>

-----------------------------------------------------------------------------
(* An execution.                                                           *)

\* The external start is admitted until the signal.
StartChild(p, r) ==
  /\ server[p].phase = "up" /\ r \in server[p].active
  /\ run[r].status = "running" /\ ~run[r].pid
  /\ run' = [run EXCEPT ![r].pid = TRUE]
  /\ alive' = alive \cup {r}
  /\ server' = [server EXCEPT ![p].tracked = @ \cup {r}]
  /\ UNCHANGED <<signalled, pass, flush, sweep, errors>>

\* After the signal a run that has not started goes back to the queue.
Defer(p, r) ==
  /\ server[p].phase # "up" /\ r \in server[p].active /\ ~run[r].pid
  /\ run[r].status = "running"
  /\ run' = [run EXCEPT ![r].status = "queued"]
  /\ server' = [server EXCEPT ![p].active = @ \ {r}]
  /\ UNCHANGED <<alive, signalled, pass, flush, sweep, errors>>

\* The adapter has returned, or the start of its child has failed.
Finish(p, r) ==
  /\ r \in server[p].active \ alive
  /\ EndIfRunning(r, "succeeded", "none")
  /\ server' = [server EXCEPT ![p].active = @ \ {r}]
  /\ UNCHANGED <<alive, signalled, pass, flush, sweep, errors>>

\* An execution whose statements fail ends and leaves its row running, and a
\* child that outlives the call of its adapter stays tracked.
FailExecution(p, r) ==
  /\ r \in server[p].active
  /\ server' = [server EXCEPT ![p].active = @ \ {r}]
  /\ UNCHANGED <<run, alive, signalled, pass, flush, sweep, errors>>

\* A child ends by itself, or because it was told to.
ChildExits(r) ==
  /\ r \in alive
  /\ alive' = alive \ {r} /\ signalled' = signalled \ {r}
  /\ server' = [p \in Process |-> [server[p] EXCEPT !.tracked = @ \ {r}]]
  /\ UNCHANGED <<run, pass, flush, sweep, errors>>

-----------------------------------------------------------------------------
(* terminateDrainedChildren and its flush.                                 *)

\* The drains have joined the claim passes, every sweep, the abandoned ones
\* too, and the executions; the children still tracked are told to stop.
BeginFlush(p) ==
  /\ server[p].phase = "stopping"
  /\ pass[p] = {} /\ \A t \in Task : t[1] = p => sweep[t].at = "idle"
  /\ server[p].active = {}
  /\ server' = [server EXCEPT ![p].phase = "flushing"]
  /\ flush' = [flush EXCEPT ![p] = To(Idle, server[p].tracked, "next")]
  /\ signalled' = signalled \cup server[p].tracked
  /\ UNCHANGED <<run, alive, pass, sweep, errors>>

\* A row that is no longer running is fenced off before the mark.
FlushNext(p) ==
  /\ flush[p].at = "next"
  /\ \E r \in flush[p].todo :
       flush' = [flush EXCEPT ![p] = IF run[r].status = "running" THEN Take(@, r, "mark")
                                     ELSE Skip(@, r)]
  /\ UNCHANGED <<run, alive, signalled, server, pass, sweep, errors>>

\* The deadline lets the rows that are left stay running.
FlushDeadline(p) ==
  /\ flush[p].at = "next" /\ flush[p].todo # {}
  /\ flush' = [flush EXCEPT ![p].todo = {}]
  /\ UNCHANGED <<run, alive, signalled, server, pass, sweep, errors>>

\* The mark; only a run that was never lost before is retried, and the others
\* give the issue back.
FlushMarks(p) ==
  LET r == flush[p].run
  IN /\ flush[p].at = "mark"
     /\ EndIfRunning(r, "failed", "interrupted")
     /\ flush' = [flush EXCEPT ![p] = IF run[r].status = "running" /\ run[r].losses = 0
                                      THEN [@ EXCEPT !.at = "retry"] ELSE Back(@, "next")]
     /\ UNCHANGED <<alive, signalled, server, pass, sweep, errors>>

FlushRetries(p) ==
  /\ flush[p].at = "retry"
  /\ EnqueueRetry(flush[p].run)
  /\ flush' = [flush EXCEPT ![p] = Back(@, "next")]
  /\ UNCHANGED <<alive, signalled, server, pass, sweep, errors>>

\* A run whose mark or retry fails is left to the sweeps.
FlushFails(p) ==
  /\ flush[p].at \in {"mark", "retry"} /\ errors < MaxErrors
  /\ flush' = [flush EXCEPT ![p] = Back(@, "next")]
  /\ errors' = errors + 1
  /\ UNCHANGED <<run, alive, signalled, server, pass, sweep>>

\* After the grace period the children are killed and the process exits.
Exit(p) ==
  /\ flush[p].at = "next" /\ flush[p].todo = {}
  /\ alive' = alive \ server[p].tracked
  /\ signalled' = signalled \ server[p].tracked
  /\ Gone(p)
  /\ UNCHANGED <<run, errors>>

-----------------------------------------------------------------------------
(* reapOrphanedRuns, in the recovery lane of a process.                    *)

SweepAt(t, at) == sweep[t].at = at
Own(t, r) == r \in server[t[1]].active \cup server[t[1]].tracked

AtWork == {t \in Task : ~SweepAt(t, "idle")}

\* The rows are read once.
SweepStart(t) ==
  /\ server[t[1]].phase = "up" /\ Cardinality(AtWork) < Sweeps
  /\ IsFirst(t[2], {k \in 1..Sweeps : <<t[1], k>> \notin AtWork})
  /\ sweep' = [sweep EXCEPT ![t] =
                  [todo |-> InStatus("running"), run |-> None, at |-> "running",
                   pids |-> {r \in InStatus("running") : run[r].pid}]]
  /\ UNCHANGED <<run, alive, signalled, server, pass, flush, errors>>

\* Mistake: only its own runs count as alive.
SweepVisitsMutant(t) ==
  /\ SweepAt(t, "running")
  /\ \E r \in sweep[t].todo :
       sweep' = [sweep EXCEPT ![t] = IF Own(t, r) THEN Skip(@, r) ELSE Take(@, r, "losing")]
  /\ UNCHANGED <<run, alive, signalled, server, pass, flush, errors>>

\* Its own runs it leaves alone here, and those with a living child until the
\* child is over the cap on detached children: then it is told to stop, and
\* the run is lost at once, whether the child is gone or not.
SweepVisits(t) ==
  /\ SweepAt(t, "running")
  /\ \E r \in sweep[t].todo, overCap \in BOOLEAN :
       LET lives == r \in sweep[t].pids /\ r \in alive
           skip == Own(t, r) \/ (lives /\ ~overCap)
       IN /\ sweep' = [sweep EXCEPT ![t] = IF skip THEN Skip(@, r) ELSE Take(@, r, "losing")]
          /\ signalled' = IF lives /\ ~skip THEN signalled \cup {r} ELSE signalled
  /\ UNCHANGED <<run, alive, server, pass, flush, errors>>

\* Mistake: the budget of retries is not looked at.
SweepLosesMutant(t) ==
  LET r == sweep[t].run
  IN /\ SweepAt(t, "losing")
     /\ EndIfRunning(r, "failed", "lost")
     /\ sweep' = [sweep EXCEPT ![t] = IF r \in @.pids THEN [@ EXCEPT !.at = "retry"]
                                      ELSE Back(@, "running")]
     /\ UNCHANGED <<alive, signalled, server, pass, flush, errors>>

\* process_lost.  The loser of the compare-and-set goes on with the row it
\* reads again.
SweepLoses(t) ==
  LET r == sweep[t].run
  IN /\ SweepAt(t, "losing")
     /\ EndIfRunning(r, "failed", "lost")
     /\ sweep' = [sweep EXCEPT ![t] = IF r \in @.pids /\ run[r].losses = 0
                                      THEN [@ EXCEPT !.at = "retry"] ELSE Back(@, "running")]
     /\ UNCHANGED <<alive, signalled, server, pass, flush, errors>>

SweepRetries(t) ==
  /\ SweepAt(t, "retry")
  /\ EnqueueRetry(sweep[t].run)
  /\ sweep' = [sweep EXCEPT ![t] = Back(@, "running")]
  /\ UNCHANGED <<alive, signalled, server, pass, flush, errors>>

\* The backstop, until nothing is left of what it selected.
Backstop(todo) == IF todo = {} THEN Idle ELSE To(Idle, todo, "marked")

\* Mistake: the rows that run are all that a sweep looks at.
SweepTurnsMutant(t) ==
  /\ SweepAt(t, "running") /\ sweep[t].todo = {}
  /\ sweep' = [sweep EXCEPT ![t] = Idle]
  /\ UNCHANGED <<run, alive, signalled, server, pass, flush, errors>>

\* Over ScanLimit marked runs in no particular order.
SweepTurns(t) ==
  /\ SweepAt(t, "running") /\ sweep[t].todo = {}
  /\ \E S \in SUBSET Interrupted :
       /\ Cardinality(S) = ScanLimit \/ (S = Interrupted /\ Cardinality(S) < ScanLimit)
       /\ sweep' = [sweep EXCEPT ![t] = Backstop(S)]
  /\ UNCHANGED <<run, alive, signalled, server, pass, flush, errors>>

\* Mistake: the retry of a marked run is not looked for.
BackstopChecksMutant(t) ==
  /\ SweepAt(t, "marked")
  /\ \E r \in sweep[t].todo :
       sweep' = [sweep EXCEPT ![t] = IF Own(t, r)
                                     THEN Backstop(@.todo \ {r}) ELSE Take(@, r, "checked")]
  /\ UNCHANGED <<run, alive, signalled, server, pass, flush, errors>>

BackstopChecks(t) ==
  /\ SweepAt(t, "marked")
  /\ \E r \in sweep[t].todo :
       LET skip == Own(t, r) \/ Successors(r) # {}
       IN sweep' = [sweep EXCEPT ![t] = IF skip THEN Backstop(@.todo \ {r})
                                        ELSE Take(@, r, "checked")]
  /\ UNCHANGED <<run, alive, signalled, server, pass, flush, errors>>

BackstopRetries(t) ==
  /\ SweepAt(t, "checked")
  /\ EnqueueRetry(sweep[t].run)
  /\ sweep' = [sweep EXCEPT ![t] = Backstop(@.todo)]
  /\ UNCHANGED <<alive, signalled, server, pass, flush, errors>>

\* A statement that fails ends the sweep of the running rows; the backstop
\* goes on with the next run.
SweepFails(t) ==
  /\ sweep[t].at \in {"losing", "retry", "checked"} /\ errors < MaxErrors
  /\ sweep' = [sweep EXCEPT ![t] = IF @.at = "checked" THEN Backstop(@.todo) ELSE Idle]
  /\ errors' = errors + 1
  /\ UNCHANGED <<run, alive, signalled, server, pass, flush>>

-----------------------------------------------------------------------------
Sweep(t) ==
  \/ SweepStart(t) \/ SweepVisits(t) \/ SweepLoses(t) \/ SweepRetries(t)
  \/ SweepTurns(t) \/ BackstopChecks(t) \/ BackstopRetries(t)

Flush(p) == BeginFlush(p) \/ FlushNext(p) \/ FlushMarks(p) \/ FlushRetries(p) \/ Exit(p)

Next ==
  \/ \E p \in Process :
       \/ Start(p) \/ Signal(p) \/ Crash(p) \/ BeginPass(p) \/ Claim(p)
       \/ Flush(p) \/ FlushDeadline(p) \/ FlushFails(p)
       \/ \E r \in Run :
            StartChild(p, r) \/ Defer(p, r) \/ Finish(p, r) \/ FailExecution(p, r)
  \/ \E t \in Task : Sweep(t) \/ SweepFails(t)
  \/ \E r \in Run : ChildExits(r)

Spec == Init /\ [][Next]_vars

\* The successor is started, and the recovery lane of a process that stays up
\* goes on, with one task or with another: one of them may hang.
Fairness ==
  \A p \in Process :
    WF_vars(Start(p)) /\ WF_vars(\E t \in Task : t[1] = p /\ Sweep(t))

FairSpec == Spec /\ Fairness

-----------------------------------------------------------------------------
(* Properties.                                                             *)

\* A start lock keeps the runs that one process executes within the limit of
\* the agent, however its passes, deferrals and the other process's claims fall;
\* two processes together may double it (heartbeat-start-lock.ts:4-21).
ClaimsWithinLimit ==
  \A p \in Process :
    Cardinality({r \in server[p].active : run[r].status = "running"}) <= MaxConcurrent

\* The flush (number 0) and the recovery tasks that may still retry the run r
\* without another look at it.
Holders(r) ==
  {h \in Process \X (0..Sweeps) :
     \/ h[2] = 0 /\ flush[h[1]].at \in {"mark", "retry"} /\ flush[h[1]].run = r
     \/ /\ h[2] # 0
        /\ \/ sweep[h].at \in {"losing", "retry", "checked"} /\ sweep[h].run = r
           \/ sweep[h].at \in {"running", "losing", "retry"} /\ r \in sweep[h].todo}

\* Once a run has a retry, only those who held it before may retry it again:
\* no later sweep, and no sweep that goes on to its backstop, takes it up.
RetriedIsNotTakenUp ==
  [][\A r \in Run : Successors(r) # {} => Holders(r)' \subseteq Holders(r)]_vars

\* A child that still runs beside the retry of its run has been told to stop:
\* by the shutdown that marked the run, or by the cap on detached children
\* (heartbeat-orphan-reaper.ts:278-322).
RetriedChildWasStopped ==
  \A r \in alive : Successors(r) # {} => r \in signalled

\* A marked run is retried "exactly once", because the backstop asks for a
\* successor first (heartbeat-orphan-reaper.ts:416-419).
MarkedRunIsRetriedOnce ==
  \A r \in Interrupted : Cardinality(Successors(r)) <= 1

\* A marked run gets its retry, whatever crashes between the mark and the
\* retry, unless there are more marked runs, those already retried included,
\* than a backstop looks at (heartbeat-orphan-reaper.ts:413-468).
MarkedRunIsRetried ==
  \A r \in 1..Queued :
    r \in Interrupted ~> (Successors(r) # {} \/ Cardinality(Interrupted) > ScanLimit)
=============================================================================
