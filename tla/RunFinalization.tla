--------------------------- MODULE RunFinalization ---------------------------
(***************************************************************************)
(* The life of the heartbeat runs of one agent that serve one workflow     *)
(* step, under heartbeat finalization v1.  A queued run is claimed into a  *)
(* slot, executed by the server process, brought to a terminal status by   *)
(* whichever of several writers is first, its owner capability released,   *)
(* and settled, which makes the step ready for its successors.             *)
(*                                                                         *)
(* Covered: every writer of a terminal status (executor, setup failure,    *)
(* operator, issue status, orphan reaper, stale queue, claim refusal), the *)
(* finalization it owes (outcome, release), the settlement gate, the       *)
(* recovery of unsettled runs, retries, fallbacks and the transfer of      *)
(* authority to them, the retry of the step, deferral at shutdown, crash   *)
(* and restart.  Each action is one database transaction or one            *)
(* uninterrupted piece of JavaScript; everything between two awaits of     *)
(* different statements is interleaved.                                    *)
(*                                                                         *)
(* Not covered: legacy (v0) runs, pause receipts, the C5 opt-in, the       *)
(* terminal-release continuation, wake requests beyond the step generation *)
(* they carry, wall-clock thresholds (any sweep may find any run old).     *)
(***************************************************************************)
EXTENDS Naturals, FiniteSets

CONSTANTS
  MaxRuns,           \* bound on the rows of heartbeat_runs
  MaxLease,          \* bound on the claims of one run
  MaxGeneration,     \* bound on the generations of the step
  MaxConcurrent,     \* maxConcurrentRuns of the agent
  LocalChild,        \* the adapter runs a local child whose pid is recorded
  FallbackAttempts,  \* maxAttempts of the adapter fallback, 0 = not configured
  Sweep,             \* the reaper sweeps that can be in flight together
  MaxRestarts,       \* bound on the ends of the process
  MaxErrors          \* bound on database errors the code swallows

ASSUME ConstantsAssumption ==
  /\ MaxRuns \in Nat \ {0} /\ MaxLease \in Nat \ {0}
  /\ MaxGeneration \in Nat \ {0} /\ MaxConcurrent \in Nat
  /\ LocalChild \in BOOLEAN /\ FallbackAttempts \in Nat
  /\ MaxRestarts \in Nat /\ MaxErrors \in Nat
  /\ 0 \notin Sweep

Run == 1..MaxRuns
None == 0                \* SQL null for a run, a lease or a generation
IssueSync == MaxRuns + 1 \* the writer of dispatch_ready_at outside settlement
Generation == 1..MaxGeneration

Terminal == {"succeeded", "failed", "cancelled", "timed_out"}
Status == {"absent", "queued", "running"} \cup Terminal

VARIABLES
  row,       \* heartbeat_runs with its finalization parent and stages
  step,      \* the workflow_step_runs row
  exec,      \* per run, where its executeRun is
  frame,     \* per run, what that executeRun froze: its lease, and whether it
             \* invoked the adapter
  active,    \* activeRunExecutions
  live,      \* per run, whether its adapter still works
  tail,      \* per run, what its terminal writer still owes
  sweep,     \* per sweep, the rows still to visit and where it is
  recovery,  \* the visit of recoverTerminalUnsettledRuns
  draining,  \* the process is shutting down
  restarts, errors

vars == <<row, step, exec, frame, active, live, tail, sweep, recovery, draining,
          restarts, errors>>

memory == <<exec, frame, active, live, tail, sweep, recovery, draining>>
counters == <<restarts, errors>>

-----------------------------------------------------------------------------
(* The state.                                                              *)

\* lease stands for execution epoch and token, owner and lease epoch and
\* token: every claim and every transfer replaces that tuple as a whole.
\* quiesced and compensated are the Q and the C stages recorded done.
Row == [status : Status, started : BOOLEAN, v1 : BOOLEAN, lease : Nat,
        acked : BOOLEAN, released : BOOLEAN, pid : BOOLEAN,
        outcome : {"none"} \cup Terminal, parent : BOOLEAN,
        quiesced : BOOLEAN, compensated : BOOLEAN, settled : BOOLEAN,
        generation : 0..MaxGeneration, wakeGeneration : 0..MaxGeneration,
        retryOf : 0..MaxRuns, losses : Nat, fallbacks : Nat,
        staleQueued : BOOLEAN]

AbsentRow ==
  [status |-> "absent", started |-> FALSE, v1 |-> FALSE, lease |-> None, acked |-> FALSE,
   released |-> FALSE, pid |-> FALSE, outcome |-> "none", parent |-> FALSE,
   quiesced |-> FALSE, compensated |-> FALSE, settled |-> FALSE,
   generation |-> None, wakeGeneration |-> None, retryOf |-> None,
   losses |-> 0, fallbacks |-> 0, staleQueued |-> FALSE]

QueuedRow(g) == [AbsentRow EXCEPT !.status = "queued", !.wakeGeneration = g]

Step == [generation : Generation, owner : 0..MaxRuns,
         ready : 0..(MaxRuns + 1)]

ExecPhase == {"none", "claimed", "setup", "acked", "adapter", "returned",
              "terminal", "failing", "finally", "gate"}
TailPhase == {"none", "decide", "hook", "release", "unlink"}
SweepPhase == {"scan", "done", "losing", "lost", "retry", "timeout", "gate"}

NoFrame == [lease |-> None, invoked |-> FALSE]
NoTail == [at |-> "none", lease |-> None, unlink |-> FALSE]
IdleSweep == [todo |-> {}, pids |-> {}, at |-> "scan", run |-> None]
NoVisit == [run |-> None, at |-> "none"]

TypeOK ==
  /\ row \in [Run -> Row]
  /\ step \in Step
  /\ exec \in [Run -> ExecPhase]
  /\ frame \in [Run -> [lease : Nat, invoked : BOOLEAN]]
  /\ active \subseteq Run
  /\ live \in [Run -> BOOLEAN]
  /\ tail \in [Run -> [at : TailPhase, lease : Nat,
                      unlink : BOOLEAN]]
  /\ sweep \in [Sweep -> [todo : SUBSET Run, pids : SUBSET Run,
                         at : SweepPhase, run : 0..MaxRuns]]
  /\ recovery \in [run : 0..MaxRuns, at : {"none", "gate"}]
  /\ draining \in BOOLEAN
  /\ restarts \in 0..MaxRestarts
  /\ errors \in 0..MaxErrors

Init ==
  /\ row = [r \in Run |-> IF r = 1 THEN QueuedRow(1) ELSE AbsentRow]
  /\ step = [generation |-> 1, owner |-> None, ready |-> None]
  /\ exec = [r \in Run |-> "none"]
  /\ frame = [r \in Run |-> NoFrame]
  /\ active = {}
  /\ live = [r \in Run |-> FALSE]
  /\ tail = [r \in Run |-> NoTail]
  /\ sweep = [s \in Sweep |-> IdleSweep]
  /\ recovery = NoVisit
  /\ draining = FALSE
  /\ restarts = 0
  /\ errors = 0

Ended(r) == row[r].status \in Terminal

\* The legacy clause: a run gives its slot back with its status.
LifecycleActiveMutant == {r \in Run : row[r].status = "running"}

\* lifecycleActiveClause: what occupies a slot of the agent.
LifecycleActive ==
  {r \in Run : \/ row[r].status = "running"
               \/ Ended(r) /\ row[r].v1 /\ ~row[r].settled}
RunningRows == {r \in Run : row[r].status = "running"}

\* The children in the table of this process: whoever else ends a run kills
\* its child and takes it out of the table.
TrackedChild(r) == LocalChild /\ exec[r] = "adapter" /\ row[r].status = "running"

-----------------------------------------------------------------------------
(* Finalization of a terminal row.                                         *)

\* decideHeartbeatTerminalOutcomeFirstWins, called with lease l.
Decided(R, l) ==
  IF R.v1 /\ l # None /\ R.lease = l /\ R.outcome = "none"
  THEN [R EXCEPT !.outcome = R.status] ELSE R

\* maybeRecordTerminalFinalization: the outcome if it is still open and the
\* parent, then the release of the owner capability.
Hooked(R) == IF R.v1 THEN [Decided(R, R.lease) EXCEPT !.parent = TRUE] ELSE R
Released(R) == IF R.v1 /\ R.lease # None THEN [R EXCEPT !.released = TRUE] ELSE R

\* The finalization before the status it is about.
FinalizedMutant(R, s) == [Released(Hooked(R)) EXCEPT !.status = s]

\* A writer of a terminal status inside one transaction.
Finalized(R, s) == Released(Hooked([R EXCEPT !.status = s]))

\* Any other writer updates the status alone (a compare-and-set on the old
\* status, in the guard of the action) and owes the rest, step by step.
Terminate(r, s, unlink) ==
  /\ row' = [row EXCEPT ![r].status = s]
  /\ tail' = [tail EXCEPT ![r] =
                [at |-> "decide", lease |-> row[r].lease, unlink |-> unlink]]

TailMoves(r, from, to) ==
  /\ tail[r].at = from
  /\ tail' = [tail EXCEPT ![r].at = to]

AfterHook(r) == IF tail[r].unlink THEN "unlink" ELSE "none"

TailDecide(r) ==
  /\ TailMoves(r, "decide", "hook")
  /\ row' = [row EXCEPT ![r] = Decided(@, tail[r].lease)]
  /\ UNCHANGED <<step, exec, frame, active, live, sweep, recovery, draining, counters>>

TailHook(r) ==
  /\ TailMoves(r, "hook", "release")
  /\ row' = [row EXCEPT ![r] = Hooked(@)]
  /\ UNCHANGED <<step, exec, frame, active, live, sweep, recovery, draining, counters>>

TailRelease(r) ==
  /\ TailMoves(r, "release", AfterHook(r))
  /\ row' = [row EXCEPT ![r] = Released(@)]
  /\ UNCHANGED <<step, exec, frame, active, live, sweep, recovery, draining, counters>>

\* An error inside the hook is swallowed: the terminal flow goes on.
TailFails(r) ==
  /\ tail[r].at \in {"hook", "release"}
  /\ errors < MaxErrors
  /\ errors' = errors + 1
  /\ tail' = [tail EXCEPT ![r].at = AfterHook(r)]
  /\ UNCHANGED <<row, step, exec, frame, active, live, sweep, recovery, draining, restarts>>

TailUnlink(r) ==
  /\ TailMoves(r, "unlink", "none")
  /\ active' = active \ {r}
  /\ UNCHANGED <<row, step, exec, frame, live, sweep, recovery, draining, counters>>

-----------------------------------------------------------------------------
(* Settlement.                                                             *)

\* The recorded process is not probed.
ProofMutant(r) == row[r].released

\* observeQuiescenceProof: the owner is released, and the recorded process,
\* if one was recorded, is dead.
Proof(r) == row[r].released /\ (row[r].pid => ~live[r])

\* The C stages wait for quiescence.
StagedMutant(R, proof) ==
  IF R.v1 /\ proof
  THEN [R EXCEPT !.parent = TRUE, !.quiesced = TRUE, !.compensated = TRUE]
  ELSE R

\* attemptFullSettlement up to the gate: the C stages are recorded whether or
\* not quiescence was observed.
Staged(R, proof) ==
  IF R.v1
  THEN [R EXCEPT !.parent = TRUE, !.quiesced = R.quiesced \/ proof, !.compensated = TRUE]
  ELSE R

FullStages(r) == row' = [row EXCEPT ![r] = Staged(@, Proof(r))]

\* The gate does not ask for quiescence.
GateOpenMutant(r) == row[r].v1 /\ row[r].compensated /\ ~row[r].settled

\* settleRunIfReady: settled_at and dispatch_ready_at in one transaction; a
\* stale generation is settled without the stamp.
GateOpen(r) ==
  row[r].v1 /\ row[r].quiesced /\ row[r].compensated /\ ~row[r].settled

\* The stamp without its generation check, and only by the owner.
SettleStaleMutant(r) ==
  IF GateOpen(r)
  THEN /\ row' = [row EXCEPT ![r].settled = TRUE]
       /\ step' = IF step.ready = None THEN [step EXCEPT !.ready = r] ELSE step
  ELSE UNCHANGED <<row, step>>

SettleOwnerMutant(r) ==
  IF GateOpen(r)
  THEN /\ row' = [row EXCEPT ![r].settled = TRUE]
       /\ step' = IF step.owner = r /\ row[r].generation = step.generation /\ step.ready = None
                  THEN [step EXCEPT !.ready = r] ELSE step
  ELSE UNCHANGED <<row, step>>

SettleIfReady(r) ==
  IF GateOpen(r)
  THEN /\ row' = [row EXCEPT ![r].settled = TRUE]
       /\ step' = IF row[r].generation = step.generation /\ step.ready = None
                  THEN [step EXCEPT !.ready = r] ELSE step
  ELSE UNCHANGED <<row, step>>

-----------------------------------------------------------------------------
(* Retries and fallbacks.                                                  *)

\* retryWorkflowIdentity: the parent was started for the generation the step
\* still has.
Identified(r) == row[r].started /\ row[r].wakeGeneration = step.generation

\* Only a running parent hands its authority over.
TransfersMutant(r) ==
  row[r].v1 /\ row[r].lease # None /\ ~row[r].released /\ row[r].status = "running"

Transfers(r) == row[r].v1 /\ row[r].lease # None /\ ~row[r].released

\* The new row: it inherits the wake and counts what it descends from.
Child(p, kind) ==
  [QueuedRow(row[p].wakeGeneration) EXCEPT
     !.retryOf = p,
     !.losses = row[p].losses + (IF kind = "retry" THEN 1 ELSE 0),
     !.fallbacks = row[p].fallbacks + (IF kind = "fallback" THEN 1 ELSE 0)]

\* enqueueProcessLossRetry and enqueueAdapterFallbackRun: a queued child and,
\* from a parent whose capability is not released, its authority.
EnqueueChild(p, kind) ==
  /\ Identified(p)
  /\ \E c \in Run :
       /\ row[c].status = "absent"
       /\ \A d \in 1..(c - 1) : row[d].status # "absent"
       /\ IF Transfers(p)
          THEN /\ row' = [row EXCEPT
                    ![p].lease = @ + 1, ![p].released = TRUE,
                    ![c] = [Child(p, kind) EXCEPT !.v1 = TRUE,
                                                  !.generation = row[p].generation]]
               /\ step' = [step EXCEPT !.owner = c]
          ELSE /\ row' = [row EXCEPT ![c] = Child(p, kind)]
               /\ UNCHANGED step
-----------------------------------------------------------------------------
(* The queue.                                                              *)

SlotFree == Cardinality(LifecycleActive) < MaxConcurrent

\* startNextQueuedRunForAgent under the start lock of the agent.  A deferred
\* run is not claimed again before the execution that deferred it has left.
Claim(r) ==
  /\ row[r].status = "queued" /\ SlotFree
  /\ row[r].wakeGeneration = step.generation
  /\ exec[r] = "none" /\ row[r].lease < MaxLease
  /\ row' = [row EXCEPT ![r] =
               [@ EXCEPT !.status = "running", !.started = TRUE, !.v1 = TRUE,
                         !.lease = row[r].lease + 1, !.acked = FALSE, !.released = FALSE,
                         !.generation = row[r].wakeGeneration]]
  /\ step' = [step EXCEPT !.owner = r]
  /\ exec' = [exec EXCEPT ![r] = "claimed"]
  /\ UNCHANGED <<frame, active, live, tail, sweep, recovery, draining, counters>>

\* A wake of an older generation cannot be claimed: the refusal cancels it.
ClaimRefused(r) ==
  /\ row[r].status = "queued" /\ SlotFree
  /\ row[r].wakeGeneration # step.generation
  /\ Terminate(r, "cancelled", FALSE)
  /\ UNCHANGED <<step, exec, frame, active, live, sweep, recovery, draining, counters>>

-----------------------------------------------------------------------------
(* executeRun.                                                             *)

At(r, phase) == exec[r] = phase
Goto(r, phase) == exec' = [exec EXCEPT ![r] = phase]

\* executeRun reads the row again; a run that ended meanwhile leaves at once,
\* and without the finally block.
ExecuteRun(r) ==
  /\ At(r, "claimed")
  /\ IF row[r].status = "running"
     THEN /\ Goto(r, "setup")
          /\ active' = active \cup {r}
          /\ frame' = [frame EXCEPT ![r] = [lease |-> row[r].lease, invoked |-> FALSE]]
     ELSE Goto(r, "none") /\ UNCHANGED <<active, frame>>
  /\ UNCHANGED <<row, step, live, tail, sweep, recovery, draining, counters>>

\* The outer catch: an error before the adapter's own try block.
FailSetup(r) ==
  IF row[r].status \in {"queued", "running"}
  THEN Terminate(r, "failed", FALSE) /\ Goto(r, "failing")
  ELSE Goto(r, "finally") /\ UNCHANGED <<row, tail>>

SetupFails(r) ==
  /\ At(r, "setup")
  /\ FailSetup(r)
  /\ UNCHANGED <<step, frame, active, live, sweep, recovery, draining, counters>>

SetupFailed(r) ==
  /\ At(r, "failing") /\ tail[r].at = "none"
  /\ Goto(r, "finally")
  /\ UNCHANGED <<row, step, frame, active, live, tail, sweep, recovery, draining, counters>>

Acknowledge(r) ==
  /\ At(r, "setup")
  /\ IF /\ row[r].status = "running" /\ row[r].lease = frame[r].lease
        /\ ~row[r].acked /\ ~row[r].released
     THEN row' = [row EXCEPT ![r].acked = TRUE] /\ Goto(r, "acked")
     ELSE Goto(r, "finally") /\ UNCHANGED row
  /\ UNCHANGED <<step, frame, active, live, tail, sweep, recovery, draining, counters>>

\* executeHeartbeatWithRecoveryGuard: the adapter starts under a share lock
\* of a row that still runs, unless the process drains.
StartAdapter(r) ==
  /\ At(r, "acked") /\ row[r].status = "running" /\ ~draining
  /\ Goto(r, "adapter")
  /\ live' = [live EXCEPT ![r] = TRUE]
  /\ frame' = [frame EXCEPT ![r].invoked = TRUE]
  /\ row' = [row EXCEPT ![r].pid = LocalChild]
  /\ UNCHANGED <<step, active, tail, sweep, recovery, draining, counters>>

\* A start refused by the shutdown gives the run back to the queue, if it is
\* still the run that was claimed.
Defer(r) ==
  /\ At(r, "acked") /\ row[r].status = "running" /\ draining
  /\ IF row[r].lease = frame[r].lease
     THEN /\ row' = [row EXCEPT ![r].status = "queued", ![r].started = FALSE]
          /\ Goto(r, "finally")
          /\ UNCHANGED tail
     ELSE FailSetup(r)
  /\ UNCHANGED <<step, frame, active, live, sweep, recovery, draining, counters>>

AdapterReturns(r) ==
  /\ At(r, "adapter")
  /\ Goto(r, "returned")
  /\ live' = [live EXCEPT ![r] = FALSE]
  /\ UNCHANGED <<row, step, frame, active, tail, sweep, recovery, draining, counters>>

\* An unconditional update.
WriteStatusMutant(r, s) == Terminate(r, s, FALSE) /\ Goto(r, "terminal")

\* The compare-and-set on "running" of the completion path and of the inner
\* catch; a run that somebody else ended keeps that status.
WriteStatus(r, s) ==
  IF row[r].status = "running"
  THEN Terminate(r, s, FALSE) /\ Goto(r, "terminal")
  ELSE Goto(r, "finally") /\ UNCHANGED <<row, tail>>

WriteOutcome(r) ==
  /\ At(r, "returned")
  /\ \E s \in {"succeeded", "failed", "timed_out"} : WriteStatus(r, s)
  /\ UNCHANGED <<step, frame, active, live, sweep, recovery, draining, counters>>

\* A run that somebody else failed may get its fallback here too.
FallbackOfLost(r) ==
  /\ At(r, "returned") /\ row[r].status = "failed"
  /\ row[r].fallbacks < FallbackAttempts
  /\ EnqueueChild(r, "fallback")
  /\ Goto(r, "finally")
  /\ UNCHANGED <<frame, active, live, tail, sweep, recovery, draining, counters>>

\* The inner catch, for an adapter that was never invoked: any error, and
\* always when the guard finds the row no longer running.
StartFails(r) ==
  /\ At(r, "acked")
  /\ WriteStatus(r, "failed")
  /\ UNCHANGED <<step, frame, active, live, sweep, recovery, draining, counters>>

\* A failed run may get a transient retry or a fallback.
RetryFailed(r) ==
  /\ At(r, "terminal") /\ tail[r].at = "none" /\ row[r].status = "failed"
  /\ \/ /\ frame[r].invoked /\ row[r].losses = 0 /\ row[r].fallbacks = 0
        /\ EnqueueChild(r, "retry")
     \/ /\ row[r].fallbacks < FallbackAttempts
        /\ EnqueueChild(r, "fallback")
  /\ Goto(r, "finally")
  /\ UNCHANGED <<frame, active, live, tail, sweep, recovery, draining, counters>>

LeaveTerminal(r) ==
  /\ At(r, "terminal") /\ tail[r].at = "none"
  /\ Goto(r, "finally")
  /\ UNCHANGED <<row, step, frame, active, live, tail, sweep, recovery, draining, counters>>

\* finishPauseExecution: unlink, read the row again, and settle it if it
\* ended under the identity this execution froze.
Finally(r) ==
  /\ At(r, "finally")
  /\ active' = active \ {r}
  /\ frame' = [frame EXCEPT ![r] = NoFrame]
  /\ IF Ended(r) /\ (frame[r].invoked => row[r].lease = frame[r].lease)
     THEN FullStages(r) /\ Goto(r, "gate")
     ELSE Goto(r, "none") /\ UNCHANGED row
  /\ UNCHANGED <<step, live, tail, sweep, recovery, draining, counters>>

ExecutionGate(r) ==
  /\ At(r, "gate")
  /\ SettleIfReady(r)
  /\ Goto(r, "none")
  /\ UNCHANGED <<frame, active, live, tail, sweep, recovery, draining, counters>>
-----------------------------------------------------------------------------
(* Other writers of a terminal status.                                     *)

\* cancelRun: status, outcome and release in one transaction.
CancelRun(r) ==
  /\ row[r].status \in {"queued", "running"}
  /\ row' = [row EXCEPT ![r] = Finalized(@, "cancelled")]
  /\ UNCHANGED <<step, exec, frame, active, live, tail, sweep, recovery, draining, counters>>

\* The issue's status overrides a run that has ended.
FinalizeLinkedRunMutant(r) ==
  /\ row[r].status # "absent"
  /\ \E s \in {"succeeded", "cancelled"} : Terminate(r, s, TRUE)
  /\ UNCHANGED <<step, exec, frame, active, live, sweep, recovery, draining, counters>>

\* finalizeLinkedRunsForIssueStatus, for an issue that became done, cancelled
\* or blocked.
FinalizeLinkedRun(r) ==
  /\ row[r].status \in {"queued", "running"}
  /\ \E s \in {"succeeded", "cancelled"} : Terminate(r, s, TRUE)
  /\ UNCHANGED <<step, exec, frame, active, live, sweep, recovery, draining, counters>>

\* failStaleRun: a run queued for too long although the live executions
\* leave a slot, in one transaction.
FailStaleRun(r) ==
  /\ row[r].status = "queued" /\ ~row[r].started /\ ~row[r].pid
  /\ Cardinality({q \in LifecycleActive : TrackedChild(q)}) < MaxConcurrent
  /\ row' = [row EXCEPT ![r] =
               [Finalized(@, "failed") EXCEPT !.staleQueued = TRUE]]
  /\ UNCHANGED <<step, exec, frame, active, live, tail, sweep, recovery, draining, counters>>

-----------------------------------------------------------------------------
(* reapOrphanedRuns.                                                       *)

SweepAt(s, phase) == sweep[s].at = phase
SweepGoes(s, phase, r) ==
  LET left == sweep[s].todo \ {r} IN
  sweep' = [sweep EXCEPT ![s] =
              IF phase = "scan"
              THEN [todo |-> left, pids |-> @.pids \cap left, at |-> phase, run |-> None]
              ELSE [@ EXCEPT !.todo = left, !.at = phase, !.run = r]]
SweepContinues(s) == SweepGoes(s, "scan", sweep[s].run)

\* The rows, and their pids, are read once; everything after uses them.
SweepStart(s) ==
  /\ SweepAt(s, "scan") /\ sweep[s].todo = {} /\ RunningRows # {}
  /\ sweep' = [sweep EXCEPT ![s] =
                 [IdleSweep EXCEPT !.todo = RunningRows,
                                   !.pids = {r \in RunningRows : row[r].pid}]]
  /\ UNCHANGED <<row, step, exec, frame, active, live, tail, recovery, draining, counters>>

Visits(s, r) == SweepAt(s, "scan") /\ r \in sweep[s].todo

\* Too young, waiting for an approval, or detached with a living child.
SweepSkips(s, r) ==
  /\ Visits(s, r)
  /\ SweepGoes(s, "scan", r)
  /\ UNCHANGED <<row, step, exec, frame, active, live, tail, recovery, draining, counters>>

\* The compare-and-set on "running"; the winner awaits in phase won what it
\* then owes, the loser goes on in phase lost.
SweepWrites(s, r, status, won, lost) ==
  /\ IF row[r].status = "running"
     THEN Terminate(r, status, FALSE) /\ SweepGoes(s, won, r)
     ELSE SweepGoes(s, lost, r) /\ UNCHANGED <<row, tail>>
  /\ UNCHANGED <<step, exec, frame, active, live, recovery, draining, counters>>

\* The issue is done or cancelled and its child is still there.
SweepEndsDone(s, r) ==
  /\ Visits(s, r) /\ TrackedChild(r)
  /\ \E status \in {"succeeded", "cancelled"} :
       SweepWrites(s, r, status, "done", "scan")

\* Executing for longer than its budget.
SweepTimesOut(s, r) ==
  /\ Visits(s, r) /\ r \in active
  /\ SweepWrites(s, r, "timed_out", "timeout", "scan")

\* No execution in this process, at the moment it looks.  A living child only
\* postpones this until it is detached for too long, and is killed first.
SweepFindsLost(s, r) ==
  /\ Visits(s, r) /\ r \notin active
  /\ SweepGoes(s, "losing", r)
  /\ UNCHANGED <<row, step, exec, frame, active, live, tail, recovery, draining, counters>>

\* The loser of the compare-and-set reads the row again and goes on all the
\* same.
SweepLoses(s) ==
  /\ SweepAt(s, "losing")
  /\ SweepWrites(s, sweep[s].run, "failed", "lost", "retry")

SweepOwes(s) == tail[sweep[s].run].at # "none"

SweepLeavesDone(s) ==
  /\ SweepAt(s, "done") /\ ~SweepOwes(s)
  /\ SweepContinues(s)
  /\ UNCHANGED <<row, step, exec, frame, active, live, tail, recovery, draining, counters>>

\* After process_lost: one retry if a pid was recorded, else a fallback if
\* one is left, else nothing.  A refused enqueue throws out of the sweep.
SweepRetries(s) ==
  LET r == sweep[s].run
      retry == r \in sweep[s].pids /\ row[r].losses = 0
      fallback == ~retry /\ row[r].fallbacks < FallbackAttempts
  IN /\ SweepAt(s, "retry") \/ (SweepAt(s, "lost") /\ ~SweepOwes(s))
     /\ CASE ~retry /\ ~fallback -> SweepContinues(s) /\ UNCHANGED <<row, step>>
          [] (retry \/ fallback) /\ Identified(r) ->
               /\ EnqueueChild(r, IF retry THEN "retry" ELSE "fallback")
               /\ SweepContinues(s)
          [] OTHER -> /\ sweep' = [sweep EXCEPT ![s] = IdleSweep]
                      /\ UNCHANGED <<row, step>>
     /\ UNCHANGED <<exec, frame, active, live, tail, recovery, draining, counters>>

\* Only a timed out run is settled by the sweep; its execution may go on.
SweepSettles(s) ==
  /\ SweepAt(s, "timeout") /\ ~SweepOwes(s)
  /\ FullStages(sweep[s].run)
  /\ sweep' = [sweep EXCEPT ![s].at = "gate"]
  /\ UNCHANGED <<step, exec, frame, active, live, tail, recovery, draining, counters>>

SweepGate(s) ==
  /\ SweepAt(s, "gate")
  /\ SettleIfReady(sweep[s].run)
  /\ SweepContinues(s)
  /\ UNCHANGED <<exec, frame, active, live, tail, recovery, draining, counters>>

-----------------------------------------------------------------------------
(* recoverTerminalUnsettledRuns.                                           *)

\* A stale_queued run gets the full settlement (also from the sweep that
\* failed it); any other run gets its parent and, if proven, its Q stages.
RecoveryVisits(r) ==
  /\ recovery = NoVisit
  /\ Ended(r) /\ row[r].v1 /\ ~row[r].settled
  /\ IF row[r].staleQueued THEN FullStages(r)
     ELSE row' = [row EXCEPT ![r].parent = TRUE, ![r].quiesced = @ \/ Proof(r)]
  /\ recovery' = [run |-> r, at |-> "gate"]
  /\ UNCHANGED <<step, exec, frame, active, live, tail, sweep, draining, counters>>

RecoveryGate ==
  /\ recovery.at = "gate"
  /\ SettleIfReady(recovery.run)
  /\ recovery' = NoVisit
  /\ UNCHANGED <<exec, frame, active, live, tail, sweep, draining, counters>>

-----------------------------------------------------------------------------
(* The workflow step.                                                      *)

\* scheduleWorkflowStepRetry: a new generation without owner or readiness.
StepRetry ==
  /\ step.generation < MaxGeneration
  /\ step' = [generation |-> step.generation + 1, owner |-> None, ready |-> None]
  /\ UNCHANGED <<row, memory, counters>>

\* The wake of the new generation and its run.
DispatchStep(r) ==
  /\ row[r].status = "absent" /\ \A q \in 1..(r - 1) : row[q].status # "absent"
  /\ \A q \in Run : row[q].wakeGeneration # step.generation
  /\ row' = [row EXCEPT ![r] = QueuedRow(step.generation)]
  /\ UNCHANGED <<step, memory, counters>>

\* The issue of the step is completed: readiness without a settlement.
IssueCompletes ==
  /\ step.ready = None
  /\ step' = [step EXCEPT !.ready = IssueSync]
  /\ UNCHANGED <<row, memory, counters>>

-----------------------------------------------------------------------------
(* The process.                                                            *)

\* A shutdown, which precedes one of the bounded restarts.
BeginShutdown ==
  /\ ~draining /\ restarts < MaxRestarts
  /\ draining' = TRUE
  /\ UNCHANGED <<row, step, exec, frame, active, live, tail, sweep, recovery, counters>>

\* The end of the process, orderly or not, and its successor.  A local child
\* may outlive it.
Restart ==
  /\ restarts < MaxRestarts
  /\ restarts' = restarts + 1
  /\ exec' = [r \in Run |-> "none"]
  /\ frame' = [r \in Run |-> NoFrame]
  /\ active' = {}
  /\ tail' = [r \in Run |-> NoTail]
  /\ sweep' = [s \in Sweep |-> IdleSweep]
  /\ recovery' = NoVisit
  /\ draining' = FALSE
  /\ live' = [r \in Run |-> LocalChild /\ live[r]]
  /\ UNCHANGED <<row, step, errors>>

OrphanExits(r) ==
  /\ live[r] /\ exec[r] # "adapter"
  /\ live' = [live EXCEPT ![r] = FALSE]
  /\ UNCHANGED <<row, step, exec, frame, active, tail, sweep, recovery, draining, counters>>

-----------------------------------------------------------------------------
Tail(r) == TailDecide(r) \/ TailHook(r) \/ TailRelease(r) \/ TailUnlink(r)

Execution(r) ==
  \/ ExecuteRun(r) \/ SetupFailed(r) \/ Acknowledge(r) \/ StartAdapter(r)
  \/ Defer(r) \/ StartFails(r) \/ AdapterReturns(r) \/ WriteOutcome(r)
  \/ LeaveTerminal(r) \/ Finally(r) \/ ExecutionGate(r)

SweepStep(s) ==
  SweepLeavesDone(s) \/ SweepLoses(s) \/ SweepRetries(s) \/ SweepSettles(s) \/ SweepGate(s)

Next ==
  \/ \E r \in Run :
       \/ Claim(r) \/ ClaimRefused(r) \/ Tail(r) \/ TailFails(r)
       \/ Execution(r) \/ SetupFails(r) \/ RetryFailed(r) \/ FallbackOfLost(r)
       \/ CancelRun(r) \/ FinalizeLinkedRun(r) \/ FailStaleRun(r)
       \/ RecoveryVisits(r) \/ DispatchStep(r) \/ OrphanExits(r)
  \/ \E s \in Sweep :
       \/ SweepStart(s) \/ SweepStep(s)
       \/ \E r \in Run : \/ SweepSkips(s, r) \/ SweepEndsDone(s, r)
                         \/ SweepTimesOut(s, r) \/ SweepFindsLost(s, r)
  \/ RecoveryGate \/ StepRetry \/ IssueCompletes \/ BeginShutdown \/ Restart

Spec == Init /\ [][Next]_vars

\* What is started is finished: promise callbacks run and database statements
\* return, adapters end (by their own timeout), and recovery, which visits
\* every unsettled run at each tick of the reconciler, comes to every run.
FairSpec ==
  /\ Spec
  /\ \A r \in Run : WF_vars(Tail(r)) /\ WF_vars(Execution(r)) /\ SF_vars(RecoveryVisits(r))
  /\ \A s \in Sweep : WF_vars(SweepStep(s))
  /\ WF_vars(RecoveryGate)

-----------------------------------------------------------------------------
(* Properties.                                                             *)

\* The first-wins outcome of a run, recorded by the hook of whichever writer
\* ended it, is the status everybody reads, in spite of the writers that lost.
OutcomeIsFinalStatus ==
  \A r \in Run : row[r].outcome # "none" => row[r].outcome = row[r].status

\* Nothing is settled on partial evidence: a settled run has ended, its owner
\* capability is released, and its parent, Q and C stages are recorded,
\* whichever of execution, sweep and recovery settled it.
SettledIsComplete ==
  \A r \in Run : row[r].settled =>
    /\ Ended(r) /\ row[r].v1
    /\ row[r].released /\ row[r].parent /\ row[r].quiesced /\ row[r].compensated

\* An adapter that still works occupies a slot of its agent, also after its
\* run was ended by somebody else and after a restart left its child behind.
LiveHoldsSlot == LocalChild => \A r \in Run : live[r] => r \in LifecycleActive

\* So that an agent never has more adapters at work than it has slots.
LiveWithinCapacity ==
  LocalChild => Cardinality({r \in Run : live[r]}) <= MaxConcurrent

\* A retry or a fallback exists only beside a parent whose capability was
\* given up, by its own finalization or by the transfer: no two executors
\* ever hold capabilities for the same attempt.
RetryFollowsRelease ==
  \A c \in Run : row[c].retryOf # None => row[row[c].retryOf].released

\* dispatch_ready_at stamped by a settlement belongs to the generation the
\* step is in, and to a run that is settled.
ReadyIsBacked ==
  step.ready \in Run =>
    row[step.ready].settled /\ row[step.ready].generation = step.generation

\* Settling a run of the current generation leaves the step ready, and it
\* stays ready until the generation changes.
SettledMakesStepReady ==
  \A r \in Run : row[r].settled /\ row[r].generation = step.generation
                   => step.ready # None

\* Whoever ended a run its process was executing, the run is settled in the
\* end, as long as the process lives and the database answers.
ExecutedRunSettles ==
  \A r \in Run :
    (Ended(r) /\ row[r].v1 /\ exec[r] \notin {"none", "claimed"})
      ~> (row[r].settled \/ restarts > 0 \/ errors > 0)

\* recovery.ts: the runs that ended but were not settled are settled by
\* replaying their settlement.
EndedRunSettles ==
  \A r \in Run : (Ended(r) /\ row[r].v1) ~> row[r].settled

\* quiescence-probe.ts: quiescence is never concluded from absence of
\* evidence, so nothing that still works is settled.
SettledIsQuiet == \A r \in Run : row[r].settled => ~live[r]

\* SPEC-implementation.md: the process-loss retry of a run is exactly-once.
RetriedOnce ==
  \A p \in Run :
    Cardinality({c \in Run : row[c].retryOf = p /\ row[c].losses > row[p].losses}) <= 1

\* The contract of a run for its readers.
Lifecycle == INSTANCE RunLifecycle WITH
  stage <- [r \in Run |-> IF ~Ended(r) THEN row[r].status
                          ELSE IF row[r].settled THEN "settled" ELSE "ended"],
  result <- [r \in Run |-> IF Ended(r) THEN row[r].status ELSE "none"]

ImplementsLifecycle == Lifecycle!Spec
=============================================================================
