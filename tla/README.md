# Verification of the papercompany runtime

TLA+ models of the concurrent core of the papercompany runtime, the TLC runs
that check them and the TLAPS proofs about them. Paths are relative to
`src/server/src/services/` unless they start with `src/`.

## 1. Inventory

The repository is a TypeScript monorepo: a control plane that lets companies of
agents work on issues and workflows. A React client (`src/ui`), a command line
(`src/cli`) and plugins talk to one Express server (`src/server`), which keeps
everything in Postgres through Drizzle (`src/packages/db`) and starts agents
through adapters (`src/packages/adapters`), most of them as local child
processes. Most services are business rules over a few rows in one
transaction. The state that several actors share, and that survives a crash of
the server, is in the **heartbeat subsystem**: it runs the agents.

### Components of the heartbeat subsystem

**Scheduler** (`heartbeat-scheduler.ts`).
State: the generation of the timers, per lane (timer, routine, recovery) an
in-flight flag and a flight number, the set of tracked promises.
Operations: `start`, `stop`, a tick of each lane, `drain`. The recovery lane
races its task against a wall-clock budget; an abandoned task goes on.
Correct when an abandoned task never disturbs its successors, no lane is stuck
for ever, and `drain` returns only when nothing is in flight, abandoned tasks
included.

**Queue and claim** (`heartbeat.ts`, `heartbeat-recovery-guard.ts`,
`heartbeat-start-lock.ts`).
State: `heartbeat_runs` (status, owner capability), `agent_wakeup_requests`.
Operations: insert a queued run, count the occupied slots, claim under the
per-agent lock, refuse a stale wake by cancelling its run.
Correct when no agent works in more slots than it has and a run is started for
the generation its step is in.

**Execution** (`executeRun` in `heartbeat.ts`,
`heartbeat-pause-quiescence.ts`, `runtime-execution-lifecycle.ts`).
State: `activeRunExecutions`, `runningProcesses`, the execution frame, and the
row of the run. Operations: enter, acknowledge the capability, start the
adapter, write the outcome, retry or fall back, and the `finally` block that
unlinks and settles the run. It returns early from four places.
Correct when whatever it writes yields to who ended the run before, and
whatever it started is settled.

**Terminal writers.** The executor, the setup error path, the operator
(`heartbeat-pause-invalidation.ts`), the claim refusal
(`heartbeat-agent-cancellation.ts`), the status of the issue
(`finalizeLinkedRunsForIssueStatus`), the orphan reaper
(`heartbeat-orphan-reaper.ts`), the stale queue
(`heartbeat-queued-stale-recovery.ts`) and the shutdown flush. All of them
update the status by compare-and-set, and all but two then owe, in later
statements, the outcome, the terminal hook and the release.

**Finalization v1** (`heartbeat-finalization/`).
State: the first-wins outcome, the release of the owner capability, the
finalization parent with its Q (quiescence) and C (compensable) stages,
`settled_at`, and the step's `dispatch_ready_at` and generation.
Operations: decide, release, record stages, `settleRunIfReady`,
`attemptFullSettlement`, `recoverTerminalUnsettledRuns`, transfer of authority
to a retry. Correct when nothing settles on partial evidence, what settles
makes its own generation ready and no other, and all that ends settles.

**Retries** (`heartbeat-retry-enqueue.ts`, `workflow/step-retry-scheduler.ts`).
State: the child run and its counters, the generation of the step.
Correct when a retry never runs beside an owner of the same attempt, and there
is one of it.

**Wakes and issue locks** (`enqueueWakeup` and
`releaseIssueExecutionAndPromote` of `heartbeat.ts`,
`heartbeat-followup-*.ts`, `heartbeat-stored-recovery-admission.ts`).
State: `agent_wakeup_requests`, the execution and checkout run of the issue,
its status, the context a run has read. Operations: admit a wake as a new run,
a merge, a deferred or a queued request; release the issue after a run and
promote; sweep the queue; reap a stalled lock.
Correct when no wake that somebody must read is lost or carried twice, what
waits is answered, and a failed run leaves the lock of another alone; the code
keeps the last only as long as the release holds the row of the issue.

**Shutdown** (`src/server/src/index.ts`, `runtime-shutdown-controller.ts`,
`runtime-execution-lifecycle.ts`, `heartbeat-execution-tracker.ts`).
State: the flight of the signal, the retained joins of the controller, the
fence for external starts, the ingress, the work in flight.
Operations: stop every owner, three drains around the closing of the ingress,
the flush and the children, disposal, closing the database.
Correct when the database closes under no work that may use it, the plugin
workers outlive their callers, a result without a disposition keeps the
database open, and the flight settles.

**HTTP handler lifetime** (`http-handler-lifetime.ts`). State: tickets with
four flags, a continuation and a set of pending promises; two gates.
Correct when a ticket is dropped only after its last layer, and every drain of
a lane answers.

**Shutdown flush and backstop** (`markRunsShutdownInterrupted` of
`heartbeat.ts`, the end of `reapOrphanedRuns`, `heartbeat-start-lock.ts`).
State: what two overlapping server processes hold in memory and the rows they
share; the sweeps of one process may overlap too. Correct when an interrupted
run gets its retry, each process claims within the limit, a run that has a retry
is taken up by nobody new, and a child that still runs beside a retry has been
told to stop.

**Workflow child runs** (`workflow/workflow-child-*.ts`,
`workflow/workflow-cancel*.ts`).
State: the invocation that links a step to its child run, the start lease,
deadline and receipt of the child, the remediations that hold up its
cancellation, the statuses of parent, step and child.
Operations: dispatch and claim, refuse, take the lease, materialize or fail the
start, expire it, end the child, settle the step by the completion hook, cancel
the parent and its children, recover all of that.
Correct when one owner starts a child, an end is final, a step says what its
child did, and every child and every waiting step is decided in the end.

**Other components**: pause intents and receipts, the terminal-release
continuation, the workflow DAG engine, the continuation of operator decisions,
the plugin host, and the services for issues, approvals, budgets, routines,
documents and missions. `PROJECT.json` lists them with their status.

### How the components interact

Through rows. The scheduler's recovery lane runs the reaper; the reaper, the
executor, HTTP handlers and recovery (called by the workflow reconciler,
`workflow/native-reconciler.ts`) all read and compare-and-set the same
`heartbeat_runs` row, and see each other's half-finished finalizations. Within
the process they also share `activeRunExecutions` and `runningProcesses`,
which a restart empties and a child process survives. Settling a run writes
the step, and the DAG engine dispatches the successors of a ready The issue
row is the lock that wakes and releases serialize on, except the release of a
run that has no lock of the issue. Workflow child runs are rows too: parent,
invocation, step and child are locked in this order by every writer but the
refusal of a step, which is one bare `UPDATE`, and the completion hook runs
after the commit that ends the child.
Shutdown is the only interaction by calls: `index.ts` stops every owner in one
turn and then joins their promises.

### What is hard

* the status is committed statements before its outcome, hook and release;
* the reaper decides from a snapshot it took many awaits ago, goes on after
  losing its compare-and-set, and may run twice at once;
* the executor may be alive when its run has ended, and dead while its child
  lives on;
* the slot count must include ended runs until they are settled;
* the generation of the step may change under a run; authority may move;
* deferral at shutdown takes a run back to the queue, a path that no other
  part of the protocol has;
* settling needs the work of three actors, and each may miss;
* a wake is merged into a run that was read before; a claim may overtake it;
* the release of an issue depends on who holds which of its two locks by then,
  and without a lock it writes by what it read;
* the refusal of a dispatch judges on its snapshot beside the claim of another;
* the recovery lane is given back while its task goes on: sweeps of one process
  overlap;
* the start lock and the process table belong to one process, and two
  processes overlap at a restart;
* the drains after the first repeat only a part of its joins;
* what ends a child run commits before the hook that settles the step, and the
  lease of a start may be taken over while its owner prepares.

`PROJECT.json` lists the hazards line by line with the properties for them.

## 2. Modules

| module | models |
| --- | --- |
| `HeartbeatScheduler` | the scheduler, all of it |
| `HeartbeatScheduler_proofs` | theorems about it |
| `RunLifecycle` | abstract: what a run promises to the readers of its row |
| `RunFinalization` | runs of one agent for one workflow step: queue, execution, terminal writers, finalization, reaper, recovery, retries, shutdown deferral, crash |
| `RunFinalization_proofs` | theorems about it: types, outcome, settlement, slots |
| `RunLifecycle_proofs` | theorems about it: retries, readiness, the refinement of `RunLifecycle` |
| `IssueExecution` | one issue, the wakes of its agents, its locks, release and promotion |
| `IssueExecution_proofs` | theorems about it |
| `RuntimeShutdown` | the flight of a signal over all the work of a process |
| `RuntimeShutdown_proofs` | theorems about it |
| `HttpHandlerLifetime` | the tickets that the drains of the HTTP lanes rely on |
| `HttpHandlerLifetime_proofs` | theorems about it |
| `InterruptedRuns` | two overlapping processes: flush, sweep, backstop, claims |
| `InterruptedRuns_proofs` | theorems about it |
| `WorkflowChildRuns` | the children of workflow runs: lease, end, settlement, cancellation, recovery |
| `WorkflowChildRuns_proofs` | theorems about it |

The modules meet at rows and joins, and each takes the others' part as given:
`RuntimeShutdown` counts the handlers whose tickets `HttpHandlerLifetime`
describes and the executions whose protocol is `RunFinalization`; the release
that `IssueExecution` makes is owed by a run that `RunFinalization` ends; the
flush of `InterruptedRuns` begins where `RuntimeShutdown` terminates children.

### HeartbeatScheduler

`inFlight`, `laneFlights`, `activeTasks`, `timerGeneration` and `running` are
the variables of the closure. A recovery flight has two tracked promises, as
in the code: the task and the lifecycle that races it. `race` and `stage` are
the state of that lifecycle and of `recover()`. Every action is one promise
callback or one call; `Tick` may come at any time while a handle is set,
because the interval lengths are unconstrained. `drain` holds the snapshot
that `Promise.allSettled` awaits.

### RunFinalization

`row` holds, per run, the columns of `heartbeat_runs` the protocol reads, with
the finalization parent and its stages. `lease` is the tuple of execution epoch and token,
owner id, lease epoch and lease token: every claim and every transfer replaces
the tuple as a whole, so one number stands for it. `quiesced` and
`compensated` are the Q and the C stages, recorded done. `step` is the step's
generation, its dispatch owner, and who stamped `dispatch_ready_at`.

The process's own state is `exec` (where each `executeRun` is), `frame` (what
it froze), `active` (`activeRunExecutions`), `tail` (what a terminal writer
still owes after its status), `sweep` (per reaper sweep, its snapshot and
where it is), `recovery` and `draining`. `live` is the work of the adapter,
which the program cannot see except through a recorded pid.

Actions are transactions or uninterrupted pieces of code:

| code | actions |
| --- | --- |
| claim under the start lock | `Claim`, `ClaimRefused` |
| `executeRun` | `ExecuteRun`, `SetupFails`, `SetupFailed`, `Acknowledge`, `StartAdapter`, `Defer`, `StartFails`, `AdapterReturns`, `WriteOutcome`, `RetryFailed`, `FallbackOfLost`, `LeaveTerminal` |
| its `finally` block | `Finally`, `ExecutionGate` |
| `setHeartbeatRunStatus` after its update | `TailDecide`, `TailHook`, `TailRelease`, `TailUnlink`, `TailFails` |
| other writers | `CancelRun`, `FinalizeLinkedRun`, `FailStaleRun` |
| `reapOrphanedRuns` | `SweepStart`, `SweepSkips`, `SweepEndsDone`, `SweepTimesOut`, `SweepFindsLost`, `SweepLoses`, `SweepRetries`, `SweepSettles`, `SweepGate`, `SweepLeavesDone` |
| `recoverTerminalUnsettledRuns` | `RecoveryVisits`, `RecoveryGate` |
| the workflow step | `StepRetry`, `DispatchStep`, `IssueCompletes` |
| the process | `BeginShutdown`, `Restart`, `OrphanExits` |

A terminal writer that is not inside a transaction (`Terminate`) leaves a
`tail`; its continuation waits until the tail is done, everybody else does
not. An owner or stage writer in one transaction (`Finalized`) leaves none.
`SettleIfReady` is one action because the code does it in one transaction;
the stages before it are another.

### Refinement

`RunLifecycle` is what everybody outside relies on: a run is created queued,
runs in a slot, ends once with one result, settles at most once and after its
end, and goes back to the queue only by a deferral. `RunFinalization` defines
`ImplementsLifecycle` by the mapping that forgets leases, stages, tails and
processes: `stage` is the status, or "ended" or "settled", and `result` is the
terminal status.

### IssueExecution

`wake` are the requests (`agent_wakeup_requests`), `run` the runs of the issue
with what their context has taken up and what their execution has read,
`issue` its status, execution lock and checkout. `Admit` is `enqueueWakeup`
with its branches in the order of the code: `Adopt` of a live run that lost the
lock, `AdmitRework`, `AdmitCoalesced`, `AdmitDeferred`, `AdmitBehindMission`,
`AdmitRun`, and `AdmitMention` for the path without the lock. `Coalesces`
compares the agent of the wake with `ExecutionAgent`, which the code reads
before it adopts a run, and keeps clear of runs that may be corrections.

An action is one transaction that holds the row of the issue, with two
exceptions. The merge into a queued run reads the run (`AdmitCoalesced`) and
writes its context (`FinishMerge`) in two statements, and `Claim` does not lock
the issue. And `releaseIssueExecutionAndPromote` locks the issues whose lock or
checkout is the ending run and no other: a run that has a lock is released in
one step (`Release`), one that has none reads the issue as it was committed
(`ReleaseReads`, which remembers its decision in `decided`) and writes it
whatever has become of it (`ReleaseWrites`). `Leaves`, `Blocks`, `Completions`
and `Decisions` are the branches of the code, by the status of the run and of
the issue; `ReleaseCompletes` and `ReleasePromotes` are what they write. A
bounded wake that a release would promote is left to the claim pass of its
agent. `ReapStalledLock`, `PromoteQueued` and `PromoteStoredDeferred` are the
two sweeps.

### RuntimeShutdown

`flight` is the await of `performServerShutdown`, `stage` the await of the
drain in progress, `retained` the stages whose flights the controller keeps
(`runOnce`), `work` the work in flight by kind and `exec` the executions by
executor and by whether they crossed the external-start fence. `Signal` closes
every start in one step. `Accept` and `Admits` are the guards at the doors,
`Begets` who wakes executions, `StartExternal` the fence. A join is an action
that waits for its counters and fails if something of it failed. Untracked work
is the plain request handlers, fire-and-forget calls and workflow advances in
the background (`workflow/instant-advance.ts`), which nobody joins.

### HttpHandlerLifetime

A step is one synchronous turn: all a call of `next()` runs before the first
await (`Downstream`). `InTurn` states the FIFO order of promise reactions.
`DrainLooks` may come between any two turns, which over-approximates the
`allSettled` snapshots of `drain`.

### InterruptedRuns

`run` are the rows, `alive` the children at work and `signalled` those of them
that were told to stop, `server` what each process has in memory, `pass`,
`flush` and `sweep` its jobs in progress. Each action is one statement or
transaction: `FlushMarks` and `FlushRetries` are two, and so are
`BackstopChecks` and `BackstopRetries`. Processes are numbered; a successor may
start before its predecessor stops, any but the last may stop or crash. A
`Task` is a recovery task of a process, of which several may be at work, since
the lane is freed by its budget. `SweepVisits` reads the rows and looks at the
children; a child over the cap on detached children is signalled and its run is
lost in the same pass, whether the child is gone or not (`overCap`).

### WorkflowChildRuns

`parent`, `step`, `link` and `child` are the statuses of the four rows, with
the child's receipt, token, lease, deadline and the remediation that holds up
its cancellation (`hold`, at most one per child); the times of the database are
the three-valued `lease` and the four-valued `deadline`. `job` is where each
caller is between two transactions.

| code | actions |
| --- | --- |
| `dispatchWorkflowChildStep`, `claimChildInvocation` | `Dispatch`, `Claim`, `ClaimRefused`, `RefuseLooks`, `RefuseWrites`, `SettleDeleted` |
| `executeWorkflowRunStart` | `Lease`, `LeaseRefused`, `Materialize`, `FailStart`, `Expire`, `Hook` |
| finalization of the child | `Finalize`, `EndChild`, `Hook` |
| cancellations | `DirectCancel`, `CancelParent`, `CancelNext`, `CancelChild`, `CleanRead`, `CleanWrite` |
| `reconcileWorkflowChildStepWaits` | `Scan`, `Recover`, then the actions above |
| the pass over stuck runs | `StuckStart`, `PassEnds` |
| failures and time | `GiveUp`, `Restart`, `DeleteChild`, `LeaseLapses`, `DeadlinePasses`, `StartIsOverdue` |
| `withChildCancellationAdmission` | `HoldOpens`, `HoldLifts`, and the guards of `DirectCancel` and `CancelChild` |

`failPreAdmissionChildStep` is an `UPDATE` of the step with a `NOT EXISTS` on
the invocation. It may wait for the row of the step, which a claim locks without
modifying it, and then goes on with the snapshot that it began with: that is why
the look and the write are two actions, and why a step that was "refused" may
have a child.

A caller has one start at a time, so its name does for its token. The pass over
stuck runs (60 minutes, `src/server/src/app.ts:1183`) follows the candidates in
the same single-flight tick, and a tick is assumed to take less than the 55
minutes between a deadline and that pass; with that, its branch for dead
parents cannot be reached and is left out.

## 3. Runs

| run | constants that matter | shows |
| --- | --- | --- |
| `Scheduler` | 3 start/stop generations, 2 ticks per lane | lane ownership, drain, release of the lane |
| `SingleRun` | 1 run, 2 claims, 1 sweep, 1 crash, 1 hook error, fairness | `OutcomeIsFinalStatus`, `SettledIsComplete`, `ExecutedRunSettles` |
| `TwoRuns` | 2 runs, 1 slot, 1 sweep, 1 crash, local child | `LiveHoldsSlot`, `LiveWithinCapacity`, `RetryFollowsRelease`, the refinement |
| `Retries` | 2 runs, 1 slot, 2 generations, 1 fallback, 1 sweep, remote adapter | `SettledMakesStepReady`, `ReadyIsBacked` |
| `Shutdown` | 4 pieces of work in all, 1 fault, fairness | `StartedWorkIsDrained`, `PluginsOutliveTheirUsers`, `UnresolvedHoldsDatabase`, `ShutdownSettles` |
| `HttpHandlers` | 2 requests, both lanes, fairness | `DroppedIsQuiet`, `ActiveIsJoinable`, `DrainedLaneIsQuiet`, `DrainAnswers` |
| `IssueExecution` | 2 agents, 5 kinds of wake, 2 wakes, 1 retry, 1 lost release, fairness | `WakeIsNotLost`, `WakeRunsOnce`, `LiveOwnerKeepsIssue`, `WaitingIsAnswered` |
| `InterruptedRuns` | 2 processes, 1 sweep at a time, 1 run and 3 retries, 1 slot, 1 failing statement | `ClaimsWithinLimit` |
| `OverlappingSweeps` | the same, 2 sweeps at a time, 1 retry, fairness | `RetriedChildWasStopped`, `RetriedIsNotTakenUp`, `MarkedRunIsRetried` |
| `WorkflowChildren` | 2 steps of 1 parent, 1 worker and the reconciler, 1 place at a time, 1 row per pass, 1 failure, fairness | `OneOwner`, `StepFollowsChild`, `EndedChildStays`, `ChildIsDecided`, `WaitingStepIsSettled` |
| `LostSettlement`, `StaleRefusal` | smallest that show it; 2 workers in `StaleRefusal` | the divergences of section 6 |

Every property has a mutant: an operator in the module that changes one
definition the way a plausible bug would and that the run then refutes.
`SettleStaleMutant`, for example, stamps readiness without the generation
check, and `LifecycleActiveMutant` counts slots by status alone, as the legacy
clause did.

**Bounds.**

* *RunFinalization.* `MaxRuns` bounds rows: the interactions are between a run
  and its retry or the run of the next generation, which two rows contain.
  `MaxLease` bounds the claims of one run; only a deferral leads to a second claim.
  `MaxGeneration` bounds retries of the step. `Sweep` is the set of reaper
  sweeps; with one sweep all the races with executor, operator and recovery
  occur; the proofs cover any number of overlapping sweeps. `MaxRestarts`
  bounds the ends of the process, with or without the shutdown (and its
  deferrals) that may precede each, and `MaxErrors` errors that the code
  swallows. Several small configurations each open the dimensions their
  question is about; `TwoRuns` and `Retries` are the largest (below two million
  states each).
* *RuntimeShutdown.* `MaxWork` bounds the pieces of work ever accepted: four are
  two producers with the execution that each begets, or any mixture. A feed of
  fresh tool executions that never ends is hidden by the bound, and
  `ShutdownSettles` does not speak of one.
* *HttpHandlerLifetime.* Tickets do not interact except through the drain of
  their lane: two requests are one for each lane or two in one.
* *IssueExecution.* Two wakes are the one whose run has the lock and the one
  that arrives meanwhile; a retry gives a run that owns the lock without the
  checkout, a lost release a lock without a run. The wakes of the other agent
  are plain ones; with mentions of it as well the liveness check takes too long,
  and the invariants hold there too (1 135 383 states).
* *InterruptedRuns.* A predecessor and its successor. `ClaimsWithinLimit` needs
  several queued runs of one agent, which three retries give; overlapping sweeps
  do not matter to it. `OverlappingSweeps` has two sweeps at work at once, of one
  process or of both, and one retry: a second one finds no row, which does not
  matter for who may take a run up, and `MarkedRunIsRetried` asks for the first.
  `ScanLimit` = 1 stands for the 50 rows of the backstop and `MarkedRunIsRetried`
  says when it is exceeded.
* *WorkflowChildRuns.* `Cap` = 1 makes the cap bite: the second step begins when
  the first is settled or is refused. `Limit` = 1 makes the selection of a pass
  bite: an expired start under a cancelled parent stays a candidate and comes
  before the other child. The liveness properties except passes that are crowded
  for ever (`Crowded`); all the others reach every candidate. The cancellation of
  a parent and the reconciler meet one child from two sides. Two workers that
  dispatch one step are in `StaleRefusal`; the theorems are about any number of
  workers. `MaxErrors` counts crashes, lost locks and deleted children together.

Bounds cut behaviours off, so every run disables the deadlock check: at its
bounds the system may stop, and finished runs, a closed database or a decided
workflow are its normal ends.

**Fairness.** Nothing is assumed of outside actors: requests, wakes,
cancellations, step retries, crashes and shutdowns need never come.

* `HeartbeatScheduler`: timers fire and callbacks run; nothing about database
  calls, that is the point of the budget.
* `RunFinalization`: weak fairness of a run's tail, of its execution and of a
  sweep that has begun: promise callbacks run, statements return, adapters end
  by their own timeout. `RecoveryVisits` has strong fairness per run: the query
  takes 50 candidates without an order at every tick, and the assumption is
  that no run is passed over for ever.
* `RuntimeShutdown`: the flight is driven by its promises, the process finishes
  starting, what is joined ends and the ingress closes (the bridge of plugin
  streams, which would hold a connection open, is not wired: no stream bus is
  given to `src/server/src/routes/plugins.ts`). Heartbeat runs and untracked
  work are not assumed to end.
* `HttpHandlerLifetime`: handlers end by the timeouts of their calls, reactions
  run, and a drain goes on looking.
* `IssueExecution`: the queue sweep (which also claims the runs of an agent
  with a free slot) and the reaper run for ever, a release that is owed is
  redone, one that has read is written, and executions end.
* `InterruptedRuns`: a process starts, and the recovery lane of one that stays
  up goes on with one task or another: a task may hang, because the budget gives
  the lane to the next one. Nothing is assumed of children, claims or the flush.
* `WorkflowChildRuns`: the reconciler passes again and again and time goes on;
  nothing of the workers, and nothing of the remediations: `ChildIsDecided`
  excepts a cancellation that is held up again and again. `FairWorkersSpec` has
  fair workers as well, for the counterexample to `FailedChildFailsStep` of
  section 6, so that it is not a worker that stops.

## 4. Proofs

Every invariant and every action property of the passing runs is a theorem, and
so is the refinement. The proofs hold for all values of the constants under the
named assumptions `BoundsAssumption` and `ConstantsAssumption`, which only type
the constants: any number of runs, claims, generations, slots, overlapping
sweeps, agents, wakes, requests, processes, pieces of work, steps, workers,
crashes and errors, with or without a local child.

`HeartbeatScheduler_proofs`: `TypeCorrect`, then `OneOwner` from an inductive
invariant that ties each pending lifecycle to the last flight number. `DrainJoins`
says that a drain does not return while a recovery task is unfinished, also one
whose lane was given to a later flight. It rests on `Tracked`: the task and the
lifecycle of every flight that is not over are in `activeTasks`, whatever became
of the lane.

`RunFinalization_proofs`: the argument goes in layers.

1. `TypeCorrect`: `TypeInv`, which also types the counters. `TypeOKHolds` follows.
2. `RowsStaySound`: `RowsSound`, what every transaction preserves for a row by
   itself. `OutcomeIsFinalStatus` and `SettledIsComplete` are not inductive:
   one needs that no outcome is recorded before the row has ended, the other
   that quiescence is recorded only for a released row and that released and
   v1 persist. Those are the conjuncts of `RowsSound`. Theorems
   `OutcomeIsFinal` and `SettledComplete` follow.
3. `InductiveInvariant`: `IInv` adds `LiveIsRecorded` (an adapter at work
   belongs to a claimed row that has its pid and is not quiesced, and its
   execution is past the spawn) and `OccupiedIsBounded` (the rows that run or
   whose adapter works are at most the slots). The slot count of the code is
   not bounded by itself: a deferred run that is cancelled while queued joins
   it without a claim. Running and working rows are, because only `Claim` adds
   one, below the bound, and each of them is in the count that `Claim` reads.
   That step is where the finite-set theorems are needed.
4. `LiveIsCounted` (`LiveHoldsSlot`) and `CapacityIsKept`
   (`LiveWithinCapacity`): a recorded adapter keeps its row unsettled, so it
   holds a slot, and the adapters at work are a subset of the occupied rows,
   so there are at most `MaxConcurrent` of them.

`RunLifecycle_proofs` adds to it what other rows rely on. The proof first
classifies the steps (`Effect`): each leaves rows and step alone, advances the evidence of one row or ends it (`Advances`), or is
one of seven transactions (a claim, a deferral, an enqueued child, a settlement,
a dispatch, a step retry, the completion of the issue). Everything after that is
argued for the classes only. `LineageInvariant` is `FullInv`, which is `IInv`
with `LineageInv`:

* a run that was started has a lease and is not in the queue, and a released
  one is not in the queue either (`ClaimedInv`), so that no claim ever clears
  the release that a retry depends on;
* an execution that may still defer has kept its lease and with it the
  capability (`LeaseInv`): a deferral never brings a released run back;
* no run is of a generation the step has not reached (`GenerationInv`), so that
  a step retry makes every old stamp stale at once.

`RetriesFollowReleases`, `ReadinessIsBacked` and `SettlementMakesReady` are its
last three conjuncts; the first rests on `ClaimedInv` and with it on `LeaseInv`,
the last on `GenerationInv`.
`LifecycleIsImplemented` is the refinement: `StageOf` and `ResultOf` of a changed
row decide which abstract step a class is. Ending and settling need
`ClaimedInv` and `RowsSound`, the start of a run needs that the rows at stage
"running" are among those that `Claim` counts.

`IssueExecution_proofs`: the invariant says where a wake is. `PlacesInv`: it is
stored by at most one request that waits or carried by at most one run (retries
aside), never both, and nowhere while it is being merged; this is more than
`WakeRunsOnce` and what makes it inductive. `LossInv` is `WakeIsNotLost` with
the request that stores a wake not fixed in advance, because requests merge and
are promoted; `ReadInv` adds that a run in the queue has read nothing, so that a
wake merged into it is read. `LiveOwnersKeepTheIssue` is the action
property `LiveOwnerKeepsIssue`: of all the writers of the lock only the end of
the owner, the release of the run with the checkout, and the release of a run
without a lock that had read that it may write clear it. A release under the row
of the issue has one of the two locks, and the execution lock is the owner's. The
invariant for this is `DecidedInv`: whoever has decided has ended and is not yet
released.

`RuntimeShutdown_proofs`: `ShutdownInvariant` has a conjunct for each way
something is known to be over. `CountersInv` bounds what is in flight by what was
accepted. `SignalInv` and `RetainedInv`: the flight begins with the signal, and a
join the controller keeps stays true, because the signal and the fence let
nothing of its kind begin again. `FirstDrainInv` goes along the stages of the
first drain, `OuterInv` along the joins around it. That is why the proof needs
neither the second nor the third drain for `WorkIsDrained`, `PluginsStopLast` and
`UnresolvedIsNotClosed`.

`HttpHandlerLifetime_proofs`: `TicketInvariant` relates a ticket to the layers
of its request that are open (`Kept`) and says that one that waits for nothing
is dropped or has a failed error handler (`Joinable`). `CompleteKeeps`, the lemma
about `completeIfSettled`, is used after every turn. `DroppedTicketsAreQuiet` and
`ActiveTicketsAreJoinable` follow, and `DrainedLanesStayQuiet` with the facts that
a drain begins behind a closed gate and that a ticket enters only through an open
one.

`InterruptedRuns_proofs`: `ClaimsStayWithinLimit` rests on `PassInv`: what a
pass has selected and what its process executes are together within the limit,
and no two processes execute the same run. `RetriedChildrenWereStopped` needs
what each job read some steps before: who holds a run to retry it has seen its
child dead or has signalled it (`Stopped`), a dead child stays dead and a signal
stays sent. `RetriedRunsAreNotTakenUp`: the jobs that may still retry a run
(`Holders`) only become fewer once it has a successor, because it has ended and
a job that looks first finds the successor (`HoldersShrink`).
`RetriesAreCounted` bounds what the code leaves open: a run has at most as many
retries as there are flushes and sweeps that can hold it at once,
`Servers * (Sweeps + 1)`, because the retries of a run and its holders together
never grow beyond that (`RetryInv`).

`WorkflowChildRuns_proofs`: `ChildInvariant` is the typing of the rows and the
callers with three facts. A caller at work on a step has one (`StepsAtHand`),
which every write needs to name a row at all. Who prepares a child holds its
own name as a token (`OwnTokens`); so the owners of a start are all the one
whose name the row holds, which is `OneOwnerHolds`. Only a child that has
started completes (`CompletedHasStarted`), without which `StepFollowsChild` is
not inductive: the hook reads the status of the row alone.
`StepsFollowTheirChildren` and `ChildTypeCorrect` are parts of the invariant; a
step that was refused beside the claim of its child is allowed and says so
("refused"), so that the theorem does not rest on a refusal that locks.
`EndsAreFinal` is the action property `EndedChildStays`, about the status and the
receipt of an ended child. Its delicate steps are the claim, which writes a status
without reading it (a link that is free means that there is no child), and the
late start of a former owner, which writes the receipt (an owner that is still
the owner has a child that runs).

**Only model-checked.** The liveness properties `RecoveryLaneIsReleased`,
`ExecutedRunSettles`, `ShutdownSettles`, `DrainAnswers`, `WaitingIsAnswered`,
`MarkedRunIsRetried`, `ChildIsDecided` and `WaitingStepIsSettled`: fairness
speaks of ENABLED, which is beyond the prover. The properties of section 6 that
the code does not have are refuted by TLC.

## 5. What the models leave out

### RunFinalization

* **Time.** Thresholds, graces and budgets: any sweep may find any run old
  enough or skip it; recovery may come at once. Approvals that hold a timeout
  and the demotion of a detached child are `SweepSkips`. The longevity cap of
  a detached child lets `SweepFindsLost` go on while the child lives.
* **Look and write.** The gap between a sweep's look at a run and its
  compare-and-set is modelled for the lost branch, where the loser goes on.
  The done and timeout branches look and write in one step: their losers do
  nothing.
* **Merged steps.** The pid is recorded with the spawn, the re-read in the
  `finally` block with the stages it records, and the sweep's own settlement
  of a stale queued run with `RecoveryVisits`. A deferred run is claimed again
  only after the execution that deferred it has left.
* **Data.** Issue locks, agent status, wake statuses, coalesced wakes, logs,
  evidence and sessions. Workspace operations, runtime services and mission
  runtimes, the other Q observations, are taken as observed positively.
* **Variants.** Version 0 runs, the C5 opt-in, pause receipts, the
  terminal-release continuation, `commandcode_permission_denied`, and runs
  without a workflow step. The other writers of a generation (step reset,
  resume, run boundary) are represented by `StepRetry`, which may come at any
  time because the status of the step is not modelled.
* **Errors.** An error of the terminal hook is swallowed and modelled, with a
  bound; an error of the shadow outcome write, and a claim that fails after its
  commit, are not.

### The other modules

* `IssueExecution`: wakes without an issue, budgets, paused agents, superseded
  notifications, operator decisions, missions that are over, evidence and
  assignment changes. A run that timed out counts as failed. A retry transfers
  the execution lock only, as the code does.
* `RuntimeShutdown`: what a handler or a tick does; `HttpHandlerLifetime`:
  synchronous middleware that calls `next` from a callback, which `app.ts` does
  not use; Express is external and modelled by what it calls.
* `InterruptedRuns`: runs of a workflow step, whose retry may be refused by the
  workflow identity (`heartbeat-finalization/producer-identity.ts:42-55`, called
  by `heartbeat-retry-enqueue.ts:103`): such a run stays without a retry and a
  backstop visits it again. Also the checkpoint attached to a marked row, wakeup
  statuses, the fallback adapter, settlement. A failure of a run's own counts as a
  success: neither is retried here.
* `WorkflowChildRuns`: adoption (what a step shows of its child, without
  authority), the definitions, invalid rows and their diagnostics, retries and
  reopened parents, the children of a child, QA holds of a finalization (those of
  a cancellation are modelled), the failure cascade between the steps of a parent.
  Aborted and timed-out count as failed; the step rows of a child stand or fall with its receipt.

### Not modelled

* **Pause intents and delivery, the terminal-release continuation, the actual
  drain, the continuation of operator decisions**: protocols of the same kind
  as the ones modelled, in the plan.
* **DAG engine**: which steps are ready, skipped or failed by a cascade is a
  function of the rows; in the plan as pure operators.
* **Plugin host**: workers appear in `RuntimeShutdown` as up or down.
* **Other services, routes, UI, CLI, adapters**: rules over few rows in one
  transaction, presentation, and plumbing of child processes. Adapters appear
  as work that starts, may outlive its server and ends.

## 6. Divergences found

### Shown by a run

1. `LostSettlement`. Recovery says that it replays the settlement of runs that
   ended unsettled, but it never records the C stages, so it completes only
   those whose C stages somebody else had recorded. A run whose process
   stopped and that an operator cancels before a sweep finds it has nobody
   else, nor has one that a shutdown gave back to the queue and that is
   cancelled there: it is visited for ever, occupies its slot and leaves its
   step not ready.
2. `StaleRefusal`. A dispatch that was refused fails its step "before the claim,
   when there is no invocation yet"
   (`workflow/workflow-child-pre-admission-writer.ts:3-5`), by an `UPDATE` that
   judges the absence of the invocation on its snapshot. When another dispatch
   claims meanwhile, the step is failed over a new child. The child is not
   started and waits for the end of its parent.

### Refuted with other constants

These properties are stated in the modules and false. They are not among the
runs above; the constants are what TLC needs to refute them.

* `RetriedOnce` (`RunFinalization`, `MaxRuns` = 3, one sweep, all other bounds 1
  or 0). The reaper, having lost its compare-and-set, goes on with the retry it
  decided on from its snapshot (`heartbeat-orphan-reaper.ts:338`): a run gets two
  retries.
* `MarkedRunIsRetriedOnce` (`InterruptedRuns`, 2 processes, 1 sweep, 2 retries,
  no errors). The retry of a marked run is to be "exactly once"
  (`heartbeat-orphan-reaper.ts:416-419`). The flush of a stopping process marks a
  run, a sweep of its successor finds no retry of it, and both queue one. Two
  sweeps of one process do so as well.
* `NewOwnerKeepsIssue` (`IssueExecution`, kinds plain and mention, plain wakes of
  the other agent, 2 wakes, no retry, nothing lost). A run that ends while another
  owns the issue is to leave its lock alone (`heartbeat.ts:6243-6246`). A failed run without a lock reads
  the issue while it is free (5428-5434, no row lock), a wake takes the lock for
  a new run, and the release clears it (6378-6387).
* `JoinsItsAgent` (`IssueExecution`, the same with mentions of both agents).
  `enqueueWakeup` compares the agent of the wake with that of the lock as it was
  before it gave the lock to a live run of another agent (`heartbeat.ts:7277-7279`,
  7355-7371, 7420-7424): the wake joins a run of the wrong agent.
* `FailedChildFailsStep` (`WorkflowChildRuns`, 1 step, 1 worker,
  `FairWorkersSpec`). A child run that never started, has ended, and whose
  completion hook was lost is taken for an expired start by every recovery pass
  after its deadline; the expiry does nothing for an ended child and the step is
  never settled (`workflow/workflow-child-recovery-candidates.ts:123`).
  `WaitingStepIsSettled` therefore excepts such children. Rows like it, among
  them every failed start under an ended parent, stay candidates for ever and
  come before the settlements and the starts in the order of a pass: as many of
  them as a pass selects (25) starve the rest, which is the exception `Crowded`
  of the liveness properties.

### Met while modelling

These have no run of their own; the models contain the behaviour and the
properties are stated so as to allow it.

* *Remote adapters.* Quiescence is documented as positive observation only
  (`heartbeat-finalization/quiescence-probe.ts:70-74`), but a run without a
  recorded pid counts as absent. A timed out run of a remote adapter is
  settled, and its slot given away, while it works: `SettledIsQuiet` fails with
  `LocalChild` FALSE. `LiveHoldsSlot` and `LiveWithinCapacity` are therefore
  stated for local children.
* *A held shutdown.* `src/doc/SPEC-implementation.md:1051` says that a signal
  durably marks the running runs. The flush comes after the drains, and a
  heartbeat that outlasts the 30 seconds of its drain fails it, which holds the
  shutdown before the flush: `InterruptedRunsAreFlushed` of `RuntimeShutdown`
  is false.
* *A successful run and the issue of another.* The guard of the release
  (`heartbeat.ts:6254`) covers runs that failed: a run that succeeds with its
  release still owed, while a wake has replaced its stale lock, completes or
  unlocks the issue of the other. A failed run that kept the checkout only also
  clears a newer execution lock. `LiveOwnerKeepsIssue` excepts both, and the
  stale release of `NewOwnerKeepsIssue`.
* *A merge overtaken by a claim.* A wake merged into a queued run
  (`heartbeat.ts:7432-7447`) is not read when the claim comes between the read
  of the run and the write of its context; `WakeIsNotLost` excepts it. A run
  rewrites its context from memory, so plain wakes merged into a run at work
  are lost by design.
* *Dead locks of an issue.* When the release of a failed run is lost and the
  issue is not in progress, or its holder is not its assignee, nothing reaps
  the lock (`heartbeat.ts:2304-2368`); `DeadLock` in `WaitingIsAnswered`.
* *The backstop.* It takes 50 marked runs without an order, retried ones
  included (`heartbeat-orphan-reaper.ts:421-434`), so that old ones may hide a
  new one.
* *The process_lost mark.* A crash between the sweep's mark and its retry
  leaves no retry: the backstop looks for shutdown_interrupted only.
* *Cancelled parents.* The cleanup of a cancelled parent
  (`workflow/workflow-cancelled-state.ts:24-41`) writes from a stale read, and
  may overwrite as skipped a step that the hook of its child settled meanwhile.

## 7. Plan

Done: the scheduler, the run life cycle and its finalization, issue execution,
shutdown, the HTTP tickets, the shutdown flush with two processes and the
workflow child runs, each with the theorems of its safety properties.

1. Proofs: the lemmas about finite sets and about merges of records that several
   proof modules state in their own terms, in one module; the safety steps that
   the liveness properties rest on (what is never undone once reached).
2. `PauseQuiescence`: intents, receipts, quiescence of a paused agent.
3. The DAG engine's readiness as pure operators against a reference
   definition, and the failure cascade that `WorkflowChildRuns` leaves out.
4. The continuation of operator decisions, with one abstract lease
   specification for it and the child start lease.
5. The terminal-release continuation with its manifest.
