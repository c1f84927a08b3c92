------------------------- MODULE WorkflowChildRuns --------------------------
(***************************************************************************)
(* Workflow steps that run another workflow (workflow/workflow-child-*.ts).*)
(*                                                                         *)
(* A dispatch claims an invocation for the step, which creates the child   *)
(* run and links it, in one transaction under the lock of the parent run.  *)
(* The child must then be started: whoever takes the start lease (60       *)
(* seconds, never past the deadline of five minutes from the first lease)  *)
(* prepares it and writes its step rows together with a receipt.  A child  *)
(* that ends settles the step that waits for it, through a hook that is    *)
(* called after the commit of its end.  The writes check the statuses, the *)
(* link, the token and the times again under the locks of parent,          *)
(* invocation, step and child, so that each is one action here; between    *)
(* two of them the server may stop, or a lock may be lost.  The refusal of *)
(* a step takes no lock: it is one UPDATE, which looks at the parent and   *)
(* the invocation in the snapshot of its statement and at the step when it *)
(* has its row.                                                            *)
(*                                                                         *)
(* What a crash or a lost lock leaves behind is for the reconciler: it     *)
(* selects the invocations it can act on and acts on one after another.    *)
(*                                                                         *)
(* The rows of a child's steps stand or fall with its receipt.  Aborted    *)
(* and timed-out runs count as failed.  A quality remediation of a child   *)
(* may hold up its cancellation, once.  What a step shows of its child     *)
(* (adoption) has no authority and is left out, and so are the definitions,*)
(* retries, which workflow steps do not have, reopened parents, and the    *)
(* children of a child.                                                    *)
(***************************************************************************)
EXTENDS Integers, FiniteSets

CONSTANTS
  Steps,       \* how many steps call a workflow, the oldest invocation first
  Together,    \* whether the steps belong to one parent run, or each to its own
  Worker,      \* those who dispatch, finalize and cancel
  Reconciler,  \* the recovery pass of the native reconciler, one at a time
  Nobody,      \* in place of a caller
  Cap,         \* WORKFLOW_CHILD_MAX_CONCURRENT_WAITING (5)
  Limit,       \* how many candidates a recovery pass selects (25)
  MaxErrors    \* bound on the failures and the deleted children

ASSUME ConstantsAssumption ==
  /\ Steps \in Nat \ {0} /\ Together \in BOOLEAN
  /\ IsFiniteSet(Worker) /\ Reconciler \notin Worker
  /\ Nobody \notin Worker \cup {Reconciler}
  /\ Cap \in Nat \ {0} /\ Limit \in Nat \ {0} /\ MaxErrors \in Nat

Step == 1..Steps
None == 0                                  \* no step, no run
Run == IF Together THEN {1} ELSE Step      \* the parents
ParentOf(s) == IF Together THEN 1 ELSE s
Caller == Worker \cup {Reconciler}

VARIABLES
  parent,   \* workflow_runs: the status of a parent
  step,     \* workflow_step_runs: the status of a step ("refused" is a failure
            \* before there was an invocation)
  link,     \* workflow_step_invocations: none, linked, or its child deleted
  child,    \* workflow_runs: the child of a step
  job,      \* a caller: where it is, for which step, with which token, the
            \* steps that it has still to do, and the run that it cancels
  errors

vars == <<parent, step, link, child, job, errors>>

Ended == {"completed", "failed", "cancelled"}
NoChild == [status |-> "none", receipt |-> FALSE, token |-> Nobody,
            lease |-> "none", deadline |-> "none", hold |-> "none"]
Idle == [at |-> "idle", step |-> None, token |-> Nobody, todo |-> {}, run |-> None]
At == {"idle", "refuse", "refusing", "claim", "deleted", "lease", "prepare", "expire", "hook",
       "completed", "failed", "cancel", "clean", "pass"}
Child == [status : {"none", "pending", "running"} \cup Ended,
          receipt : BOOLEAN, token : Caller \cup {Nobody},
          lease : {"none", "live", "lapsed"},
          deadline : {"none", "future", "elapsed", "overdue"},
          hold : {"none", "open", "lifted"}]
Job == [at : At, step : Step \cup {None}, token : Caller \cup {Nobody},
        todo : SUBSET Step, run : Run \cup {None}]

TypeOK ==
  /\ parent \in [Run -> {"running"} \cup Ended]
  /\ step \in [Step -> {"pending", "completed", "failed", "refused", "skipped"}]
  /\ link \in [Step -> {"none", "linked", "deleted"}]
  /\ child \in [Step -> Child]
  /\ \A s \in Step : link[s] = "linked" <=> child[s].status # "none"
  /\ \A s \in Step : (child[s].token = Nobody) <=> (child[s].lease = "none")
  /\ job \in [Caller -> Job]
  /\ errors \in 0..MaxErrors

Init ==
  /\ parent = [p \in Run |-> "running"]
  /\ step = [s \in Step |-> "pending"]
  /\ link = [s \in Step |-> "none"]
  /\ child = [s \in Step |-> NoChild]
  /\ job = [c \in Caller |-> Idle]
  /\ errors = 0

-----------------------------------------------------------------------------
(* The predicates of workflow-child-start-predicates.ts.                   *)

Running(s) == parent[ParentOf(s)] = "running"
Alive(s) == child[s].status \in {"pending", "running"}
Linked(s) == link[s] = "linked"
Automatic(s) == Linked(s) /\ Running(s) /\ step[s] = "pending"
Dead(s) == Linked(s) /\ parent[ParentOf(s)] \in Ended
Elapsed(s) == child[s].deadline \in {"elapsed", "overdue"}
HasLease(s) == child[s].lease = "live" /\ child[s].deadline = "future"

\* The caller with this token may write the start of the child.
Owner(s, token) ==
  Automatic(s) /\ child[s].status = "running" /\ ~child[s].receipt
  /\ child[s].token = token /\ HasLease(s)

\* A step may be settled while its parent runs or has been cancelled.
Settleable(s) == step[s] = "pending" /\ parent[ParentOf(s)] \in {"running", "cancelled"}

Free(c) == job[c].at = "idle" /\ job[c].todo = {} /\ job[c].run = None
On(c, at) == job[c].at = at
Go(c, at) == job' = [job EXCEPT ![c].at = at]
Begin(c, s, at) == job' = [job EXCEPT ![c].at = at, ![c].step = s]
Rest(c) == IF c = Reconciler THEN "pass" ELSE "idle"
Done(c) == job' = [job EXCEPT ![c].at = Rest(c), ![c].step = None, ![c].token = Nobody]

\* Mistake: the lease of a child that ends stays.
EndMutant(s, status) ==
  child' = [child EXCEPT ![s].status = status, ![s].token = Nobody, ![s].hold = "none"]

\* The child of s ends: the start lease goes, the deadline stays.
End(s, status) ==
  child' = [child EXCEPT ![s].status = status, ![s].token = Nobody, ![s].lease = "none",
                         ![s].hold = "none"]

-----------------------------------------------------------------------------
(* Dispatch: the invocation and its child.                                 *)

\* The precheck (target, inputs, options, depth) refuses the step or goes on.
Dispatch(c, s) ==
  /\ Free(c) /\ Running(s) /\ step[s] = "pending"
  /\ \E at \in {"claim", "refuse"} : Begin(c, s, at)
  /\ UNCHANGED <<parent, step, link, child, errors>>

\* The steps of the same parent that wait with an invocation.
Waiting(s) ==
  {q \in Step : ParentOf(q) = ParentOf(s) /\ step[q] = "pending" /\ link[q] # "none"}

\* Without a new child: the parent has ended, the step does not wait, it has
\* its child already, or that child was deleted.
ClaimRefused(c) ==
  LET s == job[c].step
  IN /\ On(c, "claim")
     /\ \/ ~Running(s) /\ Go(c, "refuse")
        \/ Running(s) /\ (step[s] # "pending" \/ Linked(s)) /\ Done(c)
        \/ Running(s) /\ step[s] = "pending" /\ link[s] = "deleted" /\ Go(c, "deleted")
        \/ /\ Running(s) /\ step[s] = "pending" /\ link[s] = "none"
           /\ Cardinality(Waiting(s)) >= Cap /\ Go(c, "refuse")
     /\ UNCHANGED <<parent, step, link, child, errors>>

Claim(c) ==
  LET s == job[c].step
  IN /\ On(c, "claim")
     /\ Running(s) /\ step[s] = "pending" /\ link[s] = "none"
     /\ Cardinality(Waiting(s)) < Cap
     /\ link' = [link EXCEPT ![s] = "linked"]
     /\ child' = [child EXCEPT ![s].status = "pending"]
     /\ Go(c, "lease")
     /\ UNCHANGED <<parent, step, errors>>

\* A step that is refused fails if it has no invocation: in the snapshot of the
\* statement, which does not see the claim that commits after it.
RefuseLooks(c) ==
  LET s == job[c].step
  IN /\ On(c, "refuse")
     /\ IF Settleable(s) /\ link[s] = "none" THEN Go(c, "refusing") ELSE Done(c)
     /\ UNCHANGED <<parent, step, link, child, errors>>

\* The row of the step, which a claim locks and does not write, is looked at
\* again; the parent and the invocation are not.
RefuseWrites(c) ==
  LET s == job[c].step
  IN /\ On(c, "refusing")
     /\ step' = IF step[s] = "pending" THEN [step EXCEPT ![s] = "refused"] ELSE step
     /\ Done(c)
     /\ UNCHANGED <<parent, link, child, errors>>

-----------------------------------------------------------------------------
(* The start of a child.                                                   *)

\* Mistake: a lease that is taken over keeps its token.
LeaseMutant(c) ==
  LET s == job[c].step
      kept == IF child[s].token = Nobody THEN c ELSE child[s].token
  IN /\ On(c, "lease")
     /\ Automatic(s) /\ Alive(s) /\ ~child[s].receipt
     /\ ~Elapsed(s) /\ child[s].lease # "live"
     /\ child' = [child EXCEPT ![s].status = "running", ![s].token = kept,
                               ![s].lease = "live", ![s].deadline = "future"]
     /\ job' = [job EXCEPT ![c].at = "prepare", ![c].token = kept]
     /\ UNCHANGED <<parent, step, link, errors>>

\* A free or lapsed lease is taken with a new token (a caller has one start at
\* a time, so that its name does for the token).
Lease(c) ==
  LET s == job[c].step
  IN /\ On(c, "lease")
     /\ Automatic(s) /\ Alive(s) /\ ~child[s].receipt
     /\ ~Elapsed(s) /\ child[s].lease # "live"
     /\ child' = [child EXCEPT ![s].status = "running", ![s].token = c,
                               ![s].lease = "live", ![s].deadline = "future"]
     /\ job' = [job EXCEPT ![c].at = "prepare", ![c].token = c]
     /\ UNCHANGED <<parent, step, link, errors>>

\* Not eligible, materialized or busy; or expired.
LeaseRefused(c) ==
  LET s == job[c].step
      eligible == Automatic(s) /\ Alive(s) /\ ~child[s].receipt
  IN /\ On(c, "lease")
     /\ \/ eligible /\ Elapsed(s) /\ Go(c, "expire")
        \/ (~eligible \/ (~Elapsed(s) /\ child[s].lease = "live")) /\ Done(c)
     /\ UNCHANGED <<parent, step, link, child, errors>>

\* Mistake: the token is not looked at again.
MaterializeMutant(c) ==
  LET s == job[c].step
  IN /\ On(c, "prepare")
     /\ child' = IF Linked(s)
                 THEN [child EXCEPT ![s].receipt = TRUE, ![s].token = Nobody, ![s].lease = "none"]
                 ELSE child
     /\ Done(c)
     /\ UNCHANGED <<parent, step, link, errors>>

\* The owner writes the rows of the child's steps and the receipt.
Materialize(c) ==
  LET s == job[c].step
  IN /\ On(c, "prepare")
     /\ child' = IF Owner(s, job[c].token)
                 THEN [child EXCEPT ![s].receipt = TRUE, ![s].token = Nobody, ![s].lease = "none"]
                 ELSE child
     /\ Done(c)
     /\ UNCHANGED <<parent, step, link, errors>>

\* The preparation failed: the owner ends the child.
FailStart(c) ==
  LET s == job[c].step
  IN /\ On(c, "prepare")
     /\ IF Owner(s, job[c].token) THEN End(s, "failed") /\ Go(c, "hook")
        ELSE Done(c) /\ UNCHANGED child
     /\ UNCHANGED <<parent, step, link, errors>>

\* A start that missed its deadline: cancelled under a dead parent.
Expired(s) == (Automatic(s) \/ Dead(s)) /\ Alive(s) /\ ~child[s].receipt /\ Elapsed(s)
EndExpired(s) == End(s, IF Dead(s) THEN "cancelled" ELSE "failed")

Expire(c) ==
  LET s == job[c].step
  IN /\ On(c, "expire")
     /\ IF Expired(s) THEN EndExpired(s) /\ Go(c, "hook")
        ELSE Done(c) /\ UNCHANGED child
     /\ UNCHANGED <<parent, step, link, errors>>

-----------------------------------------------------------------------------
(* The end of a child, and the step that waits for it.                     *)

\* The synchronisation of a child that has started finds its steps ended.
Finalize(c, s) ==
  /\ Free(c) /\ Linked(s) /\ child[s].status = "running" /\ child[s].receipt
  /\ \E status \in {"completed", "failed"} : Begin(c, s, status)
  /\ UNCHANGED <<parent, step, link, child, errors>>

\* Mistake: the status of the row is not looked at again.
EndChildMutant(c) ==
  LET s == job[c].step
  IN /\ job[c].at \in {"completed", "failed"}
     /\ IF Linked(s) /\ child[s].receipt THEN End(s, job[c].at) ELSE UNCHANGED child
     /\ IF Linked(s) THEN Go(c, "hook") ELSE Done(c)
     /\ UNCHANGED <<parent, step, link, errors>>

\* The write may come too late; the hook is called for what the row says.
EndChild(c) ==
  LET s == job[c].step
  IN /\ job[c].at \in {"completed", "failed"}
     /\ IF Alive(s) /\ child[s].receipt THEN End(s, job[c].at) ELSE UNCHANGED child
     /\ IF Linked(s) THEN Go(c, "hook") ELSE Done(c)
     /\ UNCHANGED <<parent, step, link, errors>>

\* An operator cancels a child, under a living parent too.
DirectCancel(c, s) ==
  /\ Free(c) /\ Alive(s) /\ child[s].hold # "open"
  /\ End(s, "cancelled")
  /\ Begin(c, s, "hook")
  /\ UNCHANGED <<parent, step, link, errors>>

\* Mistake: only a failed child fails its step.
HookMutant(c) ==
  LET s == job[c].step
  IN /\ On(c, "hook")
     /\ step' = IF Linked(s) /\ Settleable(s) /\ ~Alive(s)
                THEN [step EXCEPT ![s] = IF child[s].status = "failed" THEN "failed"
                                         ELSE "completed"]
                ELSE step
     /\ Done(c)
     /\ UNCHANGED <<parent, link, child, errors>>

\* runWorkflowChildCompletionHook: the step ends as the row of its child did.
Hook(c) ==
  LET s == job[c].step
  IN /\ On(c, "hook")
     /\ step' = IF Linked(s) /\ Settleable(s) /\ ~Alive(s)
                THEN [step EXCEPT ![s] = IF child[s].status = "completed" THEN "completed"
                                         ELSE "failed"]
                ELSE step
     /\ Done(c)
     /\ UNCHANGED <<parent, link, child, errors>>

\* A step whose child was deleted fails.
SettleDeleted(c) ==
  LET s == job[c].step
  IN /\ On(c, "deleted")
     /\ step' = IF Settleable(s) /\ link[s] = "deleted" THEN [step EXCEPT ![s] = "failed"]
                ELSE step
     /\ Done(c)
     /\ UNCHANGED <<parent, link, child, errors>>

-----------------------------------------------------------------------------
(* The parent.                                                             *)

Of(p) == {s \in Step : ParentOf(s) = p}

\* cancelWorkflowRunWithCleanup: the run, then its children, then its steps.
CancelParent(c, p) ==
  /\ Free(c) /\ parent[p] = "running"
  /\ parent' = [parent EXCEPT ![p] = "cancelled"]
  /\ job' = [job EXCEPT ![c].run = p, ![c].todo = {s \in Of(p) : Alive(s)}]
  /\ UNCHANGED <<step, link, child, errors>>

CancelNext(c) ==
  /\ On(c, "idle") /\ job[c].run # None
  /\ \E s \in job[c].todo :
       job' = [job EXCEPT ![c].at = "cancel", ![c].step = s, ![c].todo = @ \ {s}]
  /\ UNCHANGED <<parent, step, link, child, errors>>

\* Only under a dead parent; the hook is a part of the cleanup.  A hold is an
\* error that those who cancel several children or recover them log.
CancelChild(c) ==
  LET s == job[c].step
  IN /\ On(c, "cancel")
     /\ IF Dead(s) /\ Alive(s) /\ child[s].hold # "open" THEN End(s, "cancelled") /\ Go(c, "hook")
        ELSE Done(c) /\ UNCHANGED child
     /\ UNCHANGED <<parent, step, link, errors>>

\* The cleanup of the parent reads its steps and skips those that it read as
\* pending, whatever they are by then.
CleanRead(c) ==
  /\ On(c, "idle") /\ job[c].run # None /\ job[c].todo = {}
  /\ job' = [job EXCEPT ![c].at = "clean",
                        ![c].todo = {s \in Of(job[c].run) : step[s] = "pending"}]
  /\ UNCHANGED <<parent, step, link, child, errors>>

CleanWrite(c) ==
  /\ On(c, "clean")
  /\ step' = [s \in Step |-> IF s \in job[c].todo THEN "skipped" ELSE step[s]]
  /\ job' = [job EXCEPT ![c] = Idle]
  /\ UNCHANGED <<parent, link, child, errors>>

\* The parent ends when its steps have; other steps of it may come first.
ParentEnds(p) ==
  /\ parent[p] = "running" /\ \A s \in Of(p) : step[s] # "pending"
  /\ parent' = [parent EXCEPT ![p] = IF \E s \in Of(p) : step[s] \in {"failed", "refused"}
                                     THEN "failed" ELSE "completed"]
  /\ UNCHANGED <<step, link, child, job, errors>>

-----------------------------------------------------------------------------
(* Recovery.                                                               *)

\* Mistake: a dead parent is taken to have cancelled its children itself.
KindMutant(s) ==
  IF (Automatic(s) \/ Dead(s)) /\ ~child[s].receipt /\ Elapsed(s) THEN "expire"
  ELSE IF link[s] = "deleted" /\ Running(s) /\ step[s] = "pending" THEN "deleted"
  ELSE IF Automatic(s) /\ ~Alive(s) THEN "hook"
  ELSE IF Automatic(s) /\ ~child[s].receipt /\ child[s].lease # "live" THEN "lease"
  ELSE "none"

\* Mistake: a child that has ended is left to the hook of whoever ended it.
KindUnsettledMutant(s) ==
  IF Dead(s) /\ Alive(s) THEN "cancel"
  ELSE IF (Automatic(s) \/ Dead(s)) /\ ~child[s].receipt /\ Elapsed(s) THEN "expire"
  ELSE IF link[s] = "deleted" /\ Running(s) /\ step[s] = "pending" THEN "deleted"
  ELSE IF Automatic(s) /\ Alive(s) /\ ~child[s].receipt /\ child[s].lease # "live" THEN "lease"
  ELSE "none"

\* What there is to do for an invocation, if anything, the first that applies.
Kind(s) ==
  IF Dead(s) /\ Alive(s) THEN "cancel"
  ELSE IF (Automatic(s) \/ Dead(s)) /\ ~child[s].receipt /\ Elapsed(s) THEN "expire"
  ELSE IF link[s] = "deleted" /\ Running(s) /\ step[s] = "pending" THEN "deleted"
  ELSE IF Automatic(s) /\ ~Alive(s) THEN "hook"
  ELSE IF Automatic(s) /\ ~child[s].receipt /\ child[s].lease # "live" THEN "lease"
  ELSE "none"

Rank(s) ==
  CASE Kind(s) = "cancel" -> 0 [] Kind(s) = "expire" -> 1
    [] Kind(s) \in {"deleted", "hook"} -> 2 [] OTHER -> 4

Candidates == {s \in Step : Kind(s) # "none"}
Precedes(q, s) == Rank(q) < Rank(s) \/ (Rank(q) = Rank(s) /\ q < s)

\* A pass: the first Limit candidates, by rank, then by age.
Scan(c) ==
  /\ Free(c)
  /\ job' = [job EXCEPT ![c].at = "pass", ![c].todo =
               {s \in Candidates : Cardinality({q \in Candidates : Precedes(q, s)}) < Limit}]
  /\ UNCHANGED <<parent, step, link, child, errors>>

\* Each is read again and acted on as what it is by now.
Recover(c) ==
  /\ On(c, "pass")
  /\ \E s \in job[c].todo :
       job' = [job EXCEPT ![c].todo = @ \ {s},
                          ![c].at = IF Kind(s) = "none" THEN "pass" ELSE Kind(s),
                          ![c].step = IF Kind(s) = "none" THEN None ELSE s]
  /\ UNCHANGED <<parent, step, link, child, errors>>

\* After that the pass ends the runs that are stuck for an hour.  It ends a
\* child whose start is overdue, and calls no hook.
StuckStart(c, s) ==
  /\ On(c, "pass") /\ job[c].todo = {}
  /\ child[s].status = "running" /\ child[s].deadline = "overdue" /\ Expired(s)
  /\ EndExpired(s)
  /\ UNCHANGED <<parent, step, link, job, errors>>

PassEnds(c) ==
  /\ On(c, "pass") /\ job[c].todo = {}
  /\ job' = [job EXCEPT ![c] = Idle]
  /\ UNCHANGED <<parent, step, link, child, errors>>

-----------------------------------------------------------------------------
(* Time, holds and failures.                                               *)

LeaseLapses(s) ==
  /\ child[s].lease = "live"
  /\ child' = [child EXCEPT ![s].lease = "lapsed"]
  /\ UNCHANGED <<parent, step, link, job, errors>>

DeadlinePasses(s) ==
  /\ child[s].deadline = "future"
  /\ child' = [child EXCEPT ![s].deadline = "elapsed",
                            ![s].lease = IF @ = "live" THEN "lapsed" ELSE @]
  /\ UNCHANGED <<parent, step, link, job, errors>>

\* The hour is over between two passes: a pass takes less than 55 minutes.
StartIsOverdue(s) ==
  /\ child[s].deadline = "elapsed" /\ Alive(s) /\ ~child[s].receipt
  /\ job[Reconciler] = Idle
  /\ child' = [child EXCEPT ![s].deadline = "overdue"]
  /\ UNCHANGED <<parent, step, link, job, errors>>

\* withChildCancellationAdmission: the steps of the child have a remediation that
\* is not proven to be drained.
HoldOpens(s) ==
  /\ child[s].status = "running" /\ child[s].receipt /\ child[s].hold = "none"
  /\ child' = [child EXCEPT ![s].hold = "open"]
  /\ UNCHANGED <<parent, step, link, job, errors>>

HoldLifts(s) ==
  /\ child[s].hold = "open"
  /\ child' = [child EXCEPT ![s].hold = "lifted"]
  /\ UNCHANGED <<parent, step, link, job, errors>>

\* A lock that is not had in time, a statement that times out, an adoption
\* that loses its race, an error: the caller gives up what it is at.
GiveUp(c) ==
  /\ job[c].at \notin {"idle", "clean", "pass"} /\ errors < MaxErrors
  /\ Done(c)
  /\ errors' = errors + 1
  /\ UNCHANGED <<parent, step, link, child>>

\* The server stops, and starts again.
Restart ==
  /\ errors < MaxErrors /\ \E c \in Caller : job[c] # Idle
  /\ job' = [c \in Caller |-> Idle]
  /\ errors' = errors + 1
  /\ UNCHANGED <<parent, step, link, child>>

\* Somebody deletes the row of a child; the foreign key clears the link.
DeleteChild(s) ==
  /\ Linked(s) /\ errors < MaxErrors
  /\ link' = [link EXCEPT ![s] = "deleted"]
  /\ child' = [child EXCEPT ![s] = NoChild]
  /\ errors' = errors + 1
  /\ UNCHANGED <<parent, step, job>>

-----------------------------------------------------------------------------
\* What a caller is at.
Proceed(c) ==
  \/ ClaimRefused(c) \/ Claim(c) \/ RefuseLooks(c) \/ RefuseWrites(c)
  \/ Lease(c) \/ LeaseRefused(c) \/ Materialize(c) \/ FailStart(c) \/ Expire(c)
  \/ EndChild(c) \/ Hook(c) \/ SettleDeleted(c)
  \/ CancelNext(c) \/ CancelChild(c) \/ CleanRead(c) \/ CleanWrite(c)

Reconcile ==
  \/ Scan(Reconciler) \/ Recover(Reconciler) \/ Proceed(Reconciler)
  \/ PassEnds(Reconciler)
  \/ \E s \in Step : StuckStart(Reconciler, s)

Next ==
  \/ \E c \in Worker :
       \/ Proceed(c)
       \/ \E s \in Step : Dispatch(c, s) \/ Finalize(c, s) \/ DirectCancel(c, s)
       \/ \E p \in Run : CancelParent(c, p)
  \/ Reconcile
  \/ \E c \in Caller : GiveUp(c)
  \/ \E p \in Run : ParentEnds(p)
  \/ \E s \in Step :
       \/ LeaseLapses(s) \/ DeadlinePasses(s) \/ StartIsOverdue(s)
       \/ HoldOpens(s) \/ HoldLifts(s) \/ DeleteChild(s)
  \/ Restart

Spec == Init /\ [][Next]_vars

\* The reconciler passes again and again, and time goes on.  Nothing is
\* assumed of those who dispatch, finalize or cancel.
Fairness ==
  /\ WF_vars(Reconcile)
  /\ \A s \in Step : WF_vars(LeaseLapses(s)) /\ WF_vars(DeadlinePasses(s))

FairSpec == Spec /\ Fairness

\* The same with workers that go on with what they have begun.
FairWorkersSpec == FairSpec /\ \A c \in Worker : WF_vars(Proceed(c))

-----------------------------------------------------------------------------
(* Properties.                                                             *)

\* However leases lapse and are taken over, at most one of those who prepare a
\* child may still write its start (workflow-child-start-predicates.ts:108).
OneOwner ==
  \A s \in Step :
    Cardinality({c \in Caller : On(c, "prepare") /\ job[c].step = s
                                /\ Owner(s, job[c].token)}) <= 1

\* A step that completed has a child that started and completed, one that was
\* settled as failed has none that lives or completed, whoever settled, cancelled
\* or expired it (workflow-child-settlement-writers.ts:163).
StepFollowsChild ==
  \A s \in Step : Linked(s) =>
    /\ step[s] = "completed" => child[s].status = "completed" /\ child[s].receipt
    /\ step[s] = "failed" => child[s].status \in {"failed", "cancelled"}

\* A step fails before the claim of its invocation, or not at all for that reason
\* ("the final mutation of a failure before the claim, when there is no
\* invocation yet", workflow-child-pre-admission-writer.ts:3-5).
RefusedStepHasNoChild ==
  \A s \in Step : step[s] = "refused" => link[s] = "none"

\* The end of a child is final: neither a late finalization, expiry or
\* cancellation nor the late start of a former owner changes it
\* (workflow-cancel-bridge.ts:231-236, workflow-child-start-predicates.ts:116-130).
EndedChildStays ==
  [][\A s \in Step : child[s].status \in Ended /\ child'[s] # NoChild =>
       /\ child'[s].status = child[s].status
       /\ child'[s].receipt = child[s].receipt]_vars

\* A pass selects the first Limit candidates, and some that cannot be settled
\* stay candidates.
Crowded == Cardinality(Candidates) > Limit

\* A child that has not started, or whose parent has ended, is started under a
\* living parent or ends, whatever crashed in between; unless its step was
\* refused beside it (then it waits for the end of the parent), a remediation
\* holds up its cancellation, or the passes are crowded.
ChildIsDecided ==
  \A s \in Step :
    \/ (Alive(s) /\ ((Automatic(s) /\ ~child[s].receipt) \/ Dead(s)))
         ~> (~Alive(s) \/ (Running(s) /\ (child[s].receipt \/ step[s] = "refused")))
    \/ []<>(child[s].hold = "open")
    \/ []<>Crowded

\* A step is settled after its child has ended or was deleted, unless the child
\* never started and its deadline is over, which the recovery takes for an
\* expired start whatever the child is (workflow-child-recovery-candidates.ts:123),
\* or the passes are crowded.
WaitingStepIsSettled ==
  \A s \in Step :
    \/ (Running(s) /\ step[s] = "pending" /\ link[s] # "none" /\ ~Alive(s))
         ~> (step[s] # "pending" \/ ~Running(s) \/ (~child[s].receipt /\ Elapsed(s)))
    \/ []<>Crowded

\* "A failed child terminally fails its parent step"
\* (doc/SPEC-implementation.md:141).
FailedChildFailsStep ==
  \A s \in Step :
    (Automatic(s) /\ child[s].status = "failed") ~> (step[s] = "failed" \/ ~Automatic(s))
=============================================================================
