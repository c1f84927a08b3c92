--------------------------- MODULE IssueExecution ---------------------------
(***************************************************************************)
(* The execution lock of one issue, server/src/services/heartbeat.ts: what *)
(* becomes of the wake requests of the agents that want to work on the     *)
(* issue while a run of it is queued, running or not yet released.         *)
(*                                                                         *)
(* enqueueWakeup admits a wake: a new run that takes the lock, a merge     *)
(* into a live run ("coalesced"), a request deferred behind the lock, or a *)
(* request that waits in the queue without a run.                          *)
(* releaseIssueExecutionAndPromote gives the lock back after a run and     *)
(* promotes a deferred wake; the queue sweep promotes the others, and      *)
(* reapStalledIssueExecutionLocks frees a lock whose runs all failed.      *)
(*                                                                         *)
(* Every action is one transaction that holds the row of the issue, with   *)
(* two exceptions.  A merge into a queued run reads the status of the run  *)
(* and writes its context in two statements, and a claim, which does not   *)
(* lock the issue, may fall between them.  And the release of a run that   *)
(* has neither lock reads the issue without its row, and writes it by what *)
(* it read.                                                                *)
(*                                                                         *)
(* One server process.  The claim pass (count, select, claim) is one       *)
(* action: the start lock of the agent keeps the passes of a process apart.*)
(* The queue of wakes is ordered by their number, that of runs by theirs.  *)
(* How a run executes, settles and is found lost is in RunFinalization: a  *)
(* run here is in flight until its release, and the release is redone      *)
(* after a crash.  Every agent stays invokable, the issue keeps its        *)
(* assignee, and the agents' own checkouts are left out.  A run that timed *)
(* out counts as failed; an issue in the backlog or in review counts as    *)
(* todo, a cancelled one as done; a request that has its run stays queued. *)
(* Budgets, paused agents, superseded notifications and missions that are  *)
(* over are left out.                                                      *)
(***************************************************************************)
EXTENDS Integers, FiniteSets

CONSTANTS
  Agent,
  Assignee,       \* the agent the issue is assigned to
  Kinds,          \* the kinds of wake that arrive for the assignee
  PeerKinds,      \* those that arrive for the other agents
  MaxConcurrent,  \* maxConcurrentRuns of an agent
  MaxWakes,       \* bound on the accepted wake requests
  MaxRetries,     \* bound on the retries of failed runs
  MaxLost         \* bound on the releases that fail

ASSUME ConstantsAssumption ==
  /\ Assignee \in Agent
  /\ Kinds \subseteq {"plain", "comment", "mention", "bounded", "rework"}
  /\ PeerKinds \subseteq Kinds
  /\ MaxConcurrent \in Nat \ {0} /\ MaxWakes \in Nat \ {0}
  /\ MaxRetries \in Nat /\ MaxLost \in Nat

\* The run of an earlier wake, one for each wake at most, and the retries.
Run == 1..(1 + MaxWakes + MaxRetries)
Wake == 1..MaxWakes
None == 0             \* SQL null for a run or a wake

VARIABLES
  issue,    \* the issue: its status, executionRunId and checkoutRunId
  run,      \* heartbeat_runs: status, agent, the wakes in its context, those
            \* its execution read, whether it is released, its losses
  wake,     \* agent_wakeup_requests: status, agent, kind, run, the wakes its
            \* stored context carries, and whether a claim overtook its merge
  merging,  \* the merge between its two statements: the wake, the run, and
            \* the executionRunId that others still see
  decided,  \* what a release without a lock makes of the issue it has read
  lost      \* the runs whose release failed and is not redone

vars == <<issue, run, wake, merging, decided, lost>>

Ended == {"succeeded", "failed", "cancelled"}
Startable == {"todo", "blocked", "in_progress"}

TypeOK ==
  /\ issue \in [status : Startable \cup {"done"},
                executionRun : Run \cup {None}, checkoutRun : Run \cup {None}]
  /\ run \in [Run -> [status : {"absent", "queued", "running"} \cup Ended,
                      agent : Agent, context : SUBSET Wake, read : SUBSET Wake,
                      released : BOOLEAN, losses : 0..1]]
  /\ wake \in [Wake -> [status : {"absent", "queued", "deferred", "merged",
                                  "coalesced", "failed"},
                        agent : Agent, kind : Kinds \cup {"none"},
                        run : Run \cup {None}, context : SUBSET Wake,
                        overtaken : BOOLEAN]]
  /\ merging \in [wake : Wake \cup {None}, run : Run \cup {None}, before : Run \cup {None}]
  /\ decided \in [Run -> {"nothing", "clear", "keep", "done", "blocked", "todo"}]
  /\ lost \subseteq Run

Absent == [status |-> "absent", agent |-> Assignee, context |-> {}, read |-> {},
           released |-> FALSE, losses |-> 0]

NoMerge == [wake |-> None, run |-> None, before |-> None]

\* The assignee has been woken before: its run is queued and owns the issue.
Init ==
  /\ issue = [status |-> "in_progress", executionRun |-> 1, checkoutRun |-> 1]
  /\ run = [r \in Run |-> IF r = 1 THEN [Absent EXCEPT !.status = "queued"] ELSE Absent]
  /\ wake = [w \in Wake |-> [status |-> "absent", agent |-> Assignee, kind |-> "none",
                             run |-> None, context |-> {}, overtaken |-> FALSE]]
  /\ merging = NoMerge
  /\ decided = [r \in Run |-> "nothing"]
  /\ lost = {}

-----------------------------------------------------------------------------
(* Reading the rows.                                                       *)

Live(r) == run[r].status \in {"queued", "running"}

\* A run holds its slot and its mission until it is settled.
InFlight(r) == Live(r) \/ (run[r].status \in Ended /\ ~run[r].released)

Locks(i) == {i.executionRun, i.checkoutRun} \ {None}
LockRuns == Locks(issue)

IsFirst(x, S) == x \in S /\ \A y \in S : x <= y
IsLast(x, S) == x \in S /\ \A y \in S : y <= x

\* The row that the next insert into a table creates.
IsNext(r) == IsFirst(r, {q \in Run : run[q].status = "absent"})
IsNextWake(w) == IsFirst(w, {v \in Wake : wake[v].status = "absent"})

\* The run that has the issue: the live run the lock names, else the live run
\* that was started on the issue without it, a running one before a queued one.
IsActiveExecutionRun(r) ==
  LET running == {q \in Run : run[q].status = "running"}
      live == {q \in Run : Live(q)}
  IN IF issue.executionRun \in live THEN r = issue.executionRun
     ELSE IF running # {} THEN IsFirst(r, running) ELSE IsFirst(r, live)

NoActiveExecutionRun == \A r \in Run : ~Live(r)

\* No transaction holds the row of the issue between two statements.
IssueUnlocked == merging.wake = None

Waiting(w) == wake[w].status \in {"queued", "deferred"} /\ wake[w].run = None

Unbounded(kind) == kind # "bounded"

\* The waiting request into which a new one of the agent is merged.
IsMergeTarget(v, status, agent, kind) ==
  /\ Unbounded(kind)
  /\ IsFirst(v, {u \in Wake : /\ Waiting(u) /\ wake[u].status = status
                              /\ wake[u].agent = agent /\ Unbounded(wake[u].kind)})

FreeSlot(agent) ==
  Cardinality({r \in Run : run[r].agent = agent /\ run[r].status # "queued"
                           /\ InFlight(r)}) < MaxConcurrent

-----------------------------------------------------------------------------
(* Writing them.                                                           *)

Request(status, agent, kind, r, w) ==
  [status |-> status, agent |-> agent, kind |-> kind, run |-> r,
   context |-> {w}, overtaken |-> FALSE]

Queued(agent, context, losses) ==
  [status |-> "queued", agent |-> agent, context |-> context, read |-> {},
   released |-> FALSE, losses |-> losses]

\* startLinkedIssue: an issue past its terminal status lets the run start
\* without the lock.
StartLinkedIssue(i, r, allowDone) ==
  IF i.status \in Startable \/ (allowDone /\ i.status = "done")
  THEN [status |-> "in_progress", executionRun |-> r, checkoutRun |-> r]
  ELSE i

\* The request w waits with the given status, in a row of its own or merged
\* into one that waits already.
Enqueue(w, status, agent, kind) ==
  \/ /\ \A v \in Wake : ~IsMergeTarget(v, status, agent, kind)
     /\ wake' = [wake EXCEPT ![w] = Request(status, agent, kind, None, w)]
  \/ \E v \in Wake :
       /\ IsMergeTarget(v, status, agent, kind)
       /\ wake' = [wake EXCEPT ![w] = Request("merged", agent, kind, None, w),
                               ![v].context = @ \cup {w}]

\* The request w is merged into the run r: at once when the run is running,
\* which no one can undo, in a second statement when it is queued.
MergeInto(w, agent, kind, r) ==
  \/ /\ run[r].status = "running"
     /\ run' = [run EXCEPT ![r].context = @ \cup {w}]
     /\ wake' = [wake EXCEPT ![w] = Request("coalesced", agent, kind, r, w)]
     /\ UNCHANGED merging
  \/ /\ run[r].status = "queued"
     /\ wake' = [wake EXCEPT ![w] = Request("coalesced", agent, kind, r, w)]
     /\ merging' = [wake |-> w, run |-> r, before |-> issue.executionRun]
     /\ UNCHANGED run

-----------------------------------------------------------------------------
(* enqueueWakeup of a wake that respects the lock.                         *)

\* The lock follows the run found to have the issue.
Adopt(r) == issue' = [issue EXCEPT !.executionRun = r]

\* A rework of a plan never joins a live run nor waits behind the lock.
AdmitRework(w, agent, r) ==
  /\ IsActiveExecutionRun(r)
  /\ Adopt(r)
  /\ wake' = [wake EXCEPT ![w] = Request("queued", agent, "rework", None, w)]
  /\ UNCHANGED <<run, merging, decided, lost>>

\* The agent that the lock was given to, before it is adopted: the lock of a
\* run that has ended may name another agent than that of the live run.
ExecutionAgent(r) == run[IF issue.executionRun # None THEN issue.executionRun ELSE r].agent

\* Mistake: a comment joins a run that is at work already.
CoalescesMutant(agent, kind, r) == ExecutionAgent(r) = agent /\ Unbounded(kind)

\* A comment must be read by a run that starts after it; a bounded request
\* (an operator decision, a quality correction) must have a run of its own.
Coalesces(agent, kind, r) ==
  /\ ExecutionAgent(r) = agent
  /\ ~(kind = "comment" /\ run[r].status = "running")
  /\ Unbounded(kind)

\* The run of a bounded request may be a quality correction, which no wake joins.
MayBeCorrection(r) == \E w \in run[r].context : ~Unbounded(wake[w].kind)

AdmitCoalesced(w, agent, kind, r) ==
  /\ kind \notin {"mention", "rework"} /\ IsActiveExecutionRun(r) /\ Coalesces(agent, kind, r)
  /\ Adopt(r)
  /\ MergeInto(w, agent, kind, r)
  /\ UNCHANGED <<decided, lost>>

AdmitDeferred(w, agent, kind, r) ==
  /\ kind \notin {"mention", "rework"} /\ IsActiveExecutionRun(r)
  /\ ~Coalesces(agent, kind, r) \/ MayBeCorrection(r)
  /\ Adopt(r)
  /\ Enqueue(w, "deferred", agent, kind)
  /\ UNCHANGED <<run, merging, decided, lost>>

\* No run has the issue, but one of the agent still settles for the mission.
\* The stale lock is cleared; the checkout is not.
AdmitBehindMission(w, agent, kind) ==
  /\ kind # "mention" /\ NoActiveExecutionRun
  /\ \E r \in Run : run[r].agent = agent /\ InFlight(r)
  /\ issue' = [issue EXCEPT !.executionRun = None]
  /\ Enqueue(w, "queued", agent, kind)
  /\ UNCHANGED <<run, merging, decided, lost>>

AdmitRun(w, agent, kind, r) ==
  /\ kind # "mention" /\ NoActiveExecutionRun /\ IsNext(r)
  /\ ~\E q \in Run : run[q].agent = agent /\ InFlight(q)
  /\ issue' = StartLinkedIssue([issue EXCEPT !.executionRun = None], r, FALSE)
  /\ run' = [run EXCEPT ![r] = Queued(agent, {w}, 0)]
  /\ wake' = [wake EXCEPT ![w] = Request("queued", agent, kind, r, w)]
  /\ UNCHANGED <<merging, decided, lost>>

(* A mention in a comment passes the lock by: it joins the newest queued   *)
(* run of the agent, or starts a run that does not own the issue.          *)
AdmitMention(w, agent) ==
  LET queued == {q \in Run : run[q].agent = agent /\ run[q].status = "queued"}
  IN /\ \/ \E r \in Run : IsLast(r, queued) /\ MergeInto(w, agent, "mention", r)
        \/ \E r \in Run :
             /\ queued = {} /\ IsNext(r)
             /\ run' = [run EXCEPT ![r] = Queued(agent, {w}, 0)]
             /\ wake' = [wake EXCEPT ![w] = Request("queued", agent, "mention", r, w)]
             /\ UNCHANGED merging
     /\ UNCHANGED <<issue, decided, lost>>

\* enqueueWakeup, for the next request.
Admit(w, agent, kind) ==
  /\ IsNextWake(w) /\ IssueUnlocked
  /\ kind \in IF agent = Assignee THEN Kinds ELSE PeerKinds
  /\ \/ kind = "mention" /\ AdmitMention(w, agent)
     \/ AdmitBehindMission(w, agent, kind)
     \/ \E r \in Run :
          \/ kind = "rework" /\ AdmitRework(w, agent, r)
          \/ AdmitCoalesced(w, agent, kind, r)
          \/ AdmitDeferred(w, agent, kind, r)
          \/ AdmitRun(w, agent, kind, r)

\* The second statement of a merge writes the context whatever has become of
\* the run.
FinishMerge ==
  /\ merging.wake # None
  /\ run' = [run EXCEPT ![merging.run].context = @ \cup {merging.wake}]
  /\ wake' = [wake EXCEPT ![merging.wake].overtaken = run[merging.run].status # "queued"]
  /\ merging' = NoMerge
  /\ UNCHANGED <<issue, decided, lost>>

-----------------------------------------------------------------------------
(* The life of a run.                                                      *)

\* startNextQueuedRunForAgent: the oldest queued run of the agent, if a slot
\* is free.  The execution reads the context of its run once.
Claim(r) ==
  /\ IsFirst(r, {q \in Run : run[q].status = "queued" /\ run[q].agent = run[r].agent})
  /\ FreeSlot(run[r].agent)
  /\ run' = [run EXCEPT ![r].status = "running", ![r].read = run[r].context]
  /\ UNCHANGED <<issue, wake, merging, decided, lost>>

Finish(r) ==
  /\ run[r].status = "running"
  /\ \E s \in {"succeeded", "failed"} : run' = [run EXCEPT ![r].status = s]
  /\ UNCHANGED <<issue, wake, merging, decided, lost>>

\* A refused claim, an operator, a budget stop.
Cancel(r) ==
  /\ Live(r)
  /\ run' = [run EXCEPT ![r].status = "cancelled"]
  /\ UNCHANGED <<issue, wake, merging, decided, lost>>

\* enqueueProcessLossRetry: the retry takes the lock over if its parent still
\* has it, never the checkout.  The parent is not released any more.
Retry(r, q) ==
  /\ run[r].status = "failed" /\ ~run[r].released /\ run[r].losses = 0
  /\ decided[r] = "nothing"
  /\ issue.executionRun = r => IssueUnlocked
  /\ Cardinality({p \in Run : run[p].losses = 1}) < MaxRetries
  /\ IsNext(q)
  /\ run' = [run EXCEPT ![r].released = TRUE,
                        ![q] = Queued(run[r].agent, run[r].context, 1)]
  /\ issue' = IF issue.executionRun = r THEN [issue EXCEPT !.executionRun = q] ELSE issue
  /\ UNCHANGED <<wake, merging, decided, lost>>

-----------------------------------------------------------------------------
(* releaseIssueExecutionAndPromote, for a run that has ended: first what it *)
(* decides on the issue i that it reads, then what it writes.              *)

\* Mistake: a run of the assignee counts as the owner.
OwnsMutant(r, i) == run[r].agent = Assignee

Owns(r, i) == r \in Locks(i)

\* A run that did not succeed leaves the lock of another run alone.
Leaves(r, i) == run[r].status # "succeeded" /\ ~Owns(r, i) /\ Locks(i) # {}

\* The failure of the assignee's run blocks the issue (that of an oversight
\* issue makes it "todo" again).
Blocks(r, i) ==
  /\ run[r].status # "succeeded" /\ Owns(r, i)
  /\ i.status = "in_progress" /\ run[r].agent = Assignee

\* What the success of the assignee's run makes of the issue: it is completed,
\* blocked, handed back, or kept for want of evidence; a "todo" only by the
\* newest run, a "done" by the gates alone, a "blocked" by the capture of its
\* output.
Completions(r, i) ==
  IF run[r].status # "succeeded" \/ run[r].agent # Assignee THEN {}
  ELSE CASE i.status = "in_progress" -> {"done", "blocked", "todo", "keep"}
         [] i.status = "todo" ->
              IF IsLast(r, {q \in Run : run[q].status # "absent"})
              THEN {"done", "blocked", "todo", "keep"} ELSE {}
         [] i.status = "done" -> {"blocked"}
         [] i.status = "blocked" -> {"done", "keep"}

\* All the others clear the lock, and so do successes that no gate concerns or
\* that a later attempt of their step has made stale.
Decisions(r, i) ==
  IF Blocks(r, i) THEN {"blocked", "todo"} ELSE Completions(r, i) \cup {"clear"}

Unlocked(i, status) == [status |-> status, executionRun |-> None, checkoutRun |-> None]

\* Mistake: the promoted request does not name its run.
PromoteDeferredWakeupMutant(w, q, i) ==
  /\ IsNext(q)
  /\ issue' = [i EXCEPT !.executionRun = q]
  /\ wake' = [wake EXCEPT ![w].status = "queued"]

\* promoteDeferredWakeupRequest: the run takes the lock, not the checkout, and
\* the status of the issue stays.
PromoteDeferredWakeup(w, q, i) ==
  /\ IsNext(q)
  /\ issue' = [i EXCEPT !.executionRun = q]
  /\ wake' = [wake EXCEPT ![w].status = "queued", ![w].run = q]

OldestDeferred(w) == IsFirst(w, {v \in Wake : Waiting(v) /\ wake[v].status = "deferred"})

\* A decision about the status clears the lock and promotes nothing.
ReleaseCompletes(r, decision, owed) ==
  /\ issue' = Unlocked(issue, IF decision = "keep" THEN issue.status ELSE decision)
  /\ run' = [run EXCEPT ![r].released = @ \/ owed]
  /\ UNCHANGED wake

\* The lock is cleared, whoever has it by now, and the oldest deferred request
\* is promoted; a bounded one is left to the claim pass of its agent.
ReleasePromotes(r, owed) ==
  \/ \E w \in Wake, q \in Run :
       /\ OldestDeferred(w) /\ Unbounded(wake[w].kind)
       /\ PromoteDeferredWakeup(w, q, Unlocked(issue, issue.status))
       /\ run' = [run EXCEPT ![r].released = @ \/ owed,
                             ![q] = Queued(wake[w].agent, wake[w].context, 0)]
  \/ /\ ~\E w \in Wake : OldestDeferred(w) /\ Unbounded(wake[w].kind)
     /\ issue' = Unlocked(issue, issue.status)
     /\ run' = [run EXCEPT ![r].released = @ \/ owed]
     /\ UNCHANGED wake

ReleaseIssueExecution(r, decision, owed) ==
  IF decision = "clear" THEN ReleasePromotes(r, owed) ELSE ReleaseCompletes(r, decision, owed)

\* The run has a lock: the row of the issue is held from the read to the write.
Release(r) ==
  /\ run[r].status \in Ended /\ ~run[r].released /\ decided[r] = "nothing"
  /\ Owns(r, issue) /\ IssueUnlocked
  /\ \E d \in Decisions(r, issue) : ReleaseIssueExecution(r, d, TRUE)
  /\ UNCHANGED <<merging, decided, lost>>

\* It has none: the issue is read without its row, as it was committed.
ReleaseReads(r) ==
  LET i == IF IssueUnlocked THEN issue ELSE [issue EXCEPT !.executionRun = merging.before]
  IN /\ run[r].status \in Ended /\ ~run[r].released /\ decided[r] = "nothing"
     /\ ~Owns(r, i)
     /\ IF Leaves(r, i)
        THEN run' = [run EXCEPT ![r].released = TRUE] /\ UNCHANGED decided
        ELSE /\ \E d \in Decisions(r, i) : decided' = [decided EXCEPT ![r] = d]
             /\ UNCHANGED run
     /\ UNCHANGED <<issue, wake, merging, lost>>

\* And it is written whatever has become of it.
ReleaseWrites(r) ==
  /\ decided[r] # "nothing" /\ IssueUnlocked
  /\ ReleaseIssueExecution(r, decided[r], TRUE)
  /\ decided' = [decided EXCEPT ![r] = "nothing"]
  /\ UNCHANGED <<merging, lost>>

\* The release of a failed run may fail: the reaper and the shutdown flush log
\* it and leave the lock to reapStalledIssueExecutionLocks.
LoseRelease(r) ==
  /\ run[r].status = "failed" /\ ~run[r].released /\ Cardinality(lost) < MaxLost
  /\ run' = [run EXCEPT ![r].released = TRUE]
  /\ lost' = lost \cup {r}
  /\ decided' = [decided EXCEPT ![r] = "nothing"]
  /\ UNCHANGED <<issue, wake, merging>>

\* reapStalledIssueExecutionLocks: the lock of an issue in progress whose runs
\* all failed, with nobody at work, is released for its holder.
Stalled(r) ==
  /\ issue.status = "in_progress" /\ Owns(r, issue)
  /\ issue.executionRun # None => r = issue.executionRun
  /\ \A q \in LockRuns : run[q].status \in {"failed", "cancelled"}
  /\ NoActiveExecutionRun
  /\ run[r].agent = Assignee

ReapStalledLock(r) ==
  /\ IssueUnlocked /\ Stalled(r)
  /\ \E d \in Decisions(r, issue) : ReleaseIssueExecution(r, d, FALSE)
  /\ UNCHANGED <<merging, decided, lost>>

-----------------------------------------------------------------------------
(* The queue sweep, in the claim pass of an agent with a free slot.        *)

\* Mistake: a status that nothing reads.
FailWakeupMutant(w) ==
  /\ wake' = [wake EXCEPT ![w].status = "skipped"]
  /\ UNCHANGED <<issue, run>>

FailWakeup(w) ==
  /\ wake' = [wake EXCEPT ![w].status = "failed"]
  /\ UNCHANGED <<issue, run>>

\* promoteQueuedWakeupRequest
PromoteQueued(w) ==
  /\ Waiting(w) /\ wake[w].status = "queued" /\ FreeSlot(wake[w].agent) /\ IssueUnlocked
  /\ \/ /\ issue.status = "done" /\ wake[w].kind # "rework"
        /\ FailWakeup(w)
     \/ /\ issue.status # "done" \/ wake[w].kind = "rework"
        /\ \A r \in Run : ~InFlight(r)
        /\ \E q \in Run :
             /\ IsNext(q)
             /\ issue' = StartLinkedIssue(issue, q, wake[w].kind = "rework")
             /\ run' = [run EXCEPT ![q] = Queued(wake[w].agent, wake[w].context, 0)]
             /\ wake' = [wake EXCEPT ![w].run = q]
  /\ UNCHANGED <<merging, decided, lost>>

\* Mistake: a request of a completed issue is passed over.
PromoteStoredDeferredMutant(w) ==
  /\ Waiting(w) /\ wake[w].status = "deferred" /\ FreeSlot(wake[w].agent) /\ IssueUnlocked
  /\ LockRuns = {} /\ issue.status # "done"
  /\ \E q \in Run :
       /\ PromoteDeferredWakeup(w, q, issue)
       /\ run' = [run EXCEPT ![q] = Queued(wake[w].agent, wake[w].context, 0)]
  /\ UNCHANGED <<merging, decided, lost>>

\* promoteStoredDeferredWakes: a request that no release promoted.
PromoteStoredDeferred(w) ==
  /\ Waiting(w) /\ wake[w].status = "deferred" /\ FreeSlot(wake[w].agent) /\ IssueUnlocked
  /\ LockRuns = {}
  /\ \/ issue.status = "done" /\ FailWakeup(w)
     \/ /\ issue.status # "done"
        /\ \E q \in Run :
             /\ PromoteDeferredWakeup(w, q, issue)
             /\ run' = [run EXCEPT ![q] = Queued(wake[w].agent, wake[w].context, 0)]
  /\ UNCHANGED <<merging, decided, lost>>

-----------------------------------------------------------------------------
Next ==
  \/ \E w \in Wake, a \in Agent, k \in Kinds : Admit(w, a, k)
  \/ FinishMerge
  \/ \E r \in Run :
       \/ Claim(r) \/ Finish(r) \/ Cancel(r) \/ LoseRelease(r) \/ ReapStalledLock(r)
       \/ Release(r) \/ ReleaseReads(r) \/ ReleaseWrites(r)
       \/ \E q \in Run : Retry(r, q)
  \/ \E w \in Wake : PromoteQueued(w) \/ PromoteStoredDeferred(w)

Spec == Init /\ [][Next]_vars

\* The queue sweep and the reaper run for ever, what a run owes is redone until
\* it is done, and the timeouts of the adapters end every execution.
Fairness ==
  /\ WF_vars(FinishMerge)
  /\ \A r \in Run :
       /\ WF_vars(Claim(r)) /\ WF_vars(Finish(r))
       /\ WF_vars(Release(r) \/ ReleaseReads(r) \/ \E q \in Run : Retry(r, q))
       /\ WF_vars(ReleaseWrites(r))
       /\ WF_vars(ReapStalledLock(r))
  /\ \A w \in Wake : WF_vars(PromoteQueued(w)) /\ WF_vars(PromoteStoredDeferred(w))

FairSpec == Spec /\ Fairness

-----------------------------------------------------------------------------
(* Properties.                                                             *)

\* A wake that some run must read: everything but the notifications that may
\* join a run already at work.
MustBeRead(w) == wake[w].kind \in {"comment", "mention", "bounded", "rework"}

\* No comment, mention, bounded request or rework is lost: it waits, or was
\* refused with its request, or a run, of whichever agent, carries it that has
\* read it or never started; unless a claim overtook its merge into a queued run
\* (heartbeat.ts:7432-7447, 7662-7697).
WakeIsNotLost ==
  \A w \in Wake :
    /\ wake[w].status # "absent" /\ MustBeRead(w)
    /\ merging.wake # w /\ ~wake[w].overtaken
    => \/ \E v \in Wake : /\ w \in wake[v].context
                          /\ Waiting(v) \/ wake[v].status = "failed"
       \/ \E r \in Run : /\ w \in run[r].context
                         /\ \/ run[r].status = "queued"
                            \/ run[r].status = "cancelled" /\ run[r].read = {}
                            \/ w \in run[r].read

\* A lock that neither a run, nor a release, nor the reaper will ever clear.
DeadLock ==
  /\ LockRuns # {} /\ \A r \in LockRuns : ~InFlight(r)
  /\ ~\E r \in LockRuns : Stalled(r)

\* A request that waits is promoted or refused in the end, unless it waits for
\* a lock that is dead (heartbeat.ts:6390-6440, heartbeat-followup-queue.ts:67-101,
\* heartbeat-stored-recovery-admission.ts:39-115).
WaitingIsAnswered ==
  \A w \in Wake :
    Waiting(w) ~> (~Waiting(w) \/ (wake[w].status = "deferred" /\ DeadLock))

\* Retries aside, a wake is carried by one run: what a release promotes the
\* queue sweep does not promote again (heartbeat-followup-promotion.ts:120-220).
WakeRunsOnce ==
  \A w \in Wake :
    Cardinality({r \in Run : w \in run[r].context /\ run[r].losses = 0}) <= 1

\* The lock of a live run is given up when that run ends, and else only by the
\* release of a run that has the checkout, or by one that had neither lock and
\* read that it may write (heartbeat.ts:6247-6256).
LiveOwnerKeepsIssue ==
  [][\A r \in Run :
       Live(r) /\ issue.executionRun = r /\ issue'.executionRun # r
         => \/ run'[r].status \in Ended
            \/ \E q \in Run : /\ issue.checkoutRun = q \/ decided[q] # "nothing"
                              /\ ~run[q].released /\ run'[q].released]_vars

\* A run that failed and has neither lock does not clear the lock of a new
\* owner (heartbeat.ts:6243-6246).
NewOwnerKeepsIssue ==
  [][\A r \in Run :
       Live(r) /\ issue.executionRun = r /\ issue'.executionRun # r
         => \/ run'[r].status \in Ended
            \/ \E q \in Run : /\ issue.checkoutRun = q \/ run[q].status = "succeeded"
                              /\ ~run[q].released /\ run'[q].released]_vars

\* A wake joins a run of its own agent (heartbeat.ts:7375-7377, 7420-7424).
JoinsItsAgent ==
  \A w \in Wake : wake[w].status = "coalesced" => run[wake[w].run].agent = wake[w].agent
=============================================================================
