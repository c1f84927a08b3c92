--------------------- MODULE WorkflowChildRuns_proofs ----------------------
(***************************************************************************)
(* Proofs about WorkflowChildRuns for any number of steps, callers and     *)
(* failures, together or apart: the rows stay well typed, one caller at    *)
(* most may write the start of a child, a child ends once, and a settled   *)
(* step says what its child did.                                           *)
(***************************************************************************)
EXTENDS WorkflowChildRuns, FiniteSetTheorems, TLAPS

\* A caller that is at work on a step has one.
StepsAtHand == \A c \in Caller : job[c].at \notin {"idle", "clean", "pass"} => job[c].step \in Step

\* Who prepares a child does so with the token that it was given.
OwnTokens == \A c \in Caller : job[c].at = "prepare" => job[c].token = c

JobInv == job \in [Caller -> Job] /\ StepsAtHand /\ OwnTokens

\* Only a child that has started completes.
CompletedHasStarted == \A s \in Step : child[s].status = "completed" => child[s].receipt

RowInv ==
  /\ parent \in [Run -> {"running"} \cup Ended]
  /\ step \in [Step -> {"pending", "completed", "failed", "refused", "skipped"}]
  /\ link \in [Step -> {"none", "linked", "deleted"}]
  /\ child \in [Step -> Child]
  /\ \A s \in Step : link[s] = "linked" <=> child[s].status # "none"
  /\ \A s \in Step : (child[s].token = Nobody) <=> (child[s].lease = "none")
  /\ CompletedHasStarted /\ StepFollowsChild

\* The inductive invariant.
IInv == JobInv /\ RowInv /\ errors \in 0..MaxErrors

-----------------------------------------------------------------------------
(* What the callers do.                                                    *)

LEMMA GoKeeps ==
  ASSUME JobInv, NEW c \in Caller, NEW at \in At \ {"prepare"}, Go(c, at),
         at \in {"idle", "clean", "pass"} \/ job[c].step \in Step
  PROVE  JobInv'
BY DEF JobInv, Job, Go, StepsAtHand, OwnTokens

LEMMA BeginKeeps ==
  ASSUME JobInv, NEW c \in Caller, NEW s \in Step, NEW at \in At \ {"prepare"}, Begin(c, s, at)
  PROVE  JobInv'
<1> DEFINE row == [job[c] EXCEPT !.at = at, !.step = s]
<1>1. job' = [job EXCEPT ![c] = row] BY DEF Begin, JobInv
<1>2. row \in Job /\ row.at = at /\ row.step = s BY DEF JobInv, Job
<1> HIDE DEF row
<1> QED BY <1>1, <1>2 DEF JobInv, StepsAtHand, OwnTokens

LEMMA DoneKeeps ==
  ASSUME JobInv, NEW c \in Caller, Done(c)
  PROVE  JobInv'
<1> DEFINE row == [job[c] EXCEPT !.at = Rest(c), !.step = None, !.token = Nobody]
<1>1. job' = [job EXCEPT ![c] = row] BY DEF Done, JobInv
<1>2. Rest(c) \in {"idle", "pass"} BY DEF Rest
<1>3. row \in Job /\ row.at = Rest(c) BY <1>2 DEF JobInv, Job, At
<1> HIDE DEF row
<1> QED BY <1>1, <1>2, <1>3 DEF JobInv, StepsAtHand, OwnTokens

LEMMA UnchangedKeeps ==
  ASSUME JobInv, UNCHANGED job
  PROVE  JobInv'
BY DEF JobInv, StepsAtHand, OwnTokens

-----------------------------------------------------------------------------
(* What becomes of the rows.                                               *)

\* A child that lives ends; its step waits, was skipped or refused.
LEMMA EndKeeps ==
  ASSUME RowInv, NEW s \in Step, NEW status \in Ended, Alive(s), End(s, status),
         status = "completed" => child[s].receipt, UNCHANGED <<parent, step, link>>
  PROVE  RowInv'
<1>1. link[s] = "linked" /\ step[s] \notin {"completed", "failed"}
  BY DEF RowInv, Alive, StepFollowsChild, Linked
<1>2. child' \in [Step -> Child]
  <2> DEFINE row == [child[s] EXCEPT !.status = status, !.token = Nobody, !.lease = "none",
                                     !.hold = "none"]
  <2>1. child' = [child EXCEPT ![s] = row] BY DEF End, RowInv
  <2>2. child[s] \in Child BY DEF RowInv
  <2>3. row \in Child BY <2>2 DEF Child
  <2> HIDE DEF row
  <2> QED BY <2>1, <2>3 DEF RowInv
<1>3. \A q \in Step : /\ link'[q] = "linked" <=> child'[q].status # "none"
                      /\ (child'[q].token = Nobody) <=> (child'[q].lease = "none")
                      /\ child'[q].status = "completed" => child'[q].receipt
  BY <1>1 DEF RowInv, End, Child, Ended, CompletedHasStarted
<1>4. StepFollowsChild' BY <1>1 DEF RowInv, End, Child, StepFollowsChild, Linked
<1> QED BY <1>2, <1>3, <1>4 DEF RowInv, CompletedHasStarted

\* A step that waits takes a status that fits its child.
LEMMA SettleKeeps ==
  ASSUME RowInv, NEW s \in Step, NEW status \in {"completed", "failed", "refused", "skipped"},
         step' = [step EXCEPT ![s] = status],
         Linked(s) => /\ status = "completed" => child[s].status = "completed" /\ child[s].receipt
                      /\ status = "failed" => child[s].status \in {"failed", "cancelled"},
         UNCHANGED <<parent, link, child>>
  PROVE  RowInv'
BY DEF RowInv, CompletedHasStarted, StepFollowsChild, Linked

\* Nothing else depends on the status of a parent.
LEMMA ParentKeeps ==
  ASSUME RowInv, NEW p \in Run, NEW status \in Ended, parent' = [parent EXCEPT ![p] = status],
         UNCHANGED <<step, link, child>>
  PROVE  RowInv'
BY DEF RowInv, CompletedHasStarted, StepFollowsChild, Linked

LEMMA SameKeeps ==
  ASSUME RowInv, UNCHANGED <<parent, step, link, child>>
  PROVE  RowInv'
BY DEF RowInv, CompletedHasStarted, StepFollowsChild, Linked

\* The times of a child and its receipt, while its status stays.
LEMMA ClockKeeps ==
  ASSUME RowInv, NEW s \in Step, NEW row \in Child, child' = [child EXCEPT ![s] = row],
         row.status = child[s].status, child[s].receipt => row.receipt,
         (row.token = Nobody) <=> (row.lease = "none"), UNCHANGED <<parent, step, link>>
  PROVE  RowInv'
BY DEF RowInv, Child, CompletedHasStarted, StepFollowsChild, Linked

-----------------------------------------------------------------------------
LEMMA InitInv == Init => IInv
<1> SUFFICES ASSUME Init PROVE IInv OBVIOUS
<1>1. NoChild \in Child BY DEF NoChild, Child
<1>2. Idle \in Job BY DEF Idle, Job, At
<1>3. RowInv BY <1>1 DEF Init, RowInv, NoChild, CompletedHasStarted, StepFollowsChild, Linked
<1>4. JobInv BY <1>2 DEF Init, JobInv, Idle, StepsAtHand, OwnTokens
<1> QED BY <1>3, <1>4, ConstantsAssumption DEF Init, IInv

-----------------------------------------------------------------------------
(* What a caller does with the step that it is at.                         *)

LEMMA ClaimInv ==
  ASSUME IInv, NEW c \in Caller, Claim(c)
  PROVE  IInv'
<1> DEFINE s == job[c].step
<1>1. s \in Step BY DEF IInv, JobInv, StepsAtHand, Claim, On
<1>2. JobInv' BY <1>1, GoKeeps DEF Claim, IInv, At
<1>3. RowInv'
  <2>1. link[s] = "none" /\ step[s] = "pending" /\ child[s].status = "none"
    BY <1>1 DEF Claim, IInv, RowInv
  <2>2. link' = [link EXCEPT ![s] = "linked"] /\ UNCHANGED <<parent, step>> BY DEF Claim
  <2> DEFINE row == [child[s] EXCEPT !.status = "pending"]
  <2>3. child' = [child EXCEPT ![s] = row] BY <1>1 DEF Claim, IInv, RowInv
  <2>4. row \in Child /\ row.status = "pending" /\ row.token = child[s].token
        /\ row.lease = child[s].lease
    BY <1>1 DEF IInv, RowInv, Child
  <2> HIDE DEF row, s
  <2> QED BY <1>1, <2>1, <2>2, <2>3, <2>4
        DEF IInv, RowInv, CompletedHasStarted, StepFollowsChild, Linked
<1> QED BY <1>2, <1>3 DEF IInv, Claim

LEMMA LeaseInv ==
  ASSUME IInv, NEW c \in Caller, Lease(c)
  PROVE  IInv'
<1> DEFINE s == job[c].step
<1>1. s \in Step BY DEF IInv, JobInv, StepsAtHand, Lease, On
<1>2. JobInv'
  <2> DEFINE row == [job[c] EXCEPT !.at = "prepare", !.token = c]
  <2>1. job' = [job EXCEPT ![c] = row] BY DEF Lease, IInv, JobInv
  <2>2. row \in Job /\ row.token = c /\ row.step = s /\ row.at = "prepare"
    BY DEF IInv, JobInv, Job, At
  <2> HIDE DEF row, s
  <2> QED BY <1>1, <2>1, <2>2 DEF IInv, JobInv, StepsAtHand, OwnTokens
<1>3. RowInv'
  <2>1. link[s] = "linked" /\ step[s] = "pending"
    <3>1. Automatic(s) BY DEF Lease
    <3> HIDE DEF s
    <3> QED BY <3>1 DEF Automatic, Linked
  <2> DEFINE row == [child[s] EXCEPT !.status = "running", !.token = c, !.lease = "live",
                                     !.deadline = "future"]
  <2>2. child' = [child EXCEPT ![s] = row] /\ UNCHANGED <<parent, step, link>>
    BY <1>1 DEF Lease, IInv, RowInv
  <2>3. row \in Child /\ row.status = "running" /\ row.token = c /\ row.lease = "live"
    <3>1. child[s] \in Child BY <1>1 DEF IInv, RowInv
    <3> HIDE DEF s
    <3> QED BY <3>1 DEF Child
  <2>4. c # Nobody BY ConstantsAssumption DEF Caller
  <2> HIDE DEF row, s
  <2> QED BY <1>1, <2>1, <2>2, <2>3, <2>4
        DEF IInv, RowInv, CompletedHasStarted, StepFollowsChild, Linked
<1> QED BY <1>2, <1>3 DEF IInv, Lease

LEMMA MaterializeInv ==
  ASSUME IInv, NEW c \in Caller, Materialize(c)
  PROVE  IInv'
<1> DEFINE s == job[c].step
<1>1. s \in Step BY DEF IInv, JobInv, StepsAtHand, Materialize, On
<1>2. JobInv' BY DoneKeeps DEF Materialize, IInv
<1>3. CASE Owner(s, job[c].token)
  <2> DEFINE row == [child[s] EXCEPT !.receipt = TRUE, !.token = Nobody, !.lease = "none"]
  <2>1. child' = [child EXCEPT ![s] = row] /\ UNCHANGED <<parent, step, link>>
    BY <1>1, <1>3 DEF Materialize, IInv, RowInv
  <2>2. row \in Child /\ row.status = child[s].status /\ row.receipt
        /\ row.token = Nobody /\ row.lease = "none"
    <3>1. child[s] \in Child BY <1>1 DEF IInv, RowInv
    <3> HIDE DEF s
    <3> QED BY <3>1 DEF Child
  <2> HIDE DEF row, s
  <2>3. RowInv' BY <1>1, <2>1, <2>2, ClockKeeps DEF IInv
  <2> QED BY <1>2, <2>3 DEF IInv, Materialize
<1>4. CASE ~Owner(s, job[c].token)
  <2>1. RowInv' BY <1>4, SameKeeps DEF Materialize, IInv
  <2> QED BY <1>2, <2>1 DEF IInv, Materialize
<1> QED BY <1>3, <1>4

\* The four actions that end a child, or find that they cannot.
LEMMA EndingInv ==
  ASSUME IInv, NEW c \in Caller,
         FailStart(c) \/ Expire(c) \/ EndChild(c) \/ CancelChild(c)
  PROVE  IInv'
<1> DEFINE s == job[c].step
<1>1. s \in Step
  BY DEF IInv, JobInv, StepsAtHand, FailStart, Expire, EndChild, CancelChild, On
<1>2. Go(c, "hook") \/ Done(c) BY DEF FailStart, Expire, EndChild, CancelChild
<1>3. JobInv'
  <2>1. CASE Go(c, "hook") BY <1>1, <2>1, GoKeeps DEF IInv, At
  <2>2. CASE Done(c) BY <2>2, DoneKeeps DEF IInv
  <2> QED BY <1>2, <2>1, <2>2
<1>4. UNCHANGED <<parent, step, link>> /\ UNCHANGED errors
  BY DEF FailStart, Expire, EndChild, CancelChild
<1>5. \/ UNCHANGED child
      \/ \E status \in Ended : /\ Alive(s) /\ End(s, status)
                               /\ status = "completed" => child[s].receipt
  <2>1. CASE FailStart(c) BY <2>1 DEF FailStart, Owner, Alive, Ended
  <2>2. CASE Expire(c) BY <2>2 DEF Expire, Expired, EndExpired, Ended
  <2>3. CASE EndChild(c) BY <2>3 DEF EndChild, Ended
  <2>4. CASE CancelChild(c) BY <2>4 DEF CancelChild, Ended
  <2> QED BY <2>1, <2>2, <2>3, <2>4
<1> HIDE DEF s
<1>6. RowInv'
  <2>1. CASE UNCHANGED child BY <1>4, <2>1, SameKeeps DEF IInv
  <2>2. ASSUME NEW status \in Ended, Alive(s), End(s, status),
               status = "completed" => child[s].receipt
        PROVE  RowInv'
    BY <1>1, <1>4, <2>2, EndKeeps DEF IInv
  <2> QED BY <1>5, <2>1, <2>2
<1> QED BY <1>3, <1>4, <1>6 DEF IInv

\* The three actions that settle a step, or find that they cannot.
LEMMA SettlingInv ==
  ASSUME IInv, NEW c \in Caller, RefuseWrites(c) \/ Hook(c) \/ SettleDeleted(c)
  PROVE  IInv'
<1> DEFINE s == job[c].step
<1>1. s \in Step BY DEF IInv, JobInv, StepsAtHand, RefuseWrites, Hook, SettleDeleted, On
<1>2. JobInv' BY DoneKeeps DEF IInv, RefuseWrites, Hook, SettleDeleted
<1>3. UNCHANGED <<parent, link, child>> /\ UNCHANGED errors
  BY DEF RefuseWrites, Hook, SettleDeleted
<1>4. \/ UNCHANGED step
      \/ \E status \in {"completed", "failed", "refused", "skipped"} :
           /\ step' = [step EXCEPT ![s] = status]
           /\ Linked(s) => /\ status = "completed" => child[s].status = "completed"
                                                      /\ child[s].receipt
                           /\ status = "failed" => child[s].status \in {"failed", "cancelled"}
  <2>1. CASE RefuseWrites(c) BY <2>1 DEF RefuseWrites
  <2>2. CASE SettleDeleted(c) BY <2>2 DEF SettleDeleted, Linked
  <2>3. CASE Hook(c)
    <3>1. CASE Linked(s) /\ Settleable(s) /\ ~Alive(s)
      <4>1. child[s].status \in {"completed", "failed", "cancelled"}
            /\ (child[s].status = "completed" => child[s].receipt)
        BY <1>1, <3>1 DEF IInv, RowInv, Child, Ended, Alive, Linked, CompletedHasStarted
      <4> QED BY <2>3, <3>1, <4>1 DEF Hook
    <3>2. CASE ~(Linked(s) /\ Settleable(s) /\ ~Alive(s)) BY <2>3, <3>2 DEF Hook
    <3> QED BY <3>1, <3>2
  <2> QED BY <2>1, <2>2, <2>3
<1> HIDE DEF s
<1>5. RowInv'
  <2>1. CASE UNCHANGED step BY <1>3, <2>1, SameKeeps DEF IInv
  <2>2. CASE ~UNCHANGED step BY <1>1, <1>3, <1>4, <2>2, SettleKeeps DEF IInv
  <2> QED BY <2>1, <2>2
<1> QED BY <1>2, <1>3, <1>5 DEF IInv

LEMMA CleanWriteInv ==
  ASSUME IInv, NEW c \in Caller, CleanWrite(c)
  PROVE  IInv'
<1>1. Idle \in Job /\ Idle.at = "idle" BY DEF Idle, Job, At
<1>2. JobInv' BY <1>1 DEF CleanWrite, IInv, JobInv, StepsAtHand, OwnTokens
<1>3. RowInv' BY DEF CleanWrite, IInv, RowInv, CompletedHasStarted, StepFollowsChild, Linked
<1> QED BY <1>2, <1>3 DEF IInv, CleanWrite

\* The actions that only move the caller.
LEMMA MovingInv ==
  ASSUME IInv, NEW c \in Caller,
         ClaimRefused(c) \/ RefuseLooks(c) \/ LeaseRefused(c) \/ CancelNext(c) \/ CleanRead(c)
  PROVE  IInv'
<1>1. UNCHANGED <<parent, step, link, child>> /\ UNCHANGED errors
  BY DEF ClaimRefused, RefuseLooks, LeaseRefused, CancelNext, CleanRead
<1>2. RowInv' BY <1>1, SameKeeps DEF IInv
<1>3. CASE ClaimRefused(c) \/ RefuseLooks(c) \/ LeaseRefused(c)
  <2>1. job[c].step \in Step
    BY <1>3 DEF IInv, JobInv, StepsAtHand, ClaimRefused, RefuseLooks, LeaseRefused, On
  <2>2. Done(c) \/ \E at \in {"refuse", "refusing", "deleted", "expire"} : Go(c, at)
    BY <1>3 DEF ClaimRefused, RefuseLooks, LeaseRefused
  <2>3. CASE Done(c) BY <1>1, <1>2, <2>3, DoneKeeps DEF IInv
  <2>4. ASSUME NEW at \in {"refuse", "refusing", "deleted", "expire"}, Go(c, at) PROVE JobInv'
    BY <2>1, <2>4, GoKeeps DEF IInv, At
  <2> QED BY <1>1, <1>2, <2>2, <2>3, <2>4 DEF IInv
<1>4. CASE CancelNext(c)
  <2>1. PICK s \in job[c].todo :
          job' = [job EXCEPT ![c].at = "cancel", ![c].step = s, ![c].todo = @ \ {s}]
    BY <1>4 DEF CancelNext
  <2> DEFINE row == [job[c] EXCEPT !.at = "cancel", !.step = s, !.todo = @ \ {s}]
  <2>2. job' = [job EXCEPT ![c] = row] BY <2>1 DEF IInv, JobInv
  <2>3. row \in Job /\ row.at = "cancel" /\ row.step \in Step BY DEF IInv, JobInv, Job, At
  <2> HIDE DEF row
  <2>4. JobInv' BY <2>2, <2>3 DEF IInv, JobInv, StepsAtHand, OwnTokens
  <2> QED BY <1>1, <1>2, <2>4 DEF IInv
<1>5. CASE CleanRead(c)
  <2> DEFINE T == {s \in Of(job[c].run) : step[s] = "pending"}
             row == [job[c] EXCEPT !.at = "clean", !.todo = T]
  <2>1. job' = [job EXCEPT ![c] = row] BY <1>5 DEF CleanRead, IInv, JobInv
  <2>2. T \in SUBSET Step BY DEF Of
  <2>3. row \in Job /\ row.at = "clean"
    <3> HIDE DEF T
    <3> QED BY <2>2 DEF IInv, JobInv, Job, At
  <2> HIDE DEF row
  <2>4. JobInv' BY <2>1, <2>3 DEF IInv, JobInv, StepsAtHand, OwnTokens
  <2> QED BY <1>1, <1>2, <2>4 DEF IInv
<1> QED BY <1>3, <1>4, <1>5

LEMMA ProceedInv ==
  ASSUME IInv, NEW c \in Caller, Proceed(c)
  PROVE  IInv'
BY ClaimInv, LeaseInv, MaterializeInv, EndingInv, SettlingInv, CleanWriteInv, MovingInv DEF Proceed

-----------------------------------------------------------------------------
(* What begins: a dispatch, a finalization, a cancellation, a pass.        *)

LEMMA BeginningInv ==
  ASSUME IInv, NEW c \in Caller, NEW s \in Step,
         Dispatch(c, s) \/ Finalize(c, s) \/ DirectCancel(c, s)
  PROVE  IInv'
<1>1. CASE Dispatch(c, s) \/ Finalize(c, s)
  <2>1. PICK at \in {"claim", "refuse", "completed", "failed"} : Begin(c, s, at)
    BY <1>1 DEF Dispatch, Finalize
  <2>2. JobInv' BY <2>1, BeginKeeps DEF IInv, At
  <2>3. UNCHANGED <<parent, step, link, child>> /\ UNCHANGED errors
    BY <1>1 DEF Dispatch, Finalize
  <2> QED BY <2>2, <2>3, SameKeeps DEF IInv
<1>2. CASE DirectCancel(c, s)
  <2>1. JobInv' BY <1>2, BeginKeeps DEF DirectCancel, IInv, At
  <2>2. RowInv'
    <3>1. Alive(s) /\ End(s, "cancelled") /\ UNCHANGED <<parent, step, link>>
      BY <1>2 DEF DirectCancel
    <3> QED BY <3>1, EndKeeps DEF IInv, Ended
  <2> QED BY <1>2, <2>1, <2>2 DEF DirectCancel, IInv
<1> QED BY <1>1, <1>2

LEMMA CancelParentInv ==
  ASSUME IInv, NEW c \in Caller, NEW p \in Run, CancelParent(c, p)
  PROVE  IInv'
<1> DEFINE T == {s \in Of(p) : Alive(s)}
           row == [job[c] EXCEPT !.run = p, !.todo = T]
<1>1. job' = [job EXCEPT ![c] = row] BY DEF CancelParent, IInv, JobInv
<1>2. T \in SUBSET Step BY DEF Of
<1>3. row \in Job /\ row.at = "idle"
  <2> HIDE DEF T
  <2> QED BY <1>2 DEF CancelParent, Free, IInv, JobInv, Job
<1> HIDE DEF row
<1>4. JobInv' BY <1>1, <1>3 DEF IInv, JobInv, StepsAtHand, OwnTokens
<1>5. RowInv' BY ParentKeeps DEF CancelParent, IInv, Ended
<1> QED BY <1>4, <1>5 DEF CancelParent, IInv

LEMMA ParentEndsInv ==
  ASSUME IInv, NEW p \in Run, ParentEnds(p)
  PROVE  IInv'
<1>1. PICK status \in Ended : parent' = [parent EXCEPT ![p] = status]
  BY DEF ParentEnds, Ended
<1>2. RowInv' BY <1>1, ParentKeeps DEF ParentEnds, IInv
<1> QED BY <1>2, UnchangedKeeps DEF ParentEnds, IInv

-----------------------------------------------------------------------------
(* The passes of the reconciler.                                           *)

LEMMA ScanInv ==
  ASSUME IInv, NEW c \in Caller, Scan(c)
  PROVE  IInv'
<1> DEFINE T == {s \in Candidates : Cardinality({q \in Candidates : Precedes(q, s)}) < Limit}
           row == [job[c] EXCEPT !.at = "pass", !.todo = T]
<1>1. job' = [job EXCEPT ![c] = row] BY DEF Scan, IInv, JobInv
<1>2. T \in SUBSET Step BY DEF Candidates
<1>3. row \in Job /\ row.at = "pass"
  <2> HIDE DEF T
  <2> QED BY <1>2 DEF IInv, JobInv, Job, At
<1> HIDE DEF row
<1>4. JobInv' BY <1>1, <1>3 DEF IInv, JobInv, StepsAtHand, OwnTokens
<1>5. RowInv' BY SameKeeps DEF Scan, IInv
<1> QED BY <1>4, <1>5 DEF Scan, IInv

LEMMA RecoverInv ==
  ASSUME IInv, NEW c \in Caller, Recover(c)
  PROVE  IInv'
<1>1. PICK s \in job[c].todo :
        job' = [job EXCEPT ![c].todo = @ \ {s},
                           ![c].at = IF Kind(s) = "none" THEN "pass" ELSE Kind(s),
                           ![c].step = IF Kind(s) = "none" THEN None ELSE s]
  BY DEF Recover
<1>2. s \in Step /\ job[c].todo \ {s} \in SUBSET Step BY DEF IInv, JobInv, Job
<1>3. Kind(s) \in {"none", "cancel", "expire", "deleted", "hook", "lease"} BY DEF Kind
<1> DEFINE at == IF Kind(s) = "none" THEN "pass" ELSE Kind(s)
           of == IF Kind(s) = "none" THEN None ELSE s
           row == [job[c] EXCEPT !.todo = @ \ {s}, !.at = at, !.step = of]
<1>4. job' = [job EXCEPT ![c] = row] BY <1>1 DEF IInv, JobInv
<1>5. at \in At \ {"prepare"} /\ of \in Step \cup {None} /\ (at = "pass" \/ of \in Step)
  BY <1>2, <1>3 DEF At
<1> HIDE DEF at, of
<1>6. row \in Job /\ row.at = at /\ row.step = of BY <1>2, <1>5 DEF IInv, JobInv, Job
<1> HIDE DEF row
<1>7. JobInv' BY <1>4, <1>5, <1>6 DEF IInv, JobInv, StepsAtHand, OwnTokens
<1>8. RowInv' BY SameKeeps DEF Recover, IInv
<1> QED BY <1>7, <1>8 DEF Recover, IInv

LEMMA StuckStartInv ==
  ASSUME IInv, NEW c \in Caller, NEW s \in Step, StuckStart(c, s)
  PROVE  IInv'
<1>1. PICK status \in {"cancelled", "failed"} : End(s, status) BY DEF StuckStart, EndExpired
<1>2. Alive(s) BY DEF StuckStart, Expired
<1>3. status \in Ended /\ status # "completed" BY <1>1 DEF Ended
<1>4. RowInv' BY <1>1, <1>2, <1>3, EndKeeps DEF StuckStart, IInv
<1> QED BY <1>4, UnchangedKeeps DEF StuckStart, IInv

LEMMA PassEndsInv ==
  ASSUME IInv, NEW c \in Caller, PassEnds(c)
  PROVE  IInv'
<1>1. Idle \in Job /\ Idle.at = "idle" BY DEF Idle, Job, At
<1>2. JobInv' BY <1>1 DEF PassEnds, IInv, JobInv, StepsAtHand, OwnTokens
<1>3. RowInv' BY SameKeeps DEF PassEnds, IInv
<1> QED BY <1>2, <1>3 DEF PassEnds, IInv

-----------------------------------------------------------------------------
(* Time, errors and restarts.                                              *)

LEMMA TimeInv ==
  ASSUME IInv, NEW s \in Step, LeaseLapses(s) \/ DeadlinePasses(s) \/ StartIsOverdue(s)
  PROVE  IInv'
<1>1. child[s] \in Child /\ ((child[s].token = Nobody) <=> (child[s].lease = "none"))
  BY DEF IInv, RowInv
<1>2. UNCHANGED <<parent, step, link>> /\ UNCHANGED job /\ UNCHANGED errors
  BY DEF LeaseLapses, DeadlinePasses, StartIsOverdue
<1>3. PICK lease \in {child[s].lease, "lapsed"}, deadline \in {child[s].deadline, "elapsed", "overdue"} :
        /\ child' = [child EXCEPT ![s].deadline = deadline, ![s].lease = lease]
        /\ lease # child[s].lease => child[s].lease = "live"
  <2>1. CASE LeaseLapses(s)
    <3>1. child' = [child EXCEPT ![s].deadline = child[s].deadline, ![s].lease = "lapsed"]
      BY <2>1, <1>1 DEF LeaseLapses, IInv, RowInv, Child
    <3> QED BY <2>1, <3>1 DEF LeaseLapses
  <2>2. CASE DeadlinePasses(s)
    <3>1. child' = [child EXCEPT ![s].deadline = "elapsed",
                                 ![s].lease = IF child[s].lease = "live" THEN "lapsed"
                                              ELSE child[s].lease]
      BY <2>2, <1>1 DEF DeadlinePasses, IInv, RowInv, Child
    <3> QED BY <3>1
  <2>3. CASE StartIsOverdue(s)
    <3>1. child' = [child EXCEPT ![s].deadline = "overdue", ![s].lease = child[s].lease]
      BY <2>3, <1>1 DEF StartIsOverdue, IInv, RowInv, Child
    <3> QED BY <3>1
  <2> QED BY <2>1, <2>2, <2>3
<1> DEFINE row == [child[s] EXCEPT !.deadline = deadline, !.lease = lease]
<1>4. child' = [child EXCEPT ![s] = row] BY <1>3 DEF IInv, RowInv
<1>5. /\ row \in Child /\ row.status = child[s].status /\ row.receipt = child[s].receipt
      /\ row.token = child[s].token /\ row.lease = lease
  BY <1>1, <1>3 DEF Child
<1> HIDE DEF row
<1>6. (row.token = Nobody) <=> (row.lease = "none") BY <1>1, <1>3, <1>5
<1>7. RowInv' BY <1>2, <1>4, <1>5, <1>6, ClockKeeps DEF IInv
<1> QED BY <1>2, <1>7, UnchangedKeeps DEF IInv

LEMMA HoldInv ==
  ASSUME IInv, NEW s \in Step, HoldOpens(s) \/ HoldLifts(s)
  PROVE  IInv'
<1>1. PICK hold \in {"open", "lifted"} : child' = [child EXCEPT ![s].hold = hold]
  BY DEF HoldOpens, HoldLifts
<1> DEFINE row == [child[s] EXCEPT !.hold = hold]
<1>2. child' = [child EXCEPT ![s] = row] BY <1>1 DEF IInv, RowInv
<1>3. /\ row \in Child /\ row.status = child[s].status /\ row.receipt = child[s].receipt
      /\ row.token = child[s].token /\ row.lease = child[s].lease
  BY DEF IInv, RowInv, Child
<1> HIDE DEF row
<1>4. (row.token = Nobody) <=> (row.lease = "none") BY <1>3 DEF IInv, RowInv
<1>5. UNCHANGED <<parent, step, link>> /\ UNCHANGED job /\ UNCHANGED errors
  BY DEF HoldOpens, HoldLifts
<1>6. RowInv' BY <1>2, <1>3, <1>4, <1>5, ClockKeeps DEF IInv
<1> QED BY <1>5, <1>6, UnchangedKeeps DEF IInv

LEMMA FailureInv ==
  ASSUME IInv, (\E c \in Caller : GiveUp(c)) \/ Restart
  PROVE  IInv'
<1>1. errors' \in 0..MaxErrors BY ConstantsAssumption DEF IInv, GiveUp, Restart
<1>2. RowInv' BY SameKeeps DEF IInv, GiveUp, Restart
<1>3. CASE \E c \in Caller : GiveUp(c)
  <2>1. JobInv' BY <1>3, DoneKeeps DEF IInv, GiveUp
  <2> QED BY <1>1, <1>2, <2>1 DEF IInv
<1>4. CASE Restart
  <2>1. Idle \in Job /\ Idle.at = "idle" BY DEF Idle, Job, At
  <2>2. JobInv' BY <1>4, <2>1 DEF Restart, JobInv, StepsAtHand, OwnTokens
  <2> QED BY <1>1, <1>2, <2>2 DEF IInv
<1> QED BY <1>3, <1>4

LEMMA DeleteInv ==
  ASSUME IInv, NEW s \in Step, DeleteChild(s)
  PROVE  IInv'
<1>1. errors' \in 0..MaxErrors BY ConstantsAssumption DEF IInv, DeleteChild
<1>2. NoChild \in Child /\ NoChild.status = "none" /\ NoChild.token = Nobody /\ NoChild.lease = "none"
  BY DEF NoChild, Child
<1>3. RowInv' BY <1>2 DEF DeleteChild, IInv, RowInv, CompletedHasStarted, StepFollowsChild, Linked
<1> QED BY <1>1, <1>3, UnchangedKeeps DEF DeleteChild, IInv

-----------------------------------------------------------------------------
LEMMA NextInv ==
  ASSUME IInv, [Next]_vars
  PROVE  IInv'
<1>1. CASE UNCHANGED vars
  BY <1>1, SameKeeps, UnchangedKeeps DEF vars, IInv
<1>2. ASSUME NEW c \in Worker, NEW s \in Step,
             Proceed(c) \/ Dispatch(c, s) \/ Finalize(c, s) \/ DirectCancel(c, s)
      PROVE  IInv'
  BY <1>2, ProceedInv, BeginningInv DEF Caller
<1>3. ASSUME NEW c \in Worker, NEW p \in Run, CancelParent(c, p) PROVE IInv'
  BY <1>3, CancelParentInv DEF Caller
<1>4. CASE Reconcile
  BY <1>4, ScanInv, RecoverInv, ProceedInv, PassEndsInv, StuckStartInv DEF Reconcile, Caller
<1>5. CASE \E p \in Run : ParentEnds(p) BY <1>5, ParentEndsInv
<1>6. ASSUME NEW s \in Step,
             \/ LeaseLapses(s) \/ DeadlinePasses(s) \/ StartIsOverdue(s)
             \/ HoldOpens(s) \/ HoldLifts(s) \/ DeleteChild(s)
      PROVE  IInv'
  BY <1>6, TimeInv, HoldInv, DeleteInv
<1>7. CASE (\E c \in Caller : GiveUp(c)) \/ Restart BY <1>7, FailureInv
<1>8. ASSUME NEW c \in Worker, Proceed(c) PROVE IInv' BY <1>8, ProceedInv DEF Caller
<1> QED BY <1>1, <1>2, <1>3, <1>4, <1>5, <1>6, <1>7, <1>8 DEF Next

\* In every reachable state the rows and the callers are as IInv says, whoever
\* dispatches, cancels, recovers, fails or restarts, in whatever order.
THEOREM ChildInvariant == Spec => []IInv
<1>1. IInv /\ [Next]_vars => IInv' BY NextInv
<1> QED BY <1>1, InitInv, PTL DEF Spec

\* The callers and the rows keep their types; a child exists exactly while its
\* step is linked to it, and a token exactly while there is a lease.
THEOREM ChildTypeCorrect == Spec => []TypeOK
<1>1. IInv => TypeOK BY DEF IInv, JobInv, RowInv, TypeOK
<1> QED BY <1>1, ChildInvariant, PTL

\* A settled step says what its child did (workflow-child-settlement-writers.ts),
\* for any number of steps, workers and failures.
THEOREM StepsFollowTheirChildren == Spec => []StepFollowsChild
<1>1. IInv => StepFollowsChild BY DEF IInv, RowInv
<1> QED BY <1>1, ChildInvariant, PTL

\* At most one caller holds the right to write the start of a child
\* (workflow-child-start-predicates.ts:108), for any number of callers: the
\* token of the row is the name of the one that leased it last.
THEOREM OneOwnerHolds == Spec => []OneOwner
<1>1. ASSUME IInv PROVE OneOwner
  <2> SUFFICES ASSUME NEW s \in Step
               PROVE  Cardinality({c \in Caller : On(c, "prepare") /\ job[c].step = s
                                                  /\ Owner(s, job[c].token)}) <= 1
    BY DEF OneOwner
  <2> DEFINE Owners == {c \in Caller : On(c, "prepare") /\ job[c].step = s
                                       /\ Owner(s, job[c].token)}
  <2>1. Owners \subseteq {child[s].token}
    BY <1>1 DEF IInv, JobInv, OwnTokens, On, Owner
  <2> HIDE DEF Owners
  <2>2. IsFiniteSet({child[s].token}) /\ Cardinality({child[s].token}) = 1 BY FS_Singleton
  <2>3. Cardinality(Owners) <= Cardinality({child[s].token}) BY <2>1, <2>2, FS_Subset
  <2> QED BY <2>2, <2>3 DEF Owners
<1> QED BY <1>1, ChildInvariant, PTL

\* A child that has ended keeps its status and its receipt until it is deleted:
\* each of the writes that end, lease or start a child looks at the row again
\* under its lock (workflow-child-start-predicates.ts:116-130).
THEOREM EndsAreFinal == Spec => EndedChildStays
<1>1. ASSUME IInv, [Next]_vars
      PROVE  \A s \in Step : child[s].status \in Ended /\ child'[s] # NoChild =>
               child'[s].status = child[s].status /\ child'[s].receipt = child[s].receipt
  <2> DEFINE Stays(s) == child'[s].status = child[s].status
                         /\ child'[s].receipt = child[s].receipt
  <2> SUFFICES ASSUME NEW s \in Step, child[s].status \in Ended, child'[s] # NoChild
               PROVE  Stays(s)
    OBVIOUS
  <2>1. ~Alive(s) /\ link[s] = "linked" /\ child[s] \in Child /\ child \in [Step -> Child]
    BY <1>1 DEF IInv, RowInv, Alive, Ended
  <2>2. ASSUME NEW q \in Step, NEW status, Alive(q), End(q, status)
        PROVE  Stays(s)
    BY <2>1, <2>2 DEF End
  <2>3. ASSUME NEW c \in Caller, Proceed(c) PROVE Stays(s)
    <3> DEFINE q == job[c].step
    <3>1. CASE Claim(c)
      <4>1. link[q] = "none" /\ child' = [child EXCEPT ![q].status = "pending"]
        BY <3>1 DEF Claim
      <4> HIDE DEF q
      <4> QED BY <2>1, <4>1
    <3>2. CASE Lease(c)
      <4>1. Alive(q) /\ child' = [child EXCEPT ![q].status = "running", ![q].token = c,
                                               ![q].lease = "live", ![q].deadline = "future"]
        BY <3>2 DEF Lease
      <4> HIDE DEF q
      <4> QED BY <2>1, <4>1
    <3>3. CASE Materialize(c)
      <4>1. \/ UNCHANGED child
            \/ /\ child[q].status = "running"
               /\ child' = [child EXCEPT ![q].receipt = TRUE, ![q].token = Nobody,
                                         ![q].lease = "none"]
        BY <3>3 DEF Materialize, Owner
      <4> HIDE DEF q
      <4> QED BY <2>1, <4>1 DEF Alive
    <3>4. CASE FailStart(c) \/ Expire(c) \/ EndChild(c) \/ CancelChild(c)
      <4>1. UNCHANGED child \/ \E status : Alive(q) /\ End(q, status)
        BY <3>4 DEF FailStart, Expire, EndChild, CancelChild, Owner, Expired, EndExpired, Alive
      <4>2. q \in Step
        BY <1>1, <3>4 DEF IInv, JobInv, StepsAtHand, FailStart, Expire, EndChild, CancelChild, On
      <4> HIDE DEF q
      <4> QED BY <4>1, <4>2, <2>2
    <3>5. CASE \/ RefuseLooks(c) \/ RefuseWrites(c) \/ Hook(c) \/ SettleDeleted(c)
               \/ CleanWrite(c) \/ ClaimRefused(c) \/ LeaseRefused(c) \/ CancelNext(c)
               \/ CleanRead(c)
      BY <3>5 DEF RefuseLooks, RefuseWrites, Hook, SettleDeleted, CleanWrite, ClaimRefused,
                  LeaseRefused, CancelNext, CleanRead
    <3> QED BY <2>3, <3>1, <3>2, <3>3, <3>4, <3>5 DEF Proceed
  <2>4. ASSUME NEW c \in Caller, NEW q \in Step,
               DirectCancel(c, q) \/ StuckStart(c, q)
        PROVE  Stays(s)
    BY <2>2, <2>4 DEF DirectCancel, StuckStart, Expired, EndExpired
  <2>5. ASSUME NEW c \in Caller,
               \/ \E q \in Step : Dispatch(c, q) \/ Finalize(c, q)
               \/ \E p \in Run : CancelParent(c, p)
               \/ Scan(c) \/ Recover(c) \/ PassEnds(c) \/ GiveUp(c)
        PROVE  Stays(s)
    BY <2>5 DEF Dispatch, Finalize, CancelParent, Scan, Recover, PassEnds, GiveUp
  <2>6. CASE UNCHANGED vars \/ Restart \/ \E p \in Run : ParentEnds(p)
    BY <2>6 DEF vars, Restart, ParentEnds
  <2>7. ASSUME NEW q \in Step,
               \/ LeaseLapses(q) \/ DeadlinePasses(q) \/ StartIsOverdue(q)
               \/ HoldOpens(q) \/ HoldLifts(q)
        PROVE  Stays(s)
    BY <2>1, <2>7 DEF LeaseLapses, DeadlinePasses, StartIsOverdue, HoldOpens, HoldLifts, Child
  <2>8. ASSUME NEW q \in Step, DeleteChild(q) PROVE Stays(s)
    BY <2>1, <2>8 DEF DeleteChild
  <2>9. CASE Next
    <3>1. CASE \E c \in Worker : \/ Proceed(c)
                                 \/ \E q \in Step : Dispatch(c, q) \/ Finalize(c, q)
                                                    \/ DirectCancel(c, q)
                                 \/ \E p \in Run : CancelParent(c, p)
      BY <3>1, <2>3, <2>4, <2>5 DEF Caller
    <3>2. CASE Reconcile BY <3>2, <2>3, <2>4, <2>5 DEF Reconcile, Caller
    <3>3. CASE \E c \in Caller : GiveUp(c) BY <3>3, <2>5
    <3> QED BY <2>6, <2>7, <2>8, <2>9, <3>1, <3>2, <3>3 DEF Next
  <2> QED BY <1>1, <2>6, <2>9
<1>2. IInv /\ [Next]_vars =>
        [\A s \in Step : child[s].status \in Ended /\ child'[s] # NoChild =>
           /\ child'[s].status = child[s].status
           /\ child'[s].receipt = child[s].receipt]_vars
  BY <1>1
<1> QED BY <1>2, ChildInvariant, PTL DEF Spec, EndedChildStays
=============================================================================
