----------------------- MODULE InterruptedRuns_proofs -----------------------
(***************************************************************************)
(* Proofs about InterruptedRuns for any number of server processes, runs   *)
(* and errors: the claims stay within the limit of the agent, a child that *)
(* still runs beside a retry has been told to stop, and a run that has a   *)
(* retry is taken up by nobody who did not hold it before.                 *)
(***************************************************************************)
EXTENDS InterruptedRuns, FiniteSetTheorems, NaturalsInduction, TLAPS

-----------------------------------------------------------------------------
(* The inductive invariant.                                                *)

Jobs == flush \in [Process -> Job] /\ sweep \in [Task -> Job]

\* A run whose child is gone, or has been told to stop.
Stopped(r) == run[r].pid /\ (r \in alive => r \in signalled)

\* A recorded child means that the run was claimed for good, and a mark that
\* it has ended and its child was told to.
RowsInv ==
  \A r \in Run :
    /\ run[r].status = "absent" => run[r].retryOf = None
    /\ run[r].pid => run[r].status \notin {"absent", "queued"}
    /\ r \in alive => run[r].pid
    /\ run[r].code = "interrupted" => run[r].status = "failed" /\ Stopped(r)

\* A run is executed by one process, which claimed it.
ActiveInv ==
  /\ \A p \in Process : \A r \in server[p].active :
       run[r].status \notin {"absent", "queued"}
  /\ \A p, q \in Process : p # q => server[p].active \cap server[q].active = {}

\* What a process tracks has started.
TrackedInv == \A p \in Process : \A r \in server[p].tracked : run[r].pid

Executing(p) == {r \in server[p].active : run[r].status = "running"}

\* What a pass selected has its slot.
PassInv ==
  \A p \in Process :
    Cardinality(pass[p]) + Cardinality(Executing(p)) <= MaxConcurrent

Marked(r) == run[r].code = "interrupted" /\ run[r].losses = 0

\* What the step of a flush or of a sweep relies on, read some steps before.
FlushOf(p) ==
  LET f == flush[p] IN
  /\ f.at # "idle" => server[p].phase = "flushing"
  /\ \A r \in f.todo : Stopped(r)
  /\ f.at \in {"mark", "retry"} => f.run \in Run /\ Stopped(f.run)
  /\ f.at = "retry" => Marked(f.run)

SweepOf(t) ==
  LET s == sweep[t] IN
  /\ s.at # "idle" => server[t[1]].phase \in {"up", "stopping"}
  /\ \A r \in s.pids : run[r].pid
  /\ s.at \in {"losing", "retry", "checked"} => s.run \in Run /\ s.run \notin s.todo
  /\ s.at \in {"losing", "retry"} /\ s.run \in s.pids => Stopped(s.run)
  /\ s.at = "retry" => /\ s.run \in s.pids /\ run[s.run].losses = 0
                       /\ run[s.run].status \in Ended
  /\ s.at = "checked" => Marked(s.run)
  /\ s.at \in {"marked", "checked"} => \A r \in s.todo : Marked(r)

JobsInv == (\A p \in Process : FlushOf(p)) /\ (\A t \in Task : SweepOf(t))

\* A retried run has ended and its child was told to stop, and for each of its
\* retries there is a flush or a task that will not retry it again.
Holder == Process \X (0..Sweeps)
RetryInv ==
  \A r \in Run :
    Successors(r) # {} =>
      /\ run[r].status \in Ended
      /\ Stopped(r)
      /\ Cardinality(Successors(r)) + Cardinality(Holders(r)) <= Servers * (Sweeps + 1)

IInv ==
  TypeOK /\ Jobs /\ RowsInv /\ ActiveInv /\ TrackedInv /\ PassInv /\ JobsInv /\ RetryInv

-----------------------------------------------------------------------------
(* Finite sets of runs.                                                    *)

LEMMA RunsAreFinite ==
  ASSUME NEW S \in SUBSET Run
  PROVE  IsFiniteSet(S) /\ Cardinality(S) \in Nat
<1>1. IsFiniteSet(Run) BY ConstantsAssumption, FS_Interval DEF Run
<1> QED BY <1>1, FS_Subset, FS_CardinalityType

LEMMA HoldersAreFinite ==
  ASSUME NEW S \in SUBSET Holder
  PROVE  /\ IsFiniteSet(S) /\ Cardinality(S) \in Nat
         /\ Cardinality(S) <= Servers * (Sweeps + 1) /\ Servers * (Sweeps + 1) \in Nat
<1>1. IsFiniteSet(Process) /\ Cardinality(Process) = Servers
  BY ConstantsAssumption, FS_Interval DEF Process
<1>2. IsFiniteSet(0..Sweeps) /\ Cardinality(0..Sweeps) = Sweeps + 1
  BY ConstantsAssumption, FS_Interval
<1>3. IsFiniteSet(Holder) /\ Cardinality(Holder) = Servers * (Sweeps + 1)
  BY <1>1, <1>2, FS_Product DEF Holder
<1> QED BY <1>3, FS_Subset, FS_CardinalityType

\* A task is known by its process and its number.
LEMMA TaskParts ==
  /\ \A t \in Task : t[1] \in Process /\ t \in Holder /\ t[2] # 0
  /\ \A p \in Process : <<p, 0>> \in Holder
  /\ \A h \in Holder : h[1] \in Process /\ (h[2] = 0 \/ h \in Task)
BY ConstantsAssumption DEF Task, Holder

LEMMA RunsAreOrdered == Run \subseteq Int
BY ConstantsAssumption DEF Run

\* The oldest n runs are n at most: each has its own number of runs before it.
LEMMA OldestSize ==
  ASSUME NEW n \in Nat, NEW S \in SUBSET Run
  PROVE  Oldest(n, S) \subseteq S /\ Cardinality(Oldest(n, S)) <= n
<1> DEFINE T == Oldest(n, S)
           before(r) == {q \in S : q < r}
           f == [r \in T |-> Cardinality(before(r))]
<1>1. T \subseteq S BY DEF Oldest
<1>2. ASSUME NEW r \in T PROVE f[r] \in 0..(n - 1)
  <2>1. Cardinality(before(r)) \in Nat BY RunsAreFinite
  <2>2. Cardinality(before(r)) < n BY <1>2 DEF Oldest
  <2> QED BY <2>1, <2>2
<1>3. ASSUME NEW r \in T, NEW q \in T, q < r PROVE f[q] # f[r]
  <2>1. IsFiniteSet(before(r)) /\ Cardinality(before(r)) \in Nat BY RunsAreFinite
  <2>2. before(q) \subseteq before(r) /\ q \in before(r) /\ q \notin before(q)
    <3>1. S \subseteq Int /\ r \in S /\ q \in S BY <1>1, RunsAreOrdered
    <3>2. \A x \in Int : x < q => x < r BY <1>3, <3>1
    <3>3. ~(q < q) BY <3>1
    <3> HIDE DEF T, f
    <3> QED BY <1>3, <3>1, <3>2, <3>3
  <2>3. Cardinality(before(q)) # Cardinality(before(r)) BY <2>1, <2>2, FS_Subset
  <2> QED BY <2>3
<1>4. \A r, q \in T : f[r] = f[q] => r = q 
  <2>1. ASSUME NEW r \in T, NEW q \in T, f[r] = f[q] PROVE ~(q < r) /\ ~(r < q)
    BY <1>3, <2>1
  <2> HIDE DEF f, T
  <2> QED BY <1>1, <2>1, RunsAreOrdered
<1>5. f \in Injection(T, 0..(n - 1)) BY <1>2, <1>4 DEF Injection, IsInjective
<1>6. IsFiniteSet(0..(n - 1)) /\ Cardinality(0..(n - 1)) = n BY FS_Interval
<1> HIDE DEF f
<1>7. Cardinality(T) <= n BY <1>5, <1>6, FS_Injection
<1> QED BY <1>1, <1>7

-----------------------------------------------------------------------------
(* The rows.                                                               *)

RunRow ==
  [status : {"absent", "queued", "running"} \cup Ended,
   code : {"none", "interrupted", "lost"}, losses : 0..1,
   retryOf : Run \cup {None}, pid : BOOLEAN]

\* What no step takes back.
Steady ==
  \A r \in Run :
    /\ run[r].status # "absent" => run'[r].status # "absent" /\ run'[r].losses = run[r].losses
    /\ run[r].pid => run'[r].pid
    /\ run[r].status \in Ended => run'[r] = run[r]
    /\ Stopped(r) => Stopped(r)'

SameRetries == \A r \in Run : run'[r].retryOf = run[r].retryOf

\* No run is claimed, and none goes back to the queue.
SameQueue ==
  \A r \in Run :
    /\ run'[r].status = "running" => run[r].status = "running"
    /\ run[r].status \notin {"absent", "queued"} => run'[r].status \notin {"absent", "queued"}

RowStep ==
  run' \in [Run -> RunRow] /\ alive' \subseteq Run /\ signalled' \subseteq Run
  /\ RowsInv' /\ Steady

\* No child starts, and none that was told to stop is forgotten.
SameChildren ==
  /\ alive' \subseteq alive /\ signalled' \subseteq Run
  /\ \A r \in alive' : r \in signalled => r \in signalled'

LEMMA ChildrenStay ==
  ASSUME TypeOK, UNCHANGED <<alive, signalled>>
  PROVE  SameChildren
BY DEF TypeOK, SameChildren

LEMMA EndKeeps ==
  ASSUME TypeOK, RowsInv, NEW r \in Run, NEW status \in Ended,
         NEW code \in {"none", "interrupted", "lost"},
         code = "interrupted" => status = "failed" /\ Stopped(r),
         EndIfRunning(r, status, code), SameChildren
  PROVE  RowStep /\ SameRetries /\ SameQueue
<1>1. run' \in [Run -> RunRow]
  <2>1. run \in [Run -> RunRow] BY DEF TypeOK, RunRow
  <2>2. \A row \in RunRow : [row EXCEPT !.status = status, !.code = code] \in RunRow
    BY DEF RunRow, Ended
  <2>3. run' = IF run[r].status = "running"
               THEN [run EXCEPT ![r] = [run[r] EXCEPT !.status = status, !.code = code]] ELSE run
    BY <2>1 DEF EndIfRunning
  <2> QED BY <2>1, <2>2, <2>3
<1>4. SameRetries BY DEF TypeOK, EndIfRunning, SameRetries
<1>5. SameQueue BY DEF TypeOK, EndIfRunning, SameQueue, Ended
<1>6. \A q \in Run : run'[q].pid = run[q].pid BY DEF TypeOK, EndIfRunning
<1>7. \A q \in Run : Stopped(q) => Stopped(q)' BY <1>6 DEF Stopped, SameChildren
<1>2. RowsInv' BY <1>7 DEF TypeOK, RowsInv, EndIfRunning, Ended, SameChildren
<1>3. Steady BY <1>7 DEF TypeOK, Steady, EndIfRunning, Ended
<1> QED BY <1>1, <1>2, <1>3, <1>4, <1>5 DEF RowStep, SameChildren, TypeOK

LEMMA EnqueueKeeps ==
  ASSUME TypeOK, RowsInv, NEW r \in Run, run[r].losses = 0, EnqueueRetry(r),
         UNCHANGED <<alive, signalled>>
  PROVE  RowStep /\ SameQueue
<1>1. PICK q \in Run : run[q].status = "absent" /\ run' = [run EXCEPT ![q] = Row("queued", 1, r)]
  <2>1. run[r].losses + 1 = 1 OBVIOUS
  <2>2. PICK q \in Run : IsFirst(q, InStatus("absent"))
                         /\ run' = [run EXCEPT ![q] = Row("queued", run[r].losses + 1, r)]
    BY DEF EnqueueRetry
  <2>3. run[q].status = "absent" BY <2>2 DEF IsFirst, InStatus
  <2> QED BY <2>1, <2>2, <2>3
<1>2. Row("queued", 1, r) \in RunRow BY DEF Row, RunRow
<1>3. run' \in [Run -> RunRow] BY <1>1, <1>2 DEF TypeOK, RunRow
<1>7. \A x \in Run \ {q} : run'[x] = run[x] BY <1>1 DEF TypeOK
<1>8. run'[q].status = "queued" /\ run'[q].code = "none" /\ run'[q].pid = FALSE
  BY <1>1 DEF TypeOK, Row
<1>9. ~run[q].pid BY <1>1 DEF RowsInv
<1>10. \A x \in Run : Stopped(x) => Stopped(x)' BY <1>7, <1>9 DEF Stopped
<1>4. RowsInv' BY <1>1, <1>7, <1>8, <1>9, <1>10 DEF RowsInv
<1>5. Steady BY <1>1, <1>7, <1>8, <1>9, <1>10 DEF Steady, Ended
<1>6. SameQueue BY <1>1 DEF TypeOK, SameQueue, Row
<1> QED BY <1>3, <1>4, <1>5, <1>6 DEF RowStep, TypeOK

LEMMA RowsKeep ==
  ASSUME TypeOK, RowsInv, UNCHANGED run, SameChildren
  PROVE  RowStep /\ SameRetries /\ SameQueue
<1>1. \A r \in Run : Stopped(r) => Stopped(r)' BY DEF Stopped, SameChildren
<1>2. RowsInv' BY <1>1 DEF RowsInv, SameChildren
<1> QED BY <1>1, <1>2 DEF TypeOK, RowStep, RunRow, Steady, SameRetries, SameQueue, SameChildren

\* A mark is for good.
LEMMA MarksStay ==
  ASSUME RowsInv, Steady, NEW r \in Run, Marked(r)
  PROVE  Marked(r)' /\ run'[r] = run[r] /\ Stopped(r) /\ Stopped(r)'
BY DEF RowsInv, Steady, Marked, Ended

-----------------------------------------------------------------------------
(* What a step leaves alone keeps its part of the invariant.               *)

LEMMA PassKeeps ==
  ASSUME IInv,
         \A p \in Process : /\ Executing(p)' \subseteq Executing(p)
                            /\ pass'[p] \subseteq pass[p]
  PROVE  PassInv'
<1> SUFFICES ASSUME NEW p \in Process
             PROVE  Cardinality(pass'[p]) + Cardinality(Executing(p)') <= MaxConcurrent
  BY DEF PassInv
<1>1. Executing(p) \subseteq Run /\ pass[p] \subseteq Run BY DEF IInv, TypeOK, Executing
<1>2. /\ Cardinality(Executing(p)') <= Cardinality(Executing(p))
      /\ Cardinality(pass'[p]) <= Cardinality(pass[p])
      /\ Cardinality(Executing(p)) \in Nat /\ Cardinality(pass[p]) \in Nat
      /\ Cardinality(Executing(p)') \in Nat /\ Cardinality(pass'[p]) \in Nat
  BY <1>1, RunsAreFinite, FS_Subset
<1>3. Cardinality(pass[p]) + Cardinality(Executing(p)) <= MaxConcurrent BY DEF IInv, PassInv
<1> QED BY <1>2, <1>3, ConstantsAssumption

LEMMA QueueKeeps ==
  ASSUME IInv, SameQueue,
         \A p \in Process : /\ server'[p].active \subseteq server[p].active
                            /\ pass'[p] \subseteq pass[p]
  PROVE  ActiveInv' /\ PassInv'
<1>1. ActiveInv' BY DEF IInv, TypeOK, ActiveInv, SameQueue
<1>2. \A p \in Process : Executing(p)' \subseteq Executing(p)
  BY DEF IInv, TypeOK, SameQueue, Executing
<1> QED BY <1>1, <1>2, PassKeeps

LEMMA FlushStays ==
  ASSUME IInv, RowStep, NEW p \in Process, flush'[p] = flush[p],
         flush[p].at # "idle" => server'[p].phase = "flushing"
  PROVE  FlushOf(p)'
<1>1. FlushOf(p) /\ flush[p].todo \subseteq Run BY DEF IInv, JobsInv, Jobs, Job
<1>2. \A r \in Run : Stopped(r) => Stopped(r)' BY DEF RowStep, Steady
<1>3. flush[p].at = "retry" => Marked(flush[p].run)'
  BY <1>1, MarksStay DEF FlushOf, IInv, RowStep
<1> QED BY <1>1, <1>2, <1>3 DEF FlushOf

LEMMA SweepStays ==
  ASSUME IInv, RowStep, NEW t \in Task, sweep'[t] = sweep[t],
         sweep[t].at # "idle" => server'[t[1]].phase \in {"up", "stopping"}
  PROVE  SweepOf(t)'
<1> DEFINE s == sweep[t]
<1>1. SweepOf(t) /\ s.todo \subseteq Run /\ s.pids \subseteq Run BY DEF IInv, JobsInv, Jobs, Job
<1>2. \A r \in s.pids : run'[r].pid BY <1>1 DEF SweepOf, RowStep, Steady
<1>3. s.at \in {"losing", "retry"} /\ s.run \in s.pids => Stopped(s.run)'
  BY <1>1 DEF SweepOf, RowStep, Steady
<1>4. s.at = "retry" => run'[s.run].losses = 0 /\ run'[s.run].status \in Ended
  BY <1>1 DEF SweepOf, RowStep, Steady, Ended
<1>5. s.at = "checked" => Marked(s.run)' BY <1>1, MarksStay DEF SweepOf, IInv, RowStep
<1>6. s.at \in {"marked", "checked"} => \A r \in s.todo : Marked(r)'
  BY <1>1, MarksStay DEF SweepOf, IInv, RowStep
<1> QED BY <1>1, <1>2, <1>3, <1>4, <1>5, <1>6 DEF SweepOf

\* The parts of Holders: the flush of p, the recovery task t.
FlushHolds(p, r) == flush[p].at \in {"mark", "retry"} /\ flush[p].run = r
SweepHolds(t, r) ==
  \/ sweep[t].at \in {"losing", "retry", "checked"} /\ sweep[t].run = r
  \/ sweep[t].at \in {"running", "losing", "retry"} /\ r \in sweep[t].todo

LEMMA HolderParts ==
  ASSUME NEW r
  PROVE  /\ \A p \in Process : <<p, 0>> \in Holders(r) <=> FlushHolds(p, r)
         /\ \A t \in Task : t \in Holders(r) <=> SweepHolds(t, r)
         /\ \A p \in Process : <<p, 0>> \in Holders(r)' <=> FlushHolds(p, r)'
         /\ \A t \in Task : t \in Holders(r)' <=> SweepHolds(t, r)'
BY TaskParts DEF Holders, Holder, FlushHolds, SweepHolds

LEMMA HoldersShrink ==
  ASSUME NEW r, \A p \in Process : FlushHolds(p, r)' => FlushHolds(p, r),
         \A t \in Task : SweepHolds(t, r)' => SweepHolds(t, r)
  PROVE  Holders(r)' \subseteq Holders(r)
<1> SUFFICES ASSUME NEW h \in Holders(r)' PROVE h \in Holders(r) OBVIOUS
<1>1. h \in Holder /\ h[1] \in Process /\ (h[2] = 0 \/ h \in Task)
  BY TaskParts DEF Holders, Holder
<1>2. CASE h[2] = 0
  <2>1. FlushHolds(h[1], r)' BY <1>2 DEF Holders, FlushHolds
  <2>2. FlushHolds(h[1], r) BY <1>1, <2>1
  <2> QED BY <1>1, <1>2, <2>2 DEF Holders, Holder, FlushHolds
<1>3. CASE h[2] # 0
  <2>1. SweepHolds(h, r)' BY <1>3 DEF Holders, SweepHolds
  <2>2. SweepHolds(h, r) BY <1>1, <1>3, <2>1
  <2> QED BY <1>1, <1>3, <2>2 DEF Holders, Holder, SweepHolds
<1> QED BY <1>2, <1>3

\* A retried run is taken up by nobody.
RetryStep ==
  RetryInv' /\ \A r \in Run : Successors(r) # {} => Holders(r)' \subseteq Holders(r)

IStep == IInv' /\ RetryStep

\* What is tracked or was started stays so.
LEMMA TrackedKeeps ==
  ASSUME IInv, RowStep,
         \A p \in Process : \A r \in server'[p].tracked :
            r \in server[p].tracked \/ (r \in Run /\ run'[r].pid)
  PROVE  TrackedInv'
<1>1. \A p \in Process : server[p].tracked \subseteq Run BY DEF IInv, TypeOK
<1> QED BY <1>1 DEF IInv, TrackedInv, RowStep, Steady

LEMMA RetriesKeep ==
  ASSUME IInv, RowStep, SameRetries,
         \A p \in Process, r \in Run :
            Successors(r) # {} /\ FlushHolds(p, r)' => FlushHolds(p, r),
         \A t \in Task, r \in Run :
            Successors(r) # {} /\ SweepHolds(t, r)' => SweepHolds(t, r)
  PROVE  RetryStep
<1> DEFINE bound == Servers * (Sweeps + 1)
<1> SUFFICES ASSUME NEW r \in Run, Successors(r)' # {}
             PROVE  /\ run'[r].status \in Ended /\ Stopped(r)'
                    /\ Cardinality(Successors(r)') + Cardinality(Holders(r)') <= bound
                    /\ Holders(r)' \subseteq Holders(r)
  BY DEF RetryInv, RetryStep, Successors, SameRetries
<1>1. Successors(r)' = Successors(r) BY DEF Successors, SameRetries
<1>2. /\ run[r].status \in Ended /\ Stopped(r)
      /\ Cardinality(Successors(r)) + Cardinality(Holders(r)) <= bound
  BY <1>1 DEF IInv, RetryInv
<1>3. run'[r] = run[r] /\ Stopped(r)'
  BY <1>2 DEF RowStep, Steady
<1>4. Holders(r)' \subseteq Holders(r) /\ Holders(r) \subseteq Holder
  BY <1>1, HoldersShrink DEF Holders, Holder
<1>5. /\ Cardinality(Holders(r)') <= Cardinality(Holders(r)) /\ bound \in Nat
      /\ Cardinality(Holders(r)') \in Nat /\ Cardinality(Holders(r)) \in Nat
  BY <1>4, HoldersAreFinite, FS_Subset
<1>6. Cardinality(Successors(r)) \in Nat BY RunsAreFinite DEF Successors
<1> HIDE DEF bound
<1> QED BY <1>1, <1>2, <1>3, <1>4, <1>5, <1>6

\* A retry of r by the flush or the task h, which held it and holds it no more.
LEMMA RetryCounts ==
  ASSUME IInv, NEW r \in Run, NEW h \in Holder, run[r].losses = 0,
         run[r].status \in Ended, Stopped(r),
         EnqueueRetry(r), UNCHANGED <<alive, signalled>>,
         h \in Holders(r), h \notin Holders(r)',
         \A p \in Process, x \in Run : FlushHolds(p, x)' => FlushHolds(p, x),
         \A t \in Task, x \in Run : SweepHolds(t, x)' => SweepHolds(t, x)
  PROVE  RetryStep
<1> DEFINE bound == Servers * (Sweeps + 1)
<1>1. RowStep BY EnqueueKeeps DEF IInv
<1>2. PICK q \in Run : run[q].status = "absent"
                       /\ run' = [run EXCEPT ![q] = Row("queued", run[r].losses + 1, r)]
  BY DEF EnqueueRetry, IsFirst, InStatus
<1>3. /\ run[q].retryOf = None /\ run'[q].retryOf = r /\ None \notin Run
      /\ \A x \in Run \ {q} : run'[x] = run[x]
  BY <1>2, ConstantsAssumption DEF IInv, RowsInv, TypeOK, Row, None, Run
<1> SUFFICES ASSUME NEW x \in Run, Successors(x)' # {}
             PROVE  /\ run'[x].status \in Ended /\ Stopped(x)'
                    /\ Cardinality(Successors(x)') + Cardinality(Holders(x)') <= bound
  <2>1. \A x \in Run : Holders(x)' \subseteq Holders(x) BY HoldersShrink
  <2> QED BY <2>1 DEF RetryInv, RetryStep
<1>4. Holders(x)' \subseteq Holders(x) /\ Holders(x) \subseteq Holder
  BY HoldersShrink DEF Holders, Holder
<1>5. /\ Cardinality(Holders(x)') <= Cardinality(Holders(x)) /\ IsFiniteSet(Holders(x))
      /\ Cardinality(Holders(x)') \in Nat /\ Cardinality(Holders(x)) \in Nat
      /\ Cardinality(Holders(x)) <= bound /\ bound \in Nat
  BY <1>4, HoldersAreFinite, FS_Subset
<1> HIDE DEF bound
<1>6. Successors(x) \subseteq Run /\ Cardinality(Successors(x)) \in Nat /\ IsFiniteSet(Successors(x))
  BY RunsAreFinite DEF Successors
<1>7. CASE x = r
  <2>1. Successors(r)' = Successors(r) \cup {q} /\ q \notin Successors(r)
    BY <1>3 DEF Successors
  <2>2. Cardinality(Successors(r)') = Cardinality(Successors(r)) + 1
    BY <1>6, <1>7, <2>1, FS_AddElement
  <2>3. Holders(r)' \subseteq Holders(r) \ {h} /\ h \in Holders(r) BY <1>4, <1>7
  <2>4. Cardinality(Holders(r)') <= Cardinality(Holders(r)) - 1
    <3>1. Cardinality(Holders(r) \ {h}) = Cardinality(Holders(r)) - 1
          /\ IsFiniteSet(Holders(r) \ {h})
      BY <1>5, <1>7, <2>3, FS_RemoveElement
    <3>2. Cardinality(Holders(r)') <= Cardinality(Holders(r) \ {h}) BY <2>3, <3>1, FS_Subset
    <3> QED BY <3>1, <3>2
  <2>5. Cardinality(Successors(r)) + Cardinality(Holders(r)) <= bound
    <3>1. CASE Successors(r) = {} BY <1>5, <1>7, <3>1, FS_EmptySet
    <3>2. CASE Successors(r) # {} BY <3>2 DEF IInv, RetryInv, bound
    <3> QED BY <3>1, <3>2
  <2>6. run'[r] = run[r] /\ Stopped(r)' BY <1>1 DEF RowStep, Steady
  <2> QED BY <1>5, <1>6, <1>7, <2>2, <2>4, <2>5, <2>6
<1>8. CASE x # r
  <2>1. Successors(x)' = Successors(x) BY <1>3, <1>8 DEF Successors
  <2>2. /\ run[x].status \in Ended /\ Stopped(x)
        /\ Cardinality(Successors(x)) + Cardinality(Holders(x)) <= bound
    BY <2>1 DEF IInv, RetryInv, bound
  <2>3. run'[x] = run[x] /\ Stopped(x)' BY <1>1, <2>2 DEF RowStep, Steady
  <2> QED BY <1>5, <1>6, <2>1, <2>2, <2>3
<1> QED BY <1>7, <1>8

ServerRow ==
  [phase : {"none", "up", "stopping", "flushing", "gone"}, active : SUBSET Run,
   tracked : SUBSET Run]

LEMMA Together ==
  ASSUME IInv, RowStep, ActiveInv', TrackedInv', PassInv', RetryStep,
         server' \in [Process -> ServerRow], pass' \in [Process -> SUBSET Run],
         errors' \in 0..MaxErrors, Jobs',
         \A p \in Process : flush'[p].at \in FlushSteps /\ FlushOf(p)',
         \A t \in Task : sweep'[t].at \in SweepSteps /\ SweepOf(t)'
  PROVE  IStep
<1>1. TypeOK' BY DEF RowStep, RunRow, ServerRow, FlushSteps, SweepSteps, Jobs, TypeOK
<1> QED BY <1>1 DEF IInv, RowStep, JobsInv, RetryStep, IStep

\* A step of the recovery task t, and of nothing else but the rows.
LEMMA SweepTogether ==
  ASSUME IInv, RowStep, SameQueue, NEW t \in Task, NEW j \in Job, j.at \in SweepSteps,
         sweep' = [sweep EXCEPT ![t] = j], UNCHANGED <<server, pass, flush>>,
         errors' \in 0..MaxErrors, SweepOf(t)', RetryStep
  PROVE  IStep
<1>1. ActiveInv' /\ PassInv' BY QueueKeeps
<1>2. TrackedInv' BY TrackedKeeps
<1>3. /\ server' \in [Process -> ServerRow] /\ pass' \in [Process -> SUBSET Run]
      /\ flush' \in [Process -> Job] /\ sweep' \in [Task -> Job] /\ sweep'[t] = j
      /\ \A u \in Task \ {t} : sweep'[u] = sweep[u]
  BY DEF IInv, TypeOK, Jobs, ServerRow
<1>4. ASSUME NEW p \in Process
      PROVE  flush'[p].at \in FlushSteps /\ FlushOf(p)'
  <2>1. flush'[p].at \in FlushSteps BY DEF IInv, TypeOK, FlushSteps
  <2>2. FlushOf(p) BY DEF IInv, JobsInv
  <2>3. FlushOf(p)' BY <2>2, FlushStays DEF FlushOf
  <2> QED BY <2>1, <2>3
<1>5. ASSUME NEW u \in Task
      PROVE  sweep'[u].at \in SweepSteps /\ SweepOf(u)'
  <2>1. CASE u = t BY <1>3, <2>1
  <2>2. CASE u # t
    <3>1. sweep'[u] = sweep[u] /\ sweep'[u].at \in SweepSteps
      BY <1>3, <2>2 DEF IInv, TypeOK, SweepSteps
    <3>2. SweepOf(u) BY DEF IInv, JobsInv
    <3>3. SweepOf(u)' BY <3>1, <3>2, SweepStays DEF SweepOf
    <3> QED BY <3>1, <3>3
  <2> QED BY <2>1, <2>2
<1> QED BY <1>1, <1>2, <1>3, <1>4, <1>5, Together DEF Jobs

\* A step of the flush of p.
LEMMA FlushTogether ==
  ASSUME IInv, RowStep, SameQueue, NEW p \in Process, NEW j \in Job, j.at \in FlushSteps,
         flush' = [flush EXCEPT ![p] = j], UNCHANGED <<server, pass, sweep>>,
         errors' \in 0..MaxErrors, FlushOf(p)', RetryStep
  PROVE  IStep
<1>1. ActiveInv' /\ PassInv' BY QueueKeeps
<1>2. TrackedInv' BY TrackedKeeps
<1>3. /\ server' \in [Process -> ServerRow] /\ pass' \in [Process -> SUBSET Run]
      /\ flush' \in [Process -> Job] /\ sweep' \in [Task -> Job] /\ flush'[p] = j
      /\ \A q \in Process \ {p} : flush'[q] = flush[q]
  BY DEF IInv, TypeOK, Jobs, ServerRow
<1>4. ASSUME NEW t \in Task
      PROVE  sweep'[t].at \in SweepSteps /\ SweepOf(t)'
  <2>1. sweep'[t].at \in SweepSteps BY DEF IInv, TypeOK, SweepSteps
  <2>2. SweepOf(t) BY DEF IInv, JobsInv
  <2>3. SweepOf(t)' BY <2>2, SweepStays DEF SweepOf
  <2> QED BY <2>1, <2>3
<1>5. ASSUME NEW q \in Process
      PROVE  flush'[q].at \in FlushSteps /\ FlushOf(q)'
  <2>1. CASE q = p BY <1>3, <2>1
  <2>2. CASE q # p
    <3>1. flush'[q] = flush[q] /\ flush'[q].at \in FlushSteps
      BY <1>3, <2>2 DEF IInv, TypeOK, FlushSteps
    <3>2. FlushOf(q) BY DEF IInv, JobsInv
    <3>3. FlushOf(q)' BY <3>1, <3>2, FlushStays DEF FlushOf
    <3> QED BY <3>1, <3>3
  <2> QED BY <2>1, <2>2
<1> QED BY <1>1, <1>2, <1>3, <1>4, <1>5, Together DEF Jobs

LEMMA JobShapes ==
  ASSUME NEW j \in Job
  PROVE  /\ \A r \in Run, at \in Steps :
              /\ Take(j, r, at) \in Job /\ Take(j, r, at).todo = j.todo \ {r}
              /\ Take(j, r, at).run = r /\ Take(j, r, at).at = at
              /\ Take(j, r, at).pids = j.pids
         /\ \A r \in Run :
              /\ Skip(j, r) \in Job /\ Skip(j, r).todo = j.todo \ {r}
              /\ Skip(j, r).run = j.run /\ Skip(j, r).at = j.at /\ Skip(j, r).pids = j.pids \ {r}
         /\ \A at \in Steps :
              /\ Back(j, at) \in Job /\ Back(j, at).todo = j.todo
              /\ Back(j, at).run = None /\ Back(j, at).at = at
              /\ Back(j, at).pids = j.pids \ {j.run}
BY DEF Job, Take, Skip, Back

LEMMA NewJobShapes ==
  /\ Idle \in Job /\ Idle.todo = {} /\ Idle.run = None /\ Idle.at = "idle"
  /\ Idle.pids = {}
  /\ \A S \in SUBSET Run, at \in Steps :
       /\ To(Idle, S, at) \in Job /\ To(Idle, S, at).todo = S
       /\ To(Idle, S, at).run = None /\ To(Idle, S, at).at = at
       /\ To(Idle, S, at).pids = {}
  /\ \A S \in SUBSET Run :
       /\ Backstop(S) \in Job /\ Backstop(S).todo = S /\ Backstop(S).pids = {}
       /\ Backstop(S).at \in {"idle", "marked"}
<1>1. /\ Idle \in Job /\ Idle.todo = {} /\ Idle.run = None /\ Idle.at = "idle"
      /\ Idle.pids = {}
  <2>1. None \in Run \cup {None} /\ {} \in SUBSET Run /\ "idle" \in Steps
    BY DEF Steps, FlushSteps
  <2>2. Idle = [todo |-> {}, run |-> None, at |-> "idle", pids |-> {}] BY DEF Idle
  <2> HIDE DEF None
  <2>3. Idle \in Job BY <2>1, <2>2 DEF Job
  <2> QED BY <2>2, <2>3
<1>2. ASSUME NEW S \in SUBSET Run, NEW at \in Steps
      PROVE  /\ To(Idle, S, at) \in Job /\ To(Idle, S, at).todo = S
             /\ To(Idle, S, at).run = None /\ To(Idle, S, at).at = at
             /\ To(Idle, S, at).pids = {}
  BY <1>1 DEF To, Job
<1>3. ASSUME NEW S \in SUBSET Run
      PROVE  /\ Backstop(S) \in Job /\ Backstop(S).todo = S /\ Backstop(S).pids = {}
             /\ Backstop(S).at \in {"idle", "marked"}
  <2>1. CASE S = {} BY <1>1, <2>1 DEF Backstop
  <2>2. CASE S # {}
    <3>1. Backstop(S) = To(Idle, S, "marked") BY <2>2 DEF Backstop
    <3>2. "marked" \in Steps BY DEF Steps, SweepSteps
    <3> QED BY <1>2, <3>1, <3>2
  <2> QED BY <2>1, <2>2
<1> QED BY <1>1, <1>2, <1>3

LEMMA NewJobs ==
  ASSUME NEW S \in SUBSET Run, NEW at \in Steps
  PROVE  /\ To(Idle, S, at) \in Job /\ To(Idle, S, at).todo = S
         /\ To(Idle, S, at).at = at
<1>1. Idle \in Job BY NewJobShapes
<1> QED BY <1>1 DEF To, Job

-----------------------------------------------------------------------------
(* The sweep.                                                              *)

\* A sweep step that writes no row: its job keeps what it relies on, and takes
\* up no run that was retried.
LEMMA SweepMoves ==
  ASSUME IInv, NEW t \in Task, NEW j \in Job, j.at \in SweepSteps,
         sweep' = [sweep EXCEPT ![t] = j],
         UNCHANGED <<run, server, pass, flush>>, SameChildren, errors' \in 0..MaxErrors,
         SweepOf(t)',
         \A r \in Run :
           \/ j.at \in {"losing", "retry", "checked"} /\ j.run = r
           \/ j.at \in {"running", "losing", "retry"} /\ r \in j.todo
           => SweepHolds(t, r) \/ Successors(r) = {}
  PROVE  IStep
<1>1. RowStep /\ SameRetries /\ SameQueue BY RowsKeep DEF IInv
<1>2. sweep'[t] = j /\ \A q \in Task \ {t} : sweep'[q] = sweep[q] BY DEF IInv, Jobs
<1>3. \A q \in Process, r \in Run : FlushHolds(q, r)' => FlushHolds(q, r)
  BY DEF FlushHolds
<1>5. \A u \in Task, r \in Run : Successors(r) # {} /\ SweepHolds(u, r)' => SweepHolds(u, r)
  BY <1>2 DEF SweepHolds
<1>4. RetryStep BY <1>1, <1>3, <1>5, RetriesKeep
<1> QED BY <1>1, <1>4, SweepTogether

\* What a step of the sweep of p sees.
LEMMA SweepSees ==
  ASSUME IInv, NEW t \in Task
  PROVE  /\ signalled \subseteq Run /\ t[1] \in Process
         /\ sweep[t] \in Job /\ SweepOf(t) /\ sweep[t].todo \subseteq Run
         /\ sweep[t].pids \subseteq Run /\ errors \in 0..MaxErrors
         /\ \A j : [sweep EXCEPT ![t] = j][t] = j
BY TaskParts DEF IInv, TypeOK, JobsInv, Jobs, Job

LEMMA SweepStartInv ==
  ASSUME IInv, NEW t \in Task, SweepStart(t)
  PROVE  IStep
<1> DEFINE j == [todo |-> InStatus("running"), run |-> None, at |-> "running",
                 pids |-> {r \in InStatus("running") : run[r].pid}]
<1>1. j \in Job /\ j.at \in SweepSteps
  BY DEF Job, InStatus, Steps, SweepSteps
<1>2. /\ sweep' = [sweep EXCEPT ![t] = j] /\ sweep'[t] = j /\ server[t[1]].phase = "up"
      /\ UNCHANGED <<run, alive, signalled, server, pass, flush, errors>>
  BY SweepSees DEF SweepStart
<1>3. SweepOf(t)' BY <1>2 DEF SweepOf
<1>4. \A r \in j.todo : Successors(r) = {} BY DEF IInv, RetryInv, InStatus, Ended
<1>5. j.at = "running" /\ errors' \in 0..MaxErrors /\ SameChildren
  BY <1>2, SweepSees DEF SameChildren
<1> HIDE DEF j
<1> QED BY <1>1, <1>2, <1>3, <1>4, <1>5, SweepMoves

LEMMA SweepVisitsInv ==
  ASSUME IInv, NEW t \in Task, SweepVisits(t)
  PROVE  IStep
<1> DEFINE s == sweep[t]
<1>1. /\ s \in Job /\ SweepOf(t) /\ s.todo \subseteq Run /\ s.at = "running"
      /\ UNCHANGED <<run, alive, server, pass, flush, errors>> /\ errors' \in 0..MaxErrors
  BY SweepSees DEF SweepVisits, SweepAt
<1>2. PICK r \in s.todo, overCap \in BOOLEAN :
        LET lives == r \in s.pids /\ r \in alive
            skip == Own(t, r) \/ (lives /\ ~overCap)
        IN /\ sweep' = [sweep EXCEPT ![t] = IF skip THEN Skip(s, r) ELSE Take(s, r, "losing")]
           /\ signalled' = IF lives /\ ~skip THEN signalled \cup {r} ELSE signalled
  BY DEF SweepVisits
<1>3. PICK j : /\ sweep' = [sweep EXCEPT ![t] = j]
               /\ \/ j = Skip(s, r) /\ signalled' = signalled
                  \/ /\ j = Take(s, r, "losing")
                     /\ signalled' \in {signalled, signalled \cup {r}}
                     /\ r \in s.pids /\ r \in alive => r \in signalled'
  BY <1>2
<1>4. /\ j \in Job /\ j.todo = s.todo \ {r} /\ j.pids \subseteq s.pids
      /\ \/ j.at = "running"
         \/ j.at = "losing" /\ j.run = r /\ (r \in s.pids /\ r \in alive => r \in signalled')
  BY <1>1, <1>3, JobShapes DEF Steps, SweepSteps
<1>5. sweep'[t] = j /\ j.at \in SweepSteps BY <1>3, <1>4, SweepSees DEF SweepSteps
<1>6. SweepOf(t)' BY <1>1, <1>4, <1>5 DEF SweepOf, Stopped
<1>7. \A q \in s.todo : SweepHolds(t, q) BY <1>1 DEF SweepHolds
<1>8. SameChildren BY <1>1, <1>3, SweepSees DEF SameChildren
<1> HIDE DEF s
<1> QED BY <1>1, <1>3, <1>4, <1>5, <1>6, <1>7, <1>8, SweepMoves

LEMMA SweepTurnsInv ==
  ASSUME IInv, NEW t \in Task, SweepTurns(t)
  PROVE  IStep
<1>1. PICK S \in SUBSET Interrupted : sweep' = [sweep EXCEPT ![t] = Backstop(S)]
  BY DEF SweepTurns
<1> DEFINE j == Backstop(S)
<1>2. S \subseteq Run /\ \A r \in S : Marked(r) BY DEF Interrupted, Marked
<1>3. j \in Job /\ j.todo = S /\ j.pids = {} /\ j.at \in {"idle", "marked"}
  BY <1>2, NewJobShapes
<1> HIDE DEF j
<1>4. /\ UNCHANGED <<run, alive, signalled, server, pass, flush, errors>> /\ errors' \in 0..MaxErrors /\ SameChildren
      /\ SweepOf(t) /\ sweep[t].at = "running" /\ sweep'[t] = j
      /\ sweep' = [sweep EXCEPT ![t] = j]
  BY <1>1, SweepSees DEF SweepTurns, SweepAt, j, SameChildren
<1>5. SweepOf(t)' BY <1>2, <1>3, <1>4 DEF SweepOf, Marked
<1>6. j.at \in SweepSteps BY <1>3 DEF SweepSteps
<1> QED BY <1>3, <1>4, <1>5, <1>6, SweepMoves

LEMMA BackstopChecksInv ==
  ASSUME IInv, NEW t \in Task, BackstopChecks(t)
  PROVE  IStep
<1> DEFINE s == sweep[t]
<1>1. /\ s \in Job /\ SweepOf(t) /\ s.todo \subseteq Run /\ s.at = "marked"
      /\ UNCHANGED <<run, alive, signalled, server, pass, flush, errors>> /\ errors' \in 0..MaxErrors /\ SameChildren
  BY SweepSees DEF BackstopChecks, SweepAt, SameChildren
<1>2. PICK r \in s.todo :
        sweep' = [sweep EXCEPT ![t] =
          IF Own(t, r) \/ Successors(r) # {}
          THEN Backstop(s.todo \ {r}) ELSE Take(s, r, "checked")]
  BY DEF BackstopChecks
<1>3. PICK j : /\ sweep' = [sweep EXCEPT ![t] = j]
               /\ \/ j = Backstop(s.todo \ {r})
                  \/ j = Take(s, r, "checked") /\ Successors(r) = {}
  BY <1>2
<1>4. /\ j \in Job /\ j.todo = s.todo \ {r} /\ j.pids \subseteq s.pids
      /\ \/ j.at \in {"idle", "marked"}
         \/ j.at = "checked" /\ j.run = r /\ Successors(r) = {}
  <2>1. s.todo \ {r} \subseteq Run /\ r \in Run /\ "checked" \in Steps
    BY <1>1, <1>2 DEF Steps, SweepSteps
  <2>2. /\ Backstop(s.todo \ {r}) \in Job /\ Backstop(s.todo \ {r}).todo = s.todo \ {r}
        /\ Backstop(s.todo \ {r}).at \in {"idle", "marked"}
        /\ Backstop(s.todo \ {r}).pids = {}
    BY <2>1, NewJobShapes
  <2>3. /\ Take(s, r, "checked") \in Job /\ Take(s, r, "checked").todo = s.todo \ {r}
        /\ Take(s, r, "checked").run = r /\ Take(s, r, "checked").at = "checked"
        /\ Take(s, r, "checked").pids = s.pids
    BY <1>1, <2>1, JobShapes
  <2> HIDE DEF s
  <2> QED BY <1>3, <2>2, <2>3
<1>5. sweep'[t] = j /\ j.at \in SweepSteps BY <1>3, <1>4, SweepSees DEF SweepSteps
<1>6. SweepOf(t)' BY <1>1, <1>2, <1>4, <1>5 DEF SweepOf, Marked
<1> HIDE DEF s
<1> QED BY <1>1, <1>3, <1>4, <1>5, <1>6, SweepMoves

LEMMA SweepFailsInv ==
  ASSUME IInv, NEW t \in Task, SweepFails(t)
  PROVE  IStep
<1> DEFINE s == sweep[t]
<1>1. /\ s \in Job /\ SweepOf(t) /\ s.todo \subseteq Run /\ s.at \in {"losing", "retry", "checked"}
      /\ UNCHANGED <<run, alive, signalled, server, pass, flush>>
  BY SweepSees DEF SweepFails
<1>2. errors' \in 0..MaxErrors BY SweepSees, ConstantsAssumption DEF SweepFails
<1>7. SameChildren BY <1>1, SweepSees DEF SameChildren
<1>3. PICK j : /\ sweep' = [sweep EXCEPT ![t] = j]
               /\ j = Idle \/ (j = Backstop(s.todo) /\ s.at = "checked")
  BY DEF SweepFails
<1>4. /\ j \in Job /\ j.todo \subseteq s.todo /\ j.pids = {} /\ j.at \in {"idle", "marked"}
      /\ j.at = "marked" => s.at = "checked"
  BY <1>1, <1>3, NewJobShapes
<1>5. sweep'[t] = j /\ j.at \in SweepSteps BY <1>3, <1>4, SweepSees DEF SweepSteps
<1>6. SweepOf(t)' BY <1>1, <1>4, <1>5 DEF SweepOf, Marked
<1> HIDE DEF s
<1> QED BY <1>1, <1>2, <1>3, <1>4, <1>5, <1>6, <1>7, SweepMoves

LEMMA SweepLosesInv ==
  ASSUME IInv, NEW t \in Task, SweepLoses(t)
  PROVE  IStep
<1> DEFINE s == sweep[t]
<1>0. PICK r : r = s.run OBVIOUS
<1>1. /\ s \in Job /\ SweepOf(t) /\ s.todo \subseteq Run /\ s.at = "losing" /\ r \in Run
      /\ UNCHANGED <<alive, signalled, server, pass, flush, errors>> /\ errors' \in 0..MaxErrors
      /\ EndIfRunning(r, "failed", "lost")
  BY <1>0, SweepSees DEF SweepLoses, SweepAt, SweepOf
<1>2. PICK j : /\ sweep' = [sweep EXCEPT ![t] = j]
               /\ \/ j = [s EXCEPT !.at = "retry"] /\ r \in s.pids /\ run[r].losses = 0
                  \/ j = Back(s, "running")
  BY <1>0 DEF SweepLoses
<1>3. /\ j \in Job /\ j.todo = s.todo /\ j.pids \subseteq s.pids
      /\ \/ j.at = "retry" /\ j.run = r /\ r \in j.pids /\ r \in s.pids /\ run[r].losses = 0
         \/ j.at = "running"
  BY <1>0, <1>1, <1>2, JobShapes DEF Job, Steps, SweepSteps
<1>4. sweep'[t] = j /\ j.at \in SweepSteps /\ \A u \in Task \ {t} : sweep'[u] = sweep[u]
  BY <1>2, <1>3 DEF IInv, Jobs, SweepSteps
<1>9. SameChildren BY <1>1, SweepSees DEF SameChildren
<1>5. RowStep /\ SameRetries /\ SameQueue BY <1>1, <1>9, EndKeeps DEF IInv, Ended
<1>6. SweepOf(t)'
  <2>1. r \notin s.todo /\ (r \in s.pids => run[r].pid /\ Stopped(r)')
    <3>1. r \notin s.todo /\ (r \in s.pids => Stopped(r)) BY <1>0, <1>1 DEF SweepOf
    <3>2. \A q \in Run : Stopped(q) => Stopped(q)' BY <1>5 DEF RowStep, Steady
    <3>3. Stopped(r) => run[r].pid BY DEF Stopped
    <3> QED BY <1>1, <3>1, <3>2, <3>3
  <2>2. run[r].pid => run'[r].status \in Ended
    BY <1>1 DEF IInv, RowsInv, TypeOK, EndIfRunning, Ended
  <2>3. run[r].pid => run'[r].losses = run[r].losses
    BY <1>1, <1>5 DEF IInv, RowsInv, RowStep, Steady
  <2>4. \A q \in s.pids : run'[q].pid BY <1>1, <1>5, SweepSees DEF SweepOf, RowStep, Steady
  <2>5. server'[t[1]].phase \in {"up", "stopping"} BY <1>1 DEF SweepOf
  <2> QED BY <1>1, <1>3, <1>4, <2>1, <2>2, <2>3, <2>4, <2>5 DEF SweepOf
<1>7. /\ \A q \in Process, x \in Run : FlushHolds(q, x)' => FlushHolds(q, x)
      /\ \A u \in Task, x \in Run : SweepHolds(u, x)' => SweepHolds(u, x)
  BY <1>0, <1>1, <1>3, <1>4 DEF FlushHolds, SweepHolds
<1>8. RetryStep BY <1>5, <1>7, RetriesKeep
<1> HIDE DEF s
<1> QED BY <1>1, <1>2, <1>3, <1>4, <1>5, <1>6, <1>8, SweepTogether

\* Both retries of a sweep.
LEMMA SweepRetriesInv ==
  ASSUME IInv, NEW t \in Task, SweepRetries(t) \/ BackstopRetries(t)
  PROVE  IStep
<1> DEFINE s == sweep[t]
<1>0. PICK r : r = s.run OBVIOUS
<1>1. /\ s \in Job /\ SweepOf(t) /\ s.todo \subseteq Run /\ s.at \in {"retry", "checked"} /\ r \in Run
      /\ UNCHANGED <<alive, signalled, server, pass, flush, errors>> /\ errors' \in 0..MaxErrors
      /\ EnqueueRetry(r)
  BY <1>0, SweepSees DEF SweepRetries, BackstopRetries, SweepAt, SweepOf
<1>2. PICK j : /\ sweep' = [sweep EXCEPT ![t] = j]
               /\ \/ j = Back(s, "running") /\ s.at = "retry"
                  \/ j = Backstop(s.todo) /\ s.at = "checked"
  BY DEF SweepRetries, BackstopRetries, SweepAt
<1>3. /\ j \in Job /\ j.todo = s.todo /\ j.pids \subseteq s.pids
      /\ \/ j.at = "running" /\ s.at = "retry"
         \/ j.at \in {"idle", "marked"} /\ s.at = "checked"
  BY <1>1, <1>2, JobShapes, NewJobShapes DEF Steps, SweepSteps
<1>4. sweep'[t] = j /\ j.at \in SweepSteps /\ \A u \in Task \ {t} : sweep'[u] = sweep[u]
  BY <1>2, <1>3 DEF IInv, Jobs, SweepSteps
<1>5. run[r].losses = 0 /\ run[r].status \in Ended /\ Stopped(r)
  BY <1>0, <1>1 DEF SweepOf, Marked, IInv, RowsInv, Ended
<1>6. RowStep /\ SameQueue BY <1>1, <1>5, EnqueueKeeps DEF IInv
<1>7. SweepOf(t)'
  <2>1. \A q \in s.pids : run'[q].pid BY <1>1, <1>6, SweepSees DEF SweepOf, RowStep, Steady
  <2>2. s.at = "checked" => \A q \in s.todo : Marked(q)'
    BY <1>1, <1>6, MarksStay DEF SweepOf, RowStep, IInv
  <2>3. server'[t[1]].phase \in {"up", "stopping"} BY <1>1 DEF SweepOf
  <2> QED BY <1>3, <1>4, <2>1, <2>2, <2>3 DEF SweepOf
<1>8. t \in Holder /\ t \in Holders(r) /\ t \notin Holders(r)'
  <2>1. r \notin s.todo /\ sweep[t].run = r BY <1>0, <1>1 DEF SweepOf
  <2>2. SweepHolds(t, r) /\ ~SweepHolds(t, r)'
    BY <1>1, <1>3, <1>4, <2>1 DEF SweepHolds
  <2> QED BY <2>2, HolderParts, TaskParts
<1>9. /\ \A q \in Process, x \in Run : FlushHolds(q, x)' => FlushHolds(q, x)
      /\ \A u \in Task, x \in Run : SweepHolds(u, x)' => SweepHolds(u, x)
  BY <1>1, <1>3, <1>4 DEF FlushHolds, SweepHolds
<1>10. RetryStep BY <1>1, <1>5, <1>8, <1>9, RetryCounts
<1> HIDE DEF s
<1> QED BY <1>1, <1>2, <1>3, <1>4, <1>6, <1>7, <1>10, SweepTogether

-----------------------------------------------------------------------------
(* The flush.                                                              *)

LEMMA FlushSees ==
  ASSUME IInv, NEW p \in Process
  PROVE  /\ flush[p] \in Job /\ FlushOf(p) /\ flush[p].todo \subseteq Run
         /\ errors \in 0..MaxErrors /\ \A j : [flush EXCEPT ![p] = j][p] = j
         /\ alive \subseteq Run /\ signalled \subseteq Run
BY DEF IInv, TypeOK, JobsInv, Jobs, Job

\* A flush step that writes no row and takes up no run that was retried.
LEMMA FlushMoves ==
  ASSUME IInv, NEW p \in Process, NEW j \in Job, flush[p].at # "idle",
         j.at \in {"next", "mark"}, flush' = [flush EXCEPT ![p] = j],
         UNCHANGED <<run, alive, signalled, server, pass, sweep>>, errors' \in 0..MaxErrors,
         \A r \in j.todo : Stopped(r),
         j.at = "mark" => j.run \in Run /\ Stopped(j.run) /\ Successors(j.run) = {}
  PROVE  IStep
<1>0. SameChildren BY FlushSees DEF SameChildren
<1>1. RowStep /\ SameRetries /\ SameQueue BY <1>0, RowsKeep DEF IInv
<1>2. flush'[p] = j /\ \A q \in Process \ {p} : flush'[q] = flush[q] BY DEF IInv, Jobs
<1>3. FlushOf(p)' BY <1>2, FlushSees DEF FlushOf, Stopped
<1>4. /\ \A q \in Process, r \in Run :
           Successors(r) # {} /\ FlushHolds(q, r)' => FlushHolds(q, r)
      /\ \A u \in Task, r \in Run : SweepHolds(u, r)' => SweepHolds(u, r)
  BY <1>2 DEF FlushHolds, SweepHolds
<1>5. RetryStep BY <1>1, <1>4, RetriesKeep
<1>6. j.at \in FlushSteps BY DEF FlushSteps
<1> QED BY <1>1, <1>3, <1>5, <1>6, FlushTogether

LEMMA FlushNextInv ==
  ASSUME IInv, NEW p \in Process, FlushNext(p)
  PROVE  IStep
<1> DEFINE f == flush[p]
<1>1. /\ f \in Job /\ f.todo \subseteq Run /\ f.at = "next"
      /\ UNCHANGED <<run, alive, signalled, server, pass, sweep, errors>> /\ errors' \in 0..MaxErrors
  BY FlushSees DEF FlushNext
<1>2. PICK r \in f.todo :
        flush' = [flush EXCEPT ![p] = IF run[r].status = "running" THEN Take(f, r, "mark")
                                      ELSE Skip(f, r)]
  BY DEF FlushNext
<1>3. PICK j : /\ flush' = [flush EXCEPT ![p] = j]
               /\ \/ j = Take(f, r, "mark") /\ run[r].status = "running"
                  \/ j = Skip(f, r)
  BY <1>2
<1>4. run[r].status = "running" => Successors(r) = {} BY <1>1 DEF IInv, RetryInv, Ended
<1>6. \A q \in f.todo : Stopped(q) BY FlushSees DEF FlushOf
<1>5. /\ j \in Job /\ j.at \in {"next", "mark"} /\ j.todo \subseteq f.todo
      /\ j.at = "mark" => j.run \in Run /\ Stopped(j.run) /\ Successors(j.run) = {}
  <2>1. r \in Run /\ "mark" \in Steps BY <1>1, <1>2 DEF Steps, FlushSteps
  <2>2. /\ Take(f, r, "mark") \in Job /\ Take(f, r, "mark").todo = f.todo \ {r}
        /\ Take(f, r, "mark").run = r /\ Take(f, r, "mark").at = "mark"
    BY <1>1, <2>1, JobShapes
  <2>3. Skip(f, r) \in Job /\ Skip(f, r).todo = f.todo \ {r} /\ Skip(f, r).at = "next"
    BY <1>1, <2>1, JobShapes
  <2>4. Stopped(r) BY <1>6
  <2> HIDE DEF f
  <2> QED BY <1>3, <1>4, <2>1, <2>2, <2>3, <2>4
<1> HIDE DEF f
<1> QED BY <1>1, <1>3, <1>5, <1>6, FlushMoves DEF f

LEMMA FlushSkipsInv ==
  ASSUME IInv, NEW p \in Process, FlushDeadline(p) \/ FlushFails(p)
  PROVE  IStep
<1> DEFINE f == flush[p]
<1>1. /\ f \in Job /\ f.at # "idle" /\ UNCHANGED <<run, alive, signalled, server, pass, sweep>>
  BY FlushSees DEF FlushDeadline, FlushFails
<1>2. errors' \in 0..MaxErrors
  BY FlushSees, ConstantsAssumption DEF FlushDeadline, FlushFails
<1>3. PICK j : /\ flush' = [flush EXCEPT ![p] = j]
               /\ \/ j = [f EXCEPT !.todo = {}] /\ f.at = "next"
                  \/ j = Back(f, "next")
  <2>1. CASE FlushDeadline(p)
    <3>1. flush' = [flush EXCEPT ![p] = [f EXCEPT !.todo = {}]] /\ f.at = "next"
      BY <2>1 DEF FlushDeadline, IInv, Jobs
    <3> QED BY <3>1
  <2>2. CASE FlushFails(p) BY <2>2 DEF FlushFails
  <2> QED BY <2>1, <2>2
<1>4. j \in Job /\ j.at = "next" /\ j.todo \subseteq f.todo
  BY <1>1, <1>3, JobShapes DEF Job, Steps, FlushSteps
<1>5. \A q \in f.todo : Stopped(q) BY FlushSees DEF FlushOf
<1> HIDE DEF f
<1> QED BY <1>1, <1>2, <1>3, <1>4, <1>5, FlushMoves DEF f

LEMMA FlushMarksInv ==
  ASSUME IInv, NEW p \in Process, FlushMarks(p)
  PROVE  IStep
<1> DEFINE f == flush[p]
<1>0. PICK r : r = f.run OBVIOUS
<1>1. /\ f \in Job /\ FlushOf(p) /\ f.at = "mark" /\ r \in Run
      /\ UNCHANGED <<alive, signalled, server, pass, sweep, errors>> /\ errors' \in 0..MaxErrors
      /\ EndIfRunning(r, "failed", "interrupted")
  BY <1>0, FlushSees DEF FlushMarks, FlushOf
<1>2. PICK j : /\ flush' = [flush EXCEPT ![p] = j]
               /\ \/ j = [f EXCEPT !.at = "retry"] /\ run[r].status = "running" /\ run[r].losses = 0
                  \/ j = Back(f, "next")
  BY <1>0 DEF FlushMarks
<1>3. /\ j \in Job /\ j.todo = f.todo
      /\ \/ j.at = "retry" /\ j.run = r /\ run[r].status = "running" /\ run[r].losses = 0
         \/ j.at = "next"
  BY <1>0, <1>1, <1>2, JobShapes DEF Job, Steps, FlushSteps
<1>4. flush'[p] = j /\ j.at \in FlushSteps /\ \A q \in Process \ {p} : flush'[q] = flush[q]
  BY <1>2, <1>3 DEF IInv, Jobs, FlushSteps
<1>9. SameChildren BY <1>1, FlushSees DEF SameChildren
<1>10. Stopped(r) /\ f.todo \subseteq Run BY <1>0, <1>1, FlushSees DEF FlushOf
<1>5. RowStep /\ SameRetries /\ SameQueue BY <1>1, <1>9, <1>10, EndKeeps DEF IInv, Ended
<1>6. FlushOf(p)'
  <2>1. run[r].status = "running" /\ run[r].losses = 0 => Marked(r)'
    BY <1>1 DEF IInv, TypeOK, EndIfRunning, Marked
  <2>2. Stopped(r)' /\ \A q \in f.todo : Stopped(q)'
    BY <1>1, <1>5, <1>10 DEF FlushOf, RowStep, Steady
  <2> QED BY <1>1, <1>3, <1>4, <2>1, <2>2 DEF FlushOf, Marked
<1>7. /\ \A q \in Process, x \in Run : FlushHolds(q, x)' => FlushHolds(q, x)
      /\ \A u \in Task, x \in Run : SweepHolds(u, x)' => SweepHolds(u, x)
  BY <1>0, <1>1, <1>3, <1>4 DEF FlushHolds, SweepHolds
<1>8. RetryStep BY <1>5, <1>7, RetriesKeep
<1> HIDE DEF f
<1> QED BY <1>1, <1>2, <1>3, <1>4, <1>5, <1>6, <1>8, FlushTogether

LEMMA FlushRetriesInv ==
  ASSUME IInv, NEW p \in Process, FlushRetries(p)
  PROVE  IStep
<1> DEFINE f == flush[p]
           j == Back(f, "next")
<1>0. PICK r : r = f.run OBVIOUS
<1>1. /\ f \in Job /\ FlushOf(p) /\ f.at = "retry" /\ r \in Run
      /\ UNCHANGED <<alive, signalled, server, pass, sweep, errors>> /\ errors' \in 0..MaxErrors
      /\ EnqueueRetry(r) /\ flush' = [flush EXCEPT ![p] = j]
  BY <1>0, FlushSees DEF FlushRetries, FlushOf
<1>2. j \in Job /\ j.at = "next" /\ j.todo = f.todo
  <2>1. "next" \in Steps BY DEF Steps, FlushSteps
  <2>2. \A g \in Job : /\ Back(g, "next") \in Job /\ Back(g, "next").at = "next"
                       /\ Back(g, "next").todo = g.todo
    BY <2>1, JobShapes
  <2> QED BY <1>1, <2>2
<1> HIDE DEF j
<1>3. flush'[p] = j /\ j.at \in FlushSteps /\ \A q \in Process \ {p} : flush'[q] = flush[q]
  BY <1>1, <1>2 DEF IInv, Jobs, FlushSteps
<1>4. run[r].losses = 0 /\ run[r].status \in Ended /\ Stopped(r)
  BY <1>0, <1>1 DEF FlushOf, Marked, IInv, RowsInv, Ended
<1>5. RowStep /\ SameQueue BY <1>1, <1>4, EnqueueKeeps DEF IInv
<1>6. FlushOf(p)'
  <2>1. f.todo \subseteq Run BY FlushSees
  <2>2. \A q \in f.todo : Stopped(q)' BY <1>1, <1>5, <2>1 DEF FlushOf, RowStep, Steady
  <2> QED BY <1>1, <1>2, <1>3, <2>2 DEF FlushOf
<1>7. <<p, 0>> \in Holder /\ <<p, 0>> \in Holders(r) /\ <<p, 0>> \notin Holders(r)'
  <2>1. flush[p].run = r /\ flush[p].at = "retry" BY <1>0, <1>1
  <2>2. FlushHolds(p, r) /\ ~FlushHolds(p, r)' BY <1>2, <1>3, <2>1 DEF FlushHolds
  <2> QED BY <2>2, HolderParts, TaskParts
<1>8. /\ \A q \in Process, x \in Run : FlushHolds(q, x)' => FlushHolds(q, x)
      /\ \A u \in Task, x \in Run : SweepHolds(u, x)' => SweepHolds(u, x)
  BY <1>1, <1>2, <1>3 DEF FlushHolds, SweepHolds
<1>9. RetryStep BY <1>1, <1>4, <1>7, <1>8, RetryCounts
<1> HIDE DEF f
<1> QED BY <1>1, <1>2, <1>3, <1>5, <1>6, <1>9, FlushTogether

-----------------------------------------------------------------------------
(* Processes, claims and executions.                                       *)

\* A step that leaves the flushes and the sweeps alone.
LEMMA ServerTogether ==
  ASSUME IInv, RowStep, SameRetries, UNCHANGED <<flush, sweep, errors>>,
         server' \in [Process -> ServerRow], pass' \in [Process -> SUBSET Run],
         \A p \in Process :
           /\ server[p].phase = "flushing" => server'[p].phase = "flushing"
           /\ server[p].phase \in {"up", "stopping"} => server'[p].phase \in {"up", "stopping"},
         \A p \in Process : \A r \in server'[p].tracked :
            r \in server[p].tracked \/ (r \in Run /\ run'[r].pid),
         ActiveInv', PassInv'
  PROVE  IStep
<1>1. /\ \A q \in Process, r \in Run : FlushHolds(q, r)' => FlushHolds(q, r)
      /\ \A t \in Task, r \in Run : SweepHolds(t, r)' => SweepHolds(t, r)
  BY DEF FlushHolds, SweepHolds
<1>2. RetryStep /\ TrackedInv' BY <1>1, RetriesKeep, TrackedKeeps
<1>3. ASSUME NEW p \in Process
      PROVE  flush'[p].at \in FlushSteps /\ FlushOf(p)'
  <2>1. flush'[p].at \in FlushSteps BY DEF IInv, TypeOK
  <2>2. FlushOf(p) BY DEF IInv, JobsInv
  <2>3. FlushOf(p)' BY <2>2, FlushStays DEF FlushOf
  <2> QED BY <2>1, <2>3
<1>4. ASSUME NEW t \in Task
      PROVE  sweep'[t].at \in SweepSteps /\ SweepOf(t)'
  <2>1. sweep'[t].at \in SweepSteps BY DEF IInv, TypeOK
  <2>2. SweepOf(t) /\ t[1] \in Process BY TaskParts DEF IInv, JobsInv
  <2>3. SweepOf(t)' BY <2>2, SweepStays DEF SweepOf
  <2> QED BY <2>1, <2>3
<1>5. Jobs' /\ errors' \in 0..MaxErrors BY DEF IInv, Jobs, TypeOK
<1> QED BY <1>2, <1>3, <1>4, <1>5, Together

LEMMA ServerSees ==
  ASSUME IInv
  PROVE  /\ server \in [Process -> ServerRow] /\ pass \in [Process -> SUBSET Run]
         /\ run \in [Run -> RunRow] /\ alive \subseteq Run /\ signalled \subseteq Run
BY DEF IInv, TypeOK, ServerRow, RunRow

\* Start, Signal and FailExecution.
LEMMA PhaseInv ==
  ASSUME IInv, NEW p \in Process,
         Start(p) \/ Signal(p) \/ \E r \in Run : FailExecution(p, r)
  PROVE  IStep
<1>1. UNCHANGED <<run, alive, signalled, pass, flush, sweep, errors>> BY DEF Start, Signal, FailExecution
<1>2. RowStep /\ SameRetries /\ SameQueue BY <1>1, ChildrenStay, RowsKeep DEF IInv
<1>3. PICK row \in ServerRow :
        /\ server' = [server EXCEPT ![p] = row] /\ row.active \subseteq server[p].active
        /\ row.tracked = server[p].tracked
        /\ \/ row.phase = server[p].phase
           \/ server[p].phase \in {"none", "up"} /\ row.phase \in {"up", "stopping"}
  <2>1. CASE Start(p) \/ Signal(p)
    <3>1. PICK ph \in {"up", "stopping"} :
            server' = [server EXCEPT ![p] = [server[p] EXCEPT !.phase = ph]]
      BY <2>1, ServerSees DEF Start, Signal
    <3>2. server[p].phase \in {"none", "up"} BY <2>1 DEF Start, Signal
    <3> DEFINE row == [server[p] EXCEPT !.phase = ph]
    <3>3. /\ row \in ServerRow /\ row.active = server[p].active /\ row.phase = ph
          /\ row.tracked = server[p].tracked
      BY ServerSees DEF ServerRow
    <3>4. server' = [server EXCEPT ![p] = row] BY <3>1
    <3> HIDE DEF row
    <3> QED BY <3>2, <3>3, <3>4
  <2>2. CASE \E r \in Run : FailExecution(p, r)
    <3>1. PICK r \in Run : FailExecution(p, r) BY <2>2
    <3>2. server' = [server EXCEPT ![p] = [server[p] EXCEPT !.active = server[p].active \ {r}]]
      BY <3>1, ServerSees DEF FailExecution
    <3> DEFINE row == [server[p] EXCEPT !.active = server[p].active \ {r}]
    <3>3. /\ row \in ServerRow /\ row.active \subseteq server[p].active
          /\ row.phase = server[p].phase /\ row.tracked = server[p].tracked
      BY ServerSees DEF ServerRow
    <3>4. server' = [server EXCEPT ![p] = row] BY <3>2
    <3> HIDE DEF row
    <3> QED BY <3>3, <3>4
  <2> QED BY <2>1, <2>2
<1>4. server' \in [Process -> ServerRow] /\ pass' \in [Process -> SUBSET Run]
  BY <1>1, <1>3, ServerSees
<1>5. \A q \in Process : /\ server'[q].active \subseteq server[q].active
                         /\ server'[q].tracked = server[q].tracked
                         /\ pass'[q] \subseteq pass[q]
  BY <1>1, <1>3, ServerSees
<1>6. \A q \in Process :
        /\ server[q].phase = "flushing" => server'[q].phase = "flushing"
        /\ server[q].phase \in {"up", "stopping"} => server'[q].phase \in {"up", "stopping"}
  BY <1>3, ServerSees
<1>7. ActiveInv' /\ PassInv' BY <1>2, <1>5, QueueKeeps
<1> QED BY <1>1, <1>2, <1>4, <1>5, <1>6, <1>7, ServerTogether

\* A process that is gone: by a crash, or by its exit.
LEMMA GoneInv ==
  ASSUME IInv, NEW p \in Process, Crash(p) \/ Exit(p)
  PROVE  IStep
<1>1. Gone(p) /\ UNCHANGED <<run, errors>> /\ SameChildren BY ServerSees DEF Crash, Exit, SameChildren
<1>2. RowStep /\ SameRetries /\ SameQueue BY <1>1, RowsKeep DEF IInv
<1>3. /\ Server("gone") \in ServerRow /\ Server("gone").active = {}
      /\ Server("gone").tracked = {}
  BY DEF Server, ServerRow
<1>4. /\ server' \in [Process -> ServerRow] /\ pass' \in [Process -> SUBSET Run] /\ Jobs'
      /\ server'[p] = Server("gone") /\ pass'[p] = {} /\ flush'[p] = Idle
      /\ \A q \in Process \ {p} : /\ server'[q] = server[q] /\ pass'[q] = pass[q]
                                  /\ flush'[q] = flush[q]
  BY <1>1, <1>3, ServerSees, NewJobShapes DEF Gone, IInv, Jobs
<1>5. \A t \in Task : sweep'[t] = Idle \/ (t[1] # p /\ sweep'[t] = sweep[t])
  BY <1>1 DEF Gone
<1>6. \A q \in Process : /\ server'[q].active \subseteq server[q].active
                         /\ server'[q].tracked \subseteq server[q].tracked
                         /\ pass'[q] \subseteq pass[q]
  BY <1>3, <1>4
<1>7. ActiveInv' /\ PassInv' /\ TrackedInv' BY <1>2, <1>6, QueueKeeps, TrackedKeeps
<1>8. /\ \A q \in Process, r \in Run : FlushHolds(q, r)' => FlushHolds(q, r)
      /\ \A t \in Task, r \in Run : SweepHolds(t, r)' => SweepHolds(t, r)
  BY <1>4, <1>5, NewJobShapes DEF FlushHolds, SweepHolds
<1>9. RetryStep BY <1>2, <1>8, RetriesKeep
<1>10. Idle.at \in FlushSteps /\ Idle.at \in SweepSteps
  BY NewJobShapes DEF FlushSteps, SweepSteps
<1>11. ASSUME NEW q \in Process
       PROVE  flush'[q].at \in FlushSteps /\ FlushOf(q)'
  <2>1. CASE q = p
    <3>1. FlushOf(p)' BY <1>4, NewJobShapes DEF FlushOf
    <3> QED BY <1>4, <1>10, <2>1, <3>1
  <2>2. CASE q # p
    <3>1. FlushOf(q) /\ flush'[q].at \in FlushSteps BY <1>4, <2>2 DEF IInv, JobsInv, TypeOK
    <3>2. FlushOf(q)' BY <1>2, <1>4, <2>2, <3>1, FlushStays DEF FlushOf
    <3> QED BY <3>1, <3>2
  <2> QED BY <2>1, <2>2
<1>12. ASSUME NEW t \in Task
       PROVE  sweep'[t].at \in SweepSteps /\ SweepOf(t)'
  <2>1. CASE sweep'[t] = Idle
    <3>1. SweepOf(t)' BY <2>1, NewJobShapes DEF SweepOf
    <3> QED BY <1>10, <2>1, <3>1
  <2>2. CASE t[1] # p /\ sweep'[t] = sweep[t]
    <3>1. SweepOf(t) /\ sweep'[t].at \in SweepSteps /\ t[1] \in Process
      BY <2>2, TaskParts DEF IInv, JobsInv, TypeOK
    <3>2. SweepOf(t)' BY <1>2, <1>4, <2>2, <3>1, SweepStays DEF SweepOf
    <3> QED BY <3>1, <3>2
  <2> QED BY <1>5, <2>1, <2>2
<1>13. errors' \in 0..MaxErrors BY <1>1 DEF IInv, TypeOK
<1> QED BY <1>2, <1>4, <1>7, <1>9, <1>11, <1>12, <1>13, Together

\* Every child that is left has been told to stop when the flush looks at it.
LEMMA BeginFlushInv ==
  ASSUME IInv, NEW p \in Process, BeginFlush(p)
  PROVE  IStep
<1> DEFINE j == To(Idle, server[p].tracked, "next")
           row == [server[p] EXCEPT !.phase = "flushing"]
<1>1. /\ UNCHANGED <<run, alive, pass, sweep, errors>>
      /\ signalled' = signalled \cup server[p].tracked
      /\ \A t \in Task : t[1] = p => sweep[t].at = "idle"
      /\ server[p].phase = "stopping" /\ server' = [server EXCEPT ![p] = row]
      /\ flush' = [flush EXCEPT ![p] = j]
  BY ServerSees DEF BeginFlush
<1>2. server[p].tracked \subseteq Run BY ServerSees DEF ServerRow
<1>3. SameChildren BY <1>1, <1>2, ServerSees DEF SameChildren
<1>4. RowStep /\ SameRetries /\ SameQueue BY <1>1, <1>3, RowsKeep DEF IInv
<1>5. j \in Job /\ j.at = "next" /\ j.todo = server[p].tracked
  <2>1. "next" \in Steps BY DEF Steps, FlushSteps
  <2> QED BY <1>2, <2>1, NewJobs
<1>6. /\ row \in ServerRow /\ row.phase = "flushing" /\ row.active = server[p].active
      /\ row.tracked = server[p].tracked
  BY ServerSees DEF ServerRow
<1> HIDE DEF j, row
<1>7. /\ server' \in [Process -> ServerRow] /\ pass' \in [Process -> SUBSET Run] /\ Jobs'
      /\ server'[p] = row /\ flush'[p] = j
      /\ \A q \in Process \ {p} : server'[q] = server[q] /\ flush'[q] = flush[q]
  BY <1>1, <1>5, <1>6, ServerSees DEF IInv, Jobs
<1>8. \A q \in Process : /\ server'[q].active = server[q].active
                         /\ server'[q].tracked = server[q].tracked
                         /\ pass'[q] = pass[q]
  BY <1>1, <1>6, <1>7
<1>9. ActiveInv' /\ PassInv' /\ TrackedInv' BY <1>4, <1>8, QueueKeeps, TrackedKeeps
<1>10. /\ \A q \in Process, r \in Run : FlushHolds(q, r)' => FlushHolds(q, r)
       /\ \A t \in Task, r \in Run : SweepHolds(t, r)' => SweepHolds(t, r)
  BY <1>1, <1>5, <1>7 DEF FlushHolds, SweepHolds
<1>11. RetryStep BY <1>4, <1>10, RetriesKeep
<1>12. ASSUME NEW q \in Process
       PROVE  flush'[q].at \in FlushSteps /\ FlushOf(q)'
  <2>1. CASE q = p
    <3>1. \A r \in server[p].tracked : Stopped(r)'
      BY <1>1 DEF IInv, TrackedInv, Stopped
    <3>2. FlushOf(p)' BY <1>5, <1>6, <1>7, <3>1 DEF FlushOf, Stopped
    <3> QED BY <1>5, <1>7, <2>1, <3>2 DEF FlushSteps
  <2>2. CASE q # p
    <3>1. FlushOf(q) /\ flush'[q].at \in FlushSteps BY <1>7, <2>2 DEF IInv, JobsInv, TypeOK
    <3>2. FlushOf(q)' BY <1>4, <1>7, <2>2, <3>1, FlushStays DEF FlushOf
    <3> QED BY <3>1, <3>2
  <2> QED BY <2>1, <2>2
<1>13. ASSUME NEW t \in Task
       PROVE  sweep'[t].at \in SweepSteps /\ SweepOf(t)'
  <2>1. SweepOf(t) /\ sweep'[t].at \in SweepSteps /\ t[1] \in Process
    BY <1>1, TaskParts DEF IInv, JobsInv, TypeOK
  <2>2. sweep[t].at # "idle" => server'[t[1]].phase \in {"up", "stopping"}
    BY <1>1, <1>7, <2>1 DEF SweepOf
  <2>3. SweepOf(t)' BY <1>1, <1>4, <2>2, SweepStays
  <2> QED BY <2>1, <2>3
<1>14. errors' \in 0..MaxErrors BY <1>1 DEF IInv, TypeOK
<1> QED BY <1>4, <1>7, <1>9, <1>11, <1>12, <1>13, <1>14, Together

\* The slots are free when the pass selects its runs, and nobody but this
\* process can fill them with its executions.
LEMMA BeginPassInv ==
  ASSUME IInv, NEW p \in Process, BeginPass(p)
  PROVE  IStep
<1> DEFINE slots == MaxConcurrent - Cardinality(InStatus("running"))
<1>1. /\ UNCHANGED <<run, alive, signalled, server, flush, sweep, errors>> /\ slots > 0
      /\ pass' = [pass EXCEPT ![p] = Oldest(slots, InStatus("queued"))]
  BY DEF BeginPass
<1>2. RowStep /\ SameRetries /\ SameQueue BY <1>1, ChildrenStay, RowsKeep DEF IInv
<1>3. /\ InStatus("running") \subseteq Run /\ InStatus("queued") \subseteq Run
      /\ IsFiniteSet(InStatus("running")) /\ Cardinality(InStatus("running")) \in Nat
  BY RunsAreFinite DEF InStatus
<1>4. slots \in Nat BY <1>1, <1>3, ConstantsAssumption
<1> HIDE DEF slots
<1>5. /\ Oldest(slots, InStatus("queued")) \subseteq Run
      /\ Cardinality(Oldest(slots, InStatus("queued"))) <= slots
      /\ Cardinality(Oldest(slots, InStatus("queued"))) \in Nat
  <2>1. /\ Oldest(slots, InStatus("queued")) \subseteq InStatus("queued")
        /\ Cardinality(Oldest(slots, InStatus("queued"))) <= slots
    BY <1>3, <1>4, OldestSize
  <2> QED BY <1>3, <2>1, RunsAreFinite
<1>6. /\ pass' \in [Process -> SUBSET Run] /\ pass'[p] = Oldest(slots, InStatus("queued"))
      /\ \A q \in Process \ {p} : pass'[q] = pass[q]
  BY <1>1, <1>5, ServerSees
<1>7. ActiveInv' BY <1>1 DEF IInv, ActiveInv
<1>8. ASSUME NEW q \in Process
      PROVE  Cardinality(pass'[q]) + Cardinality(Executing(q)') <= MaxConcurrent
  <2>1. Executing(q)' = Executing(q) BY <1>1 DEF Executing
  <2>2. CASE q = p
    <3>1. Executing(p) \subseteq InStatus("running")
      BY ServerSees DEF Executing, InStatus, ServerRow
    <3>2. /\ Cardinality(Executing(p)) <= Cardinality(InStatus("running"))
          /\ Cardinality(Executing(p)) \in Nat
      BY <1>3, <3>1, FS_Subset, FS_CardinalityType
    <3> QED BY <1>3, <1>5, <1>6, <2>1, <2>2, <3>2, ConstantsAssumption DEF slots
  <2>3. CASE q # p BY <1>6, <2>1, <2>3 DEF IInv, PassInv
  <2> QED BY <2>2, <2>3
<1>9. PassInv' BY <1>8 DEF PassInv
<1> QED BY <1>1, <1>2, <1>6, <1>7, <1>9, ServerSees, ServerTogether

LEMMA ClaimInv ==
  ASSUME IInv, NEW p \in Process, Claim(p)
  PROVE  IStep
<1>1. PICK r \in Run :
        /\ IsFirst(r, pass[p]) /\ pass' = [pass EXCEPT ![p] = pass[p] \ {r}]
        /\ IF run[r].status = "queued"
           THEN /\ run' = [run EXCEPT ![r] = [run[r] EXCEPT !.status = "running"]]
                /\ server' = [server EXCEPT ![p] =
                                 [server[p] EXCEPT !.active = server[p].active \cup {r}]]
           ELSE UNCHANGED <<run, server>>
        /\ UNCHANGED <<alive, signalled, flush, sweep, errors>>
  BY ServerSees DEF Claim
<1>2. /\ r \in pass[p] /\ pass' \in [Process -> SUBSET Run] /\ pass'[p] = pass[p] \ {r}
      /\ \A q \in Process \ {p} : pass'[q] = pass[q]
  BY <1>1, ServerSees DEF IsFirst
<1>3. CASE run[r].status # "queued"
  <2>1. RowStep /\ SameRetries /\ SameQueue BY <1>1, <1>3, ChildrenStay, RowsKeep DEF IInv
  <2>2. ActiveInv' /\ PassInv' BY <1>1, <1>2, <1>3, <2>1, QueueKeeps
  <2> QED BY <1>1, <1>2, <1>3, <2>1, <2>2, ServerSees, ServerTogether
<1>4. CASE run[r].status = "queued"
  <2> DEFINE row == [run[r] EXCEPT !.status = "running"]
             srow == [server[p] EXCEPT !.active = server[p].active \cup {r}]
  <2>1. /\ row \in RunRow /\ row.status = "running" /\ row.losses = run[r].losses
        /\ row.retryOf = run[r].retryOf /\ row.code = run[r].code /\ row.pid = run[r].pid
    BY ServerSees DEF RunRow
  <2>2. /\ srow \in ServerRow /\ srow.active = server[p].active \cup {r}
        /\ srow.phase = server[p].phase /\ srow.tracked = server[p].tracked
    BY ServerSees DEF ServerRow
  <2>3. run' = [run EXCEPT ![r] = row] /\ server' = [server EXCEPT ![p] = srow] BY <1>1, <1>4
  <2> HIDE DEF row, srow
  <2>4. /\ run'[r] = row /\ \A q \in Run \ {r} : run'[q] = run[q]
        /\ run' \in [Run -> RunRow]
    BY <2>1, <2>3, ServerSees
  <2>5. /\ server'[p] = srow /\ \A q \in Process \ {p} : server'[q] = server[q]
        /\ server' \in [Process -> ServerRow]
    BY <2>2, <2>3, ServerSees
  <2>6. RowStep /\ SameRetries
    <3>0. \A q \in Run : Stopped(q)' <=> Stopped(q) BY <1>1, <2>1, <2>4 DEF Stopped
    <3>1. RowsInv' BY <1>1, <1>4, <2>1, <2>4, <3>0 DEF IInv, RowsInv
    <3>2. Steady BY <1>1, <1>4, <2>1, <2>4, <3>0 DEF Steady, Ended, IInv, RowsInv
    <3>3. SameRetries BY <2>1, <2>4 DEF SameRetries
    <3> QED BY <1>1, <2>4, <3>1, <3>2, <3>3, ServerSees DEF RowStep
  <2>7. \A q \in Process : r \notin server[q].active BY <1>4 DEF IInv, ActiveInv
  <2>8. ActiveInv'
    <3>1. \A q \in Process : \A x \in server'[q].active :
            run'[x].status \notin {"absent", "queued"}
      BY <2>1, <2>2, <2>4, <2>5, ServerSees DEF IInv, ActiveInv, ServerRow
    <3>2. \A q, s \in Process : q # s => server'[q].active \cap server'[s].active = {}
      BY <2>2, <2>5, <2>7 DEF IInv, ActiveInv
    <3> QED BY <3>1, <3>2 DEF ActiveInv
  <2>9. ASSUME NEW q \in Process
        PROVE  Cardinality(pass'[q]) + Cardinality(Executing(q)') <= MaxConcurrent
    <3>1. /\ Executing(q) \subseteq Run /\ pass[q] \subseteq Run
          /\ Cardinality(pass[q]) + Cardinality(Executing(q)) <= MaxConcurrent
      <4>1. server[q].active \subseteq Run /\ pass[q] \subseteq Run
        BY ServerSees DEF ServerRow
      <4> QED BY <4>1 DEF IInv, PassInv, Executing
    <3>2. CASE q = p
      <4>1. Executing(p)' = Executing(p) \cup {r} /\ r \notin Executing(p)
        BY <1>4, <2>1, <2>2, <2>4, <2>5, ServerSees DEF Executing, ServerRow
      <4>2. /\ IsFiniteSet(Executing(p)) /\ IsFiniteSet(pass[p])
            /\ Cardinality(Executing(p)) \in Nat /\ Cardinality(pass[p]) \in Nat
        BY <3>1, <3>2, RunsAreFinite
      <4>3. Cardinality(Executing(p)') = Cardinality(Executing(p)) + 1
        BY <4>1, <4>2, FS_AddElement
      <4>4. Cardinality(pass'[p]) = Cardinality(pass[p]) - 1
        <5>1. Cardinality(pass[p] \ {r}) =
                IF r \in pass[p] THEN Cardinality(pass[p]) - 1 ELSE Cardinality(pass[p])
          BY <4>2, FS_RemoveElement
        <5> QED BY <1>2, <5>1
      <4> QED BY <3>1, <3>2, <4>2, <4>3, <4>4, ConstantsAssumption
    <3>3. CASE q # p
      <4>1. Executing(q)' = Executing(q)
        BY <2>4, <2>5, <2>7, <3>3, ServerSees DEF Executing, ServerRow
      <4> QED BY <1>2, <3>1, <3>3, <4>1
    <3> QED BY <3>2, <3>3
  <2>10. PassInv' BY <2>9 DEF PassInv
  <2>11. \A q \in Process : /\ server'[q].phase = server[q].phase
                            /\ server'[q].tracked = server[q].tracked
    BY <2>2, <2>5
  <2> QED BY <1>1, <1>2, <2>5, <2>6, <2>8, <2>10, <2>11, ServerTogether
<1> QED BY <1>3, <1>4

LEMMA StartChildInv ==
  ASSUME IInv, NEW p \in Process, NEW r \in Run, StartChild(p, r)
  PROVE  IStep
<1> DEFINE row == [run[r] EXCEPT !.pid = TRUE]
           srow == [server[p] EXCEPT !.tracked = server[p].tracked \cup {r}]
<1>1. /\ UNCHANGED <<signalled, pass, flush, sweep, errors>> /\ alive' = alive \cup {r}
      /\ run[r].status = "running" /\ ~run[r].pid
      /\ run' = [run EXCEPT ![r] = row] /\ server' = [server EXCEPT ![p] = srow]
  BY ServerSees DEF StartChild
<1>2. /\ row \in RunRow /\ row.status = run[r].status /\ row.losses = run[r].losses
      /\ row.retryOf = run[r].retryOf /\ row.code = run[r].code /\ row.pid = TRUE
  BY ServerSees DEF RunRow
<1>3. /\ srow \in ServerRow /\ srow.active = server[p].active
      /\ srow.phase = server[p].phase /\ srow.tracked = server[p].tracked \cup {r}
  BY ServerSees DEF ServerRow
<1> HIDE DEF row, srow
<1>4. /\ run'[r] = row /\ run' \in [Run -> RunRow] /\ \A q \in Run \ {r} : run'[q] = run[q]
      /\ server' \in [Process -> ServerRow] /\ pass' \in [Process -> SUBSET Run]
      /\ \A q \in Process : /\ server'[q].active = server[q].active /\ pass'[q] = pass[q]
                            /\ server'[q].phase = server[q].phase
      /\ \A q \in Process : server'[q].tracked \subseteq server[q].tracked \cup {r}
  BY <1>1, <1>2, <1>3, ServerSees
<1>5. RowStep /\ SameRetries /\ SameQueue
  <2>0. \A q \in Run : Stopped(q) => Stopped(q)' BY <1>1, <1>4 DEF Stopped
  <2>1. RowsInv' BY <1>1, <1>2, <1>4, <2>0 DEF IInv, RowsInv
  <2>2. Steady BY <1>1, <1>2, <1>4, <2>0 DEF Steady, Ended
  <2>3. SameRetries /\ SameQueue BY <1>2, <1>4 DEF SameRetries, SameQueue
  <2> QED BY <1>1, <1>4, <2>1, <2>2, <2>3, ServerSees DEF RowStep
<1>6. ActiveInv' /\ PassInv' BY <1>4, <1>5, QueueKeeps
<1>7. \A q \in Process : \A x \in server'[q].tracked :
        x \in server[q].tracked \/ (x \in Run /\ run'[x].pid)
  BY <1>2, <1>4
<1> QED BY <1>1, <1>4, <1>5, <1>6, <1>7, ServerTogether

LEMMA DeferInv ==
  ASSUME IInv, NEW p \in Process, NEW r \in Run, Defer(p, r)
  PROVE  IStep
<1> DEFINE row == [run[r] EXCEPT !.status = "queued"]
           srow == [server[p] EXCEPT !.active = server[p].active \ {r}]
<1>1. /\ UNCHANGED <<alive, signalled, pass, flush, sweep, errors>> /\ r \in server[p].active
      /\ run[r].status = "running" /\ ~run[r].pid
      /\ run' = [run EXCEPT ![r] = row] /\ server' = [server EXCEPT ![p] = srow]
  BY ServerSees DEF Defer
<1>2. /\ row \in RunRow /\ row.status = "queued" /\ row.losses = run[r].losses
      /\ row.retryOf = run[r].retryOf /\ row.code = run[r].code /\ row.pid = run[r].pid
  BY ServerSees DEF RunRow
<1>3. /\ srow \in ServerRow /\ srow.active = server[p].active \ {r}
      /\ srow.phase = server[p].phase /\ srow.tracked = server[p].tracked
  BY ServerSees DEF ServerRow
<1> HIDE DEF row, srow
<1>4. /\ run'[r] = row /\ run' \in [Run -> RunRow] /\ \A q \in Run \ {r} : run'[q] = run[q]
  BY <1>1, <1>2, ServerSees
<1>5. /\ server' \in [Process -> ServerRow] /\ pass' \in [Process -> SUBSET Run]
      /\ server'[p] = srow /\ \A q \in Process \ {p} : server'[q] = server[q]
  BY <1>1, <1>3, ServerSees
<1>6. RowStep /\ SameRetries
  <2>0. \A q \in Run : Stopped(q)' <=> Stopped(q) BY <1>1, <1>2, <1>4 DEF Stopped
  <2>1. RowsInv' BY <1>1, <1>2, <1>4, <2>0 DEF IInv, RowsInv
  <2>2. Steady BY <1>1, <1>2, <1>4, <2>0 DEF Steady, Ended
  <2>3. SameRetries BY <1>2, <1>4 DEF SameRetries
  <2> QED BY <1>1, <1>4, <2>1, <2>2, <2>3, ServerSees DEF RowStep
<1>7. \A q \in Process : r \notin server'[q].active /\ server'[q].active \subseteq server[q].active
  BY <1>1, <1>3, <1>5 DEF IInv, ActiveInv
<1>8. \A q \in Process : server[q].active \subseteq Run BY ServerSees DEF ServerRow
<1>9. ActiveInv' BY <1>4, <1>7, <1>8 DEF IInv, ActiveInv
<1>10. \A q \in Process : Executing(q)' \subseteq Executing(q) /\ pass'[q] = pass[q]
  BY <1>1, <1>4, <1>7, <1>8 DEF Executing
<1>11. PassInv' BY <1>10, PassKeeps
<1>12. \A q \in Process : /\ server'[q].phase = server[q].phase
                          /\ server'[q].tracked = server[q].tracked
  BY <1>3, <1>5
<1> QED BY <1>1, <1>5, <1>6, <1>9, <1>11, <1>12, ServerTogether

LEMMA FinishInv ==
  ASSUME IInv, NEW p \in Process, NEW r \in Run, Finish(p, r)
  PROVE  IStep
<1> DEFINE srow == [server[p] EXCEPT !.active = server[p].active \ {r}]
<1>1. /\ UNCHANGED <<alive, signalled, pass, flush, sweep, errors>> /\ EndIfRunning(r, "succeeded", "none")
      /\ server' = [server EXCEPT ![p] = srow]
  BY ServerSees DEF Finish
<1>2. /\ srow \in ServerRow /\ srow.active \subseteq server[p].active
      /\ srow.phase = server[p].phase /\ srow.tracked = server[p].tracked
  BY ServerSees DEF ServerRow
<1> HIDE DEF srow
<1>3. /\ server' \in [Process -> ServerRow] /\ pass' \in [Process -> SUBSET Run]
      /\ \A q \in Process : /\ server'[q].active \subseteq server[q].active
                            /\ pass'[q] \subseteq pass[q] /\ server'[q].phase = server[q].phase
                            /\ server'[q].tracked = server[q].tracked
  BY <1>1, <1>2, ServerSees
<1>4. RowStep /\ SameRetries /\ SameQueue BY <1>1, ChildrenStay, EndKeeps DEF IInv, Ended
<1>5. ActiveInv' /\ PassInv' BY <1>3, <1>4, QueueKeeps
<1> QED BY <1>1, <1>3, <1>4, <1>5, ServerTogether

LEMMA ChildExitsInv ==
  ASSUME IInv, NEW r \in Run, ChildExits(r)
  PROVE  IStep
<1>1. /\ UNCHANGED <<run, pass, flush, sweep, errors>> /\ SameChildren
      /\ server' = [p \in Process |-> [server[p] EXCEPT !.tracked = @ \ {r}]]
  BY ServerSees DEF ChildExits, SameChildren
<1>2. ASSUME NEW p \in Process
      PROVE  /\ server'[p] \in ServerRow /\ server'[p].active = server[p].active
             /\ server'[p].phase = server[p].phase /\ pass'[p] = pass[p]
             /\ server'[p].tracked \subseteq server[p].tracked
  <2>1. server'[p] = [server[p] EXCEPT !.tracked = server[p].tracked \ {r}] BY <1>1
  <2> QED BY <1>1, <2>1, ServerSees DEF ServerRow
<1>3. server' \in [Process -> ServerRow] /\ pass' \in [Process -> SUBSET Run]
  BY <1>1, <1>2, ServerSees
<1>4. RowStep /\ SameRetries /\ SameQueue BY <1>1, RowsKeep DEF IInv
<1>5. ActiveInv' /\ PassInv' BY <1>2, <1>4, QueueKeeps
<1> QED BY <1>1, <1>2, <1>3, <1>4, <1>5, ServerTogether

-----------------------------------------------------------------------------
LEMMA InitInv == Init => IInv
<1> SUFFICES ASSUME Init PROVE IInv OBVIOUS
<1>1. run \in [Run -> RunRow] /\ \A r \in Run : /\ run[r].status \in {"queued", "absent"}
                                              /\ run[r].code = "none" /\ run[r].retryOf = None
                                              /\ run[r].pid = FALSE
  BY DEF Init, Row, RunRow
<1>2. server \in [Process -> ServerRow] /\ \A p \in Process : server[p].active = {} /\ server[p].tracked = {}
  BY DEF Init, Server, ServerRow
<1>3. /\ alive = {} /\ signalled = {} /\ errors = 0 /\ errors \in 0..MaxErrors
      /\ pass = [p \in Process |-> {}] /\ flush = [p \in Process |-> Idle]
      /\ sweep = [t \in Task |-> Idle]
  BY ConstantsAssumption DEF Init
<1>4. Idle.at \in FlushSteps /\ Idle.at \in SweepSteps BY NewJobShapes DEF FlushSteps, SweepSteps
<1>5. TypeOK BY <1>1, <1>2, <1>3, <1>4, NewJobShapes DEF TypeOK, RunRow, ServerRow
<1>6. Jobs BY <1>3, NewJobShapes DEF Jobs
<1>7. RowsInv BY <1>1, <1>3 DEF RowsInv
<1>8. ActiveInv /\ TrackedInv BY <1>2 DEF ActiveInv, TrackedInv
<1>9. PassInv
  <2>1. \A p \in Process : pass[p] = {} /\ Executing(p) = {} BY <1>2, <1>3 DEF Executing
  <2> QED BY <2>1, FS_EmptySet, ConstantsAssumption DEF PassInv
<1>10. JobsInv BY <1>3, NewJobShapes DEF JobsInv, FlushOf, SweepOf
<1>11. RetryInv
  <2>1. None \notin Run BY ConstantsAssumption DEF None, Run
  <2>2. \A r \in Run : Successors(r) = {} BY <1>1, <2>1 DEF Successors
  <2> QED BY <2>2 DEF RetryInv
<1> QED BY <1>5, <1>6, <1>7, <1>8, <1>9, <1>10, <1>11 DEF IInv

LEMMA NextInv ==
  ASSUME IInv, [Next]_vars
  PROVE  IStep
<1>1. CASE UNCHANGED vars
  <2>1. UNCHANGED <<run, alive, signalled, server, pass, flush, sweep, errors>> BY <1>1 DEF vars
  <2>2. RowStep /\ SameRetries /\ SameQueue BY <2>1, ChildrenStay, RowsKeep DEF IInv
  <2>3. ActiveInv' /\ PassInv' BY <2>1, <2>2, QueueKeeps
  <2> QED BY <2>1, <2>2, <2>3, ServerSees, ServerTogether
<1>2. ASSUME NEW p \in Process,
             \/ Start(p) \/ Signal(p) \/ Crash(p) \/ BeginPass(p) \/ Claim(p)
             \/ \E r \in Run :
                  StartChild(p, r) \/ Defer(p, r) \/ Finish(p, r) \/ FailExecution(p, r)
      PROVE  IStep
  BY <1>2, PhaseInv, GoneInv, BeginPassInv, ClaimInv, StartChildInv, DeferInv, FinishInv
<1>3. ASSUME NEW p \in Process, Flush(p) \/ FlushDeadline(p) \/ FlushFails(p)
      PROVE  IStep
  BY <1>3, BeginFlushInv, FlushNextInv, FlushSkipsInv, FlushMarksInv, FlushRetriesInv, GoneInv
     DEF Flush
<1>4. ASSUME NEW t \in Task, Sweep(t) \/ SweepFails(t)
      PROVE  IStep
  BY <1>4, SweepStartInv, SweepVisitsInv, SweepLosesInv, SweepRetriesInv, SweepTurnsInv,
     BackstopChecksInv, SweepFailsInv DEF Sweep
<1>5. ASSUME NEW r \in Run, ChildExits(r) PROVE IStep BY <1>5, ChildExitsInv
<1> QED BY <1>1, <1>2, <1>3, <1>4, <1>5 DEF Next

\* The rows, the jobs of the processes and what they rely on agree in every
\* reachable state.
THEOREM InterruptedInvariant == Spec => []IInv
<1>1. IInv /\ [Next]_vars => IInv' BY NextInv DEF IStep
<1> QED BY <1>1, InitInv, PTL DEF Spec

\* Rows, processes, passes, flushes and sweeps keep their types; the losses of
\* a run stay within the budget of one.
THEOREM InterruptedTypeCorrect == Spec => []TypeOK
<1>1. IInv => TypeOK BY DEF IInv
<1> QED BY <1>1, InterruptedInvariant, PTL

\* Under the start lock of a process alone, its executions stay within the
\* limit of the agent (heartbeat-start-lock.ts:4-21).
THEOREM ClaimsStayWithinLimit == Spec => []ClaimsWithinLimit
<1>1. ASSUME IInv PROVE ClaimsWithinLimit
  <2> SUFFICES ASSUME NEW p \in Process PROVE Cardinality(Executing(p)) <= MaxConcurrent
    BY DEF ClaimsWithinLimit, Executing
  <2>1. pass[p] \subseteq Run /\ Executing(p) \subseteq Run
    BY <1>1, ServerSees DEF Executing, ServerRow
  <2>2. Cardinality(pass[p]) \in Nat /\ Cardinality(Executing(p)) \in Nat
    BY <2>1, RunsAreFinite
  <2>3. Cardinality(pass[p]) + Cardinality(Executing(p)) <= MaxConcurrent
    BY <1>1 DEF IInv, PassInv
  <2> QED BY <2>2, <2>3, ConstantsAssumption
<1> QED BY <1>1, InterruptedInvariant, PTL

\* A child that still runs beside the retry of its run has been told to stop,
\* by a shutdown or by the cap on detached children
\* (heartbeat-orphan-reaper.ts:278-322).
THEOREM RetriedChildrenWereStopped == Spec => []RetriedChildWasStopped
<1>1. IInv => RetriedChildWasStopped
  BY DEF IInv, TypeOK, RetryInv, Stopped, RetriedChildWasStopped
<1> QED BY <1>1, InterruptedInvariant, PTL

\* Who did not hold a run when it got a retry takes it up no more, however many
\* processes, overlapping sweeps and failing statements there are
\* (heartbeat-orphan-reaper.ts:413-468).
THEOREM RetriedRunsAreNotTakenUp == Spec => RetriedIsNotTakenUp
<1>1. IInv /\ [Next]_vars
        => [\A r \in Run : Successors(r) # {} => Holders(r)' \subseteq Holders(r)]_vars
  BY NextInv DEF IStep, RetryStep
<1> QED BY <1>1, InterruptedInvariant, PTL DEF Spec, RetriedIsNotTakenUp

\* So the retries of a run are no more than the flushes and the recovery tasks
\* that can be at work.
THEOREM RetriesAreCounted ==
  Spec => [](\A r \in Run : Cardinality(Successors(r)) <= Servers * (Sweeps + 1))
<1>1. IInv => \A r \in Run : Cardinality(Successors(r)) <= Servers * (Sweeps + 1)
  <2> SUFFICES ASSUME IInv, NEW r \in Run
               PROVE  Cardinality(Successors(r)) <= Servers * (Sweeps + 1)
    OBVIOUS
  <2>1. Cardinality(Successors(r)) \in Nat BY RunsAreFinite DEF Successors
  <2>2. /\ Cardinality(Holders(r)) \in Nat /\ Servers * (Sweeps + 1) \in Nat
    BY HoldersAreFinite DEF Holders, Holder
  <2>3. CASE Successors(r) = {} BY <2>2, <2>3, FS_EmptySet
  <2>4. CASE Successors(r) # {} BY <2>1, <2>2, <2>4 DEF IInv, RetryInv
  <2> QED BY <2>3, <2>4
<1> QED BY <1>1, InterruptedInvariant, PTL
=============================================================================
