----------------------- MODULE RunFinalization_proofs -----------------------
(***************************************************************************)
(* Proofs about RunFinalization for every number of runs, slots, sweeps,   *)
(* leases, generations, restarts and errors.                               *)
(***************************************************************************)
EXTENDS RunFinalization, FiniteSetTheorems, TLAPS

(* The inductive invariant, by parts.                                      *)

\* A sweep or recovery that awaits something works on a run, and what the
\* sweep has timed out has ended.
VisitsARun ==
  /\ \A s \in Sweep : /\ sweep[s].at # "scan" => sweep[s].run \in Run
                      /\ sweep[s].at = "timeout" => Ended(sweep[s].run)
  /\ recovery.at = "gate" => recovery.run \in Run

\* What a terminal writer owes is owed to a run that has ended.
OwedIsEnded == \A r \in Run : tail[r].at # "none" => Ended(r)

\* What a row says of itself: an outcome is the status of an ended run; a stage
\* is recorded for an ended v1 run only, quiescence with the capability
\* released only, settlement with both only; what runs was claimed.
RowSound(R) ==
  /\ R.outcome # "none" => R.status \in Terminal /\ R.outcome = R.status
  /\ R.quiesced \/ R.compensated => R.status \in Terminal /\ R.v1 /\ R.parent
  /\ R.quiesced => R.released
  /\ R.settled => R.quiesced /\ R.compensated
  /\ R.status = "running" => R.v1

RowsSound == \A r \in Run : RowSound(row[r])

\* A living local child has its pid in a row that was claimed and has not
\* been concluded quiescent, and its execution is past the spawn.
Recorded(R) ==
  (R.status = "running" \/ R.status \in Terminal) /\ R.v1 /\ R.pid /\ ~R.quiesced

Early == {"claimed", "setup", "acked"}

LiveIsRecorded ==
  LocalChild => \A r \in Run : live[r] => Recorded(row[r]) /\ exec[r] \notin Early

Occupied == RunningRows \cup {r \in Run : live[r]}
OccupiedIsBounded == LocalChild => Cardinality(Occupied) <= MaxConcurrent

-----------------------------------------------------------------------------
(* Type correctness.                                                       *)

TypeInv == TypeOK /\ VisitsARun /\ OwedIsEnded

\* Writing a typed row at r keeps the table typed.
LEMMA RowTyped ==
  ASSUME TypeOK, NEW r \in Run, NEW R \in Row
  PROVE  [row EXCEPT ![r] = R] \in [Run -> Row]
  BY DEF TypeOK

\* A compare-and-set on the status keeps the row typed.
LEMMA StatusTyped ==
  ASSUME NEW R \in Row, NEW s \in Status
  PROVE  [R EXCEPT !.status = s] \in Row
  BY DEF Row

\* decideHeartbeatTerminalOutcomeFirstWins keeps type and status.
LEMMA DecidedTyped ==
  ASSUME NEW R \in Row, R.status \in Terminal, NEW l
  PROVE  /\ Decided(R, l) \in Row
         /\ Decided(R, l).status = R.status
  BY DEF Row, Decided

\* The terminal hook keeps type and status.
LEMMA HookedTyped ==
  ASSUME NEW R \in Row, R.status \in Terminal
  PROVE  /\ Hooked(R) \in Row
         /\ Hooked(R).status = R.status
  BY DecidedTyped DEF Row, Hooked

\* The release of the capability keeps type and status.
LEMMA ReleasedTyped ==
  ASSUME NEW R \in Row
  PROVE  /\ Released(R) \in Row
         /\ Released(R).status = R.status
  BY DEF Row, Released

\* A finalization in one transaction keeps the type and sets the status.
LEMMA FinalizedTyped ==
  ASSUME NEW R \in Row, NEW s \in Terminal
  PROVE  /\ Finalized(R, s) \in Row
         /\ Finalized(R, s).status = s
<1> DEFINE S == [R EXCEPT !.status = s]
<1>1. S \in Row /\ S.status = s BY StatusTyped DEF Row, Status
<1>2. Hooked(S) \in Row /\ Hooked(S).status = s BY <1>1, HookedTyped
<1> QED BY <1>2, ReleasedTyped DEF Finalized

\* A run that has ended stays ended.
EndedStays == \A r \in Run : Ended(r) => Ended(r)'

\* A row written typed, and ended if it was ended, keeps what has ended.
LEMMA RowWrite ==
  ASSUME TypeOK, NEW r \in Run, NEW R \in Row, Ended(r) => R.status \in Terminal,
         row' = [row EXCEPT ![r] = R]
  PROVE  row' \in [Run -> Row] /\ EndedStays
<1>1. row' \in [Run -> Row] BY RowTyped
<1>2. row'[r] = R /\ \A q \in Run : q # r => row'[q] = row[q] BY DEF TypeOK
<1> QED BY <1>1, <1>2 DEF EndedStays, Ended

\* A status written outside a transaction owes the rest to an ended run.
LEMMA TerminateTyped ==
  ASSUME TypeInv, NEW r \in Run, NEW s \in Terminal, NEW unlink \in BOOLEAN,
         Terminate(r, s, unlink)
  PROVE  /\ row' \in [Run -> Row] /\ EndedStays
         /\ tail' \in [Run -> [at : TailPhase, lease : Nat, unlink : BOOLEAN]]
         /\ OwedIsEnded'
<1>1. row[r] \in Row BY DEF TypeInv, TypeOK
<1>2. row' = [row EXCEPT ![r] = [row[r] EXCEPT !.status = s]]
  BY <1>1 DEF Terminate, TypeInv, TypeOK
<1>3. [row[r] EXCEPT !.status = s] \in Row /\ [row[r] EXCEPT !.status = s].status = s
  BY <1>1, StatusTyped DEF Row, Status
<1>4. row' \in [Run -> Row] /\ EndedStays BY <1>2, <1>3, RowWrite DEF TypeInv
<1>5. row'[r].status = s BY <1>2, <1>3 DEF TypeInv, TypeOK
<1>6. tail' \in [Run -> [at : TailPhase, lease : Nat, unlink : BOOLEAN]]
  BY <1>1 DEF Terminate, TypeInv, TypeOK, TailPhase, Row
<1>7. OwedIsEnded'
  BY <1>4, <1>5 DEF Terminate, OwedIsEnded, EndedStays, Ended, TypeInv, TypeOK
<1> QED BY <1>4, <1>6, <1>7

\* Recording the stages of an ended run keeps it typed and ended.
LEMMA FullStagesTyped ==
  ASSUME TypeInv, NEW r \in Run, FullStages(r)
  PROVE  row' \in [Run -> Row] /\ EndedStays
<1>1. row[r] \in Row BY DEF TypeInv, TypeOK
<1>2. Proof(r) \in BOOLEAN BY <1>1 DEF Proof, Row
<1>3. Staged(row[r], Proof(r)) \in Row
      /\ Staged(row[r], Proof(r)).status = row[r].status
  BY <1>1, <1>2 DEF Staged, Row
<1>4. row' = [row EXCEPT ![r] = Staged(row[r], Proof(r))] BY DEF FullStages
<1> QED BY <1>1, <1>3, <1>4, RowWrite DEF TypeInv, Ended

\* settleRunIfReady keeps row and step typed.
LEMMA SettleTyped ==
  ASSUME TypeInv, NEW r \in Run, SettleIfReady(r)
  PROVE  row' \in [Run -> Row] /\ EndedStays /\ step' \in Step
<1>1. row[r] \in Row /\ step \in Step BY DEF TypeInv, TypeOK
<1>2. CASE GateOpen(r)
  <2>1. [row[r] EXCEPT !.settled = TRUE] \in Row
        /\ [row[r] EXCEPT !.settled = TRUE].status = row[r].status
    BY <1>1 DEF Row
  <2>2. row' = [row EXCEPT ![r] = [row[r] EXCEPT !.settled = TRUE]]
    BY <1>1, <1>2 DEF SettleIfReady, TypeInv, TypeOK
  <2>3. step' \in Step
    BY <1>1, <1>2, ConstantsAssumption DEF SettleIfReady, Step, Run
  <2> QED BY <2>1, <2>2, <2>3, RowWrite DEF TypeInv, Ended
<1>3. CASE ~GateOpen(r)
  BY <1>1, <1>3 DEF SettleIfReady, EndedStays, Ended, TypeInv, TypeOK
<1> QED BY <1>2, <1>3

\* The row of a new wake is typed.
LEMMA QueuedTyped ==
  ASSUME NEW g \in 0..MaxGeneration
  PROVE  AbsentRow \in Row /\ QueuedRow(g) \in Row /\ QueuedRow(g).status = "queued"
<1>1. None \in Nat /\ None \in 0..MaxGeneration /\ None \in 0..MaxRuns
  BY ConstantsAssumption DEF None
<1>2. "absent" \in Status /\ "queued" \in Status BY DEF Status
<1>3. AbsentRow \in Row BY <1>1, <1>2 DEF AbsentRow, Row
<1>4. QueuedRow(g) \in Row /\ QueuedRow(g).status = "queued"
  BY <1>2, <1>3 DEF QueuedRow, Row
<1> QED BY <1>3, <1>4

\* A retry or fallback keeps row and step typed, and what has ended.
LEMMA EnqueueTyped ==
  ASSUME TypeInv, NEW p \in Run, NEW kind, EnqueueChild(p, kind)
  PROVE  row' \in [Run -> Row] /\ EndedStays /\ step' \in Step
<1> DEFINE P == [row[p] EXCEPT !.lease = row[p].lease + 1, !.released = TRUE]
           C == [Child(p, kind) EXCEPT !.v1 = TRUE, !.generation = row[p].generation]
<1>1. PICK c \in Run :
        /\ row[c].status = "absent"
        /\ IF Transfers(p)
           THEN /\ row' = [row EXCEPT ![p].lease = @ + 1, ![p].released = TRUE,
                                      ![c] = C]
                /\ step' = [step EXCEPT !.owner = c]
           ELSE row' = [row EXCEPT ![c] = Child(p, kind)] /\ UNCHANGED step
  BY DEF EnqueueChild
<1>2. row[p] \in Row /\ row[c] \in Row /\ row \in [Run -> Row] /\ step \in Step
  BY DEF TypeInv, TypeOK
<1>3. Child(p, kind) \in Row
  <2> DEFINE losses == row[p].losses + (IF kind = "retry" THEN 1 ELSE 0)
             fallbacks == row[p].fallbacks + (IF kind = "fallback" THEN 1 ELSE 0)
             wake == row[p].wakeGeneration
  <2>1. losses \in Nat /\ fallbacks \in Nat /\ wake \in 0..MaxGeneration BY <1>2 DEF Row
  <2>2. p \in 0..MaxRuns BY DEF Run
  <2>3. Child(p, kind) = [QueuedRow(wake) EXCEPT !.retryOf = p, !.losses = losses,
                                                !.fallbacks = fallbacks]
    BY DEF Child
  <2> HIDE DEF losses, fallbacks, wake
  <2>4. QueuedRow(wake) \in Row BY <2>1, QueuedTyped
  <2> QED BY <2>1, <2>2, <2>3, <2>4 DEF Row
<1>4. C \in Row BY <1>2, <1>3 DEF Row
<1>5. P \in Row /\ P.status = row[p].status
  <2> DEFINE lease == row[p].lease + 1
  <2>1. lease \in Nat BY <1>2 DEF Row
  <2>2. P = [row[p] EXCEPT !.lease = lease, !.released = TRUE] OBVIOUS
  <2> HIDE DEF P, lease
  <2> QED BY <1>2, <2>1, <2>2 DEF Row
<1>6. ~Ended(c) BY <1>1 DEF Ended, Terminal
<1>7. CASE Transfers(p)
  <2>1. row' = [[row EXCEPT ![p] = P] EXCEPT ![c] = C] BY <1>1, <1>2, <1>7
  <2> HIDE DEF P, C
  <2>2. row' \in [Run -> Row] BY <2>1, <1>2, <1>4, <1>5
  <2>3. EndedStays BY <2>1, <1>2, <1>5, <1>6 DEF EndedStays, Ended
  <2>4. step' \in Step BY <1>1, <1>2, <1>7 DEF Step, Run
  <2> QED BY <2>2, <2>3, <2>4
<1>8. CASE ~Transfers(p)
  <2>1. row' = [row EXCEPT ![c] = Child(p, kind)] /\ step' = step BY <1>1, <1>8
  <2> QED BY <2>1, <1>2, <1>3, <1>6, RowWrite DEF TypeInv
<1> QED BY <1>7, <1>8

\* What remains of the invariant once the row and the other fields are typed.
LEMMA OwedStays ==
  ASSUME TypeInv, EndedStays, UNCHANGED tail
  PROVE  OwedIsEnded'
  BY DEF TypeInv, OwedIsEnded, EndedStays

\* An action that keeps sweep and recovery keeps their visits.
LEMMA VisitsStay ==
  ASSUME TypeInv, EndedStays, UNCHANGED <<sweep, recovery>>
  PROVE  VisitsARun'
<1>1. ASSUME NEW s \in Sweep
      PROVE  /\ sweep'[s].at # "scan" => sweep'[s].run \in Run
             /\ sweep'[s].at = "timeout" => row'[sweep'[s].run].status \in Terminal
  BY "scan" # "timeout" DEF TypeInv, VisitsARun, EndedStays, Ended
<1> QED BY <1>1 DEF TypeInv, VisitsARun, Ended

\* A sweep that moves on keeps its type and visits a run.
LEMMA SweepGoesTyped ==
  ASSUME TypeInv, NEW s \in Sweep, NEW r \in Run, NEW phase \in SweepPhase,
         SweepGoes(s, phase, r), EndedStays, UNCHANGED recovery,
         phase = "timeout" => Ended(r)'
  PROVE  /\ sweep' \in [Sweep -> [todo : SUBSET Run, pids : SUBSET Run,
                                  at : SweepPhase, run : 0..MaxRuns]]
         /\ VisitsARun'
<1>1. r \in 0..MaxRuns /\ None \in 0..MaxRuns BY ConstantsAssumption DEF Run, None
<1>2. sweep \in [Sweep -> [todo : SUBSET Run, pids : SUBSET Run,
                           at : SweepPhase, run : 0..MaxRuns]]
  BY DEF TypeInv, TypeOK
<1>3. /\ sweep'[s].at = phase
      /\ phase # "scan" => sweep'[s].run = r
      /\ \A t \in Sweep : t # s => sweep'[t] = sweep[t]
  BY <1>2 DEF SweepGoes
<1>4. sweep' \in [Sweep -> [todo : SUBSET Run, pids : SUBSET Run,
                            at : SweepPhase, run : 0..MaxRuns]]
  BY <1>1, <1>2 DEF SweepGoes
<1>5. ASSUME NEW t \in Sweep
      PROVE  /\ sweep'[t].at # "scan" => sweep'[t].run \in Run
             /\ sweep'[t].at = "timeout" => row'[sweep'[t].run].status \in Terminal
  BY <1>3, "scan" # "timeout" DEF TypeInv, VisitsARun, EndedStays, Ended
<1> QED BY <1>4, <1>5 DEF TypeInv, VisitsARun, Ended

\* One step of what a writer owes keeps the type.
LEMMA TailMoveTyped ==
  ASSUME TypeInv, EndedStays, NEW r \in Run, tail[r].at # "none",
         NEW to \in TailPhase, tail' = [tail EXCEPT ![r].at = to]
  PROVE  /\ tail' \in [Run -> [at : TailPhase, lease : Nat, unlink : BOOLEAN]]
         /\ OwedIsEnded'
<1>1. tail' \in [Run -> [at : TailPhase, lease : Nat, unlink : BOOLEAN]]
  BY DEF TypeInv, TypeOK
<1>2. \A q \in Run : q # r => tail'[q] = tail[q] BY DEF TypeInv, TypeOK
<1> QED BY <1>1, <1>2 DEF TypeInv, OwedIsEnded, EndedStays

\* The four steps of a terminal writer keep the invariant.
LEMMA TailTyped ==
  ASSUME TypeInv, NEW r \in Run, Tail(r) \/ TailFails(r)
  PROVE  TypeInv'
<1> USE DEF TailMoves, TailPhase
<1>1. row[r] \in Row BY DEF TypeInv, TypeOK
<1>2. tail[r].at # "none" /\ Ended(r)
  BY DEF TypeInv, OwedIsEnded, Tail, TailDecide, TailHook, TailRelease, TailUnlink, TailFails
<1>3. AfterHook(r) \in TailPhase BY DEF AfterHook
<1>4. PICK to \in TailPhase : tail' = [tail EXCEPT ![r].at = to]
  BY <1>3 DEF Tail, TailDecide, TailHook, TailRelease, TailUnlink, TailFails
<1>5. row' \in [Run -> Row] /\ EndedStays
  <2>1. CASE TailDecide(r) \/ TailHook(r) \/ TailRelease(r)
    <3>1. PICK R \in Row : R.status = row[r].status /\ row' = [row EXCEPT ![r] = R]
      BY <1>1, <1>2, <2>1, DecidedTyped, HookedTyped, ReleasedTyped
      DEF TailDecide, TailHook, TailRelease, Ended
    <3> QED BY <1>2, <3>1, RowWrite DEF TypeInv, Ended
  <2>2. CASE TailFails(r) \/ TailUnlink(r)
    BY <2>2 DEF TailFails, TailUnlink, EndedStays, Ended, TypeInv, TypeOK
  <2> QED BY <2>1, <2>2 DEF Tail
<1>6. active' \subseteq Run /\ errors' \in 0..MaxErrors
  BY ConstantsAssumption
  DEF TypeInv, TypeOK, Tail, TailDecide, TailHook, TailRelease, TailUnlink, TailFails, counters
<1>7. UNCHANGED <<step, exec, frame, live, sweep, recovery, draining, restarts>>
  BY DEF Tail, TailDecide, TailHook, TailRelease, TailUnlink, TailFails, counters
<1>8. TypeOK' BY <1>2, <1>4, <1>5, <1>6, <1>7, TailMoveTyped DEF TypeInv, TypeOK
<1> QED BY <1>2, <1>4, <1>5, <1>7, <1>8, TailMoveTyped, VisitsStay DEF TypeInv

\* An action that keeps tail, sweep and recovery keeps the invariant if it
\* keeps the types and what has ended.
LEMMA WriterTyped ==
  ASSUME TypeInv, TypeOK', EndedStays, UNCHANGED <<tail, sweep, recovery>>
  PROVE  TypeInv'
  BY OwedStays, VisitsStay DEF TypeInv

\* The queue and executeRun, an action per step.
LEMMA ExecutionTyped ==
  ASSUME TypeInv, NEW r \in Run
  PROVE  Claim(r) \/ ClaimRefused(r) \/ Execution(r) \/ SetupFails(r) \/ RetryFailed(r)
           \/ FallbackOfLost(r) => TypeInv'
<1> USE DEF At, Goto, ExecPhase, memory, counters
<1>1. TypeOK /\ row[r] \in Row /\ row \in [Run -> Row] BY DEF TypeInv, TypeOK
<1>2. \A q \in Run : row'[q] = row[q] => (Ended(q) => Ended(q)') BY DEF Ended
<1>a. UNCHANGED row => EndedStays BY DEF EndedStays, Ended
<1>3. ASSUME Claim(r) PROVE TypeInv'
  <2> DEFINE lease == row[r].lease + 1
             R == [row[r] EXCEPT !.status = "running", !.started = TRUE, !.v1 = TRUE,
                     !.lease = lease, !.acked = FALSE, !.released = FALSE,
                     !.generation = row[r].wakeGeneration]
  <2>1. row' = [row EXCEPT ![r] = R] BY <1>3 DEF Claim
  <2>2. lease \in Nat BY <1>1 DEF Row
  <2> HIDE DEF lease
  <2>3. R \in Row BY <1>1, <2>2 DEF Row, Status
  <2>4. ~Ended(r) BY <1>3 DEF Claim, Ended, Terminal
  <2> HIDE DEF R
  <2>5. row' \in [Run -> Row] /\ EndedStays BY <1>1, <2>1, <2>3, <2>4, RowWrite
  <2>6. step' \in Step
    <3>1. step \in Step /\ r \in 0..MaxRuns BY <1>1 DEF TypeOK, Run
    <3>2. step' = [step EXCEPT !.owner = r] BY <1>3 DEF Claim
    <3> QED BY <3>1, <3>2 DEF Step
  <2>7. TypeOK' BY <1>1, <1>3, <2>5, <2>6 DEF TypeOK, Claim
  <2> QED BY <1>3, <2>5, <2>7, WriterTyped DEF Claim
<1>4. ASSUME ClaimRefused(r) PROVE TypeInv'
  <2>1. "cancelled" \in Terminal BY DEF Terminal
  <2>2. TypeOK' /\ OwedIsEnded' /\ EndedStays
    BY <1>1, <1>4, <2>1, TerminateTyped DEF TypeOK, ClaimRefused
  <2> QED BY <1>4, <2>2, VisitsStay DEF ClaimRefused, TypeInv
<1>5. ASSUME ExecuteRun(r) PROVE TypeInv'
  <2>1. row[r].lease \in Nat BY <1>1 DEF Row
  <2>2. frame' \in [Run -> [lease : Nat, invoked : BOOLEAN]]
    <3>1. frame \in [Run -> [lease : Nat, invoked : BOOLEAN]] BY <1>1 DEF TypeOK
    <3> DEFINE F == [lease |-> row[r].lease, invoked |-> FALSE]
    <3>2. F \in [lease : Nat, invoked : BOOLEAN] BY <2>1
    <3>3. frame' = [frame EXCEPT ![r] = F] \/ frame' = frame BY <1>5 DEF ExecuteRun
    <3> HIDE DEF F
    <3> QED BY <3>1, <3>2, <3>3
  <2>3. active' \subseteq Run /\ exec' \in [Run -> ExecPhase]
    BY <1>1, <1>5 DEF TypeOK, ExecuteRun
  <2>4. TypeOK' BY <1>1, <1>5, <2>2, <2>3 DEF TypeOK, ExecuteRun
  <2> QED BY <1>5, <1>a, <2>4, WriterTyped DEF ExecuteRun
<1>6. ASSUME NEW s \in Terminal,
             \/ Terminate(r, s, FALSE)
             \/ UNCHANGED <<row, tail>>,
             NEW phase \in ExecPhase, Goto(r, phase),
             UNCHANGED <<step, frame, active, live, sweep, recovery, draining, counters>>
      PROVE  TypeInv'
  <2>1. CASE Terminate(r, s, FALSE)
    <3>1. TypeOK' /\ OwedIsEnded' /\ EndedStays
      BY <1>1, <1>6, <2>1, TerminateTyped DEF TypeOK
    <3> QED BY <1>6, <3>1, VisitsStay DEF TypeInv
  <2>2. CASE UNCHANGED <<row, tail>>
    <3>1. TypeOK' BY <1>1, <1>6, <2>2 DEF TypeOK
    <3> QED BY <1>6, <1>a, <2>2, <3>1, WriterTyped
  <2> QED BY <1>6, <2>1, <2>2
<1>7. ASSUME SetupFails(r) PROVE TypeInv'
  BY <1>6, <1>7 DEF SetupFails, FailSetup, Terminal
<1>8. ASSUME SetupFailed(r) \/ LeaveTerminal(r) PROVE TypeInv'
  BY <1>6, <1>8 DEF SetupFailed, LeaveTerminal, Terminal
<1>9. ASSUME StartFails(r) PROVE TypeInv'
  BY <1>6, <1>9 DEF StartFails, WriteStatus, Terminal
<1>10. ASSUME WriteOutcome(r) PROVE TypeInv'
  BY <1>6, <1>10 DEF WriteOutcome, WriteStatus, Terminal
<1>11. ASSUME Acknowledge(r) PROVE TypeInv'
  <2>1. CASE UNCHANGED row
    <3>1. TypeOK' BY <1>1, <1>11, <2>1 DEF TypeOK, Acknowledge
    <3> QED BY <1>11, <1>a, <2>1, <3>1, WriterTyped DEF Acknowledge
  <2>2. CASE row' = [row EXCEPT ![r].acked = TRUE]
    <3> DEFINE R == [row[r] EXCEPT !.acked = TRUE]
    <3>1. R \in Row /\ R.status = row[r].status BY <1>1 DEF Row
    <3>2. row' = [row EXCEPT ![r] = R] BY <2>2
    <3> HIDE DEF R
    <3>3. row' \in [Run -> Row] /\ EndedStays BY <1>1, <3>1, <3>2, RowWrite DEF Ended
    <3>4. TypeOK' BY <1>1, <1>11, <3>3 DEF TypeOK, Acknowledge
    <3> QED BY <1>11, <3>3, <3>4, WriterTyped DEF Acknowledge
  <2> QED BY <1>11, <2>1, <2>2 DEF Acknowledge
<1>12. ASSUME StartAdapter(r) PROVE TypeInv'
  <2> DEFINE R == [row[r] EXCEPT !.pid = LocalChild]
  <2>1. R \in Row /\ R.status = row[r].status BY <1>1, ConstantsAssumption DEF Row
  <2>2. row' = [row EXCEPT ![r] = R] BY <1>12 DEF StartAdapter
  <2> HIDE DEF R
  <2>3. row' \in [Run -> Row] /\ EndedStays BY <1>1, <2>1, <2>2, RowWrite DEF Ended
  <2>4. frame' \in [Run -> [lease : Nat, invoked : BOOLEAN]]
    <3>1. frame \in [Run -> [lease : Nat, invoked : BOOLEAN]] BY <1>1 DEF TypeOK
    <3> DEFINE F == [frame[r] EXCEPT !.invoked = TRUE]
    <3>2. F \in [lease : Nat, invoked : BOOLEAN] BY <3>1
    <3>3. frame' = [frame EXCEPT ![r] = F] BY <1>12 DEF StartAdapter
    <3> HIDE DEF F
    <3> QED BY <3>1, <3>2, <3>3
  <2>5. TypeOK' BY <1>1, <1>12, <2>3, <2>4 DEF TypeOK, StartAdapter
  <2> QED BY <1>12, <2>3, <2>5, WriterTyped DEF StartAdapter
<1>13. ASSUME Defer(r) PROVE TypeInv'
  <2>1. CASE row[r].lease = frame[r].lease
    <3> DEFINE R == [row[r] EXCEPT !.status = "queued", !.started = FALSE]
    <3>1. R \in Row /\ ~Ended(r) BY <1>1, <1>13 DEF Row, Status, Defer, Ended, Terminal
    <3>2. row' = [row EXCEPT ![r] = R] BY <1>13, <2>1 DEF Defer
    <3> HIDE DEF R
    <3>3. row' \in [Run -> Row] /\ EndedStays BY <1>1, <3>1, <3>2, RowWrite
    <3>4. TypeOK' BY <1>1, <1>13, <2>1, <3>3 DEF TypeOK, Defer
    <3> QED BY <1>13, <2>1, <3>3, <3>4, WriterTyped DEF Defer
  <2>2. CASE row[r].lease # frame[r].lease
    BY <1>6, <1>13, <2>2 DEF Defer, FailSetup, Terminal
  <2> QED BY <2>1, <2>2
<1>14. ASSUME AdapterReturns(r) PROVE TypeInv'
  <2>1. TypeOK' BY <1>1, <1>14 DEF TypeOK, AdapterReturns
  <2> QED BY <1>14, <1>a, <2>1, WriterTyped DEF AdapterReturns
<1>15. ASSUME RetryFailed(r) \/ FallbackOfLost(r) PROVE TypeInv'
  <2>1. row' \in [Run -> Row] /\ EndedStays /\ step' \in Step
    BY <1>15, EnqueueTyped DEF RetryFailed, FallbackOfLost
  <2>2. TypeOK' BY <1>1, <1>15, <2>1 DEF TypeOK, RetryFailed, FallbackOfLost
  <2> QED BY <1>15, <2>1, <2>2, WriterTyped DEF RetryFailed, FallbackOfLost
<1>16. ASSUME Finally(r) PROVE TypeInv'
  <2>1. row' \in [Run -> Row] /\ EndedStays
    BY <1>1, <1>a, <1>16, FullStagesTyped DEF Finally
  <2>2. None \in Nat BY DEF None
  <2>3. TypeOK' BY <1>1, <1>16, <2>1, <2>2 DEF TypeOK, Finally, NoFrame
  <2> QED BY <1>16, <2>1, <2>3, WriterTyped DEF Finally
<1>17. ASSUME ExecutionGate(r) PROVE TypeInv'
  <2>1. row' \in [Run -> Row] /\ EndedStays /\ step' \in Step
    BY <1>17, SettleTyped DEF ExecutionGate
  <2>2. TypeOK' BY <1>1, <1>17, <2>1 DEF TypeOK, ExecutionGate
  <2> QED BY <1>17, <2>1, <2>2, WriterTyped DEF ExecutionGate
<1> QED BY <1>3, <1>4, <1>5, <1>7, <1>8, <1>9, <1>10, <1>11, <1>12, <1>13, <1>14, <1>15,
           <1>16, <1>17 DEF Execution

\* The other writers of a status, recovery, the step and the process.
LEMMA WritersTyped ==
  ASSUME TypeInv, NEW r \in Run
  PROVE  CancelRun(r) \/ FinalizeLinkedRun(r) \/ FailStaleRun(r) \/ RecoveryVisits(r)
           \/ DispatchStep(r) \/ OrphanExits(r) => TypeInv'
<1> USE DEF memory, counters
<1>1. TypeOK /\ row[r] \in Row /\ row \in [Run -> Row] BY DEF TypeInv, TypeOK
<1>a. UNCHANGED row => EndedStays BY DEF EndedStays, Ended
<1>2. ASSUME CancelRun(r) PROVE TypeInv'
  <2>1. Finalized(row[r], "cancelled") \in Row /\ ~Ended(r)
    BY <1>1, <1>2, FinalizedTyped DEF CancelRun, Ended, Terminal
  <2>2. row' = [row EXCEPT ![r] = Finalized(row[r], "cancelled")] BY <1>2 DEF CancelRun
  <2>3. row' \in [Run -> Row] /\ EndedStays BY <1>1, <2>1, <2>2, RowWrite
  <2>4. TypeOK' BY <1>1, <1>2, <2>3 DEF TypeOK, CancelRun
  <2> QED BY <1>2, <2>3, <2>4, WriterTyped DEF CancelRun
<1>3. ASSUME FinalizeLinkedRun(r) PROVE TypeInv'
  <2>1. PICK s \in Terminal : Terminate(r, s, TRUE)
    BY <1>3 DEF FinalizeLinkedRun, Terminal
  <2>2. TypeOK' /\ OwedIsEnded' /\ EndedStays
    BY <1>1, <1>3, <2>1, TerminateTyped DEF TypeOK, FinalizeLinkedRun
  <2> QED BY <1>3, <2>2, VisitsStay DEF FinalizeLinkedRun, TypeInv
<1>4. ASSUME FailStaleRun(r) PROVE TypeInv'
  <2> DEFINE F == Finalized(row[r], "failed")
             R == [F EXCEPT !.staleQueued = TRUE]
  <2>1. F \in Row /\ ~Ended(r)
    BY <1>1, <1>4, FinalizedTyped DEF FailStaleRun, Ended, Terminal
  <2>2. row' = [row EXCEPT ![r] = R] BY <1>4 DEF FailStaleRun
  <2> HIDE DEF F
  <2>3. R \in Row BY <2>1 DEF Row
  <2> HIDE DEF R
  <2>4. row' \in [Run -> Row] /\ EndedStays BY <1>1, <2>1, <2>2, <2>3, RowWrite
  <2>5. TypeOK' BY <1>1, <1>4, <2>4 DEF TypeOK, FailStaleRun
  <2> QED BY <1>4, <2>4, <2>5, WriterTyped DEF FailStaleRun
<1>5. ASSUME RecoveryVisits(r) PROVE TypeInv'
  <2>1. row' \in [Run -> Row] /\ EndedStays
    <3>1. CASE FullStages(r) BY <3>1, FullStagesTyped
    <3>2. CASE row' = [row EXCEPT ![r].parent = TRUE, ![r].quiesced = @ \/ Proof(r)]
      <4> DEFINE R == [row[r] EXCEPT !.parent = TRUE, !.quiesced = row[r].quiesced \/ Proof(r)]
      <4>1. R \in Row /\ R.status = row[r].status BY <1>1 DEF Row, Proof
      <4>2. row' = [row EXCEPT ![r] = R] BY <1>1, <3>2
      <4> HIDE DEF R
      <4> QED BY <1>1, <4>1, <4>2, RowWrite DEF Ended
    <3> QED BY <1>5, <3>1, <3>2 DEF RecoveryVisits
  <2>2. recovery' \in [run : 0..MaxRuns, at : {"none", "gate"}] BY <1>5 DEF RecoveryVisits, Run
  <2>3. TypeOK' BY <1>1, <1>5, <2>1, <2>2 DEF TypeOK, RecoveryVisits
  <2>4. VisitsARun'
    BY <1>5, <2>1 DEF RecoveryVisits, TypeInv, VisitsARun, EndedStays, Ended
  <2> QED BY <1>5, <2>1, <2>3, <2>4, OwedStays DEF RecoveryVisits, TypeInv
<1>6. ASSUME DispatchStep(r) PROVE TypeInv'
  <2>1. step.generation \in 0..MaxGeneration BY <1>1 DEF TypeOK, Step, Generation
  <2>2. row' = [row EXCEPT ![r] = QueuedRow(step.generation)] /\ ~Ended(r)
    BY <1>6 DEF DispatchStep, Ended, Terminal
  <2>3. row' \in [Run -> Row] /\ EndedStays BY <1>1, <2>1, <2>2, QueuedTyped, RowWrite
  <2>4. TypeOK' BY <1>1, <1>6, <2>3 DEF TypeOK, DispatchStep
  <2> QED BY <1>6, <2>3, <2>4, WriterTyped DEF DispatchStep
<1>7. ASSUME OrphanExits(r) PROVE TypeInv'
  <2>1. TypeOK' BY <1>1, <1>7 DEF TypeOK, OrphanExits
  <2> QED BY <1>7, <1>a, <2>1, WriterTyped DEF OrphanExits
<1> QED BY <1>2, <1>3, <1>4, <1>5, <1>6, <1>7

\* Shutdown, restart, recovery and the step keep the invariant.
LEMMA ProcessTyped ==
  ASSUME TypeInv
  PROVE  RecoveryGate \/ StepRetry \/ IssueCompletes \/ BeginShutdown \/ Restart
           \/ UNCHANGED vars => TypeInv'
<1> USE DEF memory, counters
<1>1. TypeOK BY DEF TypeInv
<1>a. UNCHANGED row => EndedStays BY DEF EndedStays, Ended
<1>2. ASSUME RecoveryGate PROVE TypeInv'
  <2>1. recovery.run \in Run BY <1>2 DEF TypeInv, VisitsARun, RecoveryGate
  <2>2. row' \in [Run -> Row] /\ EndedStays /\ step' \in Step
    BY <1>2, <2>1, SettleTyped DEF RecoveryGate
  <2>3. recovery' \in [run : 0..MaxRuns, at : {"none", "gate"}] /\ recovery'.at = "none"
    BY <1>2, ConstantsAssumption DEF RecoveryGate, NoVisit, None
  <2>4. TypeOK' BY <1>1, <1>2, <2>2, <2>3 DEF TypeOK, RecoveryGate
  <2>5. VisitsARun'
    BY <1>2, <2>2, <2>3 DEF RecoveryGate, TypeInv, VisitsARun, EndedStays, Ended
  <2> QED BY <1>2, <2>2, <2>4, <2>5, OwedStays DEF RecoveryGate, TypeInv
<1>3. ASSUME StepRetry PROVE TypeInv'
  <2>1. step' \in Step
    BY <1>1, <1>3, ConstantsAssumption DEF TypeOK, StepRetry, Step, Generation, None
  <2>2. TypeOK' BY <1>1, <1>3, <2>1 DEF TypeOK, StepRetry
  <2> QED BY <1>3, <1>a, <2>2, WriterTyped DEF StepRetry
<1>4. ASSUME IssueCompletes PROVE TypeInv'
  <2>1. IssueSync \in 0..(MaxRuns + 1) BY ConstantsAssumption DEF IssueSync
  <2>2. step' \in Step
    <3>1. step \in Step BY <1>1 DEF TypeOK
    <3>2. step' = [step EXCEPT !.ready = IssueSync] BY <1>4 DEF IssueCompletes
    <3> QED BY <2>1, <3>1, <3>2 DEF Step
  <2>3. TypeOK' BY <1>1, <1>4, <2>2 DEF TypeOK, IssueCompletes
  <2> QED BY <1>4, <1>a, <2>3, WriterTyped DEF IssueCompletes
<1>5. ASSUME BeginShutdown PROVE TypeInv'
  <2>1. TypeOK' BY <1>1, <1>5 DEF TypeOK, BeginShutdown
  <2> QED BY <1>5, <1>a, <2>1, WriterTyped DEF BeginShutdown
<1>6. ASSUME Restart PROVE TypeInv'
  <2>1. None \in Nat /\ None \in 0..MaxRuns BY ConstantsAssumption DEF None
  <2>2. NoFrame \in [lease : Nat, invoked : BOOLEAN] BY <2>1 DEF NoFrame
  <2>3. NoTail \in [at : TailPhase, lease : Nat, unlink : BOOLEAN] /\ NoTail.at = "none"
    BY <2>1 DEF NoTail, TailPhase
  <2>4. IdleSweep \in [todo : SUBSET Run, pids : SUBSET Run, at : SweepPhase, run : 0..MaxRuns]
        /\ IdleSweep.at = "scan"
    BY <2>1 DEF IdleSweep, SweepPhase
  <2>5. NoVisit \in [run : 0..MaxRuns, at : {"none", "gate"}] /\ NoVisit.at = "none"
    BY <2>1 DEF NoVisit
  <2>6. "none" \in ExecPhase BY DEF ExecPhase
  <2>7. \A r \in Run : (LocalChild /\ live[r]) \in BOOLEAN OBVIOUS
  <2>8. restarts' \in 0..MaxRestarts BY <1>1, <1>6, ConstantsAssumption DEF TypeOK, Restart
  <2>9. TypeOK'
    BY <1>1, <1>6, <2>2, <2>3, <2>4, <2>5, <2>6, <2>7, <2>8 DEF TypeOK, Restart
  <2>10. OwedIsEnded' /\ VisitsARun'
    BY <1>6, <2>3, <2>4, <2>5, "scan" # "timeout", "none" # "gate"
    DEF Restart, OwedIsEnded, VisitsARun
  <2> QED BY <2>9, <2>10 DEF TypeInv
<1>7. ASSUME UNCHANGED vars PROVE TypeInv'
  <2>1. TypeOK' BY <1>1, <1>7 DEF TypeOK, vars
  <2> QED BY <1>7, <1>a, <2>1, WriterTyped DEF vars
<1> QED BY <1>2, <1>3, <1>4, <1>5, <1>6, <1>7

\* The reaper.
LEMMA SweepWritesTyped ==
  ASSUME TypeInv, NEW s \in Sweep, NEW r \in Run, NEW status \in Terminal,
         NEW won \in SweepPhase, NEW lost \in SweepPhase \ {"timeout"},
         SweepWrites(s, r, status, won, lost)
  PROVE  TypeInv'
<1> USE DEF counters
<1>1. TypeOK BY DEF TypeInv
<1>2. CASE row[r].status = "running"
  <2>1. Terminate(r, status, FALSE) /\ SweepGoes(s, won, r) BY <1>2 DEF SweepWrites
  <2>2. /\ row' \in [Run -> Row] /\ EndedStays /\ OwedIsEnded'
        /\ tail' \in [Run -> [at : TailPhase, lease : Nat, unlink : BOOLEAN]]
    BY <2>1, TerminateTyped
  <2>3. Ended(r)' BY <2>1 DEF Terminate, Ended, TypeInv, TypeOK, Row
  <2>4. TypeOK' /\ VisitsARun'
    BY <1>1, <2>1, <2>2, <2>3, SweepGoesTyped DEF TypeOK, SweepWrites
  <2> QED BY <2>2, <2>4 DEF TypeInv
<1>3. CASE row[r].status # "running"
  <2>1. SweepGoes(s, lost, r) /\ UNCHANGED <<row, tail>> BY <1>3 DEF SweepWrites
  <2>2. EndedStays BY <2>1 DEF EndedStays, Ended
  <2>3. TypeOK' /\ VisitsARun' BY <1>1, <2>1, <2>2, SweepGoesTyped DEF TypeOK, SweepWrites
  <2> QED BY <2>1, <2>2, <2>3, OwedStays DEF TypeInv
<1> QED BY <1>2, <1>3

\* The steps of a sweep after its visit keep the invariant.
LEMMA SweepTyped ==
  ASSUME TypeInv, NEW s \in Sweep
  PROVE  SweepStart(s) \/ SweepStep(s) => TypeInv'
<1> USE DEF SweepAt, SweepContinues, SweepPhase, counters
<1>1. TypeOK /\ sweep[s] \in [todo : SUBSET Run, pids : SUBSET Run,
                              at : SweepPhase, run : 0..MaxRuns]
  BY DEF TypeInv, TypeOK
<1>2. ~SweepAt(s, "scan") => sweep[s].run \in Run BY DEF TypeInv, VisitsARun
<1>a. UNCHANGED row => EndedStays BY DEF EndedStays, Ended
<1>3. ASSUME SweepStart(s) PROVE TypeInv'
  <2> DEFINE S == [IdleSweep EXCEPT !.todo = RunningRows,
                                    !.pids = {r \in RunningRows : row[r].pid}]
  <2>1. None \in 0..MaxRuns BY ConstantsAssumption DEF None
  <2>2. S \in [todo : SUBSET Run, pids : SUBSET Run, at : SweepPhase, run : 0..MaxRuns]
        /\ S.at = "scan"
    BY <2>1 DEF IdleSweep, RunningRows
  <2>3. sweep' = [sweep EXCEPT ![s] = S] BY <1>3 DEF SweepStart
  <2> HIDE DEF S
  <2>a. sweep' \in [Sweep -> [todo : SUBSET Run, pids : SUBSET Run,
                             at : SweepPhase, run : 0..MaxRuns]]
    BY <1>1, <2>2, <2>3 DEF TypeOK
  <2>4. TypeOK' BY <1>1, <1>3, <2>a DEF TypeOK, SweepStart
  <2>5. \A t \in Sweep : sweep'[t].at = "scan" \/ sweep'[t] = sweep[t]
    BY <1>1, <2>2, <2>3 DEF TypeOK
  <2>6. VisitsARun'
    BY <1>3, <2>5, "scan" # "timeout" DEF SweepStart, TypeInv, VisitsARun, Ended
  <2> QED BY <1>3, <1>a, <2>4, <2>6, OwedStays DEF SweepStart, TypeInv
<1>4. ASSUME SweepLeavesDone(s) PROVE TypeInv'
  <2>1. sweep[s].run \in Run BY <1>2, <1>4 DEF SweepLeavesDone
  <2>2. TypeOK' /\ VisitsARun'
    BY <1>1, <1>4, <1>a, <2>1, SweepGoesTyped, "scan" # "timeout" DEF TypeOK, SweepLeavesDone
  <2> QED BY <1>4, <1>a, <2>2, OwedStays DEF SweepLeavesDone, TypeInv
<1>5. ASSUME SweepRetries(s) PROVE TypeInv'
  <2>1. sweep[s].run \in Run BY <1>2, <1>5 DEF SweepRetries
  <2>2. row' \in [Run -> Row] /\ EndedStays /\ step' \in Step
    <3>1. CASE UNCHANGED <<row, step>> BY <1>1, <1>a, <3>1 DEF TypeOK
    <3>2. CASE \E kind \in {"retry", "fallback"} : EnqueueChild(sweep[s].run, kind)
      BY <2>1, <3>2, EnqueueTyped
    <3> QED BY <1>5, <3>1, <3>2 DEF SweepRetries
  <2>3. CASE SweepContinues(s)
    <3>1. TypeOK' /\ VisitsARun'
      BY <1>1, <1>5, <2>1, <2>2, <2>3, SweepGoesTyped, "scan" # "timeout"
      DEF TypeOK, SweepRetries
    <3> QED BY <1>5, <2>2, <3>1, OwedStays DEF SweepRetries, TypeInv
  <2>4. CASE sweep' = [sweep EXCEPT ![s] = IdleSweep]
    <3>1. None \in 0..MaxRuns BY ConstantsAssumption DEF None
    <3>2. IdleSweep \in [todo : SUBSET Run, pids : SUBSET Run, at : SweepPhase, run : 0..MaxRuns]
          /\ IdleSweep.at = "scan"
      BY <3>1 DEF IdleSweep
    <3>3. TypeOK' BY <1>1, <1>5, <2>2, <2>4, <3>2 DEF TypeOK, SweepRetries
    <3>4. \A t \in Sweep : sweep'[t].at = "scan" \/ sweep'[t] = sweep[t]
      BY <1>1, <2>4, <3>2 DEF TypeOK
    <3>5. VisitsARun'
      BY <1>5, <2>2, <3>4, "scan" # "timeout"
      DEF SweepRetries, TypeInv, VisitsARun, EndedStays, Ended
    <3> QED BY <1>5, <2>2, <3>3, <3>5, OwedStays DEF SweepRetries, TypeInv
  <2> QED BY <1>5, <2>3, <2>4 DEF SweepRetries
<1>6. ASSUME SweepSettles(s) PROVE TypeInv'
  <2>1. sweep[s].run \in Run BY <1>2, <1>6 DEF SweepSettles
  <2>2. row' \in [Run -> Row] /\ EndedStays BY <1>6, <2>1, FullStagesTyped DEF SweepSettles
  <2>3. sweep' = [sweep EXCEPT ![s].at = "gate"] BY <1>6 DEF SweepSettles
  <2>a. sweep' \in [Sweep -> [todo : SUBSET Run, pids : SUBSET Run,
                             at : SweepPhase, run : 0..MaxRuns]]
    <3> DEFINE S == [sweep[s] EXCEPT !.at = "gate"]
    <3>1. S \in [todo : SUBSET Run, pids : SUBSET Run, at : SweepPhase, run : 0..MaxRuns]
      BY <1>1
    <3>2. sweep' = [sweep EXCEPT ![s] = S] BY <2>3
    <3> HIDE DEF S
    <3> QED BY <1>1, <3>1, <3>2 DEF TypeOK
  <2>4. TypeOK' BY <1>1, <1>6, <2>2, <2>a DEF TypeOK, SweepSettles
  <2>5. \A t \in Sweep : \/ sweep'[t] = sweep[t]
                         \/ sweep'[t].at = "gate" /\ sweep'[t].run \in Run
    BY <1>1, <2>1, <2>3 DEF TypeOK
  <2>6. VisitsARun'
    BY <1>6, <2>2, <2>5, "gate" # "timeout"
    DEF SweepSettles, TypeInv, VisitsARun, EndedStays, Ended
  <2> QED BY <1>6, <2>2, <2>4, <2>6, OwedStays DEF SweepSettles, TypeInv
<1>7. ASSUME SweepGate(s) PROVE TypeInv'
  <2>1. sweep[s].run \in Run BY <1>2, <1>7 DEF SweepGate
  <2>2. row' \in [Run -> Row] /\ EndedStays /\ step' \in Step
    BY <1>7, <2>1, SettleTyped DEF SweepGate
  <2>3. TypeOK' /\ VisitsARun'
    BY <1>1, <1>7, <2>1, <2>2, SweepGoesTyped, "scan" # "timeout" DEF TypeOK, SweepGate
  <2> QED BY <1>7, <2>2, <2>3, OwedStays DEF SweepGate, TypeInv
<1>8. ASSUME SweepLoses(s) PROVE TypeInv'
  <2>1. sweep[s].run \in Run BY <1>2, <1>8 DEF SweepLoses
  <2> QED BY <1>8, <2>1, SweepWritesTyped DEF SweepLoses, Terminal
<1> QED BY <1>3, <1>4, <1>5, <1>6, <1>7, <1>8 DEF SweepStep

\* The visits of a sweep keep the invariant.
LEMMA SweepVisitTyped ==
  ASSUME TypeInv, NEW s \in Sweep, NEW r \in Run
  PROVE  SweepSkips(s, r) \/ SweepEndsDone(s, r) \/ SweepTimesOut(s, r)
           \/ SweepFindsLost(s, r) => TypeInv'
<1> USE DEF SweepPhase, counters
<1>1. TypeOK BY DEF TypeInv
<1>a. UNCHANGED row => EndedStays BY DEF EndedStays, Ended
<1>2. ASSUME SweepSkips(s, r) \/ SweepFindsLost(s, r) PROVE TypeInv'
  <2>1. TypeOK' /\ VisitsARun'
    BY <1>1, <1>2, <1>a, SweepGoesTyped, "scan" # "timeout"
    DEF TypeOK, SweepSkips, SweepFindsLost
  <2> QED BY <1>2, <1>a, <2>1, OwedStays DEF SweepSkips, SweepFindsLost, TypeInv
<1>4. ASSUME SweepEndsDone(s, r) PROVE TypeInv'
  <2>1. PICK status \in Terminal : SweepWrites(s, r, status, "done", "scan")
    BY <1>4 DEF SweepEndsDone, Terminal
  <2> QED BY <2>1, SweepWritesTyped
<1>5. ASSUME SweepTimesOut(s, r) PROVE TypeInv'
  BY <1>5, SweepWritesTyped DEF SweepTimesOut, Terminal
<1> QED BY <1>2, <1>4, <1>5

-----------------------------------------------------------------------------

\* The initial state is typed.
LEMMA TypeInvInit == Init => TypeInv
<1> SUFFICES ASSUME Init PROVE TypeInv OBVIOUS
<1>1. None \in Nat /\ None \in 0..MaxRuns /\ None \in 0..(MaxRuns + 1)
      /\ 1 \in Generation /\ 1 \in 0..MaxGeneration /\ 0 \in 0..MaxRestarts /\ 0 \in 0..MaxErrors
  BY ConstantsAssumption DEF None, Generation
<1>2. row \in [Run -> Row] BY <1>1, QueuedTyped DEF Init
<1>3. step \in Step BY <1>1 DEF Init, Step
<1>4. frame \in [Run -> [lease : Nat, invoked : BOOLEAN]] BY <1>1 DEF Init, NoFrame
<1>5. tail \in [Run -> [at : TailPhase, lease : Nat, unlink : BOOLEAN]]
      /\ \A r \in Run : tail[r].at = "none"
  BY <1>1 DEF Init, NoTail, TailPhase
<1>6. sweep \in [Sweep -> [todo : SUBSET Run, pids : SUBSET Run,
                           at : SweepPhase, run : 0..MaxRuns]]
      /\ \A s \in Sweep : sweep[s].at = "scan"
  BY <1>1 DEF Init, IdleSweep, SweepPhase
<1>7. recovery \in [run : 0..MaxRuns, at : {"none", "gate"}] /\ recovery.at = "none"
  BY <1>1 DEF Init, NoVisit
<1>8. exec \in [Run -> ExecPhase] BY DEF Init, ExecPhase
<1>9. active \subseteq Run /\ live \in [Run -> BOOLEAN] /\ draining \in BOOLEAN
      /\ restarts \in 0..MaxRestarts /\ errors \in 0..MaxErrors
  BY <1>1 DEF Init
<1>10. TypeOK BY <1>2, <1>3, <1>4, <1>5, <1>6, <1>7, <1>8, <1>9 DEF TypeOK
<1> QED BY <1>5, <1>6, <1>7, <1>10, "scan" # "timeout", "none" # "gate"
    DEF TypeInv, VisitsARun, OwedIsEnded

\* Every step keeps the type invariant.
LEMMA TypeInvNext == TypeInv /\ [Next]_vars => TypeInv'
<1> SUFFICES ASSUME TypeInv, [Next]_vars PROVE TypeInv' OBVIOUS
<1>1. ASSUME NEW r \in Run,
             \/ Claim(r) \/ ClaimRefused(r) \/ Execution(r) \/ SetupFails(r) \/ RetryFailed(r)
             \/ FallbackOfLost(r)
      PROVE  TypeInv'
  BY <1>1, ExecutionTyped
<1>2. ASSUME NEW r \in Run, Tail(r) \/ TailFails(r) PROVE TypeInv' BY <1>2, TailTyped
<1>3. ASSUME NEW r \in Run,
             \/ CancelRun(r) \/ FinalizeLinkedRun(r) \/ FailStaleRun(r) \/ RecoveryVisits(r)
             \/ DispatchStep(r) \/ OrphanExits(r)
      PROVE  TypeInv'
  BY <1>3, WritersTyped
<1>4. ASSUME NEW s \in Sweep, SweepStart(s) \/ SweepStep(s) PROVE TypeInv' BY <1>4, SweepTyped
<1>5. ASSUME NEW s \in Sweep, NEW r \in Run,
             \/ SweepSkips(s, r) \/ SweepEndsDone(s, r) \/ SweepTimesOut(s, r)
             \/ SweepFindsLost(s, r)
      PROVE  TypeInv'
  BY <1>5, SweepVisitTyped
<1>6. CASE RecoveryGate \/ StepRetry \/ IssueCompletes \/ BeginShutdown \/ Restart
           \/ UNCHANGED vars
  BY <1>6, ProcessTyped
<1> QED BY <1>1, <1>2, <1>3, <1>4, <1>5, <1>6 DEF Next

\* Every reachable state is well typed; nothing is owed to a run that has not
\* ended, and no sweep or recovery awaits something for no run.
THEOREM TypeCorrect == Spec => []TypeInv
  BY TypeInvInit, TypeInvNext, PTL DEF Spec

\* The property TypeOK: every variable stays in its type, and the counters
\* stay in their bounds.
THEOREM TypeOKHolds == Spec => []TypeOK
<1>1. TypeInv => TypeOK BY DEF TypeInv
<1> QED BY <1>1, TypeCorrect, PTL

-----------------------------------------------------------------------------
(* What the rows say of themselves.                                        *)

\* Ending a run, or deferring it to the queue, keeps its row sound.
LEMMA StatusSound ==
  ASSUME NEW R \in Row, RowSound(R), R.status \notin Terminal, NEW s \in Terminal \cup {"queued"}
  PROVE  RowSound([R EXCEPT !.status = s])
  BY DEF Row, RowSound, Terminal

\* Deciding the outcome of a row keeps it sound.
LEMMA DecidedSound ==
  ASSUME NEW R \in Row, RowSound(R), R.status \in Terminal, NEW l
  PROVE  RowSound(Decided(R, l))
  BY DEF Row, RowSound, Decided

\* The terminal hook keeps a row sound.
LEMMA HookedSound ==
  ASSUME NEW R \in Row, RowSound(R), R.status \in Terminal
  PROVE  RowSound(Hooked(R))
<1>1. Decided(R, R.lease) \in Row /\ RowSound(Decided(R, R.lease)) BY DecidedTyped, DecidedSound
<1> QED BY <1>1 DEF Hooked, Row, RowSound

\* Releasing the capability keeps a row sound.
LEMMA ReleasedSound ==
  ASSUME NEW R \in Row, RowSound(R)
  PROVE  RowSound(Released(R))
  BY DEF Row, RowSound, Released

\* Status, outcome and release in one transaction keep a row sound.
LEMMA FinalizedSound ==
  ASSUME NEW R \in Row, RowSound(R), R.status \notin Terminal, NEW s \in Terminal
  PROVE  RowSound(Finalized(R, s))
<1> DEFINE S == [R EXCEPT !.status = s]
<1>1. S \in Row /\ S.status = s /\ RowSound(S) BY StatusTyped, StatusSound DEF Row, Status
<1>2. Hooked(S) \in Row /\ RowSound(Hooked(S)) BY <1>1, HookedTyped, HookedSound
<1> QED BY <1>2, ReleasedSound DEF Finalized

\* Q is recorded on a proof, and a proof needs the release.
LEMMA StagedSound ==
  ASSUME NEW R \in Row, RowSound(R), R.status \in Terminal, NEW proof \in BOOLEAN,
         proof => R.released
  PROVE  RowSound(Staged(R, proof))
  BY DEF Row, RowSound, Staged

\* Writing one sound row keeps all rows sound.
LEMMA SoundWrite ==
  ASSUME TypeOK, RowsSound, NEW r \in Run, NEW R, RowSound(R), row' = [row EXCEPT ![r] = R]
  PROVE  RowsSound'
  BY DEF TypeOK, RowsSound

\* A status written outside a transaction keeps the rows sound.
LEMMA TerminateSound ==
  ASSUME TypeOK, RowsSound, NEW r \in Run, ~Ended(r), NEW s \in Terminal, NEW unlink,
         Terminate(r, s, unlink)
  PROVE  RowsSound'
<1>1. row[r] \in Row /\ RowSound(row[r]) BY DEF TypeOK, RowsSound
<1>2. RowSound([row[r] EXCEPT !.status = s]) BY <1>1, StatusSound DEF Ended
<1>3. row' = [row EXCEPT ![r] = [row[r] EXCEPT !.status = s]] BY DEF Terminate
<1> QED BY <1>2, <1>3, SoundWrite

\* Recording the stages of an ended run keeps the rows sound.
LEMMA FullStagesSound ==
  ASSUME TypeOK, RowsSound, NEW r \in Run, Ended(r), FullStages(r)
  PROVE  RowsSound'
<1>1. row[r] \in Row /\ RowSound(row[r]) BY DEF TypeOK, RowsSound
<1>2. Proof(r) \in BOOLEAN /\ (Proof(r) => row[r].released) BY <1>1 DEF Proof, Row
<1>3. RowSound(Staged(row[r], Proof(r))) BY <1>1, <1>2, StagedSound DEF Ended
<1>4. row' = [row EXCEPT ![r] = Staged(row[r], Proof(r))] BY DEF FullStages
<1> QED BY <1>3, <1>4, SoundWrite

\* settleRunIfReady keeps the rows sound: the gate asks for both stages.
LEMMA SettleSound ==
  ASSUME TypeOK, RowsSound, NEW r \in Run, SettleIfReady(r)
  PROVE  RowsSound'
<1>1. row[r] \in Row /\ RowSound(row[r]) BY DEF TypeOK, RowsSound
<1>2. CASE GateOpen(r)
  <2>1. RowSound([row[r] EXCEPT !.settled = TRUE]) BY <1>1, <1>2 DEF GateOpen, Row, RowSound
  <2>2. row' = [row EXCEPT ![r] = [row[r] EXCEPT !.settled = TRUE]] BY <1>2 DEF SettleIfReady
  <2> QED BY <2>1, <2>2, SoundWrite
<1>3. CASE ~GateOpen(r) BY <1>3 DEF SettleIfReady, RowsSound
<1> QED BY <1>2, <1>3

\* The row of a new wake is sound.
LEMMA QueuedSound ==
  ASSUME NEW g
  PROVE  RowSound(QueuedRow(g))
  BY DEF QueuedRow, AbsentRow, RowSound, Terminal

\* A retry or fallback keeps the rows of parent and child sound.
LEMMA EnqueueSound ==
  ASSUME TypeInv, RowsSound, NEW p \in Run, NEW kind, EnqueueChild(p, kind)
  PROVE  RowsSound'
<1> DEFINE P == [row[p] EXCEPT !.lease = row[p].lease + 1, !.released = TRUE]
           C == [Child(p, kind) EXCEPT !.v1 = TRUE, !.generation = row[p].generation]
<1>1. PICK c \in Run :
        IF Transfers(p)
        THEN row' = [row EXCEPT ![p].lease = @ + 1, ![p].released = TRUE, ![c] = C]
        ELSE row' = [row EXCEPT ![c] = Child(p, kind)]
  BY DEF EnqueueChild
<1>2. row \in [Run -> Row] /\ row[p] \in Row /\ RowSound(row[p])
  BY DEF TypeInv, TypeOK, RowsSound
<1>3. RowSound(Child(p, kind)) BY DEF Child, QueuedRow, AbsentRow, RowSound, Terminal
<1>4. RowSound(C) BY DEF Child, QueuedRow, AbsentRow, RowSound, Terminal
<1>5. RowSound(P) BY <1>2 DEF Row, RowSound
<1>6. CASE Transfers(p)
  <2>1. row' = [[row EXCEPT ![p] = P] EXCEPT ![c] = C] BY <1>1, <1>2, <1>6
  <2> HIDE DEF P, C
  <2> QED BY <1>2, <1>4, <1>5, <2>1 DEF RowsSound
<1>7. CASE ~Transfers(p)
  <2>1. row' = [row EXCEPT ![c] = Child(p, kind)] BY <1>1, <1>7
  <2> QED BY <1>3, <2>1, SoundWrite DEF TypeInv
<1> QED BY <1>6, <1>7

\* One step per action that writes a row; the others leave them alone.
LEMMA RowsSoundNext ==
  ASSUME TypeInv, RowsSound, [Next]_vars
  PROVE  RowsSound'
<1> USE DEF memory, counters
<1>1. TypeOK /\ \A r \in Run : row[r] \in Row /\ RowSound(row[r])
  BY DEF TypeInv, TypeOK, RowsSound
<1>2. ASSUME UNCHANGED row PROVE RowsSound' BY <1>2 DEF RowsSound
<1>3. ASSUME NEW r \in Run, Claim(r) PROVE RowsSound'
  <2> DEFINE lease == row[r].lease + 1
             R == [row[r] EXCEPT !.status = "running", !.started = TRUE, !.v1 = TRUE,
                     !.lease = lease, !.acked = FALSE, !.released = FALSE,
                     !.generation = row[r].wakeGeneration]
  <2>1. row' = [row EXCEPT ![r] = R] BY <1>3 DEF Claim
  <2> HIDE DEF lease
  <2>2. RowSound(R) BY <1>1, <1>3 DEF Claim, Row, RowSound, Terminal
  <2> HIDE DEF R
  <2> QED BY <1>1, <2>1, <2>2, SoundWrite
<1>4. ASSUME NEW r \in Run, ClaimRefused(r) PROVE RowsSound'
  BY <1>1, <1>4, TerminateSound DEF ClaimRefused, Ended, Terminal
<1>5. ASSUME NEW r \in Run, TailDecide(r) \/ TailHook(r) \/ TailRelease(r) PROVE RowsSound'
  <2>1. row[r].status \in Terminal
    BY <1>5 DEF TypeInv, OwedIsEnded, Ended, TailDecide, TailHook, TailRelease, TailMoves
  <2>2. PICK R : RowSound(R) /\ row' = [row EXCEPT ![r] = R]
    BY <1>1, <1>5, <2>1, DecidedSound, HookedSound, ReleasedSound
    DEF TailDecide, TailHook, TailRelease
  <2> QED BY <1>1, <2>2, SoundWrite
<1>6. ASSUME NEW r \in Run, NEW s \in Terminal, row[r].status = "running",
             Terminate(r, s, FALSE)
      PROVE  RowsSound'
  BY <1>1, <1>6, TerminateSound DEF Ended, Terminal
<1>7. ASSUME NEW r \in Run, FailSetup(r) PROVE RowsSound'
  BY <1>1, <1>2, <1>7, TerminateSound DEF FailSetup, Ended, Terminal
<1>8. ASSUME NEW r \in Run, NEW s \in Terminal, WriteStatus(r, s) PROVE RowsSound'
  BY <1>2, <1>6, <1>8 DEF WriteStatus
<1>9. ASSUME NEW r \in Run, Acknowledge(r) PROVE RowsSound'
  <2>1. CASE row' = [row EXCEPT ![r].acked = TRUE]
    <3>1. RowSound([row[r] EXCEPT !.acked = TRUE]) BY <1>1 DEF Row, RowSound
    <3> QED BY <1>1, <2>1, <3>1, SoundWrite
  <2> QED BY <1>2, <1>9, <2>1 DEF Acknowledge
<1>10. ASSUME NEW r \in Run, StartAdapter(r) PROVE RowsSound'
  <2>1. RowSound([row[r] EXCEPT !.pid = LocalChild]) BY <1>1 DEF Row, RowSound
  <2>2. row' = [row EXCEPT ![r] = [row[r] EXCEPT !.pid = LocalChild]] BY <1>10 DEF StartAdapter
  <2> QED BY <1>1, <2>1, <2>2, SoundWrite
<1>11. ASSUME NEW r \in Run, Defer(r) PROVE RowsSound'
  <2>1. CASE row[r].lease = frame[r].lease
    <3> DEFINE R == [row[r] EXCEPT !.status = "queued", !.started = FALSE]
    <3>1. RowSound(R) BY <1>1, <1>11 DEF Defer, Row, RowSound, Terminal
    <3>2. row' = [row EXCEPT ![r] = R] BY <1>11, <2>1 DEF Defer
    <3> HIDE DEF R
    <3> QED BY <1>1, <3>1, <3>2, SoundWrite
  <2> QED BY <1>7, <1>11, <2>1 DEF Defer
<1>12. ASSUME NEW r \in Run, RetryFailed(r) \/ FallbackOfLost(r) PROVE RowsSound'
  BY <1>12, EnqueueSound DEF RetryFailed, FallbackOfLost
<1>13. ASSUME NEW r \in Run, Finally(r) PROVE RowsSound'
  BY <1>1, <1>2, <1>13, FullStagesSound DEF Finally
<1>14. ASSUME NEW r \in Run, ExecutionGate(r) PROVE RowsSound'
  BY <1>1, <1>14, SettleSound DEF ExecutionGate
<1>15. ASSUME NEW r \in Run, Execution(r) PROVE RowsSound'
  <2>1. CASE \/ ExecuteRun(r) \/ SetupFailed(r) \/ AdapterReturns(r) \/ LeaveTerminal(r)
    BY <1>2, <2>1 DEF ExecuteRun, SetupFailed, AdapterReturns, LeaveTerminal
  <2>2. CASE StartFails(r) \/ WriteOutcome(r)
    BY <1>8, <2>2 DEF StartFails, WriteOutcome, Terminal
  <2> QED BY <1>9, <1>10, <1>11, <1>13, <1>14, <1>15, <2>1, <2>2 DEF Execution
<1>16. ASSUME NEW r \in Run, CancelRun(r) PROVE RowsSound'
  <2>1. RowSound(Finalized(row[r], "cancelled"))
    BY <1>1, <1>16, FinalizedSound DEF CancelRun, Terminal
  <2> QED BY <1>1, <1>16, <2>1, SoundWrite DEF CancelRun
<1>17. ASSUME NEW r \in Run, FinalizeLinkedRun(r) PROVE RowsSound'
  BY <1>1, <1>17, TerminateSound DEF FinalizeLinkedRun, Ended, Terminal
<1>18. ASSUME NEW r \in Run, FailStaleRun(r) PROVE RowsSound'
  <2> DEFINE F == Finalized(row[r], "failed")
  <2>1. F \in Row /\ RowSound(F)
    BY <1>1, <1>18, FinalizedSound, FinalizedTyped DEF FailStaleRun, Terminal
  <2>2. row' = [row EXCEPT ![r] = [F EXCEPT !.staleQueued = TRUE]] BY <1>18 DEF FailStaleRun
  <2> HIDE DEF F
  <2>3. RowSound([F EXCEPT !.staleQueued = TRUE]) BY <2>1 DEF Row, RowSound
  <2> QED BY <1>1, <2>2, <2>3, SoundWrite
<1>19. ASSUME NEW r \in Run, RecoveryVisits(r) PROVE RowsSound'
  <2>1. CASE FullStages(r) BY <1>1, <1>19, <2>1, FullStagesSound DEF RecoveryVisits
  <2>2. CASE row' = [row EXCEPT ![r].parent = TRUE, ![r].quiesced = @ \/ Proof(r)]
    <3> DEFINE R == [row[r] EXCEPT !.parent = TRUE, !.quiesced = row[r].quiesced \/ Proof(r)]
    <3>1. row' = [row EXCEPT ![r] = R] BY <1>1, <2>2
    <3>2. RowSound(R) BY <1>1, <1>19 DEF RecoveryVisits, Proof, Ended, Row, RowSound
    <3> HIDE DEF R
    <3> QED BY <1>1, <3>1, <3>2, SoundWrite
  <2> QED BY <1>19, <2>1, <2>2 DEF RecoveryVisits
<1>20. ASSUME NEW r \in Run, DispatchStep(r) PROVE RowsSound'
  BY <1>1, <1>20, QueuedSound, SoundWrite DEF DispatchStep
<1>21. ASSUME NEW s \in Sweep, SweepStep(s) PROVE RowsSound'
  <2>1. ~SweepAt(s, "scan") => sweep[s].run \in Run BY DEF TypeInv, VisitsARun, SweepAt
  <2>2. CASE SweepRetries(s)
    <3>1. sweep[s].run \in Run BY <2>1, <2>2 DEF SweepRetries, SweepAt
    <3>2. \/ UNCHANGED row \/ EnqueueChild(sweep[s].run, "retry")
          \/ EnqueueChild(sweep[s].run, "fallback")
      BY <2>2 DEF SweepRetries
    <3> QED BY <1>2, <3>1, <3>2, EnqueueSound
  <2>3. CASE SweepSettles(s)
    <3>1. sweep[s].run \in Run /\ Ended(sweep[s].run)
      BY <2>1, <2>3 DEF SweepSettles, SweepAt, TypeInv, VisitsARun
    <3> QED BY <1>1, <2>3, <3>1, FullStagesSound DEF SweepSettles
  <2>4. CASE SweepGate(s)
    BY <1>1, <2>1, <2>4, SettleSound DEF SweepGate, SweepAt
  <2>5. CASE SweepLoses(s)
    BY <1>2, <1>6, <2>1, <2>5 DEF SweepLoses, SweepAt, SweepWrites, Terminal
  <2> QED BY <1>2, <1>21, <2>2, <2>3, <2>4, <2>5 DEF SweepStep, SweepLeavesDone
<1>22. ASSUME NEW s \in Sweep, NEW r \in Run,
              SweepEndsDone(s, r) \/ SweepTimesOut(s, r)
       PROVE  RowsSound'
  BY <1>2, <1>6, <1>22 DEF SweepEndsDone, SweepTimesOut, SweepWrites, Terminal
<1>23. ASSUME RecoveryGate PROVE RowsSound'
  BY <1>1, <1>23, SettleSound DEF RecoveryGate, TypeInv, VisitsARun
<1>24. CASE \E r \in Run : SetupFails(r) \/ TailFails(r) \/ TailUnlink(r) \/ OrphanExits(r)
  BY <1>2, <1>7, <1>24 DEF SetupFails, TailFails, TailUnlink, OrphanExits
<1>25. CASE \E s \in Sweep : SweepStart(s) \/ \E r \in Run : SweepSkips(s, r) \/ SweepFindsLost(s, r)
  BY <1>2, <1>25 DEF SweepStart, SweepSkips, SweepFindsLost
<1>26. CASE StepRetry \/ IssueCompletes \/ BeginShutdown \/ Restart \/ UNCHANGED vars
  BY <1>2, <1>26 DEF StepRetry, IssueCompletes, BeginShutdown, Restart, vars
<1> QED BY <1>3, <1>4, <1>5, <1>12, <1>15, <1>16, <1>17, <1>18, <1>19, <1>20, <1>21, <1>22,
           <1>23, <1>24, <1>25, <1>26 DEF Next, Tail

\* The initial rows are sound.
LEMMA RowsSoundInit == Init => RowsSound
<1>1. RowSound(AbsentRow) BY DEF AbsentRow, RowSound, Terminal
<1> QED BY <1>1, QueuedSound DEF Init, RowsSound

\* The rows stay sound whatever writer ends, finalizes or settles a run.
THEOREM RowsStaySound == Spec => [](TypeInv /\ RowsSound)
  BY TypeInvInit, TypeInvNext, RowsSoundInit, RowsSoundNext, PTL DEF Spec

\* First-wins: once an outcome is recorded, it is the status of an ended run,
\* for every number of runs, sweeps, crashes and errors.
THEOREM OutcomeIsFinal == Spec => []OutcomeIsFinalStatus
<1>1. RowsSound => OutcomeIsFinalStatus BY DEF RowsSound, RowSound, OutcomeIsFinalStatus
<1> QED BY <1>1, RowsStaySound, PTL

\* No run is settled on partial evidence.
THEOREM SettledComplete == Spec => []SettledIsComplete
<1>1. RowsSound => SettledIsComplete BY DEF RowsSound, RowSound, SettledIsComplete, Ended
<1> QED BY <1>1, RowsStaySound, PTL

-----------------------------------------------------------------------------
(* Living children and slots.                                              *)

\* What every writer but Claim does to a row, as far as slots are concerned.
Keeps(R, S, alive) ==
  /\ S.status = "running" => R.status = "running"
  /\ alive /\ Recorded(R) => Recorded(S)

RowsKeep == \A q \in Run : Keeps(row[q], row'[q], live[q])

\* Writing one row that keeps what its live child needs.
LEMMA KeepsWrite ==
  ASSUME TypeOK, NEW r \in Run, NEW R, Keeps(row[r], R, live[r]), row' = [row EXCEPT ![r] = R]
  PROVE  RowsKeep
  BY DEF TypeOK, RowsKeep, Keeps

\* Rows that do not change keep what live children need.
LEMMA SameKeeps == UNCHANGED row => RowsKeep
  BY DEF RowsKeep, Keeps

\* Ending a run keeps its row recorded.
LEMMA TerminateKeeps ==
  ASSUME TypeOK, NEW r \in Run, NEW s \in Terminal, NEW unlink, Terminate(r, s, unlink)
  PROVE  RowsKeep
<1>1. row[r] \in Row BY DEF TypeOK
<1>2. Keeps(row[r], [row[r] EXCEPT !.status = s], live[r])
  BY <1>1 DEF Keeps, Recorded, Row, Terminal
<1>3. row' = [row EXCEPT ![r] = [row[r] EXCEPT !.status = s]] BY DEF Terminate
<1> QED BY <1>2, <1>3, KeepsWrite

\* What a terminal writer owes keeps the row recorded.
LEMMA TailKeeps ==
  ASSUME NEW R \in Row, NEW l, NEW alive \in BOOLEAN
  PROVE  Keeps(R, Decided(R, l), alive) /\ Keeps(R, Hooked(R), alive)
         /\ Keeps(R, Released(R), alive)
<1>1. Keeps(R, Decided(R, l), alive) BY DEF Keeps, Recorded, Row, Decided
<1>2. Keeps(R, Hooked(R), alive) BY DEF Keeps, Recorded, Row, Hooked, Decided
<1>3. Keeps(R, Released(R), alive) BY DEF Keeps, Recorded, Row, Released
<1> QED BY <1>1, <1>2, <1>3

\* A finalization in one transaction keeps the row recorded.
LEMMA FinalizedKeeps ==
  ASSUME NEW R \in Row, NEW s \in Terminal, NEW alive \in BOOLEAN
  PROVE  Keeps(R, Finalized(R, s), alive)
<1> DEFINE S == [R EXCEPT !.status = s]
<1>1. S \in Row /\ S.status = s /\ Keeps(R, S, alive)
  BY StatusTyped DEF Row, Status, Keeps, Recorded, Terminal
<1>2. Hooked(S) \in Row /\ Keeps(S, Hooked(S), alive) BY <1>1, HookedTyped, TailKeeps
<1>3. Keeps(Hooked(S), Released(Hooked(S)), alive) BY <1>2, TailKeeps
<1> QED BY <1>1, <1>2, <1>3 DEF Finalized, Keeps

\* Quiescence is not observed while the recorded child lives.
LEMMA FullStagesKeeps ==
  ASSUME TypeOK, NEW r \in Run, FullStages(r)
  PROVE  RowsKeep
<1>1. row[r] \in Row /\ live[r] \in BOOLEAN BY DEF TypeOK
<1>2. live[r] /\ row[r].pid => ~Proof(r) BY DEF Proof
<1>3. Keeps(row[r], Staged(row[r], Proof(r)), live[r])
  BY <1>1, <1>2 DEF Keeps, Recorded, Row, Staged
<1>4. row' = [row EXCEPT ![r] = Staged(row[r], Proof(r))] BY DEF FullStages
<1> QED BY <1>3, <1>4, KeepsWrite

\* settleRunIfReady writes nothing a live child needs.
LEMMA SettleKeeps ==
  ASSUME TypeOK, NEW r \in Run, SettleIfReady(r)
  PROVE  RowsKeep
<1>1. row[r] \in Row BY DEF TypeOK
<1>2. CASE GateOpen(r)
  <2>1. Keeps(row[r], [row[r] EXCEPT !.settled = TRUE], live[r])
    BY <1>1 DEF Keeps, Recorded, Row
  <2>2. row' = [row EXCEPT ![r] = [row[r] EXCEPT !.settled = TRUE]] BY <1>2 DEF SettleIfReady
  <2> QED BY <2>1, <2>2, KeepsWrite
<1>3. CASE ~GateOpen(r) BY <1>3, SameKeeps DEF SettleIfReady
<1> QED BY <1>2, <1>3

\* A row that nobody has claimed has no live child to keep.
LEMMA NewRowKeeps ==
  ASSUME NEW R, R.status = "absent", NEW S, S.status # "running", NEW alive
  PROVE  Keeps(R, S, alive)
  BY DEF Keeps, Recorded, Terminal

\* A retry or fallback keeps the row of its parent's child recorded.
LEMMA EnqueueKeeps ==
  ASSUME TypeOK, NEW p \in Run, NEW kind, EnqueueChild(p, kind)
  PROVE  RowsKeep
<1> DEFINE P == [row[p] EXCEPT !.lease = row[p].lease + 1, !.released = TRUE]
           C == [Child(p, kind) EXCEPT !.v1 = TRUE, !.generation = row[p].generation]
<1>1. PICK c \in Run :
        /\ row[c].status = "absent"
        /\ IF Transfers(p)
           THEN row' = [row EXCEPT ![p].lease = @ + 1, ![p].released = TRUE, ![c] = C]
           ELSE row' = [row EXCEPT ![c] = Child(p, kind)]
  BY DEF EnqueueChild
<1>2. row \in [Run -> Row] /\ row[p] \in Row BY DEF TypeOK
<1>3. Child(p, kind).status = "queued" /\ C.status = "queued"
  BY DEF Child, QueuedRow, AbsentRow
<1>4. Keeps(row[c], Child(p, kind), live[c]) /\ Keeps(row[c], C, live[c])
  BY <1>1, <1>3, NewRowKeeps
<1>5. Keeps(row[p], P, live[p]) BY <1>2 DEF Keeps, Recorded, Row
<1>6. CASE Transfers(p)
  <2>1. row' = [[row EXCEPT ![p] = P] EXCEPT ![c] = C] BY <1>1, <1>2, <1>6
  <2> HIDE DEF P, C
  <2>2. \A q \in Run : row'[q] = IF q = c THEN C ELSE IF q = p THEN P ELSE row[q]
    BY <1>2, <2>1
  <2>3. \A q \in Run : Keeps(row[q], row[q], live[q]) BY DEF Keeps
  <2> QED BY <1>4, <1>5, <2>2, <2>3 DEF RowsKeep
<1>7. CASE ~Transfers(p)
  <2>1. row' = [row EXCEPT ![c] = Child(p, kind)] BY <1>1, <1>7
  <2> QED BY <1>4, <2>1, KeepsWrite
<1> QED BY <1>6, <1>7

\* Every step keeps, for a child that lives, its row recorded and not
\* concluded quiescent.
LEMMA RowsKeepNext ==
  ASSUME TypeInv, RowsSound, LiveIsRecorded, LocalChild, [Next]_vars
  PROVE  RowsKeep \/ \E r \in Run : Claim(r)
<1> USE DEF memory, counters
<1>1. TypeOK /\ \A r \in Run : row[r] \in Row /\ live[r] \in BOOLEAN
  BY DEF TypeInv, TypeOK
<1>2. ASSUME UNCHANGED row PROVE RowsKeep BY <1>2, SameKeeps
<1>3. ASSUME NEW r \in Run, NEW R, row' = [row EXCEPT ![r] = R], Keeps(row[r], R, live[r])
      PROVE  RowsKeep
  BY <1>1, <1>3, KeepsWrite
<1>4. ASSUME NEW r \in Run, NEW s \in Terminal, NEW unlink, Terminate(r, s, unlink)
      PROVE  RowsKeep
  BY <1>1, <1>4, TerminateKeeps
<1>5. ASSUME NEW r \in Run, ClaimRefused(r) \/ FinalizeLinkedRun(r) PROVE RowsKeep
  BY <1>4, <1>5 DEF ClaimRefused, FinalizeLinkedRun, Terminal
<1>6. ASSUME NEW r \in Run, TailDecide(r) \/ TailHook(r) \/ TailRelease(r) PROVE RowsKeep
  BY <1>1, <1>3, <1>6, TailKeeps DEF TailDecide, TailHook, TailRelease
<1>7. ASSUME NEW r \in Run, FailSetup(r) PROVE RowsKeep
  BY <1>2, <1>4, <1>7 DEF FailSetup, Terminal
<1>8. ASSUME NEW r \in Run, NEW s \in Terminal, WriteStatus(r, s) PROVE RowsKeep
  BY <1>2, <1>4, <1>8 DEF WriteStatus
<1>9. ASSUME NEW r \in Run, Execution(r) PROVE RowsKeep
  <2>1. CASE ExecuteRun(r) \/ SetupFailed(r) \/ AdapterReturns(r) \/ LeaveTerminal(r)
    BY <1>2, <2>1 DEF ExecuteRun, SetupFailed, AdapterReturns, LeaveTerminal
  <2>2. CASE StartFails(r) \/ WriteOutcome(r)
    BY <1>8, <2>2 DEF StartFails, WriteOutcome, Terminal
  <2>3. CASE Acknowledge(r)
    <3>1. CASE row' = [row EXCEPT ![r].acked = TRUE]
      <4>1. Keeps(row[r], [row[r] EXCEPT !.acked = TRUE], live[r])
        BY <1>1 DEF Keeps, Recorded, Row
      <4> QED BY <1>3, <3>1, <4>1
    <3> QED BY <1>2, <2>3, <3>1 DEF Acknowledge
  <2>4. CASE StartAdapter(r)
    <3>1. Keeps(row[r], [row[r] EXCEPT !.pid = LocalChild], live[r])
      BY <1>1 DEF Keeps, Recorded, Row
    <3>2. row' = [row EXCEPT ![r] = [row[r] EXCEPT !.pid = LocalChild]]
      BY <2>4 DEF StartAdapter
    <3> QED BY <1>3, <3>1, <3>2
  <2>5. CASE Defer(r)
    <3>1. ~live[r] BY <2>5 DEF Defer, At, LiveIsRecorded, Early
    <3>2. CASE row[r].lease = frame[r].lease
      <4> DEFINE R == [row[r] EXCEPT !.status = "queued", !.started = FALSE]
      <4>1. Keeps(row[r], R, live[r]) BY <1>1, <3>1 DEF Keeps, Row
      <4>2. row' = [row EXCEPT ![r] = R] BY <2>5, <3>2 DEF Defer
      <4> HIDE DEF R
      <4> QED BY <1>3, <4>1, <4>2
    <3> QED BY <1>7, <2>5, <3>2 DEF Defer
  <2>6. CASE Finally(r) BY <1>1, <1>2, <2>6, FullStagesKeeps DEF Finally
  <2>7. CASE ExecutionGate(r) BY <1>1, <2>7, SettleKeeps DEF ExecutionGate
  <2> QED BY <1>9, <2>1, <2>2, <2>3, <2>4, <2>5, <2>6, <2>7 DEF Execution
<1>10. ASSUME NEW r \in Run, RetryFailed(r) \/ FallbackOfLost(r) PROVE RowsKeep
  BY <1>1, <1>10, EnqueueKeeps DEF RetryFailed, FallbackOfLost
<1>11. ASSUME NEW r \in Run, CancelRun(r) PROVE RowsKeep
  BY <1>1, <1>3, <1>11, FinalizedKeeps DEF CancelRun, Terminal
<1>12. ASSUME NEW r \in Run, FailStaleRun(r) PROVE RowsKeep
  <2> DEFINE F == Finalized(row[r], "failed")
             R == [F EXCEPT !.staleQueued = TRUE]
  <2>1. F \in Row /\ Keeps(row[r], F, live[r])
    BY <1>1, FinalizedTyped, FinalizedKeeps DEF Terminal
  <2>2. row' = [row EXCEPT ![r] = R] BY <1>12 DEF FailStaleRun
  <2> HIDE DEF F
  <2>3. Keeps(row[r], R, live[r]) BY <2>1 DEF Keeps, Recorded, Row
  <2> HIDE DEF R
  <2> QED BY <1>3, <2>2, <2>3
<1>13. ASSUME NEW r \in Run, RecoveryVisits(r) PROVE RowsKeep
  <2>1. CASE FullStages(r) BY <1>1, <2>1, FullStagesKeeps
  <2>2. CASE row' = [row EXCEPT ![r].parent = TRUE, ![r].quiesced = @ \/ Proof(r)]
    <3> DEFINE R == [row[r] EXCEPT !.parent = TRUE, !.quiesced = row[r].quiesced \/ Proof(r)]
    <3>1. row' = [row EXCEPT ![r] = R] BY <1>1, <2>2
    <3>2. Keeps(row[r], R, live[r]) BY <1>1 DEF Proof, Keeps, Recorded, Row
    <3> HIDE DEF R
    <3> QED BY <1>3, <3>1, <3>2
  <2> QED BY <1>13, <2>1, <2>2 DEF RecoveryVisits
<1>14. ASSUME NEW r \in Run, DispatchStep(r) PROVE RowsKeep
  <2>1. QueuedRow(step.generation).status = "queued" BY DEF QueuedRow, AbsentRow
  <2>2. Keeps(row[r], QueuedRow(step.generation), live[r])
    BY <1>14, <2>1, NewRowKeeps DEF DispatchStep
  <2> QED BY <1>3, <1>14, <2>2 DEF DispatchStep
<1>15. ASSUME NEW s \in Sweep, SweepStep(s) PROVE RowsKeep
  <2>1. ~SweepAt(s, "scan") => sweep[s].run \in Run BY DEF TypeInv, VisitsARun, SweepAt
  <2>2. CASE SweepRetries(s)
    <3>1. sweep[s].run \in Run BY <2>1, <2>2 DEF SweepRetries, SweepAt
    <3>2. \/ UNCHANGED row \/ EnqueueChild(sweep[s].run, "retry")
          \/ EnqueueChild(sweep[s].run, "fallback")
      BY <2>2 DEF SweepRetries
    <3> QED BY <1>1, <1>2, <3>1, <3>2, EnqueueKeeps
  <2>3. CASE SweepSettles(s)
    BY <1>1, <2>1, <2>3, FullStagesKeeps DEF SweepSettles, SweepAt
  <2>4. CASE SweepGate(s)
    BY <1>1, <2>1, <2>4, SettleKeeps DEF SweepGate, SweepAt
  <2>5. CASE SweepLoses(s)
    BY <1>2, <1>4, <2>1, <2>5 DEF SweepLoses, SweepAt, SweepWrites, Terminal
  <2> QED BY <1>2, <1>15, <2>2, <2>3, <2>4, <2>5 DEF SweepStep, SweepLeavesDone
<1>16. ASSUME NEW s \in Sweep, NEW r \in Run,
              SweepEndsDone(s, r) \/ SweepTimesOut(s, r)
       PROVE  RowsKeep
  BY <1>2, <1>4, <1>16 DEF SweepEndsDone, SweepTimesOut, SweepWrites, Terminal
<1>17. ASSUME RecoveryGate PROVE RowsKeep
  BY <1>1, <1>17, SettleKeeps DEF RecoveryGate, TypeInv, VisitsARun
<1>18. CASE \E r \in Run : SetupFails(r) \/ TailFails(r) \/ TailUnlink(r) \/ OrphanExits(r)
  BY <1>2, <1>7, <1>18 DEF SetupFails, TailFails, TailUnlink, OrphanExits
<1>19. CASE \E s \in Sweep : SweepStart(s) \/ \E r \in Run : SweepSkips(s, r) \/ SweepFindsLost(s, r)
  BY <1>2, <1>19 DEF SweepStart, SweepSkips, SweepFindsLost
<1>20. CASE StepRetry \/ IssueCompletes \/ BeginShutdown \/ Restart \/ UNCHANGED vars
  BY <1>2, <1>20 DEF StepRetry, IssueCompletes, BeginShutdown, Restart, vars
<1> QED BY <1>5, <1>6, <1>9, <1>10, <1>11, <1>12, <1>13, <1>14, <1>15, <1>16, <1>17, <1>18,
           <1>19, <1>20 DEF Next, Tail

\* A child comes to life only from the phase before the spawn, and execution
\* comes to that phase only from a claim.
LEMMA EarlyNext ==
  ASSUME TypeOK, [Next]_vars, NEW q \in Run
  PROVE  /\ live'[q] => live[q] \/ StartAdapter(q)
         /\ exec'[q] \in Early => exec[q] \in Early \/ Claim(q)
         /\ StartAdapter(q) => exec'[q] \notin Early
<1> USE DEF memory, counters, At, Goto, Early
<1>1. exec \in [Run -> ExecPhase] /\ live \in [Run -> BOOLEAN] BY DEF TypeOK
<1>2. StartAdapter(q) => exec'[q] \notin Early BY <1>1 DEF StartAdapter
<1>3. CASE UNCHANGED <<exec, live>> BY <1>2, <1>3
<1>4. ASSUME NEW r \in Run, Execution(r) \/ SetupFails(r) \/ RetryFailed(r) \/ FallbackOfLost(r)
                             \/ Claim(r) \/ OrphanExits(r)
      PROVE  /\ live'[q] => live[q] \/ StartAdapter(q)
             /\ exec'[q] \in Early => exec[q] \in Early \/ Claim(q)
  <2>1. CASE Claim(r) BY <1>1, <2>1 DEF Claim
  <2>2. CASE ExecuteRun(r) BY <1>1, <2>2 DEF ExecuteRun
  <2>3. CASE SetupFails(r) \/ SetupFailed(r)
    BY <1>1, <2>3 DEF SetupFails, SetupFailed, FailSetup
  <2>4. CASE Acknowledge(r) BY <1>1, <2>4 DEF Acknowledge
  <2>5. CASE StartAdapter(r) BY <1>1, <2>5 DEF StartAdapter
  <2>6. CASE Defer(r) BY <1>1, <2>6 DEF Defer, FailSetup
  <2>7. CASE StartFails(r) \/ WriteOutcome(r)
    BY <1>1, <2>7 DEF StartFails, WriteOutcome, WriteStatus
  <2>8. CASE AdapterReturns(r) BY <1>1, <2>8 DEF AdapterReturns
  <2>9. CASE LeaveTerminal(r) \/ RetryFailed(r) \/ FallbackOfLost(r)
    BY <1>1, <2>9 DEF LeaveTerminal, RetryFailed, FallbackOfLost
  <2>10. CASE Finally(r) \/ ExecutionGate(r) BY <1>1, <2>10 DEF Finally, ExecutionGate
  <2>11. CASE OrphanExits(r) BY <1>1, <2>11 DEF OrphanExits
  <2> QED BY <1>4, <2>1, <2>2, <2>3, <2>4, <2>5, <2>6, <2>7, <2>8, <2>9, <2>10, <2>11
      DEF Execution
<1>5. CASE Restart BY <1>1, <1>2, <1>5 DEF Restart
<1>6. ASSUME NEW r \in Run,
             \/ ClaimRefused(r) \/ Tail(r) \/ TailFails(r) \/ CancelRun(r) \/ FinalizeLinkedRun(r)
             \/ FailStaleRun(r) \/ RecoveryVisits(r) \/ DispatchStep(r)
      PROVE  UNCHANGED <<exec, live>>
  BY <1>6 DEF ClaimRefused, Tail, TailDecide, TailHook, TailRelease, TailUnlink, TailFails,
     CancelRun, FinalizeLinkedRun, FailStaleRun, RecoveryVisits, DispatchStep
<1>7. ASSUME NEW s \in Sweep,
             \/ SweepStart(s) \/ SweepStep(s)
             \/ \E r \in Run : \/ SweepSkips(s, r) \/ SweepEndsDone(s, r)
                               \/ SweepTimesOut(s, r) \/ SweepFindsLost(s, r)
      PROVE  UNCHANGED <<exec, live>>
  BY <1>7 DEF SweepStart, SweepStep, SweepLeavesDone, SweepRetries, SweepSettles, SweepGate,
     SweepSkips, SweepEndsDone, SweepTimesOut, SweepFindsLost, SweepLoses, SweepWrites
<1>8. CASE RecoveryGate \/ StepRetry \/ IssueCompletes \/ BeginShutdown \/ UNCHANGED vars
  BY <1>3, <1>8 DEF RecoveryGate, StepRetry, IssueCompletes, BeginShutdown, vars
<1> QED BY <1>2, <1>3, <1>4, <1>5, <1>6, <1>7, <1>8 DEF Next

\* Every step keeps living children recorded.
LEMMA LiveIsRecordedNext ==
  ASSUME TypeInv, RowsSound, LiveIsRecorded, [Next]_vars
  PROVE  LiveIsRecorded'
<1>1. SUFFICES ASSUME LocalChild, NEW q \in Run, live'[q]
               PROVE  Recorded(row'[q]) /\ exec'[q] \notin Early
  BY DEF LiveIsRecorded
<1>2. TypeOK BY DEF TypeInv
<1>3. /\ live[q] \/ StartAdapter(q)
      /\ exec'[q] \in Early => exec[q] \in Early \/ Claim(q)
      /\ StartAdapter(q) => exec'[q] \notin Early
  BY <1>1, <1>2, EarlyNext
<1>4. CASE live[q]
  <2>1. Recorded(row[q]) /\ exec[q] \notin Early BY <1>1, <1>4 DEF LiveIsRecorded
  <2>2. row[q].status # "queued" BY <2>1 DEF Recorded, Terminal
  <2>3. exec'[q] \notin Early BY <1>3, <2>1, <2>2 DEF Claim
  <2>4. CASE RowsKeep BY <1>4, <2>1, <2>3, <2>4 DEF RowsKeep, Keeps
  <2>5. CASE \E r \in Run : Claim(r)
    <3>1. row'[q] = row[q] BY <1>2, <2>2, <2>5 DEF Claim, TypeOK
    <3> QED BY <2>1, <2>3, <3>1
  <2> QED BY <1>1, <2>4, <2>5, RowsKeepNext
<1>5. CASE StartAdapter(q)
  <2>1. row'[q] = [row[q] EXCEPT !.pid = LocalChild] /\ row[q].status = "running"
    BY <1>2, <1>5 DEF StartAdapter, TypeOK
  <2>2. row[q] \in Row /\ RowSound(row[q]) BY <1>2 DEF TypeOK, RowsSound
  <2>3. Recorded(row'[q]) BY <1>1, <2>1, <2>2 DEF Recorded, RowSound, Row, Terminal
  <2> QED BY <1>3, <1>5, <2>3
<1> QED BY <1>3, <1>4, <1>5

\* Cardinalities of sets of runs are natural numbers.
LEMMA RunIsFinite == \A S \in SUBSET Run : IsFiniteSet(S) /\ Cardinality(S) \in Nat
<1>1. IsFiniteSet(Run) BY ConstantsAssumption, FS_Interval DEF Run
<1> QED BY <1>1, FS_Subset, FS_CardinalityType

\* Every step keeps running rows and living children within the slots: only
\* a claim adds a running row, and it counts what the gate counts.
LEMMA OccupiedNext ==
  ASSUME TypeInv, RowsSound, LiveIsRecorded, OccupiedIsBounded, [Next]_vars
  PROVE  OccupiedIsBounded'
<1>1. SUFFICES ASSUME LocalChild PROVE Cardinality(Occupied') <= MaxConcurrent
  BY DEF OccupiedIsBounded
<1>2. TypeOK BY DEF TypeInv
<1>3. Occupied \in SUBSET Run /\ Occupied' \in SUBSET Run /\ LifecycleActive \in SUBSET Run
  BY DEF Occupied, RunningRows, LifecycleActive
<1>4. Cardinality(Occupied) <= MaxConcurrent BY <1>1 DEF OccupiedIsBounded
<1>5. \A q \in Run : live'[q] => live[q] \/ row[q].status = "running"
  BY <1>2, EarlyNext DEF StartAdapter
<1>6. CASE RowsKeep
  <2>1. Occupied' \subseteq Occupied
    BY <1>5, <1>6 DEF Occupied, RunningRows, RowsKeep, Keeps
  <2>2. Cardinality(Occupied') <= Cardinality(Occupied)
    BY <1>3, <2>1, RunIsFinite, FS_Subset
  <2> QED BY <1>3, <1>4, <2>2, RunIsFinite, ConstantsAssumption
<1>7. ASSUME NEW r \in Run, Claim(r) PROVE Cardinality(Occupied') <= MaxConcurrent
  <2>1. Cardinality(LifecycleActive) < MaxConcurrent BY <1>7 DEF Claim, SlotFree
  <2>2. Occupied \subseteq LifecycleActive
    BY <1>1 DEF Occupied, RunningRows, LifecycleActive, LiveIsRecorded, Recorded, Ended,
       RowsSound, RowSound
  <2>3. \A q \in Run \ {r} : row'[q] = row[q] BY <1>2, <1>7 DEF Claim, TypeOK
  <2>4. Occupied' \subseteq LifecycleActive \cup {r}
    BY <1>5, <2>2, <2>3 DEF Occupied, RunningRows
  <2>5. IsFiniteSet(LifecycleActive \cup {r})
        /\ Cardinality(LifecycleActive \cup {r}) <= Cardinality(LifecycleActive) + 1
    BY <1>3, RunIsFinite, FS_AddElement
  <2>6. Cardinality(Occupied') <= Cardinality(LifecycleActive \cup {r})
    BY <2>4, <2>5, FS_Subset
  <2>7. LifecycleActive \cup {r} \in SUBSET Run BY <1>3, <1>7
  <2>8. Cardinality(Occupied') \in Nat /\ Cardinality(LifecycleActive) \in Nat
        /\ Cardinality(LifecycleActive \cup {r}) \in Nat
    BY <1>3, <2>7, RunIsFinite
  <2> QED BY <2>1, <2>5, <2>6, <2>8, ConstantsAssumption
<1> QED BY <1>1, <1>6, <1>7, RowsKeepNext

\* The inductive invariant.
IInv == TypeInv /\ RowsSound /\ LiveIsRecorded /\ OccupiedIsBounded

\* The inductive invariant holds initially.
LEMMA IInvInit == Init => IInv
<1> SUFFICES ASSUME Init PROVE IInv OBVIOUS
<1>1. TypeInv /\ RowsSound BY TypeInvInit, RowsSoundInit
<1>2. \A r \in Run : ~live[r] BY DEF Init
<1>3. \A r \in Run : row[r].status # "running" BY DEF Init, QueuedRow, AbsentRow
<1>4. Occupied = {} BY <1>2, <1>3 DEF Occupied, RunningRows
<1>5. Cardinality(Occupied) = 0 BY <1>4, FS_EmptySet
<1> QED BY <1>1, <1>2, <1>5, ConstantsAssumption DEF IInv, LiveIsRecorded, OccupiedIsBounded

\* The strengthening holds in every reachable state; the capacity theorems
\* follow from it.
THEOREM InductiveInvariant == Spec => []IInv
<1>1. IInv /\ [Next]_vars => IInv'
  BY TypeInvNext, RowsSoundNext, LiveIsRecordedNext, OccupiedNext DEF IInv
<1> QED BY <1>1, IInvInit, PTL DEF Spec

\* A local child that still works occupies a slot, after whatever sequence of
\* cancellations, sweeps, settlements and restarts.
THEOREM LiveIsCounted == Spec => []LiveHoldsSlot
<1>1. IInv => LiveHoldsSlot
  BY DEF IInv, LiveIsRecorded, LiveHoldsSlot, LifecycleActive, Recorded, Ended, RowsSound, RowSound
<1> QED BY <1>1, InductiveInvariant, PTL

\* No agent ever has more local children at work than slots.
THEOREM CapacityIsKept == Spec => []LiveWithinCapacity
<1>1. IInv => LiveWithinCapacity
  <2> SUFFICES ASSUME IInv, LocalChild
               PROVE  Cardinality({r \in Run : live[r]}) <= MaxConcurrent
    BY DEF LiveWithinCapacity
  <2> DEFINE L == {r \in Run : live[r]}
  <2>1. L \subseteq Occupied /\ Occupied \in SUBSET Run /\ L \in SUBSET Run
    BY DEF Occupied, RunningRows
  <2> HIDE DEF L
  <2>2. Cardinality(L) <= Cardinality(Occupied) BY <2>1, RunIsFinite, FS_Subset
  <2>3. Cardinality(L) <= MaxConcurrent
    BY <2>1, <2>2, RunIsFinite, ConstantsAssumption DEF IInv, OccupiedIsBounded
  <2> QED BY <2>3 DEF L
<1> QED BY <1>1, InductiveInvariant, PTL
=============================================================================
