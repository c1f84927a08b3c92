------------------------ MODULE RunLifecycle_proofs ------------------------
(***************************************************************************)
(* Proofs about what RunFinalization promises to others, for every value   *)
(* of its constants: a retry comes after the release of its parent, the    *)
(* readiness of the step is that of a settled run, and the rows behave as  *)
(* RunLifecycle says.                                                      *)
(***************************************************************************)
EXTENDS RunFinalization_proofs

-----------------------------------------------------------------------------
(* The inductive invariant.                                                *)

\* A run that was started has a lease; neither it nor a run whose capability
\* was released is in the queue.
Begun == Terminal \cup {"running"}
Claimed(R) ==
  /\ R.started => R.status \in Begun /\ R.v1 /\ R.lease # None
  /\ R.released => R.status \in Begun
ClaimedInv == \A r \in Run : Claimed(row[r])

\* An execution that may give its run back to the queue has kept its lease,
\* and with it the capability.
KeepsLease(r) ==
  /\ row[r].status # "absent"
  /\ frame[r].lease <= row[r].lease
  /\ row[r].status = "running" /\ frame[r].lease = row[r].lease => row[r].released = FALSE
LeaseInv == \A r \in Run : At(r, "acked") => KeepsLease(r)

\* No run is of a generation the step has not reached.
GenerationInv == \A r \in Run : row[r].generation <= step.generation

LineageInv ==
  /\ ClaimedInv /\ LeaseInv /\ GenerationInv
  /\ RetryFollowsRelease /\ ReadyIsBacked /\ SettledMakesStepReady

FullInv == IInv /\ LineageInv

-----------------------------------------------------------------------------
(* The steps, by what they do to the rows.                                 *)

\* A row after a step that records evidence of a run or ends it.
Evidence(R, S) ==
  /\ S.started = R.started /\ S.v1 = R.v1 /\ S.lease = R.lease /\ S.retryOf = R.retryOf
  /\ S.generation = R.generation /\ S.settled = R.settled
  /\ S.status = R.status \/ (R.status \in {"queued", "running"} /\ S.status \in Terminal)
  /\ S.released = R.released \/ (S.released = TRUE /\ S.status \in Terminal)

Advances(r) == \E S \in Row : Evidence(row[r], S) /\ row' = [row EXCEPT ![r] = S]

Defers(r) ==
  /\ At(r, "acked") /\ row[r].status = "running" /\ row[r].lease = frame[r].lease
  /\ row' = [row EXCEPT ![r].status = "queued", ![r].started = FALSE]

\* What a step may do to rows and step.
Effect ==
  \/ UNCHANGED <<row, step>>
  \/ \E r \in Run : Advances(r) /\ UNCHANGED step
  \/ \E r \in Run : Claim(r)
  \/ \E r \in Run : Defers(r) /\ UNCHANGED step
  \/ \E p \in Run, kind \in {"retry", "fallback"} : EnqueueChild(p, kind)
  \/ \E r \in Run : GateOpen(r) /\ SettleIfReady(r)
  \/ \E r \in Run : DispatchStep(r)
  \/ StepRetry \/ IssueCompletes

LEMMA EvidenceOfItself == ASSUME NEW R PROVE Evidence(R, R)
BY DEF Evidence

LEMMA EvidenceOfDecision ==
  ASSUME NEW R \in Row, NEW l
  PROVE  Evidence(R, Decided(R, l))
BY DEF Evidence, Decided, Row

\* The terminal hook changes only outcome and parent.
LEMMA EvidenceOfHook ==
  ASSUME NEW R \in Row, R.status \in Terminal
  PROVE  /\ Evidence(R, Hooked(R)) /\ Hooked(R).released = R.released
<1>1. Decided(R, R.lease) \in Row BY DecidedTyped
<1>2. Evidence(R, Decided(R, R.lease)) /\ Decided(R, R.lease).released = R.released
  BY DEF Evidence, Decided, Row
<1> QED BY <1>1, <1>2 DEF Hooked, Evidence, Row

LEMMA EvidenceOfRelease ==
  ASSUME NEW R \in Row, R.status \in Terminal
  PROVE  Evidence(R, Released(R))
BY DEF Evidence, Released, Row

LEMMA EvidenceOfEnd ==
  ASSUME NEW R \in Row, R.status \in {"queued", "running"}, NEW s \in Terminal
  PROVE  /\ [R EXCEPT !.status = s] \in Row /\ [R EXCEPT !.status = s].status = s
         /\ Evidence(R, [R EXCEPT !.status = s])
BY DEF Evidence, Row, Status

\* Evidence of a run that has ended adds to what ended it.
LEMMA EvidenceAdds ==
  ASSUME NEW R, NEW S, NEW T, Evidence(R, S), Evidence(S, T), S.status \in Terminal
  PROVE  Evidence(R, T)
BY DEF Evidence, Terminal

LEMMA EvidenceOfFinalization ==
  ASSUME NEW R \in Row, R.status \in {"queued", "running"}, NEW s \in Terminal
  PROVE  Finalized(R, s) \in Row /\ Evidence(R, Finalized(R, s))
<1> DEFINE S == [R EXCEPT !.status = s]
<1>1. S \in Row /\ S.status = s /\ Evidence(R, S) BY EvidenceOfEnd
<1> HIDE DEF S
<1>2. Hooked(S) \in Row /\ Hooked(S).status = s /\ Evidence(S, Hooked(S))
  BY <1>1, HookedTyped, EvidenceOfHook
<1>3. Released(Hooked(S)) \in Row /\ Evidence(Hooked(S), Released(Hooked(S)))
  BY <1>2, ReleasedTyped, EvidenceOfRelease
<1>4. Evidence(R, Released(Hooked(S))) BY <1>1, <1>2, <1>3, EvidenceAdds
<1> QED BY <1>3, <1>4 DEF Finalized, S

\* A compare-and-set on the status of a run that has not ended.
LEMMA TerminateAdvances ==
  ASSUME TypeOK, NEW r \in Run, row[r].status \in {"queued", "running"},
         NEW s \in Terminal, NEW unlink, Terminate(r, s, unlink)
  PROVE  Advances(r)
<1>1. row[r] \in Row BY DEF TypeOK
<1>2. row' = [row EXCEPT ![r] = [row[r] EXCEPT !.status = s]] BY DEF Terminate
<1> QED BY <1>1, <1>2, EvidenceOfEnd DEF Advances

LEMMA FullStagesAdvances ==
  ASSUME TypeOK, NEW r \in Run, FullStages(r)
  PROVE  Advances(r)
<1>1. row[r] \in Row BY DEF TypeOK
<1>2. Proof(r) \in BOOLEAN BY <1>1 DEF Proof, Row
<1>3. Staged(row[r], Proof(r)) \in Row /\ Evidence(row[r], Staged(row[r], Proof(r)))
  BY <1>1, <1>2 DEF Staged, Evidence, Row
<1>4. row' = [row EXCEPT ![r] = Staged(row[r], Proof(r))] BY DEF FullStages
<1> QED BY <1>3, <1>4 DEF Advances

\* One step per action that writes a row; the others leave the rows alone.
LEMMA StepEffects ==
  ASSUME TypeInv, [Next]_vars
  PROVE  Effect
<1> USE DEF memory, counters
<1>1. TypeOK /\ \A r \in Run : row[r] \in Row BY DEF TypeInv, TypeOK
<1>2. ASSUME UNCHANGED <<row, step>> PROVE Effect BY <1>2 DEF Effect
<1>3. ASSUME NEW r \in Run, Advances(r), UNCHANGED step PROVE Effect BY <1>3 DEF Effect
<1>4. ASSUME NEW r \in Run, NEW s \in Terminal, NEW unlink, Terminate(r, s, unlink),
             row[r].status \in {"queued", "running"}, UNCHANGED step
      PROVE  Effect
  BY <1>1, <1>3, <1>4, TerminateAdvances
<1>5. ASSUME NEW r \in Run, NEW kind \in {"retry", "fallback"}, EnqueueChild(r, kind)
      PROVE  Effect
  BY <1>5 DEF Effect
<1>6. ASSUME NEW r \in Run, SettleIfReady(r) PROVE Effect
  BY <1>2, <1>6 DEF Effect, SettleIfReady
<1>7. ASSUME NEW r \in Run, FailSetup(r), UNCHANGED step PROVE Effect
  BY <1>2, <1>4, <1>7 DEF FailSetup, Terminal
<1>8. ASSUME NEW r \in Run, NEW s \in Terminal, WriteStatus(r, s), UNCHANGED step PROVE Effect
  BY <1>2, <1>4, <1>8 DEF WriteStatus
<1>9. ASSUME NEW r \in Run, TailDecide(r) \/ TailHook(r) \/ TailRelease(r) PROVE Effect
  <2>1. row[r] \in Row /\ row[r].status \in Terminal
    BY <1>1, <1>9 DEF TypeInv, OwedIsEnded, Ended, TailDecide, TailHook, TailRelease, TailMoves
  <2>2. PICK R \in Row : Evidence(row[r], R) /\ row' = [row EXCEPT ![r] = R]
    BY <1>9, <2>1, DecidedTyped, HookedTyped, ReleasedTyped, EvidenceOfDecision,
       EvidenceOfHook, EvidenceOfRelease
       DEF TailDecide, TailHook, TailRelease
  <2>3. UNCHANGED step BY <1>9 DEF TailDecide, TailHook, TailRelease
  <2> QED BY <1>3, <2>2, <2>3 DEF Advances
<1>10. ASSUME NEW r \in Run, Execution(r) PROVE Effect
  <2>1. CASE ExecuteRun(r) \/ SetupFailed(r) \/ AdapterReturns(r) \/ LeaveTerminal(r)
    BY <1>2, <2>1 DEF ExecuteRun, SetupFailed, AdapterReturns, LeaveTerminal
  <2>2. CASE StartFails(r) \/ WriteOutcome(r)
    BY <1>8, <2>2 DEF StartFails, WriteOutcome, Terminal
  <2>3. CASE Acknowledge(r)
    <3>1. CASE row' = [row EXCEPT ![r].acked = TRUE]
      <4>1. [row[r] EXCEPT !.acked = TRUE] \in Row
            /\ Evidence(row[r], [row[r] EXCEPT !.acked = TRUE])
        BY <1>1 DEF Evidence, Row
      <4>2. Advances(r) /\ UNCHANGED step BY <2>3, <3>1, <4>1 DEF Acknowledge, Advances
      <4> QED BY <1>3, <4>2
    <3> QED BY <1>2, <2>3, <3>1 DEF Acknowledge
  <2>4. CASE StartAdapter(r)
    <3>1. [row[r] EXCEPT !.pid = LocalChild] \in Row
          /\ Evidence(row[r], [row[r] EXCEPT !.pid = LocalChild])
      BY <1>1, ConstantsAssumption DEF Evidence, Row
    <3>2. row' = [row EXCEPT ![r] = [row[r] EXCEPT !.pid = LocalChild]] /\ UNCHANGED step
      BY <2>4 DEF StartAdapter
    <3> QED BY <1>3, <3>1, <3>2 DEF Advances
  <2>5. CASE Defer(r)
    <3>1. CASE row[r].lease = frame[r].lease
      BY <2>5, <3>1 DEF Defer, Defers, Effect
    <3> QED BY <1>7, <2>5, <3>1 DEF Defer
  <2>6. CASE Finally(r) BY <1>1, <1>2, <1>3, <2>6, FullStagesAdvances DEF Finally
  <2>7. CASE ExecutionGate(r) BY <1>6, <2>7 DEF ExecutionGate
  <2> QED BY <1>10, <2>1, <2>2, <2>3, <2>4, <2>5, <2>6, <2>7 DEF Execution
<1>11. ASSUME NEW r \in Run, RetryFailed(r) \/ FallbackOfLost(r) PROVE Effect
  BY <1>5, <1>11 DEF RetryFailed, FallbackOfLost
<1>12. ASSUME NEW r \in Run, CancelRun(r) PROVE Effect
  <2>1. Finalized(row[r], "cancelled") \in Row /\ Evidence(row[r], Finalized(row[r], "cancelled"))
    BY <1>1, <1>12, EvidenceOfFinalization DEF CancelRun, Terminal
  <2> QED BY <1>3, <1>12, <2>1 DEF CancelRun, Advances
<1>13. ASSUME NEW r \in Run, FailStaleRun(r) PROVE Effect
  <2> DEFINE F == Finalized(row[r], "failed")
             R == [F EXCEPT !.staleQueued = TRUE]
  <2>1. F \in Row /\ Evidence(row[r], F)
    BY <1>1, <1>13, EvidenceOfFinalization DEF FailStaleRun, Terminal
  <2>2. row' = [row EXCEPT ![r] = R] /\ UNCHANGED step BY <1>13 DEF FailStaleRun
  <2> HIDE DEF F
  <2>3. R \in Row /\ Evidence(row[r], R) BY <2>1 DEF Evidence, Row
  <2> HIDE DEF R
  <2> QED BY <1>3, <2>2, <2>3 DEF Advances
<1>14. ASSUME NEW r \in Run, RecoveryVisits(r) PROVE Effect
  <2>1. CASE FullStages(r) BY <1>1, <1>3, <1>14, <2>1, FullStagesAdvances DEF RecoveryVisits
  <2>2. CASE row' = [row EXCEPT ![r].parent = TRUE, ![r].quiesced = @ \/ Proof(r)]
    <3> DEFINE quiesced == row[r].quiesced \/ Proof(r)
               R == [row[r] EXCEPT !.parent = TRUE, !.quiesced = quiesced]
    <3>1. row' = [row EXCEPT ![r] = R] BY <1>1, <2>2
    <3>2. quiesced \in BOOLEAN BY <1>1 DEF Proof, Row
    <3> HIDE DEF quiesced
    <3>3. R \in Row /\ Evidence(row[r], R) BY <1>1, <3>2 DEF Evidence, Row
    <3> HIDE DEF R
    <3>4. UNCHANGED step BY <1>14 DEF RecoveryVisits
    <3> QED BY <1>3, <3>1, <3>3, <3>4 DEF Advances
  <2> QED BY <1>14, <2>1, <2>2 DEF RecoveryVisits
<1>15. ASSUME NEW s \in Sweep, SweepStep(s) PROVE Effect
  <2>1. ~SweepAt(s, "scan") => sweep[s].run \in Run BY DEF TypeInv, VisitsARun, SweepAt
  <2>2. CASE SweepRetries(s)
    <3>1. sweep[s].run \in Run BY <2>1, <2>2 DEF SweepRetries, SweepAt
    <3>2. \/ UNCHANGED <<row, step>> \/ EnqueueChild(sweep[s].run, "retry")
          \/ EnqueueChild(sweep[s].run, "fallback")
      BY <2>2 DEF SweepRetries
    <3> QED BY <1>2, <1>5, <3>1, <3>2
  <2>3. CASE SweepSettles(s)
    BY <1>1, <1>3, <2>1, <2>3, FullStagesAdvances DEF SweepSettles, SweepAt
  <2>4. CASE SweepGate(s) BY <1>6, <2>1, <2>4 DEF SweepGate, SweepAt
  <2>5. CASE SweepLoses(s)
    BY <1>2, <1>4, <2>1, <2>5 DEF SweepLoses, SweepAt, SweepWrites, Terminal
  <2> QED BY <1>2, <1>15, <2>2, <2>3, <2>4, <2>5 DEF SweepStep, SweepLeavesDone
<1>16. ASSUME NEW s \in Sweep, NEW r \in Run, SweepEndsDone(s, r) \/ SweepTimesOut(s, r)
       PROVE  Effect
  BY <1>2, <1>4, <1>16 DEF SweepEndsDone, SweepTimesOut, SweepWrites, Terminal
<1>17. ASSUME NEW r \in Run, ClaimRefused(r) \/ FinalizeLinkedRun(r) PROVE Effect
  BY <1>4, <1>17 DEF ClaimRefused, FinalizeLinkedRun, Terminal
<1>18. CASE RecoveryGate BY <1>6, <1>18 DEF RecoveryGate, TypeInv, VisitsARun
<1>19. CASE \E r \in Run : Claim(r) \/ DispatchStep(r) BY <1>19 DEF Effect
<1>20. CASE \E r \in Run : SetupFails(r) \/ TailFails(r) \/ TailUnlink(r) \/ OrphanExits(r)
  BY <1>2, <1>7, <1>20 DEF SetupFails, TailFails, TailUnlink, OrphanExits
<1>21. CASE \E s \in Sweep : SweepStart(s) \/ \E r \in Run : SweepSkips(s, r) \/ SweepFindsLost(s, r)
  BY <1>2, <1>21 DEF SweepStart, SweepSkips, SweepFindsLost
<1>22. CASE StepRetry \/ IssueCompletes BY <1>22 DEF Effect
<1>23. CASE BeginShutdown \/ Restart \/ UNCHANGED vars
  BY <1>2, <1>23 DEF BeginShutdown, Restart, vars
<1> QED BY <1>9, <1>10, <1>11, <1>12, <1>13, <1>14, <1>15, <1>16, <1>17, <1>18, <1>19, <1>20,
           <1>21, <1>22, <1>23 DEF Next, Tail

-----------------------------------------------------------------------------
(* The effects, row by row.                                                *)

LEMMA AdvanceWrites ==
  ASSUME TypeOK, NEW r \in Run, Advances(r)
  PROVE  Evidence(row[r], row'[r]) /\ \A q \in Run \ {r} : row'[q] = row[q]
BY DEF Advances, TypeOK

LEMMA ClaimWrites ==
  ASSUME TypeOK, NEW r \in Run, Claim(r)
  PROVE  /\ row'[r].status = "running" /\ row'[r].started /\ row'[r].v1 /\ row'[r].lease # None
         /\ row'[r].released = FALSE /\ row'[r].generation = step.generation
         /\ row'[r].retryOf = row[r].retryOf /\ row'[r].settled = row[r].settled
         /\ \A q \in Run \ {r} : row'[q] = row[q]
         /\ step'.ready = step.ready /\ step'.generation = step.generation
<1> DEFINE lease == row[r].lease + 1
           R == [row[r] EXCEPT !.status = "running", !.started = TRUE, !.v1 = TRUE,
                   !.lease = lease, !.acked = FALSE, !.released = FALSE,
                   !.generation = row[r].wakeGeneration]
<1>1. row \in [Run -> Row] /\ row[r] \in Row /\ step \in Step BY DEF TypeOK
<1>2. lease # None BY <1>1 DEF Row, None
<1>3. row' = [row EXCEPT ![r] = R] BY DEF Claim
<1> HIDE DEF lease
<1>4. /\ R.status = "running" /\ R.started /\ R.v1 /\ R.lease # None
      /\ R.released = FALSE /\ R.generation = row[r].wakeGeneration
      /\ R.retryOf = row[r].retryOf /\ R.settled = row[r].settled
  BY <1>1, <1>2 DEF Row
<1> HIDE DEF R
<1>5. row'[r] = R /\ \A q \in Run \ {r} : row'[q] = row[q] BY <1>1, <1>3
<1>6. row[r].wakeGeneration = step.generation /\ step' = [step EXCEPT !.owner = r] BY DEF Claim
<1> QED BY <1>1, <1>4, <1>5, <1>6 DEF Step

LEMMA DeferWrites ==
  ASSUME TypeOK, NEW r \in Run, Defers(r)
  PROVE  /\ row'[r].status = "queued" /\ row'[r].started = FALSE
         /\ row'[r].lease = row[r].lease /\ row'[r].released = row[r].released
         /\ row'[r].generation = row[r].generation /\ row'[r].retryOf = row[r].retryOf
         /\ row'[r].settled = row[r].settled
         /\ \A q \in Run \ {r} : row'[q] = row[q]
<1> DEFINE R == [row[r] EXCEPT !.status = "queued", !.started = FALSE]
<1>1. row' = [row EXCEPT ![r] = R] BY DEF Defers
<1>2. /\ R.status = "queued" /\ R.started = FALSE /\ R.lease = row[r].lease
      /\ R.released = row[r].released /\ R.generation = row[r].generation
      /\ R.retryOf = row[r].retryOf /\ R.settled = row[r].settled
  BY DEF TypeOK, Row
<1> HIDE DEF R
<1> QED BY <1>1, <1>2 DEF TypeOK

\* A new row.
Fresh(R) ==
  /\ R.status = "queued" /\ R.started = FALSE /\ R.released = FALSE /\ R.settled = FALSE

LEMMA DispatchWrites ==
  ASSUME TypeOK, NEW r \in Run, DispatchStep(r)
  PROVE  /\ row[r].status = "absent" /\ Fresh(row'[r])
         /\ row'[r].retryOf = None /\ row'[r].generation = None
         /\ \A q \in Run \ {r} : row'[q] = row[q]
         /\ UNCHANGED step
<1>1. /\ Fresh(QueuedRow(step.generation)) /\ QueuedRow(step.generation).retryOf = None
      /\ QueuedRow(step.generation).generation = None
  BY DEF QueuedRow, AbsentRow, Fresh
<1> QED BY <1>1 DEF DispatchStep, TypeOK

LEMMA SettleWrites ==
  ASSUME TypeOK, NEW r \in Run, GateOpen(r), SettleIfReady(r)
  PROVE  /\ row'[r] = [row[r] EXCEPT !.settled = TRUE] /\ row'[r].settled
         /\ Evidence(row[r], [row'[r] EXCEPT !.settled = row[r].settled])
         /\ \A q \in Run \ {r} : row'[q] = row[q]
         /\ step'.generation = step.generation
         /\ step'.ready = IF row[r].generation = step.generation /\ step.ready = None
                          THEN r ELSE step.ready
<1>1. row' = [row EXCEPT ![r] = [row[r] EXCEPT !.settled = TRUE]] BY DEF SettleIfReady
<1>2. row[r] \in Row /\ row \in [Run -> Row] /\ step \in Step BY DEF TypeOK
<1>3. row'[r] = [row[r] EXCEPT !.settled = TRUE] /\ \A q \in Run \ {r} : row'[q] = row[q]
  BY <1>1, <1>2
<1>4. step' = IF row[r].generation = step.generation /\ step.ready = None
              THEN [step EXCEPT !.ready = r] ELSE step
  BY DEF SettleIfReady
<1> QED BY <1>2, <1>3, <1>4 DEF Row, Step, Evidence

\* The transfer of authority to a retry leaves the parent in its status.
Transferred(R, S) ==
  /\ S.started = R.started /\ S.v1 = R.v1 /\ S.retryOf = R.retryOf
  /\ S.generation = R.generation /\ S.settled = R.settled /\ S.status = R.status
  /\ S.lease = R.lease + 1 /\ S.released = TRUE

LEMMA EnqueueWrites ==
  ASSUME TypeInv, ClaimedInv, NEW p \in Run, NEW kind, EnqueueChild(p, kind)
  PROVE  \E c \in Run :
           /\ c # p /\ row[c].status = "absent" /\ Fresh(row'[c]) /\ row'[c].retryOf = p
           /\ row'[c].generation \in {None, row[p].generation}
           /\ row'[p].released /\ row[p].status \in Begun
           /\ row'[p] = row[p] \/ Transferred(row[p], row'[p])
           /\ \A q \in Run \ {c, p} : row'[q] = row[q]
           /\ step'.ready = step.ready /\ step'.generation = step.generation
<1> DEFINE P == [row[p] EXCEPT !.lease = row[p].lease + 1, !.released = TRUE]
           C == [Child(p, kind) EXCEPT !.v1 = TRUE, !.generation = row[p].generation]
<1>1. PICK c \in Run :
        /\ row[c].status = "absent"
        /\ IF Transfers(p)
           THEN /\ row' = [row EXCEPT ![p].lease = @ + 1, ![p].released = TRUE, ![c] = C]
                /\ step' = [step EXCEPT !.owner = c]
           ELSE row' = [row EXCEPT ![c] = Child(p, kind)] /\ UNCHANGED step
  BY DEF EnqueueChild
<1>2. /\ row \in [Run -> Row] /\ row[p] \in Row /\ step \in Step /\ Claimed(row[p])
      /\ row[p].started
  BY DEF TypeInv, TypeOK, ClaimedInv, EnqueueChild, Identified
<1>3. row[p].status \in Begun /\ (Transfers(p) \/ row[p].released)
  BY <1>2 DEF Claimed, Transfers
<1>4. c # p BY <1>1, <1>3 DEF Begun, Terminal
<1>5. /\ Fresh(Child(p, kind)) /\ Child(p, kind).retryOf = p /\ Child(p, kind).generation = None
  BY DEF Child, QueuedRow, AbsentRow, Fresh
<1>6. /\ Fresh(C) /\ C.retryOf = p /\ C.generation = row[p].generation
  BY DEF Child, QueuedRow, AbsentRow, Fresh
<1>7. Transferred(row[p], P)
  <2> DEFINE lease == row[p].lease + 1
  <2>1. P = [row[p] EXCEPT !.lease = lease, !.released = TRUE] OBVIOUS
  <2> HIDE DEF P, lease
  <2>2. Transferred(row[p], P) <=> /\ P.started = row[p].started /\ P.v1 = row[p].v1
                                   /\ P.retryOf = row[p].retryOf /\ P.generation = row[p].generation
                                   /\ P.settled = row[p].settled /\ P.status = row[p].status
                                   /\ P.lease = lease /\ P.released = TRUE
    BY DEF Transferred, lease
  <2> QED BY <1>2, <2>1, <2>2 DEF Row
<1>8. step'.ready = step.ready /\ step'.generation = step.generation BY <1>1, <1>2 DEF Step
<1>9. CASE Transfers(p)
  <2>1. row' = [[row EXCEPT ![p] = P] EXCEPT ![c] = C] BY <1>1, <1>2, <1>9
  <2> HIDE DEF P, C
  <2>2. row'[c] = C /\ row'[p] = P /\ \A q \in Run \ {c, p} : row'[q] = row[q]
    BY <1>2, <1>4, <2>1
  <2>3. row'[p].released BY <1>7, <2>2 DEF Transferred
  <2> QED BY <1>1, <1>3, <1>4, <1>6, <1>7, <1>8, <2>2, <2>3
<1>10. CASE ~Transfers(p)
  <2>1. row' = [row EXCEPT ![c] = Child(p, kind)] BY <1>1, <1>10
  <2>2. row'[c] = Child(p, kind) /\ \A q \in Run \ {c} : row'[q] = row[q] BY <1>2, <2>1
  <2>3. row'[p].released /\ row'[p] = row[p] BY <1>3, <1>4, <1>10, <2>2
  <2> QED BY <1>1, <1>3, <1>4, <1>5, <1>8, <2>2, <2>3
<1> QED BY <1>9, <1>10

-----------------------------------------------------------------------------
(* The invariant, by parts.                                                *)

\* What an effect leaves of a row that it does not create or claim.
Persists(R, S) ==
  /\ S.settled = R.settled /\ S.generation = R.generation /\ S.retryOf = R.retryOf
  /\ R.released => S.released

LEMMA EvidencePersists == \A R, S : Evidence(R, S) => Persists(R, S)
BY DEF Evidence, Persists

LEMMA ClaimedNext ==
  ASSUME TypeInv, ClaimedInv, LeaseInv, Effect
  PROVE  ClaimedInv'
<1>1. TypeOK /\ \A r \in Run : Claimed(row[r]) /\ row[r] \in Row
  BY DEF TypeInv, TypeOK, ClaimedInv
<1>2. CASE UNCHANGED row BY <1>2 DEF ClaimedInv
<1>3. ASSUME NEW r \in Run, Claimed(row'[r]), \A q \in Run \ {r} : row'[q] = row[q]
      PROVE  ClaimedInv'
  BY <1>1, <1>3 DEF ClaimedInv
<1>4. ASSUME NEW r \in Run, Advances(r) PROVE ClaimedInv'
  <2>1. Evidence(row[r], row'[r]) /\ \A q \in Run \ {r} : row'[q] = row[q]
    BY <1>1, <1>4, AdvanceWrites
  <2>2. Claimed(row'[r]) BY <1>1, <2>1 DEF Claimed, Evidence, Begun
  <2> QED BY <1>3, <2>1, <2>2
<1>5. ASSUME NEW r \in Run, Claim(r) PROVE ClaimedInv'
  BY <1>1, <1>3, <1>5, ClaimWrites DEF Claimed, Begun
<1>6. ASSUME NEW r \in Run, Defers(r) PROVE ClaimedInv'
  <2>1. row[r].released = FALSE BY <1>6 DEF Defers, LeaseInv, KeepsLease
  <2>2. Claimed(row'[r]) /\ \A q \in Run \ {r} : row'[q] = row[q]
    BY <1>1, <1>6, <2>1, DeferWrites DEF Claimed
  <2> QED BY <1>3, <2>2
<1>7. ASSUME NEW p \in Run, NEW kind, EnqueueChild(p, kind) PROVE ClaimedInv'
  <2>1. PICK c \in Run :
          /\ c # p /\ Fresh(row'[c]) /\ row[p].status \in Begun
          /\ row'[p] = row[p] \/ Transferred(row[p], row'[p])
          /\ \A q \in Run \ {c, p} : row'[q] = row[q]
    BY <1>7, EnqueueWrites
  <2>2. Claimed(row'[c]) BY <2>1 DEF Claimed, Fresh
  <2>3. CASE row'[p] = row[p] BY <1>1, <2>1, <2>2, <2>3 DEF ClaimedInv
  <2>4. CASE Transferred(row[p], row'[p])
    <3>1. row[p].lease \in Nat BY <1>1 DEF Row
    <3>2. row'[p].lease # None BY <2>4, <3>1 DEF Transferred, None
    <3>3. Claimed(row'[p]) BY <1>1, <2>1, <2>4, <3>2 DEF Transferred, Claimed
    <3> QED BY <1>1, <2>1, <2>2, <3>3 DEF ClaimedInv
  <2> QED BY <2>1, <2>3, <2>4
<1>8. ASSUME NEW r \in Run, GateOpen(r), SettleIfReady(r) PROVE ClaimedInv'
  <2>1. row'[r] = [row[r] EXCEPT !.settled = TRUE] /\ \A q \in Run \ {r} : row'[q] = row[q]
    BY <1>1, <1>8, SettleWrites
  <2>2. Claimed(row'[r]) BY <1>1, <2>1 DEF Claimed, Row
  <2> QED BY <1>3, <2>1, <2>2
<1>9. ASSUME NEW r \in Run, DispatchStep(r) PROVE ClaimedInv'
  BY <1>1, <1>3, <1>9, DispatchWrites DEF Claimed, Fresh
<1> QED BY <1>2, <1>4, <1>5, <1>6, <1>7, <1>8, <1>9 DEF Effect, StepRetry, IssueCompletes

\* An execution that is acknowledged was so before, in the same frame, or is
\* acknowledged by this step.
LEMMA AckedNext ==
  ASSUME TypeOK, [Next]_vars, NEW q \in Run, exec'[q] = "acked"
  PROVE  (exec[q] = "acked" /\ frame'[q] = frame[q]) \/ Acknowledge(q)
<1> USE DEF memory, counters, At, Goto
<1>1. exec \in [Run -> ExecPhase] /\ frame \in [Run -> [lease : Nat, invoked : BOOLEAN]]
  BY DEF TypeOK
<1>2. CASE UNCHANGED <<exec, frame>> BY <1>2
<1>3. ASSUME NEW r \in Run, Execution(r) \/ SetupFails(r) \/ RetryFailed(r) \/ FallbackOfLost(r)
                             \/ Claim(r)
      PROVE  (exec[q] = "acked" /\ frame'[q] = frame[q]) \/ Acknowledge(q)
  <2>1. CASE Claim(r) BY <1>1, <2>1 DEF Claim
  <2>2. CASE ExecuteRun(r) BY <1>1, <2>2 DEF ExecuteRun
  <2>3. CASE SetupFails(r) \/ SetupFailed(r)
    BY <1>1, <2>3 DEF SetupFails, SetupFailed, FailSetup
  <2>4. CASE Acknowledge(r) BY <1>1, <2>4 DEF Acknowledge
  <2>5. CASE StartAdapter(r) BY <1>1, <2>5 DEF StartAdapter
  <2>6. CASE Defer(r) BY <1>1, <2>6 DEF Defer, FailSetup
  <2>7. CASE StartFails(r) \/ WriteOutcome(r)
    BY <1>1, <2>7 DEF StartFails, WriteOutcome, WriteStatus
  <2>8. CASE AdapterReturns(r) BY <1>1, <2>8 DEF AdapterReturns
  <2>9. CASE LeaveTerminal(r) \/ RetryFailed(r) \/ FallbackOfLost(r)
    BY <1>1, <2>9 DEF LeaveTerminal, RetryFailed, FallbackOfLost
  <2>10. CASE Finally(r) \/ ExecutionGate(r) BY <1>1, <2>10 DEF Finally, ExecutionGate
  <2> QED BY <1>3, <2>1, <2>2, <2>3, <2>4, <2>5, <2>6, <2>7, <2>8, <2>9, <2>10 DEF Execution
<1>4. CASE Restart BY <1>4 DEF Restart
<1>5. ASSUME NEW r \in Run,
             \/ ClaimRefused(r) \/ Tail(r) \/ TailFails(r) \/ CancelRun(r) \/ FinalizeLinkedRun(r)
             \/ FailStaleRun(r) \/ RecoveryVisits(r) \/ DispatchStep(r) \/ OrphanExits(r)
      PROVE  UNCHANGED <<exec, frame>>
  BY <1>5 DEF ClaimRefused, Tail, TailDecide, TailHook, TailRelease, TailUnlink, TailFails,
     CancelRun, FinalizeLinkedRun, FailStaleRun, RecoveryVisits, DispatchStep, OrphanExits
<1>6. ASSUME NEW s \in Sweep,
             \/ SweepStart(s) \/ SweepStep(s)
             \/ \E r \in Run : \/ SweepSkips(s, r) \/ SweepEndsDone(s, r)
                               \/ SweepTimesOut(s, r) \/ SweepFindsLost(s, r)
      PROVE  UNCHANGED <<exec, frame>>
  BY <1>6 DEF SweepStart, SweepStep, SweepLeavesDone, SweepRetries, SweepSettles, SweepGate,
     SweepSkips, SweepEndsDone, SweepTimesOut, SweepFindsLost, SweepLoses, SweepWrites
<1>7. CASE RecoveryGate \/ StepRetry \/ IssueCompletes \/ BeginShutdown \/ UNCHANGED vars
  BY <1>2, <1>7 DEF RecoveryGate, StepRetry, IssueCompletes, BeginShutdown, vars
<1> QED BY <1>2, <1>3, <1>4, <1>5, <1>6, <1>7 DEF Next

LEMMA LeaseNext ==
  ASSUME TypeInv, ClaimedInv, LeaseInv, [Next]_vars
  PROVE  LeaseInv'
<1>1. Effect /\ TypeOK BY StepEffects DEF TypeInv
<1> SUFFICES ASSUME NEW q \in Run, exec'[q] = "acked" PROVE KeepsLease(q)'
  BY DEF LeaseInv, At
<1>2. CASE Acknowledge(q)
  <2>1. /\ row[q].status = "running" /\ row[q].lease = frame[q].lease
        /\ ~row[q].released /\ row' = [row EXCEPT ![q].acked = TRUE] /\ UNCHANGED frame
    <3>1. ~(Goto(q, "finally") /\ UNCHANGED row) BY <1>1 DEF Goto, TypeOK
    <3> QED BY <1>2, <3>1 DEF Acknowledge
  <2>2. row[q] \in Row /\ row \in [Run -> Row] BY <1>1 DEF TypeOK
  <2>3. row'[q] = [row[q] EXCEPT !.acked = TRUE] BY <2>1, <2>2
  <2>4. row'[q].status = "running" /\ row'[q].lease = row[q].lease /\ row'[q].released = row[q].released
    BY <2>1, <2>2, <2>3 DEF Row
  <2>5. row[q].released = FALSE BY <2>1, <2>2 DEF Row
  <2>6. row[q].lease \in Nat BY <2>2 DEF Row
  <2> QED BY <2>1, <2>4, <2>5, <2>6 DEF KeepsLease
<1>3. CASE exec[q] = "acked" /\ frame'[q] = frame[q]
  <2>1. KeepsLease(q) BY <1>3 DEF LeaseInv, At
  <2>2. row[q].lease \in Nat /\ frame[q].lease \in Nat BY <1>1 DEF TypeOK, Row
  <2>3. CASE row'[q] = row[q] BY <1>3, <2>1, <2>3 DEF KeepsLease
  <2>4. ASSUME Evidence(row[q], row'[q]) PROVE KeepsLease(q)'
    BY <1>3, <2>1, <2>2, <2>4 DEF KeepsLease, Evidence, Terminal
  <2>5. ASSUME NEW r \in Run, Advances(r) PROVE KeepsLease(q)'
    BY <1>1, <2>3, <2>4, <2>5, AdvanceWrites
  <2>6. ASSUME NEW r \in Run, Claim(r) PROVE KeepsLease(q)'
    <3>1. r # q BY <1>3, <2>6 DEF Claim
    <3> QED BY <1>1, <2>3, <2>6, <3>1, ClaimWrites
  <2>7. ASSUME NEW r \in Run, Defers(r) PROVE KeepsLease(q)'
    <3>1. CASE r = q
      <4>1. row'[q].status = "queued" /\ row'[q].lease = row[q].lease
        BY <1>1, <2>7, <3>1, DeferWrites
      <4> QED BY <1>3, <2>1, <4>1 DEF KeepsLease
    <3>2. CASE r # q BY <1>1, <2>3, <2>7, <3>2, DeferWrites
    <3> QED BY <3>1, <3>2
  <2>8. ASSUME NEW p \in Run, NEW kind, EnqueueChild(p, kind) PROVE KeepsLease(q)'
    <3>1. PICK c \in Run : /\ row[c].status = "absent"
                           /\ row'[p] = row[p] \/ Transferred(row[p], row'[p])
                           /\ \A x \in Run \ {c, p} : row'[x] = row[x]
      BY <2>8, EnqueueWrites
    <3>2. c # q BY <2>1, <3>1 DEF KeepsLease
    <3>3. CASE p = q /\ Transferred(row[p], row'[p])
      BY <1>3, <2>1, <2>2, <3>3 DEF KeepsLease, Transferred
    <3> QED BY <2>3, <3>1, <3>2, <3>3
  <2>9. ASSUME NEW r \in Run, GateOpen(r), SettleIfReady(r) PROVE KeepsLease(q)'
    <3>1. CASE r = q
      <4>1. row'[q] = [row[q] EXCEPT !.settled = TRUE] BY <1>1, <2>9, <3>1, SettleWrites
      <4>2. /\ row'[q].status = row[q].status /\ row'[q].lease = row[q].lease
            /\ row'[q].released = row[q].released
        BY <1>1, <4>1 DEF TypeOK, Row
      <4> QED BY <1>3, <2>1, <4>2 DEF KeepsLease
    <3>2. CASE r # q BY <1>1, <2>3, <2>9, <3>2, SettleWrites
    <3> QED BY <3>1, <3>2
  <2>10. ASSUME NEW r \in Run, DispatchStep(r) PROVE KeepsLease(q)'
    <3>1. r # q BY <1>1, <2>1, <2>10, DispatchWrites DEF KeepsLease
    <3> QED BY <1>1, <2>3, <2>10, <3>1, DispatchWrites
  <2> QED BY <1>1, <2>3, <2>5, <2>6, <2>7, <2>8, <2>9, <2>10 DEF Effect, StepRetry, IssueCompletes
<1> QED BY <1>1, <1>2, <1>3, AckedNext

\* A retry follows the release of its parent, which never goes back to the
\* queue and so keeps its capability released.
LEMMA RetryFollowsReleaseNext ==
  ASSUME TypeInv, ClaimedInv, RetryFollowsRelease, Effect
  PROVE  RetryFollowsRelease'
<1>1. TypeOK /\ \A r \in Run : Claimed(row[r]) /\ row[r].retryOf \in 0..MaxRuns
  BY DEF TypeInv, TypeOK, ClaimedInv, Row
<1> SUFFICES ASSUME NEW c \in Run, row'[c].retryOf # None
             PROVE  row'[row'[c].retryOf].released
  BY DEF RetryFollowsRelease
<1>2. ASSUME \A q \in Run : Persists(row[q], row'[q]) PROVE row'[row'[c].retryOf].released
  <2> DEFINE p == row[c].retryOf
  <2>1. row'[c].retryOf = p BY <1>2 DEF Persists
  <2>2. p # None /\ row[p].released BY <2>1 DEF RetryFollowsRelease
  <2>3. p \in Run BY <1>1, <2>2, ConstantsAssumption DEF Run, None
  <2> QED BY <1>2, <2>1, <2>2, <2>3 DEF Persists
<1>3. \A R : Persists(R, R) BY DEF Persists
<1>4. CASE UNCHANGED row BY <1>2, <1>3, <1>4
<1>5. ASSUME NEW r \in Run, Advances(r) PROVE row'[row'[c].retryOf].released
  BY <1>1, <1>2, <1>3, <1>5, AdvanceWrites, EvidencePersists
<1>6. ASSUME NEW r \in Run, Defers(r) PROVE row'[row'[c].retryOf].released
  <2>1. Persists(row[r], row'[r]) /\ \A q \in Run \ {r} : row'[q] = row[q]
    BY <1>1, <1>6, DeferWrites DEF Persists
  <2> QED BY <1>2, <1>3, <2>1
<1>7. ASSUME NEW r \in Run, GateOpen(r), SettleIfReady(r) PROVE row'[row'[c].retryOf].released
  <2>1. row'[r] = [row[r] EXCEPT !.settled = TRUE] /\ \A q \in Run \ {r} : row'[q] = row[q]
    BY <1>1, <1>7, SettleWrites
  <2>2. \A q \in Run : row'[q].retryOf = row[q].retryOf /\ row'[q].released = row[q].released
    <3>1. row[r] \in Row BY <1>1 DEF TypeOK
    <3>2. row'[r].retryOf = row[r].retryOf /\ row'[r].released = row[r].released
      BY <2>1, <3>1 DEF Row
    <3> QED BY <2>1, <3>2
  <2>3. row[row[c].retryOf].released /\ row[c].retryOf \in Run
    BY <1>1, <2>2, ConstantsAssumption DEF RetryFollowsRelease, Run, None
  <2> QED BY <2>2, <2>3
  \* A row that is not released yet is the parent of nothing.
<1>8. ASSUME NEW r \in Run, row[r].status \notin Begun, row'[r].retryOf \in {None, row[r].retryOf},
             \A q \in Run \ {r} : row'[q] = row[q]
      PROVE  row'[row'[c].retryOf].released
  <2> DEFINE p == row[c].retryOf
  <2>1. row'[c].retryOf = p /\ p # None BY <1>8
  <2>2. row[p].released /\ p \in Run
    BY <1>1, <2>1, ConstantsAssumption DEF RetryFollowsRelease, Run, None
  <2>3. p # r BY <1>1, <1>8, <2>2 DEF Claimed
  <2> QED BY <1>8, <2>1, <2>2, <2>3
<1>9. ASSUME NEW r \in Run, Claim(r) PROVE row'[row'[c].retryOf].released
  <2>1. row[r].status \notin Begun BY <1>9 DEF Claim, Begun, Terminal
  <2> QED BY <1>1, <1>8, <1>9, <2>1, ClaimWrites
<1>10. ASSUME NEW r \in Run, DispatchStep(r) PROVE row'[row'[c].retryOf].released
  <2>1. row[r].status \notin Begun BY <1>10 DEF DispatchStep, Begun, Terminal
  <2> QED BY <1>1, <1>8, <1>10, <2>1, DispatchWrites
<1>11. ASSUME NEW p \in Run, NEW kind, EnqueueChild(p, kind)
       PROVE  row'[row'[c].retryOf].released
  <2>1. PICK d \in Run :
          /\ d # p /\ row[d].status = "absent" /\ row'[d].retryOf = p /\ row'[p].released
          /\ row'[p] = row[p] \/ Transferred(row[p], row'[p])
          /\ \A q \in Run \ {d, p} : row'[q] = row[q]
    BY <1>11, EnqueueWrites
  <2>2. CASE c = d BY <2>1, <2>2
  <2>3. CASE c # d
    <3> DEFINE o == row[c].retryOf
    <3>1. row'[c].retryOf = o BY <2>1, <2>3 DEF Transferred
    <3>2. row[o].released /\ o \in Run
      BY <1>1, <3>1, ConstantsAssumption DEF RetryFollowsRelease, Run, None
    <3>3. o # d BY <1>1, <2>1, <3>2 DEF Claimed, Begun, Terminal
    <3> QED BY <2>1, <3>1, <3>2, <3>3
  <2> QED BY <2>2, <2>3
<1> QED BY <1>4, <1>5, <1>6, <1>7, <1>9, <1>10, <1>11 DEF Effect, StepRetry, IssueCompletes

Readiness == GenerationInv /\ ReadyIsBacked /\ SettledMakesStepReady

\* The stamp of a settlement and the generation it is checked against move
\* together.
LEMMA ReadinessNext ==
  ASSUME TypeInv, RowsSound, ClaimedInv, Readiness, Effect
  PROVE  Readiness'
<1>1. TypeOK /\ \A r \in Run : row[r].generation \in Nat
  BY DEF TypeInv, TypeOK, Row
<1>2. /\ step.generation \in Nat \ {0} /\ step.ready \in 0..(MaxRuns + 1)
  BY <1>1, ConstantsAssumption DEF TypeOK, Step, Generation
<1>3. \A r \in Run : row[r].settled => row[r].status \in Terminal
  BY DEF RowsSound, RowSound
  \* A step that neither settles a run nor changes the generation, and creates
  \* or claims at most the rows of unsettled runs.
<1>4. ASSUME step'.generation = step.generation, step'.ready = step.ready,
             \A q \in Run : /\ row'[q].settled = row[q].settled
                            /\ row'[q].generation <= step.generation
                            /\ row[q].settled => row'[q].generation = row[q].generation
      PROVE  Readiness'
  BY <1>4 DEF Readiness, GenerationInv, ReadyIsBacked, SettledMakesStepReady
<1>5. ASSUME UNCHANGED step, \A q \in Run : Persists(row[q], row'[q]) PROVE Readiness'
  BY <1>4, <1>5 DEF Persists, Readiness, GenerationInv
<1>6. \A R : Persists(R, R) BY DEF Persists
<1>7. CASE UNCHANGED <<row, step>> BY <1>5, <1>6, <1>7
<1>8. ASSUME NEW r \in Run, Advances(r), UNCHANGED step PROVE Readiness'
  BY <1>1, <1>5, <1>6, <1>8, AdvanceWrites, EvidencePersists
<1>9. ASSUME NEW r \in Run, Defers(r), UNCHANGED step PROVE Readiness'
  <2>1. Persists(row[r], row'[r]) /\ \A q \in Run \ {r} : row'[q] = row[q]
    BY <1>1, <1>9, DeferWrites DEF Persists
  <2> QED BY <1>5, <1>6, <1>9, <2>1
<1>10. ASSUME NEW r \in Run, Claim(r) PROVE Readiness'
  <2>1. row[r].status \notin Terminal BY <1>10 DEF Claim, Terminal
  <2>2. /\ row'[r].generation = step.generation /\ row'[r].settled = row[r].settled
        /\ \A q \in Run \ {r} : row'[q] = row[q]
        /\ step'.ready = step.ready /\ step'.generation = step.generation
    BY <1>1, <1>10, ClaimWrites
  <2>3. step.generation <= step.generation BY <1>2
  <2> QED BY <1>3, <1>4, <2>1, <2>2, <2>3 DEF Readiness, GenerationInv
<1>11. ASSUME NEW r \in Run, DispatchStep(r) PROVE Readiness'
  <2>1. /\ row[r].status \notin Terminal /\ row[r].settled = FALSE /\ row'[r].settled = FALSE
        /\ row'[r].generation = None /\ UNCHANGED step
        /\ \A q \in Run \ {r} : row'[q] = row[q]
    <3>1. row[r].status \notin Terminal BY <1>11 DEF DispatchStep, Terminal
    <3>2. row[r].settled = FALSE BY <1>1, <1>3, <3>1 DEF TypeOK, Row
    <3> QED BY <1>1, <1>11, <3>1, <3>2, DispatchWrites DEF Fresh
  <2>2. None <= step.generation BY <1>2 DEF None
  <2> QED BY <1>4, <2>1, <2>2 DEF Readiness, GenerationInv
<1>12. ASSUME NEW p \in Run, NEW kind, EnqueueChild(p, kind) PROVE Readiness'
  <2>1. PICK c \in Run :
          /\ c # p /\ row[c].status = "absent" /\ Fresh(row'[c])
          /\ row'[c].generation \in {None, row[p].generation}
          /\ row'[p] = row[p] \/ Transferred(row[p], row'[p])
          /\ \A q \in Run \ {c, p} : row'[q] = row[q]
          /\ step'.ready = step.ready /\ step'.generation = step.generation
    BY <1>12, EnqueueWrites
  <2>2. row[c].settled = FALSE /\ row'[c].settled = FALSE
    <3>1. row[c].status \notin Terminal BY <2>1 DEF Terminal
    <3> QED BY <1>1, <1>3, <2>1, <3>1 DEF TypeOK, Row, Fresh
  <2>3. row'[c].generation <= step.generation
    BY <1>2, <2>1 DEF None, Readiness, GenerationInv
  <2>4. row'[p].settled = row[p].settled /\ row'[p].generation = row[p].generation
    BY <2>1 DEF Transferred
  <2> QED BY <1>4, <2>1, <2>2, <2>3, <2>4 DEF Readiness, GenerationInv
<1>13. ASSUME NEW r \in Run, GateOpen(r), SettleIfReady(r) PROVE Readiness'
  <2>1. /\ row'[r] = [row[r] EXCEPT !.settled = TRUE]
        /\ \A q \in Run \ {r} : row'[q] = row[q]
        /\ step'.generation = step.generation
        /\ step'.ready = IF row[r].generation = step.generation /\ step.ready = None
                         THEN r ELSE step.ready
    BY <1>1, <1>13, SettleWrites
  <2>2. row'[r].settled /\ row'[r].generation = row[r].generation
    BY <1>1, <2>1 DEF TypeOK, Row
  <2>3. r # None BY ConstantsAssumption DEF Run, None
  <2>4. \A q \in Run : row'[q].generation = row[q].generation /\ (row[q].settled => row'[q].settled)
    BY <2>1, <2>2
  <2>5. GenerationInv' BY <2>1, <2>4 DEF Readiness, GenerationInv
  <2>6. ReadyIsBacked' BY <2>1, <2>2, <2>4 DEF Readiness, ReadyIsBacked
  <2>7. SettledMakesStepReady' BY <2>1, <2>2, <2>3, <2>4 DEF Readiness, SettledMakesStepReady
  <2> QED BY <2>5, <2>6, <2>7 DEF Readiness
<1>14. CASE StepRetry
  <2>1. UNCHANGED row /\ step'.generation = step.generation + 1 /\ step'.ready = None
    BY <1>14 DEF StepRetry
  <2>2. None \notin Run BY ConstantsAssumption DEF Run, None
  <2>3. \A q \in Run : row[q].generation <= step.generation BY DEF Readiness, GenerationInv
  <2>4. GenerationInv' BY <1>1, <1>2, <2>1, <2>3 DEF GenerationInv
  <2>5. ReadyIsBacked' BY <2>1, <2>2 DEF ReadyIsBacked
  <2>6. \A q \in Run : row[q].generation # step.generation + 1 BY <1>1, <1>2, <2>3
  <2>7. SettledMakesStepReady' BY <2>1, <2>6 DEF SettledMakesStepReady
  <2> QED BY <2>4, <2>5, <2>7 DEF Readiness
<1>15. CASE IssueCompletes
  <2>1. UNCHANGED row /\ step'.generation = step.generation /\ step'.ready = IssueSync
    BY <1>1, <1>15 DEF IssueCompletes, TypeOK, Step
  <2>2. IssueSync \notin Run /\ IssueSync # None
    BY ConstantsAssumption DEF IssueSync, Run, None
  <2> QED BY <2>1, <2>2 DEF Readiness, GenerationInv, ReadyIsBacked, SettledMakesStepReady
<1> QED BY <1>7, <1>8, <1>9, <1>10, <1>11, <1>12, <1>13, <1>14, <1>15 DEF Effect

LEMMA LineageInit == Init => LineageInv
<1> SUFFICES ASSUME Init PROVE LineageInv OBVIOUS
<1>1. \A r \in Run : /\ row[r].started = FALSE /\ row[r].released = FALSE
                     /\ row[r].retryOf = None /\ row[r].settled = FALSE
                     /\ row[r].generation = None
  BY DEF Init, QueuedRow, AbsentRow
<1>2. step.generation = 1 /\ step.ready = None BY DEF Init
<1>3. None \notin Run /\ None <= 1 BY ConstantsAssumption DEF Run, None
<1>4. ClaimedInv /\ RetryFollowsRelease BY <1>1 DEF ClaimedInv, Claimed, RetryFollowsRelease
<1>5. LeaseInv BY DEF LeaseInv, At, Init
<1>6. GenerationInv /\ ReadyIsBacked /\ SettledMakesStepReady
  BY <1>1, <1>2, <1>3 DEF GenerationInv, ReadyIsBacked, SettledMakesStepReady
<1> QED BY <1>4, <1>5, <1>6 DEF LineageInv

LEMMA LineageNext ==
  ASSUME TypeInv, RowsSound, LineageInv, [Next]_vars
  PROVE  LineageInv'
<1>1. Effect BY StepEffects
<1>2. ClaimedInv' /\ LeaseInv' /\ RetryFollowsRelease'
  BY <1>1, ClaimedNext, LeaseNext, RetryFollowsReleaseNext DEF LineageInv
<1>3. Readiness' BY <1>1, ReadinessNext DEF LineageInv, Readiness
<1> QED BY <1>2, <1>3 DEF LineageInv, Readiness

-----------------------------------------------------------------------------
(* The refinement: the rows as RunLifecycle sees them.                     *)

StageOf(R) ==
  IF R.status \notin Terminal THEN R.status ELSE IF R.settled THEN "settled" ELSE "ended"
ResultOf(R) == IF R.status \in Terminal THEN R.status ELSE "none"

Stages == [r \in Run |-> StageOf(row[r])]
Results == [r \in Run |-> ResultOf(row[r])]

\* The instance has a copy of the operators of FiniteSets.
LEMMA MappedCardinality == \A S : Lifecycle!Cardinality(S) = Cardinality(S)
BY DEF Cardinality, Lifecycle!Cardinality, IsFiniteSet, Lifecycle!IsFiniteSet

\* The actions of RunLifecycle, under the mapping.
LEMMA MappedMoves ==
  ASSUME NEW r \in Run
  PROVE  /\ Lifecycle!Create(r) <=> /\ Stages[r] \in {"absent"}
                                    /\ Stages' = [Stages EXCEPT ![r] = "queued"]
                                    /\ Results' = Results
         /\ Lifecycle!Start(r) <=> /\ Cardinality({q \in Run : Stages[q] = "running"}) < MaxConcurrent
                                   /\ Stages[r] \in {"queued"}
                                   /\ Stages' = [Stages EXCEPT ![r] = "running"]
                                   /\ Results' = Results
         /\ Lifecycle!Defer(r) <=> /\ Stages[r] \in {"running"}
                                   /\ Stages' = [Stages EXCEPT ![r] = "queued"]
                                   /\ Results' = Results
         /\ Lifecycle!End(r) <=> /\ Stages[r] \in {"queued", "running"}
                                 /\ Stages' = [Stages EXCEPT ![r] = "ended"]
                                 /\ \E s \in Terminal : Results' = [Results EXCEPT ![r] = s]
         /\ Lifecycle!Settle(r) <=> /\ Stages[r] \in {"ended"}
                                    /\ Stages' = [Stages EXCEPT ![r] = "settled"]
                                    /\ Results' = Results
<1> DEFINE stage == [q \in Run |-> IF ~Ended(q) THEN row[q].status
                                  ELSE IF row[q].settled THEN "settled" ELSE "ended"]
           result == [q \in Run |-> IF Ended(q) THEN row[q].status ELSE "none"]
<1>1. Stages = stage /\ Results = result BY DEF Stages, Results, StageOf, ResultOf, Ended
<1>2. Stages' = stage' /\ Results' = result' BY DEF Stages, Results, StageOf, ResultOf, Ended
<1>3. Lifecycle!Create(r) <=> /\ stage[r] \in {"absent"} /\ stage' = [stage EXCEPT ![r] = "queued"]
                              /\ result' = result
  BY DEF Lifecycle!Create, Lifecycle!Moves
<1>4. Lifecycle!Start(r) <=> /\ Cardinality({q \in Run : stage[q] = "running"}) < MaxConcurrent
                             /\ stage[r] \in {"queued"} /\ stage' = [stage EXCEPT ![r] = "running"]
                             /\ result' = result
  <2>1. Lifecycle!Running = {q \in Run : stage[q] = "running"} BY DEF Lifecycle!Running
  <2>2. Lifecycle!Start(r) <=> /\ Cardinality(Lifecycle!Running) < MaxConcurrent
                               /\ stage[r] \in {"queued"}
                               /\ stage' = [stage EXCEPT ![r] = "running"] /\ result' = result
    BY MappedCardinality DEF Lifecycle!Start, Lifecycle!Moves
  <2> HIDE DEF stage, result
  <2> QED BY <2>1, <2>2
<1>5. Lifecycle!Defer(r) <=> /\ stage[r] \in {"running"} /\ stage' = [stage EXCEPT ![r] = "queued"]
                             /\ result' = result
  BY DEF Lifecycle!Defer, Lifecycle!Moves
<1>6. Lifecycle!End(r) <=> /\ stage[r] \in {"queued", "running"}
                           /\ stage' = [stage EXCEPT ![r] = "ended"]
                           /\ \E s \in Terminal : result' = [result EXCEPT ![r] = s]
  BY DEF Lifecycle!End, Lifecycle!Moves, Lifecycle!Result, Terminal
<1>7. Lifecycle!Settle(r) <=> /\ stage[r] \in {"ended"} /\ stage' = [stage EXCEPT ![r] = "settled"]
                              /\ result' = result
  BY DEF Lifecycle!Settle, Lifecycle!Moves
<1> HIDE DEF stage, result
<1> QED BY <1>1, <1>2, <1>3, <1>4, <1>5, <1>6, <1>7

LEMMA MappedStutter ==
  Stages' = Stages /\ Results' = Results => UNCHANGED Lifecycle!lifecycleVars
BY DEF Lifecycle!lifecycleVars, Stages, Results, StageOf, ResultOf, Ended

LEMMA MappedInit == Init => Lifecycle!Init
<1> SUFFICES ASSUME Init PROVE Lifecycle!Init OBVIOUS
<1>1. \A r \in Run : row[r].status \in {"absent", "queued"}
  BY DEF Init, QueuedRow, AbsentRow
<1>2. \A r \in Run : ~Ended(r) BY <1>1 DEF Ended, Terminal
<1> QED BY <1>1, <1>2 DEF Lifecycle!Init

\* One row changes its stage, with the same result or with a new one.
LEMMA OneMoves ==
  ASSUME NEW r \in Run, \A q \in Run \ {r} : row'[q].status = row[q].status
                                             /\ row'[q].settled = row[q].settled
  PROVE  /\ Stages' = [Stages EXCEPT ![r] = StageOf(row'[r])]
         /\ Results' = [Results EXCEPT ![r] = ResultOf(row'[r])]
<1>1. /\ Stages' = [q \in Run |-> StageOf(row'[q])]
      /\ Results' = [q \in Run |-> ResultOf(row'[q])]
  BY DEF Stages, Results
<1>2. \A q \in Run \ {r} : StageOf(row'[q]) = StageOf(row[q]) /\ ResultOf(row'[q]) = ResultOf(row[q])
  BY DEF StageOf, ResultOf
<1>3. [Stages EXCEPT ![r] = StageOf(row'[r])]
        = [q \in Run |-> IF q = r THEN StageOf(row'[r]) ELSE StageOf(row[q])]
  BY DEF Stages
<1>4. [Results EXCEPT ![r] = ResultOf(row'[r])]
        = [q \in Run |-> IF q = r THEN ResultOf(row'[r]) ELSE ResultOf(row[q])]
  BY DEF Results
<1> QED BY <1>1, <1>2, <1>3, <1>4

LEMMA SameResult ==
  ASSUME NEW r \in Run, Results' = [Results EXCEPT ![r] = ResultOf(row'[r])],
         ResultOf(row'[r]) = ResultOf(row[r])
  PROVE  Results' = Results
BY DEF Results

\* A step of the runs is a step of the lifecycle, or none.
LEMMA MappedNext ==
  ASSUME TypeInv, RowsSound, ClaimedInv, [Next]_vars
  PROVE  [Lifecycle!Next]_(Lifecycle!lifecycleVars)
<1>1. Effect /\ TypeOK BY StepEffects DEF TypeInv
<1>2. \A r \in Run : row[r].settled => row[r].status \in Terminal
  BY DEF RowsSound, RowSound
<1>3. \A r \in Run : Stages[r] = StageOf(row[r]) /\ Results[r] = ResultOf(row[r])
  BY DEF Stages, Results
<1>4. ASSUME \A q \in Run : row'[q].status = row[q].status /\ row'[q].settled = row[q].settled
      PROVE  UNCHANGED Lifecycle!lifecycleVars
  <2>1. Stages' = Stages /\ Results' = Results
    BY <1>4 DEF Stages, Results, StageOf, ResultOf
  <2> QED BY <2>1, MappedStutter
<1>5. CASE UNCHANGED row BY <1>4, <1>5
<1>6. ASSUME NEW r \in Run, Advances(r) PROVE [Lifecycle!Next]_(Lifecycle!lifecycleVars)
  <2>1. Evidence(row[r], row'[r]) /\ \A q \in Run \ {r} : row'[q] = row[q]
    BY <1>1, <1>6, AdvanceWrites
  <2>2. CASE row'[r].status = row[r].status BY <1>4, <2>1, <2>2 DEF Evidence
  <2>3. CASE row[r].status \in {"queued", "running"} /\ row'[r].status \in Terminal
    <3>1. ~row'[r].settled BY <1>2, <2>1, <2>3 DEF Evidence, Terminal
    <3>2. StageOf(row'[r]) = "ended" /\ ResultOf(row'[r]) \in Terminal
      BY <2>3, <3>1 DEF StageOf, ResultOf
    <3>3. Stages[r] \in {"queued", "running"} BY <1>3, <2>3 DEF StageOf, Terminal
    <3>4. Lifecycle!End(r) BY <2>1, <3>2, <3>3, OneMoves, MappedMoves
    <3> QED BY <3>4 DEF Lifecycle!Next
  <2> QED BY <2>1, <2>2, <2>3 DEF Evidence
<1>7. ASSUME NEW r \in Run, Claim(r) PROVE [Lifecycle!Next]_(Lifecycle!lifecycleVars)
  <2>1. /\ row'[r].status = "running" /\ \A q \in Run \ {r} : row'[q] = row[q]
        /\ row[r].status = "queued"
    BY <1>1, <1>7, ClaimWrites DEF Claim
  <2>2. /\ StageOf(row[r]) = "queued" /\ StageOf(row'[r]) = "running"
        /\ ResultOf(row[r]) = "none" /\ ResultOf(row'[r]) = "none"
    BY <2>1 DEF StageOf, ResultOf, Terminal
  <2>3. Cardinality({q \in Run : Stages[q] = "running"}) < MaxConcurrent
    <3> DEFINE S == {q \in Run : Stages[q] = "running"}
    <3>1. S \subseteq LifecycleActive
      BY <1>3 DEF StageOf, LifecycleActive
    <3>2. S \in SUBSET Run /\ LifecycleActive \in SUBSET Run BY DEF LifecycleActive
    <3>3. Cardinality(LifecycleActive) < MaxConcurrent BY <1>7 DEF Claim, SlotFree
    <3> HIDE DEF S
    <3>4. Cardinality(S) <= Cardinality(LifecycleActive) BY <3>1, <3>2, RunIsFinite, FS_Subset
    <3>5. Cardinality(S) < MaxConcurrent
      BY <3>2, <3>3, <3>4, RunIsFinite, ConstantsAssumption
    <3> QED BY <3>5 DEF S
  <2>4. Lifecycle!Start(r) BY <1>3, <2>1, <2>2, <2>3, OneMoves, SameResult, MappedMoves
  <2> QED BY <2>4 DEF Lifecycle!Next
<1>8. ASSUME NEW r \in Run, Defers(r) PROVE [Lifecycle!Next]_(Lifecycle!lifecycleVars)
  <2>1. /\ row'[r].status = "queued" /\ \A q \in Run \ {r} : row'[q] = row[q]
        /\ row[r].status = "running"
    BY <1>1, <1>8, DeferWrites DEF Defers
  <2>2. /\ StageOf(row[r]) = "running" /\ StageOf(row'[r]) = "queued"
        /\ ResultOf(row[r]) = "none" /\ ResultOf(row'[r]) = "none"
    BY <2>1 DEF StageOf, ResultOf, Terminal
  <2>3. Lifecycle!Defer(r) BY <1>3, <2>1, <2>2, OneMoves, SameResult, MappedMoves
  <2> QED BY <2>3 DEF Lifecycle!Next
<1>9. ASSUME NEW r \in Run, row[r].status = "absent", Fresh(row'[r]),
             \A q \in Run \ {r} : row'[q].status = row[q].status /\ row'[q].settled = row[q].settled
      PROVE  [Lifecycle!Next]_(Lifecycle!lifecycleVars)
  <2>1. /\ StageOf(row[r]) = "absent" /\ StageOf(row'[r]) = "queued"
        /\ ResultOf(row[r]) = "none" /\ ResultOf(row'[r]) = "none"
    BY <1>9 DEF StageOf, ResultOf, Terminal, Fresh
  <2>2. Lifecycle!Create(r) BY <1>3, <1>9, <2>1, OneMoves, SameResult, MappedMoves
  <2> QED BY <2>2 DEF Lifecycle!Next
<1>10. ASSUME NEW r \in Run, DispatchStep(r) PROVE [Lifecycle!Next]_(Lifecycle!lifecycleVars)
  BY <1>1, <1>9, <1>10, DispatchWrites
<1>11. ASSUME NEW p \in Run, NEW kind, EnqueueChild(p, kind)
       PROVE  [Lifecycle!Next]_(Lifecycle!lifecycleVars)
  <2>1. PICK c \in Run :
          /\ row[c].status = "absent" /\ Fresh(row'[c])
          /\ row'[p] = row[p] \/ Transferred(row[p], row'[p])
          /\ \A q \in Run \ {c, p} : row'[q] = row[q]
    BY <1>11, EnqueueWrites
  <2>2. \A q \in Run \ {c} : row'[q].status = row[q].status /\ row'[q].settled = row[q].settled
    BY <2>1 DEF Transferred
  <2> QED BY <1>9, <2>1, <2>2
<1>12. ASSUME NEW r \in Run, GateOpen(r), SettleIfReady(r)
       PROVE  [Lifecycle!Next]_(Lifecycle!lifecycleVars)
  <2>1. /\ row'[r] = [row[r] EXCEPT !.settled = TRUE] /\ row'[r].settled
        /\ \A q \in Run \ {r} : row'[q] = row[q]
    BY <1>1, <1>12, SettleWrites
  <2>2. row[r].status \in Terminal /\ ~row[r].settled
    BY <1>12 DEF GateOpen, RowsSound, RowSound
  <2>3. row'[r].status = row[r].status BY <1>1, <2>1 DEF TypeOK, Row
  <2>4. /\ StageOf(row[r]) = "ended" /\ StageOf(row'[r]) = "settled"
        /\ ResultOf(row'[r]) = ResultOf(row[r])
    BY <2>1, <2>2, <2>3 DEF StageOf, ResultOf
  <2>5. Results' = Results BY <2>1, <2>4, OneMoves, SameResult
  <2>6. Stages' = [Stages EXCEPT ![r] = "settled"] BY <2>1, <2>4, OneMoves
  <2>7. Lifecycle!Settle(r) BY <1>3, <2>4, <2>5, <2>6, MappedMoves
  <2> QED BY <2>7 DEF Lifecycle!Next
<1> QED BY <1>1, <1>5, <1>6, <1>7, <1>8, <1>10, <1>11, <1>12 DEF Effect, StepRetry, IssueCompletes

-----------------------------------------------------------------------------
\* Leases, releases, generations and stamps fit together in every reachable
\* state, for every number of runs, sweeps, generations and restarts.
THEOREM LineageInvariant == Spec => []FullInv
<1>1. IInv /\ [Next]_vars => IInv'
  BY TypeInvNext, RowsSoundNext, LiveIsRecordedNext, OccupiedNext DEF IInv
<1>2. FullInv /\ [Next]_vars => FullInv' BY <1>1, LineageNext DEF FullInv, IInv
<1>3. Init => FullInv BY IInvInit, LineageInit DEF FullInv
<1> QED BY <1>2, <1>3, PTL DEF Spec

\* A retry or a fallback exists only beside a parent whose capability was given
\* up (heartbeat-retry-enqueue.ts:190-306, authority-transfer.ts:15-117).
THEOREM RetriesFollowReleases == Spec => []RetryFollowsRelease
<1>1. FullInv => RetryFollowsRelease BY DEF FullInv, LineageInv
<1> QED BY <1>1, LineageInvariant, PTL

\* The stamp of a settlement is that of a settled run of the generation the
\* step is in (settlement.ts:33-203).
THEOREM ReadinessIsBacked == Spec => []ReadyIsBacked
<1>1. FullInv => ReadyIsBacked BY DEF FullInv, LineageInv
<1> QED BY <1>1, LineageInvariant, PTL

\* A settled run of the current generation leaves the step ready
\* (settlement.ts:33-203).
THEOREM SettlementMakesReady == Spec => []SettledMakesStepReady
<1>1. FullInv => SettledMakesStepReady BY DEF FullInv, LineageInv
<1> QED BY <1>1, LineageInvariant, PTL

\* The life of the runs implements RunLifecycle: created, started in a free
\* slot, deferred, ended once with one result, settled once and only then.
THEOREM LifecycleIsImplemented == Spec => ImplementsLifecycle
<1>1. FullInv /\ [Next]_vars => [Lifecycle!Next]_(Lifecycle!lifecycleVars)
  BY MappedNext DEF FullInv, IInv, LineageInv
<1> QED BY <1>1, MappedInit, LineageInvariant, PTL DEF Spec, ImplementsLifecycle, Lifecycle!Spec
=============================================================================
