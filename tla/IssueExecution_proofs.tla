------------------------ MODULE IssueExecution_proofs ------------------------
(***************************************************************************)
(* Proofs about IssueExecution for any agents, kinds of wakes and bounds:  *)
(* no wake that must be read is lost, none is carried by two runs, and a   *)
(* live owner keeps the issue.                                             *)
(***************************************************************************)
EXTENDS IssueExecution, FiniteSetTheorems, TLAPS

-----------------------------------------------------------------------------
(* The inductive invariant: where a wake is.                               *)

Carries(r, w) == w \in run[r].context /\ run[r].losses = 0
Stores(v, w) == w \in wake[v].context /\ Waiting(v)

\* A wake is stored by one request or carried by one run, retries aside, and by
\* none while it is being merged or has not arrived.
PlacesInv ==
  /\ \A w \in Wake : \A r, q \in Run : Carries(r, w) /\ Carries(q, w) => r = q
  /\ \A w \in Wake : \A u, v \in Wake : Stores(u, w) /\ Stores(v, w) => u = v
  /\ \A w, v \in Wake, r \in Run : ~(Stores(v, w) /\ Carries(r, w))
  /\ \A w \in Wake :
       merging.wake = w \/ wake[w].status = "absent" =>
         /\ \A r \in Run : ~Carries(r, w)
         /\ \A v \in Wake : ~Stores(v, w)

\* An execution that has not begun has read nothing.
ReadInv == \A r \in Run : run[r].status \in {"absent", "queued"} => run[r].read = {}

MergingInv ==
  merging.wake # None => merging.run \in Run /\ wake[merging.wake].status # "absent"

\* WakeIsNotLost, taken apart.
Owed(w) ==
  wake[w].status # "absent" /\ MustBeRead(w) /\ merging.wake # w /\ ~wake[w].overtaken
Keeps(v, w) == w \in wake[v].context /\ (Waiting(v) \/ wake[v].status = "failed")
Serves(r, w) ==
  /\ w \in run[r].context
  /\ \/ run[r].status = "queued"
     \/ run[r].status = "cancelled" /\ run[r].read = {}
     \/ w \in run[r].read
LossInv ==
  \A w \in Wake : Owed(w) => (\E v \in Wake : Keeps(v, w)) \/ (\E r \in Run : Serves(r, w))

DataInv == PlacesInv /\ ReadInv /\ MergingInv /\ LossInv
IInv == TypeOK /\ DataInv

\* A release that has read the issue still owes its writes.
DecidedInv ==
  \A r \in Run : decided[r] # "nothing" => run[r].status \in Ended /\ ~run[r].released

-----------------------------------------------------------------------------
(* The rows.                                                               *)

IssueRow ==
  [status : Startable \cup {"done"}, executionRun : Run \cup {None},
   checkoutRun : Run \cup {None}]
RunRow ==
  [status : {"absent", "queued", "running"} \cup Ended, agent : Agent,
   context : SUBSET Wake, read : SUBSET Wake, released : BOOLEAN, losses : 0..1]
WakeRow ==
  [status : {"absent", "queued", "deferred", "merged", "coalesced", "failed"},
   agent : Agent, kind : Kinds \cup {"none"}, run : Run \cup {None},
   context : SUBSET Wake, overtaken : BOOLEAN]
MergingRow == [wake : Wake \cup {None}, run : Run \cup {None}, before : Run \cup {None}]
Decision == {"clear", "keep", "done", "blocked", "todo"}
Decided == [Run -> {"nothing"} \cup Decision]

LEMMA Types ==
  ASSUME IInv
  PROVE  /\ issue \in IssueRow /\ run \in [Run -> RunRow] /\ wake \in [Wake -> WakeRow]
         /\ merging \in MergingRow /\ decided \in Decided /\ lost \subseteq Run
         /\ merging.wake \in Wake \cup {None}
BY DEF IInv, TypeOK, IssueRow, RunRow, WakeRow, MergingRow, Decided, Decision

LEMMA Together ==
  ASSUME DataInv', issue' \in IssueRow, run' \in [Run -> RunRow], wake' \in [Wake -> WakeRow],
         merging' \in MergingRow, decided' \in Decided, lost' \subseteq Run
  PROVE  IInv'
BY DEF IInv, TypeOK, IssueRow, RunRow, WakeRow, MergingRow, Decided, Decision

\* The row of a run, but for what no property of a wake looks at.
SameRun(r) ==
  /\ run'[r].status = run[r].status /\ run'[r].context = run[r].context
  /\ run'[r].read = run[r].read /\ run'[r].losses = run[r].losses

-----------------------------------------------------------------------------
(* The steps, by what they do to the wakes.                                *)

\* A run goes on, and what it has to read or has read stays.
LEMMA RunMoves ==
  ASSUME IInv, UNCHANGED <<wake, merging>>,
         \A r \in Run : /\ run'[r].context = run[r].context /\ run'[r].losses = run[r].losses
                        /\ run'[r].status \in {"absent", "queued"} => run'[r].read = {},
         \A r \in Run, w \in Wake : Serves(r, w) => Serves(r, w)'
  PROVE  DataInv'
<1>1. /\ \A r \in Run, w \in Wake : Carries(r, w)' <=> Carries(r, w) 
      /\ \A v, w \in Wake : (Stores(v, w)' <=> Stores(v, w)) /\ (Keeps(v, w)' <=> Keeps(v, w))
      /\ \A w \in Wake : Owed(w)' <=> Owed(w)
  BY DEF Carries, Stores, Keeps, Owed, Waiting, MustBeRead
<1>2. PlacesInv' BY <1>1 DEF IInv, DataInv, PlacesInv
<1>3. ReadInv' BY DEF ReadInv
<1>4. MergingInv' BY DEF IInv, DataInv, MergingInv
<1>5. LossInv' BY <1>1 DEF IInv, DataInv, LossInv
<1> QED BY <1>2, <1>3, <1>4, <1>5 DEF DataInv

LEMMA RunStays ==
  ASSUME IInv, UNCHANGED <<wake, merging>>, \A r \in Run : SameRun(r)
  PROVE  DataInv'
<1>1. \A r \in Run, w \in Wake : Serves(r, w) => Serves(r, w)' BY DEF Serves, SameRun
<1>2. \A r \in Run : run'[r].status \in {"absent", "queued"} => run'[r].read = {}
  BY DEF IInv, DataInv, ReadInv, SameRun
<1> QED BY <1>1, <1>2, RunMoves DEF SameRun

\* The run q begins, with the wakes that the waiting request v has stored.
LEMMA PromotionKeeps ==
  ASSUME IInv, NEW v \in Wake, Waiting(v), NEW q \in Run, run[q].status = "absent",
         run'[q] = Queued(wake[v].agent, wake[v].context, 0),
         \A r \in Run \ {q} : SameRun(r),
         UNCHANGED merging, wake' \in [Wake -> WakeRow], wake'[v].run = q,
         wake'[v].status # "absent", wake'[v].context = wake[v].context,
         wake'[v].kind = wake[v].kind, wake'[v].overtaken = wake[v].overtaken,
         \A u \in Wake \ {v} : wake'[u] = wake[u]
  PROVE  DataInv'
<1>1. /\ run'[q].context = wake[v].context /\ run'[q].losses = 0 /\ run'[q].status = "queued"
      /\ run'[q].read = {}
  BY DEF Queued
<1>2. q # None BY DEF Run, None
<1>3. /\ \A w \in Wake : Carries(q, w)' <=> Stores(v, w)
      /\ \A r \in Run \ {q}, w \in Wake : Carries(r, w)' <=> Carries(r, w)
      /\ \A w \in Wake : ~Stores(v, w)'
      /\ \A u \in Wake \ {v}, w \in Wake : Stores(u, w)' <=> Stores(u, w)
  BY <1>1, <1>2 DEF Carries, Stores, Waiting, SameRun
<1>4. \A w \in Wake : wake'[w].status = "absent" <=> wake[w].status = "absent"
  BY DEF Waiting
<1>5. PlacesInv' BY <1>3, <1>4 DEF IInv, DataInv, PlacesInv
<1>6. ReadInv' BY <1>1 DEF IInv, DataInv, ReadInv, SameRun
<1>7. MergingInv' BY <1>4, Types DEF IInv, DataInv, MergingInv
<1>8. LossInv'
  <2> SUFFICES ASSUME NEW w \in Wake, Owed(w)'
               PROVE  (\E u \in Wake : Keeps(u, w)') \/ (\E r \in Run : Serves(r, w)')
    BY DEF LossInv
  <2>1. Owed(w) BY <1>4 DEF Owed, MustBeRead
  <2>2. ASSUME NEW u \in Wake, Keeps(u, w) PROVE Keeps(u, w)' \/ Serves(q, w)'
    BY <1>1, <2>2 DEF Keeps, Serves, Waiting
  <2>3. ASSUME NEW r \in Run, Serves(r, w) PROVE Serves(r, w)'
    <3>1. r # q BY <2>3 DEF Serves, IInv, DataInv, ReadInv
    <3> QED BY <2>3, <3>1 DEF Serves, SameRun
  <2> QED BY <2>1, <2>2, <2>3 DEF IInv, DataInv, LossInv
<1> QED BY <1>5, <1>6, <1>7, <1>8 DEF DataInv

\* A retry carries the wakes of its parent, beside it.
LEMMA RetryKeeps ==
  ASSUME IInv, NEW q \in Run, run[q].status = "absent", run'[q].losses = 1,
         run'[q].status = "queued", run'[q].read = {},
         \A r \in Run \ {q} : SameRun(r), UNCHANGED <<wake, merging>>
  PROVE  DataInv'
<1>1. /\ \A w \in Wake : ~Carries(q, w)'
      /\ \A r \in Run \ {q}, w \in Wake : Carries(r, w)' <=> Carries(r, w)
      /\ \A u, w \in Wake : (Stores(u, w)' <=> Stores(u, w)) /\ (Keeps(u, w)' <=> Keeps(u, w))
      /\ \A w \in Wake : Owed(w)' <=> Owed(w)
  BY DEF Carries, Stores, Keeps, Owed, Waiting, MustBeRead, SameRun
<1>2. PlacesInv' BY <1>1 DEF IInv, DataInv, PlacesInv
<1>3. ReadInv' BY DEF IInv, DataInv, ReadInv, SameRun
<1>4. MergingInv' BY DEF IInv, DataInv, MergingInv
<1>5. LossInv'
  <2>1. ASSUME NEW r \in Run, NEW w \in Wake, Serves(r, w) PROVE Serves(r, w)'
    <3>1. r # q BY <2>1 DEF Serves, IInv, DataInv, ReadInv
    <3> QED BY <2>1, <3>1 DEF Serves, SameRun
  <2> QED BY <1>1, <2>1 DEF IInv, DataInv, LossInv
<1> QED BY <1>2, <1>3, <1>4, <1>5 DEF DataInv

\* A waiting request is refused with all that it has stored.
LEMMA FailureKeeps ==
  ASSUME IInv, NEW v \in Wake, Waiting(v), FailWakeup(v), UNCHANGED merging
  PROVE  DataInv' /\ wake' \in [Wake -> WakeRow]
<1>1. /\ wake' \in [Wake -> WakeRow] /\ wake'[v].status = "failed"
      /\ wake'[v].context = wake[v].context /\ wake'[v].kind = wake[v].kind
      /\ wake'[v].overtaken = wake[v].overtaken
      /\ \A u \in Wake \ {v} : wake'[u] = wake[u]
  BY Types DEF FailWakeup, WakeRow
<1>2. UNCHANGED run BY DEF FailWakeup
<1>3. /\ \A r \in Run, w \in Wake : (Carries(r, w)' <=> Carries(r, w)) /\ (Serves(r, w)' <=> Serves(r, w))
      /\ \A u, w \in Wake : (Stores(u, w)' => Stores(u, w)) /\ (Keeps(u, w) => Keeps(u, w)')
      /\ \A w \in Wake : wake'[w].status = "absent" <=> wake[w].status = "absent"
      /\ \A w \in Wake : Owed(w)' <=> Owed(w)
  BY <1>1, <1>2 DEF Carries, Serves, Stores, Keeps, Owed, Waiting, MustBeRead
<1>4. PlacesInv' BY <1>3 DEF IInv, DataInv, PlacesInv
<1>5. ReadInv' BY <1>2 DEF IInv, DataInv, ReadInv
<1>6. MergingInv' BY <1>3, Types DEF IInv, DataInv, MergingInv
<1>7. LossInv' BY <1>3 DEF IInv, DataInv, LossInv
<1> QED BY <1>1, <1>4, <1>5, <1>6, <1>7 DEF DataInv

\* The next request arrives, and its row is w.
\* A request waits in a row of its own.
LEMMA ArrivalWaits ==
  ASSUME IInv, NEW w \in Wake, wake[w].status = "absent", merging.wake = None,
         UNCHANGED <<run, merging>>, wake'[w].context = {w},
         wake'[w].status \in {"queued", "deferred"}, wake'[w].run = None,
         \A u \in Wake \ {w} : wake'[u] = wake[u]
  PROVE  DataInv'
<1>1. /\ \A r \in Run : ~Carries(r, w)
      /\ \A v \in Wake : ~Stores(v, w)
  BY DEF IInv, DataInv, PlacesInv
<1>2. /\ \A r \in Run, x \in Wake : (Carries(r, x)' <=> Carries(r, x)) /\ (Serves(r, x)' <=> Serves(r, x))
      /\ \A x \in Wake : Stores(w, x)' => x = w
      /\ \A u \in Wake \ {w}, x \in Wake :
           (Stores(u, x)' <=> Stores(u, x)) /\ (Keeps(u, x)' <=> Keeps(u, x))
      /\ \A u \in Wake : wake'[u].status = "absent" => wake[u].status = "absent" /\ u # w
  BY DEF Carries, Serves, Stores, Keeps, Waiting
<1>3. PlacesInv'
  <2>1. \A x \in Wake : x # None BY DEF Wake, None
  <2> QED BY <1>1, <1>2, <2>1 DEF IInv, DataInv, PlacesInv
<1>4. ReadInv' BY DEF IInv, DataInv, ReadInv
<1>5. MergingInv' BY DEF MergingInv
<1>6. LossInv'
  <2> SUFFICES ASSUME NEW x \in Wake, Owed(x)'
               PROVE  (\E u \in Wake : Keeps(u, x)') \/ (\E r \in Run : Serves(r, x)')
    BY DEF LossInv
  <2>1. CASE x = w
    <3>1. Keeps(w, w)' BY DEF Keeps, Waiting
    <3> QED BY <2>1, <3>1
  <2>2. CASE x # w
    <3>1. Owed(x) BY <2>2 DEF Owed, MustBeRead
    <3>2. \A v \in Wake : Keeps(v, x) => v # w BY DEF Keeps, Waiting
    <3> QED BY <1>2, <3>1, <3>2 DEF IInv, DataInv, LossInv
  <2> QED BY <2>1, <2>2
<1> QED BY <1>3, <1>4, <1>5, <1>6 DEF DataInv

\* A request is merged into one that waits already.
LEMMA ArrivalJoins ==
  ASSUME IInv, NEW w \in Wake, wake[w].status = "absent", merging.wake = None,
         UNCHANGED <<run, merging>>, wake'[w].status = "merged",
         NEW v \in Wake, Waiting(v), v # w, wake'[v].context = wake[v].context \cup {w},
         wake'[v].status = wake[v].status, wake'[v].run = wake[v].run,
         wake'[v].kind = wake[v].kind, wake'[v].overtaken = wake[v].overtaken,
         \A u \in Wake \ {w, v} : wake'[u] = wake[u]
  PROVE  DataInv'
<1>1. /\ \A r \in Run : ~Carries(r, w)
      /\ \A u \in Wake : ~Stores(u, w)
  BY DEF IInv, DataInv, PlacesInv
<1>2. /\ \A r \in Run, x \in Wake : (Carries(r, x)' <=> Carries(r, x)) /\ (Serves(r, x)' <=> Serves(r, x))
      /\ \A x \in Wake : ~Stores(w, x)'
      /\ \A x \in Wake \ {w} : Stores(v, x)' <=> Stores(v, x)
      /\ \A u \in Wake \ {w, v}, x \in Wake : Stores(u, x)' <=> Stores(u, x)
      /\ \A u \in Wake : wake'[u].status = "absent" => wake[u].status = "absent" /\ u # w
  BY DEF Carries, Serves, Stores, Waiting
<1>3. PlacesInv'
  <2>1. \A x \in Wake : x # None BY DEF Wake, None
  <2>2. \A x \in Wake \ {w}, u \in Wake : Stores(u, x)' => Stores(u, x) BY <1>2
  <2>3. \A u \in Wake : Stores(u, w)' => u = v BY <1>1, <1>2
  <2>4. wake'[w].status # "absent" OBVIOUS
  <2> QED BY <1>1, <1>2, <2>1, <2>2, <2>3, <2>4 DEF IInv, DataInv, PlacesInv
<1>4. ReadInv' BY DEF IInv, DataInv, ReadInv
<1>5. MergingInv' BY DEF MergingInv
<1>6. LossInv'
  <2> SUFFICES ASSUME NEW x \in Wake, Owed(x)'
               PROVE  (\E u \in Wake : Keeps(u, x)') \/ (\E r \in Run : Serves(r, x)')
    BY DEF LossInv
  <2>1. CASE x = w
    <3>1. Keeps(v, w)' BY DEF Keeps, Waiting
    <3> QED BY <2>1, <3>1
  <2>2. CASE x # w
    <3>1. Owed(x) BY <2>2 DEF Owed, MustBeRead, Waiting
    <3>2. \A u \in Wake : Keeps(u, x) => Keeps(u, x)'
      <4>1. \A u \in Wake : Keeps(u, x) => u # w BY DEF Keeps, Waiting
      <4> QED BY <4>1 DEF Keeps, Waiting
    <3> QED BY <1>2, <3>1, <3>2 DEF IInv, DataInv, LossInv
  <2> QED BY <2>1, <2>2
<1> QED BY <1>3, <1>4, <1>5, <1>6 DEF DataInv

\* A request is given to the run r: to a new one, which will read it, or to one
\* at work, which need not.
LEMMA ArrivalRuns ==
  ASSUME IInv, NEW w \in Wake, wake[w].status = "absent", merging.wake = None,
         UNCHANGED merging, wake'[w].status \notin {"absent"}, ~Waiting(w)',
         \A u \in Wake \ {w} : wake'[u] = wake[u],
         NEW r \in Run, \A q \in Run \ {r} : SameRun(q),
         \/ /\ run[r].status = "absent" /\ run'[r].status = "queued" /\ run'[r].read = {}
            /\ run'[r].context = {w}
         \/ /\ run[r].status = "running" /\ run'[r].status = "running"
            /\ run'[r].read = run[r].read /\ run'[r].losses = run[r].losses
            /\ run'[r].context = run[r].context \cup {w} /\ ~MustBeRead(w)'
  PROVE  DataInv'
<1>1. /\ \A q \in Run : ~Carries(q, w)
      /\ \A u \in Wake : ~Stores(u, w)
  BY DEF IInv, DataInv, PlacesInv
<1>2. /\ \A x \in Wake \ {w} : Carries(r, x)' => Carries(r, x)
      /\ \A q \in Run \ {r}, x \in Wake : Carries(q, x)' <=> Carries(q, x)
      /\ \A u, x \in Wake : Stores(u, x)' => Stores(u, x)
      /\ \A u \in Wake : wake'[u].status = "absent" => wake[u].status = "absent" /\ u # w
  BY DEF Carries, Stores, Waiting, SameRun
<1>3. PlacesInv'
  <2>1. \A x \in Wake : x # None BY DEF Wake, None
  <2>2. \A x \in Wake \ {w}, q \in Run : Carries(q, x)' => Carries(q, x) BY <1>2
  <2>3. \A q \in Run : Carries(q, w)' => q = r BY <1>1, <1>2
  <2> QED BY <1>1, <1>2, <2>1, <2>2, <2>3 DEF IInv, DataInv, PlacesInv
<1>4. ReadInv' BY DEF IInv, DataInv, ReadInv, SameRun
<1>5. MergingInv' BY DEF MergingInv
<1>6. LossInv'
  <2> SUFFICES ASSUME NEW x \in Wake, Owed(x)'
               PROVE  (\E u \in Wake : Keeps(u, x)') \/ (\E q \in Run : Serves(q, x)')
    BY DEF LossInv
  <2>1. CASE x = w
    <3>1. Serves(r, w)' BY <2>1 DEF Owed, Serves
    <3> QED BY <2>1, <3>1
  <2>2. CASE x # w
    <3>1. Owed(x) BY <2>2 DEF Owed, MustBeRead
    <3>2. \A u \in Wake : Keeps(u, x) => Keeps(u, x)' BY DEF Keeps, Waiting
    <3>3. \A q \in Run : Serves(q, x) => Serves(q, x)'
      BY DEF Serves, SameRun, IInv, DataInv, ReadInv
    <3> QED BY <3>1, <3>2, <3>3 DEF IInv, DataInv, LossInv
  <2> QED BY <2>1, <2>2
<1> QED BY <1>3, <1>4, <1>5, <1>6 DEF DataInv

\* The first statement of a merge into a queued run.
LEMMA ArrivalMerges ==
  ASSUME IInv, NEW w \in Wake, wake[w].status = "absent", merging.wake = None,
         UNCHANGED run, wake'[w].status \notin {"absent"}, ~Waiting(w)',
         \A u \in Wake \ {w} : wake'[u] = wake[u],
         NEW r \in Run, merging'.wake = w, merging'.run = r
  PROVE  DataInv'
<1>1. /\ \A q \in Run : ~Carries(q, w)
      /\ \A u \in Wake : ~Stores(u, w)
  BY DEF IInv, DataInv, PlacesInv
<1>2. /\ \A q \in Run, x \in Wake : (Carries(q, x)' <=> Carries(q, x)) /\ (Serves(q, x)' <=> Serves(q, x))
      /\ \A u, x \in Wake : (Stores(u, x)' => Stores(u, x)) /\ (Keeps(u, x) => Keeps(u, x)')
      /\ \A u \in Wake : wake'[u].status = "absent" => wake[u].status = "absent" /\ u # w
  BY DEF Carries, Serves, Stores, Keeps, Waiting
<1>3. PlacesInv' BY <1>1, <1>2 DEF IInv, DataInv, PlacesInv
<1>4. ReadInv' BY DEF IInv, DataInv, ReadInv
<1>5. MergingInv' BY <1>2 DEF MergingInv
<1>6. \A x \in Wake : Owed(x)' => Owed(x)
  <2>1. \A x \in Wake : x # None BY DEF Wake, None
  <2> QED BY <1>2, <2>1 DEF Owed, MustBeRead
<1>7. LossInv' BY <1>2, <1>6 DEF IInv, DataInv, LossInv
<1> QED BY <1>3, <1>4, <1>5, <1>7 DEF DataInv

-----------------------------------------------------------------------------
(* The actions.                                                            *)

LEMMA FinishMergeInv ==
  ASSUME IInv, FinishMerge
  PROVE  IInv'
<1>0. PICK w, r : w = merging.wake /\ r = merging.run OBVIOUS
<1>1. w \in Wake /\ r \in Run /\ wake[w].status # "absent"
  BY <1>0, Types DEF FinishMerge, IInv, DataInv, MergingInv
<1> DEFINE row == [run[r] EXCEPT !.context = run[r].context \cup {w}]
           wrow == [wake[w] EXCEPT !.overtaken = (run[r].status # "queued")]
<1>2. /\ run' = [run EXCEPT ![r] = row] /\ wake' = [wake EXCEPT ![w] = wrow]
      /\ UNCHANGED <<issue, decided, lost>> /\ merging' = NoMerge
  BY <1>0, <1>1, Types DEF FinishMerge
<1>3. /\ row \in RunRow /\ row.context = run[r].context \cup {w} /\ row.status = run[r].status
      /\ row.read = run[r].read /\ row.losses = run[r].losses
  BY <1>1, Types DEF RunRow
<1>4. /\ wrow \in WakeRow /\ wrow.context = wake[w].context /\ wrow.status = wake[w].status
      /\ wrow.run = wake[w].run /\ wrow.kind = wake[w].kind
      /\ wrow.overtaken = (run[r].status # "queued")
  <2>1. (run[r].status # "queued") \in BOOLEAN OBVIOUS
  <2>2. wake[w] \in WakeRow BY <1>1, Types
  <2> QED BY <2>1, <2>2 DEF WakeRow
<1> HIDE DEF row, wrow
<1>5. /\ run' \in [Run -> RunRow] /\ run'[r] = row /\ \A q \in Run \ {r} : run'[q] = run[q]
      /\ wake' \in [Wake -> WakeRow] /\ wake'[w] = wrow
      /\ \A u \in Wake \ {w} : wake'[u] = wake[u]
      /\ merging' \in MergingRow
      /\ merging'.wake = None
  BY <1>1, <1>2, <1>3, <1>4, Types DEF MergingRow, NoMerge
<1>6. \A x \in Wake : x # None BY DEF Wake, None
<1>7. /\ \A q \in Run : ~Carries(q, w)
      /\ \A u \in Wake : ~Stores(u, w)
  BY <1>0, <1>1 DEF IInv, DataInv, PlacesInv
<1>8. /\ \A x \in Wake \ {w}, q \in Run : Carries(q, x)' => Carries(q, x)
      /\ \A q \in Run : Carries(q, w)' => q = r
      /\ \A u, x \in Wake : (Stores(u, x)' <=> Stores(u, x)) /\ (Keeps(u, x) => Keeps(u, x)')
      /\ \A x \in Wake : wake'[x].status = wake[x].status
  <2>1. \A x \in Wake \ {w}, q \in Run : Carries(q, x)' => Carries(q, x)
    BY <1>3, <1>5 DEF Carries
  <2>2. \A q \in Run : Carries(q, w)' => q = r BY <1>5, <1>7 DEF Carries
  <2>3. \A u \in Wake : /\ wake'[u].status = wake[u].status /\ wake'[u].context = wake[u].context
                        /\ wake'[u].run = wake[u].run
    BY <1>4, <1>5
  <2> QED BY <2>1, <2>2, <2>3 DEF Stores, Keeps, Waiting
<1>9. PlacesInv' BY <1>1, <1>5, <1>6, <1>7, <1>8 DEF IInv, DataInv, PlacesInv
<1>10. ReadInv' BY <1>3, <1>5 DEF IInv, DataInv, ReadInv
<1>11. MergingInv' BY <1>5 DEF MergingInv
<1>12. LossInv'
  <2> SUFFICES ASSUME NEW x \in Wake, Owed(x)'
               PROVE  (\E u \in Wake : Keeps(u, x)') \/ (\E q \in Run : Serves(q, x)')
    BY DEF LossInv
  <2>1. CASE x = w
    <3>1. ~wake'[w].overtaken BY <2>1 DEF Owed
    <3>2. run'[r].status = "queued" BY <1>3, <1>4, <1>5, <3>1
    <3>3. Serves(r, w)' BY <1>3, <1>5, <3>2 DEF Serves
    <3> QED BY <1>1, <2>1, <3>3
  <2>2. CASE x # w
    <3>1. Owed(x) BY <1>0, <1>5, <2>2 DEF Owed, MustBeRead
    <3>2. \A q \in Run : Serves(q, x) => Serves(q, x)' BY <1>3, <1>5 DEF Serves
    <3> QED BY <1>8, <3>1, <3>2 DEF IInv, DataInv, LossInv
  <2> QED BY <2>1, <2>2
<1>13. DataInv' BY <1>9, <1>10, <1>11, <1>12 DEF DataInv
<1> QED BY <1>2, <1>5, <1>13, Types, Together

LEMMA ClaimInv ==
  ASSUME IInv, NEW r \in Run, Claim(r)
  PROVE  IInv'
<1> DEFINE row == [run[r] EXCEPT !.status = "running", !.read = run[r].context]
<1>1. /\ run[r].status = "queued" /\ UNCHANGED <<issue, wake, merging, decided, lost>>
      /\ run' = [run EXCEPT ![r] = row]
  BY Types DEF Claim, IsFirst
<1>2. /\ row \in RunRow /\ row.context = run[r].context /\ row.losses = run[r].losses
      /\ row.status = "running" /\ row.read = run[r].context
  BY Types DEF RunRow
<1> HIDE DEF row
<1>3. run' \in [Run -> RunRow] /\ run'[r] = row /\ \A q \in Run \ {r} : run'[q] = run[q]
  BY <1>1, <1>2, Types
<1>4. \A q \in Run : /\ run'[q].context = run[q].context /\ run'[q].losses = run[q].losses
                     /\ run'[q].status \in {"absent", "queued"} => run'[q].read = {}
  BY <1>2, <1>3 DEF IInv, DataInv, ReadInv
<1>5. \A q \in Run, w \in Wake : Serves(q, w) => Serves(q, w)' BY <1>2, <1>3 DEF Serves
<1>6. DataInv' BY <1>1, <1>4, <1>5, RunMoves
<1> QED BY <1>1, <1>3, <1>6, Types, Together

\* A run ends: what it has read it has read, and a cancelled one that has not
\* begun has read nothing.
LEMMA EndInv ==
  ASSUME IInv, NEW r \in Run, Finish(r) \/ Cancel(r)
  PROVE  IInv'
<1>1. PICK s \in Ended :
        /\ run' = [run EXCEPT ![r] = [run[r] EXCEPT !.status = s]]
        /\ run[r].status = "running" \/ (run[r].status = "queued" /\ s = "cancelled")
        /\ UNCHANGED <<issue, wake, merging, decided, lost>>
  <2>1. CASE Finish(r) BY <2>1, Types DEF Finish, Ended
  <2>2. CASE Cancel(r) BY <2>2, Types DEF Cancel, Live, Ended
  <2> QED BY <2>1, <2>2
<1> DEFINE row == [run[r] EXCEPT !.status = s]
<1>2. /\ row \in RunRow /\ row.context = run[r].context /\ row.losses = run[r].losses
      /\ row.status = s /\ row.read = run[r].read
  BY Types DEF RunRow
<1> HIDE DEF row
<1>3. run' \in [Run -> RunRow] /\ run'[r] = row /\ \A q \in Run \ {r} : run'[q] = run[q]
  BY <1>1, <1>2, Types DEF row
<1>4. \A q \in Run : /\ run'[q].context = run[q].context /\ run'[q].losses = run[q].losses
                     /\ run'[q].status \in {"absent", "queued"} => run'[q].read = {}
  BY <1>2, <1>3 DEF IInv, DataInv, ReadInv, Ended
<1>5. \A q \in Run, w \in Wake : Serves(q, w) => Serves(q, w)'
  BY <1>1, <1>2, <1>3 DEF Serves, IInv, DataInv, ReadInv
<1>6. DataInv' BY <1>1, <1>4, <1>5, RunMoves
<1> QED BY <1>1, <1>3, <1>6, Types, Together

\* The release of r, which has ended, alone or with a new run.
LEMMA ReleasedRow ==
  ASSUME IInv, NEW r \in Run, NEW owed \in BOOLEAN
  PROVE  /\ [run EXCEPT ![r].released = @ \/ owed] \in [Run -> RunRow]
         /\ \A q \in Run :
              LET row == [run EXCEPT ![r].released = @ \/ owed][q]
              IN  /\ row.status = run[q].status /\ row.context = run[q].context
                  /\ row.read = run[q].read /\ row.losses = run[q].losses
BY Types DEF RunRow

LEMMA QueuedRow ==
  ASSUME NEW agent \in Agent, NEW context \in SUBSET Wake, NEW losses \in 0..1
  PROVE  /\ Queued(agent, context, losses) \in RunRow
         /\ Queued(agent, context, losses).status = "queued"
         /\ Queued(agent, context, losses).context = context
         /\ Queued(agent, context, losses).read = {}
         /\ Queued(agent, context, losses).losses = losses
BY DEF Queued, RunRow

LEMMA UnlockedRow ==
  ASSUME NEW i \in IssueRow, NEW s \in Startable \cup {"done"}
  PROVE  Unlocked(i, s) \in IssueRow
BY DEF Unlocked, IssueRow

\* The promotion of the request v, which waits, to the new run q.
LEMMA PromotionInv ==
  ASSUME IInv, NEW v \in Wake, Waiting(v), NEW q \in Run, run[q].status = "absent",
         run' \in [Run -> RunRow], run'[q] = Queued(wake[v].agent, wake[v].context, 0),
         \A r \in Run \ {q} : SameRun(r),
         \/ wake' = [wake EXCEPT ![v].status = "queued", ![v].run = q]
         \/ wake' = [wake EXCEPT ![v].run = q],
         UNCHANGED merging, decided' \in Decided, lost' \subseteq Run, issue' \in IssueRow
  PROVE  IInv'
<1>1. wake[v] \in WakeRow /\ wake[v].status # "absent" BY Types DEF Waiting
<1>2. PICK row : /\ wake' = [wake EXCEPT ![v] = row]
                 /\ \/ row = [wake[v] EXCEPT !.status = "queued", !.run = q]
                    \/ row = [wake[v] EXCEPT !.run = q]
  BY Types
<1>3. /\ row \in WakeRow /\ row.run = q /\ row.status # "absent" /\ row.context = wake[v].context
      /\ row.kind = wake[v].kind /\ row.overtaken = wake[v].overtaken
  BY <1>1, <1>2 DEF WakeRow
<1>4. /\ wake' \in [Wake -> WakeRow] /\ wake'[v] = row
      /\ \A u \in Wake \ {v} : wake'[u] = wake[u]
  BY <1>2, <1>3, Types
<1>5. DataInv' BY <1>3, <1>4, PromotionKeeps
<1> QED BY <1>4, <1>5, Types, Together

LEMMA NextRowIsAbsent ==
  /\ \A q \in Run : IsNext(q) => run[q].status = "absent"
  /\ \A w \in Wake : IsNextWake(w) => wake[w].status = "absent"
BY DEF IsNext, IsNextWake, IsFirst

\* A new run of the wakes that v has stored, beside rows that stay the same.
LEMMA NewRunIsRow ==
  ASSUME IInv, NEW v \in Wake, NEW q \in Run
  PROVE  LET new == [run EXCEPT ![q] = Queued(wake[v].agent, wake[v].context, 0)]
         IN  /\ new \in [Run -> RunRow] /\ new[q] = Queued(wake[v].agent, wake[v].context, 0)
             /\ \A r \in Run \ {q} : new[r] = run[r]
<1>1. wake[v].agent \in Agent /\ wake[v].context \in SUBSET Wake BY Types DEF WakeRow
<1>2. Queued(wake[v].agent, wake[v].context, 0) \in RunRow BY <1>1, QueuedRow
<1> QED BY <1>2, Types

\* What a release decides is a decision, and writes a row of an issue.
LEMMA DecisionsAre ==
  ASSUME NEW r \in Run, NEW i \in IssueRow
  PROVE  Decisions(r, i) \subseteq Decision
<1>1. Completions(r, i) \subseteq Decision
  <2>1. i.status \in {"todo", "blocked", "in_progress", "done"} BY DEF IssueRow, Startable
  <2> QED BY <2>1 DEF Completions, Decision
<1> QED BY <1>1 DEF Decisions, Decision

LEMMA ReleaseInv ==
  ASSUME IInv, NEW r \in Run, run[r].status # "absent", NEW owed \in BOOLEAN,
         NEW d \in Decision, ReleaseIssueExecution(r, d, owed),
         UNCHANGED <<merging, lost>>, decided' \in Decided
  PROVE  IInv'
<1> DEFINE alone == [run EXCEPT ![r].released = @ \/ owed]
<1>1. ASSUME run' = alone, wake' = wake, issue' \in IssueRow PROVE IInv'
  <2>1. run' \in [Run -> RunRow] /\ \A q \in Run : SameRun(q)
    BY <1>1, ReleasedRow DEF SameRun
  <2>2. DataInv' BY <1>1, <2>1, RunStays
  <2> QED BY <1>1, <2>1, <2>2, Types, Together
<1>2. issue.status \in Startable \cup {"done"} BY Types DEF IssueRow
<1>3. CASE ReleaseCompletes(r, d, owed) /\ d # "clear"
  <2>1. PICK s \in Startable \cup {"done"} : issue' = Unlocked(issue, s)
    BY <1>2, <1>3 DEF ReleaseCompletes, Decision, Startable
  <2>2. issue' \in IssueRow BY <2>1, Types, UnlockedRow
  <2> QED BY <1>1, <1>3, <2>2 DEF ReleaseCompletes
<1>4. CASE ReleasePromotes(r, owed)
  <2>1. Unlocked(issue, issue.status) \in IssueRow BY <1>2, Types, UnlockedRow
  <2>2. CASE /\ issue' = Unlocked(issue, issue.status) /\ run' = alone /\ UNCHANGED wake
    BY <1>1, <2>1, <2>2
  <2>3. ASSUME NEW v \in Wake, NEW q \in Run, OldestDeferred(v),
               PromoteDeferredWakeup(v, q, Unlocked(issue, issue.status)),
               run' = [run EXCEPT ![r].released = @ \/ owed,
                                  ![q] = Queued(wake[v].agent, wake[v].context, 0)]
        PROVE  IInv'
    <3>1. Waiting(v) BY <2>3 DEF OldestDeferred, IsFirst
    <3>2. /\ run[q].status = "absent" /\ issue' = [Unlocked(issue, issue.status) EXCEPT !.executionRun = q]
          /\ wake' = [wake EXCEPT ![v].status = "queued", ![v].run = q]
      BY <2>3, NextRowIsAbsent DEF PromoteDeferredWakeup
    <3>3. issue' \in IssueRow BY <2>1, <3>2 DEF IssueRow
    <3>4. run' = [alone EXCEPT ![q] = Queued(wake[v].agent, wake[v].context, 0)] BY <2>3
    <3>5. Queued(wake[v].agent, wake[v].context, 0) \in RunRow
      <4>1. wake[v].agent \in Agent /\ wake[v].context \in SUBSET Wake BY Types DEF WakeRow
      <4> QED BY <4>1, QueuedRow
    <3>6. alone \in [Run -> RunRow] BY ReleasedRow
    <3>7. /\ run' \in [Run -> RunRow] /\ run'[q] = Queued(wake[v].agent, wake[v].context, 0)
          /\ \A x \in Run \ {q} : run'[x] = alone[x]
      <4> HIDE DEF alone
      <4> QED BY <3>4, <3>5, <3>6
    <3>8. \A x \in Run \ {q} : SameRun(x)
      <4>1. \A x \in Run : /\ alone[x].status = run[x].status /\ alone[x].context = run[x].context
                           /\ alone[x].read = run[x].read /\ alone[x].losses = run[x].losses
        BY ReleasedRow
      <4> HIDE DEF alone
      <4> QED BY <3>7, <4>1 DEF SameRun
    <3>9. lost' \subseteq Run BY Types
    <3> QED BY <3>1, <3>2, <3>3, <3>7, <3>8, <3>9, PromotionInv
  <2> QED BY <1>4, <2>2, <2>3 DEF ReleasePromotes
<1> QED BY <1>3, <1>4 DEF ReleaseIssueExecution

LEMMA LoseReleaseInv ==
  ASSUME IInv, NEW r \in Run, LoseRelease(r)
  PROVE  IInv'
<1>1. /\ run' = [run EXCEPT ![r] = [run[r] EXCEPT !.released = TRUE]]
      /\ UNCHANGED <<issue, wake, merging>> /\ decided' \in Decided /\ lost' \subseteq Run
  BY Types DEF LoseRelease, Decided
<1>2. run' \in [Run -> RunRow] /\ \A q \in Run : SameRun(q)
  BY <1>1, Types DEF RunRow, SameRun
<1>3. DataInv' BY <1>1, <1>2, RunStays
<1> QED BY <1>1, <1>2, <1>3, Types, Together

LEMMA RetryInv ==
  ASSUME IInv, NEW r \in Run, NEW q \in Run, Retry(r, q)
  PROVE  IInv'
<1>1. /\ run[r].status = "failed" /\ run[q].status = "absent" /\ r # q
      /\ run' = [run EXCEPT ![r].released = TRUE, ![q] = Queued(run[r].agent, run[r].context, 1)]
      /\ issue' = IF issue.executionRun = r THEN [issue EXCEPT !.executionRun = q] ELSE issue
      /\ UNCHANGED <<wake, merging, decided, lost>>
  BY NextRowIsAbsent DEF Retry
<1> DEFINE new == Queued(run[r].agent, run[r].context, 1)
           old == [run[r] EXCEPT !.released = TRUE]
<1>2. /\ new \in RunRow /\ new.losses = 1 /\ new.status = "queued" /\ new.read = {}
  <2>1. run[r].agent \in Agent /\ run[r].context \in SUBSET Wake BY Types DEF RunRow
  <2> QED BY <2>1, QueuedRow
<1>3. /\ old \in RunRow /\ old.status = run[r].status /\ old.context = run[r].context
      /\ old.read = run[r].read /\ old.losses = run[r].losses
  BY Types DEF RunRow
<1>4. run' = [run EXCEPT ![r] = old, ![q] = new] BY <1>1
<1> HIDE DEF new, old
<1>5. /\ run' \in [Run -> RunRow] /\ run'[q] = new /\ run'[r] = old
      /\ \A x \in Run \ {q, r} : run'[x] = run[x]
  BY <1>1, <1>2, <1>3, <1>4, Types
<1>6. \A x \in Run \ {q} : SameRun(x) BY <1>3, <1>5 DEF SameRun
<1>7. DataInv' BY <1>1, <1>2, <1>5, <1>6, RetryKeeps
<1>8. issue' \in IssueRow BY <1>1, Types DEF IssueRow
<1> QED BY <1>1, <1>5, <1>7, <1>8, Types, Together

LEMMA StartLinkedRow ==
  ASSUME NEW i \in IssueRow, NEW r \in Run, NEW allow \in BOOLEAN
  PROVE  StartLinkedIssue(i, r, allow) \in IssueRow
BY DEF StartLinkedIssue, IssueRow, Startable

\* The queue sweep promotes or refuses a request that waits.
LEMMA QueueSweepInv ==
  ASSUME IInv, NEW w \in Wake, PromoteQueued(w) \/ PromoteStoredDeferred(w)
  PROVE  IInv'
<1>1. Waiting(w) /\ UNCHANGED <<merging, decided, lost>> BY DEF PromoteQueued, PromoteStoredDeferred
<1>2. CASE FailWakeup(w)
  <2>1. UNCHANGED <<issue, run>> BY <1>2 DEF FailWakeup
  <2>2. DataInv' /\ wake' \in [Wake -> WakeRow] BY <1>1, <1>2, FailureKeeps
  <2> QED BY <1>1, <2>1, <2>2, Types, Together
<1>3. ASSUME NEW q \in Run, IsNext(q),
             run' = [run EXCEPT ![q] = Queued(wake[w].agent, wake[w].context, 0)],
             issue' \in IssueRow,
             \/ wake' = [wake EXCEPT ![w].status = "queued", ![w].run = q]
             \/ wake' = [wake EXCEPT ![w].run = q]
      PROVE  IInv'
  <2>1. /\ run' \in [Run -> RunRow] /\ run'[q] = Queued(wake[w].agent, wake[w].context, 0)
        /\ \A x \in Run \ {q} : SameRun(x)
    BY <1>3, NewRunIsRow DEF SameRun
  <2>2. run[q].status = "absent" /\ decided' \in Decided /\ lost' \subseteq Run
    BY <1>1, <1>3, NextRowIsAbsent, Types
  <2> QED BY <1>1, <1>3, <2>1, <2>2, PromotionInv
<1>4. CASE PromoteQueued(w) /\ ~FailWakeup(w)
  <2>1. PICK q \in Run :
          /\ IsNext(q)
          /\ issue' = StartLinkedIssue(issue, q, wake[w].kind = "rework")
          /\ run' = [run EXCEPT ![q] = Queued(wake[w].agent, wake[w].context, 0)]
          /\ wake' = [wake EXCEPT ![w].run = q]
    BY <1>4 DEF PromoteQueued
  <2>2. (wake[w].kind = "rework") \in BOOLEAN OBVIOUS
  <2>3. issue' \in IssueRow BY <2>1, <2>2, Types, StartLinkedRow
  <2> QED BY <1>3, <2>1, <2>3
<1>5. CASE PromoteStoredDeferred(w) /\ ~FailWakeup(w)
  <2>1. PICK q \in Run :
          /\ PromoteDeferredWakeup(w, q, issue)
          /\ run' = [run EXCEPT ![q] = Queued(wake[w].agent, wake[w].context, 0)]
    BY <1>5 DEF PromoteStoredDeferred
  <2>2. issue' \in IssueRow BY <2>1, Types DEF PromoteDeferredWakeup, IssueRow
  <2> QED BY <1>3, <2>1, <2>2 DEF PromoteDeferredWakeup
<1> QED BY <1>2, <1>4, <1>5

\* The admissions of a request w.
LEMMA EnqueueInv ==
  ASSUME IInv, NEW w \in Wake, wake[w].status = "absent", IssueUnlocked,
         NEW status \in {"queued", "deferred"}, NEW agent \in Agent, NEW kind \in Kinds,
         Enqueue(w, status, agent, kind), UNCHANGED <<run, merging, decided, lost>>, issue' \in IssueRow
  PROVE  IInv'
<1>1. CASE wake' = [wake EXCEPT ![w] = Request(status, agent, kind, None, w)]
  <2>1. None \in Run \cup {None} OBVIOUS
  <2> HIDE DEF None
  <2>2. /\ Request(status, agent, kind, None, w) \in WakeRow
        /\ Request(status, agent, kind, None, w).status = status
        /\ Request(status, agent, kind, None, w).run = None
        /\ Request(status, agent, kind, None, w).context = {w}
    BY <2>1 DEF Request, WakeRow
  <2>3. /\ wake' \in [Wake -> WakeRow] /\ wake'[w].context = {w} /\ wake'[w].status = status
        /\ wake'[w].run = None /\ \A u \in Wake \ {w} : wake'[u] = wake[u]
    BY <1>1, <2>2, Types
  <2>4. DataInv' BY <2>3, ArrivalWaits DEF IssueUnlocked
  <2> QED BY <2>3, <2>4, Types, Together
<1>2. ASSUME NEW v \in Wake, IsMergeTarget(v, status, agent, kind),
             wake' = [wake EXCEPT ![w] = Request("merged", agent, kind, None, w),
                                  ![v].context = @ \cup {w}]
      PROVE  IInv'
  <2>1. Waiting(v) /\ v # w BY <1>2 DEF IsMergeTarget, IsFirst, Waiting
  <2> DEFINE new == Request("merged", agent, kind, None, w)
             row == [wake[v] EXCEPT !.context = wake[v].context \cup {w}]
  <2>2. new \in WakeRow /\ new.status = "merged"
    <3>1. None \in Run \cup {None} OBVIOUS
    <3> HIDE DEF None
    <3> QED BY <3>1 DEF Request, WakeRow
  <2>3. /\ row \in WakeRow /\ row.context = wake[v].context \cup {w} /\ row.status = wake[v].status
        /\ row.run = wake[v].run /\ row.kind = wake[v].kind /\ row.overtaken = wake[v].overtaken
    <3>1. wake[v] \in WakeRow BY Types
    <3> QED BY <3>1 DEF WakeRow
  <2>4. wake' = [wake EXCEPT ![w] = new, ![v] = row] BY <1>2, <2>1
  <2> HIDE DEF new, row
  <2>5. /\ wake' \in [Wake -> WakeRow] /\ wake'[w] = new /\ wake'[v] = row
        /\ \A u \in Wake \ {w, v} : wake'[u] = wake[u]
    BY <2>1, <2>2, <2>3, <2>4, Types
  <2>6. DataInv' BY <2>1, <2>2, <2>3, <2>5, ArrivalJoins DEF IssueUnlocked
  <2> QED BY <2>5, <2>6, Types, Together
<1> QED BY <1>1, <1>2 DEF Enqueue

\* Only a wake that need not be read joins a run at work.
LEMMA MergeIntoInv ==
  ASSUME IInv, NEW w \in Wake, wake[w].status = "absent", IssueUnlocked,
         NEW agent \in Agent, NEW kind \in Kinds, NEW r \in Run, MergeInto(w, agent, kind, r),
         run[r].status = "running" => kind \notin {"comment", "mention", "bounded", "rework"},
         UNCHANGED <<decided, lost>>, issue' \in IssueRow
  PROVE  IInv'
<1> DEFINE new == Request("coalesced", agent, kind, r, w)
<1>1. wake' = [wake EXCEPT ![w] = new] BY DEF MergeInto
<1>2. new \in WakeRow /\ new.status = "coalesced" /\ new.kind = kind
  BY DEF Request, WakeRow
<1> HIDE DEF new
<1>3. /\ wake' \in [Wake -> WakeRow] /\ wake'[w] = new
      /\ \A u \in Wake \ {w} : wake'[u] = wake[u]
  BY <1>1, <1>2, Types
<1>4. wake'[w].status # "absent" /\ ~Waiting(w)' BY <1>2, <1>3 DEF Waiting
<1>5. CASE /\ run[r].status = "running" /\ UNCHANGED merging
           /\ run' = [run EXCEPT ![r].context = @ \cup {w}]
  <2> DEFINE row == [run[r] EXCEPT !.context = run[r].context \cup {w}]
  <2>1. /\ row \in RunRow /\ row.context = run[r].context \cup {w} /\ row.status = run[r].status
        /\ row.read = run[r].read /\ row.losses = run[r].losses
    BY Types DEF RunRow
  <2>2. run' = [run EXCEPT ![r] = row] BY <1>5, Types
  <2> HIDE DEF row
  <2>3. run' \in [Run -> RunRow] /\ run'[r] = row /\ \A q \in Run \ {r} : run'[q] = run[q]
    BY <2>1, <2>2, Types
  <2>4. ~MustBeRead(w)' BY <1>2, <1>3, <1>5 DEF MustBeRead
  <2>5. \A q \in Run \ {r} : SameRun(q) BY <2>3 DEF SameRun
  <2>6. DataInv' BY <1>3, <1>4, <1>5, <2>1, <2>3, <2>4, <2>5, ArrivalRuns DEF IssueUnlocked
  <2> QED BY <1>3, <1>5, <2>3, <2>6, Types, Together
<1>6. CASE /\ merging' = [wake |-> w, run |-> r, before |-> issue.executionRun]
           /\ UNCHANGED run
  <2>1. DataInv' BY <1>3, <1>4, <1>6, ArrivalMerges DEF IssueUnlocked
  <2>2. merging' \in MergingRow BY <1>6, Types DEF MergingRow, IssueRow
  <2> QED BY <1>3, <1>6, <2>1, <2>2, Types, Together
<1> QED BY <1>5, <1>6 DEF MergeInto

LEMMA NewRunInv ==
  ASSUME IInv, NEW w \in Wake, wake[w].status = "absent", IssueUnlocked,
         NEW agent \in Agent, NEW kind \in Kinds, NEW r \in Run, IsNext(r),
         run' = [run EXCEPT ![r] = Queued(agent, {w}, 0)],
         wake' = [wake EXCEPT ![w] = Request("queued", agent, kind, r, w)],
         UNCHANGED <<merging, decided, lost>>, issue' \in IssueRow
  PROVE  IInv'
<1> DEFINE new == Request("queued", agent, kind, r, w)
           row == Queued(agent, {w}, 0)
<1>1. new \in WakeRow /\ new.status = "queued" /\ new.run = r BY DEF Request, WakeRow
<1>2. /\ row \in RunRow /\ row.status = "queued" /\ row.context = {w} /\ row.read = {}
  BY QueuedRow
<1>3. run' = [run EXCEPT ![r] = row] /\ wake' = [wake EXCEPT ![w] = new] OBVIOUS
<1> HIDE DEF new, row
<1>4. /\ wake' \in [Wake -> WakeRow] /\ wake'[w] = new
      /\ \A u \in Wake \ {w} : wake'[u] = wake[u]
      /\ run' \in [Run -> RunRow] /\ run'[r] = row
      /\ \A q \in Run \ {r} : run'[q] = run[q]
  BY <1>1, <1>2, <1>3, Types
<1>5. r # None BY DEF Run, None
<1>6. wake'[w].status # "absent" /\ ~Waiting(w)' BY <1>1, <1>4, <1>5 DEF Waiting
<1>7. run[r].status = "absent" /\ \A q \in Run \ {r} : SameRun(q)
  BY <1>4, NextRowIsAbsent DEF SameRun
<1>8. DataInv' BY <1>2, <1>4, <1>6, <1>7, ArrivalRuns DEF IssueUnlocked
<1> QED BY <1>4, <1>8, Types, Together

LEMMA AdmitInv ==
  ASSUME IInv, NEW w \in Wake, NEW agent \in Agent, NEW kind \in Kinds, Admit(w, agent, kind)
  PROVE  IInv'
<1>1. wake[w].status = "absent" /\ IssueUnlocked BY NextRowIsAbsent DEF Admit
<1>2. CASE kind = "mention" /\ AdmitMention(w, agent)
  <2>1. UNCHANGED <<issue, decided, lost>> /\ issue' \in IssueRow BY <1>2, Types DEF AdmitMention
  <2>2. ASSUME NEW r \in Run, run[r].status = "queued", MergeInto(w, agent, "mention", r)
        PROVE  IInv'
    BY <1>1, <1>2, <2>1, <2>2, MergeIntoInv
  <2>3. ASSUME NEW r \in Run, IsNext(r), run' = [run EXCEPT ![r] = Queued(agent, {w}, 0)],
               wake' = [wake EXCEPT ![w] = Request("queued", agent, "mention", r, w)],
               UNCHANGED merging
        PROVE  IInv'
    BY <1>1, <1>2, <2>1, <2>3, NewRunInv
  <2> QED BY <1>2, <2>2, <2>3 DEF AdmitMention, IsLast
<1>3. CASE AdmitBehindMission(w, agent, kind)
  <2>1. issue' \in IssueRow BY <1>3, Types DEF AdmitBehindMission, IssueRow
  <2> QED BY <1>1, <1>3, <2>1, EnqueueInv DEF AdmitBehindMission
<1>4. ASSUME NEW r \in Run PROVE Adopt(r) => issue' \in IssueRow
  BY Types DEF Adopt, IssueRow
<1>5. ASSUME NEW r \in Run, kind = "rework", AdmitRework(w, agent, r) PROVE IInv'
  <2>1. /\ UNCHANGED <<run, merging, decided, lost>> /\ issue' \in IssueRow
        /\ wake' = [wake EXCEPT ![w] = Request("queued", agent, kind, None, w)]
    BY <1>4, <1>5 DEF AdmitRework
  <2>2. Enqueue(w, "queued", agent, kind) \/ \E v \in Wake : IsMergeTarget(v, "queued", agent, kind)
    BY <2>1 DEF Enqueue
  <2> DEFINE new == Request("queued", agent, kind, None, w)
  <2>3. new \in WakeRow /\ new.status = "queued" /\ new.run = None /\ new.context = {w}
    <3>1. None \in Run \cup {None} OBVIOUS
    <3> HIDE DEF None
    <3> QED BY <3>1 DEF Request, WakeRow
  <2> HIDE DEF new
  <2>4. /\ wake' \in [Wake -> WakeRow] /\ wake'[w] = new
        /\ \A u \in Wake \ {w} : wake'[u] = wake[u]
    BY <2>1, <2>3, Types DEF new
  <2>5. DataInv' BY <1>1, <2>1, <2>3, <2>4, ArrivalWaits DEF IssueUnlocked
  <2> QED BY <2>1, <2>4, <2>5, Types, Together
<1>6. ASSUME NEW r \in Run, AdmitCoalesced(w, agent, kind, r) PROVE IInv'
  <2>1. /\ kind \notin {"mention", "rework"} /\ Unbounded(kind)
        /\ run[r].status = "running" => kind # "comment"
    BY <1>6 DEF AdmitCoalesced, Coalesces
  <2> QED BY <1>1, <1>4, <1>6, <2>1, MergeIntoInv DEF AdmitCoalesced, Unbounded
<1>7. ASSUME NEW r \in Run, AdmitDeferred(w, agent, kind, r) PROVE IInv'
  BY <1>1, <1>4, <1>7, EnqueueInv DEF AdmitDeferred
<1>8. ASSUME NEW r \in Run, AdmitRun(w, agent, kind, r) PROVE IInv'
  <2>1. [issue EXCEPT !.executionRun = None] \in IssueRow BY Types DEF IssueRow
  <2>2. issue' \in IssueRow BY <1>8, <2>1, StartLinkedRow DEF AdmitRun
  <2> QED BY <1>1, <1>8, <2>2, NewRunInv DEF AdmitRun
<1> QED BY <1>2, <1>3, <1>5, <1>6, <1>7, <1>8 DEF Admit

-----------------------------------------------------------------------------
LEMMA InitInv == Init => IInv
<1> SUFFICES ASSUME Init PROVE IInv OBVIOUS
<1> DEFINE first == [Absent EXCEPT !.status = "queued"]
<1>1. /\ Absent \in RunRow /\ Absent.context = {} /\ Absent.read = {}
      /\ first \in RunRow /\ first.context = {} /\ first.read = {}
  <2>1. Assignee \in Agent BY ConstantsAssumption
  <2>2. 0 \in 0..1 OBVIOUS
  <2> QED BY <2>1, <2>2 DEF Absent, RunRow
<1>2. /\ run \in [Run -> RunRow]
      /\ \A r \in Run : run[r].context = {} /\ run[r].read = {}
  <2>1. run = [r \in Run |-> IF r = 1 THEN first ELSE Absent] BY DEF Init
  <2> HIDE DEF first
  <2> QED BY <1>1, <2>1
<1>3. /\ wake \in [Wake -> WakeRow]
      /\ \A w \in Wake : wake[w].status = "absent" /\ wake[w].context = {}
  BY ConstantsAssumption DEF Init, WakeRow
<1>4. issue \in IssueRow
  <2>1. 1 \in Run BY ConstantsAssumption DEF Run
  <2> QED BY <2>1 DEF Init, IssueRow, Startable
<1>5. /\ merging \in MergingRow /\ merging.wake = None
      /\ decided \in Decided /\ lost \subseteq Run
  BY DEF Init, NoMerge, MergingRow, Decided
<1>6. TypeOK
  BY <1>2, <1>3, <1>4, <1>5
     DEF TypeOK, RunRow, WakeRow, IssueRow, MergingRow, Decided, Decision
<1>7. DataInv
  BY <1>2, <1>3, <1>5
     DEF DataInv, PlacesInv, ReadInv, MergingInv, LossInv, Carries, Stores, Owed
<1> QED BY <1>6, <1>7 DEF IInv

\* What a release decides from an unlocked read, or that it leaves the issue.
LEMMA ReleaseReadsInv ==
  ASSUME IInv, NEW r \in Run, ReleaseReads(r)
  PROVE  IInv'
<1> DEFINE i == IF IssueUnlocked THEN issue ELSE [issue EXCEPT !.executionRun = merging.before]
<1>1. i \in IssueRow BY Types DEF IssueRow, MergingRow
<1>2. UNCHANGED <<issue, wake, merging, lost>> BY DEF ReleaseReads
<1>3. CASE run' = [run EXCEPT ![r].released = TRUE] /\ UNCHANGED decided
  <2>1. run' \in [Run -> RunRow] /\ \A q \in Run : SameRun(q)
    BY <1>3, Types DEF RunRow, SameRun
  <2>2. DataInv' BY <1>2, <2>1, RunStays
  <2> QED BY <1>2, <1>3, <2>1, <2>2, Types, Together
<1>4. ASSUME NEW d \in Decisions(r, i), decided' = [decided EXCEPT ![r] = d], UNCHANGED run
      PROVE  IInv'
  <2>1. d \in Decision BY <1>1, DecisionsAre
  <2>2. decided' \in Decided BY <1>4, <2>1, Types DEF Decided
  <2>3. DataInv' BY <1>2, <1>4, RunStays DEF SameRun
  <2> QED BY <1>2, <1>4, <2>2, <2>3, Types, Together
<1> QED BY <1>3, <1>4 DEF ReleaseReads

LEMMA NextInv ==
  ASSUME IInv, DecidedInv, [Next]_vars
  PROVE  IInv'
<1>1. CASE UNCHANGED vars
  <2>1. DataInv' BY <1>1, RunStays DEF vars, SameRun
  <2> QED BY <1>1, <2>1, Types, Together DEF vars
<1>2. ASSUME NEW w \in Wake, NEW a \in Agent, NEW k \in Kinds, Admit(w, a, k) PROVE IInv'
  BY <1>2, AdmitInv
<1>3. ASSUME NEW r \in Run, Release(r) \/ ReapStalledLock(r) PROVE IInv'
  <2>1. /\ UNCHANGED <<merging, decided, lost>> /\ run[r].status # "absent"
        /\ \E owed \in BOOLEAN, d \in Decisions(r, issue) : ReleaseIssueExecution(r, d, owed)
    BY <1>3 DEF Release, ReapStalledLock, Ended, Stalled, Owns, LockRuns
  <2>2. Decisions(r, issue) \subseteq Decision BY Types, DecisionsAre
  <2> QED BY <2>1, <2>2, Types, ReleaseInv
<1>6. ASSUME NEW r \in Run, ReleaseReads(r) PROVE IInv'
  BY <1>6, ReleaseReadsInv
<1>7. ASSUME NEW r \in Run, ReleaseWrites(r), DecidedInv PROVE IInv'
  <2>1. /\ run[r].status # "absent" /\ decided[r] \in Decision
        /\ decided' \in Decided /\ UNCHANGED <<merging, lost>>
        /\ ReleaseIssueExecution(r, decided[r], TRUE)
    BY <1>7, Types DEF ReleaseWrites, DecidedInv, Ended, Decided
  <2> QED BY <2>1, ReleaseInv
<1>4. ASSUME NEW r \in Run,
             \/ Claim(r) \/ Finish(r) \/ Cancel(r) \/ LoseRelease(r)
             \/ \E q \in Run : Retry(r, q)
      PROVE  IInv'
  BY <1>4, ClaimInv, EndInv, LoseReleaseInv, RetryInv
<1>5. ASSUME NEW w \in Wake, PromoteQueued(w) \/ PromoteStoredDeferred(w) PROVE IInv'
  BY <1>5, QueueSweepInv
<1> QED BY <1>1, <1>2, <1>3, <1>4, <1>5, <1>6, <1>7, FinishMergeInv DEF Next

-----------------------------------------------------------------------------
(* What a release has decided.                                             *)

\* A row that has ended, other than r, stays as it is in all the steps.
LEMMA DecidedStays ==
  ASSUME DecidedInv, NEW r \in Run,
         \A q \in Run \ {r} : decided'[q] # "nothing" => decided[q] # "nothing",
         \A q \in Run \ {r} :
           run[q].status \in Ended /\ ~run[q].released
             => run'[q].status \in Ended /\ ~run'[q].released,
         decided'[r] # "nothing" => run'[r].status \in Ended /\ ~run'[r].released
  PROVE  DecidedInv'
BY DEF DecidedInv

\* The release of r alone, or with a new run.
LEMMA ReleaseMarks ==
  ASSUME IInv, NEW r \in Run, run[r].status \in Ended, NEW owed \in BOOLEAN, NEW d \in Decision,
         ReleaseIssueExecution(r, d, owed)
  PROVE  /\ \A x \in Run \ {r} : run[x].status \in Ended => run'[x] = run[x]
         /\ run'[r].status = run[r].status
         /\ run'[r].released = (run[r].released \/ owed)
<1> DEFINE alone == [run EXCEPT ![r].released = @ \/ owed]
<1>1. /\ alone \in [Run -> RunRow] /\ \A x \in Run \ {r} : alone[x] = run[x]
      /\ alone[r].status = run[r].status /\ alone[r].released = (run[r].released \/ owed)
  BY ReleasedRow, Types DEF RunRow
<1>2. CASE run' = alone BY <1>1, <1>2
<1>3. ASSUME NEW v \in Wake, NEW q \in Run, IsNext(q),
             run' = [run EXCEPT ![r].released = @ \/ owed,
                                ![q] = Queued(wake[v].agent, wake[v].context, 0)]
      PROVE  /\ \A x \in Run \ {r} : run[x].status \in Ended => run'[x] = run[x]
             /\ run'[r].status = run[r].status
             /\ run'[r].released = (run[r].released \/ owed)
  <2>1. run[q].status = "absent" /\ q # r BY <1>3, NextRowIsAbsent DEF Ended
  <2>2. run' = [alone EXCEPT ![q] = Queued(wake[v].agent, wake[v].context, 0)] BY <1>3
  <2> HIDE DEF alone
  <2>3. \A x \in Run \ {q} : run'[x] = alone[x] BY <1>1, <2>2
  <2> QED BY <1>1, <2>1, <2>3 DEF Ended
<1> QED BY <1>2, <1>3
        DEF ReleaseIssueExecution, ReleaseCompletes, ReleasePromotes, PromoteDeferredWakeup

LEMMA InitDecided == Init => DecidedInv
BY DEF Init, DecidedInv

LEMMA NextDecided ==
  ASSUME IInv, DecidedInv, [Next]_vars
  PROVE  DecidedInv'
<1> DEFINE Same == \A q \in Run : run[q].status \in Ended => run'[q] = run[q]
<1>1. ASSUME Same, UNCHANGED decided PROVE DecidedInv' BY <1>1 DEF DecidedInv
<1>2. CASE UNCHANGED vars BY <1>2 DEF vars, DecidedInv
<1>3. ASSUME NEW w \in Wake, NEW a \in Agent, NEW k \in Kinds, Admit(w, a, k) PROVE DecidedInv'
  <2>1. UNCHANGED decided
    BY <1>3 DEF Admit, AdmitMention, AdmitBehindMission, AdmitRework, AdmitCoalesced,
                AdmitDeferred, AdmitRun
  <2>2. \/ UNCHANGED run
        \/ \E r \in Run : /\ run[r].status \in {"absent", "running"}
                          /\ \A q \in Run \ {r} : run'[q] = run[q]
    <3>1. ASSUME NEW r \in Run, NEW kind, MergeInto(w, a, kind, r)
          PROVE  \/ UNCHANGED run
                 \/ /\ run[r].status \in {"absent", "running"}
                    /\ \A q \in Run \ {r} : run'[q] = run[q]
      BY <3>1, Types DEF MergeInto
    <3>2. ASSUME NEW r \in Run, IsNext(r), run' = [run EXCEPT ![r] = Queued(a, {w}, 0)]
          PROVE  /\ run[r].status \in {"absent", "running"}
                 /\ \A q \in Run \ {r} : run'[q] = run[q]
      BY <3>2, NextRowIsAbsent, Types
    <3> QED BY <1>3, <3>1, <3>2
            DEF Admit, AdmitMention, AdmitBehindMission, AdmitRework, AdmitCoalesced,
                AdmitDeferred, AdmitRun
  <2>3. Same BY <2>2 DEF Ended
  <2> QED BY <1>1, <2>1, <2>3
<1>4. CASE FinishMerge
  <2>1. UNCHANGED decided BY <1>4 DEF FinishMerge
  <2>2. \A q \in Run : run'[q].status = run[q].status /\ run'[q].released = run[q].released
    BY <1>4, Types DEF FinishMerge, RunRow
  <2> QED BY <2>1, <2>2 DEF DecidedInv
<1>5. ASSUME NEW r \in Run, Claim(r) \/ Finish(r) \/ Cancel(r) PROVE DecidedInv'
  <2>1. UNCHANGED decided BY <1>5 DEF Claim, Finish, Cancel
  <2>2. run[r].status \in {"queued", "running"} /\ \A q \in Run \ {r} : run'[q] = run[q]
    BY <1>5, Types DEF Claim, Finish, Cancel, Live, IsFirst
  <2>3. Same BY <2>2 DEF Ended
  <2> QED BY <1>1, <2>1, <2>3
<1>6. ASSUME NEW r \in Run, LoseRelease(r) PROVE DecidedInv'
  BY <1>6, Types DEF LoseRelease, DecidedInv, Decided
<1>7. ASSUME NEW r \in Run, NEW q \in Run, Retry(r, q) PROVE DecidedInv'
  <2>1. /\ decided[r] = "nothing" /\ UNCHANGED decided
        /\ run[q].status = "absent" /\ \A x \in Run \ {r, q} : run'[x] = run[x]
    BY <1>7, NextRowIsAbsent, Types DEF Retry
  <2> QED BY <2>1 DEF DecidedInv, Ended
<1>8. ASSUME NEW r \in Run, Release(r) PROVE DecidedInv'
  <2>1. PICK d \in Decision : ReleaseIssueExecution(r, d, TRUE)
    BY <1>8, Types, DecisionsAre DEF Release
  <2>2. run[r].status \in Ended /\ decided[r] = "nothing" /\ UNCHANGED decided
    BY <1>8 DEF Release
  <2> QED BY <2>1, <2>2, ReleaseMarks DEF DecidedInv
<1>9. ASSUME NEW r \in Run, ReleaseReads(r) PROVE DecidedInv'
  BY <1>9, Types DEF ReleaseReads, DecidedInv, Decided, RunRow
<1>10. ASSUME NEW r \in Run, ReleaseWrites(r) PROVE DecidedInv'
  <2>1. /\ run[r].status \in Ended /\ decided[r] \in Decision
        /\ ReleaseIssueExecution(r, decided[r], TRUE)
        /\ decided' = [decided EXCEPT ![r] = "nothing"]
    BY <1>10, Types DEF ReleaseWrites, DecidedInv, Decided
  <2>2. \A x \in Run \ {r} : run[x].status \in Ended => run'[x] = run[x]
    BY <2>1, ReleaseMarks
  <2> QED BY <2>1, <2>2, Types DEF DecidedInv, Decided
<1>11. ASSUME NEW r \in Run, ReapStalledLock(r) PROVE DecidedInv'
  <2>1. PICK d \in Decision : ReleaseIssueExecution(r, d, FALSE)
    BY <1>11, Types, DecisionsAre DEF ReapStalledLock
  <2>2. run[r].status \in Ended /\ UNCHANGED decided
    BY <1>11 DEF ReapStalledLock, Stalled, Ended, Owns, LockRuns
  <2>3. run'[r].released = run[r].released
    BY <2>1, <2>2, ReleaseMarks, Types DEF RunRow
  <2> QED BY <2>1, <2>2, <2>3, ReleaseMarks DEF DecidedInv
<1>12. ASSUME NEW w \in Wake, PromoteQueued(w) \/ PromoteStoredDeferred(w) PROVE DecidedInv'
  <2>1. UNCHANGED decided BY <1>12 DEF PromoteQueued, PromoteStoredDeferred
  <2>2. UNCHANGED run \/ \E q \in Run : /\ run[q].status = "absent"
                                        /\ \A x \in Run \ {q} : run'[x] = run[x]
    BY <1>12, NextRowIsAbsent, Types
       DEF PromoteQueued, PromoteStoredDeferred, FailWakeup, PromoteDeferredWakeup
  <2>3. Same BY <2>2 DEF Ended
  <2> QED BY <1>1, <2>1, <2>3
<1> QED BY <1>2, <1>3, <1>4, <1>5, <1>6, <1>7, <1>8, <1>9, <1>10, <1>11, <1>12 DEF Next

-----------------------------------------------------------------------------
(* A live owner.                                                           *)

\* What an action property may say of a live owner x that loses the lock.
GivenUp(x) ==
  \/ run'[x].status \in Ended
  \/ \E q \in Run : /\ issue.checkoutRun = q \/ decided[q] # "nothing"
                    /\ ~run[q].released /\ run'[q].released

\* An admission adopts the run that has the issue, or finds none.
LEMMA AdmitLeavesOwner ==
  ASSUME IInv, NEW x \in Run, Live(x), issue.executionRun = x,
         NEW w \in Wake, NEW agent \in Agent, NEW kind \in Kinds, Admit(w, agent, kind)
  PROVE  issue'.executionRun = x
<1>1. ~NoActiveExecutionRun BY DEF NoActiveExecutionRun
<1>2. ASSUME NEW r \in Run, IsActiveExecutionRun(r), Adopt(r) PROVE issue'.executionRun = x
  <2>1. r = x BY <1>2 DEF IsActiveExecutionRun
  <2> QED BY <1>2, <2>1, Types DEF Adopt, IssueRow
<1>3. CASE UNCHANGED issue BY <1>3
<1> QED BY <1>1, <1>2, <1>3
        DEF Admit, AdmitMention, AdmitBehindMission, AdmitRework, AdmitCoalesced, AdmitDeferred,
            AdmitRun

\* The release that clears the lock is that of a run with the checkout, or of one
\* that has decided on what it read.
LEMMA ReleaseOfOwner ==
  ASSUME IInv, DecidedInv, NEW x \in Run, Live(x), issue.executionRun = x,
         NEW r \in Run, Release(r) \/ ReleaseWrites(r)
  PROVE  GivenUp(x)
<1>1. CASE Release(r)
  <2>1. PICK d \in Decision : ReleaseIssueExecution(r, d, TRUE)
    BY <1>1, Types, DecisionsAre DEF Release
  <2>2. run[r].status \in Ended /\ ~run[r].released /\ r \in LockRuns
    BY <1>1 DEF Release, Owns, LockRuns
  <2>3. issue.checkoutRun = r BY <2>2 DEF LockRuns, Locks, Live, Ended
  <2> QED BY <2>1, <2>2, <2>3, ReleaseMarks DEF GivenUp
<1>2. CASE ReleaseWrites(r)
  <2>1. /\ decided[r] # "nothing" /\ decided[r] \in Decision
        /\ ReleaseIssueExecution(r, decided[r], TRUE)
    BY <1>2, Types DEF ReleaseWrites, Decided
  <2>2. run[r].status \in Ended /\ ~run[r].released BY <2>1 DEF DecidedInv
  <2> QED BY <2>1, <2>2, ReleaseMarks DEF GivenUp
<1> QED BY <1>1, <1>2

\* A retry takes the lock of a failed run, and the sweep an issue without one.
LEMMA OthersLeaveOwner ==
  ASSUME IInv, NEW x \in Run, Live(x), issue.executionRun = x
  PROVE  /\ \A r, q \in Run : Retry(r, q) => issue'.executionRun = x
         /\ \A r \in Run : ~ReapStalledLock(r)
         /\ \A w \in Wake : PromoteQueued(w) => UNCHANGED issue
         /\ \A w \in Wake : ~PromoteStoredDeferred(w)
<1>1. \A r, q \in Run : Retry(r, q) => issue'.executionRun = x BY DEF Retry, Live
<1>2. \A r \in Run : ~ReapStalledLock(r) BY DEF ReapStalledLock, Stalled, NoActiveExecutionRun
<1>3. \A w \in Wake : PromoteQueued(w) => UNCHANGED issue
  BY DEF PromoteQueued, FailWakeup, InFlight
<1>4. x \in LockRuns BY DEF LockRuns, Locks, Run, None
<1>5. \A w \in Wake : ~PromoteStoredDeferred(w) BY <1>4 DEF PromoteStoredDeferred
<1> QED BY <1>1, <1>2, <1>3, <1>5

LEMMA OwnerLosesBy ==
  ASSUME IInv, DecidedInv, [Next]_vars, NEW x \in Run, Live(x), issue.executionRun = x,
         issue'.executionRun # x
  PROVE  GivenUp(x)
<1>1. ~UNCHANGED issue OBVIOUS
<1>2. \A r \in Run : /\ ~Claim(r) /\ ~Finish(r) /\ ~Cancel(r)
                      /\ ~LoseRelease(r) /\ ~ReleaseReads(r)
  BY <1>1 DEF Claim, Finish, Cancel, LoseRelease, ReleaseReads
<1>3. ~FinishMerge /\ ~UNCHANGED vars BY <1>1 DEF FinishMerge, vars
<1>4. \A w \in Wake, a \in Agent, k \in Kinds : ~Admit(w, a, k) BY AdmitLeavesOwner
<1>5. PICK r \in Run : Release(r) \/ ReleaseWrites(r)
  BY <1>1, <1>2, <1>3, <1>4, OthersLeaveOwner DEF Next
<1> QED BY <1>5, ReleaseOfOwner

-----------------------------------------------------------------------------
\* In every reachable state the wakes are where the requests and runs say, for
\* any number of agents, wakes, retries and releases that fail.
THEOREM IssueInvariant == Spec => [](IInv /\ DecidedInv)
<1>1. IInv /\ DecidedInv /\ [Next]_vars => (IInv /\ DecidedInv)' BY NextInv, NextDecided
<1> QED BY <1>1, InitInv, InitDecided, PTL DEF Spec

\* The issue, its runs and its requests keep their types.
THEOREM IssueTypeCorrect == Spec => []TypeOK
<1>1. IInv => TypeOK BY DEF IInv
<1> QED BY <1>1, IssueInvariant, PTL

\* No comment, mention, bounded request or rework is lost, unless a claim
\* overtook its merge (heartbeat.ts:7432-7447, 7662-7697).
THEOREM NoWakeIsLost == Spec => []WakeIsNotLost
<1>1. IInv => WakeIsNotLost
  BY DEF IInv, DataInv, LossInv, Owed, Keeps, Serves, WakeIsNotLost
<1> QED BY <1>1, IssueInvariant, PTL

\* No wake is carried by two runs, retries aside
\* (heartbeat-followup-promotion.ts:120-220).
THEOREM EachWakeRunsOnce == Spec => []WakeRunsOnce
<1>1. ASSUME IInv, NEW w \in Wake
      PROVE  Cardinality({r \in Run : w \in run[r].context /\ run[r].losses = 0}) <= 1
  <2> DEFINE S == {r \in Run : w \in run[r].context /\ run[r].losses = 0}
  <2>1. \A r, q \in S : r = q BY <1>1 DEF IInv, DataInv, PlacesInv, Carries
  <2>2. CASE S = {}
    <3>1. Cardinality(S) = 0 BY <2>2, FS_EmptySet
    <3> QED BY <3>1
  <2>3. CASE S # {}
    <3>1. PICK r \in S : TRUE BY <2>3
    <3>2. S = {r} BY <2>1
    <3> HIDE DEF S
    <3>3. Cardinality(S) = 1 BY <3>2, FS_Singleton
    <3> QED BY <3>3 DEF S
  <2> QED BY <2>2, <2>3
<1>2. IInv => WakeRunsOnce BY <1>1 DEF WakeRunsOnce
<1> QED BY <1>2, IssueInvariant, PTL

\* A live owner loses the lock by its own end, or to the release of a run that
\* has the checkout or that read the issue before, without its row
\* (heartbeat.ts:5404-5435, 6247-6256).
THEOREM LiveOwnersKeepTheIssue == Spec => LiveOwnerKeepsIssue
<1>1. IInv /\ DecidedInv /\ [Next]_vars =>
        [\A r \in Run :
           Live(r) /\ issue.executionRun = r /\ issue'.executionRun # r
             => \/ run'[r].status \in Ended
                \/ \E q \in Run : /\ issue.checkoutRun = q \/ decided[q] # "nothing"
                                  /\ ~run[q].released /\ run'[q].released]_vars
  BY OwnerLosesBy DEF GivenUp
<1> QED BY <1>1, IssueInvariant, PTL DEF Spec, LiveOwnerKeepsIssue
=============================================================================
