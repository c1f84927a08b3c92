---------------------------- MODULE RunLifecycle ----------------------------
(***************************************************************************)
(* What a heartbeat run promises to everybody who reads its row:           *)
(* it is created queued, runs in one of its agent's slots, ends once with  *)
(* one result, and is settled at most once and only after it ended.  A run *)
(* whose start was deferred by a shutdown goes back to the queue; nothing  *)
(* else ever goes back.  RunFinalization implements this specification.    *)
(***************************************************************************)
EXTENDS Naturals, FiniteSets

CONSTANTS Run,            \* the runs of one agent
          MaxConcurrent   \* its slots

VARIABLES stage,          \* per run, one of Stage
          result          \* per run, how it ended

lifecycleVars == <<stage, result>>

Stage == {"absent", "queued", "running", "ended", "settled"}
Result == {"succeeded", "failed", "cancelled", "timed_out"}

Init ==
  /\ stage \in [Run -> {"absent", "queued"}]
  /\ result = [r \in Run |-> "none"]

Running == {r \in Run : stage[r] = "running"}

Moves(r, from, to) ==
  /\ stage[r] \in from
  /\ stage' = [stage EXCEPT ![r] = to]

Create(r) == Moves(r, {"absent"}, "queued") /\ UNCHANGED result
Start(r) ==
  /\ Cardinality(Running) < MaxConcurrent
  /\ Moves(r, {"queued"}, "running")
  /\ UNCHANGED result
Defer(r) == Moves(r, {"running"}, "queued") /\ UNCHANGED result
End(r) ==
  /\ Moves(r, {"queued", "running"}, "ended")
  /\ \E s \in Result : result' = [result EXCEPT ![r] = s]
Settle(r) == Moves(r, {"ended"}, "settled") /\ UNCHANGED result

\* A retry is created in a step of its own; the end of its parent and the
\* settlement of a third run never share one.
Next == \E r \in Run : Create(r) \/ Start(r) \/ Defer(r) \/ End(r) \/ Settle(r)

Spec == Init /\ [][Next]_lifecycleVars
=============================================================================
