------------------------ MODULE HttpHandlerLifetime ------------------------
(***************************************************************************)
(* The tickets of server/src/services/http-handler-lifetime.ts: how the    *)
(* shutdown knows that the handlers of the tool-execute requests           *)
(* ("independent") and of the tool-progress callbacks ("callback") are     *)
(* over, without watching sockets.                                         *)
(*                                                                         *)
(* A request is admitted with a ticket and goes through the layers that    *)
(* app.ts wraps: the actor middleware (a stage), the unwrapped mutation    *)
(* guard and body parser, the route's handler or the 404 (a terminal), the *)
(* error handler.  The ticket's flags and its set of pending promises are  *)
(* kept from inside those wrappers; it is dropped when they say that no    *)
(* layer is at work, and drain() relies on that.                           *)
(*                                                                         *)
(* One step is one synchronous turn: everything a call to next() runs      *)
(* before the first await.  Between two turns any drain may look.  Express *)
(* itself is external: it runs the next layer inside next(), and forwards  *)
(* a rejected handler to the error handler in a later turn.                *)
(***************************************************************************)
CONSTANT Request   \* the requests that may arrive

Lane == {"independent", "callback"}
Layer == {"stage", "terminal"}

\* The ticket.  The continuation is the promise a ticket waits on between one
\* layer calling next() and the terminal or error layer beginning: "released"
\* once resolved, until its reaction clears it.
Ticket ==
  [lane : Lane, active : BOOLEAN,
   pending : SUBSET (Layer \cup {"start", "continuation"}),
   continuation : {"null", "waiting", "released"},
   started : BOOLEAN, terminalStarted : BOOLEAN,
   awaitingError : BOOLEAN, terminalFailed : BOOLEAN]

VARIABLES
  ticket,     \* the tickets of the admitted requests
  running,    \* per request: the asynchronous layers whose promise is open,
              \* "forward" while Express has an error to pass on
  continued,  \* per request: the stage has called next()
  independentStartsOpen, ingressOpen,
  heldFinalizations,   \* the lanes of the finalizations held
  drain       \* per lane: "idle", "waiting", "returned", "rejected", "lost"

vars == <<ticket, running, continued, independentStartsOpen, ingressOpen,
          heldFinalizations, drain>>
gates == <<independentStartsOpen, ingressOpen>>

TypeOK ==
  /\ DOMAIN ticket \subseteq Request /\ \A r \in DOMAIN ticket : ticket[r] \in Ticket
  /\ running \in [Request -> SUBSET (Layer \cup {"forward"})]
  /\ continued \in [Request -> BOOLEAN]
  /\ independentStartsOpen \in BOOLEAN /\ ingressOpen \in BOOLEAN
  /\ heldFinalizations \subseteq Lane
  /\ drain \in [Lane -> {"idle", "waiting", "returned", "rejected", "lost"}]

Init ==
  /\ ticket = [r \in {} |-> {}]
  /\ running = [r \in Request |-> {}]
  /\ continued = [r \in Request |-> FALSE]
  /\ independentStartsOpen = TRUE /\ ingressOpen = TRUE
  /\ heldFinalizations = {}
  /\ drain = [l \in Lane |-> "idle"]

Admitted == DOMAIN ticket
Active(l) == {r \in Admitted : ticket[r].active /\ ticket[r].lane = l}

-----------------------------------------------------------------------------
(* What the wrappers do to a ticket.                                       *)

\* The completion check forgets that an error is on its way.
CompleteIfSettledMutant(t) ==
  [t EXCEPT !.active = @ /\ ~(t.started /\ t.terminalStarted /\ ~t.terminalFailed
                              /\ t.pending \subseteq {"continuation"})]

CompleteIfSettled(t) ==
  [t EXCEPT !.active = @ /\ ~(/\ t.started /\ t.terminalStarted
                              /\ ~t.awaitingError /\ ~t.terminalFailed
                              /\ t.pending = {})]

Start(t) == [t EXCEPT !.started = TRUE]

WaitForContinuation(t) ==
  IF t.continuation # "null" THEN t
  ELSE [t EXCEPT !.continuation = "waiting", !.pending = @ \cup {"continuation"}]

\* A terminal does not release the continuation its stage waits on.
ResumeContinuationMutant(t) == t

ResumeContinuation(t) ==
  IF t.continuation = "waiting" THEN [t EXCEPT !.continuation = "released"] ELSE t

BeginTerminal(t, isErrorHandler) ==
  ResumeContinuation([Start(t) EXCEPT
    !.terminalStarted = TRUE,
    !.awaitingError = @ /\ ~isErrorHandler])

\* The reactions of the start gate and of a released continuation.
StartGone(t) == CompleteIfSettled([t EXCEPT !.pending = @ \ {"start"}])
ContinuationGone(t) ==
  CompleteIfSettled([t EXCEPT !.pending = @ \ {"continuation"}, !.continuation = "null"])

\* settleStage, with the completion check that follows it.
StageResolved(t, hasContinued) ==
  CompleteIfSettled([t EXCEPT !.pending = @ \ {"stage"},
                              !.terminalStarted = @ \/ ~hasContinued])

TerminalResolved(t) == CompleteIfSettled([t EXCEPT !.pending = @ \ {"terminal"}])

\* A rejected layer is not given a continuation to wait for.
RejectedMutant(t, layer) ==
  CompleteIfSettled([t EXCEPT !.pending = @ \ {layer}, !.awaitingError = TRUE])

\* The rejection branch of observe().
Rejected(t, layer) ==
  CompleteIfSettled(WaitForContinuation([t EXCEPT !.pending = @ \ {layer},
                                                  !.awaitingError = TRUE]))

\* observe() is applied to an error handler that returned no promise.
ErrorHandledMutant(t, ok) ==
  CompleteIfSettled([BeginTerminal(t, TRUE) EXCEPT
    !.awaitingError = FALSE, !.terminalFailed = ~ok, !.pending = @ \cup {"error"}])

\* The wrapped error handler is synchronous: it answers, or throws because the
\* answer was already sent.
ErrorHandled(t, ok) ==
  CompleteIfSettled([BeginTerminal(t, TRUE) EXCEPT
    !.awaitingError = FALSE, !.terminalFailed = @ \/ ~ok])

\* The layers after a next() that run in the same turn: the guard denies (its
\* denial is wrapped as a terminal) or no route matches; the route's
\* asynchronous handler begins; or the guard or the parser fails.
Downstream(t) ==
  { [ticket |-> CompleteIfSettled(BeginTerminal(t, FALSE)), begun |-> {}],
    [ticket |-> [BeginTerminal(t, FALSE) EXCEPT !.pending = @ \cup {"terminal"}],
     begun |-> {"terminal"}] }
  \cup { [ticket |-> ErrorHandled(t, ok), begun |-> {}] : ok \in BOOLEAN }

-----------------------------------------------------------------------------
(* Requests.                                                               *)

NewTicket(lane) ==
  [lane |-> lane, active |-> TRUE, pending |-> {"start"}, continuation |-> "null",
   started |-> FALSE, terminalStarted |-> FALSE, awaitingError |-> FALSE,
   terminalFailed |-> FALSE]

\* activeTickets.set(ticket.id, ticket)
Enter(r, t) == [q \in Admitted \cup {r} |-> IF q = r THEN t ELSE ticket[q]]

\* The seal closes the independent lane only.
MayEnterMutant(lane) == lane = "independent" => independentStartsOpen

MayEnter(lane) == ingressOpen /\ (lane = "independent" => independentStartsOpen)

\* enter() and the wrapped actor middleware, which calls next() at once or
\* awaits the session or key first.  Its promise is observed after the call.
Arrive(r, lane) ==
  /\ r \notin Admitted /\ MayEnter(lane)
  /\ LET t == Start(NewTicket(lane)) IN
     \/ /\ ticket' = Enter(r, [t EXCEPT !.pending = @ \cup {"stage"}])
        /\ running' = [running EXCEPT ![r] = {"stage"}]
        /\ UNCHANGED continued
     \/ \E d \in Downstream(WaitForContinuation(t)) :
          /\ ticket' = Enter(r, [d.ticket EXCEPT !.pending = @ \cup {"stage"}])
          /\ running' = [running EXCEPT ![r] = {"stage"} \cup d.begun]
          /\ continued' = [continued EXCEPT ![r] = TRUE]
  /\ UNCHANGED <<gates, heldFinalizations, drain>>

\* The middleware calls next() after an await.
StageContinues(r) ==
  /\ "stage" \in running[r] /\ ~continued[r]
  /\ \E d \in Downstream(WaitForContinuation(ticket[r])) :
       /\ ticket' = [ticket EXCEPT ![r] = d.ticket]
       /\ running' = [running EXCEPT ![r] = @ \cup d.begun]
  /\ continued' = [continued EXCEPT ![r] = TRUE]
  /\ UNCHANGED <<gates, heldFinalizations, drain>>

\* Reactions run in the order in which their promises settled: a continuation
\* resolved in an earlier turn is cleared before the layer it led to settles.
InTurn(r) == ticket[r].continuation # "released"

StageSettles(r) ==
  /\ "stage" \in running[r] /\ InTurn(r)
  /\ \/ /\ continued[r]
        /\ ticket' = [ticket EXCEPT ![r] = StageResolved(@, TRUE)]
        /\ running' = [running EXCEPT ![r] = @ \ {"stage"}]
     \/ /\ ~continued[r]   \* a database error while the actor is resolved
        /\ ticket' = [ticket EXCEPT ![r] = Rejected(@, "stage")]
        /\ running' = [running EXCEPT ![r] = (@ \ {"stage"}) \cup {"forward"}]
  /\ UNCHANGED <<continued, gates, heldFinalizations, drain>>

\* The route's handler ends.  finalizeHttpCoreResponse rejects after it has
\* held a finalization whose receipt it could not write.
TerminalSettles(r) ==
  /\ "terminal" \in running[r] /\ InTurn(r)
  /\ \/ /\ ticket' = [ticket EXCEPT ![r] = TerminalResolved(@)]
        /\ running' = [running EXCEPT ![r] = @ \ {"terminal"}]
        /\ UNCHANGED heldFinalizations
     \/ /\ ticket' = [ticket EXCEPT ![r] = Rejected(@, "terminal")]
        /\ running' = [running EXCEPT ![r] = (@ \ {"terminal"}) \cup {"forward"}]
        /\ \/ UNCHANGED heldFinalizations
           \/ /\ ticket[r].lane = "independent"
              /\ heldFinalizations' = heldFinalizations \cup {"independent"}
  /\ UNCHANGED <<continued, gates, drain>>

\* Express passes the error of a rejected layer to the error handler.
ErrorForwarded(r) ==
  /\ "forward" \in running[r]
  /\ \E ok \in BOOLEAN : ticket' = [ticket EXCEPT ![r] = ErrorHandled(@, ok)]
  /\ running' = [running EXCEPT ![r] = @ \ {"forward"}]
  /\ UNCHANGED <<continued, gates, heldFinalizations, drain>>

StartReleased(r) ==
  /\ r \in Admitted /\ ticket[r].started /\ "start" \in ticket[r].pending
  /\ ticket' = [ticket EXCEPT ![r] = StartGone(@)]
  /\ UNCHANGED <<running, continued, gates, heldFinalizations, drain>>

ContinuationReleased(r) ==
  /\ r \in Admitted /\ ticket[r].continuation = "released"
  /\ ticket' = [ticket EXCEPT ![r] = ContinuationGone(@)]
  /\ UNCHANGED <<running, continued, gates, heldFinalizations, drain>>

-----------------------------------------------------------------------------
(* The shutdown.                                                           *)

StopIndependentStarts ==
  /\ independentStartsOpen
  /\ independentStartsOpen' = FALSE
  /\ UNCHANGED <<ticket, running, continued, ingressOpen, heldFinalizations, drain>>

SealIngress ==
  /\ ~independentStartsOpen /\ ingressOpen /\ drain["independent"] = "returned"
  /\ ingressOpen' = FALSE
  /\ UNCHANGED <<ticket, running, continued, independentStartsOpen,
                 heldFinalizations, drain>>

\* The controller drains the independent lane after it stopped their starts, in
\* each of its drains, and the callback lane once, after the seal.
BeginDrain(l) ==
  /\ IF l = "independent" THEN ~independentStartsOpen ELSE ~ingressOpen
  /\ \/ drain[l] = "idle"
     \/ l = "independent" /\ drain[l] = "returned" /\ drain["callback"] = "returned"
  /\ drain' = [drain EXCEPT ![l] = "waiting"]
  /\ UNCHANGED <<ticket, running, continued, gates, heldFinalizations>>

\* One look of the loop: it goes on waiting while a ticket has a pending promise.
DrainLooks(l) ==
  /\ drain[l] = "waiting"
  /\ \A r \in Active(l) : ticket[r].pending = {}
  /\ drain' = [drain EXCEPT ![l] =
       IF Active(l) = {}
         THEN IF l \in heldFinalizations THEN "rejected" ELSE "returned"
         ELSE IF \E r \in Active(l) : ticket[r].terminalFailed
           THEN "rejected"
           ELSE "lost"]   \* "ticket remains active without joinable work"
  /\ UNCHANGED <<ticket, running, continued, gates, heldFinalizations>>

Turn(r) ==
  \/ StageContinues(r) \/ StageSettles(r) \/ TerminalSettles(r)
  \/ ErrorForwarded(r) \/ StartReleased(r) \/ ContinuationReleased(r)

Next ==
  \/ \E r \in Request : Turn(r) \/ \E l \in Lane : Arrive(r, l)
  \/ StopIndependentStarts \/ SealIngress
  \/ \E l \in Lane : BeginDrain(l) \/ DrainLooks(l)

\* Handlers end (their database calls and tool calls have timeouts), reactions
\* run, and a drain that has begun goes on looking.
Spec ==
  /\ Init /\ [][Next]_vars
  /\ \A r \in Request : WF_vars(Turn(r))
  /\ \A l \in Lane : WF_vars(DrainLooks(l))

-----------------------------------------------------------------------------
(* Properties                                                              *)

\* A ticket that is dropped has no layer at work and no error on its way to
\* one: the flags and the pending set, kept by four wrappers, never run ahead
\* of the handlers (http-handler-lifetime.ts:58-61).
DroppedIsQuiet ==
  \A r \in Admitted : ~ticket[r].active => running[r] = {}

\* No turn leaves a ticket active with nothing to wait for, unless its error
\* handler failed: drain() never ends in "ticket remains active without
\* joinable work" (http-handler-lifetime.ts:253-264).
ActiveIsJoinable ==
  \A r \in Admitted :
    ticket[r].active /\ ticket[r].pending = {} => ticket[r].terminalFailed

\* After a drain of a lane has returned, no request of it is at work or will
\* be: the gate was closed before the drain began, and no ticket is dropped
\* early (http-handler-lifetime.ts:182-188, 247-268).
DrainedLaneIsQuiet ==
  \A l \in Lane : drain[l] = "returned" =>
    \A r \in Admitted : ticket[r].lane = l => running[r] = {}

\* Every drain answers, and with the truth: it rejects only for a held
\* finalization or a failed error handler.
DrainAnswers == \A l \in Lane : drain[l] = "waiting" ~> drain[l] \in {"returned", "rejected"}
=============================================================================
