--------------------- MODULE HttpHandlerLifetime_proofs ---------------------
(***************************************************************************)
(* Proofs about HttpHandlerLifetime for any set of requests: no ticket is  *)
(* dropped before its handlers are over, none is left with nothing to wait *)
(* for, and a lane that was drained stays quiet.                           *)
(***************************************************************************)
EXTENDS HttpHandlerLifetime, TLAPS

-----------------------------------------------------------------------------
(* A ticket, the layers of its request that are open, and whether its      *)
(* stage has called next().                                                *)

Types(t, open, cont) ==
  t \in Ticket /\ open \in SUBSET (Layer \cup {"forward"}) /\ cont \in BOOLEAN

\* What the wrappers keep of a ticket, but for the check of its completion.
Kept(t, open, cont) ==
  /\ t.started
  /\ open # {} => t.active
  /\ open \cap Layer \subseteq t.pending
  /\ t.awaitingError <=> "forward" \in open
  /\ t.awaitingError => t.continuation = "waiting"
  /\ t.continuation # "null" <=> "continuation" \in t.pending
  /\ "terminal" \in open => cont
  /\ "stage" \in open /\ ~cont => t.continuation = "null"
  /\ ~t.terminalStarted => ~cont /\ open \cap {"stage", "forward"} # {}

\* Between two turns a ticket that waits for nothing has a failed error handler.
Joinable(t) == t.active /\ t.pending = {} => t.terminalFailed

TicketsInv ==
  \A r \in Admitted :
    /\ Types(ticket[r], running[r], continued[r])
    /\ Kept(ticket[r], running[r], continued[r])
    /\ Joinable(ticket[r])

\* A request that has not arrived has nothing open.
Unadmitted ==
  \A r \in Request \ Admitted : running[r] = {} /\ continued[r] = FALSE

\* A lane is drained behind a closed gate, and then quiet.
LanesInv ==
  /\ drain["independent"] # "idle" => ~independentStartsOpen
  /\ drain["callback"] # "idle" => ~ingressOpen
  /\ DrainedLaneIsQuiet

RestType ==
  /\ DOMAIN ticket \subseteq Request /\ ticket = [r \in DOMAIN ticket |-> ticket[r]]
  /\ running \in [Request -> SUBSET (Layer \cup {"forward"})]
  /\ continued \in [Request -> BOOLEAN]
  /\ independentStartsOpen \in BOOLEAN /\ ingressOpen \in BOOLEAN
  /\ heldFinalizations \subseteq Lane
  /\ drain \in [Lane -> {"idle", "waiting", "returned", "rejected", "lost"}]

IInv == RestType /\ TicketsInv /\ Unadmitted /\ LanesInv

-----------------------------------------------------------------------------
\* The completion check drops a ticket only when none of its layers is open,
\* and leaves none behind that waits for nothing.
LEMMA CompleteKeeps ==
  ASSUME NEW t, NEW open, NEW cont, Types(t, open, cont), Kept(t, open, cont)
  PROVE  /\ Types(CompleteIfSettled(t), open, cont)
         /\ Kept(CompleteIfSettled(t), open, cont)
         /\ Joinable(CompleteIfSettled(t))
         /\ CompleteIfSettled(t).lane = t.lane
<1> DEFINE u == CompleteIfSettled(t)
<1>1. /\ u \in Ticket /\ u.pending = t.pending /\ u.continuation = t.continuation
      /\ u.started = t.started /\ u.terminalStarted = t.terminalStarted
      /\ u.awaitingError = t.awaitingError /\ u.terminalFailed = t.terminalFailed
      /\ u.lane = t.lane
      /\ u.active = (t.active /\ ~(/\ t.started /\ t.terminalStarted
                                   /\ ~t.awaitingError /\ ~t.terminalFailed
                                   /\ t.pending = {}))
  BY DEF Types, Ticket, CompleteIfSettled
<1> HIDE DEF u
<1>2. Types(u, open, cont) BY <1>1 DEF Types
<1>3. open # {} => t.pending # {} \/ t.awaitingError
  BY DEF Types, Kept, Layer
<1>4. Kept(u, open, cont) BY <1>1, <1>3 DEF Kept
<1>5. Joinable(u) BY <1>1, <1>3 DEF Kept, Joinable
<1> QED BY <1>1, <1>2, <1>4, <1>5 DEF u

\* An error handler runs: the continuation of its ticket is released, and no
\* error is on its way any more.
LEMMA ErrorHandledShape ==
  ASSUME NEW t \in Ticket, NEW ok \in BOOLEAN
  PROVE  \E u \in Ticket :
           /\ ErrorHandled(t, ok) = CompleteIfSettled(u)
           /\ u.lane = t.lane /\ u.active = t.active /\ u.pending = t.pending
           /\ u.continuation = IF t.continuation = "waiting" THEN "released" ELSE t.continuation
           /\ u.started /\ u.terminalStarted /\ ~u.awaitingError
<1> DEFINE u == [BeginTerminal(t, TRUE) EXCEPT !.awaitingError = FALSE, !.terminalFailed = @ \/ ~ok]
<1>1. /\ u \in Ticket /\ u.lane = t.lane /\ u.active = t.active /\ u.pending = t.pending
      /\ u.continuation = IF t.continuation = "waiting" THEN "released" ELSE t.continuation
      /\ u.started /\ u.terminalStarted /\ ~u.awaitingError
  BY DEF BeginTerminal, ResumeContinuation, Start, Ticket
<1>2. ErrorHandled(t, ok) = CompleteIfSettled(u) BY DEF ErrorHandled
<1> HIDE DEF u
<1> QED BY <1>1, <1>2

\* What a turn that went through next() leaves of a ticket.
LEMMA DownstreamShape ==
  ASSUME NEW t \in Ticket, t.active, ~t.awaitingError, t.continuation = "waiting",
         "continuation" \in t.pending, NEW d \in Downstream(t)
  PROVE  /\ d.begun \in {{}, {"terminal"}}
         /\ d.ticket \in Ticket /\ d.ticket.lane = t.lane /\ d.ticket.active
         /\ d.ticket.pending = t.pending \cup d.begun
         /\ d.ticket.continuation = "released"
         /\ d.ticket.started /\ d.ticket.terminalStarted /\ ~d.ticket.awaitingError
<1> DEFINE b == BeginTerminal(t, FALSE)
<1>1. /\ b \in Ticket /\ b.lane = t.lane /\ b.active /\ b.pending = t.pending
      /\ b.continuation = "released" /\ b.started /\ b.terminalStarted /\ ~b.awaitingError
  BY DEF BeginTerminal, ResumeContinuation, Start, Ticket
<1> HIDE DEF b
<1>2. CASE d = [ticket |-> CompleteIfSettled(b), begun |-> {}]
  <2>1. CompleteIfSettled(b) = b BY <1>1 DEF CompleteIfSettled, Ticket
  <2> QED BY <1>1, <1>2, <2>1
<1>3. CASE d = [ticket |-> [b EXCEPT !.pending = @ \cup {"terminal"}], begun |-> {"terminal"}]
  BY <1>1, <1>3 DEF Ticket, Layer
<1>4. CASE \E ok \in BOOLEAN : d = [ticket |-> ErrorHandled(t, ok), begun |-> {}]
  <2>1. PICK ok \in BOOLEAN : d = [ticket |-> ErrorHandled(t, ok), begun |-> {}] BY <1>4
  <2>2. PICK u \in Ticket :
          /\ ErrorHandled(t, ok) = CompleteIfSettled(u)
          /\ u.lane = t.lane /\ u.active = t.active /\ u.pending = t.pending
          /\ u.continuation = IF t.continuation = "waiting" THEN "released" ELSE t.continuation
          /\ u.started /\ u.terminalStarted /\ ~u.awaitingError
    BY ErrorHandledShape
  <2>3. CompleteIfSettled(u) = u BY <2>2 DEF CompleteIfSettled, Ticket
  <2> QED BY <2>1, <2>2, <2>3
<1> QED BY <1>2, <1>3, <1>4 DEF Downstream, b

LEMMA WaitShape ==
  ASSUME NEW t \in Ticket
  PROVE  /\ WaitForContinuation(t) \in Ticket
         /\ t.continuation = "null" => /\ WaitForContinuation(t).continuation = "waiting"
                                       /\ WaitForContinuation(t).pending = t.pending \cup {"continuation"}
         /\ t.continuation # "null" => WaitForContinuation(t) = t
         /\ WaitForContinuation(t).lane = t.lane /\ WaitForContinuation(t).active = t.active
         /\ WaitForContinuation(t).started = t.started
         /\ WaitForContinuation(t).terminalStarted = t.terminalStarted
         /\ WaitForContinuation(t).awaitingError = t.awaitingError
BY DEF WaitForContinuation, Ticket

\* A layer rejects: its ticket waits for the error handler.
LEMMA RejectedKeeps ==
  ASSUME NEW t, NEW open, NEW cont, Types(t, open, cont), Kept(t, open, cont),
         NEW layer \in Layer, layer \in open, layer = "stage" => ~cont, t.continuation # "released"
  PROVE  LET later == (open \ {layer}) \cup {"forward"}
         IN /\ Types(Rejected(t, layer), later, cont)
            /\ Kept(Rejected(t, layer), later, cont)
            /\ Joinable(Rejected(t, layer))
            /\ Rejected(t, layer).lane = t.lane
<1> DEFINE later == (open \ {layer}) \cup {"forward"}
           u == [t EXCEPT !.pending = @ \ {layer}, !.awaitingError = TRUE]
           w == WaitForContinuation(u)
<1>1. /\ u \in Ticket /\ u.lane = t.lane /\ u.active = t.active /\ u.pending = t.pending \ {layer}
      /\ u.continuation = t.continuation /\ u.started = t.started
      /\ u.terminalStarted = t.terminalStarted /\ u.awaitingError
  BY DEF Types, Ticket
<1> HIDE DEF u
<1>2. /\ w \in Ticket /\ w.continuation = "waiting"
      /\ w.pending = (t.pending \ {layer}) \cup {"continuation"}
      /\ w.lane = u.lane /\ w.active = u.active /\ w.started = u.started
      /\ w.terminalStarted = u.terminalStarted /\ w.awaitingError = u.awaitingError
  <2>1. t.continuation \in {"null", "waiting"} BY DEF Types, Ticket
  <2>2. t.continuation = "waiting" => "continuation" \in t.pending \ {layer} BY DEF Kept, Layer
  <2>3. CASE t.continuation = "null"
    <3>1. u.continuation = "null" BY <1>1, <2>3
    <3>2. /\ w \in Ticket /\ w.continuation = "waiting" /\ w.pending = u.pending \cup {"continuation"}
          /\ w.lane = u.lane /\ w.active = u.active /\ w.started = u.started
          /\ w.terminalStarted = u.terminalStarted /\ w.awaitingError = u.awaitingError
      BY <1>1, <3>1, WaitShape
    <3> HIDE DEF w
    <3> QED BY <1>1, <3>2
  <2>4. CASE t.continuation = "waiting"
    <3>1. w = u BY <1>1, <2>4, WaitShape
    <3> QED BY <1>1, <2>2, <2>4, <3>1
  <2> QED BY <2>1, <2>3, <2>4
<1> HIDE DEF w
<1>3. Types(w, later, cont) BY <1>2 DEF Types
<1>4. Kept(w, later, cont) BY <1>1, <1>2 DEF Kept, Layer
<1>5. Rejected(t, layer) = CompleteIfSettled(w) BY DEF Rejected, w, u
<1> QED BY <1>1, <1>2, <1>3, <1>4, <1>5, CompleteKeeps

-----------------------------------------------------------------------------
\* A turn of one request, which puts another row in the place of its ticket.
LEMMA TurnKeeps ==
  ASSUME IInv, NEW r \in Admitted, NEW t, t.lane = ticket[r].lane,
         ticket' = [ticket EXCEPT ![r] = t],
         NEW open, running' = [running EXCEPT ![r] = open],
         NEW cont, continued' = [continued EXCEPT ![r] = cont],
         Types(t, open, cont), Kept(t, open, cont), Joinable(t),
         running[r] = {} => open = {},
         UNCHANGED <<gates, drain>>, heldFinalizations' \subseteq Lane
  PROVE  IInv'
<1>1. /\ r \in Request /\ DOMAIN ticket' = DOMAIN ticket
      /\ ticket'[r] = t /\ running'[r] = open /\ continued'[r] = cont
      /\ \A q \in Admitted \ {r} :
           ticket'[q] = ticket[q] /\ running'[q] = running[q] /\ continued'[q] = continued[q]
  BY DEF IInv, RestType, Admitted
<1>2. RestType' BY <1>1 DEF IInv, RestType, Types, gates
<1>3. TicketsInv' BY <1>1 DEF IInv, TicketsInv, Admitted
<1>4. Unadmitted' BY <1>1 DEF IInv, RestType, Unadmitted, Admitted
<1>5. LanesInv' BY <1>1 DEF IInv, LanesInv, DrainedLaneIsQuiet, Admitted, gates
<1> QED BY <1>2, <1>3, <1>4, <1>5 DEF IInv

\* A request whose layers are open has been admitted.
LEMMA OpenIsAdmitted ==
  ASSUME IInv, NEW r \in Request, running[r] # {}
  PROVE  r \in Admitted /\ ticket[r].active
BY DEF IInv, Unadmitted, TicketsInv, Kept

\* A request arrives, with a ticket that fits its layers.
LEMMA EnterKeeps ==
  ASSUME IInv, NEW r \in Request \ Admitted, NEW l \in Lane, MayEnter(l),
         NEW t, t.lane = l, ticket' = Enter(r, t),
         NEW open, running' = [running EXCEPT ![r] = open],
         NEW cont, continued' = [continued EXCEPT ![r] = cont],
         Types(t, open, cont), Kept(t, open, cont), Joinable(t),
         UNCHANGED <<gates, heldFinalizations, drain>>
  PROVE  IInv'
<1>1. ticket' = [q \in DOMAIN ticket \cup {r} |-> IF q = r THEN t ELSE ticket[q]]
  BY DEF Enter, Admitted
<1>2. /\ DOMAIN ticket' = DOMAIN ticket \cup {r}
      /\ ticket'[r] = t /\ running'[r] = open /\ continued'[r] = cont
      /\ \A q \in Admitted : ticket'[q] = ticket[q]
      /\ \A q \in Request \ {r} : running'[q] = running[q] /\ continued'[q] = continued[q]
  BY <1>1 DEF IInv, RestType, Admitted
<1>3. RestType' BY <1>1, <1>2 DEF IInv, RestType, Types, gates
<1>4. TicketsInv' BY <1>2 DEF IInv, RestType, TicketsInv, Admitted
<1>5. Unadmitted' BY <1>2 DEF IInv, Unadmitted, Admitted
<1>6. LanesInv'
  <2>1. drain[l] = "idle" BY DEF IInv, LanesInv, MayEnter, Lane
  <2> QED BY <1>2, <2>1 DEF IInv, RestType, LanesInv, DrainedLaneIsQuiet, Admitted, gates
<1> QED BY <1>3, <1>4, <1>5, <1>6 DEF IInv

LEMMA ArriveInv ==
  ASSUME IInv, NEW r \in Request, NEW l \in Lane, Arrive(r, l)
  PROVE  IInv'
<1> DEFINE n == Start(NewTicket(l))
<1>1. /\ n \in Ticket /\ n.lane = l /\ n.active /\ n.pending = {"start"} /\ n.continuation = "null"
      /\ n.started /\ ~n.terminalStarted /\ ~n.awaitingError
  BY DEF Start, NewTicket, Ticket
<1> HIDE DEF n
<1>2. r \notin Admitted /\ MayEnter(l) /\ UNCHANGED <<gates, heldFinalizations, drain>>
  BY DEF Arrive
<1>3. CASE /\ ticket' = Enter(r, [n EXCEPT !.pending = @ \cup {"stage"}])
           /\ running' = [running EXCEPT ![r] = {"stage"}]
           /\ UNCHANGED continued
  <2> DEFINE t == [n EXCEPT !.pending = @ \cup {"stage"}]
  <2>1. /\ t \in Ticket /\ t.lane = l /\ t.active /\ t.pending = {"start", "stage"}
        /\ t.continuation = "null" /\ t.started /\ ~t.terminalStarted /\ ~t.awaitingError
    BY <1>1 DEF Ticket, Layer
  <2>2. continued' = [continued EXCEPT ![r] = FALSE]
    BY <1>2, <1>3 DEF IInv, RestType, Unadmitted
  <2>3. ticket' = Enter(r, t) BY <1>3
  <2> HIDE DEF t
  <2>4. Types(t, {"stage"}, FALSE) /\ Kept(t, {"stage"}, FALSE) /\ Joinable(t)
    BY <2>1 DEF Types, Kept, Joinable, Layer
  <2> QED BY <1>2, <1>3, <2>1, <2>2, <2>3, <2>4, EnterKeeps
<1>4. CASE \E d \in Downstream(WaitForContinuation(n)) :
             /\ ticket' = Enter(r, [d.ticket EXCEPT !.pending = @ \cup {"stage"}])
             /\ running' = [running EXCEPT ![r] = {"stage"} \cup d.begun]
             /\ continued' = [continued EXCEPT ![r] = TRUE]
  <2> DEFINE w == WaitForContinuation(n)
  <2>1. /\ w \in Ticket /\ w.lane = l /\ w.active /\ w.continuation = "waiting"
        /\ w.pending = {"start", "continuation"} /\ ~w.awaitingError
    BY <1>1, WaitShape
  <2>2. PICK d \in Downstream(w) :
          /\ ticket' = Enter(r, [d.ticket EXCEPT !.pending = @ \cup {"stage"}])
          /\ running' = [running EXCEPT ![r] = {"stage"} \cup d.begun]
          /\ continued' = [continued EXCEPT ![r] = TRUE]
    BY <1>4
  <2> HIDE DEF w
  <2>3. /\ d.begun \in {{}, {"terminal"}}
        /\ d.ticket \in Ticket /\ d.ticket.lane = w.lane /\ d.ticket.active
        /\ d.ticket.pending = w.pending \cup d.begun
        /\ d.ticket.continuation = "released"
        /\ d.ticket.started /\ d.ticket.terminalStarted /\ ~d.ticket.awaitingError
    BY <2>1, DownstreamShape
  <2> DEFINE t == [d.ticket EXCEPT !.pending = @ \cup {"stage"}]
             open == {"stage"} \cup d.begun
  <2>4. /\ t \in Ticket /\ t.lane = l /\ t.active
        /\ t.pending = {"start", "continuation", "stage"} \cup d.begun
        /\ t.continuation = "released" /\ t.started /\ t.terminalStarted /\ ~t.awaitingError
    BY <2>1, <2>3 DEF Ticket, Layer
  <2>5. ticket' = Enter(r, t) BY <2>2
  <2> HIDE DEF t
  <2>6. Types(t, open, TRUE) /\ Kept(t, open, TRUE) /\ Joinable(t)
    BY <2>3, <2>4 DEF Types, Kept, Joinable, Layer
  <2>7. running' = [running EXCEPT ![r] = open] BY <2>2
  <2> HIDE DEF open
  <2> QED BY <1>2, <2>2, <2>4, <2>5, <2>6, <2>7, EnterKeeps
<1> QED BY <1>3, <1>4 DEF Arrive, n

LEMMA StageContinuesInv ==
  ASSUME IInv, NEW r \in Request, StageContinues(r)
  PROVE  IInv'
<1> DEFINE w == WaitForContinuation(ticket[r])
<1>1. r \in Admitted /\ ticket[r].active BY OpenIsAdmitted DEF StageContinues
<1>2. /\ Types(ticket[r], running[r], continued[r]) /\ Kept(ticket[r], running[r], continued[r])
      /\ "stage" \in running[r] /\ continued[r] = FALSE
      /\ UNCHANGED <<gates, heldFinalizations, drain>>
  BY <1>1 DEF IInv, TicketsInv, RestType, Admitted, StageContinues
<1>3. ~ticket[r].awaitingError /\ "forward" \notin running[r] /\ "terminal" \notin running[r]
  BY <1>2 DEF Kept
<1>4. PICK d \in Downstream(w) :
        /\ ticket' = [ticket EXCEPT ![r] = d.ticket]
        /\ running' = [running EXCEPT ![r] = running[r] \cup d.begun]
  BY DEF StageContinues
<1>5. /\ w \in Ticket /\ w.lane = ticket[r].lane /\ w.active /\ w.continuation = "waiting"
      /\ w.pending = ticket[r].pending \cup {"continuation"} /\ ~w.awaitingError
  <2>1. ticket[r].continuation = "null" /\ ticket[r] \in Ticket BY <1>2 DEF Kept, Types
  <2> QED BY <1>1, <1>3, <2>1, WaitShape
<1> HIDE DEF w
<1>6. /\ d.begun \in {{}, {"terminal"}}
      /\ d.ticket \in Ticket /\ d.ticket.lane = w.lane /\ d.ticket.active
      /\ d.ticket.pending = w.pending \cup d.begun
      /\ d.ticket.continuation = "released"
      /\ d.ticket.started /\ d.ticket.terminalStarted /\ ~d.ticket.awaitingError
  BY <1>5, DownstreamShape
<1> DEFINE open == running[r] \cup d.begun
<1>7. /\ Types(d.ticket, open, TRUE) /\ Joinable(d.ticket)
      /\ Kept(d.ticket, open, TRUE)
  <2>1. running[r] \subseteq {"stage"} /\ "stage" \in ticket[r].pending
    BY <1>2, <1>3 DEF Types, Kept, Layer
  <2> QED BY <1>5, <1>6, <2>1 DEF Types, Kept, Joinable, Layer
<1>8. continued' = [continued EXCEPT ![r] = TRUE] /\ running' = [running EXCEPT ![r] = open]
  BY <1>4 DEF StageContinues
<1>9. heldFinalizations' \subseteq Lane BY <1>2 DEF IInv, RestType
<1> HIDE DEF open
<1> QED BY <1>1, <1>2, <1>4, <1>5, <1>6, <1>7, <1>8, <1>9, TurnKeeps

\* What a turn sees of its request.
LEMMA TurnSees ==
  ASSUME IInv, NEW r \in Admitted
  PROVE  /\ Types(ticket[r], running[r], continued[r]) /\ ticket[r] \in Ticket
         /\ Kept(ticket[r], running[r], continued[r]) /\ Joinable(ticket[r])
         /\ ticket = [ticket EXCEPT ![r] = ticket[r]] /\ running = [running EXCEPT ![r] = running[r]]
         /\ continued = [continued EXCEPT ![r] = continued[r]] /\ heldFinalizations \subseteq Lane
BY DEF IInv, TicketsInv, RestType, Admitted, Types

LEMMA StageSettlesInv ==
  ASSUME IInv, NEW r \in Request, StageSettles(r)
  PROVE  IInv'
<1>1. r \in Admitted BY OpenIsAdmitted DEF StageSettles
<1> DEFINE t == ticket[r]
           cont == continued[r]
<1>2. /\ Types(t, running[r], cont) /\ Kept(t, running[r], cont) /\ t \in Ticket
      /\ "stage" \in running[r] /\ t.continuation # "released" /\ cont \in BOOLEAN
      /\ continued' = [continued EXCEPT ![r] = cont]
      /\ UNCHANGED <<gates, heldFinalizations, drain>> /\ heldFinalizations' \subseteq Lane
  BY <1>1, TurnSees DEF StageSettles, InTurn, Types
<1>3. CASE /\ cont /\ ticket' = [ticket EXCEPT ![r] = StageResolved(@, TRUE)]
           /\ running' = [running EXCEPT ![r] = @ \ {"stage"}]
  <2> DEFINE open == running[r] \ {"stage"}
             u == [t EXCEPT !.pending = @ \ {"stage"}, !.terminalStarted = @ \/ ~TRUE]
  <2>1. /\ u \in Ticket /\ u.lane = t.lane /\ u.active = t.active /\ u.pending = t.pending \ {"stage"}
        /\ u.continuation = t.continuation /\ u.started = t.started
        /\ u.terminalStarted = t.terminalStarted /\ u.awaitingError = t.awaitingError
    BY <1>2 DEF Ticket
  <2>2. StageResolved(t, TRUE) = CompleteIfSettled(u) BY DEF StageResolved
  <2> HIDE DEF u
  <2>3. Types(u, open, cont) /\ Kept(u, open, cont)
    BY <1>2, <1>3, <2>1 DEF Types, Kept, Layer
  <2>4. ticket' = [ticket EXCEPT ![r] = CompleteIfSettled(u)]
        /\ running' = [running EXCEPT ![r] = open]
    BY <1>3, <2>2
  <2> HIDE DEF open, cont
  <2> QED BY <1>1, <1>2, <2>1, <2>3, <2>4, CompleteKeeps, TurnKeeps
<1>4. CASE /\ ~cont /\ ticket' = [ticket EXCEPT ![r] = Rejected(@, "stage")]
           /\ running' = [running EXCEPT ![r] = (@ \ {"stage"}) \cup {"forward"}]
  <2> DEFINE open == (running[r] \ {"stage"}) \cup {"forward"}
  <2>1. /\ Types(Rejected(t, "stage"), open, cont) /\ Kept(Rejected(t, "stage"), open, cont)
        /\ Joinable(Rejected(t, "stage")) /\ Rejected(t, "stage").lane = t.lane
    BY <1>2, <1>4, RejectedKeeps DEF Layer
  <2>2. ticket' = [ticket EXCEPT ![r] = Rejected(t, "stage")]
        /\ running' = [running EXCEPT ![r] = open] /\ running[r] # {}
    BY <1>2, <1>4
  <2> HIDE DEF open, cont
  <2> QED BY <1>1, <1>2, <2>1, <2>2, TurnKeeps
<1> QED BY <1>3, <1>4 DEF StageSettles

LEMMA TerminalSettlesInv ==
  ASSUME IInv, NEW r \in Request, TerminalSettles(r)
  PROVE  IInv'
<1>1. r \in Admitted BY OpenIsAdmitted DEF TerminalSettles
<1> DEFINE t == ticket[r]
           cont == continued[r]
<1>2. /\ Types(t, running[r], cont) /\ Kept(t, running[r], cont) /\ t \in Ticket
      /\ "terminal" \in running[r] /\ t.continuation # "released" /\ cont \in BOOLEAN
      /\ continued' = [continued EXCEPT ![r] = cont]
      /\ UNCHANGED <<gates, drain>> /\ heldFinalizations' \subseteq Lane
  BY <1>1, TurnSees DEF TerminalSettles, InTurn, Types, Lane
<1>3. CASE /\ ticket' = [ticket EXCEPT ![r] = TerminalResolved(@)]
           /\ running' = [running EXCEPT ![r] = @ \ {"terminal"}]
  <2> DEFINE open == running[r] \ {"terminal"}
             u == [t EXCEPT !.pending = @ \ {"terminal"}]
  <2>1. /\ u \in Ticket /\ u.lane = t.lane /\ u.active = t.active /\ u.pending = t.pending \ {"terminal"}
        /\ u.continuation = t.continuation /\ u.started = t.started
        /\ u.terminalStarted = t.terminalStarted /\ u.awaitingError = t.awaitingError
    BY <1>2 DEF Ticket
  <2>2. TerminalResolved(t) = CompleteIfSettled(u) BY DEF TerminalResolved
  <2> HIDE DEF u
  <2>3. Types(u, open, cont) /\ Kept(u, open, cont) BY <1>2, <2>1 DEF Types, Kept, Layer
  <2>4. ticket' = [ticket EXCEPT ![r] = CompleteIfSettled(u)]
        /\ running' = [running EXCEPT ![r] = open]
    BY <1>3, <2>2
  <2> HIDE DEF open, cont
  <2> QED BY <1>1, <1>2, <2>1, <2>3, <2>4, CompleteKeeps, TurnKeeps
<1>4. CASE /\ ticket' = [ticket EXCEPT ![r] = Rejected(@, "terminal")]
           /\ running' = [running EXCEPT ![r] = (@ \ {"terminal"}) \cup {"forward"}]
  <2> DEFINE open == (running[r] \ {"terminal"}) \cup {"forward"}
  <2>1. /\ Types(Rejected(t, "terminal"), open, cont) /\ Kept(Rejected(t, "terminal"), open, cont)
        /\ Joinable(Rejected(t, "terminal")) /\ Rejected(t, "terminal").lane = t.lane
    BY <1>2, RejectedKeeps DEF Layer
  <2>2. ticket' = [ticket EXCEPT ![r] = Rejected(t, "terminal")]
        /\ running' = [running EXCEPT ![r] = open] /\ running[r] # {}
    BY <1>2, <1>4
  <2> HIDE DEF open, cont
  <2> QED BY <1>1, <1>2, <2>1, <2>2, TurnKeeps
<1> QED BY <1>3, <1>4 DEF TerminalSettles

LEMMA ErrorForwardedInv ==
  ASSUME IInv, NEW r \in Request, ErrorForwarded(r)
  PROVE  IInv'
<1>1. r \in Admitted BY OpenIsAdmitted DEF ErrorForwarded
<1> DEFINE t == ticket[r]
           cont == continued[r]
           open == running[r] \ {"forward"}
<1>2. /\ Types(t, running[r], cont) /\ Kept(t, running[r], cont) /\ t \in Ticket
      /\ "forward" \in running[r] /\ cont \in BOOLEAN
      /\ continued' = [continued EXCEPT ![r] = cont]
      /\ UNCHANGED <<gates, drain>> /\ heldFinalizations' \subseteq Lane
  BY <1>1, TurnSees DEF ErrorForwarded, Types
<1>3. PICK ok \in BOOLEAN : ticket' = [ticket EXCEPT ![r] = ErrorHandled(t, ok)]
  BY DEF ErrorForwarded
<1>4. PICK u \in Ticket :
        /\ ErrorHandled(t, ok) = CompleteIfSettled(u)
        /\ u.lane = t.lane /\ u.active = t.active /\ u.pending = t.pending
        /\ u.continuation = IF t.continuation = "waiting" THEN "released" ELSE t.continuation
        /\ u.started /\ u.terminalStarted /\ ~u.awaitingError
  BY <1>2, ErrorHandledShape
<1>5. Types(u, open, cont) /\ Kept(u, open, cont) BY <1>2, <1>4 DEF Types, Kept, Layer
<1>6. running' = [running EXCEPT ![r] = open] BY DEF ErrorForwarded
<1>7. ticket' = [ticket EXCEPT ![r] = CompleteIfSettled(u)] BY <1>3, <1>4
<1> HIDE DEF open, cont
<1> QED BY <1>1, <1>2, <1>4, <1>5, <1>6, <1>7, CompleteKeeps, TurnKeeps

LEMMA ReleasedInv ==
  ASSUME IInv, NEW r \in Request, StartReleased(r) \/ ContinuationReleased(r)
  PROVE  IInv'
<1>1. r \in Admitted BY DEF StartReleased, ContinuationReleased
<1> DEFINE t == ticket[r]
           cont == continued[r]
           open == running[r]
<1>2. /\ Types(t, open, cont) /\ Kept(t, open, cont) /\ t \in Ticket
      /\ continued' = [continued EXCEPT ![r] = cont] /\ running' = [running EXCEPT ![r] = open]
      /\ UNCHANGED <<gates, drain>> /\ heldFinalizations' \subseteq Lane
  BY <1>1, TurnSees DEF StartReleased, ContinuationReleased
<1>3. CASE StartReleased(r)
  <2> DEFINE u == [t EXCEPT !.pending = @ \ {"start"}]
  <2>1. /\ u \in Ticket /\ u.lane = t.lane /\ u.active = t.active /\ u.pending = t.pending \ {"start"}
        /\ u.continuation = t.continuation /\ u.started = t.started
        /\ u.terminalStarted = t.terminalStarted /\ u.awaitingError = t.awaitingError
    BY <1>2 DEF Ticket
  <2>2. ticket' = [ticket EXCEPT ![r] = CompleteIfSettled(u)] BY <1>3 DEF StartReleased, StartGone
  <2> HIDE DEF u
  <2>3. Types(u, open, cont) /\ Kept(u, open, cont) BY <1>2, <2>1 DEF Types, Kept, Layer
  <2> HIDE DEF open, cont
  <2> QED BY <1>1, <1>2, <2>1, <2>2, <2>3, CompleteKeeps, TurnKeeps DEF open
<1>4. CASE ContinuationReleased(r)
  <2> DEFINE u == [t EXCEPT !.pending = @ \ {"continuation"}, !.continuation = "null"]
  <2>1. /\ u \in Ticket /\ u.lane = t.lane /\ u.active = t.active
        /\ u.pending = t.pending \ {"continuation"}
        /\ u.continuation = "null" /\ u.started = t.started
        /\ u.terminalStarted = t.terminalStarted /\ u.awaitingError = t.awaitingError
    BY <1>2 DEF Ticket
  <2>2. ticket' = [ticket EXCEPT ![r] = CompleteIfSettled(u)] /\ t.continuation = "released"
    BY <1>4 DEF ContinuationReleased, ContinuationGone
  <2> HIDE DEF u
  <2>3. Types(u, open, cont) /\ Kept(u, open, cont) BY <1>2, <2>1, <2>2 DEF Types, Kept, Layer
  <2> HIDE DEF open, cont
  <2> QED BY <1>1, <1>2, <2>1, <2>2, <2>3, CompleteKeeps, TurnKeeps DEF open
<1> QED BY <1>3, <1>4

-----------------------------------------------------------------------------
(* The shutdown.                                                           *)

LEMMA GatesInv ==
  ASSUME IInv, StopIndependentStarts \/ SealIngress
  PROVE  IInv'
<1>1. UNCHANGED <<ticket, running, continued, heldFinalizations, drain>>
  BY DEF StopIndependentStarts, SealIngress
<1>2. /\ independentStartsOpen' \in BOOLEAN /\ ingressOpen' \in BOOLEAN
      /\ ~independentStartsOpen => ~independentStartsOpen'
      /\ ~ingressOpen => ~ingressOpen'
  <2>1. CASE StopIndependentStarts
    <3>1. independentStartsOpen' = FALSE /\ ingressOpen' = ingressOpen
      BY <2>1 DEF StopIndependentStarts
    <3> QED BY <3>1 DEF IInv, RestType
  <2>2. CASE SealIngress
    <3>1. ingressOpen' = FALSE /\ independentStartsOpen' = independentStartsOpen
      BY <2>2 DEF SealIngress
    <3> QED BY <3>1 DEF IInv, RestType
  <2> QED BY <2>1, <2>2
<1>3. RestType' BY <1>1, <1>2 DEF IInv, RestType
<1>4. TicketsInv' BY <1>1 DEF IInv, TicketsInv, Admitted
<1>5. Unadmitted' BY <1>1 DEF IInv, Unadmitted, Admitted
<1>6. LanesInv' BY <1>1, <1>2 DEF IInv, LanesInv, DrainedLaneIsQuiet, Admitted
<1> QED BY <1>3, <1>4, <1>5, <1>6 DEF IInv

LEMMA DrainInv ==
  ASSUME IInv, NEW l \in Lane, BeginDrain(l) \/ DrainLooks(l)
  PROVE  IInv'
<1>1. UNCHANGED <<ticket, running, continued, independentStartsOpen, ingressOpen, heldFinalizations>>
  BY DEF BeginDrain, DrainLooks, gates
<1>2. PICK s \in {"waiting", "returned", "rejected", "lost"} :
        drain' = [drain EXCEPT ![l] = s] /\ (s = "returned" => Active(l) = {})
  BY DEF BeginDrain, DrainLooks
<1>3. IF l = "independent" THEN ~independentStartsOpen ELSE ~ingressOpen
  BY DEF BeginDrain, DrainLooks, IInv, LanesInv, Lane
<1>4. RestType' BY <1>1, <1>2 DEF IInv, RestType
<1>5. TicketsInv' /\ Unadmitted' BY <1>1 DEF IInv, TicketsInv, Unadmitted, Admitted
<1>6. LanesInv'
  <2>1. Active(l) = {} => \A r \in Admitted : ticket[r].lane = l => running[r] = {}
    BY DEF IInv, TicketsInv, Kept, Active
  <2> QED BY <1>1, <1>2, <1>3, <2>1 DEF IInv, RestType, LanesInv, DrainedLaneIsQuiet, Admitted, Lane
<1> QED BY <1>4, <1>5, <1>6 DEF IInv

-----------------------------------------------------------------------------
LEMMA InitInv == Init => IInv
BY DEF Init, IInv, RestType, TicketsInv, Unadmitted, LanesInv, DrainedLaneIsQuiet, Admitted, Lane

LEMMA NextInv ==
  ASSUME IInv, [Next]_vars
  PROVE  IInv'
<1>1. CASE UNCHANGED vars
  BY <1>1 DEF vars, IInv, RestType, TicketsInv, Unadmitted, LanesInv, DrainedLaneIsQuiet, Admitted
<1>2. ASSUME NEW r \in Request, Turn(r) PROVE IInv'
  BY <1>2, StageContinuesInv, StageSettlesInv, TerminalSettlesInv, ErrorForwardedInv, ReleasedInv
     DEF Turn
<1>3. ASSUME NEW r \in Request, NEW l \in Lane, Arrive(r, l) PROVE IInv'
  BY <1>3, ArriveInv
<1>4. CASE StopIndependentStarts \/ SealIngress BY <1>4, GatesInv
<1>5. ASSUME NEW l \in Lane, BeginDrain(l) \/ DrainLooks(l) PROVE IInv' BY <1>5, DrainInv
<1> QED BY <1>1, <1>2, <1>3, <1>4, <1>5 DEF Next

\* In every reachable state each ticket fits what is open of its request, for
\* any number of requests and whatever their layers do.
THEOREM TicketInvariant == Spec => []IInv
<1>1. IInv /\ [Next]_vars => IInv' BY NextInv
<1> QED BY <1>1, InitInv, PTL DEF Spec

\* Tickets, layers, gates and drains keep their types.
THEOREM TicketTypeCorrect == Spec => []TypeOK
<1>1. IInv => TypeOK BY DEF IInv, RestType, TicketsInv, Types, TypeOK, Admitted
<1> QED BY <1>1, TicketInvariant, PTL

\* A dropped ticket has no layer open and no error on its way
\* (http-handler-lifetime.ts:58-61).
THEOREM DroppedTicketsAreQuiet == Spec => []DroppedIsQuiet
<1>1. IInv => DroppedIsQuiet BY DEF IInv, TicketsInv, Kept, DroppedIsQuiet
<1> QED BY <1>1, TicketInvariant, PTL

\* An active ticket has something to join, unless its error handler failed, so
\* that no drain is lost (http-handler-lifetime.ts:253-264).
THEOREM ActiveTicketsAreJoinable == Spec => []ActiveIsJoinable
<1>1. IInv => ActiveIsJoinable BY DEF IInv, TicketsInv, Joinable, ActiveIsJoinable
<1> QED BY <1>1, TicketInvariant, PTL

\* A lane that a drain has returned for is quiet and stays so
\* (http-handler-lifetime.ts:182-188, 247-268).
THEOREM DrainedLanesStayQuiet == Spec => []DrainedLaneIsQuiet
<1>1. IInv => DrainedLaneIsQuiet BY DEF IInv, LanesInv
<1> QED BY <1>1, TicketInvariant, PTL
=============================================================================
