----------------------- MODULE RuntimeShutdown_proofs -----------------------
(***************************************************************************)
(* Proofs about RuntimeShutdown for any amount of work and any number of   *)
(* faults.  The second and third drains are not needed for any of them: a  *)
(* join of the first, once over, stays over, because the signal and the    *)
(* fence let nothing of its kind begin again.                              *)
(***************************************************************************)
EXTENDS RuntimeShutdown, TLAPS

-----------------------------------------------------------------------------
(* The inductive invariant.                                                *)

\* Every piece of work in flight is one of those accepted, and a child that
\* outlived its execution takes the place of that execution.
CountersInv ==
  /\ accepted \in 0..MaxWork
  /\ work \in [Kind -> Nat] /\ exec \in [Executor -> [Phase -> Nat]] /\ children \in Nat
  /\ \A k \in Kind : work[k] <= accepted
  /\ \A e \in Executor : Running(e) <= accepted
  /\ Running("heartbeat") + children <= accepted

ControlType ==
  /\ boot \in {"starting", "ready", "failed"}
  /\ stopping \in BOOLEAN
  /\ flight \in Await /\ stage \in Stage
  /\ retained \subseteq Stage /\ drainFailed \in BOOLEAN
  /\ unresolved \subseteq Phase /\ heldLanes \subseteq HttpLane
  /\ ownerFailed \in BOOLEAN
  /\ ingress \in {"unopened", "open", "closing", "closed"}
  /\ sealed \in BOOLEAN /\ plugins \in {"up", "down"}
  /\ faults \in 0..MaxFaults

AfterCallbacks == {"drain2", "children", "drain3", "resources", "database", "closed"}
AfterFirstDrain == {"seal", "ingress", "callbacks"} \cup AfterCallbacks

\* The first drain is at one of these stages, or over.
Past(stages) == flight \in AfterFirstDrain \/ (flight = "drain1" /\ stage \in stages)

\* The flight begins with the signal, and its first drain with the first stage.
SignalInv ==
  /\ stopping <=> flight # "none"
  /\ flight \in {"none", "boot", "reconcile", "backup"} => stage = "startup"
  /\ flight \in {"ingress", "callbacks"} \cup AfterCallbacks => sealed

\* What a kept join says stays true, and the plugin workers stop with one.
RetainedInv ==
  /\ retained # {} => stopping
  /\ "http" \notin retained
  /\ "startup" \in retained => work["startup"] = 0
  /\ "owners" \in retained => work["owner"] = 0 /\ ~ownerFailed
  /\ "plugins" \in retained => /\ {"startup", "owners"} \subseteq retained
                               /\ work["job"] = 0 /\ work["independent"] = 0
                               /\ exec["pluginTool"]["started"] = 0
  /\ plugins = "down" => "plugins" \in retained

\* What the first drain has joined, stage by stage.  A tool that failed without
\* a disposition is remembered until the drain ends, and ends it.
FirstDrainInv ==
  /\ Past({"owners", "http", "plugins", "tools", "heartbeats"}) => "startup" \in retained
  /\ Past({"http", "plugins", "tools", "heartbeats"}) => "owners" \in retained
  /\ Past({"plugins", "tools", "heartbeats"}) =>
       work["independent"] = 0 /\ "independent" \notin heldLanes
  /\ Past({"tools", "heartbeats"}) => "plugins" \in retained
  /\ Past({"heartbeats"}) =>
       /\ exec["tool"]["started"] = 0 /\ exec["pluginTool"]["started"] = 0
       /\ "started" \in unresolved => flight = "drain1" /\ drainFailed
  /\ Past({}) => exec["heartbeat"]["started"] = 0

\* What the joins outside of the drains say.
OuterInv ==
  /\ flight = "backup" \/ Past(Stage) => work["reconcile"] = 0
  /\ Past(Stage) => work["backup"] = 0
  /\ flight \in AfterCallbacks => work["callback"] = 0 /\ "callback" \notin heldLanes
  /\ flight \in {"drain3", "resources", "database", "closed"} => children = 0

JoinedInv == SignalInv /\ RetainedInv /\ FirstDrainInv /\ OuterInv

IInv == CountersInv /\ ControlType /\ JoinedInv

-----------------------------------------------------------------------------
(* Work and executions.                                                    *)

LEMMA InitInv == Init => IInv
<1> SUFFICES ASSUME Init PROVE IInv OBVIOUS
<1>1. CountersInv BY BoundsAssumption DEF Init, CountersInv, Running, Kind, Executor, Phase
<1>2. ControlType
  <2>1. faults \in 0..MaxFaults /\ flight \in Await /\ stage \in Stage
    BY BoundsAssumption DEF Init, Await, Stage
  <2> QED BY <2>1 DEF Init, ControlType
<1>3. JoinedInv
  BY DEF Init, JoinedInv, SignalInv, RetainedInv, FirstDrainInv, OuterInv, Past, AfterFirstDrain,
         AfterCallbacks
<1> QED BY <1>1, <1>2, <1>3 DEF IInv

LEMMA FaultKeeps ==
  ASSUME faults \in 0..MaxFaults, Fault \/ UNCHANGED faults
  PROVE  faults' \in 0..MaxFaults
BY BoundsAssumption DEF Fault

\* The actions of the flight, of the boot and of the signal leave the counters
\* alone, but for the children.
LEMMA CountersRest ==
  ASSUME CountersInv, UNCHANGED <<work, exec, accepted>>, children' \in {0, children}
  PROVE  CountersInv'
BY DEF CountersInv, Running, Executor, Phase

LEMMA AcceptInv ==
  ASSUME IInv, NEW k \in Kind, Accept(k)
  PROVE  IInv'
<1>1. CountersInv'
  BY BoundsAssumption DEF IInv, CountersInv, Accept, Running, Executor, Phase
<1>2. ControlType' BY DEF IInv, ControlType, Accept, control
<1>3. UNCHANGED <<stopping, flight, stage, retained, drainFailed, plugins, exec, unresolved, heldLanes,
                  ownerFailed, sealed, children>>
  BY DEF Accept, control
<1>4. /\ \A q \in Kind \ {k} : work'[q] = work[q]
      /\ k \in {"callback", "untracked"} \/ ~stopping
      /\ k = "callback" => ~sealed
  BY DEF IInv, CountersInv, Accept, Admits, Kind
<1>5. JoinedInv'
  <2>1. CASE ~stopping
    BY <1>3, <2>1 DEF IInv, JoinedInv, SignalInv, RetainedInv, FirstDrainInv, OuterInv, Past,
       AfterFirstDrain, AfterCallbacks, Stage
  <2>2. CASE stopping
    <3>1. k = "callback" => flight \notin AfterCallbacks
      BY <1>4 DEF IInv, JoinedInv, SignalInv
    <3>2. \A q \in Kind \ {"callback", "untracked"} : work'[q] = work[q] BY <1>4, <2>2
    <3>3. flight \in AfterCallbacks => work'["callback"] = work["callback"]
      BY <1>4, <3>1 DEF Kind
    <3> QED BY <1>3, <3>2, <3>3 DEF IInv, JoinedInv, SignalInv, RetainedInv, FirstDrainInv, OuterInv, Past, Kind
  <2> QED BY <2>1, <2>2
<1> QED BY <1>1, <1>2, <1>5 DEF IInv

LEMMA FinishWorkInv ==
  ASSUME IInv, NEW k \in Kind, FinishWork(k)
  PROVE  IInv'
<1>1. CountersInv'
  BY DEF IInv, CountersInv, FinishWork, Running, Executor, Phase
<1>2. ControlType'
  <2>1. faults' \in 0..MaxFaults BY FaultKeeps DEF IInv, ControlType, FinishWork
  <2> QED BY <2>1 DEF IInv, ControlType, FinishWork, control
<1>3. JoinedInv'
  BY DEF IInv, CountersInv, ControlType, JoinedInv, SignalInv, RetainedInv, FirstDrainInv, OuterInv, Past,
         AfterFirstDrain, AfterCallbacks, FinishWork, control, Kind, Stage, HttpLane
<1> QED BY <1>1, <1>2, <1>3 DEF IInv

LEMMA SpawnInv ==
  ASSUME IInv, NEW e \in Executor, Spawn(e)
  PROVE  IInv'
<1>1. CountersInv'
  BY BoundsAssumption DEF IInv, CountersInv, Spawn, Running, Executor, Phase
<1>2. ControlType' BY DEF IInv, ControlType, Spawn, control
<1>3. \A f \in Executor : exec'[f]["started"] = exec[f]["started"]
  BY DEF IInv, CountersInv, Spawn, Executor, Phase
<1>4. JoinedInv'
  BY <1>3 DEF IInv, JoinedInv, SignalInv, RetainedInv, FirstDrainInv, OuterInv, Past,
         AfterFirstDrain, AfterCallbacks, Spawn, control, Executor
<1> QED BY <1>1, <1>2, <1>4 DEF IInv

LEMMA StartExternalInv ==
  ASSUME IInv, NEW e \in Executor, StartExternal(e)
  PROVE  IInv'
<1>1. CountersInv'
  <2>1. exec' \in [Executor -> [Phase -> Nat]]
    BY DEF IInv, CountersInv, StartExternal, Executor, Phase
  <2>2. \A f \in Executor : Running(f)' = Running(f)
    BY DEF IInv, CountersInv, StartExternal, Running, Executor, Phase
  <2> QED BY <2>1, <2>2 DEF IInv, CountersInv, StartExternal, Executor
<1>2. ControlType' BY DEF IInv, ControlType, StartExternal, control
<1>3. flight = "none" /\ ~stopping BY DEF IInv, JoinedInv, SignalInv, StartExternal
<1>4. JoinedInv'
  BY <1>3 DEF IInv, JoinedInv, SignalInv, RetainedInv, FirstDrainInv, OuterInv, Past,
         AfterFirstDrain, AfterCallbacks, StartExternal, control
<1> QED BY <1>1, <1>2, <1>4 DEF IInv

LEMMA FinishExecutionInv ==
  ASSUME IInv, NEW e \in Executor, NEW p \in Phase, FinishExecution(e, p)
  PROVE  IInv'
<1>1. CountersInv'
  BY DEF IInv, CountersInv, FinishExecution, Running, Executor, Phase
<1>2. ControlType' BY BoundsAssumption DEF IInv, ControlType, FinishExecution, control, Fault
<1>3. JoinedInv'
  BY DEF IInv, CountersInv, ControlType, JoinedInv, SignalInv, RetainedInv, FirstDrainInv, OuterInv, Past,
         AfterFirstDrain, AfterCallbacks, FinishExecution, control, Executor, Phase
<1> QED BY <1>1, <1>2, <1>3 DEF IInv

-----------------------------------------------------------------------------
(* The boot, the signal, and the flight.                                   *)

LEMMA BootInv ==
  ASSUME IInv, Listen \/ Booted
  PROVE  IInv'
<1>1. CountersInv' BY CountersRest DEF IInv, Listen, Booted, load
<1>2. ControlType' BY BoundsAssumption DEF IInv, ControlType, Listen, Booted, control, load, Fault
<1>3. JoinedInv'
  BY DEF IInv, JoinedInv, SignalInv, RetainedInv, FirstDrainInv, OuterInv, Past, Listen, Booted,
         control, load
<1> QED BY <1>1, <1>2, <1>3 DEF IInv

LEMMA SignalKeeps ==
  ASSUME IInv, Signal
  PROVE  IInv'
<1>1. CountersInv' BY CountersRest DEF IInv, Signal, load
<1>2. ControlType'
  <2>1. faults' \in 0..MaxFaults BY FaultKeeps DEF IInv, ControlType, Signal
  <2> QED BY <2>1 DEF IInv, ControlType, Signal, load, Await
<1>3. JoinedInv'
  BY DEF IInv, JoinedInv, SignalInv, RetainedInv, FirstDrainInv, OuterInv, Past, AfterFirstDrain,
         AfterCallbacks, Signal, load
<1> QED BY <1>1, <1>2, <1>3 DEF IInv

LEMMA FlightCounters ==
  ASSUME CountersInv, Flight
  PROVE  CountersInv'
<1>1. UNCHANGED <<work, exec, accepted>> /\ children' \in {0, children}
  BY DEF Flight, AwaitBoot, JoinReconcilers, JoinBackup, JoinProducers, JoinTools, JoinHeartbeats,
         HeartbeatsTimeOut, EndDrain, SealIngress, IngressClosed, JoinCallbacks, TerminateChildren,
         Dispose, CloseDatabase, Rest, load
<1> QED BY <1>1, CountersRest

LEMMA BeforeDrainsInv ==
  ASSUME IInv, AwaitBoot \/ JoinReconcilers \/ JoinBackup
  PROVE  IInv'
<1>1. CountersInv' BY FlightCounters DEF IInv, Flight
<1>2. ControlType'
  BY DEF IInv, ControlType, AwaitBoot, JoinReconcilers, JoinBackup, Go, Rest, load, Await, Drain
<1>3. JoinedInv'
  BY DEF IInv, JoinedInv, SignalInv, RetainedInv, FirstDrainInv, OuterInv, Past, AfterFirstDrain,
         AfterCallbacks, AwaitBoot, JoinReconcilers, JoinBackup, Go, Rest, load, Stage
<1> QED BY <1>1, <1>2, <1>3 DEF IInv

LEMMA NextStages ==
  /\ NextStage["startup"] = "owners" /\ NextStage["owners"] = "http"
  /\ NextStage["http"] = "plugins" /\ NextStage["plugins"] = "tools"
BY DEF NextStage

LEMMA JoinProducersInv ==
  ASSUME IInv, JoinProducers
  PROVE  IInv'
<1>1. CountersInv' BY FlightCounters DEF IInv, Flight
<1>2. /\ stage \in {"startup", "owners", "http", "plugins"} /\ flight \in {"drain1", "drain2", "drain3"}
      /\ UNCHANGED <<boot, stopping, drainFailed, work, exec, unresolved, heldLanes, children,
                     ownerFailed, ingress, sealed>>
  BY DEF JoinProducers, Drain, Rest, load
<1>3. \/ /\ stage \in retained \/ ~Pending(stage)
         /\ stage = "owners" => "owners" \in retained \/ ~ownerFailed
         /\ stage = "http" => "http" \in retained \/ "independent" \notin heldLanes
         /\ stage' = NextStage[stage] /\ flight' = flight /\ faults' = faults
         /\ retained' = IF stage = "http" THEN retained ELSE retained \cup {stage}
         /\ plugins' = IF stage = "plugins" /\ stage \notin retained THEN "down" ELSE plugins
      \/ /\ flight' = "held" /\ UNCHANGED <<stage, retained, plugins>>
         /\ Fault \/ faults' = faults
  BY <1>2 DEF JoinProducers
<1>4. stage' \in Stage /\ retained' \subseteq Stage /\ flight' \in Await
  BY <1>2, <1>3, NextStages DEF IInv, ControlType, Stage, Await
<1>5. ControlType'
  <2>1. faults' \in 0..MaxFaults BY <1>3, FaultKeeps DEF IInv, ControlType
  <2>2. plugins' \in {"up", "down"} BY <1>3 DEF IInv, ControlType
  <2> QED BY <1>2, <1>4, <2>1, <2>2 DEF IInv, ControlType
<1>6. CASE flight' = "held"
  <2>1. JoinedInv'
    BY <1>2, <1>3, <1>6 DEF IInv, JoinedInv, SignalInv, RetainedInv, FirstDrainInv, OuterInv, Past,
       AfterFirstDrain, AfterCallbacks
  <2> QED BY <1>1, <1>5, <2>1 DEF IInv
<1>7. CASE flight' # "held" /\ stage = "startup"
  <2>1. stage' = "owners" /\ retained' = retained \cup {"startup"} /\ work["startup"] = 0
        /\ UNCHANGED <<flight, plugins>>
    BY <1>3, <1>7, NextStages DEF Pending, IInv, JoinedInv, RetainedInv, CountersInv, Kind
  <2>2. JoinedInv'
    BY <1>2, <1>7, <2>1 DEF IInv, JoinedInv, SignalInv, RetainedInv, FirstDrainInv, OuterInv, Past,
       AfterFirstDrain, AfterCallbacks, Stage
  <2> QED BY <1>1, <1>5, <2>2 DEF IInv
<1>8. CASE flight' # "held" /\ stage = "owners"
  <2>1. stage' = "http" /\ retained' = retained \cup {"owners"} /\ work["owner"] = 0
        /\ ~ownerFailed /\ UNCHANGED <<flight, plugins>>
    BY <1>3, <1>8, NextStages DEF Pending, IInv, JoinedInv, RetainedInv, CountersInv, Kind
  <2>2. JoinedInv'
    BY <1>2, <1>8, <2>1 DEF IInv, JoinedInv, SignalInv, RetainedInv, FirstDrainInv, OuterInv, Past,
       AfterFirstDrain, AfterCallbacks, Stage
  <2> QED BY <1>1, <1>5, <2>2 DEF IInv
<1>9. CASE flight' # "held" /\ stage = "http"
  <2>1. "http" \notin retained BY DEF IInv, JoinedInv, RetainedInv
  <2>2. stage' = "plugins" /\ work["independent"] = 0 /\ "independent" \notin heldLanes
        /\ UNCHANGED <<flight, plugins, retained>>
    BY <1>3, <1>9, <2>1, NextStages DEF Pending, IInv, CountersInv, Kind
  <2>3. JoinedInv'
    BY <1>2, <1>9, <2>2 DEF IInv, JoinedInv, SignalInv, RetainedInv, FirstDrainInv, OuterInv, Past,
       AfterFirstDrain, AfterCallbacks, Stage
  <2> QED BY <1>1, <1>5, <2>3 DEF IInv
<1>10. CASE flight' # "held" /\ stage = "plugins"
  <2>1. /\ stage' = "tools" /\ retained' = retained \cup {"plugins"} /\ flight' = flight
        /\ work["job"] = 0 /\ exec["pluginTool"]["started"] = 0
    BY <1>3, <1>10, NextStages
       DEF Pending, IInv, JoinedInv, RetainedInv, CountersInv, Kind, Executor, Phase
  <2>2. {"startup", "owners"} \subseteq retained /\ work["independent"] = 0
    BY <1>2, <1>10 DEF IInv, JoinedInv, RetainedInv, FirstDrainInv, Past, AfterFirstDrain, AfterCallbacks
  <2>3. JoinedInv'
    BY <1>2, <1>10, <2>1, <2>2 DEF IInv, JoinedInv, SignalInv, RetainedInv, FirstDrainInv, OuterInv,
       Past, AfterFirstDrain, AfterCallbacks, Stage
  <2> QED BY <1>1, <1>5, <2>3 DEF IInv
<1> QED BY <1>2, <1>6, <1>7, <1>8, <1>9, <1>10

LEMMA JoinToolsInv ==
  ASSUME IInv, JoinTools
  PROVE  IInv'
<1>1. CountersInv' BY FlightCounters DEF IInv, Flight
<1>2. ControlType' BY DEF IInv, ControlType, JoinTools, Rest, load, Stage
<1>3. exec["tool"]["started"] = 0 /\ exec["pluginTool"]["started"] = 0
  BY DEF IInv, CountersInv, JoinTools, Pending, Running, Executor, Phase
<1>4. JoinedInv'
  BY <1>3 DEF IInv, JoinedInv, SignalInv, RetainedInv, FirstDrainInv, OuterInv, Past,
     AfterFirstDrain, AfterCallbacks, JoinTools, Rest, load, Stage, Drain
<1> QED BY <1>1, <1>2, <1>4 DEF IInv

LEMMA EndDrainInv ==
  ASSUME IInv, JoinHeartbeats \/ HeartbeatsTimeOut
  PROVE  IInv'
<1>1. CountersInv' BY FlightCounters DEF IInv, Flight
<1>2. /\ flight \in {"drain1", "drain2", "drain3"} /\ stage = "heartbeats" /\ stage' = "startup"
      /\ drainFailed' = FALSE
      /\ UNCHANGED <<boot, stopping, retained, work, exec, unresolved, heldLanes, children,
                     ownerFailed, ingress, sealed, plugins, faults>>
  BY DEF JoinHeartbeats, HeartbeatsTimeOut, EndDrain, Drain, Rest, load
<1>3. \/ flight' = "held"
      \/ /\ ~drainFailed /\ exec["heartbeat"]["started"] = 0
         /\ flight = "drain1" => flight' = "seal"
         /\ flight = "drain2" => flight' = "children"
         /\ flight = "drain3" => flight' = "resources"
  BY <1>2 DEF JoinHeartbeats, HeartbeatsTimeOut, EndDrain, AfterDrain, Pending, Running, IInv,
     CountersInv, ControlType, Executor, Phase
<1>4. ControlType' BY <1>2, <1>3 DEF IInv, ControlType, Stage, Await
<1>5. JoinedInv'
  BY <1>2, <1>3 DEF IInv, JoinedInv, SignalInv, RetainedInv, FirstDrainInv, OuterInv, Past,
     AfterFirstDrain, AfterCallbacks, Stage
<1> QED BY <1>1, <1>4, <1>5 DEF IInv

LEMMA AfterDrainsInv ==
  ASSUME IInv, SealIngress \/ IngressClosed \/ JoinCallbacks \/ Dispose \/ CloseDatabase
  PROVE  IInv'
<1>1. CountersInv' BY FlightCounters DEF IInv, Flight
<1>2. ControlType'
  <2>1. faults' \in 0..MaxFaults
    BY FaultKeeps DEF IInv, ControlType, SealIngress, IngressClosed, JoinCallbacks, Dispose, CloseDatabase
  <2>2. flight' \in Await
    BY DEF SealIngress, IngressClosed, JoinCallbacks, Dispose, CloseDatabase, Go, Await, Drain
  <2>3. ingress' \in {"unopened", "open", "closing", "closed"} /\ sealed' \in BOOLEAN
    BY DEF IInv, ControlType, SealIngress, IngressClosed, JoinCallbacks, Dispose, CloseDatabase
  <2>4. UNCHANGED <<boot, stopping, stage, retained, drainFailed, unresolved, heldLanes, ownerFailed,
                    plugins>>
    BY DEF SealIngress, IngressClosed, JoinCallbacks, Dispose, CloseDatabase, Go, Rest, load
  <2> QED BY <2>1, <2>2, <2>3, <2>4 DEF IInv, ControlType
<1>3. JoinedInv'
  BY DEF IInv, JoinedInv, SignalInv, RetainedInv, FirstDrainInv, OuterInv, Past, AfterFirstDrain,
     AfterCallbacks, SealIngress, IngressClosed, JoinCallbacks, Dispose, CloseDatabase, Go, Rest, load
<1> QED BY <1>1, <1>2, <1>3 DEF IInv

LEMMA TerminateChildrenInv ==
  ASSUME IInv, TerminateChildren
  PROVE  IInv'
<1>1. CountersInv' BY FlightCounters DEF IInv, Flight
<1>2. ControlType'
  <2>1. faults' \in 0..MaxFaults BY FaultKeeps DEF IInv, ControlType, TerminateChildren
  <2> QED BY <2>1 DEF IInv, ControlType, TerminateChildren, Go, Await, Drain
<1>3. JoinedInv'
  BY DEF IInv, JoinedInv, SignalInv, RetainedInv, FirstDrainInv, OuterInv, Past, AfterFirstDrain,
     AfterCallbacks, TerminateChildren, Go
<1> QED BY <1>1, <1>2, <1>3 DEF IInv

-----------------------------------------------------------------------------
LEMMA NextInv ==
  ASSUME IInv, [Next]_vars
  PROVE  IInv'
<1>1. CASE UNCHANGED vars
  BY <1>1 DEF IInv, CountersInv, ControlType, JoinedInv, SignalInv, RetainedInv, FirstDrainInv,
     OuterInv, Past, vars, Running
<1>2. CASE Listen \/ Booted \/ Signal BY <1>2, BootInv, SignalKeeps
<1>3. CASE Flight
  BY <1>3, BeforeDrainsInv, JoinProducersInv, JoinToolsInv, EndDrainInv, AfterDrainsInv,
     TerminateChildrenInv DEF Flight
<1>4. ASSUME NEW k \in Kind, Accept(k) \/ FinishWork(k) PROVE IInv'
  BY <1>4, AcceptInv, FinishWorkInv
<1>5. ASSUME NEW e \in Executor, \/ Spawn(e) \/ StartExternal(e)
                                 \/ \E p \in Phase : FinishExecution(e, p)
      PROVE  IInv'
  BY <1>5, SpawnInv, StartExternalInv, FinishExecutionInv
<1> QED BY <1>1, <1>2, <1>3, <1>4, <1>5 DEF Next

\* In every reachable state the counters, the kept joins and the awaits of the
\* flight are as IInv says, however work, faults and the signal fall.
THEOREM ShutdownInvariant == Spec => []IInv
<1>1. IInv /\ [Next]_vars => IInv' BY NextInv
<1> QED BY <1>1, InitInv, PTL DEF Spec

\* Every variable keeps its type: no count is negative or exceeds the work that
\* was ever accepted.
THEOREM ShutdownTypeCorrect == Spec => []TypeOK
<1>1. IInv => TypeOK
  <2> SUFFICES ASSUME IInv PROVE TypeOK OBVIOUS
  <2>1. \A k \in Kind : work[k] \in 0..MaxWork BY BoundsAssumption DEF IInv, CountersInv
  <2>2. \A e \in Executor, p \in Phase : exec[e][p] \in 0..MaxWork
    BY BoundsAssumption DEF IInv, CountersInv, Running, Phase, Executor
  <2>3. children \in 0..MaxWork
    BY BoundsAssumption DEF IInv, CountersInv, Running, Phase, Executor
  <2>4. work \in [Kind -> 0..MaxWork] BY <2>1 DEF IInv, CountersInv
  <2>5. exec \in [Executor -> [Phase -> 0..MaxWork]] BY <2>2 DEF IInv, CountersInv
  <2> QED BY <2>3, <2>4, <2>5 DEF IInv, CountersInv, ControlType, TypeOK
<1> QED BY <1>1, ShutdownInvariant, PTL

\* The database is closed under no work that was begun (index.ts:123-149): what
\* the first drain and the later joins have seen end cannot begin again.
THEOREM WorkIsDrained == Spec => []StartedWorkIsDrained
<1>1. IInv => StartedWorkIsDrained
  BY DEF IInv, JoinedInv, RetainedInv, FirstDrainInv, OuterInv, Past, AfterFirstDrain, AfterCallbacks,
     StartedWorkIsDrained, Started, Kind
<1> QED BY <1>1, ShutdownInvariant, PTL

\* The plugin workers outlive all that may call them
\* (runtime-shutdown-controller.ts:140-147), for any amount of work.
THEOREM PluginsStopLast == Spec => []PluginsOutliveTheirUsers
<1>1. IInv => PluginsOutliveTheirUsers
  BY DEF IInv, JoinedInv, RetainedInv, PluginsOutliveTheirUsers
<1> QED BY <1>1, ShutdownInvariant, PTL

\* A result without a durable disposition keeps the database open
\* (app.ts:369-383), whichever of the joins collects it.
THEOREM UnresolvedIsNotClosed == Spec => []UnresolvedHoldsDatabase
<1>1. IInv => UnresolvedHoldsDatabase
  BY DEF IInv, ControlType, JoinedInv, RetainedInv, FirstDrainInv, OuterInv, Past, AfterFirstDrain,
     AfterCallbacks, UnresolvedHoldsDatabase, HttpLane
<1> QED BY <1>1, ShutdownInvariant, PTL
=============================================================================
