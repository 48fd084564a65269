-------------------------- MODULE ServiceHostProofs --------------------------
(***************************************************************************)
(* Proofs about ServiceHost, for any plugins, timer periods and bounds.    *)
(*                                                                         *)
(* The argument: a control other than INTERROGATE reaches the handler only *)
(* after the worker's first report; the worker leaves its loop only after  *)
(* the handler has reported STOP_PENDING; and after that no control comes. *)
(* So the three threads take turns in writing the shared structure, and    *)
(* the controller exists whenever the handler calls it.                    *)
(***************************************************************************)
EXTENDS ServiceHost, TLAPS

Starting == {"none", "construct", "start"}
Looping  == {"arm", "check", "wait", "events"}
Ending   == {"clear", "unload", "close", "delete", "forget", "done"}

\* The types the argument needs.
HostTypes ==
  /\ scm \in Protocol!States
  /\ status \in Protocol!States \cup {"none"}
  /\ rep \in [Threads -> Protocol!States \cup {"none"}]
  /\ gRunning \in BOOLEAN /\ signalled \in BOOLEAN /\ paused \in BOOLEAN
  /\ controller \in {"null", "live", "dangling"}
  /\ mainPc \in {"register", "createEvent", "createThread", "join", "closeEvent", "returned"}
  /\ handlerPc \in {"idle", "entry", "flag", "signal", "test", "call", "final", "return"}
  /\ workerPc \in Starting \cup Looping \cup Ending
  /\ control \in Controls

\* Before the worker exists only ServiceMain reports.
MainInv ==
  /\ mainPc \in {"register", "createEvent", "createThread"} =>
       workerPc = "none" /\ scm = "START_PENDING"
  /\ mainPc = "register" => status = "none" /\ handlerPc = "idle" /\ rep["main"] = "none"
  /\ mainPc \in {"createEvent", "createThread"} => status = "START_PENDING"
  /\ mainPc = "createThread" => rep["main"] = "none"
  /\ rep["main"] # "none" => workerPc = "none"
  /\ workerPc = "none" =>
       /\ scm \in {"START_PENDING", "STOPPED"}
       /\ status \in {"none", "START_PENDING", "STOPPED"}

\* Until the worker has reported RUNNING the manager still reads START_PENDING,
\* and the handler does nothing.
StartInv ==
  /\ workerPc \in {"construct", "start"} => scm = "START_PENDING" /\ status = "START_PENDING"
  /\ workerPc \in Starting => rep["worker"] = "none"
  /\ rep["worker"] = "RUNNING" => workerPc = "arm" /\ scm = "START_PENDING"
  /\ rep["worker"] \in {"none", "RUNNING", "STOPPED"}
  /\ workerPc \in Starting \/ rep["worker"] = "RUNNING" =>
       /\ gRunning
       /\ handlerPc \in {"idle", "entry"}
       /\ handlerPc = "entry" => control = "INTERROGATE"

\* Where the handler is tells which control it serves and what it has reported.
HandlerInv ==
  /\ handlerPc \in {"idle", "entry", "signal", "test", "call"} => rep["handler"] = "none"
  /\ handlerPc = "final" /\ control = "STOP" => rep["handler"] = "none"
  /\ handlerPc \notin {"idle", "entry"} => control # "INTERROGATE"
  /\ handlerPc = "signal" => control = "STOP"
  /\ handlerPc \in {"test", "call"} => control \in {"PAUSE", "CONTINUE"}
  /\ handlerPc = "flag" => gRunning /\ status = Pending(control)
  /\ gRunning /\ handlerPc \in {"test", "call"} => status = Pending(control)
  /\ gRunning /\ handlerPc = "final" => status \in {Pending(control), Final(control)}
  /\ gRunning /\ handlerPc = "return" => status = Final(control)
  /\ gRunning /\ control = "STOP" => handlerPc \in {"idle", "entry", "flag"}
  /\ gRunning /\ handlerPc \in {"idle", "entry"} /\ workerPc \notin Starting =>
       status \in {"RUNNING", "PAUSED"}

\* The worker ends only after a stop, and a stop is the last control.
StopInv ==
  /\ signalled => ~gRunning
  /\ workerPc \in Ending => ~gRunning
  /\ rep["worker"] = "STOPPED" => workerPc = "delete"
  /\ ~gRunning =>
       /\ control = "STOP"
       /\ handlerPc \in {"signal", "final", "return", "idle"}
       /\ scm \in {"STOP_PENDING", "STOPPED"}
       /\ status \in {"STOP_PENDING", "STOPPED"}
       /\ handlerPc \in {"return", "idle"} => status = "STOPPED"
       /\ handlerPc \in {"return", "idle"} /\ rep["handler"] = "none" => scm = "STOPPED"

\* What the manager knows is the structure, or one step of the protocol behind.
Edges == {<<"START_PENDING", "RUNNING">>, <<"START_PENDING", "STOPPED">>,
          <<"RUNNING", "PAUSE_PENDING">>, <<"PAUSE_PENDING", "PAUSED">>,
          <<"PAUSED", "CONTINUE_PENDING">>, <<"CONTINUE_PENDING", "RUNNING">>,
          <<"RUNNING", "STOP_PENDING">>, <<"STOP_PENDING", "STOPPED">>}

LagInv ==
  /\ ReportsNotClobbered
  /\ scm = status \/ <<scm, status>> \in Edges \/ status = "none"
  /\ (\A t \in Threads : rep[t] = "none") => scm = status \/ status = "none"
  /\ status = "none" => mainPc \in {"register", "returned"} /\ workerPc = "none"
                        /\ \A t \in Threads : rep[t] = "none"

\* The pointer is valid from construction to deletion.
PointerInv ==
  /\ workerPc \in {"none", "construct"} => controller = "null"
  /\ workerPc \in {"start"} \cup Looping => controller = "live"

\* The controller pauses and resumes in step with the reports.
PauseInv ==
  gRunning /\ workerPc \notin Starting =>
    /\ running
    /\ handlerPc \in {"idle", "entry"} => (paused <=> status = "PAUSED")
    /\ handlerPc \in {"flag", "test", "call"} => (paused <=> control = "CONTINUE")
    /\ handlerPc \in {"final", "return"} => (paused <=> control = "PAUSE")

HostInv ==
  /\ HostTypes /\ MainInv /\ StartInv /\ HandlerInv
  /\ StopInv /\ LagInv /\ PointerInv /\ PauseInv

-----------------------------------------------------------------------------
\* The initial states satisfy the invariant.
LEMMA InitHolds == HostInit => HostInv
BY DEF HostInit, ControllerInit, HostInv, HostTypes, MainInv, StartInv, HandlerInv,
       StopInv, LagInv, PointerInv, PauseInv, ReportsNotClobbered, Threads, Controls,
       Protocol!States, Starting, Looping, Ending, Edges

\* Every step of ServiceMain keeps the invariant.
LEMMA MainHolds == HostInv /\ Main => HostInv'
<1>. USE DEF HostInv, HostTypes, MainInv, StartInv, HandlerInv, StopInv, LagInv,
            PointerInv, PauseInv, ReportsNotClobbered, Threads, Controls,
            Protocol!States, Starting, Looping, Ending, Edges
<1>. USE DEF MainStep, At, BeginReport, reports, flags, controllerVars, lifecycle
<1>1. HostInv /\ RegisterFails => HostInv'
  BY DEF RegisterFails
<1>2. HostInv /\ Register => HostInv'
  BY DEF Register
<1>3. HostInv /\ CreateEvent => HostInv'
  BY DEF CreateEvent
<1>4. HostInv /\ CreateEventFails => HostInv'
  BY DEF CreateEventFails
<1>5. HostInv /\ CreateThread => HostInv'
  BY DEF CreateThread
<1>6. HostInv /\ CreateThreadFails => HostInv'
  BY DEF CreateThreadFails
<1>7. HostInv /\ JoinWorker => HostInv'
  BY DEF JoinWorker
<1>8. HostInv /\ CloseEvent => HostInv'
  BY DEF CloseEvent
<1>. QED
  BY <1>1, <1>2, <1>3, <1>4, <1>5, <1>6, <1>7, <1>8 DEF Main

\* Every step of the control handler keeps the invariant.
LEMMA HandlerHolds == HostInv /\ Handler => HostInv'
<1>. USE DEF HostInv, HostTypes, MainInv, StartInv, HandlerInv, StopInv, LagInv,
            PointerInv, PauseInv, ReportsNotClobbered, Threads, Controls,
            Protocol!States, Starting, Looping, Ending, Edges
<1>. USE DEF HandlerStep, At, BeginReport, reports, flags, controllerVars,
            lifecycle, Pending, Final
<1>1. HostInv /\ IgnoreControl => HostInv'
  BY DEF IgnoreControl, ValidIn
<1>2. HostInv /\ AcceptControl => HostInv'
  BY DEF AcceptControl, ValidIn
<1>3. HostInv /\ SetFlag => HostInv'
  <2>. SUFFICES ASSUME HostInv, SetFlag PROVE HostInv'
    OBVIOUS
  <2>. USE DEF SetFlag
  <2>1. CASE control = "STOP"
    <3>1. scm = "STOP_PENDING"
      BY <2>1
    <3>. QED
      BY <2>1, <3>1
  <2>2. CASE control # "STOP"
    BY <2>2
  <2>. QED
    BY <2>1, <2>2
<1>4. HostInv /\ SignalEvent => HostInv'
  BY DEF SignalEvent
<1>5. HostInv /\ TestController => HostInv'
  BY DEF TestController
<1>6. HostInv /\ CallController => HostInv'
  BY DEF CallController
<1>7. HostInv /\ ReportFinal => HostInv'
  BY DEF ReportFinal
<1>8. HostInv /\ ReturnFromHandler => HostInv'
  BY DEF ReturnFromHandler
<1>. QED
  BY <1>1, <1>2, <1>3, <1>4, <1>5, <1>6, <1>7, <1>8 DEF Handler

\* Every step of the worker keeps the invariant.
LEMMA WorkerHolds == HostInv /\ Worker => HostInv'
<1>. USE DEF HostInv, HostTypes, MainInv, StartInv, HandlerInv, StopInv, LagInv,
            PointerInv, PauseInv, ReportsNotClobbered, Threads, Controls,
            Protocol!States, Starting, Looping, Ending, Edges
<1>. USE DEF WorkerStep, At, BeginReport, reports, flags, controllerVars, lifecycle
<1>1. HostInv /\ Construct => HostInv'
  BY DEF Construct
<1>2. HostInv /\ WorkerStart => HostInv'
  <2>. SUFFICES ASSUME HostInv, WorkerStart PROVE HostInv'
    OBVIOUS
  <2>1. running' = TRUE /\ paused' = FALSE
    BY DEF WorkerStart, OpenChannels
  <2>. USE <2>1 DEF WorkerStart
  <2>2. HostTypes'
    OBVIOUS
  <2>3. MainInv'
    OBVIOUS
  <2>4. StartInv'
    OBVIOUS
  <2>5. HandlerInv'
    OBVIOUS
  <2>6. StopInv'
    OBVIOUS
  <2>7. LagInv'
    OBVIOUS
  <2>8. PointerInv'
    OBVIOUS
  <2>9. PauseInv'
    OBVIOUS
  <2>. QED
    BY <2>2, <2>3, <2>4, <2>5, <2>6, <2>7, <2>8, <2>9
<1>3. HostInv /\ WorkerArm => HostInv'
  BY DEF WorkerArm
<1>4. HostInv /\ CheckRunning => HostInv'
  BY DEF CheckRunning
<1>5. HostInv /\ StopSignalled => HostInv'
  BY DEF StopSignalled
<1>6. HostInv /\ WaitTimesOut => HostInv'
  BY DEF WaitTimesOut, Elapse
<1>7. HostInv /\ (\E t \in due : ServeTimer(t)) => HostInv'
  BY DEF ServeTimer, Timeout
<1>8. HostInv /\ (\E e \in inflight : ServeReply(e)) => HostInv'
  BY DEF ServeReply, ReplyFinished
<1>9. HostInv /\ EventsProcessed => HostInv'
  BY DEF EventsProcessed
<1>10. HostInv /\ WorkerClear => HostInv'
  BY DEF WorkerClear, ClearRunning
<1>11. HostInv /\ WorkerUnload => HostInv'
  BY DEF WorkerUnload
<1>12. HostInv /\ WorkerClose => HostInv'
  BY DEF WorkerClose
<1>13. HostInv /\ DeleteController => HostInv'
  BY DEF DeleteController
<1>14. HostInv /\ ForgetController => HostInv'
  BY DEF ForgetController
<1>. QED
  BY <1>1, <1>2, <1>3, <1>4, <1>5, <1>6, <1>7, <1>8, <1>9, <1>10, <1>11, <1>12,
     <1>13, <1>14 DEF Worker

\* So does the delivery of a control.
LEMMA DeliveryHolds ==
  ASSUME NEW c \in Controls, HostInv, DeliverControl(c) PROVE HostInv'
<1>. USE DEF HostInv, HostTypes, MainInv, StartInv, HandlerInv, StopInv, LagInv,
            PointerInv, PauseInv, ReportsNotClobbered, Threads, Controls,
            Protocol!States, Starting, Looping, Ending, Edges
<1>. USE DEF DeliverControl, HandlerStep, Accepted, At, reports, flags,
            controllerVars, lifecycle
<1>. QED
  OBVIOUS

\* So does the end of a report.
LEMMA ReportHolds ==
  ASSUME NEW t \in Threads, HostInv, EndReport(t) PROVE HostInv'
<1>. USE DEF HostInv, HostTypes, MainInv, StartInv, HandlerInv, StopInv, LagInv,
            PointerInv, PauseInv, ReportsNotClobbered, Threads, Controls,
            Protocol!States, Starting, Looping, Ending, Edges
<1>. USE DEF EndReport, pcs, flags, controllerVars, lifecycle
<1>. QED
  OBVIOUS

\* And so does every step of the specification.
LEMMA NextHolds == HostInv /\ [HostNext]_hostVars => HostInv'
<1>. USE DEF HostInv, HostTypes, MainInv, StartInv, HandlerInv, StopInv, LagInv,
            PointerInv, PauseInv, ReportsNotClobbered, Threads, Controls,
            Protocol!States, Starting, Looping, Ending, Edges
<1>. USE DEF reports, flags, pcs, controllerVars, lifecycle
<1>1. HostInv /\ ExitProcess => HostInv'
  BY DEF ExitProcess
<1>2. HostInv /\ UNCHANGED hostVars => HostInv'
  BY DEF hostVars
<1>. QED
  BY <1>1, <1>2, MainHolds, HandlerHolds, WorkerHolds, DeliveryHolds, ReportHolds
  DEF HostNext

-----------------------------------------------------------------------------
\* The invariant holds in every reachable state.
THEOREM HostInvariant == HostSpec => []HostInv
<1>. QED
  BY InitHolds, NextHolds, PTL DEF HostSpec

\* Whenever the handler calls through g_controller, which it tested without a
\* lock some steps before, the worker has not deleted the controller.
THEOREM CallsAreSafe == HostSpec => []NoDanglingCall
<1>1. HostInv => NoDanglingCall
  BY DEF HostInv, HostTypes, HandlerInv, StartInv, StopInv, PointerInv, NoDanglingCall,
         Starting, Looping, Ending
<1>. QED
  BY <1>1, HostInvariant, PTL

\* No thread overwrites g_serviceStatus while another is about to send it.
THEOREM ReportsAreSent == HostSpec => []ReportsNotClobbered
<1>1. HostInv => ReportsNotClobbered
  BY DEF HostInv, LagInv
<1>. QED
  BY <1>1, HostInvariant, PTL

\* Between two controls the controller is paused exactly if the manager was told so.
THEOREM PauseAgrees == HostSpec => []PauseAgreesWithScm
<1>1. HostInv => PauseAgreesWithScm
  BY DEF HostInv, HostTypes, MainInv, StartInv, HandlerInv, StopInv, LagInv, PauseInv,
         PauseAgreesWithScm, Edges, Starting, Looping, Ending
<1>. QED
  BY <1>1, HostInvariant, PTL

\* What the three threads report, merged, is a run of ServiceProtocol's next-state
\* relation: the safety part of HostFollowsProtocol.
THEOREM HostRefinesProtocol ==
  HostSpec => Protocol!ProtocolInit /\ [][Protocol!ProtocolNext]_scm
<1>1. HostInit => Protocol!ProtocolInit
  BY DEF HostInit, Protocol!ProtocolInit
<1>2. HostInv /\ [HostNext]_hostVars => [Protocol!ProtocolNext]_scm
  <2>. SUFFICES ASSUME HostInv, [HostNext]_hostVars, scm' # scm PROVE Protocol!ProtocolNext
    OBVIOUS
  <2>1. PICK t \in Threads : EndReport(t)
    BY DEF HostNext, hostVars, reports, Main, MainStep, Handler, HandlerStep, Worker,
           WorkerStep, BeginReport, DeliverControl, ExitProcess,
           RegisterFails, Register, CreateEvent, CreateEventFails, CreateThread,
           CreateThreadFails, JoinWorker, CloseEvent, IgnoreControl, AcceptControl,
           SetFlag, SignalEvent, TestController, CallController, ReportFinal,
           ReturnFromHandler, Construct, WorkerStart, WorkerArm, CheckRunning,
           StopSignalled, WaitTimesOut, ServeTimer, ServeReply, EventsProcessed,
           WorkerClear, WorkerUnload, WorkerClose, DeleteController, ForgetController
  <2>2. <<scm, scm'>> \in Edges
    BY <2>1 DEF EndReport, HostInv, LagInv
  <2>. QED
    BY <2>2 DEF Edges, Protocol!ProtocolNext, Protocol!Goto, Protocol!StartCompletes,
       Protocol!StartFails, Protocol!PauseBegins, Protocol!ContinueBegins,
       Protocol!StopBegins, Protocol!ControlCompletes
<1>. QED
  BY <1>1, <1>2, HostInvariant, PTL DEF HostSpec

-----------------------------------------------------------------------------
(* The controller inside the host: its types, and its promise to the clients *)

\* What the worker's position tells of the controller's objects and timers.
ChannelShape ==
  /\ running \in BOOLEAN /\ networkManager \in BOOLEAN /\ serviceSource \in BOOLEAN
  /\ serviceStatus \in {"", "Running", "Paused"}
  /\ ~serviceSource => serviceStatus = ""
  /\ loadedPlugins \subseteq Plugins
  /\ inflight \subseteq Endpoints
  /\ workerPc \in Starting => ~running /\ ~serviceSource /\ ~paused
  /\ workerPc \in Looping => running /\ serviceSource

TimerShape ==
  /\ starts = IF workerPc \in Starting \cup {"arm"} THEN 0 ELSE 1
  /\ watchdogTimer \in {0, 1}
  /\ watchdogMissed \in {0, 1, 2} /\ stalls \in {0, 1, 2} /\ tripped \in BOOLEAN
  /\ armed \subseteq Kinds \X (1..starts)
  /\ due \subseteq armed
  /\ left \in [armed -> Nat]

RestShape ==
  /\ gPaused \in BOOLEAN
  /\ event \in {"null", "open", "closed"}
  /\ process \in {"running", "exited"}

HostShape == ChannelShape /\ TimerShape /\ RestShape

\* The four timers of one start().
LEMMA ArmShape ==
  ASSUME HostShape, WorkerArm PROVE TimerShape'
<1>1. starts = 0 /\ starts' = 1 /\ workerPc' = "check" /\ armed = {} /\ due = {}
  <2>1. starts = 0 /\ workerPc' = "check"
    BY DEF WorkerArm, WorkerStep, At, HostShape, TimerShape
  <2>2. 1..0 = {}
    OBVIOUS
  <2>3. armed = {} /\ due = {}
    BY <2>1, <2>2 DEF HostShape, TimerShape
  <2>. QED
    BY <2>1, <2>3 DEF WorkerArm, ArmTimers
<1>2. /\ armed' = Kinds \X {1} /\ due' = {} /\ watchdogTimer' = 1 /\ watchdogMissed' = 0
      /\ stalls' = 0 /\ tripped' = FALSE
      /\ \E first \in Phases : left' = [t \in Kinds \X {1} |-> first[t[1]]]
  <2>1. /\ armed' = armed \cup (Kinds \X {1}) /\ due' = due
        /\ watchdogTimer' = 1 /\ watchdogMissed' = 0
        /\ stalls' = 0 /\ tripped' = FALSE
        /\ \E first \in Phases :
             left' = [t \in armed \cup (Kinds \X {1}) |->
                        IF t \in Kinds \X {1} THEN first[t[1]] ELSE left[t]]
    BY <1>1 DEF WorkerArm, ArmTimers
  <2>2. armed \cup (Kinds \X {1}) = Kinds \X {1}
    BY <1>1
  <2>3. PICK first \in Phases :
          left' = [t \in Kinds \X {1} |-> IF t \in Kinds \X {1} THEN first[t[1]] ELSE left[t]]
    BY <2>1, <2>2
  <2>4. left' = [t \in Kinds \X {1} |-> first[t[1]]]
    BY <2>3
  <2>. QED
    BY <1>1, <2>1, <2>2, <2>4
<1>3. left' \in [armed' -> Nat]
  <2>1. \A first \in Phases : \A k \in Kinds : first[k] \in Nat
    BY ControllerAssumption DEF Phases, Kinds
  <2>. QED
    BY <1>2, <2>1
<1>4. 1..1 = {1}
  OBVIOUS
<1>. QED
  BY <1>1, <1>2, <1>3, <1>4 DEF TimerShape, Starting

\* Time passes in the worker's wait.
LEMMA ElapseShape ==
  ASSUME HostShape, NEW d \in 1..MaxElapsed, Elapse(d), UNCHANGED <<starts, armed>>
  PROVE  left' \in [armed' -> Nat] /\ due' \subseteq armed' /\ stalls' \in {0, 1, 2}
<1>1. d \in Nat
  BY ControllerAssumption
<1>2. \A t \in armed : left[t] \in Nat /\ Interval[t[1]] \in Nat \ {0}
  BY ControllerAssumption DEF HostShape, TimerShape
<1>3. \A t \in armed : left[t] <= d => Interval[t[1]] - ((d - left[t]) % Interval[t[1]]) \in Nat
  <2>1. \A p \in Nat \ {0}, l \in Nat : l <= d => p - ((d - l) % p) \in Nat
    BY <1>1
  <2>. QED
    BY <1>2, <2>1
<1>4. \A t \in armed :
        (IF left[t] > d THEN left[t] - d
         ELSE Interval[t[1]] - ((d - left[t]) % Interval[t[1]])) \in Nat
  BY <1>1, <1>2, <1>3
<1>5. left' \in [armed' -> Nat]
  BY <1>4, Zenon DEF Elapse
<1>6. stalls' \in {0, 1, 2}
  BY DEF Elapse, HostShape, TimerShape
<1>. QED
  BY <1>5, <1>6 DEF Elapse

\* A timeout is served while the controller runs and its source is open.
LEMMA TimeoutShape ==
  ASSUME HostShape, NEW t \in due, Timeout(t), running, serviceSource
  PROVE  /\ serviceStatus' \in {"", "Running", "Paused"} /\ inflight' \subseteq Endpoints
         /\ watchdogMissed' \in {0, 1, 2} /\ tripped' \in BOOLEAN
         /\ UNCHANGED <<running, paused, networkManager, serviceSource, loadedPlugins>>
<1>1. UNCHANGED <<running, paused, networkManager, serviceSource, loadedPlugins>>
  BY DEF Timeout, lifecycle, sendHeartbeat, sendPluginStatus, pushMetricsToSource, watchdogTick
<1>2. inflight' \subseteq Endpoints
  BY DEF Timeout, sendHeartbeat, sendPluginStatus, pushMetricsToSource, watchdogTick,
         Post, Endpoints, HostShape, ChannelShape
<1>3. serviceStatus' \in {"", "Running", "Paused"}
  BY DEF Timeout, sendHeartbeat, sendPluginStatus, pushMetricsToSource, watchdogTick,
         statusString, HostShape, ChannelShape
<1>4. CASE watchdogTick
  <2>1. watchdogMissed' \in {0, 1, 2}
    BY <1>4 DEF watchdogTick, MissLimit, HostShape, TimerShape
  <2>2. tripped' \in BOOLEAN
    BY <1>4, Zenon DEF watchdogTick, HostShape, TimerShape
  <2>. QED
    BY <1>1, <1>2, <1>3, <2>1, <2>2
<1>5. CASE sendHeartbeat \/ sendPluginStatus \/ pushMetricsToSource
  BY <1>1, <1>2, <1>3, <1>5 DEF sendHeartbeat, sendPluginStatus, pushMetricsToSource,
     watchdog, HostShape, TimerShape
<1>. QED
  BY <1>4, <1>5 DEF Timeout

\* The initial states have the shape.
LEMMA InitShape == HostInit => HostShape
<1>1. 1..0 = {}
  OBVIOUS
<1>. QED
  BY <1>1 DEF HostInit, ControllerInit, HostShape, ChannelShape, TimerShape, RestShape,
     Starting, Looping

\* A step that leaves the controller alone keeps it, if the worker stays in its phase
\* or leaves its loop.
LEMMA SameShape ==
  ASSUME HostShape, UNCHANGED controllerVars, RestShape',
         workerPc' \in Starting => workerPc \in Starting,
         workerPc' \in Looping => workerPc \in Looping,
         workerPc' \in Starting \cup {"arm"} <=> workerPc \in Starting \cup {"arm"}
  PROVE  HostShape'
BY DEF HostShape, ChannelShape, TimerShape, controllerVars, lifecycle, channels, timers, watchdog

\* Every step of the worker keeps it.
LEMMA WorkerShape == HostInv /\ HostShape /\ Worker => HostShape'
<1>. SUFFICES ASSUME HostInv, HostShape, Worker PROVE HostShape'
  OBVIOUS
<1>. USE DEF WorkerStep, At, BeginReport, reports, flags, controllerVars, lifecycle,
            channels, timers, watchdog
<1>. USE DEF HostShape, RestShape, Starting, Looping
<1>1. CASE Construct \/ CheckRunning \/ StopSignalled \/ EventsProcessed \/ ForgetController
  BY <1>1, SameShape DEF Construct, CheckRunning, StopSignalled, EventsProcessed,
     ForgetController
<1>2. CASE WorkerStart
  <2>1. PICK ok \in SUBSET Plugins : OpenChannels(ok)
    BY <1>2 DEF WorkerStart
  <2>2. ChannelShape'
    BY <1>2, <2>1 DEF WorkerStart, OpenChannels, ChannelShape, Endpoints
  <2>. QED
    BY <1>2, <2>2 DEF WorkerStart, TimerShape
<1>3. CASE WorkerArm
  BY <1>3, ArmShape DEF WorkerArm, ChannelShape
<1>4. CASE WaitTimesOut
  <2>1. PICK d \in 1..MaxElapsed : Elapse(d)
    BY <1>4 DEF WaitTimesOut
  <2>2. UNCHANGED <<running, paused, channels, starts, armed, watchdogTimer, watchdogMissed, tripped>>
    BY <2>1 DEF Elapse
  <2>. QED
    BY <1>4, <2>1, <2>2, ElapseShape DEF WaitTimesOut, ChannelShape, TimerShape
<1>5. CASE \E t \in due : ServeTimer(t)
  <2>1. PICK t \in due : ServeTimer(t)
    BY <1>5
  <2>2. running /\ serviceSource /\ workerPc' = workerPc
    BY <2>1 DEF ServeTimer, ChannelShape
  <2>3. UNCHANGED <<starts, armed, left, watchdogTimer, stalls>> /\ due' \subseteq due
    BY <2>1 DEF ServeTimer, Timeout
  <2>. QED
    BY <2>1, <2>2, <2>3, TimeoutShape DEF ServeTimer, ChannelShape, TimerShape
<1>6. CASE \E e \in inflight : ServeReply(e)
  <2>1. PICK e \in inflight : ServeReply(e)
    BY <1>6
  <2>. QED
    BY <2>1 DEF ServeReply, ReplyFinished, ChannelShape, TimerShape
<1>7. CASE WorkerClear \/ WorkerUnload
  <2>1. /\ UNCHANGED <<paused, networkManager, serviceSource, serviceStatus, inflight>>
        /\ running' \in {running, FALSE} /\ loadedPlugins' \in {loadedPlugins, {}}
        /\ workerPc' \in {"unload", "close"}
    BY <1>7 DEF WorkerClear, ClearRunning, WorkerUnload, UnloadPlugins
  <2>2. ChannelShape'
    BY <2>1 DEF ChannelShape
  <2>3. UNCHANGED <<starts, armed, left, due, watchdogTimer, watchdogMissed, tripped, stalls>>
    BY <1>7 DEF WorkerClear, WorkerUnload
  <2>4. starts = 1
    BY <1>7 DEF WorkerClear, WorkerUnload, TimerShape
  <2>5. TimerShape'
    BY <2>1, <2>3, <2>4 DEF TimerShape
  <2>6. RestShape'
    BY <1>7 DEF WorkerClear, WorkerUnload
  <2>. QED
    BY <2>2, <2>5, <2>6
<1>8. CASE WorkerClose
  <2>1. /\ armed' \subseteq armed /\ due' \subseteq armed' /\ left' \in [armed' -> Nat]
        /\ watchdogTimer' = 0
    BY <1>8 DEF WorkerClose, CloseChannels, TimerShape
  <2>. QED
    BY <1>8, <2>1 DEF WorkerClose, CloseChannels, ChannelShape, TimerShape
<1>9. CASE DeleteController
  BY <1>9 DEF DeleteController, ChannelShape, TimerShape
<1>. QED
  BY <1>1, <1>2, <1>3, <1>4, <1>5, <1>6, <1>7, <1>8, <1>9 DEF Worker

\* The other threads touch only m_paused, and that while the worker loops.
LEMMA OthersShape ==
  ASSUME HostInv, HostShape, \/ Main \/ Handler \/ \E c \in Controls : DeliverControl(c)
                             \/ \E t \in Threads : EndReport(t)
                             \/ ExitProcess \/ UNCHANGED hostVars
  PROVE  HostShape'
<1>. USE DEF MainStep, HandlerStep, At, BeginReport, reports, flags, pcs, controllerVars,
            lifecycle, channels, timers, watchdog
<1>1. CASE Main
  <2>1. UNCHANGED <<controllerVars, gPaused, process>>
    BY <1>1 DEF Main, RegisterFails, Register, CreateEvent, CreateEventFails, CreateThread,
       CreateThreadFails, JoinWorker, CloseEvent
  <2>2. event' \in {event, "open", "closed"}
    BY <1>1 DEF Main, RegisterFails, Register, CreateEvent, CreateEventFails, CreateThread,
       CreateThreadFails, JoinWorker, CloseEvent
  <2>3. RestShape'
    BY <2>1, <2>2 DEF HostShape, RestShape
  <2>4. workerPc' = workerPc \/ (workerPc = "none" /\ workerPc' = "construct")
    <3>1. CASE CreateThread
      BY <3>1 DEF CreateThread, HostInv, MainInv
    <3>2. CASE ~CreateThread
      BY <1>1, <3>2 DEF Main, RegisterFails, Register, CreateEvent, CreateEventFails,
         CreateThreadFails, JoinWorker, CloseEvent
    <3>. QED
      BY <3>1, <3>2
  <2>. QED
    BY <2>1, <2>3, <2>4, SameShape DEF Starting, Looping
<1>2. CASE CallController
  <2>1. workerPc \notin Starting
    BY <1>2 DEF CallController, HostInv, HostTypes, StartInv
  <2>. QED
    BY <1>2, <2>1 DEF CallController, HostShape, ChannelShape, TimerShape, RestShape, Starting
<1>3. CASE Handler /\ ~CallController
  <2>1. UNCHANGED <<controllerVars, workerPc, event, process>>
    BY <1>3 DEF Handler, IgnoreControl, AcceptControl, SetFlag, SignalEvent, TestController,
       ReportFinal, ReturnFromHandler
  <2>2. gPaused' \in BOOLEAN
    BY <1>3 DEF Handler, IgnoreControl, AcceptControl, SetFlag, SignalEvent, TestController,
       ReportFinal, ReturnFromHandler, HostShape, RestShape
  <2>. QED
    BY <2>1, <2>2, SameShape DEF HostShape, RestShape
<1>4. CASE \/ \E c \in Controls : DeliverControl(c)
           \/ \E t \in Threads : EndReport(t)
           \/ ExitProcess \/ UNCHANGED hostVars
  BY <1>4, SameShape DEF DeliverControl, EndReport, ExitProcess, hostVars, HostShape, RestShape
<1>. QED
  BY <1>1, <1>2, <1>3, <1>4

LEMMA NextShape == HostInv /\ HostShape /\ [HostNext]_hostVars => HostShape'
BY WorkerShape, OthersShape DEF HostNext

\* The shape holds in every reachable state.
THEOREM HostKeepsShape == HostSpec => []HostShape
<1>. QED
  BY InitShape, NextShape, HostInvariant, PTL DEF HostSpec

\* The types of the host, of the controller inside it and of its timers, also
\* while the worker tears them down.
THEOREM HostTypeCorrect == HostSpec => []HostTypeOK
<1>1. HostInv /\ HostShape => HostTypeOK
  <2>. SUFFICES ASSUME HostInv, HostShape PROVE HostTypeOK
    OBVIOUS
  <2>1. starts \in 0..MaxStarts /\ watchdogTimer \in 0..MaxStarts /\ 1..starts \subseteq 1..MaxStarts
    <3>1. starts \in {0, 1} /\ watchdogTimer \in {0, 1} /\ MaxStarts \in Nat /\ MaxStarts >= 1
      BY ControllerAssumption DEF HostShape, TimerShape
    <3>. QED
      BY <3>1
  <2>2. armed \subseteq Kinds \X (1..MaxStarts)
    BY <2>1 DEF HostShape, TimerShape
  <2>3. watchdogMissed \in 0..(MissLimit - 1) /\ stalls \in 0..2
    BY DEF HostShape, TimerShape, MissLimit
  <2>4. ControllerTypeOK
    BY <2>1, <2>2, <2>3 DEF HostInv, HostTypes, HostShape, ChannelShape, TimerShape,
       ControllerTypeOK
  <2>. QED
    BY <2>4 DEF HostInv, HostTypes, HostShape, RestShape, HostTypeOK, Starting, Looping, Ending
<1>. QED
  BY <1>1, HostInvariant, HostKeepsShape, PTL

\* Inside the host pause() and resume() come from another thread and stop() is
\* several steps; the clients of the source still get what SourceProtocol promises.
THEOREM HostRefinesSource == HostSpec => OffersSource
<1>. DEFINE seen == <<serviceSource, paused, serviceStatus>>
<1>1. HostInit => Source!SourceInit
  BY DEF HostInit, ControllerInit, Source!SourceInit
<1>2. HostInv /\ HostShape /\ [HostNext]_hostVars => [Source!SourceNext]_seen
  <2>. SUFFICES ASSUME HostInv, HostShape, [HostNext]_hostVars
                PROVE  Source!SourceNext \/ UNCHANGED seen
    OBVIOUS
  <2>. USE DEF controllerVars, lifecycle, channels
  <2>1. CASE Main
    BY <2>1 DEF Main, MainStep, RegisterFails, Register, CreateEvent, CreateEventFails,
       CreateThread, CreateThreadFails, JoinWorker, CloseEvent
  <2>2. CASE Handler /\ ~CallController
    BY <2>2 DEF Handler, IgnoreControl, AcceptControl, SetFlag, SignalEvent, TestController,
       ReportFinal, ReturnFromHandler
  <2>3. CASE CallController
    <3>1. workerPc \in Looping
      BY <2>3 DEF CallController, HandlerStep, At, HostInv, HostTypes, StartInv, StopInv
    <3>2. serviceSource
      BY <3>1 DEF HostShape, ChannelShape
    <3>. QED
      BY <2>3, <3>2 DEF CallController, HostInv, HostTypes, Source!SourceNext, Source!Switch
  <2>4. CASE WorkerStart
    <3>1. PICK ok \in SUBSET Plugins : OpenChannels(ok)
      BY <2>4 DEF WorkerStart
    <3>2. ~serviceSource
      BY <2>4 DEF WorkerStart, WorkerStep, At, HostShape, ChannelShape, Starting
    <3>. QED
      BY <3>1, <3>2 DEF OpenChannels, Source!SourceNext, Source!Open
  <2>5. CASE \E t \in due : ServeTimer(t)
    <3>1. PICK t \in due : ServeTimer(t)
      BY <2>5
    <3>2. running /\ serviceSource
      BY <3>1 DEF ServeTimer, WorkerStep, At, HostShape, ChannelShape, Looping
    <3>. QED
      BY <3>1, <3>2 DEF ServeTimer, Timeout, sendHeartbeat, sendPluginStatus,
         pushMetricsToSource, watchdogTick, statusString, Source!SourceNext, Source!Publish,
         Source!Mode
  <2>6. CASE WorkerClose
    BY <2>6 DEF WorkerClose, CloseChannels, HostShape, ChannelShape, Source!SourceNext,
       Source!Close
  <2>7. CASE \/ Construct \/ WorkerArm \/ CheckRunning \/ StopSignalled \/ WaitTimesOut
             \/ (\E e \in inflight : ServeReply(e)) \/ EventsProcessed
             \/ WorkerClear \/ WorkerUnload \/ DeleteController \/ ForgetController
    BY <2>7 DEF Construct, WorkerArm, CheckRunning, StopSignalled, WaitTimesOut, Elapse,
       ServeReply, ReplyFinished, EventsProcessed, WorkerClear, WorkerUnload,
       DeleteController, ForgetController
  <2>8. CASE \/ \E c \in Controls : DeliverControl(c)
             \/ \E t \in Threads : EndReport(t)
             \/ ExitProcess \/ UNCHANGED hostVars
    BY <2>8 DEF DeliverControl, EndReport, ExitProcess, hostVars
  <2>. QED
    BY <2>1, <2>2, <2>3, <2>4, <2>5, <2>6, <2>7, <2>8 DEF HostNext, Worker
<1>. QED
  BY <1>1, <1>2, HostInvariant, HostKeepsShape, PTL DEF HostSpec, OffersSource,
     Source!SourceSafety
=============================================================================
