----------------------------- MODULE ServiceHost -----------------------------
(***************************************************************************)
(* The Windows service around the controller,                              *)
(* src/src/components/service/service.cpp.  Three threads share            *)
(* g_serviceStatus, g_controller, g_running and the stop event:            *)
(*                                                                         *)
(*   "main"     ServiceMain: registers, creates the event and the worker,  *)
(*              waits for the worker, closes the handles;                  *)
(*   "handler"  ServiceCtrlHandler, called by the dispatcher for one       *)
(*              control at a time;                                         *)
(*   "worker"   ServiceWorkerThread: owns the ServiceController and its    *)
(*              event loop.                                                *)
(*                                                                         *)
(* ReportServiceStatus writes the shared structure and then hands it to    *)
(* the service control manager; another thread can run in between, so it   *)
(* is two steps, BeginReport and EndReport.  The lambdas connected to      *)
(* started, stopped, paused and resumed run in the thread that emits.      *)
(***************************************************************************)
EXTENDS ServiceController

VARIABLES
  status,      \* g_serviceStatus.dwCurrentState
  scm,         \* the state the service control manager was told last
  rep,         \* [Threads -> state a report under way announces, or "none"]
  gRunning,    \* g_running
  gPaused,     \* g_paused: written by the handler, read by nobody
  event,       \* g_serviceStopEvent: "null", "open" or "closed"
  signalled,   \* the stop event is set
  controller,  \* g_controller: "null", "live" or "dangling"
  mainPc, handlerPc, workerPc,
  control,     \* the control the handler is called with
  process      \* "running" or "exited"

flags    == <<gRunning, gPaused, event, signalled, controller>>
pcs      == <<mainPc, handlerPc, workerPc, control>>
reports  == <<status, scm, rep>>
hostVars == <<controllerVars, reports, flags, pcs, process>>

Threads  == {"main", "handler", "worker"}
Controls == {"STOP", "PAUSE", "CONTINUE", "INTERROGATE"}

HostInit ==
  /\ ControllerInit
  /\ status = "none" /\ scm = "START_PENDING"
  /\ rep = [t \in Threads |-> "none"]
  /\ gRunning = TRUE /\ gPaused = FALSE
  /\ event = "null" /\ signalled = FALSE
  /\ controller = "null"
  /\ mainPc = "register" /\ handlerPc = "idle" /\ workerPc = "none"
  /\ control = "INTERROGATE"
  /\ process = "running"

-----------------------------------------------------------------------------
(* ReportServiceStatus *)

BeginReport(t, s) ==
  /\ status' = s
  /\ rep' = [rep EXCEPT ![t] = s]
  /\ UNCHANGED scm

\* SetServiceStatus(g_statusHandle, &g_serviceStatus): what the structure holds
\* now, whoever wrote it last.
EndReport(t) ==
  /\ process = "running"
  /\ rep[t] # "none"
  /\ scm' = status
  /\ rep' = [rep EXCEPT ![t] = "none"]
  /\ UNCHANGED <<controllerVars, status, flags, pcs, process>>

\* Thread t can take its next step: it is not inside a report.
At(t, pc, label) == process = "running" /\ rep[t] = "none" /\ pc = label

\* The controls the structure advertises with a reported state.
Accepted(s) == IF s = "START_PENDING" THEN {} ELSE {"STOP", "PAUSE", "CONTINUE"}

-----------------------------------------------------------------------------
(* ServiceMain *)

MainStep(from, to) ==
  /\ At("main", mainPc, from) /\ mainPc' = to
  /\ UNCHANGED <<controllerVars, handlerPc, control, process>>

RegisterFails ==
  /\ MainStep("register", "returned")
  /\ UNCHANGED <<reports, flags, workerPc>>

Register ==
  /\ MainStep("register", "createEvent")
  /\ BeginReport("main", "START_PENDING")
  /\ UNCHANGED <<flags, workerPc>>

CreateEvent ==
  /\ MainStep("createEvent", "createThread")
  /\ event' = "open"
  /\ UNCHANGED <<reports, gRunning, gPaused, signalled, controller, workerPc>>

CreateEventFails ==
  /\ MainStep("createEvent", "returned")
  /\ BeginReport("main", "STOPPED")
  /\ UNCHANGED <<flags, workerPc>>

CreateThread ==
  /\ MainStep("createThread", "join")
  /\ workerPc' = "construct"
  /\ UNCHANGED <<reports, flags>>

\* Slip in CreateThreadFails: the failure is not reported.
CreateThreadFails_Silent ==
  /\ MainStep("createThread", "closeEvent")
  /\ UNCHANGED <<reports, flags, workerPc>>

CreateThreadFails ==
  /\ MainStep("createThread", "closeEvent")
  /\ BeginReport("main", "STOPPED")
  /\ UNCHANGED <<flags, workerPc>>

JoinWorker ==
  /\ MainStep("join", "closeEvent")
  /\ workerPc = "done"
  /\ UNCHANGED <<reports, flags, workerPc>>

CloseEvent ==
  /\ MainStep("closeEvent", "returned")
  /\ event' = "closed"
  /\ UNCHANGED <<reports, gRunning, gPaused, signalled, controller, workerPc>>

Main ==
  \/ RegisterFails \/ Register \/ CreateEvent \/ CreateEventFails
  \/ CreateThread \/ CreateThreadFails \/ JoinWorker \/ CloseEvent

-----------------------------------------------------------------------------
(* ServiceCtrlHandler *)

HandlerStep(from, to) ==
  /\ At("handler", handlerPc, from) /\ handlerPc' = to
  /\ UNCHANGED <<mainPc, workerPc, process>>

\* The service control manager passes on a control the reported state accepts;
\* it refuses all but INTERROGATE while a stop is pending, and sends nothing to
\* a stopped service.
DeliverControl(c) ==
  /\ HandlerStep("idle", "entry")
  /\ mainPc # "register" /\ scm # "STOPPED"
  /\ c # "INTERROGATE" => c \in Accepted(scm) /\ scm # "STOP_PENDING"
  /\ control' = c
  /\ UNCHANGED <<controllerVars, reports, flags>>

\* The state a control is valid in, and the pending and final states it reports.
ValidIn(c) == IF c = "CONTINUE" THEN "PAUSED" ELSE "RUNNING"
Pending(c) == CASE c = "STOP" -> "STOP_PENDING"
                [] c = "PAUSE" -> "PAUSE_PENDING"
                [] OTHER -> "CONTINUE_PENDING"

\* Slip in Final: every control but PAUSE ends in RUNNING.
Final_Running(c) == IF c = "PAUSE" THEN "PAUSED" ELSE "RUNNING"

Final(c) == CASE c = "STOP" -> "STOPPED"
              [] c = "PAUSE" -> "PAUSED"
              [] OTHER -> "RUNNING"

IgnoreControl ==
  /\ HandlerStep("entry", "idle")
  /\ control = "INTERROGATE" \/ status # ValidIn(control)
  /\ UNCHANGED <<controllerVars, reports, flags, control>>

\* Slips in AcceptControl: g_running is cleared before STOP_PENDING is reported;
\* the state is not tested.
AcceptControl_FlagFirst ==
  /\ HandlerStep("entry", "flag")
  /\ control # "INTERROGATE" /\ status = ValidIn(control)
  /\ BeginReport("handler", Pending(control))
  /\ gRunning' = (gRunning /\ control # "STOP")
  /\ UNCHANGED <<controllerVars, gPaused, event, signalled, controller, control>>

AcceptControl_AnyState ==
  /\ HandlerStep("entry", "flag")
  /\ control # "INTERROGATE"
  /\ BeginReport("handler", Pending(control))
  /\ UNCHANGED <<controllerVars, flags, control>>

AcceptControl ==
  /\ HandlerStep("entry", "flag")
  /\ control # "INTERROGATE" /\ status = ValidIn(control)
  /\ BeginReport("handler", Pending(control))
  /\ UNCHANGED <<controllerVars, flags, control>>

SetFlag ==
  /\ HandlerStep("flag", IF control = "STOP" THEN "signal" ELSE "test")
  /\ gRunning' = (gRunning /\ control # "STOP")
  /\ gPaused' = IF control = "STOP" THEN gPaused ELSE control = "PAUSE"
  /\ UNCHANGED <<controllerVars, reports, event, signalled, controller, control>>

\* SetEvent: a closed handle only makes the call fail.
SignalEvent ==
  /\ HandlerStep("signal", "final")
  /\ signalled' = (signalled \/ event = "open")
  /\ UNCHANGED <<controllerVars, reports, gRunning, gPaused,
                 event, controller, control>>

TestController ==
  /\ HandlerStep("test", IF controller = "null" THEN "final" ELSE "call")
  /\ UNCHANGED <<controllerVars, reports, flags, control>>

\* Slip in CallController: the signal is emitted, the flag not set.
CallController_OnlyEmits ==
  /\ HandlerStep("call", "final")
  /\ IF controller = "live" /\ running /\ paused # (control = "PAUSE")
       THEN BeginReport("handler", Final(control))
       ELSE UNCHANGED reports
  /\ UNCHANGED <<controllerVars, flags, control>>

\* g_controller->pause() or ->resume(), in the handler's thread.  Either does
\* nothing when the controller is not running or already in that state; if not,
\* it sets m_paused and emits, which reports the new state.
CallController ==
  LET pausing == control = "PAUSE"
  IN /\ HandlerStep("call", "final")
     /\ IF controller = "live" /\ running /\ paused # pausing
          THEN /\ paused' = pausing
               /\ BeginReport("handler", Final(control))
          ELSE UNCHANGED <<paused, reports>>
     /\ UNCHANGED <<running, channels, timers, watchdog, stalls, flags, control>>

ReportFinal ==
  /\ HandlerStep("final", "return")
  /\ BeginReport("handler", Final(control))
  /\ UNCHANGED <<controllerVars, flags, control>>

ReturnFromHandler ==
  /\ HandlerStep("return", "idle")
  /\ UNCHANGED <<controllerVars, reports, flags, control>>

Handler ==
  \/ IgnoreControl \/ AcceptControl \/ SetFlag \/ SignalEvent
  \/ TestController \/ CallController \/ ReportFinal \/ ReturnFromHandler

-----------------------------------------------------------------------------
(* ServiceWorkerThread, with start() and stop() in the steps others can see *)

WorkerStep(from, to) ==
  /\ At("worker", workerPc, from) /\ workerPc' = to
  /\ UNCHANGED <<mainPc, handlerPc, control, process>>

Construct ==
  /\ WorkerStep("construct", "start")
  /\ controller' = "live"
  /\ UNCHANGED <<controllerVars, reports, gRunning, gPaused, event, signalled>>

WorkerStart ==
  /\ WorkerStep("start", "arm")
  /\ ~running
  /\ \E ok \in SUBSET Plugins : OpenChannels(ok)
  /\ BeginReport("worker", "RUNNING")
  /\ UNCHANGED <<timers, watchdog, stalls, flags>>

WorkerArm ==
  /\ WorkerStep("arm", "check")
  /\ ArmTimers
  /\ UNCHANGED <<lifecycle, channels, flags, reports>>

CheckRunning ==
  /\ WorkerStep("check", IF gRunning THEN "wait" ELSE "clear")
  /\ UNCHANGED <<controllerVars, reports, flags>>

StopSignalled ==
  /\ WorkerStep("wait", "clear")
  /\ signalled
  /\ UNCHANGED <<controllerVars, reports, flags>>

\* Slip in WaitTimesOut: a paused service processes no events.
WaitTimesOut_NotPaused ==
  /\ WorkerStep("wait", IF gPaused THEN "check" ELSE "events")
  /\ ~signalled
  /\ IF gPaused THEN UNCHANGED controllerVars ELSE \E d \in 1..MaxElapsed : Elapse(d)
  /\ UNCHANGED <<reports, flags>>

\* The wait timed out, so time passed; then processEvents() serves what is due.
WaitTimesOut ==
  /\ WorkerStep("wait", "events")
  /\ ~signalled
  /\ \E d \in 1..MaxElapsed : Elapse(d)
  /\ UNCHANGED <<reports, flags>>

ServeTimer(t) ==
  /\ WorkerStep("events", "events")
  /\ Timeout(t)
  /\ UNCHANGED <<reports, flags>>

ServeReply(e) ==
  /\ WorkerStep("events", "events")
  /\ ReplyFinished(e)
  /\ UNCHANGED <<reports, flags>>

EventsProcessed ==
  /\ WorkerStep("events", "check")
  /\ due = {}
  /\ UNCHANGED <<controllerVars, reports, flags>>

WorkerClear ==
  /\ WorkerStep("clear", "unload")
  /\ ClearRunning
  /\ UNCHANGED <<paused, channels, timers, watchdog, stalls, reports, flags>>

WorkerUnload ==
  /\ WorkerStep("unload", "close")
  /\ UnloadPlugins
  /\ UNCHANGED <<lifecycle, networkManager, serviceSource, serviceStatus, inflight, timers,
                 watchdog, stalls, reports, flags>>

WorkerClose ==
  /\ WorkerStep("close", "delete")
  /\ CloseChannels
  /\ BeginReport("worker", "STOPPED")
  /\ UNCHANGED <<lifecycle, loadedPlugins, starts,
                 watchdog, stalls, flags>>

\* Slip in DeleteController: the schedule outlives the timers.
DeleteController_KeepsSchedule ==
  /\ WorkerStep("delete", "forget")
  /\ controller' = "dangling"
  /\ armed' = {} /\ due' = {}
  /\ UNCHANGED <<lifecycle, channels, starts, left, watchdogTimer, watchdog, stalls,
                 reports, gRunning, gPaused, event, signalled>>

\* delete g_controller: the destructor's stop() finds m_running false, and the
\* timers die with their parent.
DeleteController ==
  /\ WorkerStep("delete", "forget")
  /\ controller' = "dangling"
  /\ armed' = {} /\ left' = [t \in {} |-> 0] /\ due' = {}
  /\ UNCHANGED <<lifecycle, channels, starts, watchdogTimer, watchdog, stalls,
                 reports, gRunning, gPaused, event, signalled>>

ForgetController ==
  /\ WorkerStep("forget", "done")
  /\ controller' = "null"
  /\ UNCHANGED <<controllerVars, reports, gRunning, gPaused, event, signalled>>

Worker ==
  \/ Construct \/ WorkerStart \/ WorkerArm \/ CheckRunning
  \/ StopSignalled \/ WaitTimesOut \/ (\E t \in due : ServeTimer(t))
  \/ (\E e \in inflight : ServeReply(e)) \/ EventsProcessed
  \/ WorkerClear \/ WorkerUnload \/ WorkerClose
  \/ DeleteController \/ ForgetController

-----------------------------------------------------------------------------
\* The dispatcher returns once the service has reported STOPPED and the handler
\* is back; main() then returns and takes whatever still runs with it.
ExitProcess ==
  /\ process = "running"
  /\ scm = "STOPPED" /\ handlerPc = "idle"
  /\ process' = "exited"
  /\ UNCHANGED <<controllerVars, reports, flags, pcs>>

HostNext ==
  \/ Main
  \/ Handler
  \/ Worker
  \/ \E c \in Controls : DeliverControl(c)
  \/ \E t \in Threads : EndReport(t)
  \/ ExitProcess

\* The scheduler runs every thread that can run; controls may never come.
HostFairness ==
  /\ WF_hostVars(Main) /\ WF_hostVars(Handler) /\ WF_hostVars(Worker)
  /\ \A t \in Threads : WF_hostVars(EndReport(t))
  /\ WF_hostVars(ExitProcess)

HostSpec == HostInit /\ [][HostNext]_hostVars /\ HostFairness

-----------------------------------------------------------------------------
(* Properties *)

\* What the manager was told, read as the state of a service.
Protocol == INSTANCE ServiceProtocol WITH state <- scm

\* Every variable of the host stays in its type.
HostTypeOK ==
  /\ ControllerTypeOK
  /\ scm \in Protocol!States
  /\ status \in Protocol!States \cup {"none"}
  /\ rep \in [Threads -> Protocol!States \cup {"none"}]
  /\ gRunning \in BOOLEAN /\ gPaused \in BOOLEAN
  /\ event \in {"null", "open", "closed"} /\ signalled \in BOOLEAN
  /\ controller \in {"null", "live", "dangling"}
  /\ mainPc \in {"register", "createEvent", "createThread", "join", "closeEvent", "returned"}
  /\ handlerPc \in {"idle", "entry", "flag", "signal", "test", "call", "final", "return"}
  /\ workerPc \in {"none", "construct", "start", "arm", "check", "wait", "events",
                   "clear", "unload", "close", "delete", "forget", "done"}
  /\ control \in Controls
  /\ process \in {"running", "exited"}

\* The handler tests g_controller and calls through it without a lock, while the
\* worker deletes the controller.  Whenever it calls, the object is there.
NoDanglingCall == handlerPc = "call" => controller = "live"

\* Three threads fill in one g_serviceStatus without a lock.  A report that is
\* under way is never overwritten by a different one before it is sent.
ReportsNotClobbered == \A t \in Threads : rep[t] # "none" => status = rep[t]

\* Between two controls, what the manager was told and what the controller does
\* agree: PAUSED means paused, RUNNING means running and not paused.
PauseAgreesWithScm ==
  handlerPc = "idle" =>
    /\ scm = "PAUSED" => running /\ paused
    /\ scm = "RUNNING" => running /\ ~paused

\* The reports of the three threads, merged, are a run of the protocol of a
\* service: the host implements ServiceProtocol.
HostFollowsProtocol == Protocol!ProtocolSpec

\* A stop that was accepted ends with the process gone: the worker, asleep in
\* its wait or in the middle of a pass, does not keep it alive.
StopTerminates == scm = "STOP_PENDING" ~> process = "exited"

\* A start that was announced is brought to an end, whichever call fails.
StartSettles ==
  (mainPc # "register" /\ status # "none" /\ scm = "START_PENDING")
    ~> scm \in {"RUNNING", "STOPPED"}

\* A pause the manager was told of is shown to the clients of the source, unless
\* it is continued: the handler's write reaches the worker's metrics push.
PauseReachesClients == scm = "PAUSED" ~> (serviceStatus = "Paused" \/ scm # "PAUSED")

\* service.cpp:35 advertises SERVICE_ACCEPT_STOP with every state but
\* START_PENDING, and README.md:42 names STOP among the controls.  A STOP that
\* the manager delivers has the service stopped when the handler returns.
StopIsObeyed ==
  [][control = "STOP" /\ handlerPc # "idle" /\ handlerPc' = "idle"
       => status \in {"STOP_PENDING", "STOPPED"}]_hostVars
=============================================================================
