-------------------------- MODULE ServiceController --------------------------
(***************************************************************************)
(* The service's functional core, class ServiceController                  *)
(* (src/src/components/service/service_controller.cpp): the life cycle     *)
(* start / stop / pause / resume, the plugins it loads, the network        *)
(* manager it posts through, the Qt RemoteObjects source it publishes its  *)
(* status on, and the four repeating timers that drive it.                 *)
(*                                                                         *)
(* Timers are served by one event loop.  Elapse(d) is the loop coming back *)
(* after d time units: every armed timer whose timeout passed becomes due, *)
(* once however many periods went by, and keeps its phase.  The due        *)
(* handlers then run one at a time, in any order.  The first timeout may   *)
(* come anywhere in the first period: the timers are started one after     *)
(* another and a coarse QTimer moves its phase.                            *)
(*                                                                         *)
(* Methods that other code can observe half-way are given as fragments     *)
(* (OpenChannels and ArmTimers; ClearRunning, UnloadPlugins and            *)
(* CloseChannels), which ServiceHost runs as separate steps of a thread.   *)
(***************************************************************************)
EXTENDS Naturals, FiniteSets

CONSTANTS
  Plugins,     \* the *_plugin.dll files of the plugins directory
  Interval,    \* [Kinds -> period of the timer], in time units
  MaxStarts,   \* bound: how often start() is called on one controller
  MaxElapsed   \* bound: the longest stall of the event loop, in time units

Kinds     == {"heartbeat", "pluginStatus", "metrics", "watchdog"}
Endpoints == {"register", "heartbeat", "metrics", "plugins"}

\* Slip in MissLimit: the second missed tick counts.
MissLimit_Second == 2

\* Missed watchdog ticks that count as unresponsive.
MissLimit == 3

ASSUME ControllerAssumption ==
  /\ Interval \in [Kinds -> Nat \ {0}]
  /\ Interval["metrics"] <= Interval["watchdog"]
  /\ MaxStarts \in Nat \ {0}
  /\ MaxElapsed \in Nat \ {0}

VARIABLES
  running,         \* m_running
  paused,          \* m_paused
  networkManager,  \* m_networkManager is not null
  serviceSource,   \* m_serviceSource (and m_qtroHost) is not null
  serviceStatus,   \* the serviceStatus clients read from the source, "" without one
  loadedPlugins,   \* m_loadedPlugins
  inflight,        \* endpoints with a request waiting for its reply
  starts,          \* how often start() got past its guard; numbers the timers
  armed,           \* the running QTimers, <<kind, start() that created it>>
  left,            \* [armed -> time units to the next timeout]
  due,             \* timers whose timeout the current loop pass still owes
  watchdogTimer,   \* m_watchdogTimer: the start() that created it, 0 for null
  watchdogMissed,  \* m_watchdogMissed
  stalls,          \* history: stalls of the loop since start(), counted up to 2
  tripped          \* history: since start() the watchdog tripped

lifecycle == <<running, paused>>
channels  == <<networkManager, serviceSource, serviceStatus, loadedPlugins, inflight>>
timers    == <<starts, armed, left, due, watchdogTimer>>
watchdog  == <<watchdogMissed, tripped>>
controllerVars == <<lifecycle, channels, timers, watchdog, stalls>>

ControllerInit ==
  /\ running = FALSE /\ paused = FALSE
  /\ networkManager = FALSE
  /\ serviceSource = FALSE
  /\ serviceStatus = ""
  /\ loadedPlugins = {}
  /\ inflight = {}
  /\ starts = 0
  /\ armed = {} /\ due = {}
  /\ left = [t \in {} |-> 0]
  /\ watchdogTimer = 0
  /\ watchdogMissed = 0
  /\ stalls = 0
  /\ tripped = FALSE

\* The string the controller reports for its own state.
statusString == IF paused THEN "Paused" ELSE IF running THEN "Running" ELSE "Stopped"

-----------------------------------------------------------------------------
(* start() and stop(), in the order their effects appear *)

\* initialize(), then the flags: everything start() does before it emits
\* started().  ok is the set of plugins that load and cast to IPlugin; the
\* other loaders are deleted.
OpenChannels(ok) ==
  /\ networkManager' = TRUE
  /\ serviceSource' = TRUE
  /\ serviceStatus' = ""
  /\ loadedPlugins' = loadedPlugins \cup ok
  /\ inflight' = inflight \cup {"register", "heartbeat", "plugins"}
  /\ running' = TRUE
  /\ paused' = FALSE

\* The times to the first timeouts.
Phases == [heartbeat    : 1..Interval["heartbeat"],
           pluginStatus : 1..Interval["pluginStatus"],
           metrics      : 1..Interval["metrics"],
           watchdog     : 1..Interval["watchdog"]]

\* The four QTimers, created after started() was emitted.  The pointers to the
\* first three are not kept, so nothing can stop them before the controller dies.
ArmTimers ==
  LET n   == starts + 1
      new == Kinds \X {n}
  IN /\ starts' = n
     /\ armed' = armed \cup new
     /\ \E first \in Phases :
          left' = [t \in armed \cup new |-> IF t \in new THEN first[t[1]] ELSE left[t]]
     /\ watchdogTimer' = n
     /\ watchdogMissed' = 0
     /\ stalls' = 0 /\ tripped' = FALSE
     /\ UNCHANGED due

ClearRunning == running' = FALSE

UnloadPlugins == loadedPlugins' = {}

\* Slips in CloseChannels: a stopped timer still delivers; the source is kept;
\* the watchdog pointer is cleared but the timer not stopped.
CloseChannels_KeepsDue ==
  LET dead == {<<"watchdog", watchdogTimer>>}
  IN /\ armed' = armed \ dead
     /\ left' = [t \in armed \ dead |-> left[t]]
     /\ watchdogTimer' = 0
     /\ serviceSource' = FALSE /\ serviceStatus' = "" /\ networkManager' = FALSE
     /\ inflight' = {}
     /\ UNCHANGED due

CloseChannels_KeepsSource ==
  LET dead == {<<"watchdog", watchdogTimer>>}
  IN /\ armed' = armed \ dead
     /\ left' = [t \in armed \ dead |-> left[t]]
     /\ due' = due \ dead
     /\ watchdogTimer' = 0
     /\ networkManager' = FALSE
     /\ inflight' = {}
     /\ UNCHANGED <<serviceSource, serviceStatus>>

CloseChannels_KeepsWatchdog ==
  /\ watchdogTimer' = 0
  /\ serviceSource' = FALSE /\ serviceStatus' = "" /\ networkManager' = FALSE
  /\ inflight' = {}
  /\ UNCHANGED <<armed, left, due>>

\* The rest of stop(): only the watchdog is stopped, and deleting the network
\* manager deletes the replies it still waits for.
CloseChannels ==
  LET dead == IF watchdogTimer = 0 THEN {} ELSE {<<"watchdog", watchdogTimer>>}
  IN /\ armed' = armed \ dead
     /\ left' = [t \in armed \ dead |-> left[t]]
     /\ due' = due \ dead
     /\ watchdogTimer' = 0
     /\ serviceSource' = FALSE /\ serviceStatus' = ""
     /\ networkManager' = FALSE
     /\ inflight' = {}

Start ==
  /\ ~running
  /\ starts < MaxStarts
  /\ \E ok \in SUBSET Plugins : OpenChannels(ok)
  /\ ArmTimers

Stop ==
  /\ running
  /\ ClearRunning /\ UnloadPlugins /\ CloseChannels
  /\ UNCHANGED <<paused, starts, watchdog, stalls>>

Pause ==
  /\ running /\ ~paused
  /\ paused' = TRUE
  /\ UNCHANGED <<running, channels, timers, watchdog, stalls>>

Resume ==
  /\ running /\ paused
  /\ paused' = FALSE
  /\ UNCHANGED <<running, channels, timers, watchdog, stalls>>

-----------------------------------------------------------------------------
(* The event loop and the handlers of the timers *)

\* An absence long enough for the watchdog to come due together with the metrics
\* timer that was to come before it.
Stall(d) == d > Interval["watchdog"] - Interval["metrics"]

Elapse(d) ==
  /\ due = {} /\ armed # {}
  /\ stalls' = IF Stall(d) /\ stalls < 2 THEN stalls + 1 ELSE stalls
  /\ due' = {t \in armed : left[t] <= d}
  /\ left' = [t \in armed |->
                IF left[t] > d THEN left[t] - d
                ELSE Interval[t[1]] - ((d - left[t]) % Interval[t[1]])]
  /\ UNCHANGED <<lifecycle, channels, starts, armed, watchdogTimer, watchdog>>

\* Slip in Post: no test for a network manager.
Post_Unguarded(e) == inflight' = inflight \cup {e}

\* Every send method returns at once without a network manager.
Post(e) == inflight' = IF networkManager THEN inflight \cup {e} ELSE inflight

sendHeartbeat ==
  /\ Post("heartbeat")
  /\ UNCHANGED <<networkManager, serviceSource, serviceStatus, loadedPlugins, watchdog>>

sendPluginStatus ==
  /\ Post("plugins")
  /\ UNCHANGED <<networkManager, serviceSource, serviceStatus, loadedPlugins, watchdog>>

\* Slip in pushMetricsToSource: nothing is published while paused.
pushMetricsToSource_NotPaused ==
  /\ Post("metrics")
  /\ watchdogMissed' = 0
  /\ serviceStatus' = IF serviceSource /\ ~paused THEN statusString ELSE serviceStatus
  /\ UNCHANGED <<networkManager, serviceSource, loadedPlugins, tripped>>

pushMetricsToSource ==
  /\ Post("metrics")
  /\ watchdogMissed' = 0
  /\ serviceStatus' = IF serviceSource THEN statusString ELSE serviceStatus
  /\ UNCHANGED <<networkManager, serviceSource, loadedPlugins, tripped>>

watchdogTick ==
  /\ IF watchdogMissed + 1 >= MissLimit
       THEN /\ Post("heartbeat")
            /\ watchdogMissed' = 0
            /\ tripped' = TRUE
       ELSE /\ watchdogMissed' = watchdogMissed + 1
            /\ UNCHANGED <<inflight, tripped>>
  /\ UNCHANGED <<networkManager, serviceSource, serviceStatus, loadedPlugins>>

Timeout(t) ==
  /\ t \in due
  /\ due' = due \ {t}
  /\ \/ t[1] = "heartbeat"    /\ sendHeartbeat
     \/ t[1] = "pluginStatus" /\ sendPluginStatus
     \/ t[1] = "metrics"      /\ pushMetricsToSource
     \/ t[1] = "watchdog"     /\ watchdogTick
  /\ UNCHANGED <<lifecycle, starts, armed, left, watchdogTimer, stalls>>

\* finished(): whatever the outcome, the reply is only deleted.  Nothing is
\* retried and no state of the controller depends on the answer.
ReplyFinished(e) ==
  /\ e \in inflight
  /\ inflight' = inflight \ {e}
  /\ UNCHANGED <<lifecycle, networkManager, serviceSource, serviceStatus,
                 loadedPlugins, timers, watchdog, stalls>>

-----------------------------------------------------------------------------
ControllerNext ==
  \/ Start
  \/ Stop
  \/ Pause
  \/ Resume
  \/ \E d \in 1..MaxElapsed : Elapse(d)
  \/ \E t \in due : Timeout(t)
  \/ \E e \in inflight : ReplyFinished(e)

\* The event loop keeps turning and serves what is due.
LoopFairness ==
  /\ WF_controllerVars(\E d \in 1..MaxElapsed : Elapse(d))
  /\ WF_controllerVars(\E t \in due : Timeout(t))

ControllerSpec == ControllerInit /\ [][ControllerNext]_controllerVars /\ LoopFairness

-----------------------------------------------------------------------------
(* Properties *)

\* Every variable stays in its type.
ControllerTypeOK ==
  /\ running \in BOOLEAN /\ paused \in BOOLEAN
  /\ networkManager \in BOOLEAN /\ serviceSource \in BOOLEAN
  /\ serviceStatus \in {"", "Running", "Paused", "Stopped"}
  /\ loadedPlugins \subseteq Plugins
  /\ inflight \subseteq Endpoints
  /\ starts \in 0..MaxStarts
  /\ armed \subseteq Kinds \X (1..MaxStarts)
  /\ left \in [armed -> Nat]
  /\ due \subseteq armed
  /\ watchdogTimer \in 0..MaxStarts
  /\ watchdogMissed \in 0..(MissLimit - 1)
  /\ stalls \in 0..2
  /\ tripped \in BOOLEAN

\* The timers of an earlier start() survive stop() and go on firing.  While the
\* controller is stopped they must neither post a request nor change what the
\* source shows (the null checks of sendHeartbeat, sendMetrics,
\* sendPluginStatus and pushMetricsToSource), whatever was started before.
StoppedIsSilent ==
  [][~running /\ ~running' => UNCHANGED <<inflight, serviceStatus>>]_controllerVars

\* After a restart a heartbeat timer of every earlier start() is still armed,
\* but there is exactly one watchdog, and only while the controller runs: it
\* never counts ticks of a stopped service.
OneWatchdog ==
  /\ {t \in armed : t[1] = "watchdog"}
       = IF running THEN {<<"watchdog", watchdogTimer>>} ELSE {}
  /\ running <=> watchdogTimer = starts /\ starts > 0

\* The watchdog raises no false alarm: in whatever phase its timer and the one that
\* feeds it are, in whatever order a pass serves them, and whatever timers of an
\* earlier start() are left, it takes two stalls of the loop to trip it.  One
\* stall, however long, never does, since the ticks missed in it are merged.
NoFalseAlarm == tripped => stalls = 2

\* The controller as a source of its status.
Source == INSTANCE SourceProtocol WITH up <- serviceSource, status <- serviceStatus

\* The source opens empty, closes with stop(), and shows only what the controller
\* does at that moment, never "Stopped": also when a metrics timer left over by an
\* earlier start() fires between stop() and the next start(), or before the push
\* of the new one.
OffersSource == Source!SourceSafety

\* A pause that lasts is shown to the clients of the source, which only the next
\* metrics push can do, and so is a resume.
StatusIsPublished == Source!SourceFairness
=============================================================================
