------------------------------ MODULE UiManager ------------------------------
(***************************************************************************)
(* Class UiManager (src/src/components/app/ui_manager.cpp): the service    *)
(* panel of the desktop program, with the buttons of main.qml as far as    *)
(* they decide what the user can ask for.                                  *)
(*                                                                         *)
(* connectToService() makes a new IpcClient and forgets the one m_ipcClient*)
(* pointed to, which lives on as an orphan: still connected, its signals   *)
(* still wired to this object.  Everything runs on one event loop, so each *)
(* slot is one action.  The lists of the same class are UiLists'.          *)
(***************************************************************************)
EXTENDS IpcClient, UiLists

CONSTANT MaxPresses  \* bound: how often the user presses a button

ASSUME UiAssumption == MaxPresses \in Nat

VARIABLES
  ipcClient,         \* m_ipcClient: the number of the client, 0 for null
  serviceConnected,  \* m_serviceConnected
  serviceStatus,     \* m_serviceStatus, what the panel shows
  restarts,          \* single-shot timers of restartService() still to fire
  presses,           \* what the bound MaxPresses counts
  stopPressed        \* history: Stop was the last button pressed

shown     == <<serviceConnected, serviceStatus>>
user      == <<presses, stopPressed>>
panelVars == <<ipcVars, ipcClient, shown, restarts>>
uiVars    == <<panelVars, user, listVars>>

UiInit ==
  /\ IpcInit /\ ListsInit
  /\ created = 1 /\ live = {1} /\ initialized = {} /\ fresh = {}
  /\ seen = [c \in {1} |-> ""]
  /\ ipcClient = 1
  /\ serviceConnected = FALSE /\ serviceStatus = "Disconnected"
  /\ restarts = 0
  /\ presses = 0 /\ stopPressed = FALSE

-----------------------------------------------------------------------------
(* Connecting and disconnecting *)

connectToService == OpenClient /\ ipcClient' = created'

\* Slips in disconnectFromService: what is shown is not reset; the flag is not;
\* the pointer is not.
disconnectFromService_KeepsStatus ==
  /\ IF ipcClient = 0 THEN UNCHANGED ipcVars ELSE CloseClient(ipcClient)
  /\ ipcClient' = 0
  /\ serviceConnected' = FALSE /\ UNCHANGED serviceStatus

disconnectFromService_KeepsFlag ==
  /\ IF ipcClient = 0 THEN UNCHANGED ipcVars ELSE CloseClient(ipcClient)
  /\ ipcClient' = 0
  /\ serviceStatus' = "Disconnected" /\ UNCHANGED serviceConnected

disconnectFromService_KeepsPointer ==
  /\ IF ipcClient = 0 THEN UNCHANGED ipcVars ELSE CloseClient(ipcClient)
  /\ UNCHANGED ipcClient
  /\ serviceConnected' = FALSE /\ serviceStatus' = "Disconnected"

\* deleteLater() on a client without a replica: nothing of it can be seen again.
disconnectFromService ==
  /\ IF ipcClient = 0 THEN UNCHANGED ipcVars ELSE CloseClient(ipcClient)
  /\ ipcClient' = 0
  /\ serviceConnected' = FALSE /\ serviceStatus' = "Disconnected"

onIpcConnected    == serviceConnected' = TRUE  /\ serviceStatus' = "Connected"
onIpcDisconnected == serviceConnected' = FALSE /\ serviceStatus' = "Disconnected"

-----------------------------------------------------------------------------
(* The buttons *)

Press(stopping) ==
  presses < MaxPresses /\ presses' = presses + 1 /\ stopPressed' = stopping

startService ==
  /\ Press(FALSE)
  /\ serviceStatus # "Running"
  /\ IF isConnected(ipcClient)
       THEN /\ serviceConnected' = TRUE /\ serviceStatus' = "Running"
            /\ UNCHANGED <<ipcVars, ipcClient>>
       ELSE /\ connectToService
            /\ serviceStatus' = "Starting" /\ UNCHANGED serviceConnected
  /\ UNCHANGED <<restarts, listVars>>

stopService ==
  /\ Press(TRUE)
  /\ serviceStatus = "Running"
  /\ disconnectFromService
  /\ UNCHANGED <<restarts, listVars>>

restartService ==
  /\ Press(FALSE)
  /\ disconnectFromService
  /\ restarts' = restarts + 1
  /\ UNCHANGED listVars

\* The calls about plugins and agents leave the panel alone.
PressInList ==
  /\ Press(stopPressed)
  /\ ListCall
  /\ UNCHANGED panelVars

-----------------------------------------------------------------------------
(* Timers and the signals of the clients, the current one or an orphan *)

RestartTimeout ==
  /\ restarts > 0 /\ restarts' = restarts - 1
  /\ connectToService
  /\ UNCHANGED <<shown, user, listVars>>

\* Slip in updateMetrics: the status is taken only while a connection is shown
\* to be new.
updateMetrics_Once ==
  /\ serviceStatus' = IF isConnected(ipcClient) /\ serviceStatus = "Connected"
                        THEN seen'[ipcClient] ELSE serviceStatus
  /\ UNCHANGED <<serviceConnected, ipcClient, restarts, user, listVars>>

\* The status of the current client, with the value a signal has just brought.
updateMetrics ==
  /\ serviceStatus' = IF isConnected(ipcClient) THEN seen'[ipcClient] ELSE serviceStatus
  /\ UNCHANGED <<serviceConnected, ipcClient, restarts, user, listVars>>

MetricsTimeout == UNCHANGED ipcVars /\ updateMetrics

checkServiceStatus ==
  /\ ipcClient # 0
  /\ \/ isConnected(ipcClient) /\ ~serviceConnected /\ onIpcConnected
     \/ ~isConnected(ipcClient) /\ serviceConnected /\ onIpcDisconnected
  /\ UNCHANGED <<ipcVars, ipcClient, restarts, user, listVars>>

\* initialized(): emitted by a replica that attaches for the first time, and
\* perhaps by one that attaches again.
ReplicaInitialized(c) ==
  /\ Attach(c)
  /\ onIpcConnected \/ (isConnected(c) /\ UNCHANGED shown)
  /\ UNCHANGED <<ipcClient, restarts, user, listVars>>

ReplicaChanged(c) == Refresh(c) /\ updateMetrics

ListTimerFires == ListTimeout /\ UNCHANGED <<panelVars, user>>

UiNext ==
  \/ Source /\ UNCHANGED <<ipcClient, shown, restarts, user, listVars>>
  \/ startService \/ stopService \/ restartService \/ PressInList \/ ListTimerFires
  \/ RestartTimeout \/ MetricsTimeout \/ checkServiceStatus
  \/ \E c \in live : ReplicaInitialized(c) \/ ReplicaChanged(c)

\* The event loop runs, the service publishes what it does (SourceFairness), and the
\* transport brings what is published.
UiFairness ==
  /\ WF_uiVars(SourcePublishes /\ UNCHANGED <<ipcClient, shown, restarts, user, listVars>>)
  /\ WF_uiVars(RestartTimeout)
  /\ WF_uiVars(MetricsTimeout)
  /\ WF_uiVars(checkServiceStatus)
  /\ \A c \in Clients :
       WF_uiVars(c \in live /\ ReplicaInitialized(c)) /\ WF_uiVars(c \in live /\ ReplicaChanged(c))

UiSpec == UiInit /\ [][UiNext]_uiVars /\ UiFairness

-----------------------------------------------------------------------------
(* Properties *)

\* Every variable stays in its type.
UiTypeOK ==
  /\ ListsTypeOK
  /\ sourceUp \in BOOLEAN /\ sourcePaused \in BOOLEAN
  /\ sourceStatus \in Published /\ turns \in 0..MaxTurns
  /\ created \in 0..MaxClients
  /\ live \subseteq 1..created
  /\ initialized \subseteq live /\ fresh \subseteq initialized
  /\ seen \in [live -> Published]
  /\ ipcClient \in live \cup {0}
  /\ serviceConnected \in BOOLEAN
  /\ serviceStatus \in Published \cup {"Disconnected", "Connected", "Starting"}
  /\ restarts \in Nat
  /\ presses \in 0..MaxPresses /\ stopPressed \in BOOLEAN

\* The panel claims a connection only while some replica, the current one's or
\* an orphan's, has been initialized: the flag is set by signals, by a button and
\* by a timer, and reset by others.
ConnectedIsBacked == serviceConnected => initialized # {}

\* Without any client left nothing is shown that a client once said.
NothingLingers ==
  live = {} => ~serviceConnected /\ serviceStatus = "Disconnected"

\* Once the user lets go and the service stays, a panel that has a client shows
\* what the service does, from the flag in the service to the text on the screen:
\* whatever orphans were left behind, whatever outages and pauses there were and
\* however pushes, timers and signals fall.
PanelIsTrue ==
  <>[](sourceUp /\ ipcClient # 0) => <>[](serviceConnected /\ serviceStatus = Service!Mode)

\* README.md:52 "Service management: start/stop/restart, status visualization".
\* A service that was stopped is not shown as connected until another button is
\* pressed.
StopHolds == stopPressed => ~serviceConnected
=============================================================================
