--------------------------- MODULE UiManagerProofs ---------------------------
(***************************************************************************)
(* Proofs about UiManager, for any number of clients, presses and turns of *)
(* the source.                                                             *)
(*                                                                         *)
(* The argument: m_serviceConnected is set only in a step after which some *)
(* replica is initialized, and the only step that takes a replica away     *)
(* resets it, with the status.  That m_ipcClient, when not null, names a   *)
(* live client is part of the types.                                       *)
(*                                                                         *)
(* For the lists: an item that was asked for is listed or a timer will     *)
(* list it; a timer is about an item that was asked for, or was overtaken  *)
(* when it was taken off; and nothing else is listed, or twice.            *)
(***************************************************************************)
EXTENDS UiManager, TLAPS

IpcTypes ==
  /\ sourceUp \in BOOLEAN /\ sourcePaused \in BOOLEAN
  /\ sourceStatus \in Published /\ turns \in 0..MaxTurns
  /\ created \in 0..MaxClients
  /\ live \subseteq 1..created
  /\ initialized \subseteq live /\ fresh \subseteq initialized
  /\ seen \in [live -> Published]

PanelTypes ==
  /\ ipcClient \in live \cup {0}
  /\ serviceConnected \in BOOLEAN
  /\ serviceStatus \in Published \cup {"Disconnected", "Connected", "Starting"}

UserTypes ==
  /\ restarts \in Nat
  /\ presses \in 0..MaxPresses /\ stopPressed \in BOOLEAN

Wanted == asked \cup overtaken

Unlisted(i) == late[i] = 0 /\ listed[i] = 0 /\ i \notin Wanted
OnItsWay(i) == late[i] > 0 /\ listed[i] \in {0, 1} /\ i \in Wanted
Listed(i)   == late[i] = 0 /\ listed[i] = 1 /\ i \in Wanted

ListsInv == ListsTypeOK /\ \A i \in Items : Unlisted(i) \/ OnItsWay(i) \/ Listed(i)

UiInv == IpcTypes /\ PanelTypes /\ UserTypes /\ ConnectedIsBacked /\ NothingLingers

-----------------------------------------------------------------------------
\* Opening a client keeps the types, and leaves its replica to be initialized.
LEMMA OpenTypes ==
  ASSUME IpcTypes, OpenClient
  PROVE  IpcTypes' /\ created' \in live' /\ live \subseteq live' /\ initialized' = initialized
<1>1. created \in 0..MaxClients /\ MaxClients \in Nat /\ created < MaxClients
  BY IpcAssumption DEF IpcTypes, OpenClient
<1>2. created' = created + 1 /\ live' = live \cup {created'}
  BY DEF OpenClient
<1>3. /\ created' \in 0..MaxClients
      /\ 1..created \subseteq 1..created' /\ created' \in 1..created'
  BY <1>1, <1>2
<1>4. live' \subseteq 1..created' /\ created' \in live' /\ live \subseteq live'
  BY <1>2, <1>3 DEF IpcTypes
<1>5. seen' \in [live' -> Published]
  BY <1>2 DEF IpcTypes, OpenClient, Published, Service!Statuses
<1>. QED
  BY <1>3, <1>4, <1>5 DEF IpcTypes, OpenClient, sourceVars

\* So does closing one.
LEMMA CloseTypes ==
  ASSUME NEW c, IpcTypes, CloseClient(c) PROVE IpcTypes'
BY DEF IpcTypes, CloseClient, sourceVars

\* And so do the steps of the source, which the protocol keeps in its types, and
\* what reaches the replicas.
LEMMA SourceTypes ==
  ASSUME IpcTypes, Source
  PROVE  IpcTypes' /\ UNCHANGED <<live, initialized>>
<1>. USE DEF Service!Open, Service!Close, Service!Switch, Service!Publish, Service!Mode,
             Service!Statuses, Published
<1>1. turns' \in 0..MaxTurns
  <2>1. turns \in 0..MaxTurns /\ MaxTurns \in Nat
    BY IpcAssumption DEF IpcTypes
  <2>2. turns' = turns \/ (turns < MaxTurns /\ turns' = turns + 1)
    BY DEF Source, SourceAppears, ServiceSwitches, SourcePublishes, SourceVanishes, Turn
  <2>. QED
    BY <2>1, <2>2
<1>2. sourceUp' \in BOOLEAN /\ sourcePaused' \in BOOLEAN /\ sourceStatus' \in Published
  BY DEF IpcTypes, Source, SourceAppears, ServiceSwitches, SourcePublishes, SourceVanishes
<1>3. UNCHANGED <<created, live, initialized, seen>> /\ (fresh' = fresh \/ fresh' = {})
  BY DEF Source, SourceAppears, ServiceSwitches, SourcePublishes, SourceVanishes, clientVars
<1>. QED
  BY <1>1, <1>2, <1>3 DEF IpcTypes

LEMMA AttachTypes ==
  ASSUME NEW c, IpcTypes, Attach(c)
  PROVE  IpcTypes' /\ UNCHANGED live /\ initialized' = initialized \cup {c}
BY DEF IpcTypes, Attach, sourceVars

LEMMA RefreshTypes ==
  ASSUME NEW c, IpcTypes, Refresh(c)
  PROVE  IpcTypes' /\ UNCHANGED <<live, initialized>>
BY DEF IpcTypes, Refresh, sourceVars

\* Disconnecting keeps the types and resets what is shown.
LEMMA DisconnectTypes ==
  ASSUME IpcTypes, disconnectFromService
  PROVE  IpcTypes' /\ ipcClient' = 0 /\ ~serviceConnected' /\ serviceStatus' = "Disconnected"
         /\ serviceConnected' \in BOOLEAN
<1>1. CASE ipcClient = 0
  <2>1. UNCHANGED ipcVars
    BY <1>1 DEF disconnectFromService
  <2>2. IpcTypes'
    BY <2>1 DEF ipcVars, sourceVars, clientVars, IpcTypes
  <2>. QED
    BY <2>2 DEF disconnectFromService
<1>2. CASE ipcClient # 0
  BY <1>2, CloseTypes DEF disconnectFromService
<1>. QED
  BY <1>1, <1>2

\* The initial states satisfy the invariant.
LEMMA UiInitInv == UiInit => UiInv
<1>. SUFFICES ASSUME UiInit PROVE UiInv
  OBVIOUS
<1>1. /\ turns \in 0..MaxTurns /\ created \in 0..MaxClients /\ presses \in 0..MaxPresses
      /\ live \subseteq 1..created
  <2>1. turns = 0 /\ created = 1 /\ presses = 0 /\ live = {1}
    BY Zenon DEF UiInit, IpcInit
  <2>. QED
    BY <2>1, IpcAssumption, UiAssumption
<1>2. /\ sourceUp \in BOOLEAN /\ sourcePaused \in BOOLEAN /\ sourceStatus \in Published
      /\ seen \in [live -> Published]
  BY DEF UiInit, IpcInit, Published, Service!Statuses
<1>3. IpcTypes
  BY <1>1, <1>2 DEF UiInit, IpcTypes
<1>4. PanelTypes /\ UserTypes
  BY <1>1 DEF UiInit, PanelTypes, UserTypes
<1>5. ConnectedIsBacked /\ NothingLingers
  BY DEF UiInit, ConnectedIsBacked, NothingLingers
<1>. QED
  BY <1>3, <1>4, <1>5 DEF UiInv

\* Every button keeps the invariant.
LEMMA ButtonInv ==
  UiInv /\ (startService \/ stopService \/ restartService) => UiInv'
<1>. SUFFICES ASSUME UiInv, startService \/ stopService \/ restartService PROVE UiInv'
  OBVIOUS
<1>. USE DEF UiInv
<1>1. UserTypes'
  <2>1. presses \in 0..MaxPresses /\ MaxPresses \in Nat /\ presses < MaxPresses
        /\ presses' = presses + 1
    BY UiAssumption DEF UserTypes, startService, stopService, restartService, Press
  <2>2. presses' \in 0..MaxPresses
    BY <2>1
  <2>3. stopPressed' \in BOOLEAN
    BY DEF startService, stopService, restartService, Press
  <2>4. restarts' \in Nat
    <3>1. restarts' = restarts \/ restarts' = restarts + 1
      BY Zenon DEF startService, stopService, restartService
    <3>. QED
      BY <3>1 DEF UserTypes
  <2>. QED
    BY <2>2, <2>3, <2>4 DEF UserTypes
<1>2. CASE stopService \/ restartService
  <2>1. disconnectFromService
    BY <1>2 DEF stopService, restartService
  <2>. QED
    BY <1>1, <2>1, DisconnectTypes DEF PanelTypes, ConnectedIsBacked, NothingLingers
<1>3. CASE startService
  <2>1. CASE isConnected(ipcClient)
    <3>1. UNCHANGED <<ipcVars, ipcClient>> /\ serviceConnected' = TRUE /\ serviceStatus' = "Running"
      BY <1>3, <2>1 DEF startService
    <3>2. UNCHANGED <<live, initialized>> /\ IpcTypes'
      BY <3>1 DEF ipcVars, sourceVars, clientVars, IpcTypes
    <3>. QED
      BY <1>1, <2>1, <3>1, <3>2
      DEF isConnected, IpcTypes, PanelTypes, Published, Service!Statuses, ConnectedIsBacked, NothingLingers
  <2>2. CASE ~isConnected(ipcClient)
    <3>1. /\ OpenClient /\ ipcClient' = created'
          /\ serviceStatus' = "Starting" /\ UNCHANGED serviceConnected
      BY <1>3, <2>2 DEF startService, connectToService
    <3>. QED
      BY <1>1, <3>1, OpenTypes DEF PanelTypes, ConnectedIsBacked, NothingLingers
  <2>. QED
    BY <2>1, <2>2
<1>. QED
  BY <1>2, <1>3

\* Every timer keeps the invariant.
LEMMA TimerInv ==
  UiInv /\ (RestartTimeout \/ MetricsTimeout \/ checkServiceStatus) => UiInv'
<1>. SUFFICES ASSUME UiInv, RestartTimeout \/ MetricsTimeout \/ checkServiceStatus PROVE UiInv'
  OBVIOUS
<1>. USE DEF UiInv
<1>1. UserTypes'
  BY DEF UserTypes, RestartTimeout, MetricsTimeout, updateMetrics, checkServiceStatus, user
<1>2. CASE RestartTimeout
  <2>1. OpenClient /\ ipcClient' = created' /\ UNCHANGED <<serviceConnected, serviceStatus>>
    BY <1>2 DEF RestartTimeout, connectToService, shown
  <2>. QED
    BY <1>1, <2>1, OpenTypes DEF PanelTypes, ConnectedIsBacked, NothingLingers
<1>3. CASE MetricsTimeout \/ checkServiceStatus
  <2>1. UNCHANGED ipcVars /\ UNCHANGED ipcClient
    BY <1>3 DEF MetricsTimeout, updateMetrics, checkServiceStatus
  <2>2. IpcTypes' /\ UNCHANGED <<live, initialized, seen>>
    BY <2>1 DEF ipcVars, sourceVars, clientVars, IpcTypes
  <2>3. CASE MetricsTimeout
    BY <1>1, <2>1, <2>2, <2>3 DEF MetricsTimeout, updateMetrics, isConnected, IpcTypes,
       PanelTypes, ConnectedIsBacked, NothingLingers
  <2>4. CASE checkServiceStatus
    BY <1>1, <2>1, <2>2, <2>4 DEF checkServiceStatus, onIpcConnected, onIpcDisconnected,
       isConnected, IpcTypes, PanelTypes, ConnectedIsBacked, NothingLingers
  <2>. QED
    BY <1>3, <2>3, <2>4
<1>. QED
  BY <1>2, <1>3

\* So does every signal of a client.
LEMMA SignalInv ==
  ASSUME NEW c \in live, UiInv, ReplicaInitialized(c) \/ ReplicaChanged(c) PROVE UiInv'
<1>. USE DEF UiInv
<1>1. UserTypes' /\ UNCHANGED ipcClient
  BY DEF UserTypes, ReplicaInitialized, ReplicaChanged, updateMetrics, user
<1>2. CASE ReplicaInitialized(c)
  <2>1. IpcTypes' /\ UNCHANGED live /\ initialized' = initialized \cup {c}
    BY <1>2, AttachTypes DEF ReplicaInitialized
  <2>2. onIpcConnected \/ UNCHANGED <<serviceConnected, serviceStatus>>
    BY <1>2 DEF ReplicaInitialized, shown
  <2>. QED
    BY <1>1, <2>1, <2>2 DEF onIpcConnected, PanelTypes, ConnectedIsBacked, NothingLingers
<1>3. CASE ReplicaChanged(c)
  <2>1. IpcTypes' /\ UNCHANGED <<live, initialized>>
    BY <1>3, RefreshTypes DEF ReplicaChanged
  <2>2. /\ UNCHANGED serviceConnected
        /\ serviceStatus' = IF isConnected(ipcClient) THEN seen'[ipcClient] ELSE serviceStatus
    BY <1>3 DEF ReplicaChanged, updateMetrics
  <2>. QED
    BY <1>1, <2>1, <2>2 DEF isConnected, IpcTypes, PanelTypes, ConnectedIsBacked, NothingLingers
<1>. QED
  BY <1>2, <1>3

\* And so does every step of the specification.
LEMMA UiNextInv == UiInv /\ [UiNext]_uiVars => UiInv'
<1>. USE DEF UiInv, ConnectedIsBacked, NothingLingers
<1>1. ASSUME UiInv, Source, UNCHANGED <<ipcClient, shown, restarts, user, listVars>> PROVE UiInv'
  BY <1>1, SourceTypes DEF shown, user, PanelTypes, UserTypes
<1>2. ASSUME UiInv, UNCHANGED panelVars, PressInList \/ UNCHANGED user PROVE UiInv'
  <2>1. IpcTypes' /\ PanelTypes' /\ ConnectedIsBacked' /\ NothingLingers' /\ restarts' = restarts
    BY <1>2 DEF panelVars, ipcVars, sourceVars, clientVars, shown, IpcTypes, PanelTypes
  <2>2. presses \in 0..MaxPresses /\ MaxPresses \in Nat
        /\ (presses' = presses \/ (presses < MaxPresses /\ presses' = presses + 1))
    BY <1>2, UiAssumption DEF UserTypes, PressInList, Press, user
  <2>3. presses' \in 0..MaxPresses
    BY <2>2
  <2>4. stopPressed' = stopPressed
    BY <1>2 DEF PressInList, Press, user
  <2>. QED
    BY <1>2, <2>1, <2>3, <2>4 DEF UserTypes
<1>3. UNCHANGED uiVars => UNCHANGED panelVars /\ UNCHANGED user
  BY DEF uiVars
<1>4. PressInList \/ ListTimerFires => UNCHANGED panelVars /\ (PressInList \/ UNCHANGED user)
  BY DEF PressInList, ListTimerFires
<1>. QED
  BY <1>1, <1>2, <1>3, <1>4, ButtonInv, TimerInv, SignalInv DEF UiNext

-----------------------------------------------------------------------------
(* The lists *)

\* A call lists an item, or leaves it to a timer, or takes it off; a timer lists it.
LEMMA ListStepInv ==
  ASSUME ListsInv, ListCall \/ ListTimeout PROVE ListsInv'
<1>. USE DEF ListsInv, ListsTypeOK, Wanted, Unlisted, OnItsWay, Listed, Items
<1>1. ASSUME NEW p \in PluginNames, loadPlugin(p) PROVE ListsInv'
  BY <1>1 DEF loadPlugin, Later, AskFor
<1>2. ASSUME NEW p \in PluginNames, LoadTimeout(p) PROVE ListsInv'
  BY <1>2 DEF LoadTimeout, Fires, Insert
<1>3. ASSUME NEW i \in Items, TakeOff(i) PROVE ListsInv'
  BY <1>3 DEF TakeOff, Remove
<1>4. ASSUME NEW a \in AgentIds, startAgent(a) PROVE ListsInv'
  BY <1>4 DEF startAgent, AskFor, Enlist, Append1
<1>5. ASSUME NEW a \in AgentIds, restartAgent(a) PROVE ListsInv'
  BY <1>5 DEF restartAgent, Remove, Later, AskFor
<1>6. ASSUME NEW a \in AgentIds, RestartAgentTimeout(a) PROVE ListsInv'
  BY <1>6 DEF RestartAgentTimeout, Fires, Enlist, Append1
<1>. QED
  BY <1>1, <1>2, <1>3, <1>4, <1>5, <1>6 DEF ListCall, ListTimeout, unloadPlugin, stopAgent

\* Nothing else touches the lists.
LEMMA ListsNextInv == ListsInv /\ [UiNext]_uiVars => ListsInv'
<1>1. [UiNext]_uiVars => ListCall \/ ListTimeout \/ UNCHANGED listVars
  BY DEF UiNext, uiVars, startService, stopService, restartService, PressInList, ListTimerFires,
     RestartTimeout, MetricsTimeout, checkServiceStatus, ReplicaInitialized, ReplicaChanged,
     updateMetrics
<1>2. ListsInv /\ UNCHANGED listVars => ListsInv'
  BY DEF ListsInv, ListsTypeOK, Wanted, Unlisted, OnItsWay, Listed, listVars
<1>. QED
  BY <1>1, <1>2, ListStepInv

-----------------------------------------------------------------------------
\* The invariant holds in every reachable state.
THEOREM UiInvariant == UiSpec => []UiInv
<1>. QED
  BY UiInitInv, UiNextInv, PTL DEF UiSpec

\* So does that of the lists.
THEOREM ListsInvariant == UiSpec => []ListsInv
<1>1. UiInit => ListsInv
  <2>1. UiInit => ListsInit
    BY DEF UiInit
  <2>2. ASSUME ListsInit PROVE ListsInv
    BY <2>2 DEF ListsInit, ListsInv, ListsTypeOK, Wanted, Unlisted, OnItsWay, Listed
  <2>. QED
    BY <2>1, <2>2
<1>. QED
  BY <1>1, ListsNextInv, PTL DEF UiSpec

\* An item is never listed twice; when its timers are done it is listed if the last
\* call asked for it, and against the last call only if a pending timer undid that.
THEOREM ListsAreAsAsked == UiSpec => []ListsFollowCalls
<1>1. ListsInv => ListsFollowCalls
  BY DEF ListsInv, ListsTypeOK, Wanted, Unlisted, OnItsWay, Listed, ListsFollowCalls
<1>. QED
  BY <1>1, ListsInvariant, PTL

\* The types, among them that m_ipcClient is null or a client that was not deleted.
THEOREM UiTypeCorrect == UiSpec => []UiTypeOK
<1>1. UiInv /\ ListsInv => UiTypeOK
  BY DEF UiInv, ListsInv, IpcTypes, PanelTypes, UserTypes, UiTypeOK
<1>. QED
  BY <1>1, UiInvariant, ListsInvariant, PTL

\* The panel shows a connection only while some replica is initialized.
THEOREM ConnectionIsBacked == UiSpec => []ConnectedIsBacked
<1>1. UiInv => ConnectedIsBacked
  BY DEF UiInv
<1>. QED
  BY <1>1, UiInvariant, PTL

\* Without clients the panel is back to its initial state.
THEOREM CleanWhenAlone == UiSpec => []NothingLingers
<1>1. UiInv => NothingLingers
  BY DEF UiInv
<1>. QED
  BY <1>1, UiInvariant, PTL
=============================================================================
