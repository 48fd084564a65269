------------------------------ MODULE IpcClient ------------------------------
(***************************************************************************)
(* Class IpcClient (src/src/core/ipc_client.cpp) and the Qt RemoteObjects  *)
(* replica inside it, with the service's source on the other side.  Each   *)
(* client has a node and a replica of its own.                             *)
(*                                                                         *)
(* A replica is initialized once the source's values arrived, and stays so *)
(* when the source goes away: it keeps the last values, and nothing emits  *)
(* IpcClient::disconnected().  When a source is there again it is brought  *)
(* up to date.                                                             *)
(*                                                                         *)
(* The source does what SourceProtocol allows, which ServiceController and *)
(* ServiceHost are shown to implement: its steps are the protocol's.       *)
(***************************************************************************)
EXTENDS Naturals

CONSTANTS
  MaxClients,  \* bound: how many IpcClient objects are made
  MaxTurns     \* bound: how often the service comes, goes, pauses or resumes

ASSUME IpcAssumption == MaxClients \in Nat \ {0} /\ MaxTurns \in Nat

VARIABLES
  sourceUp,      \* the service offers its source
  sourcePaused,  \* the service is paused
  sourceStatus,  \* the serviceStatus it publishes
  turns,         \* what the bound MaxTurns counts
  created,       \* number of clients made; a client is known by its number
  live,          \* clients with a node and a replica (m_node, m_replica)
  initialized,   \* live clients whose replica isInitialized()
  fresh,         \* initialized clients whose replica is attached to the source
  seen           \* [live -> serviceStatus their replica holds]

sourceVars == <<sourceUp, sourcePaused, sourceStatus, turns>>
clientVars == <<created, live, initialized, fresh, seen>>
ipcVars    == <<sourceVars, clientVars>>

Clients == 1..MaxClients

Service == INSTANCE SourceProtocol
             WITH up <- sourceUp, paused <- sourcePaused, status <- sourceStatus

Published == Service!Statuses

\* The clients start whenever they like, in any state the protocol can be in.
IpcInit ==
  /\ sourceUp \in BOOLEAN /\ sourcePaused \in BOOLEAN
  /\ sourceStatus \in IF sourceUp THEN Published ELSE {""}
  /\ turns = 0

-----------------------------------------------------------------------------
(* The source *)

Turn == turns < MaxTurns /\ turns' = turns + 1

SourceAppears == Turn /\ Service!Open /\ UNCHANGED clientVars

ServiceSwitches == Turn /\ Service!Switch /\ UNCHANGED clientVars

SourcePublishes == Service!Publish /\ UNCHANGED <<turns, clientVars>>

\* The process may end without a word: the replicas are left as they are.
SourceVanishes ==
  /\ Turn /\ Service!Close
  /\ fresh' = {}
  /\ UNCHANGED <<created, live, initialized, seen>>

Source == SourceAppears \/ ServiceSwitches \/ SourcePublishes \/ SourceVanishes

-----------------------------------------------------------------------------
(* The client *)

\* A new IpcClient, and connectToService() on it.  The replica holds the default
\* value until the source's arrive.
OpenClient ==
  /\ created < MaxClients
  /\ created' = created + 1
  /\ live' = live \cup {created'}
  /\ seen' = [c \in live' |-> IF c \in live THEN seen[c] ELSE ""]
  /\ UNCHANGED <<sourceVars, initialized, fresh>>

\* disconnectFromService(): the replica and the node are deleted.
CloseClient(c) ==
  /\ live' = live \ {c}
  /\ initialized' = initialized \ {c} /\ fresh' = fresh \ {c}
  /\ seen' = [d \in live' |-> seen[d]]
  /\ UNCHANGED <<sourceVars, created>>

isConnected(c) == c \in initialized

\* The replica attaches to the source and takes over its values.
Attach(c) ==
  /\ sourceUp
  /\ c \in live \ fresh
  /\ initialized' = initialized \cup {c} /\ fresh' = fresh \cup {c}
  /\ seen' = [seen EXCEPT ![c] = sourceStatus]
  /\ UNCHANGED <<sourceVars, created, live>>

\* A change of the source's status reaches the replica.
Refresh(c) ==
  /\ c \in fresh
  /\ seen[c] # sourceStatus
  /\ seen' = [seen EXCEPT ![c] = sourceStatus]
  /\ UNCHANGED <<sourceVars, created, live, initialized, fresh>>
=============================================================================
