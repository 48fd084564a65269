---------------------------- MODULE SourceProtocol ----------------------------
(***************************************************************************)
(* What the service promises the clients of its RemoteObjects source       *)
(* (local:service_ipc, property serviceStatus), with the timers, the       *)
(* plugins and the network left out: a source that opens empty, shows      *)
(* nothing but what the service does, and catches up with every change     *)
(* that lasts.                                                             *)
(*                                                                         *)
(* ServiceController implements it; IpcClient and UiManager have it as     *)
(* their environment.                                                      *)
(***************************************************************************)
VARIABLES
  up,      \* the source is offered
  paused,  \* the service is paused
  status   \* serviceStatus as a client reads it, "" for not yet published

Statuses == {"", "Running", "Paused"}

\* What the service does, in the words of the source.
Mode == IF paused THEN "Paused" ELSE "Running"

SourceInit == ~up /\ ~paused /\ status = ""

Open    == ~up /\ up' = TRUE /\ paused' = FALSE /\ status' = ""
Close   == up /\ up' = FALSE /\ status' = "" /\ UNCHANGED paused
Switch  == up /\ paused' = ~paused /\ UNCHANGED <<up, status>>
Publish == up /\ status # Mode /\ status' = Mode /\ UNCHANGED <<up, paused>>

SourceNext   == Open \/ Close \/ Switch \/ Publish
SourceSafety == SourceInit /\ [][SourceNext]_<<up, paused, status>>
SourceFairness == WF_<<up, paused, status>>(Publish)
=============================================================================
