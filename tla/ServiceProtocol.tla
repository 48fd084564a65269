--------------------------- MODULE ServiceProtocol ---------------------------
(***************************************************************************)
(* What a Windows service promises the service control manager: the        *)
(* sequence of states it reports.  It is what the handler in               *)
(* src/src/components/service/service.cpp is written to produce, with the  *)
(* threads, the event and the controller left out.  ServiceHost implements *)
(* it.                                                                     *)
(***************************************************************************)
VARIABLE state

States == {"START_PENDING", "RUNNING", "PAUSE_PENDING", "PAUSED",
           "CONTINUE_PENDING", "STOP_PENDING", "STOPPED"}

Goto(from, to) == state = from /\ state' = to

ProtocolInit == state = "START_PENDING"

StartCompletes == Goto("START_PENDING", "RUNNING")
StartFails     == Goto("START_PENDING", "STOPPED")

PauseBegins    == Goto("RUNNING", "PAUSE_PENDING")
ContinueBegins == Goto("PAUSED", "CONTINUE_PENDING")
StopBegins     == Goto("RUNNING", "STOP_PENDING")

\* A pending control is completed, by the state it was asked for and no other.
ControlCompletes ==
  \/ Goto("PAUSE_PENDING", "PAUSED")
  \/ Goto("CONTINUE_PENDING", "RUNNING")
  \/ Goto("STOP_PENDING", "STOPPED")

ProtocolNext ==
  \/ StartCompletes \/ StartFails
  \/ PauseBegins \/ ContinueBegins \/ StopBegins
  \/ ControlCompletes

\* Once begun, a control is carried through.  Nothing is promised of the start:
\* without a status handle the service cannot report at all.
ProtocolSpec ==
  ProtocolInit /\ [][ProtocolNext]_state /\ WF_state(ControlCompletes)
=============================================================================
