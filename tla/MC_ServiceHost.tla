---------------------------- MODULE MC_ServiceHost ----------------------------
(***************************************************************************)
(* A small instance of ServiceHost.  All four periods are one loop pass:   *)
(* their phases are the subject of MC_ServiceController, here only that    *)
(* every pass serves the timers in some order matters.                     *)
(***************************************************************************)
EXTENDS ServiceHost

MCInterval == [k \in Kinds |-> 1]
=============================================================================
