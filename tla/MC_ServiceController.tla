------------------------- MODULE MC_ServiceController -------------------------
(***************************************************************************)
(* A small instance of ServiceController.  The metrics timer and the       *)
(* watchdog it feeds have periods in which their phases can differ; the    *)
(* heartbeat and the plugin status come with every unit of time.           *)
(***************************************************************************)
EXTENDS ServiceController

MCInterval == [k \in Kinds |->
  CASE k = "metrics" -> 2 [] k = "watchdog" -> 3 [] OTHER -> 1]

=============================================================================
