--------------------------- MODULE MCStageMonitor ---------------------------
(***************************************************************************)
(* One unit under supervision; the configurations choose the timers and    *)
(* whether probes may fail.                                                *)
(***************************************************************************)
EXTENDS StageMonitor
=============================================================================
