---------------------------- MODULE MCCanaryGate ----------------------------
(***************************************************************************)
(* One subject: subjects share nothing but the telemetry.                  *)
(***************************************************************************)
EXTENDS CanaryGate

OneSubject == [u \in Units |-> "math"]
=============================================================================
