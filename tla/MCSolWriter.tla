---------------------------- MODULE MCSolWriter ----------------------------
(***************************************************************************)
(* A legacy subject has the batch of the v1 release and no other.          *)
(***************************************************************************)
EXTENDS SolWriter

LunaBatches == [s \in Subjects |-> IF s \in Legacy THEN 0 ELSE 2]
=============================================================================
