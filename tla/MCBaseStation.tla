--------------------------- MODULE MCBaseStation ---------------------------
(* Instances of BaseStation for TLC. *)
EXTENDS BaseStation
=============================================================================
