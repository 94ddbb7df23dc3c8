--------------------------- MODULE MCRangefinder ---------------------------
(* Instances of Rangefinder for TLC. *)
EXTENDS Rangefinder
=============================================================================
