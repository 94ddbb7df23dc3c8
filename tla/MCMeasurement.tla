--------------------------- MODULE MCMeasurement ---------------------------
(* Instances of Measurement for TLC. *)
EXTENDS Measurement

\* All bits or that of the water level are cleared.
SomeErrorWrites ==
    {[mask |-> m, value |-> {}] : m \in {Errors, {"WATER_LEVEL"}}}
=============================================================================
