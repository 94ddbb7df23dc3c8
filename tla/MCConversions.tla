--------------------------- MODULE MCConversions ---------------------------
(* Instances of Conversions for TLC. *)
EXTENDS Conversions

\* The ADC's samples between 1.6 V and 3.3 V, thinned out.
SomeSamples == {455 + 9 * i : i \in 0 .. 54}

\* -40 to 85 degrees: a quarter each around zero, fewer beyond.
SomeQuarters == {q \in -160 .. 340 : q \in -12 .. 12 \/ q % 20 \in {0, 7}}

\* Pulses up to the 12 ms of the echo timeout.
SomePulses == {n \in 0 .. 393 : n < 6 \/ n % 40 = 13}
=============================================================================
