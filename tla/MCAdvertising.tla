--------------------------- MODULE MCAdvertising ---------------------------
(* Instances of Advertising for TLC. *)
EXTENDS Advertising, TLC

\* The base station's write: four zero bytes.
ClearAll == {[mask |-> Bits, value |-> {}]}

\* Any write that covers NEW_DATA, the other bits, or both.
AnyWrite == {w \in [mask : SUBSET Bits, value : SUBSET Bits] :
                w.mask # {} /\ w.value \subseteq w.mask}

Symmetry == Permutations(Clients)
=============================================================================
