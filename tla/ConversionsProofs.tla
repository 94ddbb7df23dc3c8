------------------------- MODULE ConversionsProofs -------------------------
(***************************************************************************)
(* Proofs about Conversions, for every sample, temperature and pulse in    *)
(* the ranges of ConversionAssumption and every width of the words.        *)
(***************************************************************************)
EXTENDS Conversions, TLAPS

----------------------------------------------------------------------------
(* The conversions. *)

\* The bound as a fact: unfolded in a range, it would be enumerated.
LEMMA LargestWord == MaxU16 = 65535
BY DEF MaxU16

\* What goes into a sensor_value in thousandths comes out of it.
LEMMA MilliOfValue ==
    ASSUME NEW n \in Nat
    PROVE  Milli(SensorValue(n)) = n
<1>1. n % 1000 = n - 1000 * (n \div 1000) /\ n % 1000 \in Nat
    BY SMT
<1> DEFINE r == n % 1000
<1>2. r \in Nat
    BY <1>1
<1> HIDE DEF r
<1>3. (r * 1000) \div 1000 = r
    BY SMT, <1>2
<1> QED
    BY SMT, <1>1, <1>3 DEF Milli, SensorValue, r

LEMMA DistanceExact ==
    ASSUME NEW n \in Nat, n <= 12000
    PROVE  /\ DistanceOf(n) \in 0 .. MaxU16
           /\ DistanceOf(n) * NsPerMm * 64 <= n * 1953125
           /\ n * 1953125 < (DistanceOf(n) + 1) * NsPerMm * 64
<1> DEFINE ns == Nanoseconds(n)
           mm == ns \div NsPerMm
<1>1. ns \in Nat /\ ns * 64 <= n * 1953125 /\ n * 1953125 < (ns + 1) * 64
    BY SMT DEF Nanoseconds
<1> HIDE DEF ns
<1>2. mm \in Nat /\ mm * 5882 <= ns /\ ns + 1 <= (mm + 1) * 5882
    BY SMT, <1>1 DEF NsPerMm
<1> HIDE DEF mm
<1>3. mm < 65536
    BY SMT, <1>1, <1>2
<1>4. mm % 65536 = mm
    BY SMT, <1>2, <1>3
<1>5. DistanceOf(n) = mm
    BY SMT, <1>2, <1>4, MilliOfValue DEF DistanceOf, mm, ns
<1>6. mm * NsPerMm * 64 <= n * 1953125 /\ n * 1953125 < (mm + 1) * NsPerMm * 64
    BY SMT, <1>1, <1>2 DEF NsPerMm
<1> QED
    BY SMT, <1>2, <1>3, <1>5, <1>6, LargestWord

LEMMA TemperatureExact ==
    ASSUME NEW q \in Int, -1310 <= q, q <= 1310
    PROVE  TemperatureOf(q) = 25 * q
<1>1. CASE q >= 0
  <2>1. /\ Quotient(q * 250000, 1000000) = q \div 4
        /\ Remainder(q * 250000, 1000000) = (q % 4) * 250000
      BY SMT, <1>1 DEF Quotient, Remainder
  <2>2. Quotient((q % 4) * 250000, 10000) = (q % 4) * 25
      BY SMT, <1>1 DEF Quotient
  <2> QED
      BY SMT, <1>1, <2>1, <2>2 DEF TemperatureOf, TemperatureValue, Clamp
<1>2. CASE q < 0
  <2> DEFINE p == -q
  <2>0. p \in Nat /\ p <= 1310 /\ p >= 1
      BY SMT, <1>2
  <2>1. /\ Quotient(q * 250000, 1000000) = -(p \div 4)
        /\ Remainder(q * 250000, 1000000) = -((p % 4) * 250000)
      BY SMT, <1>2 DEF Quotient, Remainder
  <2>2. Quotient(-((p % 4) * 250000), 10000) = -((p % 4) * 25)
      BY SMT, <2>0 DEF Quotient
  <2> QED
      BY SMT, <1>2, <2>0, <2>1, <2>2 DEF TemperatureOf, TemperatureValue, Clamp
<1> QED
    BY SMT, <1>1, <1>2

\* The two's complement of temperature_get is undone by sensor.rs.
LEMMA DecodedExact ==
    ASSUME NEW t \in Int, -32768 <= t, t <= 32767
    PROVE  t % 65536 \in 0 .. MaxU16 /\ Decoded(t % 65536) = t
<1>1. CASE t >= 0
  <2>1. t % 65536 = t
      BY SMT, <1>1
  <2> QED
      BY SMT, <1>1, <2>1, LargestWord DEF Decoded
<1>2. CASE t < 0
  <2>1. t % 65536 = t + 65536
      BY SMT, <1>2
  <2> QED
      BY SMT, <1>2, <2>1, LargestWord DEF Decoded
<1> QED
    BY SMT, <1>1, <1>2

LEMMA LevelBounds ==
    ASSUME NEW mv \in Nat
    PROVE  LevelOf(mv) \in 0 .. 100
<1> DEFINE wrapped == ((mv - Empty) * 100) % WordModulus
<1>1. wrapped \in Nat
    BY SMT, ConversionAssumption DEF Empty
<1> HIDE DEF wrapped
<1>2. wrapped \div (Full - Empty) \in Nat
    BY SMT, <1>1 DEF Full, Empty
<1> QED
    BY SMT, <1>2 DEF LevelOf, MinOf, wrapped

LEMMA VoltageBounds ==
    ASSUME NEW s \in Nat, s <= 1023
    PROVE  /\ VoltageOf(s) \in 0 .. MaxU16
           /\ VoltageOf(s) \in Nat /\ VoltageOf(s) <= 65535
<1> DEFINE mv == (s * 1200 * 3) \div 1024
<1>1. mv \in Nat
    BY SMT
<1>2. Milli(SupplyValue(s)) = mv
    BY <1>1, MilliOfValue DEF SupplyValue
<1> HIDE DEF mv
<1> QED
    BY SMT, <1>1, <1>2, LargestWord DEF VoltageOf, MinOf

----------------------------------------------------------------------------
(* The characteristics. *)

\* What the properties say, and why: each value is of one conversion.
ConversionInv ==
    /\ TypeOK
    /\ TemperatureArrives
    /\ DistanceArrives

LEMMA ConversionInit == Init => ConversionInv
BY SMT, LargestWord DEF Init, ConversionInv, TypeOK, TemperatureArrives, DistanceArrives, Decoded,
       NsPerMm

LEMMA TypeStep == TypeOK /\ [Next]_vars => TypeOK'
<1> SUFFICES ASSUME TypeOK, [Next]_vars PROVE TypeOK'
    OBVIOUS
<1>1. CASE BatteryUpdate
  <2>1. PICK s \in Samples : voltage' = VoltageOf(s) /\ level' = LevelOf(VoltageOf(s))
      BY SMT, <1>1 DEF BatteryUpdate
  <2>2. s \in Nat /\ s <= 1023
      BY SMT, ConversionAssumption
  <2>3. VoltageOf(s) \in 0 .. MaxU16 /\ VoltageOf(s) \in Nat
      BY SMT, <2>2, VoltageBounds
  <2>4. LevelOf(VoltageOf(s)) \in 0 .. 100
      BY <2>3, LevelBounds
  <2> QED
      BY SMT, <1>1, <2>1, <2>3, <2>4 DEF BatteryUpdate, TypeOK
<1>2. CASE TemperatureUpdate
  <2>1. PICK q \in Quarters : temperature' = TemperatureOf(q) % 65536 /\ quarters' = q
      BY SMT, <1>2 DEF TemperatureUpdate
  <2>2. q \in Int /\ -1310 <= q /\ q <= 1310
      BY SMT, ConversionAssumption
  <2>3. TemperatureOf(q) \in Int /\ -32768 <= TemperatureOf(q) /\ TemperatureOf(q) <= 32767
      BY SMT, <2>2, TemperatureExact
  <2>4. TemperatureOf(q) % 65536 \in 0 .. MaxU16
      BY SMT, <2>3, DecodedExact
  <2> QED
      BY SMT, <1>2, <2>1, <2>2, <2>4 DEF TemperatureUpdate, TypeOK
<1>3. CASE DistanceUpdate
  <2>1. pulse' \in Nat /\ pulse' <= 12000 /\ distance' = DistanceOf(pulse')
      BY SMT, <1>3, ConversionAssumption DEF DistanceUpdate
  <2>2. DistanceOf(pulse') \in 0 .. MaxU16
      BY SMT, <2>1, DistanceExact
  <2> QED
      BY SMT, <1>3, <2>1, <2>2 DEF DistanceUpdate, TypeOK
<1>4. CASE UNCHANGED vars
    BY SMT, <1>4 DEF vars, TypeOK
<1> QED
    BY SMT, <1>1, <1>2, <1>3, <1>4 DEF Next

LEMMA TemperatureStep == TemperatureArrives /\ [Next]_vars => TemperatureArrives'
<1> SUFFICES ASSUME TemperatureArrives, [Next]_vars PROVE TemperatureArrives'
    OBVIOUS
<1>1. CASE TemperatureUpdate
  <2>1. PICK q \in Quarters : temperature' = TemperatureOf(q) % 65536 /\ quarters' = q
      BY SMT, <1>1 DEF TemperatureUpdate
  <2>2. q \in Int /\ -1310 <= q /\ q <= 1310
      BY SMT, ConversionAssumption
  <2>3. TemperatureOf(q) = 25 * q
      BY SMT, <2>2, TemperatureExact
  <2>4. TemperatureOf(q) \in Int /\ -32768 <= TemperatureOf(q) /\ TemperatureOf(q) <= 32767
      BY SMT, <2>2, <2>3
  <2>5. Decoded(TemperatureOf(q) % 65536) = TemperatureOf(q)
      BY SMT, <2>4, DecodedExact
  <2> QED
      BY SMT, <2>1, <2>3, <2>5 DEF TemperatureArrives
<1>2. CASE UNCHANGED <<temperature, quarters>>
    BY SMT, <1>2 DEF TemperatureArrives
<1> QED
    BY SMT, <1>1, <1>2 DEF Next, BatteryUpdate, DistanceUpdate, vars

LEMMA DistanceStep == DistanceArrives /\ [Next]_vars => DistanceArrives'
<1> SUFFICES ASSUME DistanceArrives, [Next]_vars PROVE DistanceArrives'
    OBVIOUS
<1>1. CASE DistanceUpdate
  <2>1. pulse' \in Nat /\ pulse' <= 12000 /\ distance' = DistanceOf(pulse')
      BY SMT, <1>1, ConversionAssumption DEF DistanceUpdate
  <2>2. /\ DistanceOf(pulse') * NsPerMm * 64 <= pulse' * 1953125
        /\ pulse' * 1953125 < (DistanceOf(pulse') + 1) * NsPerMm * 64
      BY SMT, <2>1, DistanceExact
  <2> QED
      BY SMT, <2>1, <2>2 DEF DistanceArrives
<1>2. CASE UNCHANGED <<distance, pulse>>
    BY SMT, <1>2 DEF DistanceArrives
<1> QED
    BY SMT, <1>1, <1>2 DEF Next, BatteryUpdate, TemperatureUpdate, vars

LEMMA ConversionStep == ConversionInv /\ [Next]_vars => ConversionInv'
BY TypeStep, TemperatureStep, DistanceStep DEF ConversionInv

LEMMA ConversionAlways == Spec => []ConversionInv
BY ConversionInit, ConversionStep, PTL DEF Spec

\* Every characteristic keeps to its range, the level to a percentage, also
\* where battery_update's difference wraps.
THEOREM TypeCorrect == Spec => []TypeOK
<1>1. ConversionInv => TypeOK
    BY DEF ConversionInv
<1> QED
    BY <1>1, ConversionAlways, PTL

\* The base station gets the temperature that was measured, to the hundredth
\* of a degree, of either sign, for every quarter that fits the 16 bits.
THEOREM TemperatureKept == Spec => []TemperatureArrives
<1>1. ConversionInv => TemperatureArrives
    BY DEF ConversionInv
<1> QED
    BY <1>1, ConversionAlways, PTL

\* The base station gets the whole millimetres of the pulse: nothing is lost
\* between the driver's cycles, its sensor_value and the characteristic.
THEOREM DistanceKept == Spec => []DistanceArrives
<1>1. ConversionInv => DistanceArrives
    BY DEF ConversionInv
<1> QED
    BY <1>1, ConversionAlways, PTL

----------------------------------------------------------------------------
(* The battery.                                                             *)

\* At and above the empty voltage nothing wraps.
LEMMA LevelAbove ==
    ASSUME NEW mv \in Nat, Empty <= mv, mv <= 65535
    PROVE  LevelOf(mv) = MinOf(((mv - 1800) * 100) \div 1400, 100)
<1>1. (mv - Empty) * 100 \in Nat /\ (mv - Empty) * 100 < WordModulus
    BY SMT, ConversionAssumption DEF Empty
<1>2. ((mv - Empty) * 100) % WordModulus = (mv - Empty) * 100
    BY SMT, <1>1, ConversionAssumption
<1> QED
    BY SMT, <1>2 DEF LevelOf, Full, Empty

LEMMA LevelMonotone ==
    ASSUME NEW m \in Nat, NEW n \in Nat, Empty <= m, m <= n, n <= 65535
    PROVE  LevelOf(m) <= LevelOf(n)
<1>1. /\ LevelOf(m) = MinOf(((m - 1800) * 100) \div 1400, 100)
      /\ LevelOf(n) = MinOf(((n - 1800) * 100) \div 1400, 100)
    BY SMT, LevelAbove DEF Empty
<1> DEFINE a == ((m - 1800) * 100) \div 1400
           b == ((n - 1800) * 100) \div 1400
<1>2. a \in Int /\ b \in Int /\ a <= b
    BY SMT DEF Empty
<1> HIDE DEF a, b
<1> QED
    BY SMT, <1>1, <1>2 DEF MinOf, a, b

\* After an update the level is that of the voltage beside it.
LevelInv == /\ voltage \in Nat /\ voltage <= 65535
            /\ voltage = 0 \/ level = LevelOf(voltage)

LEMMA BatteryStep ==
    ASSUME BatteryUpdate
    PROVE  /\ voltage' \in Nat /\ voltage' <= 65535
           /\ level' = LevelOf(voltage')
<1>1. PICK s \in Samples : voltage' = VoltageOf(s) /\ level' = LevelOf(VoltageOf(s))
    BY DEF BatteryUpdate
<1>2. s \in Nat /\ s <= 1023
    BY SMT, ConversionAssumption
<1> QED
    BY SMT, <1>1, <1>2, VoltageBounds

LEMMA LevelStep == LevelInv /\ [Next]_vars => LevelInv'
<1> SUFFICES ASSUME LevelInv, [Next]_vars PROVE LevelInv'
    OBVIOUS
<1>1. CASE BatteryUpdate
    BY SMT, <1>1, BatteryStep DEF LevelInv
<1>2. CASE UNCHANGED <<voltage, level>>
    BY SMT, <1>2 DEF LevelInv
<1> QED
    BY <1>1, <1>2 DEF Next, TemperatureUpdate, DistanceUpdate, vars

\* From the empty voltage on a higher voltage never reads as less charge, in
\* unsigned words wide enough for the product.
THEOREM LevelFollows == Spec => LevelFollowsVoltage
<1>1. Init => LevelInv
    BY SMT DEF Init, LevelInv
<1>2. ASSUME LevelInv, [Next]_vars
      PROVE  [Empty <= voltage /\ voltage <= voltage' => level <= level']_vars
  <2> SUFFICES ASSUME Next, Empty <= voltage, voltage <= voltage'
               PROVE  level <= level'
      BY <1>2
  <2>1. level = LevelOf(voltage)
      BY SMT, <1>2 DEF LevelInv, Empty
  <2>2. CASE BatteryUpdate
      BY SMT, <1>2, <2>1, <2>2, BatteryStep, LevelMonotone DEF LevelInv
  <2>3. CASE UNCHANGED level
    <3>1. LevelOf(voltage) \in 0 .. 100
        BY <1>2, LevelBounds DEF LevelInv
    <3> QED
        BY SMT, <2>1, <2>3, <3>1
  <2> QED
      BY <2>2, <2>3 DEF Next, TemperatureUpdate, DistanceUpdate
<1> QED
    BY <1>1, <1>2, LevelStep, PTL DEF Spec, LevelFollowsVoltage
=============================================================================
