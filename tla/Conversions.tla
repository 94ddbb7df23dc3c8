---------------------------- MODULE Conversions ----------------------------
(***************************************************************************)
(* What the numbers mean on their way from the converters of the sensor to *)
(* the base station: the supply voltage (nrfx_adc_supply.c, battery.c),    *)
(* the die temperature (temperature.c) and the distance (jsn_sr04t.c,      *)
(* water_level.c), as the GATT characteristics hold them and as sensor.rs  *)
(* decodes them.  Unsigned arithmetic wraps.                               *)
(***************************************************************************)
EXTENDS Integers

CONSTANTS
    Samples,      \* conversions of the 10-bit ADC
    Quarters,     \* die temperatures, in quarters of a degree
    Pulses,       \* widths of echo pulses, in cycles of the system clock
    WordModulus   \* uint32_t counts modulo this

ASSUME ConversionAssumption ==
    /\ \A s \in Samples : s \in Nat /\ s <= 1023
    \* Hundredths of a degree fit 16 bits, and so do the millimetres of a
    \* third of a second.
    /\ \A q \in Quarters : q \in Int /\ -1310 <= q /\ q <= 1310
    /\ \A n \in Pulses : n \in Nat /\ n <= 12000
    /\ WordModulus \in Nat /\ WordModulus > 100 * 65536

VARIABLES
    voltage,      \* battery: state.voltage, mV
    level,        \* battery: state.level, %
    temperature,  \* state.temperature, as the characteristic's uint16_t
    quarters,     \* history: the temperature that was measured
    distance,     \* state.water_distance, mm
    pulse         \* history: the pulse that was measured

vars == <<voltage, level, temperature, quarters, distance, pulse>>

Empty == 1800    \* BATTERY_EMPTY_MILLIVOLTS
Full == 3200     \* BATTERY_FULL_MILLIVOLTS
MaxU16 == 65535  \* UINT16_MAX

----------------------------------------------------------------------------
MinOf(a, b) == IF a < b THEN a ELSE b

\* A sensor_value holds a number as whole units and millionths; thousandths
\* go in and come out.
SensorValue(milli) == [val1 |-> milli \div 1000, val2 |-> (milli % 1000) * 1000]

\* Mutant of Milli: val2 is taken for thousandths.
MilliOfThousandths(v) == v.val1 * 1000 + v.val2

Milli(v) == v.val1 * 1000 + v.val2 \div 1000

\* nrfx_adc_supply_sample_fetch and _channel_get: a third of the supply against 1200 mV.
SupplyValue(sample) == SensorValue((sample * 1200 * 3) \div 1024)

\* battery_update, in uint32_t: below Empty the difference wraps.
VoltageOf(sample) == MinOf(Milli(SupplyValue(sample)), MaxU16)
\* Mutant of LevelOf: a full battery reads more than full.
LevelOfUnbounded(mv) == (((mv - Empty) * 100) % WordModulus) \div (Full - Empty)

\* Mutant of LevelOf: the product is taken in 16 bits.
LevelOfShort(mv) == MinOf((((mv - Empty) * 100) % 65536) \div (Full - Empty), 100)

LevelOf(mv) == MinOf((((mv - Empty) * 100) % WordModulus) \div (Full - Empty), 100)

\* C division truncates toward zero.
Quotient(a, b) == IF a >= 0 THEN a \div b ELSE -((-a) \div b)
Remainder(a, b) == a - b * Quotient(a, b)

\* The driver's sensor_value of a temperature, and temperature_update's
\* number for it, bounded to 16 bits.
TemperatureValue(q) == [val1 |-> Quotient(q * 250000, 1000000),
                        val2 |-> Remainder(q * 250000, 1000000)]
Clamp(n, lo, hi) == IF n < lo THEN lo ELSE IF n > hi THEN hi ELSE n
TemperatureOf(q) ==
    LET v == TemperatureValue(q)
    IN  Clamp(v.val1 * 100 + Quotient(v.val2, 10000), -32768, 32767)

\* Mutant of Decoded: an u16 is read.
DecodedUnsigned(word) == word

\* sensor.rs reads an i16 in hundredths of a degree.
Decoded(word) == IF word >= 32768 THEN word - 65536 ELSE word

\* k_cyc_to_ns_floor32: the system clock of the nRF ticks at 32768 Hz.
Nanoseconds(n) == (n * 1953125) \div 64
NsPerMm == 5882

\* sr04t_sample_fetch and _channel_get, water_level_update and the getter.
DistanceOf(n) == Milli(SensorValue((Nanoseconds(n) \div NsPerMm) % 65536)) % 65536

----------------------------------------------------------------------------
Init ==
    /\ voltage = 0
    /\ level = 0
    /\ temperature = 0
    /\ quarters = 0
    /\ distance = 0
    /\ pulse = 0

BatteryUpdate ==
    /\ \E s \in Samples : /\ voltage' = VoltageOf(s)
                          /\ level' = LevelOf(VoltageOf(s))
    /\ UNCHANGED <<temperature, quarters, distance, pulse>>

\* temperature_get casts to uint16_t.
TemperatureUpdate ==
    /\ \E q \in Quarters : /\ temperature' = TemperatureOf(q) % 65536
                           /\ quarters' = q
    /\ UNCHANGED <<voltage, level, distance, pulse>>

\* One sample; the filter over several is Measurement's.
DistanceUpdate ==
    /\ pulse' \in Pulses
    /\ distance' = DistanceOf(pulse')
    /\ UNCHANGED <<voltage, level, temperature, quarters>>

Next == BatteryUpdate \/ TemperatureUpdate \/ DistanceUpdate

Spec == Init /\ [][Next]_vars

----------------------------------------------------------------------------
(* Properties. *)

\* Every variable stays in its range: the level is a percentage.
TypeOK ==
    /\ voltage \in 0 .. MaxU16
    /\ level \in 0 .. 100
    /\ temperature \in 0 .. MaxU16
    /\ quarters \in Int
    /\ distance \in 0 .. MaxU16
    /\ pulse \in Nat

\* From the empty voltage on, a higher voltage never reads as less charge.
LevelFollowsVoltage ==
    [][Empty <= voltage /\ voltage <= voltage' => level <= level']_vars

\* The base station gets the temperature that was measured, of either sign,
\* to the hundredth of a degree.
TemperatureArrives == Decoded(temperature) = 25 * quarters

\* The base station gets the whole millimetres that sound covers in the time
\* of the pulse: nothing is lost in nanoseconds, the two fields of the
\* sensor_value and the 16 bits.
DistanceArrives ==
    /\ distance * NsPerMm * 64 <= pulse * 1953125
    /\ pulse * 1953125 < (distance + 1) * NsPerMm * 64

\* battery.h: "percent of the battery remaining (0-100)": nothing remains
\* below the empty voltage.
EmptyReadsEmpty == voltage < Empty => level = 0
=============================================================================
