-------------------------- MODULE SupervisorProofs --------------------------
(***************************************************************************)
(* Supervisor's invariants hold for every delay, burst and interval: a     *)
(* late adapter is waited for Burst - 1 delays, and a service that lives   *)
(* long enough each time never meets the start limit.                      *)
(***************************************************************************)
EXTENDS Supervisor, TLAPS

Cycle == LongLife + RestartSec

\* The constants without their products.
LEMMA Sizes ==
    /\ RestartSec \in Nat /\ Burst \in Nat \ {0}
    /\ Interval \in Nat /\ LongLife \in Nat
    /\ Cycle \in Nat /\ Cycle = LongLife + RestartSec
    /\ LastStart \in Nat /\ Never = LastStart + 2
<1>1. (Burst - 1) * RestartSec \in Nat
    BY TimesAssumption
<1> QED BY <1>1, TimesAssumption DEF Cycle, LastStart, Never

LEMMA Capped ==
    ASSUME NEW bound \in Nat, NEW n \in 0 .. bound
    PROVE  /\ CappedAt(n, bound) \in 0 .. bound
           /\ CappedAt(n, bound) = bound \/ CappedAt(n, bound) = n + 1
           /\ CappedAt(n, bound) <= n + 1
BY DEF CappedAt

----------------------------------------------------------------------------
(* Types. *)

LEMMA TypeInit == Init => TypeOK
<1> SUFFICES ASSUME Init PROVE TypeOK
    OBVIOUS
<1>1. appeared \in 0 .. LastStart + 1 \cup {Never}
    BY Sizes DEF Init
<1>2. /\ starts \in 1 .. Burst /\ clock \in 0 .. LastStart + 1
      /\ life \in 0 .. LongLife + RestartSec /\ window \in 0 .. Interval + 1
    BY Sizes DEF Init
<1> QED BY <1>1, <1>2 DEF Init, TypeOK, Running, StartUp

LEMMA TypeStep == TypeOK /\ [Next]_vars => TypeOK'
<1> SUFFICES ASSUME TypeOK, [Next]_vars PROVE TypeOK'
    OBVIOUS
<1> USE DEF TypeOK, Running, StartUp
<1>1. CASE Program
    <2>1. CASE Fails
        BY <2>1, Sizes DEF Fails, Exits, world, limiter
    <2>2. ASSUME NEW next \in Running, Proceed(next) PROVE TypeOK'
        BY <2>2, Sizes DEF Proceed, world, limiter
    <2> QED
        BY <1>1, <2>1, <2>2
           DEF Program, ReadConfig, FindAdapter, FindSensor, SensorName
<1>2. CASE Crash
    BY <1>2, Sizes DEF Crash, Exits, world, limiter
<1>3. CASE Restart
    BY <1>3, Sizes DEF Restart, Allowed, world, limiter
<1>4. CASE AdapterAppears \/ AdapterVanishes
    BY <1>4 DEF AdapterAppears, AdapterVanishes, limiter
<1>5. CASE Tick
    BY <1>5, Sizes, Capped DEF Tick
<1>6. CASE UNCHANGED vars
    BY <1>6 DEF vars
<1> QED BY <1>1, <1>2, <1>3, <1>4, <1>5, <1>6 DEF Next

\* Every variable stays in its range.
THEOREM TypeCorrect == Spec => []TypeOK
BY TypeInit, TypeStep, PTL DEF Spec

----------------------------------------------------------------------------
(* A late adapter.  Inductive: the starts so far have taken their delays,  *)
(* so at the last one the clock has come to LastStart; and that one fails   *)
(* only for want of the adapter.                                            *)

Fine == config /\ paired /\ ~flaky
Delays(n) == (n - 1) * RestartSec  \* the delays before the n-th start

LEMMA DelaysSum ==
    /\ \A n \in Nat \ {0} : /\ Delays(n) \in Nat
                            /\ Delays(n + 1) = Delays(n) + RestartSec
    /\ Delays(1) = 0 /\ Delays(Burst) = LastStart
BY TimesAssumption DEF Delays, LastStart

LateInv ==
    /\ \/ clock = LastStart + 1
       \/ /\ clock >= Delays(starts)
          /\ at = "delay" => clock >= Delays(starts) + life
    /\ adapter => appeared # Never
    /\ ~flaky /\ ~adapter => appeared = Never
    /\ at = "down" => starts = Burst
    /\ Fine /\ starts = Burst /\ at \in {"delay", "down"} => appeared >= LastStart

LEMMA LateInit == Init => LateInv
BY Sizes, DelaysSum DEF Init, LateInv, Fine

LEMMA LateStep == TypeOK /\ LateInv /\ [Next]_vars => LateInv'
<1> SUFFICES ASSUME TypeOK, LateInv, [Next]_vars PROVE LateInv'
    OBVIOUS
<1> USE DEF LateInv, Fine
<1>t. /\ RestartSec \in Nat /\ Burst \in Nat \ {0} /\ starts \in 1 .. Burst
      /\ life \in Nat /\ clock \in 0 .. LastStart + 1
      /\ appeared \in 0 .. LastStart + 1 \cup {Never}
    BY Sizes DEF TypeOK
<1>m. Delays(starts) \in Nat
    BY <1>t, DelaysSum
<1>1. CASE Program
    <2>1. /\ UNCHANGED <<config, paired, adapter, clock, appeared, starts, flaky>>
          /\ at # "delay" /\ at' # "down"
        BY <1>1 DEF Program, ReadConfig, FindAdapter, FindSensor, SensorName,
                    Proceed, Fails, Exits, world, limiter
    <2>2. at' = "delay" => life' = 0
        BY <1>1 DEF Program, ReadConfig, FindAdapter, FindSensor, SensorName,
                    Proceed, Fails, Exits
    <2>3. at' = "delay" /\ Fine => ~adapter
        BY <1>1 DEF Program, ReadConfig, FindAdapter, FindSensor, SensorName,
                    Proceed, Fails, Exits
    <2> QED BY <1>t, <1>m, <2>1, <2>2, <2>3, Sizes
<1>2. CASE Crash
    BY <1>2, <1>t, <1>m DEF Crash, Exits, world, limiter
<1>3. CASE Restart
    <2>0. UNCHANGED <<config, paired, adapter, clock, appeared, flaky>>
          /\ at = "delay" /\ life >= RestartSec /\ life' = 0
        BY <1>3 DEF Restart, Delay, world
    <2>1. CASE NewWindow /\ at' = "config" /\ starts' = 1
        <3>1. Delays(starts') = 0
            BY <2>1, DelaysSum
        <3> QED BY <1>t, <2>0, <2>1, <3>1
    <2>2. CASE ~NewWindow /\ at' = "config" /\ starts' = starts + 1
        <3>1. Delays(starts') = Delays(starts) + RestartSec
            BY <1>t, <2>2, DelaysSum
        <3> QED BY <1>t, <1>m, <2>0, <2>2, <3>1
    <2>3. CASE ~Allowed /\ at' = "down" /\ starts' = starts
        BY <1>t, <1>m, <2>0, <2>3 DEF Allowed
    <2> QED BY <1>3, <2>1, <2>2, <2>3 DEF Restart, limiter
<1>4. CASE AdapterAppears
    <2>1. starts = Burst => clock >= LastStart
        BY <1>t, <1>m, DelaysSum, Sizes
    <2> QED BY <1>4, <1>t, <1>m, <2>1, Sizes DEF AdapterAppears, limiter
<1>5. CASE AdapterVanishes
    BY <1>5, <1>t, <1>m DEF AdapterVanishes, limiter
<1>6. CASE Tick
    <2>1. /\ UNCHANGED <<at, config, paired, adapter, starts, appeared, flaky>>
          /\ clock' = LastStart + 1 \/ clock' = clock + 1
          /\ clock' \in 0 .. LastStart + 1
          /\ life' <= life + 1 /\ life' \in Nat
        BY <1>6, Sizes, Capped DEF Tick, TypeOK
    <2> QED BY <1>t, <1>m, <2>1, Sizes
<1>7. CASE UNCHANGED vars
    BY <1>7 DEF vars
<1> QED BY <1>1, <1>2, <1>3, <1>4, <1>5, <1>6, <1>7 DEF Next

\* A service that only lacked its adapter, and was given up, got it no sooner
\* than Burst - 1 delays after its first start.
THEOREM LateAdapter == Spec => []LateAdapterTolerated
<1>1. LateInv => LateAdapterTolerated
    BY DEF LateInv, LateAdapterTolerated, Fine
<1> QED BY TypeCorrect, LateInit, LateStep, <1>1, PTL DEF Spec

----------------------------------------------------------------------------
(* Long lives.  Inductive: each start of the window has taken a Cycle, so   *)
(* the limit is not reached before the window is over.                      *)

Cycles(n) == (n - 1) * Cycle

LEMMA CyclesSum ==
    /\ \A n \in Nat \ {0} : /\ Cycles(n) \in Nat
                            /\ Cycles(n + 1) = Cycles(n) + Cycle
    /\ Cycles(1) = 0 /\ Cycles(Burst) + Cycle > Interval
<1>1. Cycle \in Nat
    BY Sizes
<1>2. Burst * Cycle > Interval /\ Burst \in Nat
    BY TimesAssumption DEF Cycle
<1> QED BY <1>1, <1>2 DEF Cycles

LongInv ==
    ~short =>
        /\ at # "down"
        /\ \/ window = Interval + 1
           \/ /\ at # "delay" => window >= Cycles(starts) + life
              /\ at = "delay" => window >= Cycles(starts) + LongLife + life

LEMMA LongInit == Init => LongInv
BY Sizes, CyclesSum DEF Init, LongInv

LEMMA LongStep == TypeOK /\ LongInv /\ [Next]_vars => LongInv'
<1> SUFFICES ASSUME TypeOK, LongInv, [Next]_vars, ~short' PROVE LongInv'
    BY DEF LongInv
<1> USE DEF LongInv
<1>t. /\ RestartSec \in Nat /\ Burst \in Nat \ {0} /\ starts \in 1 .. Burst
      /\ LongLife \in Nat /\ life \in 0 .. Cycle
      /\ Interval \in Nat /\ window \in 0 .. Interval + 1
      /\ Cycle \in Nat /\ Cycle = LongLife + RestartSec
    BY Sizes DEF TypeOK
<1>m. Cycles(starts) \in Nat
    BY <1>t, CyclesSum
<1>1. ASSUME Exits, UNCHANGED limiter, at \in Running PROVE LongInv'
    <2>1. short' = (short \/ life < LongLife) /\ at' = "delay" /\ life' = 0
        BY <1>1 DEF Exits
    <2>2. ~short /\ ~(life < LongLife)
        BY <2>1
    <2>3. window' = window /\ starts' = starts /\ at # "delay"
        BY <1>1 DEF limiter, Running, StartUp
    <2> QED BY <1>t, <1>m, <2>1, <2>2, <2>3
<1>2. CASE Program
    <2>1. ASSUME NEW next \in {"adapter", "device", "name", "loop"},
                 Proceed(next), at \in Running
          PROVE  LongInv'
        BY <2>1, <1>t, <1>m DEF Proceed, limiter, Running, StartUp
    <2> QED
        BY <1>1, <1>2, <2>1
           DEF Program, ReadConfig, FindAdapter, FindSensor, SensorName, Fails,
               Running, StartUp
<1>3. CASE Crash
    BY <1>1, <1>3 DEF Crash, Running
<1>4. CASE Restart
    <2>0. ~short /\ at = "delay" /\ life >= RestartSec /\ life' = 0
        BY <1>4 DEF Restart, Delay
    <2>1. CASE NewWindow /\ at' = "config" /\ window' = 0 /\ starts' = 1
        <3>1. Cycles(starts') = 0
            BY <2>1, CyclesSum
        <3> QED BY <1>t, <2>0, <2>1, <3>1
    <2>2. window = Interval + 1 \/ window >= Cycles(starts) + Cycle
        BY <1>t, <1>m, <2>0
    <2>3. CASE ~NewWindow /\ at' = "config" /\ starts' = starts + 1 /\ window' = window
        <3>1. Cycles(starts') = Cycles(starts) + Cycle
            BY <1>t, <2>3, CyclesSum
        <3> QED BY <1>t, <1>m, <2>0, <2>2, <2>3, <3>1
    <2>4. CASE ~NewWindow /\ ~Allowed
        <3>1. starts = Burst
            BY <1>t, <2>4 DEF Allowed
        <3> QED BY <1>t, <1>m, <2>2, <2>4, <3>1, CyclesSum DEF NewWindow
    <2> QED BY <1>4, <2>1, <2>3, <2>4 DEF Restart
<1>5. CASE AdapterAppears \/ AdapterVanishes
    BY <1>5 DEF AdapterAppears, AdapterVanishes, limiter
<1>6. CASE Tick
    <2>1. /\ UNCHANGED <<at, starts, short>>
          /\ window' = Interval + 1 \/ window' = window + 1
          /\ window' \in 0 .. Interval + 1
          /\ life' <= life + 1 /\ life' \in Nat
        BY <1>6, Sizes, Capped DEF Tick, TypeOK
    <2> QED BY <1>t, <1>m, <2>1
<1>7. CASE UNCHANGED vars
    BY <1>7 DEF vars
<1> QED BY <1>2, <1>3, <1>4, <1>5, <1>6, <1>7 DEF Next

\* Lives of LongLife and more never use the limit up.
THEOREM LongLives == Spec => []LongLivesRestarted
<1>1. LongInv => LongLivesRestarted
    BY DEF LongInv, LongLivesRestarted
<1> QED BY TypeCorrect, LongInit, LongStep, <1>1, PTL DEF Spec
=============================================================================
