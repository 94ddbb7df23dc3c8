------------------------- MODULE MeasurementProofs -------------------------
(***************************************************************************)
(* Proofs about Measurement, for any number of samples and attempts and    *)
(* for any readings, depths and writes of the error characteristic.        *)
(***************************************************************************)
EXTENDS Measurement, FiniteSetTheorems, SequenceTheorems, WellFoundedInduction,
        TLAPS

\* The sensor is announced as it is: fresh, or its error bit set or cleared
\* by a client in this cycle.
Honest(s) == s \in fresh \/ s \in error \/ s \in cleared

\* The strengthening of StaleIsFlagged: it holds of every sensor as soon as
\* its update is behind, of the water level as soon as samples are missing,
\* and the water level is never skipped, because nothing in the program
\* latches BROWNOUT and a client can only clear bits.
FlagInv ==
    /\ pc \in MainStates
    /\ error \subseteq Errors
    /\ "BROWNOUT" \notin error
    /\ pc \notin {"boot", "temperature"} => Honest("TEMPERATURE")
    /\ \/ pc \in {"battery", "publish", "sync"}
       \/ pc \in {"distance", "level"} /\ Len(samples) # NumSamples
       => Honest("WATER_LEVEL")
    /\ pc \in {"publish", "sync"} => Honest("BATTERY")

\* What a client clears is remembered; nothing else changes a flag.
LEMMA ClearRemembered ==
    ErrorWrite => /\ UNCHANGED <<pc, fresh, stale, samples>>
                  /\ UNCHANGED <<reader, withErrors, readStale, readFlags>>
                  /\ error' \subseteq error
                  /\ error' \cup cleared' = error \cup cleared
BY DEF ErrorWrite, Kept, readVars, cycleVars

\* The steps in which no value and no flag changes.
LEMMA OtherSteps ==
    \/ WaterBegin \/ Sample \/ SetDistance \/ SettingsLoad
    \/ WriteDepth \/ SaveDepth
    => UNCHANGED <<flagVars, readVars, reason, crashed>>
BY DEF WaterBegin, Sample, SetDistance, SettingsLoad, WriteDepth, SaveDepth

\* The steps that end a sensor's update: it has a new value, or its error bit
\* is set, or neither, as the level with its missing samples.
LEMMA Updates ==
    Temperature \/ Battery \/ SamplesTaken \/ SetLevel =>
        /\ UNCHANGED <<reader, withErrors, readStale, readFlags, reason, crashed>>
        /\ pc # "boot" /\ pc' # "boot"
        /\ \/ \E s \in Sensors : Renewed(s) \/ SetError(s)
           \/ UNCHANGED <<error, cleared, fresh, stale>>
BY DEF Temperature, Battery, SamplesTaken, SetLevel, Complete, Sensors, flagVars,
       readVars

\* Every step of the program keeps FlagInv.
LEMMA FlagStep == FlagInv /\ [Next]_vars => FlagInv'
<1> SUFFICES ASSUME FlagInv, [Next]_vars PROVE FlagInv'
    OBVIOUS
<1> USE DEF FlagInv, Honest, MainStates, Sensors, Errors, flagVars, cycleVars
<1>1. CASE Boot
    BY <1>1 DEF Boot
<1>2. CASE Temperature
    BY <1>2 DEF Temperature, Renewed, SetError
<1>3. CASE WaterBegin
    BY <1>3 DEF WaterBegin
<1>4. CASE Sample
    BY <1>4 DEF Sample
<1>5. CASE SamplesTaken
  \* An error unless all samples are there, and then there are some.
  <2>1. /\ pc = "sample" /\ pc' \in {"battery", "distance"} /\ samples' = samples
        /\ pc' = "battery" => Len(samples) = 0
      BY <1>5 DEF SamplesTaken
  <2>2. CASE Len(samples) = NumSamples
      BY <1>5, <2>1, <2>2, SampleAssumption DEF SamplesTaken
  <2>3. CASE Len(samples) # NumSamples
      BY <1>5, <2>1, <2>3 DEF SamplesTaken, SetError
  <2> QED
      BY <2>2, <2>3
<1>6. CASE SetDistance
    BY <1>6 DEF SetDistance
<1>7. CASE SetLevel
    BY <1>7 DEF SetLevel, Complete, Renewed
<1>8. CASE Battery
    BY <1>8 DEF Battery, Renewed, SetError
<1>9. CASE Publish
    BY <1>9 DEF Publish
<1>10. CASE NextCycle
    BY <1>10 DEF NextCycle
<1>11. CASE SettingsLoad \/ WriteDepth \/ SaveDepth
    BY <1>11 DEF SettingsLoad, WriteDepth, SaveDepth
<1>12. CASE ErrorWrite
    BY <1>12, ClearRemembered
<1>13. CASE ReadNext \/ ReadFails \/ ReadAgain
    BY <1>13 DEF ReadNext, ReadFails, ReadAgain
<1>14. CASE Restart
    BY <1>14 DEF Restart, Crash, PinReset, PowerLoss, Reset
<1>15. CASE UNCHANGED vars
    BY <1>15 DEF vars
<1> QED
    BY <1>1, <1>2, <1>3, <1>4, <1>5, <1>6, <1>7, <1>8, <1>9, <1>10, <1>11,
       <1>12, <1>13, <1>14, <1>15 DEF Next, Main, Bluetooth

LEMMA FlagAlways == Spec => []FlagInv
<1>1. Init => FlagInv
    BY DEF Init, FlagInv, MainStates, Errors
<1> QED
    BY <1>1, FlagStep, PTL DEF Spec

\* NEW_DATA never announces a stale sensor value without its error bit,
\* whatever fails in main.c's run() and whichever bits clients clear.
THEOREM StaleFlagged == Spec => []StaleIsFlagged
<1>1. FlagInv => StaleIsFlagged
    BY DEF FlagInv, StaleIsFlagged, Honest, Sensors
<1> QED
    BY <1>1, FlagAlways, PTL

----------------------------------------------------------------------------
\* The strengthening of PointFlagged: an old value that was announced keeps
\* its flag in memory, or a client cleared it, and so does one that has been
\* read, until the error word is read last.
PointInv ==
    /\ reader \in 0 .. Away
    /\ stale \subseteq Sensors /\ stale \subseteq error \cup cleared
    /\ reader < Finished => readStale \subseteq error \cup cleared
    /\ withErrors => reader = Finished
    /\ PointFlagged

LEMMA ReaderStates == Finished = 7 /\ Away = 8 /\ Len(Reads) = 7
BY DEF Finished, Away, Reads

\* The error word is the last to be read.
LEMMA ErrorsLast == \A k \in 0 .. 6 : Reads[k + 1] = "ERRORS" => k = 6
BY DEF Reads

LEMMA PointStep == FlagInv /\ PointInv /\ [Next]_vars => PointInv'
<1> SUFFICES ASSUME FlagInv, PointInv, [Next]_vars PROVE PointInv'
    OBVIOUS
<1> USE ReaderStates DEF PointInv, PointFlagged, flagVars, readVars
<1>1. CASE Boot
    BY <1>1 DEF Boot
<1>2. CASE Temperature \/ Battery \/ SamplesTaken \/ SetLevel
    BY <1>2, Updates DEF Renewed, SetError
<1>3. CASE \/ WaterBegin \/ Sample \/ SetDistance \/ SettingsLoad
           \/ WriteDepth \/ SaveDepth
    BY <1>3, OtherSteps
<1>4. CASE Publish
  <2>1. Sensors \ fresh \subseteq error \cup cleared
      BY <1>4 DEF Publish, FlagInv, Honest, Sensors
  <2>2. reader' \in {reader, Finished} /\ (reader' # reader => reader = Away)
      BY <1>4 DEF Publish
  <2>3. /\ stale' = Sensors \ fresh
        /\ UNCHANGED <<error, cleared, withErrors, readStale, readFlags>>
      BY <1>4 DEF Publish
  <2> QED
      BY <2>1, <2>2, <2>3
<1>5. CASE NextCycle
    BY <1>5 DEF NextCycle
<1>6. CASE ErrorWrite
    BY <1>6, ClearRemembered
<1>7. CASE ReadNext
  <2>1. reader \in 0 .. 6 /\ reader' = reader + 1 /\ UNCHANGED <<error, cleared, stale>>
      BY <1>7 DEF ReadNext
  <2>2. readStale' \subseteq error \cup cleared
      BY <1>7, <2>1 DEF ReadNext
  <2>3. withErrors' => reader' = Finished /\ readFlags' = error \cup cleared
    <3>1. ~withErrors
        BY <2>1
    <3>2. CASE Reads[reader + 1] = "ERRORS"
        BY <1>7, <2>1, <3>2, ErrorsLast DEF ReadNext
    <3>3. CASE Reads[reader + 1] # "ERRORS"
        BY <1>7, <3>1, <3>3, Zenon DEF ReadNext
    <3> QED
        BY <3>2, <3>3
  <2> QED
      BY <2>1, <2>2, <2>3
<1>8. CASE ReadFails \/ ReadAgain
    BY <1>8 DEF ReadFails, ReadAgain
<1>9. CASE Restart
    BY <1>9 DEF Restart, Crash, PinReset, PowerLoss, Reset
<1>10. CASE UNCHANGED vars
    BY <1>10 DEF vars
<1> QED
    BY <1>1, <1>2, <1>3, <1>4, <1>5, <1>6, <1>7, <1>8, <1>9, <1>10
       DEF Next, Main, Bluetooth

\* A point that has the error word never holds an old value as new without
\* the bit that tells, because main.rs reads the word last: for every
\* interleaving of the reads with run() and with clients that clear bits, and
\* whichever of the other reads fail.
THEOREM PointIsFlagged == Spec => []PointFlagged
<1>1. Init => PointInv
    BY ReaderStates DEF Init, PointInv, PointFlagged
<1>2. PointInv => PointFlagged
    BY DEF PointInv
<1> QED
    BY <1>1, <1>2, PointStep, FlagAlways, PTL DEF Spec

----------------------------------------------------------------------------
\* The strengthening of CrashReported: before watchdog_init the register
\* tells of the crash, and afterwards it has nothing to tell.
CrashInv ==
    /\ pc = "boot" => /\ crashed <=> reason \cap {"SREQ", "LOCKUP"} # {}
                      /\ error = {} /\ cleared = {}
    /\ pc # "boot" => reason = {}
    /\ CrashReported

\* The error word says CRASH exactly after a crash, whichever resets follow
\* each other and whether or not watchdog.c comes to look in between.
THEOREM CrashIsReported == Spec => []CrashReported
<1>1. Init => CrashInv
    BY DEF Init, CrashInv, CrashReported
<1>2. CrashInv /\ [Next]_vars => CrashInv'
  <2> SUFFICES ASSUME CrashInv, [Next]_vars PROVE CrashInv'
      OBVIOUS
  <2> USE DEF CrashInv, CrashReported
  <2>1. CASE Boot
      BY <2>1 DEF Boot
  <2>2. CASE Temperature \/ Battery \/ SamplesTaken \/ SetLevel
    <3>1. "CRASH" \notin Sensors
        BY DEF Sensors
    <3> QED
        BY <2>2, <3>1, Updates DEF Renewed, SetError
  <2>3. CASE \/ WaterBegin \/ Sample \/ SetDistance \/ SettingsLoad
             \/ WriteDepth \/ SaveDepth
    <3>1. \/ pc # "boot" /\ pc' # "boot"
          \/ pc' = pc
        BY <2>3 DEF WaterBegin, Sample, SetDistance, SettingsLoad,
                    WriteDepth, SaveDepth
    <3> QED
        BY <2>3, <3>1, OtherSteps DEF flagVars
  <2>4. CASE Publish \/ NextCycle \/ ReadNext \/ ReadFails \/ ReadAgain
      BY <2>4 DEF Publish, NextCycle, ReadNext, ReadFails, ReadAgain, flagVars
  <2>5. CASE ErrorWrite
    <3>1. UNCHANGED <<pc, reason, crashed>> /\ (error = {} /\ cleared = {} =>
              error' = {} /\ cleared' = {})
        BY <2>5, ClearRemembered DEF ErrorWrite
    <3> QED
        BY <2>5, <3>1, ClearRemembered
  <2>6. CASE Crash
      BY <2>6 DEF Crash, Reset
  <2>7. CASE PinReset
      BY <2>7 DEF PinReset, Reset
  <2>8. CASE PowerLoss
      BY <2>8 DEF PowerLoss, Reset
  <2>9. CASE UNCHANGED vars
      BY <2>9 DEF vars, flagVars
  <2> QED
      BY <2>1, <2>2, <2>3, <2>4, <2>5, <2>6, <2>7, <2>8, <2>9
         DEF Next, Main, Bluetooth, Restart
<1>3. CrashInv => CrashReported
    BY DEF CrashInv
<1> QED
    BY <1>1, <1>2, <1>3, PTL DEF Spec

----------------------------------------------------------------------------
\* Once the settings are loaded, flash and memory agree but between the two
\* stores of water_level_set_tank_depth and after a failure of the flash;
\* before that, no write is under way.
DepthInv ==
    /\ rx \in {"idle", "save"}
    /\ loaded \in BOOLEAN
    /\ rx = "save" => loaded
    /\ DepthPersists

\* Loading the settings never undoes a client's write, and between two writes
\* flash and memory agree unless the flash failed, for every depth a client
\* can write, whole or in part, and wherever the node restarts.
THEOREM DepthKept == Spec => []DepthPersists
<1>1. Init => DepthInv
    BY DEF Init, DepthInv, DepthPersists
<1>2. DepthInv /\ [Next]_vars => DepthInv'
  <2> SUFFICES ASSUME DepthInv, [Next]_vars PROVE DepthInv'
      OBVIOUS
  <2> USE DEF DepthInv, DepthPersists
  <2>1. CASE Main
      BY <2>1 DEF Main, Boot, Temperature, WaterBegin, Sample, SamplesTaken,
                  SetDistance, SetLevel, Battery, Publish, NextCycle, Renewed, SetError, depthVars
  <2>2. CASE SettingsLoad
      BY <2>2 DEF SettingsLoad
  <2>3. CASE WriteDepth
      BY <2>3 DEF WriteDepth
  <2>4. CASE SaveDepth
      BY <2>4 DEF SaveDepth
  <2>5. CASE ErrorWrite
      BY <2>5 DEF ErrorWrite, depthVars
  <2>6. CASE Restart
      BY <2>6 DEF Restart, Crash, PinReset, PowerLoss, Reset
  <2>7. CASE ReadNext \/ ReadFails \/ ReadAgain \/ UNCHANGED vars
      BY <2>7 DEF ReadNext, ReadFails, ReadAgain, vars, depthVars
  <2> QED
      BY <2>1, <2>2, <2>3, <2>4, <2>5, <2>6, <2>7 DEF Next, Bluetooth
<1>3. DepthInv => DepthPersists
    BY DEF DepthInv
<1> QED
    BY <1>1, <1>2, <1>3, PTL DEF Spec

----------------------------------------------------------------------------
\* The strengthening of DepthInUse: from the moment the cycle takes the depth
\* its copy, and then the depth it used, is the one in memory until somebody
\* sets another.
InUseInv ==
    /\ pc \in MainStates
    /\ pc \in {"boot", "temperature", "water", "sample", "distance", "level"}
           => "WATER_LEVEL" \notin fresh
    /\ pc \in {"sample", "distance", "level"} /\ ~moved => depth = tankDepth
    /\ DepthInUse

\* A level that the cycle just computed fits the tank depth that a client
\* reads beside it, unless the depth was set after the cycle took it.
THEOREM DepthUsed == Spec => []DepthInUse
<1>1. Init => InUseInv
    BY DEF Init, InUseInv, DepthInUse, MainStates
<1>2. InUseInv /\ [Next]_vars => InUseInv'
  <2> SUFFICES ASSUME InUseInv, [Next]_vars PROVE InUseInv'
      OBVIOUS
  <2> USE DEF InUseInv, DepthInUse, MainStates
  <2>1. CASE Boot
      BY <2>1 DEF Boot, cycleVars, depthVars
  <2>2. CASE Temperature
      BY <2>2 DEF Temperature, Renewed, SetError, cycleVars, depthVars
  <2>3. CASE WaterBegin
      BY <2>3 DEF WaterBegin, flagVars
  <2>4. CASE Sample
      BY <2>4 DEF Sample, flagVars, depthVars
  <2>5. CASE SamplesTaken
      BY <2>5, SampleAssumption DEF SamplesTaken, SetError, flagVars, depthVars
  <2>6. CASE SetDistance
      BY <2>6 DEF SetDistance, flagVars, depthVars
  <2>7. CASE SetLevel
      BY <2>7 DEF SetLevel, Complete, Renewed, flagVars, depthVars
  <2>8. CASE Battery
      BY <2>8 DEF Battery, Renewed, SetError, cycleVars, depthVars
  <2>9. CASE Publish
      BY <2>9 DEF Publish, cycleVars, depthVars
  <2>10. CASE NextCycle
      BY <2>10 DEF NextCycle, cycleVars, depthVars
  <2>11. CASE SettingsLoad
      BY <2>11 DEF SettingsLoad, flagVars, cycleVars
  <2>12. CASE WriteDepth
      BY <2>12 DEF WriteDepth, flagVars, cycleVars
  <2>13. CASE SaveDepth
      BY <2>13 DEF SaveDepth, flagVars, cycleVars
  <2>14. CASE ErrorWrite
      BY <2>14 DEF ErrorWrite, cycleVars, depthVars
  <2>15. CASE Restart
      BY <2>15 DEF Restart, Crash, PinReset, PowerLoss, Reset
  <2>16. CASE ReadNext \/ ReadFails \/ ReadAgain \/ UNCHANGED vars
      BY <2>16 DEF ReadNext, ReadFails, ReadAgain, vars, flagVars, cycleVars, depthVars
  <2> QED
      BY <2>1, <2>2, <2>3, <2>4, <2>5, <2>6, <2>7, <2>8, <2>9, <2>10, <2>11,
         <2>12, <2>13, <2>14, <2>15, <2>16 DEF Next, Main, Bluetooth
<1>3. InUseInv => DepthInUse
    BY DEF InUseInv
<1> QED
    BY <1>1, <1>2, <1>3, PTL DEF Spec

----------------------------------------------------------------------------
(* The median filter: that the order statistics exist, where they lie, and   *)
(* what follows for distance and level. *)

Below(s, v) == {i \in DOMAIN s : s[i] < v}
UpTo(s, v) == {i \in DOMAIN s : s[i] <= v}

\* Among any naturals there is a least: their intervals are well-founded.
LEMMA LeastNatural ==
    ASSUME NEW S \in SUBSET Nat, S # {}
    PROVE  \E n \in S : \A m \in S : n <= m
<1> DEFINE T == {1 .. n : n \in S}
           R == StrictSubsetOrdering(Nat)
<1>1. T \subseteq FiniteSubsetsOf(Nat) /\ T # {}
  <2>1. \A n \in S : IsFiniteSet(1 .. n) /\ 1 .. n \in SUBSET Nat
      BY FS_Interval
  <2> QED
      BY <2>1 DEF FiniteSubsetsOf
<1>2. IsWellFoundedOn(R, FiniteSubsetsOf(Nat))
    BY FS_StrictSubsetOrderingWellFounded
<1>3. PICK X \in T : \A Y \in T : <<Y, X>> \notin R
  <2> HIDE DEF T, R
  <2> QED
      BY <1>1, <1>2, WFMin
<1>4. PICK n \in S : X = 1 .. n
    OBVIOUS
<1>5. ASSUME NEW m \in S, m < n PROVE FALSE
  <2>1. 1 .. m \in T /\ 1 .. m \subseteq 1 .. n /\ n \in 1 .. n /\ n \notin 1 .. m
      BY <1>5
  <2>2. 1 .. m \in SUBSET Nat /\ 1 .. n \in SUBSET Nat
      OBVIOUS
  <2>3. <<1 .. m, 1 .. n>> \in R
      BY <2>1, <2>2 DEF StrictSubsetOrdering
  <2> QED
      BY <1>3, <1>4, <2>1, <2>3
<1> QED
    BY <1>5

\* The positions of a sequence are as many as it is long.
LEMMA Positions ==
    ASSUME NEW s \in Seq(Nat)
    PROVE  /\ Len(s) \in Nat /\ DOMAIN s = 1 .. Len(s)
           /\ IsFiniteSet(DOMAIN s) /\ Cardinality(DOMAIN s) = Len(s)
           /\ \A S \in SUBSET DOMAIN s : /\ IsFiniteSet(S)
                                         /\ Cardinality(S) \in Nat
                                         /\ Cardinality(S) <= Len(s)
<1>1. Len(s) \in Nat /\ DOMAIN s = 1 .. Len(s)
    OBVIOUS
<1>2. IsFiniteSet(DOMAIN s) /\ Cardinality(DOMAIN s) = Len(s)
  <2>1. IsFiniteSet(1 .. Len(s)) /\ Cardinality(1 .. Len(s)) = Len(s)
      BY <1>1, FS_Interval
  <2> QED
      BY <1>1, <2>1
<1>3. ASSUME NEW S \in SUBSET DOMAIN s
      PROVE  IsFiniteSet(S) /\ Cardinality(S) \in Nat /\ Cardinality(S) <= Len(s)
    BY <1>2, FS_Subset, FS_CardinalityType
<1> QED
    BY <1>1, <1>2, <1>3

\* A bounded sequence of naturals has an element at each rank.
LEMMA OrderedExists ==
    ASSUME NEW s \in Seq(Nat), NEW k \in Nat, k < Len(s),
           NEW bound \in Nat, \A i \in DOMAIN s : s[i] < bound
    PROVE  /\ Ordered(s, k) \in {s[i] : i \in DOMAIN s}
           /\ Cardinality(Below(s, Ordered(s, k))) <= k
           /\ Cardinality(UpTo(s, Ordered(s, k))) > k
<1> DEFINE Enough == {v \in Nat : Cardinality(UpTo(s, v)) > k}
<1>1. \A i \in DOMAIN s : s[i] \in Nat
    BY Positions
<1>2. bound \in Enough
  <2>0. \A i \in DOMAIN s : s[i] <= bound
      BY <1>1
  <2>1. UpTo(s, bound) = DOMAIN s
      BY <2>0, Zenon DEF UpTo
  <2> QED
      BY <2>1, Positions
<1>3. PICK v \in Enough : \A w \in Enough : v <= w
  <2>1. Enough \in SUBSET Nat /\ Enough # {}
      BY <1>2
  <2> QED
      BY <2>1, LeastNatural
<1>4. v \in Nat /\ Cardinality(UpTo(s, v)) > k
    BY <1>3
<1>5. Cardinality(Below(s, v)) <= k
  <2>1. CASE v = 0
    <3>1. Below(s, v) = {}
        BY <2>1, <1>1 DEF Below
    <3> QED
        BY <3>1, FS_EmptySet
  <2>2. CASE v # 0
    <3>1. v - 1 \in Nat /\ v - 1 \notin Enough
        BY <2>2, <1>3, <1>4
    <3>2. Below(s, v) = UpTo(s, v - 1)
        BY <1>1, <3>1 DEF Below, UpTo
    <3>3. Cardinality(UpTo(s, v - 1)) \in Nat
        BY Positions DEF UpTo
    <3> QED
        BY <3>1, <3>2, <3>3
  <2> QED
      BY <2>1, <2>2
<1>6. v \in {s[i] : i \in DOMAIN s}
  <2> SUFFICES ASSUME \A i \in DOMAIN s : s[i] # v PROVE FALSE
      OBVIOUS
  <2>1. UpTo(s, v) = Below(s, v)
      BY <1>1, <1>4 DEF Below, UpTo
  <2>2. Cardinality(Below(s, v)) \in Nat
      BY Positions DEF Below
  <2> QED
      BY <2>1, <2>2, <1>4, <1>5
<1> QED
    BY <1>4, <1>5, <1>6 DEF Ordered, Below, UpTo

\* The elements at the middle of a sequence lie where its majority does.
LEMMA RankOfMajority ==
    ASSUME NEW s \in Seq(Nat), NEW k \in Nat, k < Len(s),
           NEW bound \in Nat, \A i \in DOMAIN s : s[i] < bound,
           NEW lo \in Nat, NEW hi \in Nat,
           NEW M, M = {i \in DOMAIN s : s[i] \in lo .. hi},
           Cardinality(M) > k,
           Cardinality(M) + k >= Len(s)
    PROVE  Ordered(s, k) \in lo .. hi
<1> DEFINE v == Ordered(s, k)
<1>1. \A i \in DOMAIN s : s[i] \in Nat
    BY Positions
<1>2. /\ v \in {s[i] : i \in DOMAIN s}
      /\ Cardinality(Below(s, v)) <= k /\ Cardinality(UpTo(s, v)) > k
    BY OrderedExists
<1>3. v \in Nat
    BY <1>1, <1>2
<1>4. /\ M \subseteq DOMAIN s /\ Below(s, v) \subseteq DOMAIN s
      /\ UpTo(s, v) \subseteq DOMAIN s
    BY DEF Below, UpTo
<1>5. /\ Cardinality(M) \in Nat /\ Cardinality(Below(s, v)) \in Nat
      /\ Cardinality(UpTo(s, v)) \in Nat /\ Len(s) \in Nat
      /\ IsFiniteSet(DOMAIN s) /\ Cardinality(DOMAIN s) = Len(s)
      /\ IsFiniteSet(Below(s, v))
    BY <1>4, Positions
<1> HIDE DEF v
<1>6. v <= hi
  <2> SUFFICES ASSUME v > hi PROVE FALSE
      BY <1>3
  <2>1. M \subseteq Below(s, v)
      BY <1>1, <1>3 DEF Below
  <2>2. Cardinality(M) <= Cardinality(Below(s, v))
      BY <2>1, <1>5, FS_Subset
  <2> QED
      BY <2>2, <1>2, <1>5
<1>7. v >= lo
  <2> SUFFICES ASSUME v < lo PROVE FALSE
      BY <1>3
  <2>1. M \cap UpTo(s, v) = {}
      BY <1>1, <1>3 DEF UpTo
  <2>2. Cardinality(M) + Cardinality(UpTo(s, v)) > Cardinality(DOMAIN s)
      BY <1>2, <1>5
  <2> QED
      BY <2>1, <2>2, <1>4, <1>5, FS_MajoritiesIntersect
<1> QED
    BY <1>3, <1>6, <1>7 DEF v

----------------------------------------------------------------------------
(* The filter. *)

\* The middle of an array, as unsigned division finds it.
LEMMA Halves ==
    ASSUME NEW n \in Nat, n > 0
    PROVE  /\ n \div 2 \in Nat /\ n \div 2 < n
           /\ n % 2 = 0 => n = 2 * (n \div 2) /\ n \div 2 - 1 \in Nat
           /\ n % 2 # 0 => n = 2 * (n \div 2) + 1
OBVIOUS

\* DIV_ROUND_CLOSEST by two stays between its operands.
LEMMA MeanBetween ==
    ASSUME NEW lo \in Nat, NEW hi \in Nat, NEW a \in lo .. hi, NEW b \in lo .. hi
    PROVE  DivRoundClosest(a + b, 2) \in lo .. hi
<1>1. DivRoundClosest(a + b, 2) = (a + b + 1) \div 2
    BY DEF DivRoundClosest
<1>2. (a + b + 1) \div 2 \in lo .. hi
    OBVIOUS
<1> QED
    BY <1>1, <1>2

\* The median is in Nat, and as reasonable as the samples are.
LEMMA MedianBounded ==
    ASSUME NEW s \in Seq(Nat), Len(s) > 0,
           NEW bound \in Nat, \A i \in DOMAIN s : s[i] < bound
    PROVE  Median(s) \in Nat /\ Median(s) < bound
<1> DEFINE half == Len(s) \div 2
<1>1. Len(s) \in Nat /\ \A i \in DOMAIN s : s[i] \in 0 .. bound - 1
    BY Positions
<1>2. /\ half \in Nat /\ half < Len(s)
      /\ Len(s) % 2 = 0 => half - 1 \in Nat /\ half - 1 < Len(s)
    BY <1>1, Halves
<1> HIDE DEF half
<1>3. ASSUME NEW k \in Nat, k < Len(s) PROVE Ordered(s, k) \in 0 .. bound - 1
    BY <1>1, <1>3, OrderedExists
<1>4. CASE Len(s) % 2 = 0
  <2>1. Ordered(s, half) \in 0 .. bound - 1 /\ Ordered(s, half - 1) \in 0 .. bound - 1
      BY <1>2, <1>3, <1>4
  <2>2. bound - 1 \in Nat
      BY <2>1
  <2>3. DivRoundClosest(Ordered(s, half) + Ordered(s, half - 1), 2) \in 0 .. bound - 1
      BY <2>1, <2>2, MeanBetween
  <2> QED
      BY <2>3, <1>4 DEF Median, half
<1>5. CASE Len(s) % 2 # 0
  <2>1. Ordered(s, half) \in 0 .. bound - 1
      BY <1>2, <1>3
  <2> QED
      BY <2>1, <1>5 DEF Median, half
<1> QED
    BY <1>4, <1>5

\* A majority of an even number covers both of its middle ranks.
LEMMA MoreThanHalf ==
    ASSUME NEW n \in Nat, NEW h \in Nat, NEW c \in Nat, n > 0, n = 2 * h, 2 * c > n
    PROVE  /\ h - 1 \in Nat /\ h - 1 < n
           /\ c > h /\ c + h >= n
           /\ c > h - 1 /\ c + (h - 1) >= n
OBVIOUS

\* ... and one of an odd number covers the middle rank.
LEMMA MoreThanHalfOdd ==
    ASSUME NEW n \in Nat, NEW h \in Nat, NEW c \in Nat, n = 2 * h + 1, 2 * c > n
    PROVE  c > h /\ c + h >= n
OBVIOUS

\* Where more than half of the samples are, there is the median.
LEMMA MedianOfMajority ==
    ASSUME NEW s \in Seq(Nat), Len(s) > 0,
           NEW bound \in Nat, \A i \in DOMAIN s : s[i] < bound,
           NEW lo \in Nat, NEW hi \in Nat,
           2 * Cardinality({i \in DOMAIN s : s[i] \in lo .. hi}) > Len(s)
    PROVE  Median(s) \in lo .. hi
<1> DEFINE M == {i \in DOMAIN s : s[i] \in lo .. hi}
           half == Len(s) \div 2
<1>1. Len(s) \in Nat /\ Cardinality(M) \in Nat
    BY Positions
<1>2. /\ half \in Nat /\ half < Len(s)
      /\ Len(s) % 2 = 0 => half - 1 \in Nat /\ Len(s) = 2 * half
      /\ Len(s) % 2 # 0 => Len(s) = 2 * half + 1
    BY <1>1, Halves
<1>3. 2 * Cardinality(M) > Len(s)
    OBVIOUS
<1> HIDE DEF half, M
<1>4. ASSUME NEW k \in Nat, k < Len(s), Cardinality(M) > k,
             Cardinality(M) + k >= Len(s)
      PROVE  Ordered(s, k) \in lo .. hi
    BY <1>4, RankOfMajority DEF M
<1>5. CASE Len(s) % 2 = 0
  <2>0. /\ half - 1 \in Nat /\ half - 1 < Len(s)
        /\ Cardinality(M) > half /\ Cardinality(M) > half - 1
        /\ Cardinality(M) + half >= Len(s) /\ Cardinality(M) + (half - 1) >= Len(s)
      BY <1>1, <1>2, <1>3, <1>5, MoreThanHalf
  <2>1. Ordered(s, half) \in lo .. hi /\ Ordered(s, half - 1) \in lo .. hi
      BY <2>0, <1>2, <1>4
  <2>2. DivRoundClosest(Ordered(s, half) + Ordered(s, half - 1), 2) \in lo .. hi
      BY <2>1, MeanBetween
  <2> QED
      BY <2>2, <1>5 DEF Median, half
<1>6. CASE Len(s) % 2 # 0
  <2>0. Cardinality(M) > half /\ Cardinality(M) + half >= Len(s)
      BY <1>1, <1>2, <1>3, <1>6, MoreThanHalfOdd
  <2>1. Ordered(s, half) \in lo .. hi
      BY <2>0, <1>2, <1>4
  <2> QED
      BY <2>1, <1>6 DEF Median, half
<1> QED
    BY <1>5, <1>6

----------------------------------------------------------------------------
(* The ranges of the variables, group by group. *)

FlagType ==
    /\ error \subseteq Errors /\ cleared \subseteq Errors
    /\ fresh \subseteq Sensors /\ stale \subseteq Sensors
    /\ reason \subseteq Reasons /\ crashed \in BOOLEAN

ReadType ==
    /\ reader \in 0 .. Away /\ withErrors \in BOOLEAN
    /\ readStale \subseteq Sensors /\ readFlags \subseteq Errors

DepthType ==
    /\ rx \in {"idle", "save"}
    /\ tankDepth \in Nat /\ saved \in Nat \cup {NoDepth}
    /\ loaded \in BOOLEAN /\ moved \in BOOLEAN /\ unsaved \in BOOLEAN

CycleType ==
    /\ pc \in MainStates
    /\ depth \in Nat
    /\ samples \in Seq(Readings) /\ Len(samples) <= NumSamples
    /\ tries \in 0 .. MaxAttempts
    /\ distance \in Nat /\ level \in Nat /\ usedDepth \in Nat \cup {NoDepth}

\* TypeOK is the four of them together.
LEMMA TypeParts == TypeOK <=> FlagType /\ ReadType /\ DepthType /\ CycleType
BY Zenon DEF TypeOK, FlagType, ReadType, DepthType, CycleType

\* The bound on reasonable distances and the level are unsigned.
LEMMA MaxDistanceType == \A d \in Nat : MaxDistance(d) \in Nat
BY DEF MaxDistance, DivRoundClosest

LEMMA LevelType ==
    ASSUME NEW d \in Nat, NEW dist \in Nat PROVE LevelOf(d, dist) \in Nat
BY DEF LevelOf

\* A partial write is a depth as well.
LEMMA WrittenType ==
    ASSUME NEW d \in Depths, NEW part \in Parts PROVE Written(d, part) \in Nat
<1>1. d \in Nat /\ ByteBase \in Nat /\ ByteBase > 0
    BY SampleAssumption
<1>2. d % ByteBase \in Nat /\ d - (d % ByteBase) \in Nat
    BY <1>1
<1> QED
    BY <1>1, <1>2 DEF Written, Parts

\* Readings are millimetres, so the array holds naturals.
LEMMA SamplesAreNaturals == samples \in Seq(Readings) => samples \in Seq(Nat)
BY SampleAssumption, SeqMonotonic

\* Only ErrorWrite takes bits out of the error word.
LEMMA ErrorWriteType == FlagType /\ ErrorWrite => FlagType'
BY DEF FlagType, ErrorWrite, Kept

\* Each group is kept by every step: the flags,
LEMMA FlagTypeStep == FlagType /\ [Next]_vars => FlagType'
<1> SUFFICES ASSUME FlagType, [Next]_vars PROVE FlagType'
    OBVIOUS
<1> USE DEF FlagType, flagVars
<1>1. CASE Boot
    BY <1>1 DEF Boot, Errors
<1>2. CASE Temperature \/ Battery \/ SamplesTaken \/ SetLevel
    BY <1>2, Updates DEF Renewed, SetError, Errors
<1>3. CASE \/ WaterBegin \/ Sample \/ SetDistance \/ SettingsLoad
           \/ WriteDepth \/ SaveDepth
    BY <1>3, OtherSteps
<1>4. CASE Publish \/ NextCycle
    BY <1>4 DEF Publish, NextCycle
<1>5. CASE ErrorWrite
    BY <1>5, ErrorWriteType
<1>6. CASE ReadNext \/ ReadFails \/ ReadAgain
    BY <1>6 DEF ReadNext, ReadFails, ReadAgain
<1>7. CASE Restart
    BY <1>7 DEF Restart, Crash, PinReset, PowerLoss, Reset, Reasons
<1>8. CASE UNCHANGED vars
    BY <1>8 DEF vars
<1> QED
    BY <1>1, <1>2, <1>3, <1>4, <1>5, <1>6, <1>7, <1>8 DEF Next, Main, Bluetooth

\* the base station's round, which collects flags,
LEMMA ReadTypeStep == FlagType /\ ReadType /\ [Next]_vars => ReadType'
<1> SUFFICES ASSUME FlagType, ReadType, [Next]_vars PROVE ReadType'
    OBVIOUS
<1> USE ReaderStates DEF ReadType, readVars
<1>1. CASE Main
  <2>1. CASE Publish
      BY <2>1 DEF Publish
  <2>2. CASE ~Publish
    <3>1. UNCHANGED readVars
        BY <1>1, <2>2 DEF Main, Boot, Temperature, WaterBegin, Sample, SamplesTaken,
              SetDistance, SetLevel, Battery, NextCycle
    <3> QED
        BY <3>1
  <2> QED
      BY <2>1, <2>2
<1>2. CASE ReadNext
  <2>0. withErrors' \in BOOLEAN
      BY <1>2, Zenon DEF ReadNext
  <2>1. reader \in 0 .. 6 /\ reader' = reader + 1
      BY <1>2 DEF ReadNext
  <2>2. readStale' \subseteq readStale \cup stale
      BY <1>2 DEF ReadNext
  <2>3. readFlags' \in {readFlags, error \cup cleared}
      BY <1>2 DEF ReadNext
  <2>4. stale \subseteq Sensors /\ error \cup cleared \subseteq Errors
      BY DEF FlagType
  <2>5. readStale' \subseteq Sensors /\ readFlags' \subseteq Errors
      BY <2>2, <2>3, <2>4
  <2> QED
      BY <2>0, <2>1, <2>5
<1>3. CASE ReadFails \/ ReadAgain
  <2>1. withErrors' \in BOOLEAN
      BY <1>3, Zenon DEF ReadFails, ReadAgain
  <2>2. reader' \in 0 .. Away /\ readStale' \subseteq Sensors /\ readFlags' \subseteq Errors
      BY <1>3 DEF ReadFails, ReadAgain
  <2> QED
      BY <2>1, <2>2
<1>4. CASE SettingsLoad \/ WriteDepth \/ SaveDepth \/ ErrorWrite
    BY <1>4 DEF SettingsLoad, WriteDepth, SaveDepth, ErrorWrite
<1>5. CASE Restart
  <2>1. reader' = Away /\ ~withErrors' /\ readStale' = {} /\ readFlags' = {}
      BY <1>5 DEF Restart, Crash, PinReset, PowerLoss, Reset
  <2>2. withErrors' \in BOOLEAN
      BY <1>5, Zenon DEF Restart, Crash, PinReset, PowerLoss, Reset
  <2> QED
      BY <2>1, <2>2
<1>6. CASE UNCHANGED vars
    BY <1>6 DEF vars
<1> QED
    BY <1>1, <1>2, <1>3, <1>4, <1>5, <1>6 DEF Next, Bluetooth

\* and the tank depth, of which a client may write one byte.
LEMMA DepthTypeStep == DepthType /\ [Next]_vars => DepthType'
<1> SUFFICES ASSUME DepthType, [Next]_vars PROVE DepthType'
    OBVIOUS
<1> USE DEF DepthType, depthVars
<1>1. CASE Main
  <2>1. CASE WaterBegin
      BY <2>1 DEF WaterBegin
  <2>2. CASE ~WaterBegin
    <3>1. UNCHANGED depthVars
        BY <1>1, <2>2 DEF Main, Boot, Temperature, Sample, SamplesTaken, SetDistance,
              SetLevel, Battery, Publish, NextCycle
    <3> QED
        BY <3>1
  <2> QED
      BY <2>1, <2>2
<1>2. CASE SettingsLoad
    BY <1>2 DEF SettingsLoad, NoDepth
<1>3. CASE WriteDepth
  <2>1. tankDepth' \in Nat
      BY <1>3, WrittenType DEF WriteDepth
  <2> QED
      BY <1>3, <2>1 DEF WriteDepth
<1>4. CASE SaveDepth
    BY <1>4 DEF SaveDepth
<1>5. CASE ErrorWrite \/ ReadNext \/ ReadFails \/ ReadAgain
    BY <1>5 DEF ErrorWrite, ReadNext, ReadFails, ReadAgain
<1>6. CASE Restart
    BY <1>6, SampleAssumption DEF Restart, Crash, PinReset, PowerLoss, Reset
<1>7. CASE UNCHANGED vars
    BY <1>7 DEF vars
<1> QED
    BY <1>1, <1>2, <1>3, <1>4, <1>5, <1>6, <1>7 DEF Next, Bluetooth

----------------------------------------------------------------------------
(* Distance and level. *)

\* The strengthening of LevelFitsDistance and MajorityDecides: the samples of
\* a cycle are reasonable for the depth that it took, there is one when the
\* filter is reached, and the distance is their median until the level
\* follows.
FilterInv ==
    /\ CycleType
    /\ pc \in {"sample", "distance", "level"} =>
           \A i \in DOMAIN samples : samples[i] < MaxDistance(depth)
    /\ pc \in {"distance", "level"} => Len(samples) > 0
    /\ pc = "level" => distance = Median(samples)
    /\ LevelFitsDistance

\* An empty array of samples is one.
LEMMA NoSamples ==
    <<>> \in Seq(Readings) /\ Len(<<>>) = 0 /\ 0 <= NumSamples /\ 0 \in 0 .. MaxAttempts
BY SampleAssumption

\* The sensor starts with every variable in its range.
LEMMA TypeInit == Init => FlagType /\ ReadType /\ DepthType
<1>1. Init => FlagType
    BY DEF Init, FlagType
<1>2. Init => ReadType
  <2>1. Init => withErrors \in BOOLEAN
      BY Zenon DEF Init
  <2>2. Init => /\ reader \in 0 .. Away
                /\ readStale \subseteq Sensors /\ readFlags \subseteq Errors
      BY ReaderStates DEF Init
  <2> QED
      BY <2>1, <2>2 DEF ReadType
<1>3. Init => DepthType
    BY SampleAssumption DEF Init, DepthType
<1> QED
    BY <1>1, <1>2, <1>3

\* ... and with no level yet.
LEMMA FilterInit == Init => FilterInv
<1> SUFFICES ASSUME Init PROVE FilterInv
    OBVIOUS
<1>1. CycleType
    BY NoSamples DEF Init, CycleType, MainStates
<1>2. pc = "boot" /\ usedDepth = NoDepth
    BY DEF Init
<1> QED
    BY <1>1, <1>2 DEF FilterInv, LevelFitsDistance

\* The steps that touch neither the samples nor distance and level.
Idle == UNCHANGED <<depth, samples, tries, distance, level, usedDepth>>

\* What they have to leave alone: the sampling and the filter are not entered.
LEMMA IdleStep ==
    ASSUME FilterInv, Idle,
           \/ pc' = pc
           \/ pc' \in MainStates \ {"sample", "distance", "level"} /\ pc # "level"
    PROVE  FilterInv'
BY DEF FilterInv, CycleType, LevelFitsDistance, Idle

\* Every step of the program keeps FilterInv.
LEMMA FilterStep == FilterInv /\ DepthType /\ [Next]_vars => FilterInv'
<1> SUFFICES ASSUME FilterInv, DepthType, [Next]_vars PROVE FilterInv'
    OBVIOUS
<1>0. CycleType
    BY DEF FilterInv
<1>1. CASE Boot \/ Temperature \/ Battery \/ Publish \/ NextCycle
  <2>1. /\ Idle /\ pc # "level"
        /\ pc' \in MainStates \ {"sample", "distance", "level"}
      BY <1>1 DEF Boot, Temperature, Battery, Publish, NextCycle, Idle, cycleVars,
            MainStates
  <2> QED
      BY <2>1, IdleStep
<1>2. CASE Bluetooth
  <2>1. Idle /\ pc' = pc
      BY <1>2 DEF Bluetooth, SettingsLoad, WriteDepth, SaveDepth, ErrorWrite,
            ReadNext, ReadFails, ReadAgain, Idle, cycleVars
  <2> QED
      BY <2>1, IdleStep
<1>3. CASE WaterBegin
  <2>1. /\ pc = "water" /\ pc' \in {"sample", "battery"}
        /\ samples' = <<>> /\ tries' = 0
        /\ UNCHANGED <<distance, level, usedDepth>>
      BY <1>3 DEF WaterBegin
  <2>2. depth' \in Nat
      BY <1>3 DEF WaterBegin, DepthType
  <2>3. CycleType'
      BY <1>0, <2>1, <2>2, NoSamples DEF CycleType, MainStates
  <2>4. \A i \in DOMAIN samples' : FALSE
      BY <2>1
  <2> QED
      BY <2>1, <2>3, <2>4 DEF FilterInv, LevelFitsDistance
<1>4. CASE Sample
  <2>1. /\ pc = "sample" /\ pc' = "sample"
        /\ UNCHANGED <<depth, distance, level, usedDepth>>
      BY <1>4 DEF Sample
  <2>2. samples' \in Seq(Readings) /\ Len(samples') <= NumSamples
      BY <1>0, <1>4, SampleAssumption DEF Sample, Sampling, CycleType
  <2>3. \A i \in DOMAIN samples' : samples'[i] < MaxDistance(depth)
    <3>1. CASE samples' = samples
        BY <2>1, <3>1 DEF FilterInv
    <3>2. CASE \E r \in Readings : r < MaxDistance(depth) /\ samples' = Append(samples, r)
        BY <1>0, <2>1, <3>2 DEF FilterInv, CycleType
    <3> QED
        BY <1>4, <3>1, <3>2 DEF Sample
  <2>4. tries' \in 0 .. MaxAttempts
      BY <1>0, <1>4, SampleAssumption DEF Sample, Sampling, CycleType
  <2>5. CycleType'
      BY <1>0, <2>1, <2>2, <2>4 DEF CycleType
  <2> QED
      BY <2>1, <2>3, <2>5 DEF FilterInv, LevelFitsDistance
<1>5. CASE SamplesTaken
  <2>1. /\ pc = "sample" /\ pc' \in {"battery", "distance"}
        /\ pc' = "distance" => Len(samples) # 0
        /\ tries' = 0
        /\ UNCHANGED <<depth, samples, distance, level, usedDepth>>
      BY <1>5 DEF SamplesTaken
  <2>2. Len(samples) \in Nat
      BY <1>0 DEF CycleType
  <2>3. CycleType'
      BY <1>0, <2>1, NoSamples DEF CycleType, MainStates
  <2> QED
      BY <2>1, <2>2, <2>3 DEF FilterInv, LevelFitsDistance
<1>6. CASE SetDistance
  <2>1. /\ pc = "distance" /\ pc' = "level" /\ distance' = Median(samples)
        /\ UNCHANGED <<depth, samples, tries, level, usedDepth>>
      BY <1>6 DEF SetDistance
  <2>2. Median(samples) \in Nat
      BY <1>0, <2>1, MedianBounded, MaxDistanceType, SamplesAreNaturals
         DEF FilterInv, CycleType
  <2>3. CycleType'
      BY <1>0, <2>1, <2>2 DEF CycleType, MainStates
  <2> QED
      BY <2>1, <2>3 DEF FilterInv, LevelFitsDistance
<1>7. CASE SetLevel
  <2>1. /\ pc = "level" /\ pc' = "battery" /\ samples' = <<>> /\ depth' = 0
        /\ level' = LevelOf(depth, distance) /\ usedDepth' = depth
        /\ UNCHANGED <<distance, tries>>
      BY <1>7 DEF SetLevel
  <2>2. distance < MaxDistance(depth)
      BY <1>0, <2>1, MedianBounded, MaxDistanceType, SamplesAreNaturals
         DEF FilterInv, CycleType
  <2>3. level' \in Nat
      BY <1>0, <2>1, LevelType DEF CycleType
  <2>4. CycleType'
      BY <1>0, <2>1, <2>3, NoSamples DEF CycleType, MainStates
  <2> QED
      BY <2>1, <2>2, <2>4 DEF FilterInv, LevelFitsDistance
<1>8. CASE Restart
  <2>1. /\ pc' = "boot" /\ depth' = 0 /\ samples' = <<>> /\ tries' = 0
        /\ distance' = 0 /\ level' = 0 /\ usedDepth' = NoDepth
      BY <1>8 DEF Restart, Crash, PinReset, PowerLoss, Reset
  <2>2. CycleType'
      BY <2>1, NoSamples DEF CycleType, MainStates
  <2> QED
      BY <2>1, <2>2 DEF FilterInv, LevelFitsDistance
<1>9. CASE UNCHANGED vars
  <2>1. Idle /\ pc' = pc
      BY <1>9 DEF vars, cycleVars, Idle
  <2> QED
      BY <2>1, IdleStep
<1> QED
    BY <1>1, <1>2, <1>3, <1>4, <1>5, <1>6, <1>7, <1>8, <1>9 DEF Next, Main

LEMMA FilterAlways == Spec => [](FilterInv /\ FlagType /\ ReadType /\ DepthType)
BY TypeInit, FilterInit, FlagTypeStep, ReadTypeStep, DepthTypeStep, FilterStep,
   PTL DEF Spec

\* The variables of a measurement cycle (water_level.c, main.c) stay in their
\* ranges: the median is a natural number, and no level is negative.
THEOREM TypeCorrect == Spec => []TypeOK
<1>1. FilterInv /\ FlagType /\ ReadType /\ DepthType => TypeOK
    BY TypeParts DEF FilterInv
<1> QED
    BY <1>1, FilterAlways, PTL

\* Distance and level that water_level.c stores belong together and to one
\* tank depth, for any samples, depths and interleavings.
THEOREM LevelFits == Spec => []LevelFitsDistance
<1>1. FilterInv => LevelFitsDistance
    BY DEF FilterInv
<1> QED
    BY <1>1, FilterAlways, PTL

\* The filter of water_level.c follows the majority of the samples, for any
\* number of them, odd or even, and any readings.
THEOREM MajorityWins == Spec => []MajorityDecides
<1>1. FilterInv => MajorityDecides
  <2> SUFFICES ASSUME FilterInv, pc = "level", NEW lo \in Readings, NEW hi \in Readings,
                      2 * Cardinality({i \in DOMAIN samples : samples[i] \in lo .. hi})
                          > Len(samples)
               PROVE  distance \in lo .. hi
      BY DEF MajorityDecides
  <2>1. lo \in Nat /\ hi \in Nat
      BY SampleAssumption
  <2>2. /\ samples \in Seq(Nat) /\ Len(samples) > 0
        /\ MaxDistance(depth) \in Nat
        /\ \A i \in DOMAIN samples : samples[i] < MaxDistance(depth)
        /\ distance = Median(samples)
      BY SamplesAreNaturals, MaxDistanceType DEF FilterInv, CycleType
  <2> QED
      BY <2>1, <2>2, MedianOfMajority
<1> QED
    BY <1>1, FilterAlways, PTL
=============================================================================
