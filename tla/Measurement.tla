---------------------------- MODULE Measurement ----------------------------
(***************************************************************************)
(* One measurement cycle of the sensor (main.c, run): temperature, water   *)
(* level and battery, each of which latches an error bit when it fails;    *)
(* the sample loop and median filter of water_level.c; and what goes on in *)
(* the Bluetooth threads meanwhile: the settings are loaded, a client sets *)
(* the tank depth or clears error bits, the base station reads the values  *)
(* one by one.                                                             *)
(*                                                                         *)
(* The temperature and the battery voltage have no values here, only       *)
(* whether they are of this cycle.  Distances and depths are millimetres.  *)
(***************************************************************************)
EXTENDS Integers, Sequences, FiniteSets

CONSTANTS
    NumSamples,    \* NUM_WATER_SAMPLES
    MaxAttempts,   \* MAX_WATER_SAMPLE_ATTEMPTS
    Readings,      \* distances the rangefinder may return
    Depths,        \* tank depths a client may write
    ErrorWrites,   \* writes of the error characteristic: [mask, value]
    DefaultDepth,  \* the initial tank_depth
    ByteBase,      \* values of a byte: a depth is written in one or two
    Station        \* is there a base station that reads?

ASSUME SampleAssumption ==
    /\ NumSamples \in Nat \ {0} /\ MaxAttempts \in Nat
    /\ Readings \subseteq Nat /\ Depths \subseteq Nat
    /\ DefaultDepth \in Nat /\ ByteBase \in Nat \ {0}
    /\ Station \in BOOLEAN

Sensors == {"TEMPERATURE", "WATER_LEVEL", "BATTERY"}
Errors == Sensors \cup {"BROWNOUT", "CRASH"}
NoDepth == -1

\* Why the sensor was reset, as the power peripheral keeps it.
Reasons == {"SREQ", "LOCKUP", "RESETPIN"}

ASSUME ErrorWritesAssumption ==
    \A w \in ErrorWrites : /\ w \in [mask : SUBSET Errors, value : SUBSET Errors]
                           /\ w.value \subseteq w.mask

VARIABLES
    pc,          \* where the main thread is
    rx,          \* where bluetooth_tank_depth_write is
    error,       \* the error word, as the set of its bits
    tankDepth,   \* state.tank_depth
    saved,       \* "wl/td" in flash, or NoDepth
    loaded,      \* has bluetooth_ready called settings_load?
    depth,       \* water_level_update's copy of the tank depth, a local
    samples,     \* distance_mm_samples, a local
    tries,       \* its loop counter
    distance,    \* state.water_distance
    level,       \* state.water_level
    usedDepth,   \* history: the depth the level was computed with
    reason,      \* the RESETREAS register
    reader,      \* how many reads of its round the base station has behind
    fresh,       \* history: the sensors that succeeded in this cycle
    stale,       \* history: those that NEW_DATA announces an old value of
    cleared,     \* history: error bits clients cleared since they were set
    crashed,     \* history: was the last reset that of a crash?
    readStale,   \* history: old values in the base station's point
    withErrors,  \* is the error word a field of that point?
    readFlags,   \* history: ... the bits in it, or cleared before
    moved,       \* history: was the depth set since this cycle took it?
    unsaved      \* history: did the flash fail to give or take a depth?

flagVars == <<error, cleared, fresh, stale>>
readVars == <<reader, withErrors, readStale, readFlags>>
cycleVars == <<depth, samples, tries, distance, level, usedDepth>>
depthVars == <<rx, tankDepth, saved, loaded, moved, unsaved>>
vars == <<pc, flagVars, readVars, cycleVars, depthVars, reason, crashed>>

MainStates == {"boot", "temperature", "water", "sample", "distance", "level",
               "battery", "publish", "sync"}

----------------------------------------------------------------------------
(* The arithmetic of water_level_update. *)

\* DIV_ROUND_CLOSEST on unsigned operands.
DivRoundClosest(n, d) == (n + d \div 2) \div d

\* Only distances below this are reasonable.
MaxDistance(d) == d + DivRoundClosest(d, 3)

\* samples[k] of the sorted array, counting from zero.
Ordered(s, k) ==
    CHOOSE v \in {s[i] : i \in DOMAIN s} :
        /\ Cardinality({i \in DOMAIN s : s[i] < v}) <= k
        /\ Cardinality({i \in DOMAIN s : s[i] <= v}) > k

\* Mutant of Median: the samples are not sorted.
MedianUnsorted(s) ==
    LET half == Len(s) \div 2
    IN  IF Len(s) % 2 = 0
        THEN DivRoundClosest(s[half + 1] + s[half], 2)
        ELSE s[half + 1]

Median(s) ==
    LET half == Len(s) \div 2
    IN  IF Len(s) % 2 = 0
        THEN DivRoundClosest(Ordered(s, half) + Ordered(s, half - 1), 2)
        ELSE Ordered(s, half)

\* Mutant of LevelOf: a distance beyond the tank's depth is not thought of.
LevelOfUnchecked(d, dist) == d - dist

LevelOf(d, dist) == IF d > dist THEN d - dist ELSE 0

\* bluetooth_tank_depth_write copies the bytes it is given over a zero.
Parts == {"both", "low", "high", "none"}
Written(d, part) ==
    CASE part = "both" -> d
      [] part = "low"  -> d % ByteBase
      [] part = "high" -> d - (d % ByteBase)
      [] part = "none" -> 0

\* Mutant of Reads: the error word is read first.
ReadsErrorsFirst ==
    <<"ERRORS", "BATTERY", "BATTERY", "TEMPERATURE", "WATER_LEVEL", "WATER_LEVEL", "DEPTH">>

\* The order in which read_data reads: both of the battery's characteristics,
\* the temperature, level and distance, the tank depth, the error word.
Reads ==
    <<"BATTERY", "BATTERY", "TEMPERATURE", "WATER_LEVEL", "WATER_LEVEL", "DEPTH", "ERRORS">>
Finished == Len(Reads)

\* Nobody is served before the first measurement (module Advertising).
Away == Finished + 1

----------------------------------------------------------------------------
Init ==
    /\ pc = "boot"
    /\ rx = "idle"
    /\ error = {}
    /\ tankDepth = DefaultDepth
    /\ saved = NoDepth
    /\ loaded = FALSE
    /\ depth = 0 /\ samples = <<>> /\ tries = 0
    /\ distance = 0 /\ level = 0 /\ usedDepth = NoDepth
    /\ reason = {} /\ crashed = FALSE
    /\ fresh = {} /\ stale = {} /\ cleared = {}
    /\ reader = Away /\ withErrors = FALSE
    /\ readStale = {} /\ readFlags = {}
    /\ moved = FALSE /\ unsaved = FALSE

----------------------------------------------------------------------------
(* The main thread. *)

\* Mutant of Boot: the register is not cleared.
BootReads ==
    /\ pc = "boot"
    /\ error' = IF reason \cap {"SREQ", "LOCKUP"} # {} THEN error \cup {"CRASH"}
                ELSE error
    /\ pc' = "temperature"
    /\ UNCHANGED <<reason, crashed, cleared, fresh, stale>>
    /\ UNCHANGED <<cycleVars, depthVars, readVars>>

\* watchdog_init takes the register's bits, which would outlive other resets.
Boot ==
    /\ pc = "boot"
    /\ error' = IF reason \cap {"SREQ", "LOCKUP"} # {} THEN error \cup {"CRASH"}
                ELSE error
    /\ reason' = {}
    /\ pc' = "temperature"
    /\ UNCHANGED <<crashed, cleared, fresh, stale, cycleVars, depthVars, readVars>>

\* Sensor s has a new value in memory.
Renewed(s) == /\ fresh' = fresh \cup {s} /\ stale' = stale \ {s}
              /\ UNCHANGED <<error, cleared>>

\* bluetooth_set_error
SetError(s) == /\ error' = error \cup {s} /\ cleared' = cleared \ {s}
               /\ UNCHANGED <<fresh, stale>>

Temperature ==
    /\ pc = "temperature"
    /\ Renewed("TEMPERATURE") \/ SetError("TEMPERATURE")
    /\ pc' = "water"
    /\ UNCHANGED <<reason, crashed, cycleVars, depthVars, readVars>>

\* Mutant of WaterBegin: the depth of the last cycle is used again.
WaterBeginCached ==
    /\ pc = "water"
    /\ pc' = IF "BROWNOUT" \in error THEN "battery" ELSE "sample"
    /\ depth' = IF usedDepth = NoDepth THEN tankDepth ELSE usedDepth
    /\ samples' = <<>>
    /\ tries' = 0
    /\ moved' = FALSE
    /\ UNCHANGED <<distance, level, usedDepth, rx, tankDepth, saved, loaded, unsaved>>
    /\ UNCHANGED <<flagVars, reason, crashed, readVars>>

\* run() skips the water level on a brownout; water_level_update takes the
\* tank depth once, at its start.
WaterBegin ==
    /\ pc = "water"
    /\ pc' = IF "BROWNOUT" \in error THEN "battery" ELSE "sample"
    /\ depth' = tankDepth
    /\ samples' = <<>>
    /\ tries' = 0
    /\ moved' = FALSE
    /\ UNCHANGED <<distance, level, usedDepth, rx, tankDepth, saved, loaded, unsaved>>
    /\ UNCHANGED <<flagVars, reason, crashed, readVars>>

Sampling == tries < MaxAttempts /\ Len(samples) < NumSamples

\* One attempt: the fetch fails, or its distance is kept if it is reasonable.
Sample ==
    /\ pc = "sample"
    /\ Sampling
    /\ tries' = tries + 1
    /\ \/ samples' = samples
       \/ \E r \in Readings :
              samples' = IF r < MaxDistance(depth) THEN Append(samples, r)
                         ELSE samples
    /\ UNCHANGED <<pc, flagVars, reason, crashed, readVars>>
    /\ UNCHANGED <<depth, distance, level, usedDepth, depthVars>>

\* Mutant of SamplesTaken: without any sample no error is set.
SamplesTakenSilent ==
    /\ pc = "sample"
    /\ ~Sampling
    /\ IF Len(samples) \in {0, NumSamples} THEN UNCHANGED flagVars
       ELSE SetError("WATER_LEVEL")
    /\ pc' = IF Len(samples) = 0 THEN "battery" ELSE "distance"
    /\ tries' = 0
    /\ UNCHANGED <<reason, crashed, readVars, depthVars>>
    /\ UNCHANGED <<depth, samples, distance, level, usedDepth>>

\* Too few samples latch the error; without any nothing is updated, and
\* water_level_update still returns success.
SamplesTaken ==
    /\ pc = "sample"
    /\ ~Sampling
    /\ IF Len(samples) = NumSamples THEN UNCHANGED flagVars
       ELSE SetError("WATER_LEVEL")
    /\ pc' = IF Len(samples) = 0 THEN "battery" ELSE "distance"
    /\ tries' = 0
    /\ UNCHANGED <<reason, crashed, readVars, depthVars>>
    /\ UNCHANGED <<depth, samples, distance, level, usedDepth>>

SetDistance ==
    /\ pc = "distance"
    /\ distance' = Median(samples)
    /\ pc' = "level"
    /\ UNCHANGED <<flagVars, reason, crashed, readVars>>
    /\ UNCHANGED <<depth, samples, tries, level, usedDepth, depthVars>>

\* With all its samples the update counts as a success.
Complete == IF Len(samples) = NumSamples THEN Renewed("WATER_LEVEL")
            ELSE UNCHANGED flagVars

\* Mutant of SetLevel: the tank depth is read a second time.
SetLevelRereads ==
    /\ pc = "level"
    /\ level' = LevelOf(tankDepth, distance)
    /\ usedDepth' = tankDepth
    /\ depth' = 0 /\ samples' = <<>>
    /\ pc' = "battery"
    /\ Complete
    /\ UNCHANGED <<reason, crashed, readVars>>
    /\ UNCHANGED <<tries, distance, depthVars>>

\* Both values are stored, and they are of this cycle.
SetLevel ==
    /\ pc = "level"
    /\ level' = LevelOf(depth, distance)
    /\ usedDepth' = depth
    /\ depth' = 0 /\ samples' = <<>>
    /\ pc' = "battery"
    /\ Complete
    /\ UNCHANGED <<reason, crashed, readVars>>
    /\ UNCHANGED <<tries, distance, depthVars>>

Battery ==
    /\ pc = "battery"
    /\ Renewed("BATTERY") \/ SetError("BATTERY")
    /\ pc' = "publish"
    /\ UNCHANGED <<reason, crashed, cycleVars, depthVars, readVars>>

\* bluetooth_set_status(STATUS_NEW_DATA, true), whatever has failed: the
\* values the cycle did not renew are announced as new.  Clients come.
Publish ==
    /\ pc = "publish"
    /\ pc' = "sync"
    /\ stale' = Sensors \ fresh
    /\ reader' = IF reader = Away /\ Station THEN Finished ELSE reader
    /\ UNCHANGED <<error, cleared, fresh, withErrors, readStale, readFlags>>
    /\ UNCHANGED <<reason, crashed, cycleVars, depthVars>>

\* k_timer_status_sync; the next cycle begins.
NextCycle ==
    /\ pc = "sync"
    /\ pc' = "temperature"
    /\ fresh' = {}
    /\ UNCHANGED <<error, cleared, stale>>
    /\ UNCHANGED <<reason, crashed, cycleVars, depthVars, readVars>>

Main == \/ Boot \/ Temperature \/ WaterBegin \/ Sample \/ SamplesTaken
        \/ SetDistance \/ SetLevel \/ Battery \/ Publish \/ NextCycle

----------------------------------------------------------------------------
(* The Bluetooth threads. *)

\* bluetooth_ready calls settings_load, which hands a stored depth to
\* water_level_settings_set; reading it may fail.
SettingsLoad ==
    /\ pc # "boot" /\ ~loaded
    /\ loaded' = TRUE
    /\ \/ saved = NoDepth /\ UNCHANGED <<tankDepth, moved, unsaved>>
       \/ saved # NoDepth /\ tankDepth' = saved /\ moved' = TRUE /\ unsaved' = FALSE
       \/ saved # NoDepth /\ unsaved' = TRUE /\ UNCHANGED <<tankDepth, moved>>
    /\ UNCHANGED <<pc, flagVars, reason, crashed, readVars, cycleVars, rx, saved>>

\* Mutant of WriteDepth: the default is not worth saving.
WriteDepthThrifty ==
    /\ loaded /\ rx = "idle"
    /\ \E d \in Depths, part \in Parts : tankDepth' = Written(d, part)
    /\ moved' = TRUE
    /\ rx' = IF tankDepth' = DefaultDepth THEN "idle" ELSE "save"
    /\ UNCHANGED <<pc, flagVars, reason, crashed, readVars, cycleVars>>
    /\ UNCHANGED <<saved, loaded, unsaved>>

\* bluetooth_tank_depth_write, water_level_set_tank_depth: the atomic first ...
WriteDepth ==
    /\ loaded /\ rx = "idle"
    /\ \E d \in Depths, part \in Parts : tankDepth' = Written(d, part)
    /\ moved' = TRUE
    /\ rx' = "save"
    /\ UNCHANGED <<pc, flagVars, reason, crashed, readVars, cycleVars>>
    /\ UNCHANGED <<saved, loaded, unsaved>>

\* ... then the flash, whose errors are ignored.
SaveDepth ==
    /\ rx = "save"
    /\ \/ saved' = tankDepth /\ unsaved' = FALSE
       \/ saved' = saved /\ unsaved' = TRUE
    /\ rx' = "idle"
    /\ UNCHANGED <<pc, flagVars, reason, crashed, readVars, cycleVars>>
    /\ UNCHANGED <<tankDepth, loaded, moved>>

\* bluetooth_error_write: atomic_and(&error, ~mask_write | error_write).
Kept(w) == error \cap ((Errors \ w.mask) \cup w.value)

ErrorWrite ==
    /\ loaded
    /\ \E w \in ErrorWrites : error' = Kept(w)
    /\ cleared' = cleared \cup (error \ error')
    /\ UNCHANGED <<pc, fresh, stale, reason, crashed, readVars, cycleVars, depthVars>>

\* read_data reads one characteristic after the other, each the value that
\* the getters hand to its read handler then, and the error word last.
ReadNext ==
    /\ loaded /\ reader \in 0 .. Len(Reads) - 1
    /\ reader' = reader + 1
    /\ LET what == Reads[reader + 1]
       IN  /\ readStale' = readStale \cup (stale \cap {what})
           /\ withErrors' = (withErrors \/ what = "ERRORS")
           /\ readFlags' = IF what = "ERRORS" THEN error \cup cleared ELSE readFlags
    /\ UNCHANGED <<pc, flagVars, reason, crashed, cycleVars, depthVars>>

\* A read that fails is logged and its field left out, the error word as well
\* as any other; read_data goes on.
ReadFails ==
    /\ loaded /\ reader \in 0 .. Len(Reads) - 1
    /\ reader' = reader + 1
    /\ UNCHANGED <<withErrors, readStale, readFlags>>
    /\ UNCHANGED <<pc, flagVars, reason, crashed, cycleVars, depthVars>>

\* The next round, or another client's: a new point.
ReadAgain ==
    /\ reader = Finished
    /\ reader' = 0 /\ withErrors' = FALSE
    /\ readStale' = {} /\ readFlags' = {}
    /\ UNCHANGED <<pc, flagVars, reason, crashed, cycleVars, depthVars>>

\* Only the flash survives a reset, and the register most of them.  The link
\* goes with it, disconnect fails, and read_data gives the point up.
Reset ==
    /\ pc' = "boot" /\ rx' = "idle" /\ reader' = Away
    /\ error' = {}
    /\ tankDepth' = DefaultDepth
    /\ loaded' = FALSE
    /\ depth' = 0 /\ samples' = <<>> /\ tries' = 0
    /\ distance' = 0 /\ level' = 0 /\ usedDepth' = NoDepth
    /\ fresh' = {} /\ stale' = {} /\ cleared' = {}
    /\ withErrors' = FALSE /\ readStale' = {} /\ readFlags' = {}
    /\ moved' = FALSE
    /\ UNCHANGED <<saved, unsaved>>

\* k_sys_fatal_error_handler resets by software, a lockup by itself.
Crash ==
    /\ Reset
    /\ crashed' = TRUE
    /\ \E why \in {"SREQ", "LOCKUP"} : reason' = reason \cup {why}

\* The reset pin.  A crash that watchdog_init has not seen yet is still in
\* the register.
PinReset ==
    /\ Reset
    /\ crashed' = (crashed /\ pc = "boot")
    /\ reason' = reason \cup {"RESETPIN"}

\* Without power the register is lost as well.
PowerLoss ==
    /\ Reset
    /\ crashed' = FALSE
    /\ reason' = {}

Restart == Crash \/ PinReset \/ PowerLoss

Bluetooth == \/ SettingsLoad \/ WriteDepth \/ SaveDepth \/ ErrorWrite
             \/ ReadNext \/ ReadFails \/ ReadAgain

Next == Main \/ Bluetooth \/ Restart

Spec == Init /\ [][Next]_vars

----------------------------------------------------------------------------
(* Properties. *)

\* Every variable stays in its range.
TypeOK ==
    /\ pc \in MainStates
    /\ rx \in {"idle", "save"}
    /\ error \subseteq Errors
    /\ tankDepth \in Nat
    /\ saved \in Nat \cup {NoDepth}
    /\ loaded \in BOOLEAN /\ moved \in BOOLEAN /\ unsaved \in BOOLEAN
    /\ depth \in Nat
    /\ samples \in Seq(Readings)
    /\ Len(samples) <= NumSamples
    /\ tries \in 0 .. MaxAttempts
    /\ distance \in Nat
    /\ level \in Nat
    /\ usedDepth \in Nat \cup {NoDepth}
    /\ reason \subseteq Reasons
    /\ fresh \subseteq Sensors /\ stale \subseteq Sensors
    /\ cleared \subseteq Errors
    /\ crashed \in BOOLEAN
    /\ reader \in 0 .. Away /\ withErrors \in BOOLEAN
    /\ readStale \subseteq Sensors /\ readFlags \subseteq Errors

\* What NEW_DATA announces is of this cycle or its error bit says that it is
\* not, unless a client cleared that bit: run() announces new data even when
\* every sensor failed.
StaleIsFlagged ==
    pc \in {"publish", "sync"} =>
        \A s \in Sensors : s \in fresh \/ s \in error \/ s \in cleared

\* In a point that has the error word, a value that was announced as new but
\* was old when the base station read it has its error bit, unless a client
\* cleared that bit: wherever a cycle, its failures and its publication fall
\* between the reads, and whichever of the other reads fail.  read_data also
\* returns a point without the word, when just that read fails; nothing in
\* such a point tells an old value from a new one.
PointFlagged == reader = Finished /\ withErrors => readStale \subseteq readFlags

\* The error word says CRASH, or a client has cleared it, exactly if the
\* reset before was a crash: also when a second reset comes before
\* watchdog_init has seen the first, and never again after a later one.
CrashReported == pc # "boot" => (crashed <=> "CRASH" \in error \cup cleared)

\* If more than half of the samples lie between two bounds, so does the
\* filtered distance: stray echoes do not move it out of the majority.
MajorityDecides ==
    pc = "level" =>
        \A lo, hi \in Readings :
            2 * Cardinality({i \in DOMAIN samples : samples[i] \in lo .. hi})
                > Len(samples) => distance \in lo .. hi

\* Distance and level belong together outside of the two stores, and to one
\* value of the tank depth, whatever a client or the settings do to it.
LevelFitsDistance ==
    usedDepth # NoDepth /\ pc # "level" =>
        /\ distance < MaxDistance(usedDepth)
        /\ level = LevelOf(usedDepth, distance)

\* The level is computed with the tank depth that a client reads beside it,
\* unless the depth was set after the cycle took it.
DepthInUse ==
    pc = "battery" /\ usedDepth # NoDepth /\ "WATER_LEVEL" \in fresh /\ ~moved
        => usedDepth = tankDepth

\* Loading the settings never undoes a client's write, and between two
\* writes flash and memory agree unless the flash failed.
DepthPersists ==
    loaded /\ rx = "idle" /\ ~unsaved => saved \in {NoDepth, tankDepth}
=============================================================================
