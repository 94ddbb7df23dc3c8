----------------------------- MODULE Supervisor -----------------------------
(***************************************************************************)
(* The start-up of the base station's program (main.rs, main) under        *)
(* systemd's supervision (module.nix): the program needs its config, a     *)
(* Bluetooth adapter, and the sensor paired with it, and ends with an      *)
(* error when one is missing; systemd restarts it RestartSec later, and    *)
(* gives up when it was started StartLimitBurst times in one               *)
(* StartLimitIntervalSec.                                                  *)
(*                                                                         *)
(* systemd and BlueZ are external.  systemd counts the starts in windows:  *)
(* the first start after a window opens the next one.                      *)
(***************************************************************************)
EXTENDS Naturals

CONSTANTS
    RestartSec,  \* delay before a restart
    Burst,       \* StartLimitBurst
    Interval,    \* StartLimitIntervalSec
    LongLife     \* bound: lives are not told apart beyond it

ASSUME TimesAssumption ==
    /\ RestartSec \in Nat /\ Burst \in Nat \ {0}
    /\ Interval \in Nat /\ LongLife \in Nat
    /\ Burst * (LongLife + RestartSec) > Interval

VARIABLES
    at,       \* where the program is, or that systemd waits or gave up
    config,   \* can the config and the certificate be read?
    paired,   \* does BlueZ know the sensor as paired, and its name?
    adapter,  \* is there a Bluetooth adapter?
    life,     \* time since the program, or the delay, was started
    window,   \* time since the window of starts was opened
    starts,   \* starts in the window
    clock,    \* time since the first start
    appeared, \* history: when the adapter came up
    flaky,    \* history: has the adapter gone, or the program crashed?
    short     \* history: has the program ended before LongLife?

vars == <<at, config, paired, adapter, life, window, starts, clock, appeared,
          flaky, short>>
world == <<config, paired, adapter, clock, appeared>>
limiter == <<window, starts>>

StartUp == {"config", "adapter", "device", "name"}
Running == StartUp \cup {"loop"}

\* The last of the starts that are spent on a missing adapter.
LastStart == (Burst - 1) * RestartSec
Never == LastStart + 2
CappedAt(n, bound) == IF n < bound THEN n + 1 ELSE bound

Init ==
    /\ at = "config"
    /\ config \in BOOLEAN /\ paired \in BOOLEAN /\ adapter \in BOOLEAN
    /\ life = 0
    /\ window = 0 /\ starts = 1
    /\ clock = 0
    /\ appeared = IF adapter THEN 0 ELSE Never
    /\ flaky = FALSE /\ short = FALSE

----------------------------------------------------------------------------
(* The program. *)

Proceed(next) ==
    /\ at' = next
    /\ UNCHANGED <<world, limiter, life, flaky, short>>

\* Mutant of Exits: systemd restarts the program only after a success.
ExitsForGood ==
    /\ at' = "ended"
    /\ life' = 0
    /\ short' = (short \/ life < LongLife)

\* The process ends; Restart=always.
Exits ==
    /\ at' = "delay"
    /\ life' = 0
    /\ short' = (short \/ life < LongLife)

Fails == Exits /\ UNCHANGED <<world, limiter, flaky>>

ReadConfig == at = "config" /\ IF config THEN Proceed("adapter") ELSE Fails

FindAdapter == at = "adapter" /\ IF adapter THEN Proceed("device") ELSE Fails

\* Sensor::find_by_address asks BlueZ whether the device is paired.
FindSensor ==
    at = "device" /\ IF adapter /\ paired THEN Proceed("name") ELSE Fails

SensorName ==
    at = "name" /\ IF adapter THEN Proceed("loop") ELSE Fails

\* The loop ends only by a crash: errors of a round are logged.
Crash ==
    /\ at = "loop"
    /\ Exits
    /\ flaky' = TRUE
    /\ UNCHANGED <<world, limiter>>

Program == ReadConfig \/ FindAdapter \/ FindSensor \/ SensorName

----------------------------------------------------------------------------
(* systemd. *)

\* Mutant of Delay: the program is started again at once.
DelayNone == 0

Delay == RestartSec

\* Mutant of NewWindow: all the starts count, whenever they were.
NewWindowNever == FALSE

NewWindow == window > Interval

\* Mutant of Allowed: the start that opens the window is not counted.
AllowedOneMore == starts <= Burst

Allowed == starts < Burst

Restart ==
    /\ at = "delay" /\ life >= Delay
    /\ life' = 0
    /\ \/ NewWindow /\ at' = "config" /\ window' = 0 /\ starts' = 1
       \/ ~NewWindow /\ Allowed
          /\ at' = "config" /\ starts' = starts + 1 /\ UNCHANGED window
       \/ ~NewWindow /\ ~Allowed
          /\ at' = "down" /\ UNCHANGED limiter
    /\ UNCHANGED <<world, flaky, short>>

----------------------------------------------------------------------------
(* The adapter and the time. *)

AdapterAppears ==
    /\ ~adapter
    /\ adapter' = TRUE
    /\ appeared' = IF appeared = Never THEN clock ELSE appeared
    /\ UNCHANGED <<at, config, paired, life, limiter, clock, flaky, short>>

AdapterVanishes ==
    /\ adapter
    /\ adapter' = FALSE
    /\ flaky' = TRUE
    /\ UNCHANGED <<at, config, paired, life, limiter, clock, appeared, short>>

\* A restart is not put off; a call to BlueZ may take its time.
Tick ==
    /\ at \in Running \cup {"delay"}
    /\ ~(at = "delay" /\ life >= Delay)
    /\ life' = CappedAt(life, LongLife + RestartSec)
    /\ window' = CappedAt(window, Interval + 1)
    /\ clock' = CappedAt(clock, LastStart + 1)
    /\ UNCHANGED <<at, config, paired, adapter, starts, appeared, flaky, short>>

Next == \/ Program \/ Crash \/ Restart
        \/ AdapterAppears \/ AdapterVanishes \/ Tick

Spec == Init /\ [][Next]_vars

\* BlueZ answers in the end, and a delay passes.
Fairness ==
    /\ WF_vars(Program)
    /\ WF_vars(Restart)
    /\ WF_vars(at = "delay" /\ Tick)

FairSpec == Spec /\ Fairness

----------------------------------------------------------------------------
(* Properties. *)

\* Every variable stays in its range.
TypeOK ==
    /\ at \in Running \cup {"delay", "down"}
    /\ config \in BOOLEAN /\ paired \in BOOLEAN /\ adapter \in BOOLEAN
    /\ life \in 0 .. LongLife + RestartSec
    /\ window \in 0 .. Interval + 1
    /\ starts \in 1 .. Burst
    /\ clock \in 0 .. LastStart + 1
    /\ appeared \in 0 .. LastStart + 1 \cup {Never}
    /\ flaky \in BOOLEAN /\ short \in BOOLEAN

\* A Bluetooth adapter that comes up late is waited for: the service stays
\* down only when the adapter was not there before the last start that the limit
\* allows, Burst - 1 delays after the first, or something else is wrong.
LateAdapterTolerated ==
    at = "down" /\ config /\ paired /\ ~flaky => appeared >= LastStart

\* The limit is for a program that ends over and over at once: one that lives
\* for LongLife each time is always started again.
LongLivesRestarted == at = "down" => short

\* Once everything it needs is there for good the service comes up, again
\* after each crash, unless it was given up.  (A program that takes its time
\* to fail is not given up: it opens a new window again and again.)
ComesUpOrGivenUp ==
    <>[](config /\ paired /\ adapter) => []<>(at \in {"loop", "down"})
=============================================================================
