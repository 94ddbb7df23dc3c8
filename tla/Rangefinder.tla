---------------------------- MODULE Rangefinder ----------------------------
(***************************************************************************)
(* The ultrasonic rangefinder driver (jsn_sr04t.c): sr04t_sample_fetch in  *)
(* the main thread, the echo interrupt that runs under it, and the timeout *)
(* of its semaphore.  The sensor answers a trigger with a pulse on the     *)
(* echo pin, or not at all; the width of the pulse is the distance.        *)
(*                                                                         *)
(* Time is counted in cycles of k_cycle_get_32.  An interrupt that is      *)
(* pending runs before the thread goes on and before the next cycle.       *)
(***************************************************************************)
EXTENDS Integers

CONSTANTS
    CycleModulus,  \* k_cycle_get_32 counts modulo this
    EchoTimeout,   \* CONFIG_JSN_SR04T_ECHO_TIMEOUT, in cycles
    MaxWidth,      \* the sensor's longest pulse, in cycles
    CyclesPerMm    \* CONFIG_JSN_SR04T_NS_PER_MM, in cycles

ASSUME CycleAssumption ==
    /\ CycleModulus \in Nat /\ MaxWidth \in Nat \ {0} /\ EchoTimeout \in Nat
    /\ MaxWidth < CycleModulus
    /\ CyclesPerMm \in Nat \ {0}

VARIABLES
    pc,       \* where sr04t_sample_fetch is
    state,    \* data->state
    sem,      \* data->echo_end_sem
    irq,      \* is the echo pin's interrupt configured?
    wired,    \* has sr04t_init registered the callback?
    start,    \* data->echo_start_cycles
    end,      \* data->echo_end_cycles
    value,    \* data->value, in millimetres
    waited,   \* how long k_sem_take has waited
    cycles,   \* the cycle counter
    echo,     \* the sensor: "quiet", "armed" by a trigger, or pin "high"
    width,    \* how long the pin has been high, or was
    pending,  \* an edge waits for its interrupt
    first,    \* history: the edges the last fetch took for start and end
    last,
    late      \* history: was the last echo still there when the fetch began?

driver == <<pc, state, sem, irq, wired, start, end, value, waited, first, last,
            late>>
vars == <<driver, cycles, echo, width, pending>>

ProgramPoints == {"off", "idle", "trigger", "arm", "reset", "enable", "take",
                  "wait", "timedout", "disable", "compute", "cleanup"}
DriverStates == {"OFF", "READY", "WAIT_ECHO_START", "WAIT_ECHO_END"}
Edges == {"none", "rise", "fall"}
Echoes == {"quiet", "armed", "high"}

----------------------------------------------------------------------------
\* Mutant of NextCycle: the counter does not wrap.
NextCycleUnbounded(n) == n + 1

\* uint32_t arithmetic on the cycle counter.
NextCycle(n) == IF n + 1 = CycleModulus THEN 0 ELSE n + 1
\* Mutant of Elapsed: the counter is taken not to wrap.
ElapsedSigned(from, to) == IF from <= to THEN to - from ELSE from - to

Elapsed(from, to) == IF from <= to THEN to - from ELSE to - from + CycleModulus

Millimetres(n) == n \div CyclesPerMm

\* The thread does not run while an interrupt is pending.
At(p) == pc = p /\ ~pending

Init ==
    /\ pc = "off"
    /\ state = "OFF"
    /\ sem = 0
    /\ irq = FALSE
    /\ wired = FALSE
    /\ start = 0 /\ end = 0 /\ value = 0 /\ waited = 0
    /\ cycles \in 0 .. CycleModulus - 1
    /\ echo = "quiet"
    /\ width = 0
    /\ pending = FALSE
    /\ first = "none" /\ last = "none" /\ late = FALSE

----------------------------------------------------------------------------
(* The thread. *)

\* sr04t_init and PM_DEVICE_ACTION_TURN_ON.  A failure is not noticed by the
\* code that fetches samples: the callback is just not there.
PowerOn ==
    /\ At("off")
    /\ wired' \in BOOLEAN
    /\ state' = IF wired' THEN "READY" ELSE "OFF"
    /\ pc' = "idle"
    /\ UNCHANGED <<sem, irq, start, end, value, waited, first, last, late>>
    /\ UNCHANGED <<cycles, echo, width, pending>>

\* water_level_update calls sensor_sample_fetch, 50 ms after the last call:
\* echoes have decayed by then, or not.
FetchBegin ==
    /\ At("idle")
    /\ pc' = "trigger"
    /\ first' = "none" /\ last' = "none"
    /\ late' = (echo # "quiet")
    /\ UNCHANGED <<state, sem, irq, wired, start, end, value, waited>>
    /\ UNCHANGED <<cycles, echo, width, pending>>

\* The trigger pulse.  When its end cannot be set the sensor may have seen
\* it or not.  A sensor that is still busy ignores it.
Trigger ==
    /\ At("trigger")
    /\ pc' \in {"arm", "cleanup"}
    /\ echo' \in IF echo # "quiet" THEN {echo}
                 ELSE IF pc' = "arm" THEN {"armed"} ELSE {"quiet", "armed"}
    /\ UNCHANGED <<state, sem, irq, wired, start, end, value, waited,
                   first, last, late>>
    /\ UNCHANGED <<cycles, width, pending>>

Arm ==
    /\ At("arm")
    /\ state' = "WAIT_ECHO_START"
    /\ pc' = "reset"
    /\ UNCHANGED <<sem, irq, wired, start, end, value, waited,
                   first, last, late>>
    /\ UNCHANGED <<cycles, echo, width, pending>>

\* Mutant of ResetSem: the semaphore is left as it is.
ResetSemSkipped ==
    /\ At("reset")
    /\ pc' = "enable"
    /\ UNCHANGED <<state, sem, irq, wired, start, end, value, waited,
                   first, last, late>>
    /\ UNCHANGED <<cycles, echo, width, pending>>

\* k_sem_reset
ResetSem ==
    /\ At("reset")
    /\ sem' = 0
    /\ pc' = "enable"
    /\ UNCHANGED <<state, irq, wired, start, end, value, waited,
                   first, last, late>>
    /\ UNCHANGED <<cycles, echo, width, pending>>

EnableInterrupt ==
    /\ At("enable")
    /\ \/ irq' = TRUE /\ pc' = "take"
       \/ irq' = irq /\ pc' = "cleanup"
    /\ UNCHANGED <<state, sem, wired, start, end, value, waited,
                   first, last, late>>
    /\ UNCHANGED <<cycles, echo, width, pending>>

\* k_sem_take: the semaphore is there, or the thread begins to wait.
TakeSem ==
    /\ At("take")
    /\ sem' = 0
    /\ pc' = IF sem = 1 THEN "disable" ELSE "wait"
    /\ waited' = 0
    /\ UNCHANGED <<state, irq, wired, start, end, value, first, last, late>>
    /\ UNCHANGED <<cycles, echo, width, pending>>

\* Mutant of TimeOut: the semaphore is awaited with K_FOREVER.
TimeOutNever == FALSE /\ UNCHANGED vars

\* The timeout makes the thread ready to run; until it runs, the interrupt
\* stays enabled.
TimeOut ==
    /\ pc = "wait"
    /\ waited = EchoTimeout
    /\ pc' = "timedout"
    /\ UNCHANGED <<state, sem, irq, wired, start, end, value, waited,
                   first, last, late>>
    /\ UNCHANGED <<cycles, echo, width, pending>>

\* Mutant of GiveUp: the result of k_sem_take is not checked for -EAGAIN.
GiveUpUnchecked ==
    /\ At("timedout")
    /\ pc' = "disable"
    /\ UNCHANGED <<state, sem, irq, wired, start, end, value, waited,
                   first, last, late>>
    /\ UNCHANGED <<cycles, echo, width, pending>>

GiveUp ==
    /\ At("timedout")
    /\ pc' = "cleanup"
    /\ UNCHANGED <<state, sem, irq, wired, start, end, value, waited,
                   first, last, late>>
    /\ UNCHANGED <<cycles, echo, width, pending>>

DisableInterrupt ==
    /\ At("disable")
    /\ \/ irq' = FALSE /\ pc' = "compute"
       \/ irq' = irq /\ pc' = "cleanup"
    /\ UNCHANGED <<state, sem, wired, start, end, value, waited,
                   first, last, late>>
    /\ UNCHANGED <<cycles, echo, width, pending>>

Compute ==
    /\ At("compute")
    /\ value' = Millimetres(Elapsed(start, end))
    /\ pc' = "cleanup"
    /\ UNCHANGED <<state, sem, irq, wired, start, end, waited,
                   first, last, late>>
    /\ UNCHANGED <<cycles, echo, width, pending>>

\* The result of the second GPIO_INT_DISABLE is ignored.
Cleanup ==
    /\ At("cleanup")
    /\ irq' \in {FALSE, irq}
    /\ state' = "READY"
    /\ pc' = "idle"
    /\ UNCHANGED <<sem, wired, start, end, value, waited, first, last, late>>
    /\ UNCHANGED <<cycles, echo, width, pending>>

Thread == \/ PowerOn \/ FetchBegin \/ Trigger \/ Arm \/ ResetSem
          \/ EnableInterrupt \/ TakeSem \/ TimeOut \/ GiveUp
          \/ DisableInterrupt \/ Compute \/ Cleanup

----------------------------------------------------------------------------
(* sr04t_echo_interrupt. *)

\* The direction of the edge is not looked at: two edges that come before
\* the interrupt runs are one.
Direction == IF echo = "high" THEN "rise" ELSE "fall"

InterruptStart ==
    /\ pending /\ state = "WAIT_ECHO_START"
    /\ start' = cycles
    /\ state' = "WAIT_ECHO_END"
    /\ first' = Direction
    /\ pending' = FALSE
    /\ UNCHANGED <<pc, sem, irq, wired, end, value, waited, last, late>>
    /\ UNCHANGED <<cycles, echo, width>>

\* k_sem_give hands the semaphore to a waiting thread.
InterruptEnd ==
    /\ pending /\ state = "WAIT_ECHO_END"
    /\ end' = cycles
    /\ state' = "READY"
    /\ last' = Direction
    /\ sem' = IF pc = "wait" THEN sem ELSE 1
    /\ pc' = IF pc = "wait" THEN "disable" ELSE pc
    /\ pending' = FALSE
    /\ UNCHANGED <<irq, wired, start, value, waited, first, late>>
    /\ UNCHANGED <<cycles, echo, width>>

InterruptIgnored ==
    /\ pending /\ state \notin {"WAIT_ECHO_START", "WAIT_ECHO_END"}
    /\ pending' = FALSE
    /\ UNCHANGED <<driver, cycles, echo, width>>

Interrupt == InterruptStart \/ InterruptEnd \/ InterruptIgnored

----------------------------------------------------------------------------
(* The sensor and time. *)

\* An edge raises the interrupt if it is configured and there is a callback.
Edge == pending' = (pending \/ (irq /\ wired))

Rise ==
    /\ echo = "armed"
    /\ echo' = "high"
    /\ width' = 0
    /\ Edge
    /\ UNCHANGED <<driver, cycles>>

Fall ==
    /\ echo = "high"
    /\ echo' = "quiet"
    /\ Edge
    /\ UNCHANGED <<driver, cycles, width>>

\* The sensor does not answer.
NoEcho ==
    /\ echo = "armed"
    /\ echo' = "quiet"
    /\ UNCHANGED <<driver, cycles, width, pending>>

\* MaxWidth bounds a pulse, the semaphore's timeout a wait.
Tick ==
    /\ ~pending
    /\ echo = "high" => width < MaxWidth
    /\ pc = "wait" => waited < EchoTimeout
    /\ cycles' = NextCycle(cycles)
    /\ width' = IF echo = "high" THEN width + 1 ELSE width
    /\ waited' = IF pc = "wait" THEN waited + 1 ELSE waited
    /\ UNCHANGED <<pc, state, sem, irq, wired, start, end, value,
                   first, last, late>>
    /\ UNCHANGED <<echo, pending>>

Sensor == Rise \/ Fall \/ NoEcho

Next == Thread \/ Interrupt \/ Sensor \/ Tick

Spec == Init /\ [][Next]_vars

\* The thread is scheduled, interrupts are served and time goes on; the
\* sensor ends its pulse because time cannot pass MaxWidth.  Nobody has to
\* ask for a sample.
Fairness ==
    /\ WF_vars(Thread /\ ~FetchBegin)
    /\ WF_vars(Interrupt)
    /\ WF_vars(Fall)
    /\ WF_vars(Tick)

FairSpec == Spec /\ Fairness

----------------------------------------------------------------------------
(* Properties. *)

\* Every variable stays in its range.
TypeOK ==
    /\ pc \in ProgramPoints
    /\ state \in DriverStates
    /\ sem \in {0, 1}
    /\ irq \in BOOLEAN /\ wired \in BOOLEAN /\ pending \in BOOLEAN
    /\ cycles \in 0 .. CycleModulus - 1
    /\ start \in 0 .. CycleModulus - 1
    /\ end \in 0 .. CycleModulus - 1
    /\ value \in Nat
    /\ waited \in Nat
    /\ echo \in Echoes
    /\ width \in 0 .. MaxWidth
    /\ first \in Edges /\ last \in Edges /\ late \in BOOLEAN

\* The assertion after k_sem_take: a semaphore that was taken was given by
\* the second edge of this fetch, not left over from an interrupt that came
\* between the last fetch's timeout and its cleanup.
AssertStateReady == pc = "disable" => state = "READY"

\* In a fetch that no echo reached into, a distance is computed only from the
\* rising and the falling edge of one pulse: a rising edge that came before
\* the interrupt was enabled never makes the falling edge pass for a start.
SampleOfOnePulse ==
    pc = "compute" /\ ~late => first = "rise" /\ last = "fall"

\* ... and the distance changes only to the width of that pulse, also when
\* the cycle counter wraps during it.
ValueFromWidth ==
    [][value' # value /\ ~late => value' = Millimetres(width)]_vars

\* Every fetch returns, whatever the sensor does.
FetchReturns == (pc \notin {"off", "idle"}) ~> (pc = "idle")
=============================================================================
