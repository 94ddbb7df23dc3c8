------------------------- MODULE RangefinderProofs -------------------------
(***************************************************************************)
(* The safety properties of Rangefinder, for every length of the cycle     *)
(* counter, the timeout and the pulses.                                    *)
(***************************************************************************)
EXTENDS Rangefinder, TLAPS

----------------------------------------------------------------------------
(* Arithmetic of the cycle counter. *)

LEMMA NextCycleType ==
    \A n \in 0 .. CycleModulus - 1 : NextCycle(n) \in 0 .. CycleModulus - 1
BY CycleAssumption DEF NextCycle

\* One more cycle is one more cycle elapsed, also across the wrap.
LEMMA ElapsedNext ==
    ASSUME NEW s \in 0 .. CycleModulus - 1, NEW n \in 0 .. CycleModulus - 1,
           Elapsed(s, n) < CycleModulus - 1
    PROVE  Elapsed(s, NextCycle(n)) = Elapsed(s, n) + 1
BY CycleAssumption DEF Elapsed, NextCycle

LEMMA ElapsedType ==
    ASSUME NEW s \in 0 .. CycleModulus - 1, NEW n \in 0 .. CycleModulus - 1
    PROVE  Elapsed(s, n) \in Nat
BY CycleAssumption DEF Elapsed

----------------------------------------------------------------------------
(* Types. *)

LEMMA TypeInit == Init => TypeOK
<1> SUFFICES ASSUME Init PROVE TypeOK
    OBVIOUS
<1>1. 0 \in 0 .. CycleModulus - 1 /\ 0 \in 0 .. MaxWidth
    BY CycleAssumption
<1>2. /\ cycles \in 0 .. CycleModulus - 1 /\ start \in 0 .. CycleModulus - 1
      /\ end \in 0 .. CycleModulus - 1 /\ width \in 0 .. MaxWidth
    BY <1>1 DEF Init
<1> QED BY <1>2 DEF Init, TypeOK, ProgramPoints, DriverStates, Edges, Echoes

LEMMA TypeStep == TypeOK /\ [Next]_vars => TypeOK'
<1> SUFFICES ASSUME TypeOK, [Next]_vars PROVE TypeOK'
    OBVIOUS
<1> USE DEF TypeOK, At
<1>1. CASE PowerOn BY <1>1 DEF PowerOn, ProgramPoints, DriverStates
<1>2. CASE FetchBegin BY <1>2 DEF FetchBegin, ProgramPoints, Edges
<1>3. CASE Trigger BY <1>3 DEF Trigger, ProgramPoints, Echoes
<1>4. CASE Arm BY <1>4 DEF Arm, ProgramPoints, DriverStates
<1>5. CASE ResetSem BY <1>5 DEF ResetSem, ProgramPoints
<1>6. CASE EnableInterrupt BY <1>6 DEF EnableInterrupt, ProgramPoints
<1>7. CASE TakeSem BY <1>7 DEF TakeSem, ProgramPoints
<1>8. CASE TimeOut \/ GiveUp BY <1>8 DEF TimeOut, GiveUp, ProgramPoints
<1>9. CASE DisableInterrupt BY <1>9 DEF DisableInterrupt, ProgramPoints
<1>10. CASE Compute
    <2>1. value' \in Nat
        BY <1>10, ElapsedType, CycleAssumption DEF Compute, Millimetres
    <2> QED BY <1>10, <2>1 DEF Compute, ProgramPoints
<1>11. CASE Cleanup BY <1>11 DEF Cleanup, ProgramPoints, DriverStates
<1>12. CASE InterruptStart
    BY <1>12 DEF InterruptStart, DriverStates, Edges, Direction
<1>13. CASE InterruptEnd
    BY <1>13 DEF InterruptEnd, DriverStates, ProgramPoints, Edges, Direction
<1>14. CASE InterruptIgnored BY <1>14 DEF InterruptIgnored, driver
<1>15. CASE Rise BY <1>15, CycleAssumption DEF Rise, Edge, driver, Echoes
<1>16. CASE Fall BY <1>16 DEF Fall, Edge, driver, Echoes
<1>17. CASE NoEcho BY <1>17 DEF NoEcho, driver, Echoes
<1>18. CASE Tick BY <1>18, NextCycleType, CycleAssumption DEF Tick
<1>19. CASE UNCHANGED vars BY <1>19 DEF vars, driver
<1> QED
    BY <1>1, <1>2, <1>3, <1>4, <1>5, <1>6, <1>7, <1>8, <1>9, <1>10, <1>11,
       <1>12, <1>13, <1>14, <1>15, <1>16, <1>17, <1>18, <1>19
       DEF Next, Thread, Interrupt, Sensor

\* Every variable stays in its range, in every behaviour of the driver.
THEOREM TypeCorrect == Spec => []TypeOK
BY TypeInit, TypeStep, PTL DEF Spec

----------------------------------------------------------------------------
(* The assertion.  Inductive: from k_sem_reset on, a count of one was given *)
(* by this fetch's second edge, which also left the state READY.            *)

ReadyInv ==
    pc = "disable" \/ (pc \in {"enable", "take"} /\ sem = 1) => state = "READY"

LEMMA ReadyInit == Init => ReadyInv
BY DEF Init, ReadyInv

LEMMA ReadyStep == ReadyInv /\ [Next]_vars => ReadyInv'
<1> SUFFICES ASSUME ReadyInv, [Next]_vars PROVE ReadyInv'
    OBVIOUS
<1> USE DEF ReadyInv, At
<1>1. CASE PowerOn BY <1>1 DEF PowerOn
<1>2. CASE FetchBegin \/ Trigger BY <1>2 DEF FetchBegin, Trigger
<1>3. CASE Arm BY <1>3 DEF Arm
<1>4. CASE ResetSem BY <1>4 DEF ResetSem
<1>5. CASE EnableInterrupt BY <1>5 DEF EnableInterrupt
<1>6. CASE TakeSem BY <1>6 DEF TakeSem
<1>7. CASE TimeOut \/ GiveUp BY <1>7 DEF TimeOut, GiveUp
<1>8. CASE DisableInterrupt \/ Compute \/ Cleanup
    BY <1>8 DEF DisableInterrupt, Compute, Cleanup
<1>9. CASE InterruptStart BY <1>9 DEF InterruptStart
<1>10. CASE InterruptEnd BY <1>10 DEF InterruptEnd
<1>11. CASE InterruptIgnored \/ Sensor \/ Tick \/ UNCHANGED vars
    <2>1. UNCHANGED <<pc, sem, state>>
        BY <1>11 DEF InterruptIgnored, Sensor, Rise, Fall, NoEcho, Tick, vars,
                     driver
    <2> QED BY <2>1
<1> QED
    BY <1>1, <1>2, <1>3, <1>4, <1>5, <1>6, <1>7, <1>8, <1>9, <1>10, <1>11
       DEF Next, Thread, Interrupt

\* __ASSERT_NO_MSG(STATE_READY == data->state) never fires, echoes that
\* outlast the pause and failing GPIO calls included.
THEOREM AssertionHolds == Spec => []AssertStateReady
<1>1. ReadyInv => AssertStateReady BY DEF ReadyInv, AssertStateReady
<1> QED BY ReadyInit, ReadyStep, <1>1, PTL DEF Spec

----------------------------------------------------------------------------
(* One pulse.  Inductive: a fetch that goes on has the state machine to     *)
(* itself, and unless an echo reached into it, while the interrupt waits    *)
(* for the second edge either the pin has been high since the first, or it  *)
(* fell and the interrupt for that is pending, or the first edge taken was  *)
(* the falling one and none is to come.                                     *)

\* A rising and a falling edge were taken, the pulse between them is over.
Complete == /\ first = "rise" /\ last = "fall"
            /\ echo = "quiet" /\ state = "READY"
            /\ Elapsed(start, end) = width

EdgesInv ==
    /\ state \in {"WAIT_ECHO_START", "WAIT_ECHO_END"} =>
           pc \notin {"off", "idle", "trigger", "arm", "disable", "compute"}
    /\ pending => irq /\ wired /\ echo # "armed"
    /\ pending /\ echo = "high" => width = 0

OnTime ==
    /\ pc = "trigger" => echo = "quiet"
    /\ state = "WAIT_ECHO_END" =>
           \/ /\ first = "rise" /\ Elapsed(start, cycles) = width
              /\ irq /\ wired
              /\ (echo = "high" /\ ~pending) \/ (echo = "quiet" /\ pending)
           \/ first = "fall" /\ echo = "quiet" /\ ~pending
    /\ pc \in {"disable", "compute"} => Complete
    /\ pc \in {"enable", "take"} /\ sem = 1 => Complete

PulseInv == ReadyInv /\ EdgesInv /\ (~late => OnTime)

LEMMA PulseInit == Init => PulseInv
BY ReadyInit DEF Init, PulseInv, EdgesInv, OnTime

LEMMA EdgesStep ==
    TypeOK /\ ReadyInv /\ EdgesInv /\ [Next]_vars => EdgesInv'
<1> SUFFICES ASSUME TypeOK, ReadyInv, EdgesInv, [Next]_vars PROVE EdgesInv'
    OBVIOUS
<1> USE DEF EdgesInv, At
<1>1. CASE PowerOn BY <1>1 DEF PowerOn
<1>2. CASE FetchBegin BY <1>2 DEF FetchBegin
<1>3. CASE Trigger BY <1>3 DEF Trigger
<1>4. CASE Arm BY <1>4 DEF Arm
<1>5. CASE ResetSem BY <1>5 DEF ResetSem
<1>6. CASE EnableInterrupt BY <1>6 DEF EnableInterrupt
<1>7. CASE TakeSem BY <1>7 DEF TakeSem, ReadyInv, TypeOK
<1>8. CASE TimeOut \/ GiveUp BY <1>8 DEF TimeOut, GiveUp
<1>9. CASE DisableInterrupt BY <1>9 DEF DisableInterrupt
<1>10. CASE Compute BY <1>10 DEF Compute
<1>11. CASE Cleanup BY <1>11 DEF Cleanup
<1>12. CASE InterruptStart BY <1>12 DEF InterruptStart
<1>13. CASE InterruptEnd BY <1>13 DEF InterruptEnd
<1>14. CASE InterruptIgnored BY <1>14 DEF InterruptIgnored, driver
<1>15. CASE Rise BY <1>15 DEF Rise, Edge, driver
<1>16. CASE Fall BY <1>16 DEF Fall, Edge, driver
<1>17. CASE NoEcho BY <1>17 DEF NoEcho, driver
<1>18. CASE Tick BY <1>18 DEF Tick
<1>19. CASE UNCHANGED vars BY <1>19 DEF vars, driver
<1> QED
    BY <1>1, <1>2, <1>3, <1>4, <1>5, <1>6, <1>7, <1>8, <1>9, <1>10, <1>11,
       <1>12, <1>13, <1>14, <1>15, <1>16, <1>17, <1>18, <1>19
       DEF Next, Thread, Interrupt, Sensor

LEMMA OnTimeStep ==
    TypeOK /\ PulseInv /\ [Next]_vars => (~late' => OnTime')
<1> SUFFICES ASSUME TypeOK, PulseInv, [Next]_vars, ~late' PROVE OnTime'
    OBVIOUS
<1> USE DEF PulseInv, EdgesInv, OnTime, Complete, At
<1>1. CASE PowerOn BY <1>1 DEF PowerOn
<1>2. CASE FetchBegin BY <1>2 DEF FetchBegin
<1>3. CASE Trigger BY <1>3 DEF Trigger
<1>4. CASE Arm BY <1>4 DEF Arm
<1>5. CASE ResetSem BY <1>5 DEF ResetSem
<1>6. CASE EnableInterrupt BY <1>6 DEF EnableInterrupt
<1>7. CASE TakeSem BY <1>7 DEF TakeSem
<1>8. CASE TimeOut \/ GiveUp BY <1>8 DEF TimeOut, GiveUp
<1>9. CASE DisableInterrupt BY <1>9 DEF DisableInterrupt
<1>10. CASE Compute BY <1>10 DEF Compute
<1>11. CASE Cleanup BY <1>11 DEF Cleanup
<1>12. CASE InterruptStart
    <2>1. Elapsed(cycles, cycles) = 0
        BY DEF Elapsed, TypeOK
    <2> QED BY <1>12, <2>1 DEF InterruptStart, Direction, TypeOK, Echoes
<1>13. CASE InterruptEnd
    <2>1. /\ first = "rise" /\ Elapsed(start, cycles) = width
          /\ echo = "quiet"
        BY <1>13 DEF InterruptEnd
    <2> QED BY <1>13, <2>1 DEF InterruptEnd, Direction
<1>14. CASE InterruptIgnored BY <1>14 DEF InterruptIgnored, driver
<1>15. CASE Rise BY <1>15 DEF Rise, Edge, driver
<1>16. CASE Fall BY <1>16 DEF Fall, Edge, driver, TypeOK
<1>17. CASE NoEcho BY <1>17 DEF NoEcho, driver
<1>18. CASE Tick
    <2>1. state = "WAIT_ECHO_END" /\ first = "rise" =>
              /\ width' = width + 1
              /\ Elapsed(start', cycles') = Elapsed(start, cycles) + 1
        <3>1. ASSUME state = "WAIT_ECHO_END", first = "rise"
              PROVE  Elapsed(start, cycles) = width /\ width < MaxWidth
                     /\ echo = "high"
            BY <1>18, <3>1 DEF Tick
        <3>2. width < MaxWidth => width < CycleModulus - 1
            BY CycleAssumption DEF TypeOK
        <3> QED BY <1>18, <3>1, <3>2, ElapsedNext DEF Tick, TypeOK
    <2>2. /\ UNCHANGED <<pc, state, sem, irq, wired, start, end, first, last, late>>
          /\ UNCHANGED <<echo, pending>> /\ ~pending
          /\ echo = "quiet" => width' = width
        BY <1>18 DEF Tick
    <2> QED BY <2>1, <2>2
<1>19. CASE UNCHANGED vars BY <1>19 DEF vars, driver
<1> QED
    BY <1>1, <1>2, <1>3, <1>4, <1>5, <1>6, <1>7, <1>8, <1>9, <1>10, <1>11,
       <1>12, <1>13, <1>14, <1>15, <1>16, <1>17, <1>18, <1>19
       DEF Next, Thread, Interrupt, Sensor

LEMMA PulseStep == TypeOK /\ PulseInv /\ [Next]_vars => PulseInv'
BY ReadyStep, EdgesStep, OnTimeStep DEF PulseInv

\* Unless an echo reached into the fetch, its distance comes from the rising
\* and the falling edge of one pulse.
THEOREM OnePulse == Spec => []SampleOfOnePulse
<1>1. PulseInv => SampleOfOnePulse
    BY DEF PulseInv, OnTime, SampleOfOnePulse, Complete
<1> QED BY TypeCorrect, PulseInit, PulseStep, <1>1, PTL DEF Spec

\* ... and it is the width of that pulse, whatever the counter shows.
THEOREM WidthMeasured == Spec => ValueFromWidth
<1>1. ASSUME PulseInv, [Next]_vars
      PROVE  [value' # value /\ ~late => value' = Millimetres(width)]_vars
    <2>1. CASE Compute
        BY <1>1, <2>1 DEF Compute, PulseInv, OnTime, Complete, At
    <2>2. CASE Next /\ ~Compute
        <3>1. value' = value
            BY <2>2 DEF Next, Thread, PowerOn, FetchBegin, Trigger, Arm,
               ResetSem, EnableInterrupt, TakeSem, TimeOut, GiveUp,
               DisableInterrupt, Cleanup, Interrupt, InterruptStart,
               InterruptEnd, InterruptIgnored, Sensor, Rise, Fall, NoEcho,
               Tick, driver
        <3> QED BY <3>1
    <2>3. CASE UNCHANGED vars
        BY <2>3
    <2> QED BY <1>1, <2>1, <2>2, <2>3
<1> QED
    BY TypeCorrect, PulseInit, PulseStep, <1>1, PTL DEF Spec, ValueFromWidth
=============================================================================
