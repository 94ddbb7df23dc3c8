----------------------------- MODULE Collection -----------------------------
(***************************************************************************)
(* The sensor's firmware (Advertising, with all its threads) and the base  *)
(* station's loop together, in time: the sensor announces a measurement    *)
(* every UPDATE_PERIOD, and the station waits for the announcement at most *)
(* new_data_timeout, which is a little longer (15 and 16 minutes).         *)
(*                                                                         *)
(* The monitor that wakes the station compares the whole status word with  *)
(* NEW_DATA alone.  A client other than the station connects, sets other   *)
(* bits and leaves, until it is calm.                                      *)
(*                                                                         *)
(* Time passes only when the firmware's threads have nothing to do, so     *)
(* their interleavings are all there and take no time.  Bluetooth comes up *)
(* on every start of the firmware (Advertising has the failures).          *)
(***************************************************************************)
EXTENDS Naturals

CONSTANTS
    Station, Other,  \* the base station and the other client
    MaxConn,         \* CONFIG_BT_MAX_CONN
    OtherBits,       \* status bits besides NEW_DATA
    Period,          \* UPDATE_PERIOD
    Spell,           \* what a pass of the sensor's loop takes at most
    Timeout,         \* new_data_timeout
    SessionLimit     \* what one of the station's sessions takes at most

ASSUME ClientsAssumption == Station # Other /\ "NEW_DATA" \notin OtherBits

\* CONFIG_BT_MAX_CONN is 2: a link that the station keeps leaves a slot to
\* advertise for.  Without one WaitEndsForCause would not hold.
ASSUME SlotsAssumption == MaxConn \in Nat /\ MaxConn > 1

ASSUME TimesAssumption ==
    /\ {Period, Spell, Timeout, SessionLimit} \subseteq Nat
    /\ Period + Spell < Timeout
    /\ Spell + SessionLimit < Period

Clients == {Station, Other}
SetOther == [mask |-> OtherBits, value |-> OtherBits]
Writes == {SetOther}

VARIABLES
    bt, status, adv, payload, conns, pc, held, timer, data, why, renewed,
              \* the firmware's, see Advertising
    age,      \* time since update_timer expired or was started
    at,       \* where the station's loop is
    gatt,     \* is the station's sensor.gatt Some?
    spent,    \* how long its wait, or its session, has taken: the session
              \* begins with the point's timestamp
    calm,     \* are there no more faults, and no other client?
    disturbed,\* history: was the wait it is in disturbed?
    steady,   \* history: since it was woken last, has all gone well?
    unread    \* history: has the station still to read the last measurement?

firmware == <<bt, status, adv, payload, conns, pc, held, timer, data, why, renewed>>
loop == <<at, gatt, spent>>
history == <<disturbed, steady, unread>>
vars == <<firmware, age, loop, calm, history>>

Radio == INSTANCE Advertising

\* "connect": after the timeout; "woken": the same after a match.
LoopStates == {"wait", "woken", "connect", "read", "clear", "disconnect"}

Linked(c) == conns[c] \in {"up", "read"}

\* Bits besides NEW_DATA, in the word or on their way back into it.
Littered == (status \cup held \cup payload) \cap OtherBits # {}

\* The other client holds a slot, or has left bits behind.
Meddled == conns[Other] # "none" \/ Littered

\* The pattern of the monitor: all of the status bytes.
Match == adv /\ payload = {Radio!NewData}

\* What is on the air was announced just now.
Prompt == /\ age <= Spell /\ ~timer
          /\ pc["main"] \notin {"measure", "load", "store"}

Init ==
    /\ Radio!Init
    /\ age = 0
    /\ at = "wait" /\ gatt = FALSE /\ spent = 0
    /\ calm = FALSE
    /\ disturbed = FALSE /\ steady = FALSE /\ unread = FALSE

----------------------------------------------------------------------------
(* The station's loop; its steps take time as the clock allows. *)

\* The next round: the wait starts over.
NextRound ==
    /\ at' = "wait"
    /\ spent' = 0
    /\ disturbed' = Meddled

\* Something went wrong in this step.
Upset == steady' = FALSE

\* The point's timestamp is taken here.
Found ==
    /\ at = "wait" /\ Match
    /\ at' = "woken"
    /\ spent' = 0
    /\ disturbed' = FALSE
    /\ steady' = (steady \/ (~Meddled /\ Prompt /\ (gatt \/ ~Linked(Station))))
    /\ UNCHANGED <<firmware, age, gatt, calm, unread>>

\* Mutant of TimedOut: the timeout is no longer than the update period.
TimedOutEarly ==
    /\ at = "wait" /\ spent = Period
    /\ at' = "connect"
    /\ spent' = 0
    /\ disturbed' = FALSE
    /\ Upset
    /\ UNCHANGED <<firmware, age, gatt, calm, unread>>

TimedOut ==
    /\ at = "wait" /\ spent = Timeout
    /\ at' = "connect"
    /\ spent' = 0
    /\ disturbed' = FALSE
    /\ Upset
    /\ UNCHANGED <<firmware, age, gatt, calm, unread>>

Connecting == at \in {"woken", "connect"}

\* connect and find_gatt_attributes.
Connect ==
    /\ Connecting
    /\ Radio!Connect(Station)
    /\ at' = "read"
    /\ gatt' = TRUE
    /\ UNCHANGED <<age, spent, calm, history>>

\* BlueZ is linked and calls it a success: the table is looked up again.
Reconnect ==
    /\ Connecting
    /\ Linked(Station)
    /\ at' = "read"
    /\ gatt' = TRUE
    /\ UNCHANGED <<firmware, age, spent, calm, history>>

\* It calls it an error: the table is as an earlier session left it.
AlreadyConnected ==
    /\ Connecting
    /\ Linked(Station)
    /\ at' = "read"
    /\ UNCHANGED <<firmware, age, gatt, spent, calm, history>>

\* The link is there, the table is not found; the round ends with the link.
DiscoverFails ==
    /\ Connecting
    /\ ~calm
    /\ Radio!Connect(Station)
    /\ NextRound /\ Upset
    /\ UNCHANGED <<age, gatt, calm, unread>>

\* Also when the table is not found over a link that was there before.
ConnectFails ==
    /\ Connecting
    /\ ~calm \/ ~(adv \/ Linked(Station))
    /\ NextRound /\ Upset
    /\ UNCHANGED <<firmware, age, gatt, calm, unread>>

Read ==
    /\ at = "read"
    /\ gatt
    /\ Radio!Collect(Station)
    /\ at' = "clear"
    /\ unread' = FALSE
    /\ UNCHANGED <<age, gatt, spent, calm, disturbed, steady>>

\* Failed reads are left out of the point; the loop goes on.
ReadFails ==
    /\ at = "read"
    /\ ~calm \/ ~gatt \/ ~Linked(Station)
    /\ at' = "clear"
    /\ steady' = (steady /\ ~gatt)
    /\ UNCHANGED <<firmware, age, gatt, spent, calm, disturbed, unread>>

\* Mutant of ClearWrite: the write covers NEW_DATA alone.
ClearWriteOne == [mask |-> {Radio!NewData}, value |-> {}]

\* clear_new_data writes four zero bytes.
ClearWrite == [mask |-> Radio!Bits, value |-> {}]

Clear ==
    /\ at = "clear"
    /\ gatt
    /\ Radio!StatusWrite(Station, ClearWrite)
    /\ at' = "disconnect"
    /\ UNCHANGED <<age, gatt, spent, calm, history>>

\* Also after failed reads: that the sensor would take the write is left out.
ClearFails ==
    /\ at = "clear"
    /\ ~calm \/ ~gatt \/ conns[Station] # "read"
    /\ at' = "disconnect"
    /\ steady' = (steady /\ ~gatt)
    /\ UNCHANGED <<firmware, age, gatt, spent, calm, disturbed, unread>>

\* Mutant of Disconnect: the link is kept, the table is dropped.
DisconnectTableOnly ==
    /\ at = "disconnect"
    /\ Linked(Station)
    /\ gatt' = FALSE
    /\ NextRound
    /\ UNCHANGED <<firmware, age, calm, steady, unread>>

\* Then the point is written, which takes no time here.
Disconnect ==
    /\ at = "disconnect"
    /\ Radio!LinkDown(Station)
    /\ gatt' = FALSE
    /\ NextRound
    /\ UNCHANGED <<age, calm, steady, unread>>

DisconnectFails ==
    /\ at = "disconnect"
    /\ ~calm \/ ~Linked(Station)
    /\ NextRound /\ Upset
    /\ UNCHANGED <<firmware, age, gatt, calm, unread>>

\* The process ends and is started again; BlueZ keeps the link.
Crash ==
    /\ ~calm
    /\ NextRound /\ Upset
    /\ gatt' = FALSE
    /\ UNCHANGED <<firmware, age, calm, unread>>

Loop == \/ Found \/ TimedOut
        \/ Connect \/ Reconnect \/ AlreadyConnected \/ DiscoverFails \/ ConnectFails
        \/ Read \/ ReadFails \/ Clear \/ ClearFails
        \/ Disconnect \/ DisconnectFails

----------------------------------------------------------------------------
(* The firmware. *)

\* The measurement replaces the one before.
Measure ==
    /\ Radio!MainMeasure
    /\ unread' = TRUE
    /\ UNCHANGED <<age, loop, calm, disturbed, steady>>

\* The other steps of its threads.
Boot ==
    /\ Radio!MainBoot /\ bt' = "enabling"
    /\ age' = 0
    /\ UNCHANGED <<loop, calm, history>>

Threads ==
    /\ \/ Radio!MainLoad \/ Radio!MainStore \/ Radio!MainCopy \/ Radio!MainSend
       \/ Radio!MainCheck \/ Radio!MainCount \/ Radio!MainStart
       \/ Radio!MainEnable \/ Radio!MainStop \/ Radio!MainSync
       \/ Radio!RxUpdate
       \/ Radio!BtReady /\ bt' = "ready"
       \/ \E c \in Clients : \/ Radio!DisconnectedCheck(c)
                             \/ Radio!DisconnectedStop(c)
                             \/ Radio!Unlist(c)
    /\ UNCHANGED <<age, loop, calm, history>>

TimerExpires ==
    /\ age = Period
    /\ Radio!TimerExpires
    /\ age' = 0
    /\ UNCHANGED <<loop, calm, history>>

Firmware == Measure \/ Boot \/ Threads \/ TimerExpires

\* The main thread waits for its timer, or measures for a while; nobody else
\* has anything to do.
Settled ==
    /\ \/ pc["main"] = "sync" /\ ~timer
       \/ pc["main"] = "measure" /\ age < Spell
    /\ pc["rx"] = "idle"
    /\ bt = "ready"
    /\ \A c \in Clients : conns[c] \notin {"closing", "stopping", "leaving"}

\* BlueZ reports a match at once; waits and sessions have their limits.
Tick ==
    /\ Settled
    /\ age < Period
    /\ ~(at = "wait" /\ Match)
    /\ spent < IF at = "wait" THEN Timeout ELSE SessionLimit
    /\ age' = age + 1
    /\ spent' = spent + 1
    /\ UNCHANGED <<firmware, at, gatt, calm, history>>

----------------------------------------------------------------------------
(* Faults, and the other client. *)

Disturbance ==
    /\ disturbed' = (at = "wait")
    /\ Upset
    /\ UNCHANGED <<age, loop, calm, unread>>

OtherConnects == ~calm /\ Radio!Connect(Other) /\ Disturbance
OtherWrites == ~calm /\ Radio!StatusWrite(Other, SetOther) /\ Disturbance
OtherLeaves == Radio!LinkDown(Other) /\ Disturbance
Reboot == ~calm /\ Radio!Reboot /\ Disturbance

\* The main thread is not in a pass, nor due to begin one.
Quiet == pc["main"] = "sync" /\ ~timer /\ age < Period

\* A link that an earlier round has kept may go at any time; its callback then
\* overlaps a pass, or is over before the next.
LinkLost ==
    /\ ~calm
    /\ Radio!LinkDown(Station)
    /\ disturbed' = (disturbed \/ (at = "wait" /\ ~Quiet))
    /\ Upset
    /\ UNCHANGED <<age, loop, calm, unread>>

FaultsEnd ==
    /\ ~calm /\ conns[Other] = "none"
    /\ calm' = TRUE
    /\ UNCHANGED <<firmware, age, loop, history>>

Faults == \/ Crash \/ OtherConnects \/ OtherWrites \/ OtherLeaves \/ Reboot
          \/ LinkLost \/ FaultsEnd

Next == Loop \/ Firmware \/ Tick \/ Faults

Spec == Init /\ [][Next]_vars

\* Neither the programs nor the time stand still.  That each of them goes on
\* follows from the clock: it waits for the others and they wait for it.
Fairness == WF_vars(Loop \/ Firmware \/ Tick)

FairSpec == Spec /\ Fairness

----------------------------------------------------------------------------
(* Properties. *)

\* Every variable stays in its range.
TypeOK ==
    /\ Radio!TypeOK
    /\ age \in 0 .. Period
    /\ at \in LoopStates
    /\ gatt \in BOOLEAN
    /\ spent \in 0 .. Timeout
    /\ calm \in BOOLEAN
    /\ disturbed \in BOOLEAN /\ steady \in BOOLEAN /\ unread \in BOOLEAN

\* The timeout is only for disturbed waits.  A wait is disturbed when another
\* client was there, had left bits in the status word, came or left; when the
\* sensor restarted; and when a link that an earlier round had kept was lost
\* between an expiry of update_timer and the end of the pass that it starts,
\* where the callback of the disconnection may test the word before the new
\* data and stop advertising after it.  In every other wait the station is
\* woken by the announcement, in whichever state its last round left link,
\* table and word, and also when a kept link is lost between two passes.
WaitEndsForCause == [][at = "wait" /\ at' = "connect" => disturbed]_vars

\* While all goes well no measurement is replaced before it was read.
NoneSkipped == [][steady /\ pc["main"] = "measure" /\ pc'["main"] = "load"
                    => ~unread]_vars

\* "Get timestamp as close as possible to when the data was collected": while
\* all goes well, what is read was measured in the pass that the timer began
\* last, and its point is stamped no later than a pass after that expiry.
\* The same measurement may wake the station and be stored a second time,
\* after a session that did not acknowledge it or by a start that the main
\* thread had decided on before; that stamp is bounded the same way.
StampFits == [][steady /\ at = "read" /\ at' = "clear"
                  => /\ ~timer /\ pc["main"] \notin {"measure", "load", "store"}
                     /\ age <= Spell + spent]_vars

\* However the other client left the status word, it does not keep the
\* monitor from matching for ever: the station clears all the bits after a
\* timeout, and is woken by the announcements again.
WokenAgain == []<>(calm => at = "woken")
=============================================================================
