---------------------------- MODULE BaseStation ----------------------------
(***************************************************************************)
(* The base station's loop (main.rs, sensor.rs, influxdb.rs): wait for the *)
(* announcement, connect, read the characteristics one by one, clear       *)
(* NEW_DATA, disconnect, write the point to InfluxDB; and what each of the *)
(* error paths leaves behind for the next round: a link, a gatt table, a   *)
(* point that is gone.                                                     *)
(*                                                                         *)
(* BlueZ, InfluxDB, systemd and the sensor are external.  Of the sensor    *)
(* there is what the station sees: values that change one by one, the      *)
(* NEW_DATA flag, and advertising that a connection uses up and that the   *)
(* next measurement starts again (Advertising has its detail).             *)
(*                                                                         *)
(* One measurement, any one, is followed; the others come before or after  *)
(* it.  Faults may happen at any time until it is calm, which it may never *)
(* be.                                                                     *)
(***************************************************************************)
EXTENDS Naturals

CONSTANT NumAttributes  \* how many characteristics a point is made of

ASSUME AttributesAssumption == NumAttributes \in Nat \ {0}

Attributes == 1 .. NumAttributes
Ages == {"before", "followed", "after"}

VARIABLES
    pc,       \* where the loop of main() is
    next,     \* the attribute that is read next
    gatt,     \* is sensor.gatt Some?
    point,    \* the fields of the point: the age of each, or "none"
    link,     \* BlueZ: is the sensor connected?
    values,   \* sensor: the age of each value, or "none" after a restart
    made,     \* sensor: how many values of the new measurement it has
    making,   \* sensor: the age of the measurement that is made
    now,      \* sensor: the age of the last one announced
    newData,  \* sensor: STATUS_NEW_DATA
    onAir,    \* sensor: is it advertising?
    stored,   \* InfluxDB: the fields of the followed measurement
    calm,     \* do no more faults happen?
    failed,   \* history: did a read of this session fail?
    excused   \* history: why the followed measurement may be incomplete

station == <<pc, next, gatt, point, failed>>
sensor == <<values, made, making, now, newData, onAir>>
vars == <<station, sensor, link, stored, calm, excused>>

ProgramPoints == {"wait", "connect", "discover", "read", "clear",
                  "disconnect", "write"}
Nothing == [a \in Attributes |-> "none"]

----------------------------------------------------------------------------
\* The followed measurement was announced, and is no longer.
Acknowledged == now = "after" \/ (now = "followed" /\ ~newData)

Holds == \E a \in Attributes : point[a] = "followed"

\* An error that main() only logs: the next round begins, without the point.
GiveUpRound ==
    /\ pc' = "wait"
    /\ point' = Nothing
    /\ excused' = (excused \/ (Acknowledged /\ Holds))

\* read_data goes on with a new point.
BeginReading ==
    /\ pc' = "read"
    /\ next' = 1
    /\ point' = Nothing
    /\ failed' = FALSE

Init ==
    /\ pc = "wait" /\ next = 1 /\ gatt = FALSE
    /\ point = Nothing
    /\ link \in BOOLEAN
    /\ values = [a \in Attributes |-> "before"]
    /\ made = 0 /\ making = "before" /\ now = "before"
    /\ newData = FALSE /\ onAir = FALSE
    /\ stored = {}
    /\ calm = FALSE
    /\ failed = FALSE /\ excused = FALSE

----------------------------------------------------------------------------
(* The station. *)

\* wait_new_data: the monitor has matched NEW_DATA on the air.
Found ==
    /\ pc = "wait"
    /\ onAir /\ newData
    /\ pc' = "connect"
    /\ UNCHANGED <<next, gatt, point, failed, sensor, link, stored, calm, excused>>

\* new_data_timeout: connect all the same.
TimedOut ==
    /\ pc = "wait"
    /\ pc' = "connect"
    /\ UNCHANGED <<next, gatt, point, failed, sensor, link, stored, calm, excused>>

\* Device::connect succeeds.  A new link uses the advertising up.
Connect ==
    /\ pc = "connect"
    /\ link \/ onAir
    /\ link' = TRUE
    /\ onAir' = IF link THEN onAir ELSE FALSE
    /\ pc' = "discover"
    /\ UNCHANGED <<next, gatt, point, failed, values, made, making, now, newData>>
    /\ UNCHANGED <<stored, calm, excused>>

\* Mutant of AlreadyConnected: it is an error like any other.
AlreadyConnectedFails ==
    /\ pc = "connect"
    /\ link
    /\ GiveUpRound
    /\ UNCHANGED <<next, gatt, failed, sensor, link, stored, calm>>

\* AlreadyConnected is as good as a success: find_gatt_attributes was not run.
AlreadyConnected ==
    /\ pc = "connect"
    /\ link
    /\ BeginReading
    /\ UNCHANGED <<gatt, sensor, link, stored, calm, excused>>

ConnectFails ==
    /\ pc = "connect"
    /\ ~calm \/ ~(link \/ onAir)
    /\ GiveUpRound
    /\ UNCHANGED <<next, gatt, failed, sensor, link, stored, calm>>

\* find_gatt_attributes
Discover ==
    /\ pc = "discover"
    /\ link
    /\ gatt' = TRUE
    /\ BeginReading
    /\ UNCHANGED <<sensor, link, stored, calm, excused>>

DiscoverFails ==
    /\ pc = "discover"
    /\ ~calm \/ ~link
    /\ GiveUpRound
    /\ UNCHANGED <<next, gatt, failed, sensor, link, stored, calm>>

\* Mutant of GoOnReading: the last characteristic is forgotten.
GoOnReadingShort ==
    /\ pc' = IF next + 1 >= NumAttributes THEN "clear" ELSE "read"
    /\ next' = IF next + 1 >= NumAttributes THEN 1 ELSE next + 1

\* Mutant of GoOnReading: the next session goes on where this one ended.
GoOnReadingUnbounded ==
    /\ pc' = IF next = NumAttributes THEN "clear" ELSE "read"
    /\ next' = next + 1

GoOnReading ==
    /\ pc' = IF next = NumAttributes THEN "clear" ELSE "read"
    /\ next' = IF next = NumAttributes THEN 1 ELSE next + 1

Read ==
    /\ pc = "read"
    /\ gatt /\ link
    /\ point' = [point EXCEPT ![next] = values[next]]
    /\ GoOnReading
    /\ UNCHANGED <<gatt, failed, sensor, link, stored, calm, excused>>

\* A failed read leaves its field out of the point.
ReadFails ==
    /\ pc = "read"
    /\ ~calm \/ ~gatt \/ ~link
    /\ failed' = TRUE
    /\ GoOnReading
    /\ UNCHANGED <<gatt, point, sensor, link, stored, calm, excused>>

\* clear_new_data takes effect, whether the station gets the answer or not.
Clear ==
    /\ pc = "clear"
    /\ gatt /\ link
    /\ newData' = FALSE
    /\ excused' = (excused \/ (now = "followed" /\ newData /\ failed))
    /\ pc' = "disconnect"
    /\ UNCHANGED <<next, gatt, point, failed, values, made, making, now, onAir>>
    /\ UNCHANGED <<link, stored, calm>>

ClearFails ==
    /\ pc = "clear"
    /\ ~calm \/ ~gatt \/ ~link
    /\ pc' = "disconnect"
    /\ UNCHANGED <<next, gatt, point, failed, sensor, link, stored, calm, excused>>

\* The sensor stops advertising when it has no data and no link any more.
LinkEnds ==
    /\ link' = FALSE
    /\ onAir' = (onAir /\ newData)

\* Mutant of Disconnect: only the gatt table is given up.
DisconnectTableOnly ==
    /\ pc = "disconnect"
    /\ link
    /\ gatt' = FALSE
    /\ pc' = "write"
    /\ UNCHANGED <<next, point, failed, sensor, link, stored, calm, excused>>

Disconnect ==
    /\ pc = "disconnect"
    /\ link
    /\ LinkEnds
    /\ gatt' = FALSE
    /\ pc' = "write"
    /\ UNCHANGED <<next, point, failed, values, made, making, now, newData>>
    /\ UNCHANGED <<stored, calm, excused>>

\* Also when the link is down already: the point is dropped, gatt stays.
DisconnectFails ==
    /\ pc = "disconnect"
    /\ ~calm \/ ~link
    /\ GiveUpRound
    /\ UNCHANGED <<next, gatt, failed, sensor, link, stored, calm>>

\* write_point: a point without fields is not accepted, which main() does
\* not notice.
Write ==
    /\ pc = "write"
    /\ stored' = stored \cup {a \in Attributes : point[a] = "followed"}
    /\ pc' = "wait"
    /\ point' = Nothing
    /\ UNCHANGED <<next, gatt, failed, sensor, link, calm, excused>>

\* Mutant of WriteFails: the point is kept, but the next session begins a new one.
WriteFailsKeeps ==
    /\ pc = "write"
    /\ ~calm
    /\ pc' = "wait"
    /\ UNCHANGED <<next, gatt, point, failed, sensor, link, stored, calm, excused>>

\* The request fails, or is answered with an error status, which write_point
\* does not look at.
WriteFails ==
    /\ pc = "write"
    /\ ~calm
    /\ GiveUpRound
    /\ UNCHANGED <<next, gatt, failed, sensor, link, stored, calm>>

\* The process ends and systemd starts it again; BlueZ keeps the link.
Crash ==
    /\ ~calm
    /\ GiveUpRound
    /\ next' = 1 /\ gatt' = FALSE /\ failed' = FALSE
    /\ UNCHANGED <<sensor, link, stored, calm>>

Station == \/ Found \/ TimedOut \/ Connect \/ AlreadyConnected \/ ConnectFails
           \/ Discover \/ DiscoverFails \/ Read \/ ReadFails \/ Clear
           \/ ClearFails \/ Disconnect \/ DisconnectFails \/ Write \/ WriteFails

----------------------------------------------------------------------------
(* The sensor, the link, and calm. *)

\* The next value of a measurement replaces the one before.
Measure ==
    /\ made < NumAttributes
    /\ making' \in IF made > 0 THEN {making}
                   ELSE IF making = "before" THEN {"before", "followed"}
                   ELSE {"after"}
    /\ values' = [values EXCEPT ![made + 1] = making']
    /\ made' = made + 1
    /\ excused' = (excused \/ (values[made + 1] = "followed" /\ ~Acknowledged))
    /\ UNCHANGED <<station, now, newData, onAir, link, stored, calm>>

\* Between the station's first read and its clear: the clear will acknowledge
\* what was not read.
HalfRead == pc = "clear" \/ (pc = "read" /\ next > 1)

Announce ==
    /\ made = NumAttributes
    /\ made' = 0
    /\ now' = making
    /\ newData' = TRUE
    /\ onAir' = TRUE
    /\ excused' = (excused \/ (making = "followed" /\ HalfRead))
    /\ UNCHANGED <<station, values, making, link, stored, calm>>

LinkLost ==
    /\ link /\ ~calm
    /\ LinkEnds
    /\ UNCHANGED <<station, values, made, making, now, newData>>
    /\ UNCHANGED <<stored, calm, excused>>

\* A fatal error of the sensor: it starts over with no values, no link and
\* nothing announced.  What it announced, or was making, is gone.
SensorRestarts ==
    /\ ~calm
    /\ values' = Nothing
    /\ made' = 0
    /\ now' = making
    /\ newData' = FALSE /\ onAir' = FALSE
    /\ link' = FALSE
    /\ excused' = (excused \/ (making = "followed" /\ ~Acknowledged))
    /\ UNCHANGED <<station, making, stored, calm>>

FaultsEnd ==
    /\ ~calm
    /\ calm' = TRUE
    /\ UNCHANGED <<station, sensor, link, stored, excused>>

Next == \/ Station \/ Crash \/ Measure \/ Announce \/ LinkLost \/ SensorRestarts
        \/ FaultsEnd

Spec == Init /\ [][Next]_vars

\* The station's calls return, with a result or an error, and the sensor
\* measures every 15 minutes.  Nothing says that faults end.  That they return
\* is assumed: influxdb.rs sets no timeout for its request, so a server that
\* accepts the connection and never answers would hold the loop.
Fairness == WF_vars(Station) /\ WF_vars(Measure \/ Announce)

FairSpec == Spec /\ Fairness

----------------------------------------------------------------------------
(* What becomes of the followed measurement: module Mailbox. *)

Letter == IF Acknowledged THEN "taken"
          ELSE IF now = "followed" THEN "open" ELSE "expected"
Hand == {a \in Attributes : point[a] = "followed"}

Mail == INSTANCE Mailbox WITH
    Sheets  <- Attributes,
    letter  <- Letter,
    hand    <- Hand,
    archive <- stored,
    reading <- HalfRead,
    lost    <- excused

----------------------------------------------------------------------------
(* Properties. *)

\* Every variable stays in its range.
TypeOK ==
    /\ pc \in ProgramPoints
    /\ next \in Attributes
    /\ gatt \in BOOLEAN /\ link \in BOOLEAN
    /\ point \in [Attributes -> Ages \cup {"none"}]
    /\ values \in [Attributes -> Ages \cup {"none"}]
    /\ made \in 0 .. NumAttributes
    /\ making \in Ages /\ now \in Ages
    /\ newData \in BOOLEAN /\ onAir \in BOOLEAN
    /\ stored \subseteq Attributes
    /\ calm \in BOOLEAN /\ failed \in BOOLEAN /\ excused \in BOOLEAN

\* A measurement that is no longer announced is in the point or in the
\* database, every field of it.  The excuses: a read failed in the session
\* that acknowledged it; the point was lost after that (the disconnection,
\* the write or the process failed); the next measurement replaced it before;
\* it was announced between the station's reads and its clear; or the sensor
\* restarted before.  Failures to connect, to discover, to clear, a lost link
\* or a crash of the station before the acknowledgement cost nothing.
FollowedKept ==
    Acknowledged /\ ~excused =>
        \A a \in Attributes : point[a] = "followed" \/ a \in stored

\* Rounds, sessions, restarts and errors, in whatever order, do to the followed
\* measurement what Mailbox allows: it is copied field by field, acknowledged
\* by a session that has read, stored only from one session's point, and lost
\* only with a trace, in the ways named there.
ImplementsMailbox == Mail!Spec

\* Once faults have ended the station delivers complete points again and
\* again, whatever link or gatt table the faults left behind.
Delivering == pc = "write" /\ \A a \in Attributes : point[a] # "none"
Recovers == []<>(calm => Delivering)

\* ... and the sensor's connection slot is given back again and again.
LinkReleased == []<>(calm => ~link)
=============================================================================
