------------------------- MODULE BaseStationProofs -------------------------
(***************************************************************************)
(* Proofs about BaseStation, for any number of characteristics.            *)
(***************************************************************************)
EXTENDS BaseStation, TLAPS

USE AttributesAssumption

\* Every action, with what it is made of, for the steps below.
LEMMA StepKinds ==
    ASSUME [Next]_vars
    PROVE  \/ Found \/ TimedOut \/ Connect \/ AlreadyConnected \/ ConnectFails
           \/ Discover \/ DiscoverFails \/ Read \/ ReadFails \/ Clear
           \/ ClearFails \/ Disconnect \/ DisconnectFails \/ Write \/ WriteFails
           \/ Crash \/ Measure \/ Announce \/ LinkLost \/ SensorRestarts
           \/ FaultsEnd
           \/ UNCHANGED vars
BY DEF Next, Station

\* Every variable of the station, the sensor, the link and the database stays
\* in its range: the read loop of sensor.rs never leaves the characteristics.
THEOREM TypeCorrect == Spec => []TypeOK
<1>1. Init => TypeOK
  <2> SUFFICES ASSUME Init PROVE TypeOK
      OBVIOUS
  <2>1. 1 \in Attributes /\ 0 \in 0 .. NumAttributes
      BY DEF Attributes
  <2>2. /\ point \in [Attributes -> Ages \cup {"none"}]
        /\ values \in [Attributes -> Ages \cup {"none"}]
      BY DEF Init, Nothing, Ages
  <2> QED
      BY <2>1, <2>2 DEF Init, TypeOK, ProgramPoints, Ages
<1>2. TypeOK /\ [Next]_vars => TypeOK'
  <2> SUFFICES ASSUME TypeOK, [Next]_vars PROVE TypeOK'
      OBVIOUS
  <2> USE DEF TypeOK, ProgramPoints
  <2>0. /\ Nothing \in [Attributes -> Ages \cup {"none"}]
        /\ 1 \in Attributes
      BY DEF Nothing, Attributes
  <2>1. Acknowledged \in BOOLEAN /\ Holds \in BOOLEAN /\ HalfRead \in BOOLEAN
      BY Zenon DEF Acknowledged, Holds, HalfRead
  <2>2. CASE Found
      BY <2>2 DEF Found, sensor
  <2>3. CASE TimedOut
      BY <2>3 DEF TimedOut, sensor
  <2>4. CASE Connect
      BY <2>4 DEF Connect
  <2>5. CASE AlreadyConnected
      BY <2>0, <2>5 DEF AlreadyConnected, BeginReading, sensor
  <2>6. CASE ConnectFails
      BY <2>0, <2>1, <2>6 DEF ConnectFails, GiveUpRound, sensor
  <2>7. CASE Discover
      BY <2>0, <2>7 DEF Discover, BeginReading, sensor
  <2>8. CASE DiscoverFails
      BY <2>0, <2>1, <2>8 DEF DiscoverFails, GiveUpRound, sensor
  <2>9. ASSUME GoOnReading PROVE pc' \in ProgramPoints /\ next' \in Attributes
      BY <2>9 DEF GoOnReading, Attributes
  <2>10. CASE Read
    <3>1. point' \in [Attributes -> Ages \cup {"none"}]
        BY <2>10 DEF Read
    <3> QED
        BY <2>9, <2>10, <3>1 DEF Read, sensor
  <2>11. CASE ReadFails
      BY <2>9, <2>11 DEF ReadFails, sensor
  <2>12. CASE Clear
      BY <2>12 DEF Clear
  <2>13. CASE ClearFails
      BY <2>13 DEF ClearFails, sensor
  <2>14. CASE Disconnect
      BY <2>14 DEF Disconnect, LinkEnds
  <2>15. CASE DisconnectFails
      BY <2>0, <2>1, <2>15 DEF DisconnectFails, GiveUpRound, sensor
  <2>16. CASE Write
      BY <2>0, <2>16 DEF Write, sensor
  <2>17. CASE WriteFails
      BY <2>0, <2>1, <2>17 DEF WriteFails, GiveUpRound, sensor
  <2>18. CASE Crash
      BY <2>0, <2>1, <2>18 DEF Crash, GiveUpRound, sensor
  <2>19. CASE Measure
    <3>1. making' \in Ages
        BY <2>19 DEF Measure, Ages
    <3>2. values' \in [Attributes -> Ages \cup {"none"}]
        BY <2>19, <3>1 DEF Measure
    <3>3. made' \in 0 .. NumAttributes
        BY <2>19 DEF Measure
    <3>4. excused' \in BOOLEAN
        BY <2>1, <2>19 DEF Measure
    <3> QED
        BY <2>19, <3>1, <3>2, <3>3, <3>4 DEF Measure, station
  <2>20. CASE Announce
      BY <2>1, <2>20 DEF Announce, station
  <2>21. CASE LinkLost
      BY <2>21 DEF LinkLost, LinkEnds, station
  <2>22. CASE FaultsEnd
      BY <2>22 DEF FaultsEnd, station, sensor
  <2>23. CASE SensorRestarts
    <3>1. values' \in [Attributes -> Ages \cup {"none"}] /\ made' \in 0 .. NumAttributes
        BY <2>0, <2>23 DEF SensorRestarts
    <3>2. excused' \in BOOLEAN
        BY <2>1, <2>23 DEF SensorRestarts
    <3> QED
        BY <2>23, <3>1, <3>2 DEF SensorRestarts, station
  <2>24. CASE UNCHANGED vars
      BY <2>24 DEF vars, station, sensor
  <2> QED
      BY <2>2, <2>3, <2>4, <2>5, <2>6, <2>7, <2>8, <2>10, <2>11, <2>12, <2>13,
         <2>14, <2>15, <2>16, <2>17, <2>18, <2>19, <2>20, <2>21, <2>22, <2>23,
         <2>24, StepKinds
<1> QED
    BY <1>1, <1>2, PTL DEF Spec

----------------------------------------------------------------------------
(* The sensor's side: which values are of which measurement. *)

\* Values up to the last one made are of the measurement that is made, the
\* others of the one announced, or were never made since a restart; and
\* measurements come in order.
SensorInv ==
    /\ \A a \in Attributes :
           IF a <= made THEN values[a] = making
           ELSE values[a] = now \/ (values[a] = "none" /\ ~newData)
    /\ made = 0 => making = now
    /\ now = "followed" => made = 0 \/ making = "after"
    /\ now = "after" => making = "after"
    /\ now = "before" => making # "after"

\* While the followed measurement is announced and has no excuse, none of
\* its values has been replaced.
WholeInv == now = "followed" /\ newData /\ ~excused => made = 0

----------------------------------------------------------------------------
(* The station's side: where the followed measurement is. *)

\* Without a failed read, the session has every attribute before the next one.
ReadInv ==
    now = "followed" /\ newData /\ ~excused /\ ~failed =>
        /\ pc = "read" => \A a \in 1 .. (next - 1) : point[a] = "followed"
        /\ pc = "clear" => \A a \in Attributes : point[a] = "followed"

\* Before its reads the station has no point; what it has not read yet is not
\* in the point, and neither is what it failed to read.
PointInv ==
    /\ pc \in {"wait", "connect", "discover"} => point = Nothing
    /\ pc = "read" => \A a \in next .. NumAttributes : point[a] = "none"
    /\ pc \in {"read", "clear"} /\ failed =>
           \E a \in Attributes : point[a] = "none" /\ (pc = "read" => a < next)

IInv == SensorInv /\ WholeInv /\ ReadInv /\ PointInv

----------------------------------------------------------------------------
\* Only the sensor's two actions disturb its side, but for the excuses, which
\* stay, and the announcement, which only Clear takes back.
LEMMA SensorStep ==
    TypeOK /\ SensorInv /\ WholeInv /\ [Next]_vars => SensorInv' /\ WholeInv'
<1> SUFFICES ASSUME TypeOK, SensorInv, WholeInv, [Next]_vars
             PROVE  SensorInv' /\ WholeInv'
    OBVIOUS
<1>1. CASE Measure
  <2> USE DEF TypeOK, Attributes, Ages
  <2>1. /\ made < NumAttributes /\ made' = made + 1
        /\ values' = [values EXCEPT ![made + 1] = making']
        /\ now' = now /\ newData' = newData
      BY <1>1 DEF Measure
  <2>2. made > 0 => making' = making
      BY <1>1 DEF Measure
  <2>3. made = 0 => \/ now = "before" /\ making' \in {"before", "followed"}
                    \/ now \in {"followed", "after"} /\ making' = "after"
      BY <1>1 DEF Measure, SensorInv
  <2>4. \A a \in Attributes :
            IF a <= made' THEN values'[a] = making'
            ELSE values'[a] = now' \/ (values'[a] = "none" /\ ~newData')
      BY <2>1, <2>2, <2>3 DEF SensorInv
  <2>5. SensorInv'
      BY <2>1, <2>2, <2>3, <2>4 DEF SensorInv
  \* The value replaced is the followed one: the excuse.
  <2>6. ASSUME now = "followed", newData PROVE excused'
    <3>1. CASE excused
        BY <1>1, <3>1 DEF Measure
    <3>2. CASE ~excused
      <4>1. made = 0
          BY <2>6, <3>2 DEF WholeInv
      <4>2. values[made + 1] = "followed"
          BY <2>1, <2>6, <4>1 DEF SensorInv
      <4>3. ~Acknowledged
          BY <2>6 DEF Acknowledged
      <4> QED
          BY <1>1, <4>2, <4>3 DEF Measure
    <3> QED
        BY <3>1, <3>2
  <2> QED
      BY <2>1, <2>5, <2>6 DEF WholeInv
<1>2. CASE Announce
  <2>1. made = NumAttributes /\ made' = 0 /\ now' = making /\ making' = making
      BY <1>2 DEF Announce
  <2>2. \A a \in Attributes : values'[a] = making
      BY <1>2, <2>1 DEF Announce, SensorInv, Attributes
  <2> QED
      BY <2>1, <2>2 DEF SensorInv, WholeInv, TypeOK, Attributes, Ages
<1>3. ASSUME UNCHANGED <<values, made, making, now>>,
             newData' => newData, excused => excused'
      PROVE  SensorInv' /\ WholeInv'
    BY <1>3 DEF SensorInv, WholeInv
<1>4. CASE UNCHANGED sensor /\ (excused => excused')
    BY <1>3, <1>4 DEF sensor
<1>5. CASE Found \/ TimedOut \/ AlreadyConnected \/ Discover \/ Read
           \/ ReadFails \/ ClearFails \/ Write \/ FaultsEnd
    BY <1>4, <1>5 DEF Found, TimedOut, AlreadyConnected, Discover, Read,
       ReadFails, ClearFails, Write, FaultsEnd
<1>6. CASE ConnectFails \/ DiscoverFails \/ DisconnectFails \/ WriteFails \/ Crash
    BY <1>4, <1>6 DEF ConnectFails, DiscoverFails, DisconnectFails, WriteFails,
       Crash, GiveUpRound
<1>7. CASE Connect \/ Disconnect \/ LinkLost
    BY <1>3, <1>7 DEF Connect, Disconnect, LinkLost
<1>8. CASE Clear
    BY <1>3, <1>8 DEF Clear
<1>9. CASE SensorRestarts
    BY <1>9 DEF SensorRestarts, Nothing, SensorInv, WholeInv, TypeOK, Attributes, Ages
<1>10. CASE UNCHANGED vars
    BY <1>4, <1>10 DEF vars
<1> QED
    BY <1>1, <1>2, <1>5, <1>6, <1>7, <1>8, <1>9, <1>10, StepKinds

\* What the station reads while the followed measurement is announced is of
\* that measurement, and nothing else disturbs what it has read.
LEMMA ReadStep ==
    TypeOK /\ SensorInv /\ WholeInv /\ ReadInv /\ [Next]_vars => ReadInv'
<1> SUFFICES ASSUME TypeOK, SensorInv, WholeInv, ReadInv, [Next]_vars
             PROVE  ReadInv'
    OBVIOUS
<1>1. ASSUME pc' \notin {"read", "clear"} PROVE ReadInv'
    BY <1>1 DEF ReadInv
<1>2. ASSUME UNCHANGED <<pc, next, point, failed, now, newData>>,
             excused => excused'
      PROVE  ReadInv'
    BY <1>2 DEF ReadInv
<1>3. CASE AlreadyConnected \/ Discover
    BY <1>3 DEF AlreadyConnected, Discover, BeginReading, ReadInv
<1>4. CASE Read
  <2> SUFFICES ASSUME now = "followed", newData, ~excused, ~failed
               PROVE  /\ pc' = "read" =>
                             \A a \in 1 .. (next' - 1) : point'[a] = "followed"
                      /\ pc' = "clear" =>
                             \A a \in Attributes : point'[a] = "followed"
      BY <1>4 DEF Read, sensor, ReadInv
  <2>1. values[next] = "followed"
      BY DEF TypeOK, SensorInv, WholeInv, Attributes
  <2>2. point' = [point EXCEPT ![next] = values[next]] /\ GoOnReading
      BY <1>4 DEF Read
  <2>3. \A a \in 1 .. next : point'[a] = "followed"
    <3>1. \A a \in 1 .. (next - 1) : point[a] = "followed"
        BY <1>4 DEF Read, ReadInv
    <3> QED
        BY <2>1, <2>2, <3>1 DEF TypeOK, Attributes
  <2> QED
      BY <2>2, <2>3 DEF GoOnReading, TypeOK, Attributes
<1>5. CASE ReadFails
    BY <1>5 DEF ReadFails, ReadInv
<1>6. CASE Measure
    BY <1>2, <1>6 DEF Measure, station
<1>7. CASE Announce
  \* In the middle of the reads it is an excuse, before them nothing is read.
  <2>1. making = "followed" /\ HalfRead => excused'
      BY <1>7 DEF Announce
  <2>2. pc' = pc /\ next' = next /\ now' = making
      BY <1>7 DEF Announce, station
  <2>3. CASE making = "followed" /\ HalfRead
      BY <2>1, <2>3 DEF ReadInv
  <2>4. CASE making # "followed"
      BY <2>2, <2>4 DEF ReadInv
  <2>5. CASE ~HalfRead
    <3>1. pc # "clear" /\ (pc = "read" => 1 .. (next - 1) = {})
        BY <2>5 DEF HalfRead, TypeOK, Attributes
    <3> QED
        BY <2>2, <3>1 DEF ReadInv
  <2> QED
      BY <2>3, <2>4, <2>5
<1>8. CASE LinkLost \/ FaultsEnd
    BY <1>2, <1>8 DEF LinkLost, FaultsEnd, station, sensor
<1>9. CASE SensorRestarts
    BY <1>9 DEF SensorRestarts, ReadInv
<1>10. CASE UNCHANGED vars
    BY <1>2, <1>10 DEF vars, station, sensor
<1>11. CASE Found \/ TimedOut \/ Connect \/ Clear \/ ClearFails \/ Disconnect \/ Write
    BY <1>1, <1>11 DEF Found, TimedOut, Connect, Clear, ClearFails, Disconnect, Write
<1>12. CASE ConnectFails \/ DiscoverFails \/ DisconnectFails \/ WriteFails \/ Crash
    BY <1>1, <1>12 DEF ConnectFails, DiscoverFails, DisconnectFails, WriteFails,
       Crash, GiveUpRound
<1> QED
    BY <1>3, <1>4, <1>5, <1>6, <1>7, <1>8, <1>9, <1>10, <1>11, <1>12, StepKinds

LEMMA PointStep == TypeOK /\ PointInv /\ [Next]_vars => PointInv'
<1> SUFFICES ASSUME TypeOK, PointInv, [Next]_vars PROVE PointInv'
    OBVIOUS
<1>1. ASSUME UNCHANGED <<pc, next, point, failed>> PROVE PointInv'
    BY <1>1 DEF PointInv
<1>2. CASE Found \/ TimedOut \/ Connect
    BY <1>2 DEF Found, TimedOut, Connect, PointInv
<1>3. CASE AlreadyConnected \/ Discover
    BY <1>3 DEF AlreadyConnected, Discover, BeginReading, Nothing, PointInv, Attributes
<1>4. CASE ConnectFails \/ DiscoverFails \/ DisconnectFails \/ WriteFails \/ Crash
    BY <1>4 DEF ConnectFails, DiscoverFails, DisconnectFails, WriteFails, Crash,
       GiveUpRound, PointInv
<1>5. CASE Read
  <2>1. /\ pc = "read" /\ GoOnReading /\ failed' = failed
        /\ point' = [point EXCEPT ![next] = values[next]]
      BY <1>5 DEF Read
  <2>2. pc' = "read" => next' = next + 1
      BY <2>1 DEF GoOnReading
  <2>3. pc' = "read" => \A a \in next' .. NumAttributes : point'[a] = "none"
      BY <2>1, <2>2 DEF PointInv, TypeOK, Attributes
  <2>4. ASSUME failed
        PROVE  \E a \in Attributes :
                   point'[a] = "none" /\ (pc' = "read" => a < next')
    <3>1. PICK a \in Attributes : point[a] = "none" /\ a < next
        BY <2>1, <2>4 DEF PointInv
    <3>2. point'[a] = "none" /\ (pc' = "read" => a < next')
        BY <2>1, <2>2, <3>1 DEF TypeOK, Attributes
    <3> QED
        BY <3>2
  <2> QED
      BY <2>1, <2>3, <2>4 DEF PointInv, GoOnReading
<1>6. CASE ReadFails
  <2>1. pc = "read" /\ GoOnReading /\ point' = point
      BY <1>6 DEF ReadFails
  <2>2. pc' = "read" => next' = next + 1
      BY <2>1 DEF GoOnReading
  <2>3. point[next] = "none" /\ next \in Attributes
      BY <2>1 DEF PointInv, TypeOK, Attributes
  <2>4. pc' = "read" => \A a \in next' .. NumAttributes : point'[a] = "none"
      BY <2>1, <2>2 DEF PointInv, TypeOK, Attributes
  <2>5. pc' = "read" => next < next'
      BY <2>2, <2>3 DEF Attributes
  <2> QED
      BY <2>1, <2>3, <2>4, <2>5 DEF PointInv, GoOnReading
<1>7. CASE Clear \/ ClearFails \/ Disconnect
    BY <1>7 DEF Clear, ClearFails, Disconnect, PointInv
<1>8. CASE Write
    BY <1>8 DEF Write, PointInv
<1>9. CASE Measure \/ Announce \/ LinkLost \/ SensorRestarts \/ FaultsEnd
    BY <1>1, <1>9 DEF Measure, Announce, LinkLost, SensorRestarts, FaultsEnd, station
<1>10. CASE UNCHANGED vars
    BY <1>1, <1>10 DEF vars, station
<1> QED
    BY <1>2, <1>3, <1>4, <1>5, <1>6, <1>7, <1>8, <1>9, <1>10, StepKinds

LEMMA InvAlways == Spec => [](TypeOK /\ IInv)
<1>1. Init => IInv
    BY DEF Init, IInv, SensorInv, WholeInv, ReadInv, PointInv, Attributes
<1>2. TypeOK /\ IInv /\ [Next]_vars => IInv'
    BY SensorStep, ReadStep, PointStep DEF IInv
<1> QED
    BY <1>1, <1>2, TypeCorrect, PTL DEF Spec

----------------------------------------------------------------------------
(* The refinement of Mailbox. *)

\* A step that Mailbox does not see.
LEMMA Unseen ==
    ASSUME UNCHANGED <<now, newData, point, stored, excused>>, HalfRead' = HalfRead
    PROVE  UNCHANGED Mail!vars
<1>1. Letter' = Letter /\ Hand' = Hand
    BY DEF Letter, Hand, Acknowledged
<1> QED
    BY <1>1 DEF Mail!vars

\* What the station's steps do to the letter and to the copies.
LEMMA MailStation ==
    ASSUME TypeOK, IInv, Station \/ Crash
    PROVE  [Mail!Next]_Mail!vars
<1> USE DEF IInv
<1>1. ASSUME UNCHANGED <<now, newData>> PROVE Letter' = Letter
    BY <1>1 DEF Letter, Acknowledged
<1>2. CASE Found \/ TimedOut \/ Connect \/ Disconnect
  <2>1. UNCHANGED <<now, newData, point, stored, excused>>
      BY <1>2 DEF Found, TimedOut, Connect, Disconnect, sensor
  <2>2. HalfRead' = HalfRead
      BY <1>2 DEF Found, TimedOut, Connect, Disconnect, HalfRead
  <2> QED
      BY <2>1, <2>2, Unseen
<1>3. CASE AlreadyConnected \/ Discover
  <2>1. UNCHANGED <<now, newData, point, stored, excused>>
      BY <1>3 DEF AlreadyConnected, Discover, BeginReading, sensor, PointInv
  <2>2. HalfRead' = HalfRead
      BY <1>3 DEF AlreadyConnected, Discover, BeginReading, HalfRead
  <2> QED
      BY <2>1, <2>2, Unseen
<1>4. CASE ConnectFails \/ DiscoverFails \/ DisconnectFails \/ WriteFails \/ Crash
  <2>1. GiveUpRound /\ UNCHANGED <<now, newData, stored>>
      BY <1>4 DEF ConnectFails, DiscoverFails, DisconnectFails, WriteFails, Crash, sensor
  <2>2. Letter' = Letter /\ (Letter = "taken" <=> Acknowledged)
      BY <1>1, <2>1 DEF Letter
  <2>3. Hand' = {}
      BY <2>1 DEF Hand, GiveUpRound, Nothing
  <2>4. Hand # {} <=> Holds
      BY DEF Hand, Holds
  <2>5. HalfRead' = FALSE
      BY <2>1 DEF GiveUpRound, HalfRead
  <2>6. excused' = (excused \/ (Letter = "taken" /\ Hand # {}))
      BY <2>1, <2>2, <2>4, Zenon DEF GiveUpRound
  <2>7. Mail!Drop
      BY <2>1, <2>2, <2>3, <2>5, <2>6 DEF Mail!Drop
  <2> QED
      BY <2>7 DEF Mail!Next
<1>5. CASE Read \/ ReadFails
  <2>1. /\ UNCHANGED <<now, newData, stored, excused>>
        /\ GoOnReading /\ next \in Attributes
        /\ point' \in {point, [point EXCEPT ![next] = values[next]]}
        /\ point[next] = "none"
      BY <1>5 DEF Read, ReadFails, sensor, PointInv, TypeOK, Attributes
  <2>2. Hand' \in {Hand, Hand \cup {next}}
    <3>1. CASE point' = point
        BY <3>1 DEF Hand
    <3>2. CASE point' = [point EXCEPT ![next] = values[next]]
      <4>1. \A a \in Attributes : point'[a] = IF a = next THEN values[next] ELSE point[a]
          BY <3>2 DEF TypeOK
      <4>2. CASE values[next] = "followed"
          BY <2>1, <4>1, <4>2 DEF Hand
      <4>3. CASE values[next] # "followed"
          BY <2>1, <4>1, <4>3 DEF Hand
      <4> QED
          BY <4>2, <4>3
    <3> QED
        BY <2>1, <3>1, <3>2
  <2>3. HalfRead' = TRUE
      BY <2>1 DEF GoOnReading, HalfRead, TypeOK, Attributes
  <2>4. Mail!Copy
      BY <1>1, <2>1, <2>2, <2>3 DEF Mail!Copy
  <2> QED
      BY <2>4 DEF Mail!Next
<1>6. CASE Clear
  <2>1. /\ pc = "clear" /\ pc' = "disconnect" /\ newData' = FALSE
        /\ UNCHANGED <<now, point, stored>>
        /\ excused' = (excused \/ (now = "followed" /\ newData /\ failed))
      BY <1>6 DEF Clear
  <2>2. HalfRead = TRUE /\ HalfRead' = FALSE /\ Hand' = Hand
      BY <2>1 DEF HalfRead, Hand
  <2>3. Letter = "open" <=> now = "followed" /\ newData
      BY DEF Letter, Acknowledged, TypeOK, Ages
  <2>4. Letter' = IF Letter = "open" THEN "taken" ELSE Letter
      BY <2>1 DEF Letter, Acknowledged
  <2>5. Letter = "open" /\ ~excused => (failed <=> Hand # Attributes)
    <3>1. failed => Hand # Attributes
        BY <2>1 DEF PointInv, Hand
    <3>2. Letter = "open" /\ ~excused /\ ~failed => Hand = Attributes
        BY <2>1, <2>3 DEF ReadInv, Hand
    <3> QED
        BY <3>1, <3>2
  <2>6. (excused \/ (now = "followed" /\ newData /\ failed))
            <=> (excused \/ (Letter = "open" /\ Hand # Attributes))
      BY <2>3, <2>5
  <2>7. excused' = (excused \/ (Letter = "open" /\ Hand # Attributes))
      BY <2>1, <2>6, Zenon
  <2>8. Mail!Take
      BY <2>1, <2>2, <2>4, <2>7 DEF Mail!Take
  <2> QED
      BY <2>8 DEF Mail!Next
<1>7. CASE ClearFails
  <2>1. HalfRead = TRUE /\ HalfRead' = FALSE
      BY <1>7 DEF ClearFails, HalfRead
  <2>2. UNCHANGED <<now, newData, point, stored, excused>>
      BY <1>7 DEF ClearFails, sensor
  <2>3. Mail!Leave
      BY <1>1, <2>1, <2>2 DEF Mail!Leave, Hand
  <2> QED
      BY <2>3 DEF Mail!Next
<1>8. CASE Write
  <2>1. HalfRead = FALSE /\ HalfRead' = FALSE
      BY <1>8 DEF Write, HalfRead
  <2>2. UNCHANGED <<now, newData, excused>> /\ stored' = stored \cup Hand
      BY <1>8 DEF Write, sensor, Hand
  <2>3. Hand' = {}
      BY <1>8 DEF Write, Hand, Nothing
  <2>4. Mail!File
      BY <1>1, <2>1, <2>2, <2>3 DEF Mail!File
  <2> QED
      BY <2>4 DEF Mail!Next
<1> QED
    BY <1>2, <1>3, <1>4, <1>5, <1>6, <1>7, <1>8 DEF Station

\* What the sensor's steps do to them.
LEMMA MailSensor ==
    ASSUME TypeOK, IInv, Measure \/ Announce \/ SensorRestarts
    PROVE  [Mail!Next]_Mail!vars
<1> USE DEF IInv
<1>1. UNCHANGED <<pc, next, point, stored>>
    BY DEF Measure, Announce, SensorRestarts, station
<1>2. HalfRead' = HalfRead /\ Hand' = Hand
    BY <1>1 DEF HalfRead, Hand
<1>3. Letter = "open" <=> now = "followed" /\ newData
    BY DEF Letter, Acknowledged, TypeOK, Ages
<1>4. CASE Measure
  <2>1. UNCHANGED <<now, newData>> /\ made + 1 \in Attributes
      BY <1>4 DEF Measure, TypeOK, Attributes
  <2>2. Letter' = Letter
      BY <2>1 DEF Letter, Acknowledged
  <2>3. CASE values[made + 1] = "followed" /\ ~Acknowledged
    <3>1. now = "followed" /\ newData
        BY <2>1, <2>3 DEF SensorInv, Acknowledged, TypeOK, Attributes
    <3>2. excused' = TRUE
        BY <1>4, <2>3 DEF Measure
    <3>3. Mail!Overwrite
        BY <1>1, <1>2, <1>3, <2>2, <3>1, <3>2 DEF Mail!Overwrite
    <3> QED
        BY <3>3 DEF Mail!Next
  <2>4. CASE ~(values[made + 1] = "followed" /\ ~Acknowledged)
    <3>1. excused' = excused
        BY <1>4, <2>4, Zenon DEF Measure, TypeOK
    <3> QED
        BY <1>1, <1>2, <2>1, <3>1, Unseen
  <2> QED
      BY <2>3, <2>4
<1>5. CASE Announce
  <2>1. /\ now' = making /\ newData' = TRUE /\ made = NumAttributes
        /\ excused' = (excused \/ (making = "followed" /\ HalfRead))
      BY <1>5 DEF Announce
  <2>2. CASE making = "followed"
    <3>1. now = "before"
        BY <2>1, <2>2 DEF SensorInv, TypeOK, Ages
    <3>2. Letter = "expected" /\ Letter' = "open"
        BY <2>1, <2>2, <3>1 DEF Letter, Acknowledged
    <3>3. excused' = (excused \/ HalfRead)
        BY <2>1, <2>2, Zenon
    <3>4. Mail!Post
        BY <1>1, <1>2, <3>2, <3>3 DEF Mail!Post
    <3> QED
        BY <3>4 DEF Mail!Next
  <2>3. CASE making = "before"
    <3>1. Letter' = Letter
        BY <2>1, <2>3 DEF Letter, Acknowledged, SensorInv, TypeOK, Ages
    <3>2. excused' = excused
        BY <2>1, <2>3, Zenon DEF TypeOK
    <3> QED
        BY <1>1, <1>2, <3>1, <3>2 DEF Mail!vars
  <2>4. CASE making = "after"
    <3>1. excused' = excused
        BY <2>1, <2>4, Zenon DEF TypeOK
    <3>2. Letter' = "taken"
        BY <2>1, <2>4 DEF Letter, Acknowledged
    <3>3. CASE Letter = "open"
      <4>1. excused
          BY <1>3, <2>1, <3>3 DEF WholeInv
      <4>2. Mail!Supersede
          BY <1>1, <1>2, <3>1, <3>2, <3>3, <4>1 DEF Mail!Supersede
      <4> QED
          BY <4>2 DEF Mail!Next
    <3>4. CASE Letter # "open"
      <4>1. Letter = "taken"
          BY <2>1, <2>4, <3>4 DEF Letter, Acknowledged, SensorInv, TypeOK, Ages
      <4> QED
          BY <1>1, <1>2, <3>1, <3>2, <4>1 DEF Mail!vars
    <3> QED
        BY <3>3, <3>4
  <2> QED
      BY <2>2, <2>3, <2>4 DEF TypeOK, Ages
<1>6. CASE SensorRestarts
  <2>1. /\ now' = making /\ newData' = FALSE
        /\ excused' = (excused \/ (making = "followed" /\ ~Acknowledged))
      BY <1>6 DEF SensorRestarts
  <2>2. CASE making = "followed" /\ ~Acknowledged
    <3>1. Letter # "taken" /\ Letter' = "taken"
        BY <2>1, <2>2 DEF Letter, Acknowledged
    <3>2. excused' = TRUE
        BY <2>1, <2>2
    <3>3. Mail!Destroy
        BY <1>1, <1>2, <3>1, <3>2 DEF Mail!Destroy
    <3> QED
        BY <3>3 DEF Mail!Next
  <2>3. CASE ~(making = "followed" /\ ~Acknowledged)
    <3>1. excused' = excused
        BY <2>1, <2>3, Zenon DEF TypeOK
    <3>2. CASE Letter = "open"
      <4>1. making = "after" /\ made > 0
          BY <1>3, <2>3, <3>2 DEF Acknowledged, SensorInv, TypeOK
      <4>2. excused
          BY <1>3, <3>2, <4>1 DEF WholeInv
      <4>3. Letter' = "taken"
          BY <2>1, <4>1 DEF Letter, Acknowledged
      <4>4. Mail!Supersede
          BY <1>1, <1>2, <3>1, <3>2, <4>2, <4>3 DEF Mail!Supersede
      <4> QED
          BY <4>4 DEF Mail!Next
    <3>3. CASE Letter # "open"
      <4>1. Letter' = Letter
          BY <2>1, <2>3, <3>3 DEF Letter, Acknowledged, SensorInv, TypeOK, Ages
      <4> QED
          BY <1>1, <1>2, <3>1, <4>1 DEF Mail!vars
    <3> QED
        BY <3>2, <3>3
  <2> QED
      BY <2>2, <2>3
<1> QED
    BY <1>4, <1>5, <1>6

\* The loop of main.rs with all its error paths, against a sensor that goes on
\* measuring and may restart, does to a measurement what Mailbox allows, for
\* any number of characteristics.
THEOREM Implements == Spec => ImplementsMailbox
<1>1. Init => Mail!Init
  <2> SUFFICES ASSUME Init PROVE Mail!Init
      OBVIOUS
  <2>1. Letter = "expected"
      BY DEF Init, Letter, Acknowledged
  <2>2. Hand = {}
      BY DEF Init, Hand, Nothing
  <2>3. ~HalfRead /\ stored = {} /\ ~excused
      BY DEF Init, HalfRead
  <2> QED
      BY <2>1, <2>2, <2>3 DEF Mail!Init
<1>2. TypeOK /\ IInv /\ [Next]_vars => [Mail!Next]_Mail!vars
  <2> SUFFICES ASSUME TypeOK, IInv, [Next]_vars PROVE [Mail!Next]_Mail!vars
      OBVIOUS
  <2>1. CASE Station \/ Crash
      BY <2>1, MailStation
  <2>2. CASE Measure \/ Announce \/ SensorRestarts
      BY <2>2, MailSensor
  <2>3. CASE LinkLost \/ FaultsEnd \/ UNCHANGED vars
    <3>1. UNCHANGED <<pc, next, now, newData, point, stored, excused>>
        BY <2>3 DEF LinkLost, FaultsEnd, vars, station, sensor
    <3>2. HalfRead' = HalfRead
        BY <3>1 DEF HalfRead
    <3> QED
        BY <3>1, <3>2, Unseen
  <2> QED
      BY <2>1, <2>2, <2>3 DEF Next
<1> QED
    BY <1>1, <1>2, InvAlways, PTL DEF Spec, ImplementsMailbox, Mail!Spec

\* In the mailbox, a letter that was taken is in the hand or in the archive.
LEMMA MailKept == Mail!Spec => []Mail!Kept
<1>1. Mail!Init => Mail!Kept
    BY DEF Mail!Init, Mail!Kept
<1>2. Mail!Kept /\ [Mail!Next]_Mail!vars => Mail!Kept'
  <2> SUFFICES ASSUME Mail!Kept, [Mail!Next]_Mail!vars PROVE Mail!Kept'
      OBVIOUS
  <2> USE DEF Mail!Kept
  <2>1. CASE Mail!Post \/ Mail!Overwrite \/ Mail!Supersede \/ Mail!Destroy
      BY <2>1 DEF Mail!Post, Mail!Overwrite, Mail!Supersede, Mail!Destroy
  <2>2. CASE Mail!Copy \/ Mail!Leave
      BY <2>2 DEF Mail!Copy, Mail!Leave
  <2>3. CASE Mail!Take
      BY <2>3 DEF Mail!Take
  <2>4. CASE Mail!File
      BY <2>4 DEF Mail!File
  <2>5. CASE Mail!Drop
      BY <2>5 DEF Mail!Drop
  <2>6. CASE UNCHANGED Mail!vars
      BY <2>6 DEF Mail!vars
  <2> QED
      BY <2>1, <2>2, <2>3, <2>4, <2>5, <2>6 DEF Mail!Next
<1> QED
    BY <1>1, <1>2, PTL DEF Mail!Spec

\* A measurement that the base station has acknowledged is in the database or
\* in the point, every field of it, but for the named excuses: no other error
\* path of main.rs, sensor.rs and influxdb.rs loses it.
THEOREM FollowedIsKept == Spec => []FollowedKept
<1>1. Mail!Kept => FollowedKept
    BY DEF Mail!Kept, FollowedKept, Letter, Hand
<1> QED
    BY <1>1, Implements, MailKept, PTL DEF ImplementsMailbox
=============================================================================
