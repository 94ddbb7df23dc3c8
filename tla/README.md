# Verification of the water level monitor

TLA+ models of the water level monitor: the firmware of the battery-powered
sensor (C, Zephyr, nRF51) and the base station (Rust, Raspberry Pi) that
collects its measurements over Bluetooth LE and writes them to InfluxDB. TLC
checks the models on small instances; the safety theorems of the `*Proofs`
modules hold for every value of the constants and are checked by TLAPS.

    tlc -workers 2 -config MCAdvertising.cfg MCAdvertising
    tlapm AdvertisingProofs.tla

## 1. Inventory

Paths are relative to `src/`; `fw/` is `sensor/firmware/`.

| Component | Code | State | Operations |
|---|---|---|---|
| Measurement cycle | `fw/src/main.c`, `water_level.c` | error word, tank depth (RAM and flash), distance, level | `run`: temperature, water level (up to 30 attempts for 10 samples, median), battery, publish, wait for the timer |
| Advertising and status | `fw/src/bluetooth.c` | status word (NEW_DATA), advertising on/off, its data, connection list | set status, GATT status write, connected/disconnected callbacks, `bluetooth_ready` |
| Settings and error word | `bluetooth.c`, `water_level.c` | `wl/td` in flash, `error` | GATT writes of depth and error, `settings_load` |
| Rangefinder driver | `fw/lib/drivers/sensor/jsn_sr04t` | driver state, semaphore, two time stamps | `sr04t_sample_fetch`, the echo interrupt |
| Battery, temperature | `battery.c`, `nrfx_adc_supply.c`, `temperature.c` | last values | conversion and bounds |
| Watchdog | `watchdog.c` | reset reason register | reboot on a fatal error, CRASH bit of the next start |
| Base station loop | `base_station/src/main.rs`, `sensor.rs` | `gatt`, the point, BlueZ's link | wait, connect, discover, read, clear, disconnect, write |
| InfluxDB client | `influxdb.rs` | none | `write_point` |
| Start-up | `main.rs`, `sensor.rs` | none | config, certificate, adapter, paired sensor, its name; each missing one ends the program |
| systemd service | `base_station/module.nix` | starts in the window | restart after 10 s, always; 3 starts in 60 s |

How they interact. The main thread (preemptible, priority 0) measures every 15
minutes, sets NEW_DATA and updates advertising. The Bluetooth receive thread
(cooperative) runs the GATT handlers and also updates advertising. The system
work queue (cooperative) runs `bluetooth_ready` and the disconnected callbacks,
which stop advertising. All three share the status word and the advertising set
without a lock. The base station is woken by an advertisement whose service data
is exactly NEW_DATA, connects, reads seven characteristics, writes four zero
bytes to the status word, disconnects and uploads.

What is hard here: the unlocked read-modify-write of the status word; tests of
the word that are acted on after a wait for the controller; advertising that a
connection uses up; an acknowledgement that names no measurement; error paths of
the base station that leave a link or a gatt table behind; an interrupt that
races the timeout of the semaphore it gives; two stores that a reader sees one
by one; a reader whose reads fall across two cycles; a monitor that compares the
whole status word; a timeout one minute longer than the period it waits for; a
start limit that a slow Bluetooth adapter can use up. `PROJECT.json` lists the hazards with their lines.

What makes each part correct:

* advertising: new data stays announced and on the air until it is read; the
  radio is silent when nothing is to be had; nobody is served before the first
  measurement;
* measurement: whatever is announced is new or flagged; the filter follows the
  majority of the samples; level, distance and depth belong together; the depth
  survives;
* driver: a distance is the width of one pulse of this fetch; every fetch returns;
* base station: what is acknowledged is stored unless something failed after
  the acknowledgement; no failure stops the collection for good;
* both together: an announcement wakes the station, and the timeout is for
  disturbances only; while all goes well no measurement is missed;
* service: a missing adapter is waited for as long as the limit allows, and a
  program that lives is always started again.

## 2. Modules

### Advertising

`status` is `*status` as the set of its bits, `adv` and `payload` are the
controller's advertising state and the bits in its data, `conns` each client's
entry in the host's connection list from connection to the drop of the host's
reference. `pc` is where the main and the receive thread are; the work queue's
place is in `conns`. A step ends where another context can come in: the main
thread may be interrupted anywhere, so `*status |= s` is a load and a store, and
`bt_le_adv_update_data`/`bt_le_adv_start` are the copy of the word into a command
and the command; `held` is the copy in either case. The cooperative contexts give
way only while they wait for the controller, so `StatusWrite` is the whole
read-modify-write with the copy, `RxCheck` the test of word and count, and
`RxStart`, `RxEnable`, `RxStop` what follows. The disconnected callbacks read word
and count together (`DisconnectedCheck`), then stop (`DisconnectedStop`); the entry
leaves the list after them (`Unlist`). `Reboot` is the fatal error handler.

External, from how the code uses it: `CanStart` (bt_le_adv_start refuses before
the host is ready, while advertising, and without a free slot), `Stopped`,
`Connect`, `LinkDown`. `MayWrite` is a client that clears NEW_DATA only after its
reads, which is what `read_data` in main.rs does when they succeed (it clears after
failed reads as well, and the handler takes any write); other writes are free.

Three variables are history: `data` (was the last measurement read, or did a
client overlap it), `why` (what changed `adv` last), `renewed` (was NEW_DATA set
since a stop under way was decided).

| Property | Says |
|---|---|
| `FreshDataAnnounced` | a measurement no collection overlapped keeps NEW_DATA set until it is read |
| `ServedOnlyAfterMeasure` | no advertising and no client before the first pass over the sensors, whichever of them failed in it |
| `SilentWhenIdle` | advertising, nothing new, nobody connected: only after a start that was decided on an outdated test |
| `OffAirOnlyForCause` | new data, no thread at work, not advertising: never could start, used up by a connection, or a stop that was decided before the data |
| `NewDataOnAir` | while clients only clear NEW_DATA, the payload carries it whenever the word does and no update is due |
| `Reachable` | (liveness) on the air or connected again and again |
| `ImplementsSensor` | (refinement) a client sees the sensor of module Sensor |

### Sensor

The abstract specification that Advertising implements: a sensor that announces a
measurement, decides to start or to stop advertising and does so later, each in one
step. There are no program counters, copies of the word, or commands. What it
leaves open is what a client cannot know: how long a decision takes. What it
forbids is a start without announced data, a decision to stop while data is
announced, a start dropped although it could go ahead, a callback of a client
that is not the last, an announcement without a measurement, and a client that is
served without having found the sensor on the air. The refinement
mapping `Promise` in Advertising takes the threads at `start` and `enable` for
`starting`, those at `count` and `stop` for `stopping`, the callbacks in
`bt_le_adv_stop` for `parting`, and a client that is "up" or "read" for linked.

### Rangefinder

`sr04t_sample_fetch` step by step, the interrupt as a step that runs before the
thread goes on, the sensor as an environment that raises and lowers the pin or
does not answer, and time in cycles of the counter. Every GPIO call may fail, and
so may the driver's initialisation, which nobody checks. The next fetch may begin
while the last echo is still there: `late` (history) says so, the properties about
values speak of the other fetches, the assertion and the return of every fetch of
all. `PowerOn` stands for `sr04t_init` and the power-on action; the firmware never
powers the sensor off.

### Measurement

One pass of `run()`. Temperature and battery succeed or latch their bit
(`Renewed`, `SetError`). `WaterBegin` takes the copy of the tank depth, `Sample` is
one attempt, `SamplesTaken` the evaluation of the count, `SetDistance` and
`SetLevel` the two atomic stores, the second of which completes the update. Meanwhile `SettingsLoad` (from `bluetooth_ready`),
`WriteDepth` and `SaveDepth` (the GATT write, first memory and then flash) and
`ErrorWrite` run. A GATT write of one byte, or none, leaves zeros in the rest
(`Written`). The BROWNOUT branch of `run()` is in the model; nothing in the code
ever sets that bit, so it is never taken.

`ReadNext` is the base station (or another client) that reads the values one by
one, in the order of `read_data`, while cycles begin, fail and end; `Reads` names
them by sensor. Each read may fail (`ReadFails`): `read_data` logs that, leaves the
field out and goes on. This includes the error word (`withErrors`). A point without
it is stored like any other, and nothing in it tells an old value from a new one;
`PointFlagged` therefore speaks of the points that have the word. `Crash` (the fatal error handler, or a lockup), `PinReset` and
`PowerLoss` keep the flash, and what the nRF51 keeps of the reset reason register
(`reason`): all of it but for a loss of power. `Boot` is `watchdog_init`, which reads
and clears it.

| Property | Says |
|---|---|
| `StaleIsFlagged` | what NEW_DATA announces is of this cycle, or its error bit is set or was cleared by a client |
| `PointFlagged` | in a point that has the error word, every old value has its bit or a client cleared it, wherever cycles fall between the reads and whichever other reads fail |
| `CrashReported` | the word says CRASH exactly after a crash, through any sequence of resets |
| `MajorityDecides` | the filtered distance lies where more than half of the samples do |
| `LevelFitsDistance` | distance and level belong to one another and to one tank depth |
| `DepthInUse` | the level fits the depth that clients read, unless it was set after the cycle took it; the first cycle may use the default |
| `DepthPersists` | flash and memory agree between writes unless the flash failed |

### Conversions

The arithmetic of supply voltage, battery level, temperature and distance, with
unsigned wrap-around, C's truncating division, the two fields of Zephyr's
`sensor_value` and the 16-bit casts, and the base station's decoding of the
temperature. `DistanceArrives` goes from the width of the pulse in cycles to the
millimetres of the characteristic. (A cycle of 32768 Hz is 5.2 mm: the distance
never has that millimetre resolution, and the echo timeout of 12 ms ends at 2.04 m.)

### BaseStation

The loop of `main()`: `pc` is its place, `gatt` whether `sensor.gatt` is `Some`,
`point` the age of each field read. Each call succeeds or fails; what a failure
leaves behind is the code's: a failed `connect` or `disconnect` drops the point
(`GiveUpRound`) and keeps `link` and `gatt` as they are, failed reads and a failed
clear are only logged, `AlreadyConnected` goes on without `find_gatt_attributes`.
`Crash` is a restart by systemd, after which BlueZ still holds the link. The
sensor is what the station sees of it: values replaced one by one (`Measure`),
the announcement (`Announce`), advertising that a connection uses up, and a
restart (`SensorRestarts`), after which it has no values and announces nothing.

One measurement, chosen by the model, is followed through flag, point and
database: every measurement can be the chosen one, so a property of it is a
property of each, and the state space stays finite without a bound on how many
there are. `calm` ends faults, if it ever comes.

`FollowedKept`: acknowledged means stored, or in the point on its way, except for
the excuses that its comment lists. In particular a failed connection, discovery
or clear, a lost link and a crash before the acknowledgement lose nothing.
`ImplementsMailbox`: see Mailbox. Under
fairness `Recovers` and `LinkReleased` say that no combination of link, gatt table
and flag that faults leave behind is a trap.

### Mailbox

The abstract specification that BaseStation implements: a letter that is left in a
box (`Post`), copied sheet by sheet (`Copy`), taken out when the reader has gone
through it (`Take`) or left for another time (`Leave`), and filed (`File`) or not
(`Drop`). It has no rounds, connections, gatt tables, advertising, or other
measurements, and no reason for a step to succeed or fail. What it promises is that
the five ways to lose a letter are the only ones, and that each leaves its trace in
`lost`: a sheet was missing when the box was emptied (`Take`), the copies were dropped
after that (`Drop`), the next letter came over the first (`Overwrite`), it came when
the reader had begun (`Post`), the box was destroyed (`Destroy`).

The mapping in BaseStation: the letter is the followed measurement, "expected" before
its announcement, "open" while NEW_DATA announces it, then "taken"; the hand is what
the point has of it, the archive is the database, `reading` is the time from a
session's first read to its clear (`HalfRead`), `lost` is `excused`. A failed read
copies nothing, a clear is a `Take` also when there is no letter (of another
measurement, or none), and everything that `main()` only logs is a `Drop`.

### Collection

The composition: an instance of Advertising with all its threads, and the loop of
the base station as one of its two clients, in time. BaseStation knows the values
and the point; Collection leaves them out and has the radio as it is: the
station's link is an entry in the connection list, its clear is `StatusWrite`,
its wait ends when the advertising data is NEW_DATA alone (`Match`) or after
`Timeout`. Another client connects, sets another status bit and leaves. Links are
lost, the table is not found, the sensor restarts, the station's process crashes; `FaultsEnd` ends all
that, if it ever comes. Time passes only when the firmware has nothing to do, so
that all its interleavings happen at one instant. What the time of a session or a
wait leaves open is open: a step is taken when its program likes, before the
limit.

| Property | Says |
|---|---|
| `WaitEndsForCause` | the station runs into its timeout only if in this wait another client was there, came, left or had left bits, the sensor restarted, or a link kept by an earlier round was lost between the timer's expiry and the end of the pass |
| `NoneSkipped` | from an undisturbed wake-up on, while nothing fails, no measurement is replaced before it was read |
| `StampFits` | from an undisturbed wake-up on, while nothing fails, what a session reads was measured in the last pass and is stamped within a pass of the expiry that began it |
| `WokenAgain` | (liveness) however the status word was left, the station is woken by the announcements again and again after faults end |

`WaitEndsForCause` holds after sessions that failed in whichever way: with the link
kept open, with or without a gatt table, with NEW_DATA still set. A kept link that
is lost in the wait does no harm between two passes (`Quiet`). Lost between an expiry
of the timer and the end of the pass, it counts as a disturbance: the callback may
test the word before the new data is in it and stop advertising afterwards, and then
the station does wait in vain (bluetooth.c:204). `StampFits` does not say that a
measurement is stored once. It may wake the station and be read and stored a second
time, after a session that did not acknowledge it, or when the main thread enables
advertising on a test it made before the session (the race of section 5, 2); the
second stamp has the same bound. A session after a crash
that kept the link reads nothing (its gatt table is gone) and so misses a
measurement; `NoneSkipped` begins with the next one. If a client leaves another bit
in the word, no advertisement matches any more; the timeout's session writes all
four bytes (`ClearWrite`), and `WokenAgain` depends on it.

`WaitEndsForCause` needs the second connection slot of prj.conf (`SlotsAssumption`).
With one slot a failed disconnection that leaves the link open would leave no slot
to advertise for, and the station would wait in vain though nobody disturbed it.

### Supervisor

The start-up of `main()` under systemd: config and certificate, adapter, paired
sensor, name, loop. A missing part ends the program; `Restart` comes `RestartSec`
later, unless the window of `Interval` has seen `Burst` starts already, which is for
ever (`down`). systemd's windows are modelled as it counts them: the first start
after a window is over opens the next. An adapter may appear late or vanish.

| Property | Says |
|---|---|
| `LateAdapterTolerated` | the service is given up for a missing adapter only after it waited `Burst - 1` delays (20 s) for it |
| `LongLivesRestarted` | only a program that ended early at least once is given up |
| `ComesUpOrGivenUp` | (liveness) with everything there for good, it comes up after each crash, or was given up |

## 3. Runs

Every passing run checks deadlock too. `MCCollection` and `MCMeasurement` take one to
two minutes, the others less than one.

| Run | Instance | Shows |
|---|---|---|
| `MCAdvertising.cfg` | 3 clients, 2 slots, 2 status bits, any write; symmetry of clients | the safety properties of Advertising, and that it implements Sensor |
| `MCAdvertisingLive.cfg` | 2 clients, 2 slots, the base station's write, fairness | `Reachable`, and `NewDataOnAir` (which assumes that clients only clear) |
| `MCRangefinder.cfg` | timeout 2, pulse up to 3, counter modulo 4, late echoes, fairness | the driver |
| `MCMeasurement.cfg` | 4 samples, 5 attempts, 3 readings of which one is unreasonable, 2 error writes, the base station, all resets | the filter, the error bits, the point, the crash bit |
| `MCMeasurementDepth.cfg` | 1 sample, 2 depths, whole and partial writes, failing flash, resets | tank depth |
| `MCConversions.cfg` | 55 supply samples, some 70 temperatures, 16 pulses | arithmetic |
| `MCBaseStation.cfg` | 3 attributes, restarts of station and sensor, fairness | the base station, and that it implements Mailbox |
| `MCCollection.cfg` | station and another client, 2 slots, 2 status bits, period 4, timeout 5, sessions of up to 1, fairness | sensor and base station together |
| `MCSupervisor.cfg` | the times of module.nix in units of 10 s, fairness | start-up and restarts |
| `MCAdvertisingAckRace.cfg`, `MCAdvertisingIdle.cfg`, `MCBatteryEmpty.cfg` | | a violation each, section 5 |

Why the bounds are enough. Advertising: three clients give one that leaves, one
that stays and one that waits for a slot; the code treats more alike, and the
theorems cover any number. Rangefinder: pulses end before, at and after the
timeout, and the counter wraps at every point of a pulse; the theorems cover any
width. Measurement: four samples give medians of odd and even counts, with every
arrangement of readings; the real counts are 10 of 30. Depths 2 and 5 with a
default of 4, which a client can also write, and bytes of base 4 make whole and
partial writes differ. Conversions: TLC's integers have 32 bits, so 2^30 stands for
2^32; the values that do not wrap stay far below both and the ones that do wrap
exceed 100 % under both; the theorems cover every input. BaseStation: three
attributes let the sensor overtake the reads before, between and after. Collection:
the code's times are 15 and 16 minutes and sessions of seconds; the run keeps their
order (period < timeout, a session fits between two announcements), a session may
take a unit or none, and phases between the two clocks drift through all values. The
measurement itself takes no time (`Spell = 0`; the firmware needs less than three
seconds). Supervisor: with a unit of 10 s `RestartSec`, `Burst` and `Interval` are the
real ones; `LongLife` = 20 s is the shortest life for which three of them with their
delays outlast the interval.

Each property of a passing run has a mutant in its module, an operator named
"Mutant of ..." that changes one definition the way a plausible mistake would;
put in the definition's place it makes TLC refute that property under the same
configuration.

### Fairness

`Advertising`: weak fairness of the main thread, the receive thread's update, the
work queue's steps and the timer. The cooperative contexts are never preempted by
threads and block only for the controller; the main thread waits for them and for
a periodic timer. Clients and crashes owe nothing. `Rangefinder`: the thread
returns to the driver's code once a fetch has begun, interrupts are served, time
goes on and a pulse has a longest width; nobody has to fetch. `BaseStation`: the
calls into BlueZ and isahc return, and the sensor goes on measuring. For the request
to InfluxDB this is an assumption and not the code's doing: `influxdb.rs` sets no
timeout, and a server that never answered would hold the loop. Faults carry
no fairness, and nothing says that they end: `Recovers` speaks of the time after.
`Collection`: weak fairness of the programs and the clock together, no more. Which
of them goes on follows from the clock, that waits for the firmware to settle and
for the limits of waits and sessions. `Supervisor`: the start-up's calls return, and
systemd's delay passes; nothing says that a crash, an adapter or a missing config
ever comes.

## 4. Proofs

All theorems are of the form `Spec => []Inv`, `Spec => [][A]_vars` or `Spec =>
AbstractSpec` and hold under the modules' assumptions on constants only: a finite
set of clients, at least one connection slot, writes within their masks; a pulse
shorter than the counter's period; samples of 10 bits, temperatures within 327
degrees, pulses within a third of a second; lives long enough for the interval; in
the composition two slots or more, a timeout longer than a period and a pass of the
sensor's loop, and a period longer than a pass and a session.

* `AdvertisingProofs`: `TypeCorrect`, `FreshAnnounced`, `ServedAfterMeasure`,
  `Silent`, `OffAir`, `OnAir`. None of the invariants is inductive alone.
  `FreshInv` adds that while a measurement is fresh no client is past its reads,
  so nobody may clear. `ServedInv` keeps the threads away from the update until the
  first measurement. `IdleInv` adds that while advertising started for new data
  outlives the acknowledgement, some client's callback is still to come; the case
  of a count above one needs that somebody else is in the list (`SomebodyElse`).
  `RenewedInv` says that a stop under way meets NEW_DATA only if it was set since.
  `OffAirInv` adds that an acknowledged stop leaves a slot free and that from the
  store of NEW_DATA on some thread is on its way to the start. `OnAirInv` follows
  the copies of the word.
* `SensorProofs`: `Implements`, the refinement of Sensor. The lemmas `Seen...` say
  when a change of the abstract state is a step of Sensor; `MainPromise`,
  `RxPromise`, `ClientPromise`, `WritePromise` and `RebootPromise` find it for every
  step of the firmware. `IdleInv` is needed: a thread that is about to enable
  advertising must be known to be in the middle of a start that can go ahead.
* `RangefinderProofs`: `TypeCorrect`, `AssertionHolds`, `OnePulse`,
  `WidthMeasured`. `ReadyInv` ties the semaphore to the driver's state at each
  point of the fetch: from the reset on it is given only by the second edge.
  `EdgesInv` says which edges were taken at each point of a pulse, and `OnTime`, for
  fetches that no echo reached into, that its width is the elapsed time modulo the
  counter.
* `MeasurementProofs`: `StaleFlagged`, `PointIsFlagged`, `CrashIsReported`,
  `DepthKept`, `DepthUsed`. `FlagInv` says per program point which sensors the cycle
  has behind it, and that BROWNOUT is never set: without that the water level could
  be skipped and announced unflagged. `PointInv` adds that an old value's flag stays
  in memory, or is remembered as cleared, from its announcement to the read of the
  error word, which comes last (`ErrorsLast`) if it does not fail. `CrashInv` follows a crash through the register.
  `InUseInv` follows the depth from memory to the cycle's copy to the level.
  Of the filter, `TypeCorrect`, `LevelFits` and `MajorityWins`. The sorted array has an
  element at each rank, because a least natural has enough samples at or below it
  (`LeastNatural`, `OrderedExists`); counting the samples on either side places it
  among the majority (`RankOfMajority`), and so the median, also when it is the
  rounded mean of two (`MedianOfMajority`). `FilterInv` adds that the samples are
  reasonable for the depth the cycle took, that there is one when the filter is
  reached, and that the distance is their median until the level follows.
* `ConversionsProofs`: `TypeCorrect`, `TemperatureKept`, `DistanceKept`,
  `LevelFollows`, from lemmas on each conversion: that a `sensor_value` gives back the
  thousandths it was made of (`MilliOfValue`), that the truncating divisions of a
  negative temperature lose nothing (`TemperatureExact`), that no cast cuts
  (`DistanceExact`, `DecodedExact`), and that the level grows with the voltage
  (`LevelMonotone`).
* `BaseStationProofs`: `TypeCorrect`, `Implements`, `FollowedIsKept`, for any number
  of characteristics. `Implements` is the refinement of Mailbox, each step of the
  station (`MailStation`) and of the sensor (`MailSensor`) a step of it or none. It
  needs that `Take` sees a sheet missing exactly if a read of the session failed:
  `PointInv` says that what was not read yet and what was not read at all is not in
  the point, `ReadInv` that a session without a failed read has every attribute behind
  it in the point. `SensorInv` says which values are of which measurement, `WholeInv`
  that none of the announced ones is replaced without an excuse, so that a letter is
  superseded only when it was lost. `FollowedIsKept` is then a fact of the mailbox
  (`MailKept`: a letter that was taken and not lost is in the hand or in the archive).
* `CollectionProofs`: `RunsFirmware`, `TypeCorrect`, `WaitsEnd`, `NothingSkipped`,
  `StampsFit`.
  Each step of the composition is one of Advertising, or none of its variables
  changes (`FirmwareStep`), so the invariants of `AdvertisingProofs` come with it
  (`Sound`). `WaitInv` follows an undisturbed wait: once time has passed in it the
  main thread is alone (`Ready`; before that, whatever a session left to do has no
  time to pass), or has beside it only the callback of a link that was lost between
  two passes (`Released`), and the wait is in time (`InTime`): no older than the last
  expiry, or within the pass that followed the next one, or with new data on the air,
  which nothing takes off before the match. The timeout lies behind all three. `SteadyInv` divides the time of a station for which
  all goes well into four phases: `Serving` (it was woken, reads and clears), `Resting`
  (read, nothing announced, perhaps still advertising until its callback stops that),
  `Renewing` (the timer has expired; nobody is on the air, what is there was read)
  and `Announcing`. A measurement is replaced in `Renewing` only. What the proof turns
  on is that the callback and the receive thread have come to rest before the timer
  expires (`Resting`'s bound on `age`).
* `SupervisorProofs`: `TypeCorrect`, `LateAdapter`, `LongLives`, for any delay, limit
  and interval. `LateInv`: the n-th start of the first window is at least n - 1 delays
  after the first one, so the last that the limit allows comes `LastStart` after it.
  `LongInv`: each start of a window has taken a life and a delay, so the window is
  over before the limit is reached.

Only model-checked: the liveness properties (`Reachable`, `FetchReturns`,
`Recovers`, `LinkReleased`, `WokenAgain`, `ComesUpOrGivenUp`), which are out of the
prover's reach.

## 5. Disagreements between code and comments

1. `MCAdvertisingAckRace`: bluetooth.c:198 says that advertising stops when "the
   data has been retrieved". A clear acknowledges whatever is there, also a
   measurement published after the client's reads.
2. `MCAdvertisingIdle`: bluetooth.c:358, "If there is no longer new data and no
   one is connected, stop advertising". The main thread's start may come after the
   last client cleared and left; it stays on until the next update or client.
3. `MCBatteryEmpty`: battery.h:12, "percent of the battery remaining (0-100)". Below
   1800 mV the unsigned difference wraps and the level reads 100.

Without a run: temperature.h:12 and temperature.c:38 speak of "mC"; the value is in
hundredths of a degree, as the characteristic and sensor.rs expect
(`TemperatureArrives`), so only the comments are wrong.

The FIXME at bluetooth.c:382 asks whether the unprotected status word is safe. For
NEW_DATA it is (`FreshAnnounced`); a client's change of another bit can be undone
by the main thread's store, but no other bit is defined.

## 6. Not modelled

* Pairing, passkey and authentication: BlueZ and the Zephyr host do it; the
  callbacks of `bluetooth.c` log or pass constants. `bluetooth_status_read` and the
  read handlers are loads (in Measurement's `ReadNext` and Advertising's `Collect`).
* Log output, line protocol and timestamps of `influxdb.rs`, TLS, the command line,
  the parsing of configuration files, devicetree and packaging: formatting, library
  code and constants.
* The pace of failing rounds: when BlueZ refuses a monitor, `main()` goes round
  without a delay. BaseStation and Collection let a failed round begin anew at once
  and say nothing about how often.
* Seven attributes are three in BaseStation.
  Collection has no values and BaseStation no threads of the firmware: what happens to
  a value between the two is the theorem `PointIsFlagged`.

## 7. Plan

Done: Advertising, Sensor, Rangefinder, Measurement, Conversions, BaseStation,
Mailbox, Collection and Supervisor, each with its proofs. Every safety property of a
run and both refinements are proved.

Left: one model of values and threads together. Today Measurement follows the values
through a reader's session, BaseStation through flag, point and database, and
Collection the threads and the time; no theorem composes the three.
