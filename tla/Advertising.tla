---------------------------- MODULE Advertising ----------------------------
(***************************************************************************)
(* The sensor's announcement protocol: the status word that holds          *)
(* STATUS_NEW_DATA, the connectable advertising that announces it, and the *)
(* three contexts of the firmware that work on both without a lock:        *)
(*                                                                         *)
(*   - the main thread (preemptible, prj.conf: priority 0), which sets     *)
(*     STATUS_NEW_DATA after every measurement (main.c, run) and runs      *)
(*     bluetooth_status_update step by step;                               *)
(*   - the Bluetooth receive thread (cooperative), which runs              *)
(*     bluetooth_status_write for a GATT client.  It is only interrupted   *)
(*     where it waits for the controller;                                  *)
(*   - the system work queue (cooperative), which runs bluetooth_ready and *)
(*     the disconnected callbacks, one after the other.                    *)
(*                                                                         *)
(* The Zephyr host and the controller are external: bt_le_adv_update_data  *)
(* changes the payload only while advertising; bt_le_adv_start fails when  *)
(* advertising is already on or no connection slot is free; and            *)
(* advertising started with BT_LE_ADV_OPT_CONN ends when a client          *)
(* connects.  A status word is the set of its bits.                        *)
(***************************************************************************)
EXTENDS Naturals, FiniteSets

CONSTANTS
    Clients,    \* GATT clients that may connect
    MaxConn,    \* CONFIG_BT_MAX_CONN
    OtherBits,  \* status bits besides NEW_DATA that a client may write
    Writes      \* writes of the status characteristic: [mask, value]

NewData == "NEW_DATA"
Bits == {NewData} \cup OtherBits

ASSUME ClientsAssumption == IsFiniteSet(Clients)
ASSUME MaxConnAssumption == MaxConn \in Nat \ {0}
ASSUME WritesAssumption ==
    \A w \in Writes : /\ w \in [mask : SUBSET Bits, value : SUBSET Bits]
                      /\ w.value \subseteq w.mask

VARIABLES
    bt,       \* what bt_enable has come to
    status,   \* *status, the word in RAM
    adv,      \* is the controller advertising?
    payload,  \* the status bits in the controller's advertising data
    conns,    \* each client's entry in the host's connection list
    pc,       \* where the main and the receive thread are
    held,     \* the main thread's copy of the word: its register in
              \* "*status |= s", then the HCI command it is preparing
    timer,    \* has update_timer expired since the last sync?
    data,     \* history: who has had the last measurement
    why,      \* history: what changed adv last
    renewed   \* history: was NEW_DATA set since a stop was decided?

vars == <<bt, status, adv, payload, conns, pc, held, timer, data, why, renewed>>

Threads == {"main", "rx"}

BtStates == {"off", "enabling", "ready", "barred", "failed"}
    \* "barred": bt_passkey_set failed, no connection callback registered

ConnStates == {"none", "up", "read", "closing", "stopping", "leaving"}
    \* "read": the client has gone through its reads since it connected or
    \* last cleared NEW_DATA; "closing": the link is down, its callback has
    \* not run; "stopping": the callback is in bt_le_adv_stop; "leaving":
    \* the callback has returned, the entry is still in the list

MainStates == {"boot", "measure", "load", "store", "copy", "send",
               "check", "count", "start", "enable", "stop", "sync"}
RxStates == {"idle", "check", "start", "enable", "stop"}

DataStates == {"none", "fresh", "raced", "read"}
    \* "fresh": measured while no client was between its reads and its
    \* clear, and not read yet; "raced": measured while one was; "read": a
    \* client has read it

Causes == {"never", "new data", "stale check", "acknowledged",
           "stale stop", "unfounded stop", "connected"}

----------------------------------------------------------------------------
(* The host's connection list and the advertising calls. *)

\* bluetooth_get_conn_count: entries in the peripheral role.  The entry that
\* an active advertiser reserves has another role and is not counted.
Listed == {c \in Clients : conns[c] # "none"}
ConnCount == Cardinality(Listed)

\* The host accepts advertising commands once the identity is loaded.
Usable == bt \in {"ready", "barred"}

\* bt_le_adv_start goes ahead: not -EAGAIN, -EALREADY or -ENOMEM.
CanStart == Usable /\ ~adv /\ ConnCount < MaxConn

\* The status word after a GATT write of w.value under w.mask.
Merged(w) == (status \ w.mask) \cup w.value

\* Advertising goes on, with the bits that were put in its data.
Enabled(bits) ==
    IF CanStart
    THEN /\ adv' = TRUE
         /\ payload' = bits
         /\ why' = IF NewData \in status THEN "new data" ELSE "stale check"
    ELSE UNCHANGED <<adv, payload, why>>

\* bt_le_adv_stop.
Stopped ==
    /\ adv' = FALSE
    /\ why' = IF ~adv THEN why
              ELSE IF NewData \notin status THEN "acknowledged"
              ELSE IF renewed THEN "stale stop" ELSE "unfounded stop"

\* A context has found NEW_DATA clear and is on its way to bt_le_adv_stop.
Stopping == \/ pc["main"] \in {"count", "stop"}
            \/ pc["rx"] = "stop"
            \/ \E c \in Clients : conns[c] = "stopping"

Goto(t, s) == pc' = [pc EXCEPT ![t] = s]

----------------------------------------------------------------------------
Init ==
    /\ bt = "off"
    /\ status = {}
    /\ adv = FALSE
    /\ payload = {}
    /\ conns = [c \in Clients |-> "none"]
    /\ pc = [t \in Threads |-> IF t = "main" THEN "boot" ELSE "idle"]
    /\ held = {}
    /\ timer = FALSE
    /\ data = "none"
    /\ why = "never"
    /\ renewed = FALSE

----------------------------------------------------------------------------
(* The main thread. *)

\* Mutant of MainBoot: new data is announced before the first measurement.
MainBootAnnounces ==
    /\ pc["main"] = "boot"
    /\ bt' \in {"enabling", "failed"}
    /\ timer' = FALSE
    /\ Goto("main", "load")
    /\ UNCHANGED <<status, adv, payload, conns, held, data, why, renewed>>

\* main: the initialisations, of which bt_enable is the last; its error is
\* only logged.  Then run() starts the timer.
MainBoot ==
    /\ pc["main"] = "boot"
    /\ bt' \in {"enabling", "failed"}
    /\ timer' = FALSE
    /\ Goto("main", "measure")
    /\ UNCHANGED <<status, adv, payload, conns, held, data, why, renewed>>

\* One pass of run(): temperature, water level and battery.
MainMeasure ==
    /\ pc["main"] = "measure"
    /\ data' = IF \E c \in Clients : conns[c] = "read" THEN "raced" ELSE "fresh"
    /\ Goto("main", "load")
    /\ UNCHANGED <<bt, status, adv, payload, conns, held, timer, why, renewed>>

\* bluetooth_set_status(STATUS_NEW_DATA, true): "*status |= s" is a load ...
MainLoad ==
    /\ pc["main"] = "load"
    /\ held' = status
    /\ Goto("main", "store")
    /\ UNCHANGED <<bt, status, adv, payload, conns, timer, data, why, renewed>>

\* ... and a store.
MainStore ==
    /\ pc["main"] = "store"
    /\ status' = held \cup {NewData}
    /\ renewed' = TRUE
    /\ Goto("main", "copy")
    /\ UNCHANGED <<bt, adv, payload, conns, held, timer, data, why>>

\* Mutant of MainCopy: the data of running advertising is left alone.
MainCopySkipped ==
    /\ pc["main"] = "copy"
    /\ Goto("main", "check")
    /\ UNCHANGED <<bt, status, adv, payload, conns, held, timer, data, why,
                   renewed>>

\* Mutant of MainCopy: bluetooth_status_update returns when
\* bt_le_adv_update_data refuses.
MainCopyReturns ==
    /\ pc["main"] = "copy"
    /\ held' = IF adv THEN status ELSE held
    /\ Goto("main", IF adv THEN "send" ELSE "sync")
    /\ UNCHANGED <<bt, status, adv, payload, conns, timer, data, why, renewed>>

\* bt_le_adv_update_data copies the word into a command while advertising
\* is on, and refuses otherwise ...
MainCopy ==
    /\ pc["main"] = "copy"
    /\ held' = IF adv THEN status ELSE held
    /\ Goto("main", IF adv THEN "send" ELSE "check")
    /\ UNCHANGED <<bt, status, adv, payload, conns, timer, data, why, renewed>>

\* ... and hands the command to the controller.
MainSend ==
    /\ pc["main"] = "send"
    /\ payload' = held
    /\ Goto("main", "check")
    /\ UNCHANGED <<bt, status, adv, conns, held, timer, data, why, renewed>>

MainCheck ==
    /\ pc["main"] = "check"
    /\ Goto("main", IF NewData \in status THEN "start" ELSE "count")
    /\ renewed' = (renewed /\ Stopping)
    /\ UNCHANGED <<bt, status, adv, payload, conns, held, timer, data, why>>

MainCount ==
    /\ pc["main"] = "count"
    /\ Goto("main", IF ConnCount = 0 THEN "stop" ELSE "sync")
    /\ UNCHANGED <<bt, status, adv, payload, conns, held, timer, data, why,
                   renewed>>

\* bluetooth_advertising_start up to the copy of the advertising data ...
MainStart ==
    /\ pc["main"] = "start"
    /\ held' = IF CanStart THEN status ELSE held
    /\ Goto("main", IF CanStart THEN "enable" ELSE "sync")
    /\ UNCHANGED <<bt, status, adv, payload, conns, timer, data, why, renewed>>

\* ... and the commands that set it and enable advertising.
MainEnable ==
    /\ pc["main"] = "enable"
    /\ Enabled(held)
    /\ Goto("main", "sync")
    /\ UNCHANGED <<bt, status, conns, held, timer, data, renewed>>

\* Mutant of MainStop: the thread goes on where the receive thread would.
MainStopLost ==
    /\ pc["main"] = "stop"
    /\ Stopped
    /\ Goto("main", "idle")
    /\ UNCHANGED <<bt, status, payload, conns, held, timer, data, renewed>>

MainStop ==
    /\ pc["main"] = "stop"
    /\ Stopped
    /\ Goto("main", "sync")
    /\ UNCHANGED <<bt, status, payload, conns, held, timer, data, renewed>>

\* k_timer_status_sync: wait for an expiry, or take one that is pending.
MainSync ==
    /\ pc["main"] = "sync"
    /\ timer
    /\ timer' = FALSE
    /\ Goto("main", "measure")
    /\ UNCHANGED <<bt, status, adv, payload, conns, held, data, why, renewed>>

Main == \/ MainBoot \/ MainMeasure \/ MainLoad \/ MainStore \/ MainCopy
        \/ MainSend \/ MainCheck \/ MainCount \/ MainStart \/ MainEnable
        \/ MainStop \/ MainSync

----------------------------------------------------------------------------
(* The receive thread: bluetooth_status_write and its status update. *)

\* A client clears NEW_DATA only after it has gone through its reads, as the
\* base station does; other bits it may write at any time.
MayWrite(c, w) ==
    \/ conns[c] = "read"
    \/ conns[c] = "up" /\ NewData \notin w.mask \ w.value

\* The read-modify-write and the update of the advertising data, up to the
\* point where the thread waits for the controller.
StatusWrite(c, w) ==
    /\ pc["rx"] = "idle"
    /\ MayWrite(c, w)
    /\ status' = Merged(w)
    /\ payload' = IF adv THEN Merged(w) ELSE payload
    /\ conns' = IF NewData \in w.mask \ w.value
                THEN [conns EXCEPT ![c] = "up"] ELSE conns
    /\ renewed' = (renewed \/ NewData \in w.value)
    /\ Goto("rx", "check")
    /\ UNCHANGED <<bt, adv, held, timer, data, why>>

\* The test of the word and of the count is not interrupted.
RxCheck ==
    /\ pc["rx"] = "check"
    /\ Goto("rx", IF NewData \in status THEN "start"
                  ELSE IF ConnCount = 0 THEN "stop" ELSE "idle")
    /\ renewed' = (renewed /\ Stopping)
    /\ UNCHANGED <<bt, status, adv, payload, conns, held, timer, data, why>>

RxStart ==
    /\ pc["rx"] = "start"
    /\ payload' = IF CanStart THEN status ELSE payload
    /\ Goto("rx", IF CanStart THEN "enable" ELSE "idle")
    /\ UNCHANGED <<bt, status, adv, conns, held, timer, data, why, renewed>>

RxEnable ==
    /\ pc["rx"] = "enable"
    /\ Enabled(payload)
    /\ Goto("rx", "idle")
    /\ UNCHANGED <<bt, status, conns, held, timer, data, renewed>>

RxStop ==
    /\ pc["rx"] = "stop"
    /\ Stopped
    /\ Goto("rx", "idle")
    /\ UNCHANGED <<bt, status, payload, conns, held, timer, data, renewed>>

RxUpdate == RxCheck \/ RxStart \/ RxEnable \/ RxStop

----------------------------------------------------------------------------
(* The system work queue. *)

\* bluetooth_ready: without settings there is no identity to advertise with,
\* and without a passkey the callbacks are not registered.
BtReady ==
    /\ bt = "enabling"
    /\ bt' \in {"ready", "barred", "failed"}
    /\ UNCHANGED <<status, adv, payload, conns, pc, held, timer, data, why,
                   renewed>>

\* Mutant of DisconnectedCheck: the client that leaves is taken to be out of
\* the list already.
DisconnectedCheckNone(c) ==
    /\ conns[c] = "closing"
    /\ \A d \in Clients : conns[d] \notin {"stopping", "leaving"}
    /\ conns' = [conns EXCEPT ![c] =
                   IF bt = "ready" /\ NewData \notin status /\ ConnCount = 0
                   THEN "stopping" ELSE "leaving"]
    /\ renewed' = (renewed /\ Stopping)
    /\ UNCHANGED <<bt, status, adv, payload, pc, held, timer, data, why>>

\* Mutant of DisconnectedCheck: the status word is not looked at.
DisconnectedCheckBlind(c) ==
    /\ conns[c] = "closing"
    /\ \A d \in Clients : conns[d] \notin {"stopping", "leaving"}
    /\ conns' = [conns EXCEPT ![c] =
                   IF bt = "ready" /\ ConnCount <= 1
                   THEN "stopping" ELSE "leaving"]
    /\ renewed' = (renewed /\ Stopping)
    /\ UNCHANGED <<bt, status, adv, payload, pc, held, timer, data, why>>

\* bluetooth_disconnected: the word and the count are read together; the
\* entry of c itself is still in the list.
DisconnectedCheck(c) ==
    /\ conns[c] = "closing"
    /\ \A d \in Clients : conns[d] \notin {"stopping", "leaving"}
    /\ conns' = [conns EXCEPT ![c] =
                   IF bt = "ready" /\ NewData \notin status /\ ConnCount <= 1
                   THEN "stopping" ELSE "leaving"]
    /\ renewed' = (renewed /\ Stopping)
    /\ UNCHANGED <<bt, status, adv, payload, pc, held, timer, data, why>>

\* Mutant of DisconnectedStop: NEW_DATA is cleared once more.
DisconnectedStopClears(c) ==
    /\ conns[c] = "stopping"
    /\ Stopped
    /\ status' = status \ {NewData}
    /\ conns' = [conns EXCEPT ![c] = "leaving"]
    /\ UNCHANGED <<bt, payload, pc, held, timer, data, renewed>>

DisconnectedStop(c) ==
    /\ conns[c] = "stopping"
    /\ Stopped
    /\ conns' = [conns EXCEPT ![c] = "leaving"]
    /\ UNCHANGED <<bt, status, payload, pc, held, timer, data, renewed>>

\* The host drops its reference after the callback.
Unlist(c) ==
    /\ conns[c] = "leaving"
    /\ conns' = [conns EXCEPT ![c] = "none"]
    /\ UNCHANGED <<bt, status, adv, payload, pc, held, timer, data, why,
                   renewed>>

WorkQueue == \/ BtReady
             \/ \E c \in Clients : \/ DisconnectedCheck(c)
                                   \/ DisconnectedStop(c)
                                   \/ Unlist(c)

----------------------------------------------------------------------------
(* Clients, the timer and the fatal error handler. *)

\* A connection uses the advertiser up.
Connect(c) ==
    /\ adv
    /\ conns[c] = "none"
    /\ adv' = FALSE
    /\ why' = "connected"
    /\ conns' = [conns EXCEPT ![c] = "up"]
    /\ UNCHANGED <<bt, status, payload, pc, held, timer, data, renewed>>

\* The client goes through the characteristics (one step: the readings of
\* one measurement are not told apart here).
Collect(c) ==
    /\ conns[c] \in {"up", "read"}
    /\ conns' = [conns EXCEPT ![c] = "read"]
    /\ data' = IF data = "none" THEN "none" ELSE "read"
    /\ UNCHANGED <<bt, status, adv, payload, pc, held, timer, why, renewed>>

\* The link goes down, closed by the client or lost.
LinkDown(c) ==
    /\ conns[c] \in {"up", "read"}
    /\ conns' = [conns EXCEPT ![c] = "closing"]
    /\ UNCHANGED <<bt, status, adv, payload, pc, held, timer, data, why,
                   renewed>>

\* update_timer expires; k_timer counts expiries, one is enough to go on.
TimerExpires ==
    /\ pc["main"] # "boot"
    /\ ~timer
    /\ timer' = TRUE
    /\ UNCHANGED <<bt, status, adv, payload, conns, pc, held, data, why,
                   renewed>>

\* k_sys_fatal_error_handler reboots: RAM and the controller start over.
Reboot ==
    /\ pc["main"] # "boot"
    /\ bt' = "off"
    /\ status' = {}
    /\ adv' = FALSE
    /\ payload' = {}
    /\ conns' = [c \in Clients |-> "none"]
    /\ pc' = [t \in Threads |-> IF t = "main" THEN "boot" ELSE "idle"]
    /\ held' = {}
    /\ timer' = FALSE
    /\ data' = "none"
    /\ why' = "never"
    /\ renewed' = FALSE

Environment ==
    \/ \E c \in Clients : \/ Connect(c)
                          \/ Collect(c)
                          \/ LinkDown(c)
                          \/ \E w \in Writes : StatusWrite(c, w)
    \/ Reboot

Next == Main \/ RxUpdate \/ WorkQueue \/ TimerExpires \/ Environment

Spec == Init /\ [][Next]_vars

\* The kernel runs every ready thread in the end: the cooperative ones wait
\* only for the controller, the main thread for them and for its timer.
\* Clients and crashes owe nothing.
Fairness ==
    /\ WF_vars(Main)
    /\ WF_vars(RxUpdate)
    /\ WF_vars(BtReady)
    /\ \A c \in Clients : WF_vars(DisconnectedCheck(c) \/ DisconnectedStop(c)
                                  \/ Unlist(c))
    /\ WF_vars(TimerExpires)

FairSpec == Spec /\ Fairness

----------------------------------------------------------------------------
(* What of this a client sees: the abstract sensor of module Sensor. *)

At(points) == {t \in Threads : pc[t] \in points}

Promise == INSTANCE Sensor WITH
    Crowds    <- {S \in SUBSET Clients : Cardinality(S) >= MaxConn},
    usable    <- Usable,
    measured  <- pc["main"] \in {"load", "store"},
    announced <- NewData \in status,
    onAir     <- adv,
    linked    <- {c \in Clients : conns[c] \in {"up", "read"}},
    listed    <- Listed,
    starting  <- At({"start", "enable"}),
    stopping  <- At({"count", "stop"}),
    parting   <- {c \in Clients : conns[c] = "stopping"}

----------------------------------------------------------------------------
(* Properties. *)

\* Every variable stays in its range.
TypeOK ==
    /\ bt \in BtStates
    /\ status \subseteq Bits
    /\ adv \in BOOLEAN
    /\ payload \subseteq Bits
    /\ conns \in [Clients -> ConnStates]
    /\ pc \in [Threads -> MainStates \cup RxStates]
    /\ pc["main"] \in MainStates
    /\ pc["rx"] \in RxStates
    /\ held \subseteq Bits
    /\ timer \in BOOLEAN
    /\ data \in DataStates
    /\ why \in Causes
    /\ renewed \in BOOLEAN

\* No thread is inside bluetooth_status_update.
Quiet == /\ pc["main"] \in {"boot", "measure", "load", "store", "sync"}
         /\ pc["rx"] = "idle"

\* A measurement that no client's collection overlapped stays announced in
\* the status word until a client reads it, whatever the main thread's
\* unprotected read-modify-write and the clients' writes do to the word.
FreshDataAnnounced ==
    data = "fresh" /\ pc["main"] \notin {"load", "store"} => NewData \in status

\* Nobody is advertised to or served before the main thread's first pass over
\* the sensors, whichever of them failed in it.
ServedOnlyAfterMeasure ==
    adv \/ (\E c \in Clients : conns[c] # "none") => data # "none"

\* With nothing to collect and nobody connected the sensor is silent, unless
\* a thread enabled advertising on a test of the word that was out of date by
\* then: the callback of the last client to leave never misses its duty.
SilentWhenIdle ==
    adv /\ NewData \notin status /\ Listed = {} /\ bt = "ready"
        => why = "stale check"

\* With data to collect and no thread at work, advertising is off for one of
\* three reasons: it could not be started yet, a client's connection used it
\* up, or a stop that was decided before the new data came after it.
OffAirOnlyForCause ==
    NewData \in status /\ ~adv /\ Quiet /\ Usable
        => why \in {"never", "connected", "stale stop"}

\* While clients only ever clear NEW_DATA, as the base station does, the
\* bits on the air do not miss new data once the main thread's update is
\* through: a monitor that matches on NEW_DATA is woken.
OnlyClear == \A w \in Writes : NewData \notin w.value
NewDataOnAir ==
    OnlyClear =>
        (adv /\ NewData \in status
             /\ pc["main"] \notin {"copy", "send"} => NewData \in payload)

\* Unlocked, with stale tests and copied words, the three contexts together
\* keep the promise of Sensor: to a client the sensor looks as if it announced,
\* decided and acted in single steps.
ImplementsSensor == Promise!Spec

\* bluetooth.c says that advertising stops when "the data has been
\* retrieved": between two measurements, what was acknowledged was read.
AcknowledgedAfterRetrieval ==
    pc["main"] = "sync" /\ why = "acknowledged" /\ NewData \notin status
        => data = "read"

\* bluetooth.c says "If there is no longer new data and no one is connected,
\* stop advertising": with no thread at work, that is how things are.
IdleMeansSilent ==
    ~(adv /\ NewData \notin status /\ Listed = {} /\ Quiet /\ bt = "ready")

\* Once Bluetooth is usable the sensor is on the air, or has a client, again
\* and again, unless it crashes.
Reachable == []<>(adv \/ Listed # {} \/ ~Usable)
=============================================================================
