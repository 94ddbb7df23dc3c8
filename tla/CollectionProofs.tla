-------------------------- MODULE CollectionProofs --------------------------
(***************************************************************************)
(* Proofs about Collection, for any times, bits and number of connection   *)
(* slots that its assumptions allow.  The composition runs the firmware of *)
(* Advertising, so that everything AdvertisingProofs says of it holds      *)
(* here; the station's wait and its sessions are then followed in time.    *)
(***************************************************************************)
EXTENDS Collection, FiniteSetTheorems, TLAPS

----------------------------------------------------------------------------
(* The firmware is that of Advertising. *)

\* The writes of the status word in the composition.
AllWrites == {SetOther, ClearWrite}

Fw == INSTANCE AdvertisingProofs WITH Writes <- AllWrites

\* The assumptions of Advertising hold in the composition.
LEMMA FirmwareAssumptions ==
    /\ IsFiniteSet(Clients) /\ Fw!IsFiniteSet(Clients)
    /\ MaxConn \in Nat \ {0}
    /\ \A w \in AllWrites : /\ w \in [mask : SUBSET Fw!Bits, value : SUBSET Fw!Bits]
                            /\ w.value \subseteq w.mask
<1>1. IsFiniteSet(Clients)
  <2>1. Clients = {Station} \cup {Other}
      BY DEF Clients
  <2> QED
      BY <2>1, FS_Singleton, FS_Union
<1>2. Fw!IsFiniteSet(Clients)
    BY <1>1 DEF Fw!IsFiniteSet, IsFiniteSet
<1>3. MaxConn \in Nat \ {0}
    BY SlotsAssumption
<1>4. \A w \in AllWrites : /\ w \in [mask : SUBSET Fw!Bits, value : SUBSET Fw!Bits]
                           /\ w.value \subseteq w.mask
    BY DEF AllWrites, SetOther, ClearWrite, Fw!Bits, Radio!Bits, Radio!NewData, Fw!NewData
<1> QED
    BY <1>1, <1>2, <1>3, <1>4

\* Every action of the one is that action of the other.
LEMMA SameMain ==
    /\ Radio!MainBoot => Fw!MainBoot
    /\ Radio!MainMeasure => Fw!MainMeasure
    /\ Radio!MainLoad => Fw!MainLoad
    /\ Radio!MainStore => Fw!MainStore
    /\ Radio!MainCopy => Fw!MainCopy
    /\ Radio!MainSend => Fw!MainSend
    /\ Radio!MainCheck => Fw!MainCheck
    /\ Radio!MainCount => Fw!MainCount
    /\ Radio!MainStart => Fw!MainStart
    /\ Radio!MainEnable => Fw!MainEnable
    /\ Radio!MainStop => Fw!MainStop
    /\ Radio!MainSync => Fw!MainSync
BY DEF Radio!MainBoot, Fw!MainBoot, Radio!MainMeasure, Fw!MainMeasure,
       Radio!MainLoad, Fw!MainLoad, Radio!MainStore, Fw!MainStore,
       Radio!MainCopy, Fw!MainCopy, Radio!MainSend, Fw!MainSend,
       Radio!MainCheck, Fw!MainCheck, Radio!MainCount, Fw!MainCount,
       Radio!MainStart, Fw!MainStart, Radio!MainEnable, Fw!MainEnable,
       Radio!MainStop, Fw!MainStop, Radio!MainSync, Fw!MainSync,
       Radio!Goto, Fw!Goto, Radio!NewData, Fw!NewData, Radio!Stopping, Fw!Stopping,
       Radio!CanStart, Fw!CanStart, Radio!Usable, Fw!Usable,
       Radio!ConnCount, Fw!ConnCount, Radio!Listed, Fw!Listed,
       Radio!Cardinality, Fw!Cardinality,
       Radio!Enabled, Fw!Enabled, Radio!Stopped, Fw!Stopped

LEMMA SameOthers ==
    /\ Radio!RxUpdate => Fw!RxUpdate
    /\ Radio!BtReady => Fw!BtReady
    /\ Radio!TimerExpires => Fw!TimerExpires
    /\ Radio!Reboot => Fw!Reboot
    /\ Radio!Init => Fw!Init
BY DEF Radio!RxUpdate, Fw!RxUpdate, Radio!RxCheck, Fw!RxCheck,
       Radio!RxStart, Fw!RxStart, Radio!RxEnable, Fw!RxEnable,
       Radio!RxStop, Fw!RxStop, Radio!BtReady, Fw!BtReady,
       Radio!TimerExpires, Fw!TimerExpires, Radio!Reboot, Fw!Reboot,
       Radio!Init, Fw!Init, Radio!Threads, Fw!Threads,
       Radio!Goto, Fw!Goto, Radio!NewData, Fw!NewData, Radio!Stopping, Fw!Stopping,
       Radio!CanStart, Fw!CanStart, Radio!Usable, Fw!Usable,
       Radio!ConnCount, Fw!ConnCount, Radio!Listed, Fw!Listed,
       Radio!Cardinality, Fw!Cardinality,
       Radio!Enabled, Fw!Enabled, Radio!Stopped, Fw!Stopped

LEMMA SameClients ==
    ASSUME NEW c \in Clients
    PROVE  /\ Radio!DisconnectedCheck(c) => Fw!DisconnectedCheck(c)
           /\ Radio!DisconnectedStop(c) => Fw!DisconnectedStop(c)
           /\ Radio!Unlist(c) => Fw!Unlist(c)
           /\ Radio!Connect(c) => Fw!Connect(c)
           /\ Radio!Collect(c) => Fw!Collect(c)
           /\ Radio!LinkDown(c) => Fw!LinkDown(c)
           /\ \A w : Radio!StatusWrite(c, w) => Fw!StatusWrite(c, w)
BY DEF Radio!DisconnectedCheck, Fw!DisconnectedCheck,
       Radio!DisconnectedStop, Fw!DisconnectedStop, Radio!Unlist, Fw!Unlist,
       Radio!Connect, Fw!Connect, Radio!Collect, Fw!Collect,
       Radio!LinkDown, Fw!LinkDown, Radio!StatusWrite, Fw!StatusWrite,
       Radio!MayWrite, Fw!MayWrite, Radio!Merged, Fw!Merged,
       Radio!Goto, Fw!Goto, Radio!NewData, Fw!NewData, Radio!Stopping, Fw!Stopping,
       Radio!ConnCount, Fw!ConnCount, Radio!Listed, Fw!Listed,
       Radio!Cardinality, Fw!Cardinality, Radio!Stopped, Fw!Stopped

LEMMA FirmwareStep == [Next]_vars => [Fw!Next]_Fw!vars
<1> SUFFICES ASSUME [Next]_vars PROVE [Fw!Next]_Fw!vars
    OBVIOUS
<1> USE DEF Fw!vars, firmware, Clients
<1>1. CASE Loop
  <2>1. CASE UNCHANGED firmware
      BY <2>1
  <2>2. CASE ~UNCHANGED firmware
    <3>1. \/ Radio!Connect(Station) \/ Radio!Collect(Station)
          \/ Radio!LinkDown(Station) \/ Radio!StatusWrite(Station, ClearWrite)
        BY <1>1, <2>2 DEF Loop, Found, TimedOut, Connect, Reconnect,
              AlreadyConnected, DiscoverFails, ConnectFails, Read, ReadFails, Clear, ClearFails, Disconnect,
              DisconnectFails
    <3> QED
        BY <3>1, SameClients DEF Fw!Next, Fw!Environment, AllWrites
  <2> QED
      BY <2>1, <2>2
<1>2. CASE Firmware
  <2>1. CASE Measure \/ Boot \/ TimerExpires
      BY <2>1, SameMain, SameOthers
         DEF Measure, Boot, TimerExpires, Fw!Next, Fw!Main
  <2>2. CASE Threads
    <3>1. ASSUME NEW c \in Clients,
                 \/ Radio!DisconnectedCheck(c) \/ Radio!DisconnectedStop(c)
                 \/ Radio!Unlist(c)
          PROVE  Fw!Next
        BY <3>1, SameClients DEF Fw!Next, Fw!WorkQueue
    <3>2. CASE Radio!RxUpdate \/ Radio!BtReady
        BY <3>2, SameOthers DEF Fw!Next, Fw!WorkQueue
    <3>3. CASE \/ Radio!MainLoad \/ Radio!MainStore \/ Radio!MainCopy
               \/ Radio!MainSend \/ Radio!MainCheck \/ Radio!MainCount
               \/ Radio!MainStart \/ Radio!MainEnable \/ Radio!MainStop
               \/ Radio!MainSync
        BY <3>3, SameMain DEF Fw!Next, Fw!Main
    <3> QED
        BY <2>2, <3>1, <3>2, <3>3 DEF Threads
  <2> QED
      BY <1>2, <2>1, <2>2 DEF Firmware
<1>3. CASE Tick
    BY <1>3 DEF Tick
<1>4. CASE Faults
  <2>1. CASE Crash \/ FaultsEnd
      BY <2>1 DEF Crash, FaultsEnd
  <2>2. CASE OtherConnects \/ OtherWrites \/ OtherLeaves \/ LinkLost
    <3>1. \/ Radio!Connect(Other) \/ Radio!StatusWrite(Other, SetOther)
          \/ Radio!LinkDown(Other) \/ Radio!LinkDown(Station)
        BY <2>2 DEF OtherConnects, OtherWrites, OtherLeaves, LinkLost
    <3> QED
        BY <3>1, SameClients DEF Fw!Next, Fw!Environment, AllWrites
  <2>3. CASE Reboot
      BY <2>3, SameOthers DEF Reboot, Fw!Next, Fw!Environment
  <2> QED
      BY <1>4, <2>1, <2>2, <2>3 DEF Faults
<1>5. CASE UNCHANGED vars
    BY <1>5 DEF vars
<1> QED
    BY <1>1, <1>2, <1>3, <1>4, <1>5 DEF Next

\* The station and the other client use the sensor's firmware as Advertising
\* has it, with two writes of the status word: what is true of bluetooth.c
\* there is true in the composition.
THEOREM RunsFirmware == Spec => Fw!Spec
<1>1. Init => Fw!Init
    BY SameOthers DEF Init
<1> QED
    BY <1>1, FirmwareStep, PTL DEF Spec, Fw!Spec

\* In particular, its invariants.
LEMMA FirmwareInvariants ==
    Spec => [](Fw!TypeOK /\ Fw!IdleInv /\ Fw!NewDataOnAir)
<1>1. Fw!Spec => []Fw!TypeOK
    BY FirmwareAssumptions, Fw!TypeCorrect
<1>2. Fw!Spec => []Fw!IdleInv
    BY FirmwareAssumptions, Fw!IdleAlways
<1>3. Fw!Spec => []Fw!NewDataOnAir
    BY FirmwareAssumptions, Fw!OnAir
<1> QED
    BY <1>1, <1>2, <1>3, RunsFirmware, PTL

----------------------------------------------------------------------------
(* What the composition takes from there, and its own ranges. *)

NewData == Radio!NewData

Sound ==
    /\ Radio!TypeOK
    /\ adv => Radio!Usable /\ pc["main"] # "boot"
    /\ adv /\ NewData \in status /\ pc["main"] \notin {"copy", "send"} =>
           NewData \in payload

THEOREM SoundAlways == Spec => []Sound
<1> SUFFICES ASSUME Fw!TypeOK, Fw!IdleInv, Fw!NewDataOnAir PROVE Sound
    BY FirmwareInvariants, PTL
<1>1. Radio!TypeOK
    BY DEF Fw!TypeOK, Radio!TypeOK, Fw!Bits, Fw!NewData, Radio!Bits, Radio!NewData,
       Fw!BtStates, Radio!BtStates, Fw!ConnStates, Radio!ConnStates, Fw!Threads,
       Radio!Threads, Fw!MainStates, Radio!MainStates, Fw!RxStates, Radio!RxStates,
       Fw!DataStates, Radio!DataStates, Fw!Causes, Radio!Causes
<1>2. adv => Radio!Usable /\ pc["main"] # "boot"
    BY DEF Fw!IdleInv, Fw!Usable, Radio!Usable
<1>3. Fw!OnlyClear
    BY ClientsAssumption
       DEF Fw!OnlyClear, AllWrites, SetOther, ClearWrite, Fw!NewData
<1> QED
    BY <1>1, <1>2, <1>3 DEF Sound, Fw!NewDataOnAir, Fw!NewData, NewData, Radio!NewData

\* The composition's own variables: what is true or false of them ...
Flags == /\ gatt \in BOOLEAN /\ calm \in BOOLEAN
         /\ disturbed \in BOOLEAN /\ steady \in BOOLEAN /\ unread \in BOOLEAN

\* ... and the times.  Bluetooth comes up without failure, and no session is
\* longer than its limit.
ClockInv ==
    /\ age \in 0 .. Period
    /\ at \in LoopStates
    /\ spent \in 0 .. Timeout
    /\ bt \in {"off", "enabling", "ready"}
    /\ at # "wait" => spent <= SessionLimit

LEMMA Times ==
    /\ Period \in Nat /\ Spell \in Nat /\ Timeout \in Nat /\ SessionLimit \in Nat
    /\ Period + Spell < Timeout /\ Spell + SessionLimit < Period
BY TimesAssumption

LEMMA ClockInit == Init => Flags /\ ClockInv
<1>1. Init => Flags
    BY DEF Init, Flags
<1>2. Init => ClockInv
    BY Times DEF Init, Radio!Init, ClockInv, LoopStates
<1> QED
    BY <1>1, <1>2

\* The firmware's steps by what they do to the rest.
LEMMA FirmwareFrame ==
    ASSUME Firmware
    PROVE  /\ UNCHANGED <<loop, calm, disturbed, steady>>
           /\ age' = age \/ age' = 0
           /\ bt' \in {bt, "enabling", "ready"}
           /\ unread' \in {unread, TRUE}
<1>1. CASE Measure \/ Boot \/ TimerExpires
    BY <1>1 DEF Measure, Boot, TimerExpires, history, Radio!MainMeasure,
       Radio!TimerExpires
<1>2. CASE Threads
  <2>1. bt' \in {bt, "ready"}
      BY <1>2 DEF Threads, Radio!MainLoad, Radio!MainStore, Radio!MainCopy,
         Radio!MainSend, Radio!MainCheck, Radio!MainCount, Radio!MainStart,
         Radio!MainEnable, Radio!MainStop, Radio!MainSync, Radio!RxUpdate,
         Radio!RxCheck, Radio!RxStart, Radio!RxEnable, Radio!RxStop,
         Radio!DisconnectedCheck, Radio!DisconnectedStop, Radio!Unlist
  <2> QED
      BY <1>2, <2>1 DEF Threads, history
<1> QED
    BY <1>1, <1>2 DEF Firmware

LEMMA FlagsStep == Flags /\ [Next]_vars => Flags'
<1> SUFFICES ASSUME Flags, [Next]_vars PROVE Flags'
    OBVIOUS
<1> USE DEF Flags
<1>1. Meddled \in BOOLEAN
    BY DEF Meddled
<1>2. CASE \/ Found \/ TimedOut \/ Connect \/ Reconnect \/ AlreadyConnected
           \/ DiscoverFails \/ ConnectFails
    BY <1>1, <1>2, Zenon DEF Found, TimedOut, Connect, Reconnect,
       AlreadyConnected, DiscoverFails, ConnectFails, NextRound, Upset, history
<1>3. CASE Read \/ ReadFails \/ Clear \/ ClearFails \/ Disconnect \/ DisconnectFails
    BY <1>1, <1>3, Zenon DEF Read, ReadFails, Clear, ClearFails, Disconnect,
       DisconnectFails, NextRound, Upset, history
<1>4. CASE Firmware
    BY <1>4, FirmwareFrame, Zenon DEF loop
<1>5. CASE Tick
    BY <1>5, Zenon DEF Tick, firmware, history
<1>6. CASE Faults
  <2>1. CASE Crash
      BY <1>1, <2>1, Zenon DEF Crash, NextRound, Upset
  <2>2. CASE OtherConnects \/ OtherWrites \/ OtherLeaves \/ Reboot \/ LinkLost
      BY <2>2, Zenon DEF OtherConnects, OtherWrites, OtherLeaves, Reboot,
         LinkLost, Disturbance, Upset, loop
  <2>3. CASE FaultsEnd
      BY <2>3, Zenon DEF FaultsEnd, loop, history
  <2> QED
      BY <1>6, <2>1, <2>2, <2>3 DEF Faults
<1>7. CASE UNCHANGED vars
    BY <1>7 DEF vars, loop, history
<1> QED
    BY <1>2, <1>3, <1>4, <1>5, <1>6, <1>7 DEF Next, Loop

LEMMA ClockStep == ClockInv /\ [Next]_vars => ClockInv'
<1> SUFFICES ASSUME ClockInv, [Next]_vars PROVE ClockInv'
    OBVIOUS
<1> USE Times DEF ClockInv, LoopStates
<1>1. CASE Loop
  <2>1. bt' = bt
      BY <1>1 DEF Loop, Found, TimedOut, Connect, Reconnect, AlreadyConnected,
         DiscoverFails, ConnectFails, Read, ReadFails, Clear, ClearFails, Disconnect,
         DisconnectFails, firmware, Radio!Connect, Radio!Collect,
         Radio!LinkDown, Radio!StatusWrite
  <2>2. /\ age' = age /\ at' \in LoopStates
        /\ spent' = 0 \/ (spent' = spent /\ at # "wait")
      BY <1>1 DEF Loop, Found, TimedOut, Connect, Reconnect, AlreadyConnected,
         Connecting, DiscoverFails, ConnectFails, Read, ReadFails, Clear, ClearFails, Disconnect,
         DisconnectFails, NextRound
  <2> QED
      BY <2>1, <2>2
<1>2. CASE Firmware
    BY <1>2, FirmwareFrame DEF loop
<1>3. CASE Tick
    BY <1>3 DEF Tick, firmware
<1>4. CASE Faults
  <2>1. bt' \in {bt, "off"}
      BY <1>4 DEF Faults, Crash, OtherConnects, OtherWrites, OtherLeaves, Reboot,
         LinkLost, FaultsEnd, firmware, Radio!Connect, Radio!LinkDown,
         Radio!StatusWrite, Radio!Reboot
  <2>2. age' = age /\ ((at' = "wait" /\ spent' = 0) \/ UNCHANGED <<at, spent>>)
      BY <1>4 DEF Faults, Crash, OtherConnects, OtherWrites, OtherLeaves, Reboot,
         LinkLost, FaultsEnd, NextRound, Disturbance, loop
  <2> QED
      BY <2>1, <2>2
<1>5. CASE UNCHANGED vars
    BY <1>5 DEF vars, firmware, loop
<1> QED
    BY <1>1, <1>2, <1>3, <1>4, <1>5 DEF Next

LEMMA ClockAlways == Spec => []Flags /\ []ClockInv
BY ClockInit, FlagsStep, ClockStep, PTL DEF Spec

\* The variables of both programs and of the clock stay in their ranges.
THEOREM TypeCorrect == Spec => []TypeOK
<1>1. Sound /\ Flags /\ ClockInv => TypeOK
    BY Zenon DEF Sound, Flags, ClockInv, TypeOK
<1> QED
    BY <1>1, SoundAlways, ClockAlways, PTL

----------------------------------------------------------------------------
(* What Sound says of the status word and of the connection list. *)

LEMMA Shape ==
    ASSUME Sound
    PROVE  /\ status \subseteq {NewData} \cup OtherBits
           /\ held \subseteq {NewData} \cup OtherBits
           /\ payload \subseteq {NewData} \cup OtherBits
           /\ conns \in [Clients -> Radio!ConnStates]
           /\ pc \in [{"main", "rx"} -> Radio!MainStates \cup Radio!RxStates]
           /\ pc["main"] \in Radio!MainStates
           /\ pc["rx"] \in Radio!RxStates
           /\ NewData \notin OtherBits
BY ClientsAssumption
   DEF Sound, Radio!TypeOK, Radio!Bits, Radio!Threads, NewData, Radio!NewData

\* While the other client is away there is a slot left for advertising.
LEMMA OneSlot ==
    ASSUME Sound, conns[Other] = "none"
    PROVE  /\ Radio!ConnCount \in Nat /\ Radio!ConnCount <= 1
           /\ bt = "ready" /\ ~adv => Radio!CanStart
<1>1. Radio!Listed \subseteq {Station}
    BY DEF Radio!Listed, Clients
<1>2. Radio!Listed = {} \/ Radio!Listed = {Station}
    BY <1>1
<1>3. Cardinality(Radio!Listed) \in {0, 1}
    BY <1>2, FS_EmptySet, FS_Singleton
<1>4. Radio!ConnCount \in {0, 1}
    BY <1>3 DEF Radio!ConnCount, Radio!Cardinality, Cardinality
<1>5. Radio!ConnCount < MaxConn
    BY <1>4, SlotsAssumption
<1> QED
    BY <1>4, <1>5 DEF Radio!CanStart, Radio!Usable

\* The firmware adds no bits of its own and leaves the other client alone.
LEMMA FirmwareUnmeddled ==
    ASSUME Sound, ~Meddled, Firmware
    PROVE  ~Meddled'
<1>1. conns[Other] = "none" /\ (status \cup held \cup payload) \cap OtherBits = {}
    BY DEF Meddled, Littered
<1>2. conns'[Other] = "none"
  <2>1. CASE UNCHANGED conns
      BY <1>1, <2>1
  <2>2. CASE ~UNCHANGED conns
    <3>1. PICK c \in Clients : \/ Radio!DisconnectedCheck(c)
                               \/ Radio!DisconnectedStop(c)
                               \/ Radio!Unlist(c)
        BY <2>2 DEF Firmware, Measure, Boot, Threads, TimerExpires, Radio!MainMeasure,
           Radio!MainBoot, Radio!TimerExpires, Radio!MainLoad, Radio!MainStore,
           Radio!MainCopy, Radio!MainSend, Radio!MainCheck, Radio!MainCount,
           Radio!MainStart, Radio!MainEnable, Radio!MainStop, Radio!MainSync,
           Radio!RxUpdate, Radio!RxCheck, Radio!RxStart, Radio!RxEnable,
           Radio!RxStop, Radio!BtReady
    <3>2. c = Station
        BY <1>1, <3>1 DEF Clients, Radio!DisconnectedCheck,
           Radio!DisconnectedStop, Radio!Unlist
    <3> QED
        BY <1>1, <3>1, <3>2, Shape, ClientsAssumption DEF Clients,
           Radio!DisconnectedCheck, Radio!DisconnectedStop, Radio!Unlist
  <2> QED
      BY <2>1, <2>2
<1>3. /\ status' \subseteq status \cup held \cup payload \cup {NewData}
      /\ held' \subseteq status \cup held \cup payload \cup {NewData}
      /\ payload' \subseteq status \cup held \cup payload \cup {NewData}
  <2>1. CASE Measure \/ Boot \/ TimerExpires
      BY <2>1 DEF Measure, Boot, TimerExpires, Radio!MainMeasure,
         Radio!MainBoot, Radio!TimerExpires
  <2>2. CASE Threads
      BY <2>2 DEF Threads, NewData, Radio!MainLoad, Radio!MainStore,
         Radio!MainCopy, Radio!MainSend, Radio!MainCheck, Radio!MainCount,
         Radio!MainStart, Radio!MainEnable, Radio!MainStop, Radio!MainSync,
         Radio!RxUpdate, Radio!RxCheck, Radio!RxStart, Radio!RxEnable,
         Radio!RxStop, Radio!BtReady, Radio!Enabled, Radio!DisconnectedCheck,
         Radio!DisconnectedStop, Radio!Unlist
  <2> QED
      BY <2>1, <2>2 DEF Firmware
<1>4. (status' \cup held' \cup payload') \cap OtherBits = {}
    BY <1>1, <1>3, Shape
<1> QED
    BY <1>2, <1>4 DEF Meddled, Littered

----------------------------------------------------------------------------
(* The wait. *)

\* Once time has passed in an undisturbed wait, the main thread is alone: the
\* receive thread and the callback have done their work, nothing stops
\* advertising, and new data goes into the word and on the air as it is.
\* Only between two passes may the callback of a link that was lost be at
\* work, and it does not stop advertising against new data.
Released ==
    /\ Quiet
    /\ conns[Station] \in {"closing", "stopping", "leaving"}
    /\ NewData \in status => conns[Station] # "stopping"

Ready ==
    /\ bt = "ready" /\ pc["rx"] = "idle"
    /\ conns[Station] \in {"none", "up", "read"} \/ Released
    /\ pc["main"] \notin {"boot", "count", "stop"}
    /\ pc["main"] \in {"copy", "send", "check", "start", "enable"} =>
           NewData \in status
    /\ pc["main"] \in {"send", "enable"} => held = {NewData}
    /\ adv /\ NewData \in status /\ pc["main"] \notin {"copy", "send"} =>
           payload = {NewData}

\* The wait began after the timer had expired last; or it has seen the timer
\* expire, and the loop has begun with its pass; or new data is on the air.
InTime ==
    \/ spent <= age
    \/ /\ age <= Spell /\ spent <= Period + age
       /\ timer \/ pc["main"] # "sync"
    \/ spent <= Period + Spell /\ Match /\ NewData \in status

WaitInv ==
    at = "wait" /\ ~disturbed =>
        ~Meddled /\ (spent > 0 => Ready) /\ InTime

\* The firmware keeps the station's wait on its way: a pass of the main loop
\* ends with new data on the air, and nothing takes that off.
LEMMA ReadyMain ==
    ASSUME Sound, ~Meddled, Ready, Firmware
    PROVE  /\ Ready'
           /\ Match /\ NewData \in status => Match' /\ NewData \in status'
           /\ pc'["main"] = "sync" /\ pc["main"] # "sync" =>
                  Match' /\ NewData \in status'
<1> USE DEF Ready, Released, Quiet, Match
<1>1. /\ conns[Other] = "none"
      /\ status \subseteq {NewData} /\ held \subseteq {NewData}
      /\ payload \subseteq {NewData}
    BY Shape DEF Meddled, Littered
<1>2. ~adv => Radio!CanStart
    BY <1>1, OneSlot
<1>3. pc \in [{"main", "rx"} -> Radio!MainStates \cup Radio!RxStates]
    BY Shape
<1>4. CASE Measure \/ TimerExpires
  <2>1. ~Quiet
      BY <1>4, Times DEF Measure, TimerExpires, Radio!MainMeasure
  <2>2. conns[Station] \in {"none", "up", "read"}
      BY <2>1
  <2> QED
      BY <1>3, <1>4, <2>2 DEF Measure, TimerExpires, Radio!MainMeasure,
         Radio!TimerExpires, Radio!Goto, NewData
<1>5. CASE Boot
    BY <1>5 DEF Boot, Radio!MainBoot
<1>6. CASE Threads
  <2>1. ~Radio!RxUpdate /\ ~Radio!BtReady
      BY DEF Radio!RxUpdate, Radio!RxCheck, Radio!RxStart, Radio!RxEnable,
         Radio!RxStop, Radio!BtReady
  <2>2. CASE \E c \in Clients : \/ Radio!DisconnectedCheck(c)
                                \/ Radio!DisconnectedStop(c)
                                \/ Radio!Unlist(c)
    <3>1. \/ Radio!DisconnectedCheck(Station) \/ Radio!DisconnectedStop(Station)
          \/ Radio!Unlist(Station)
        BY <1>1, <2>2 DEF Clients, Radio!DisconnectedCheck,
           Radio!DisconnectedStop, Radio!Unlist
    <3>2. /\ UNCHANGED <<bt, status, payload, pc, held, timer>>
          /\ age' = age
        BY <1>6, <3>1 DEF Threads, Radio!DisconnectedCheck,
           Radio!DisconnectedStop, Radio!Unlist
    <3>3. Quiet
        BY <3>1 DEF Radio!DisconnectedCheck, Radio!DisconnectedStop, Radio!Unlist
    <3>4. CASE Radio!DisconnectedCheck(Station)
        BY <3>2, <3>3, <3>4, Shape DEF Radio!DisconnectedCheck, Clients, NewData
    <3>5. CASE Radio!DisconnectedStop(Station)
      <4>1. NewData \notin status /\ ~adv' /\ conns'[Station] = "leaving"
          BY <3>5, Shape DEF Radio!DisconnectedStop, Radio!Stopped, Clients
      <4> QED
          BY <3>2, <3>3, <4>1
    <3>6. CASE Radio!Unlist(Station)
        BY <3>2, <3>3, <3>6, Shape DEF Radio!Unlist, Clients
    <3> QED
        BY <3>1, <3>4, <3>5, <3>6
  <2>3. CASE Radio!MainLoad \/ Radio!MainStore \/ Radio!MainSync
      BY <1>3, <2>3 DEF Radio!MainLoad, Radio!MainStore, Radio!MainSync,
         Radio!Goto, NewData
  <2>4. CASE Radio!MainCopy \/ Radio!MainSend
      BY <1>1, <1>3, <2>4 DEF Radio!MainCopy, Radio!MainSend, Radio!Goto, NewData
  <2>5. CASE Radio!MainCheck \/ Radio!MainStart
      BY <1>1, <1>2, <1>3, <2>5 DEF Radio!MainCheck, Radio!MainStart, Radio!Goto,
         NewData, Radio!CanStart
  <2>6. CASE Radio!MainEnable
      BY <1>1, <1>2, <1>3, <2>6 DEF Radio!MainEnable, Radio!Enabled, Radio!Goto,
         NewData
  <2>7. CASE Radio!MainCount \/ Radio!MainStop
      BY <2>7 DEF Radio!MainCount, Radio!MainStop
  <2> QED
      BY <1>6, <2>1, <2>2, <2>3, <2>4, <2>5, <2>6, <2>7 DEF Threads
<1> QED
    BY <1>4, <1>5, <1>6 DEF Firmware

\* Leaving a wait, or starting it over, needs nothing of the one before.
LEMMA Restart ==
    ASSUME Sound, ClockInv, NextRound, UNCHANGED <<status, held, payload, age>>,
           conns'[Other] = conns[Other]
    PROVE  WaitInv'
<1>1. Meddled' <=> Meddled
    BY DEF Meddled, Littered
<1>2. ~disturbed' => ~Meddled'
    BY <1>1 DEF NextRound
<1>3. spent' = 0 /\ InTime'
    BY Times DEF NextRound, InTime, ClockInv
<1> QED
    BY <1>2, <1>3 DEF WaitInv

LEMMA WaitInit == Init => WaitInv
<1> SUFFICES ASSUME Init PROVE WaitInv
    OBVIOUS
<1>1. ~Meddled
    BY DEF Init, Radio!Init, Meddled, Littered, Clients
<1>2. spent = 0 /\ InTime
    BY DEF Init, InTime
<1> QED
    BY <1>1, <1>2 DEF WaitInv

LEMMA WaitTick ==
    ASSUME Sound, ClockInv, WaitInv, Tick
    PROVE  WaitInv'
<1> SUFFICES ASSUME at = "wait", ~disturbed
             PROVE  ~Meddled' /\ Ready' /\ InTime'
    BY DEF WaitInv, Tick, history
<1>1. ~Meddled /\ InTime
    BY DEF WaitInv
<1>2. ~Meddled'
    BY <1>1 DEF Meddled, Littered, Tick, firmware
<1>3. Settled /\ ~Match /\ age' = age + 1 /\ spent' = spent + 1 /\ UNCHANGED firmware
    BY DEF Tick
<1>4. conns[Station] \in {"none", "up", "read"}
    BY <1>3, Shape DEF Settled, Clients, Radio!ConnStates
<1>5. adv /\ NewData \in status /\ pc["main"] \notin {"copy", "send"} =>
          payload = {NewData}
    BY <1>1, Shape DEF Sound, Meddled, Littered
<1>6. Ready'
    BY <1>3, <1>4, <1>5 DEF Ready, Settled, firmware
<1>7. InTime'
  <2>1. CASE spent <= age
      BY <1>3, <2>1 DEF InTime, ClockInv
  <2>2. CASE age <= Spell /\ spent <= Period + age /\ (timer \/ pc["main"] # "sync")
    <3>1. pc["main"] = "measure" /\ age < Spell
        BY <1>3, <2>2 DEF Settled
    <3>2. age' <= Spell /\ spent' <= Period + age'
        BY <1>3, <2>2, <3>1, Times DEF ClockInv
    <3>3. pc'["main"] = "measure"
        BY <1>3, <3>1 DEF firmware
    <3> QED
        BY <3>2, <3>3 DEF InTime
  <2> QED
      BY <1>1, <1>3, <2>1, <2>2 DEF InTime
<1> QED
    BY <1>2, <1>6, <1>7

LEMMA WaitFirmware ==
    ASSUME Sound, ClockInv, WaitInv, Firmware
    PROVE  WaitInv'
<1>0. UNCHANGED <<at, spent, disturbed>>
    BY FirmwareFrame DEF loop
<1> SUFFICES ASSUME at = "wait", ~disturbed
             PROVE  ~Meddled' /\ (spent' > 0 => Ready') /\ InTime'
    BY <1>0 DEF WaitInv
<1>1. ~Meddled /\ (spent > 0 => Ready) /\ InTime
    BY DEF WaitInv
<1>2. ~Meddled'
    BY <1>1, FirmwareUnmeddled
<1>3. CASE spent = 0
  <2>1. age' >= 0
      BY FirmwareFrame DEF ClockInv
  <2> QED
      BY <1>0, <1>2, <1>3, <2>1 DEF InTime
<1>4. CASE spent # 0
  <2>1. Ready
      BY <1>1, <1>4 DEF ClockInv
  <2>2. /\ Ready'
        /\ Match /\ NewData \in status => Match' /\ NewData \in status'
        /\ pc'["main"] = "sync" /\ pc["main"] # "sync" =>
               Match' /\ NewData \in status'
      BY <1>1, <2>1, ReadyMain
  <2>3. InTime'
    <3>1. CASE TimerExpires
      <4>1. age = Period /\ age' = 0 /\ timer'
          BY <3>1 DEF TimerExpires, Radio!TimerExpires
      <4>2. CASE spent <= age
          BY <1>0, <4>1, <4>2, Times DEF InTime, ClockInv
      <4>3. CASE spent <= Period + Spell /\ Match /\ NewData \in status
          BY <1>0, <2>2, <4>3 DEF InTime
      <4> QED
          BY <1>1, <4>1, <4>2, <4>3, Times DEF InTime
    <3>2. CASE ~TimerExpires
      <4>1. age' = age
          BY <2>1, <3>2 DEF Firmware, Measure, Boot, Threads, Ready, Radio!MainBoot
      <4>2. CASE age <= Spell /\ spent <= Period + age /\ (timer \/ pc["main"] # "sync")
        <5>1. pc'["main"] = "sync" /\ ~timer' => Match' /\ NewData \in status'
          <6>1. pc["main"] = "sync" => timer' \/ pc'["main"] # "sync"
            <7>1. CASE timer' = timer
                BY <4>2, <7>1
            <7>2. CASE timer' # timer
                BY <7>2, <2>1, <3>2, Shape DEF Firmware, Measure, Boot, Threads,
                   Radio!MainMeasure, Radio!MainBoot, Radio!MainLoad,
                   Radio!MainStore, Radio!MainCopy, Radio!MainSend,
                   Radio!MainCheck, Radio!MainCount, Radio!MainStart,
                   Radio!MainEnable, Radio!MainStop, Radio!MainSync, Radio!Goto,
                   Radio!RxUpdate, Radio!RxCheck, Radio!RxStart, Radio!RxEnable,
                   Radio!RxStop, Radio!BtReady, Radio!DisconnectedCheck,
                   Radio!DisconnectedStop, Radio!Unlist
            <7> QED
                BY <7>1, <7>2
          <6> QED
              BY <2>2, <6>1
        <5>2. spent' <= Period + Spell
            BY <1>0, <4>2, Times DEF ClockInv
        <5> QED
            BY <1>0, <4>1, <4>2, <5>1, <5>2 DEF InTime
      <4> QED
          BY <1>0, <1>1, <2>2, <4>1, <4>2 DEF InTime
    <3> QED
        BY <3>1, <3>2
  <2> QED
      BY <1>2, <2>2, <2>3
<1> QED
    BY <1>3, <1>4

\* A kept link that is lost between two passes takes nothing off the air.
LEMMA WaitLinkLost ==
    ASSUME Sound, WaitInv, LinkLost
    PROVE  WaitInv'
<1> SUFFICES ASSUME at = "wait", ~disturbed, Quiet
             PROVE  ~Meddled' /\ (spent' > 0 => Ready') /\ InTime'
    BY DEF WaitInv, LinkLost, loop
<1>1. /\ UNCHANGED <<bt, status, adv, payload, pc, held, timer, age, spent>>
      /\ conns'[Other] = conns[Other] /\ conns'[Station] = "closing"
    BY Shape, ClientsAssumption DEF LinkLost, loop, Radio!LinkDown, Clients
<1>2. ~Meddled /\ (spent > 0 => Ready) /\ InTime
    BY DEF WaitInv
<1>3. ~Meddled' /\ InTime'
    BY <1>1, <1>2 DEF Meddled, Littered, InTime, Match
<1>4. Released'
    BY <1>1 DEF Released, Quiet
<1> QED
    BY <1>1, <1>2, <1>3, <1>4 DEF Ready

LEMMA WaitStep == Sound /\ ClockInv /\ WaitInv /\ [Next]_vars => WaitInv'
<1> SUFFICES ASSUME Sound, ClockInv, WaitInv, [Next]_vars PROVE WaitInv'
    OBVIOUS
<1>1. CASE \/ Found \/ TimedOut \/ Connect \/ Reconnect \/ AlreadyConnected
           \/ Read \/ ReadFails \/ Clear \/ ClearFails
    BY <1>1 DEF Found, TimedOut, Connect, Reconnect, AlreadyConnected, Read, ReadFails, Clear,
       ClearFails, WaitInv
<1>2. CASE ConnectFails \/ DisconnectFails \/ Crash
    BY <1>2, Restart DEF ConnectFails, DisconnectFails, Crash, firmware
<1>3. CASE Disconnect \/ DiscoverFails
    BY <1>3, Restart, Shape, ClientsAssumption
       DEF Disconnect, DiscoverFails, Radio!LinkDown, Radio!Connect, Clients
<1>4. CASE Firmware
    BY <1>4, WaitFirmware
<1>5. CASE Tick
    BY <1>5, WaitTick
<1>6. CASE OtherConnects \/ OtherWrites \/ OtherLeaves \/ Reboot
    BY <1>6 DEF OtherConnects, OtherWrites, OtherLeaves, Reboot,
       Disturbance, loop, WaitInv
<1>8. CASE LinkLost
    BY <1>8, WaitLinkLost
<1>7. CASE FaultsEnd \/ UNCHANGED vars
    BY <1>7 DEF FaultsEnd, vars, firmware, loop, history, WaitInv, Meddled,
       Littered, Ready, Released, Quiet, InTime, Match
<1> QED
    BY <1>1, <1>2, <1>3, <1>4, <1>5, <1>6, <1>7, <1>8 DEF Next, Loop, Faults

LEMMA WaitAlways == Spec => []WaitInv
BY WaitInit, WaitStep, SoundAlways, ClockAlways, PTL DEF Spec

\* A wait that the station gives up was disturbed: the period and a pass of
\* the sensor's loop fit into the timeout of base_station's wait, so that an
\* undisturbed one has seen the announcement.
THEOREM WaitsEnd == Spec => WaitEndsForCause
<1>1. ASSUME ClockInv, WaitInv, [Next]_vars, at = "wait", at' = "connect"
      PROVE  disturbed
  <2>1. TimedOut
      BY <1>1 DEF Next, Loop, Found, TimedOut, Connect, Reconnect,
         AlreadyConnected, DiscoverFails, ConnectFails, Read, ReadFails, Clear, ClearFails, Disconnect,
         DisconnectFails, NextRound, Connecting, Firmware, Measure, Boot, Threads,
         TimerExpires, Tick, Faults, Crash, OtherConnects, OtherWrites,
         OtherLeaves, Reboot, LinkLost, FaultsEnd, Disturbance, loop, vars
  <2>2. spent = Timeout /\ age <= Period
      BY <1>1, <2>1, Times DEF TimedOut, ClockInv
  <2>3. ~InTime
      BY <1>1, <2>2, Times DEF InTime, ClockInv
  <2> QED
      BY <1>1, <2>3 DEF WaitInv
<1>2. Spec => [][at = "wait" /\ at' = "connect" => disturbed]_vars
    BY <1>1, ClockAlways, WaitAlways, PTL DEF Spec
<1> QED
    BY <1>2 DEF WaitEndsForCause

----------------------------------------------------------------------------
(* The sessions of a station for which all goes well. *)

\* Bluetooth is on, nobody meddles, and a pass of the main loop is short.
Awake ==
    /\ bt = "ready" /\ ~Meddled /\ pc["main"] # "boot"
    /\ timer \/ pc["main"] # "sync" => age <= Spell

Measuring == pc["main"] \in {"measure", "load", "store"}

\* The callback of the station's disconnection is still to stop advertising.
Parting == conns[Station] \in {"closing", "stopping"}

\* The station has been woken just now, and is in its session.
Serving ==
    /\ at \in {"woken", "read", "clear", "disconnect"}
    /\ ~timer /\ ~Measuring
    /\ age <= Spell + spent
    /\ IF at = "woken" THEN gatt \/ ~Linked(Station) ELSE gatt
    /\ at \in {"clear", "disconnect"} => ~unread
    /\ at = "disconnect" => /\ NewData \notin status
                            /\ pc["rx"] \notin {"start", "enable"}

\* It has read and acknowledged the data, and has left.  The advertising that
\* its callback is still to stop may wake it once more, to no effect.
Resting ==
    /\ at \in {"wait", "woken"}
    /\ ~timer /\ ~Measuring /\ ~unread
    /\ NewData \notin status /\ pc["rx"] \notin {"start", "enable"}
    /\ ~Linked(Station)
    /\ \/ pc["rx"] = "idle" /\ conns[Station] = "none"
       \/ age <= Spell + SessionLimit
    /\ at = "wait" /\ Match => age <= Spell \/ Parting
    /\ at = "woken" => pc["main"] = "sync" /\ (adv => Parting)

\* The timer has expired: the sensor measures what was read before.
Renewing ==
    /\ at \in {"wait", "woken"}
    /\ \/ pc["main"] = "sync" /\ timer
       \/ Measuring /\ ~timer
    /\ pc["rx"] = "idle" /\ conns[Station] = "none" /\ NewData \notin status
    /\ ~Match /\ (at = "woken" => ~adv)
    /\ pc["main"] \in {"sync", "measure"} => ~unread

\* New data is in the word, and on its way to the waiting station.
Announcing ==
    /\ at = "wait"
    /\ ~timer
    /\ pc["main"] \in {"copy", "send", "check", "start", "enable", "sync"}
    /\ pc["rx"] = "idle" /\ conns[Station] = "none" /\ NewData \in status
    /\ age <= Spell
    /\ pc["main"] \in {"send", "enable"} => held = {NewData}
    /\ adv /\ pc["main"] \notin {"copy", "send"} => payload = {NewData}
    /\ pc["main"] = "sync" => Match

SteadyInv == steady => Awake /\ (Serving \/ Resting \/ Renewing \/ Announcing)

LEMMA SteadyInit == Init => SteadyInv
BY DEF Init, SteadyInv

\* The firmware stays awake.
LEMMA AwakeFirmware ==
    ASSUME Sound, Awake, Firmware
    PROVE  Awake'
<1> USE DEF Awake
<1>1. ~Meddled'
    BY FirmwareUnmeddled
<1>2. CASE TimerExpires
    BY <1>1, <1>2, Times DEF TimerExpires, Radio!TimerExpires
<1>3. CASE Measure
    BY <1>1, <1>3, Shape DEF Measure, Radio!MainMeasure, Radio!Goto
<1>4. CASE Boot
    BY <1>4 DEF Boot, Radio!MainBoot
<1>5. CASE Threads
  <2>1. age' = age /\ bt' = "ready"
      BY <1>5 DEF Threads, Radio!MainLoad, Radio!MainStore, Radio!MainCopy,
         Radio!MainSend, Radio!MainCheck, Radio!MainCount, Radio!MainStart,
         Radio!MainEnable, Radio!MainStop, Radio!MainSync, Radio!RxUpdate,
         Radio!RxCheck, Radio!RxStart, Radio!RxEnable, Radio!RxStop,
         Radio!BtReady, Radio!DisconnectedCheck, Radio!DisconnectedStop,
         Radio!Unlist
  <2>2. /\ pc'["main"] # "boot"
        /\ timer' \/ pc'["main"] # "sync" => timer \/ pc["main"] # "sync"
      BY <1>5, Shape DEF Threads, Radio!MainLoad, Radio!MainStore, Radio!MainCopy,
         Radio!MainSend, Radio!MainCheck, Radio!MainCount, Radio!MainStart,
         Radio!MainEnable, Radio!MainStop, Radio!MainSync, Radio!RxUpdate,
         Radio!RxCheck, Radio!RxStart, Radio!RxEnable, Radio!RxStop,
         Radio!BtReady, Radio!DisconnectedCheck, Radio!DisconnectedStop,
         Radio!Unlist, Radio!Goto
  <2> QED
      BY <1>1, <2>1, <2>2
<1> QED
    BY <1>2, <1>3, <1>4, <1>5 DEF Firmware

\* Between the announcement and the next expiry the word is left alone, and
\* the receive thread and the callback come to rest.
LEMMA AfterStore ==
    ASSUME Sound, Awake, Firmware, ~timer, ~Measuring, age # Period
    PROVE  /\ pc'["main"] \in {"copy", "send", "check", "count", "start",
                               "enable", "stop", "sync"}
           /\ ~timer' /\ ~Measuring' /\ age' = age
           /\ unread' = unread /\ status' = status
           /\ pc["main"] = "sync" => pc'["main"] = "sync"
           /\ Linked(Station)' => Linked(Station)
           /\ conns[Station] = "none" => conns'[Station] = "none"
           /\ pc["rx"] = "idle" => pc'["rx"] = "idle"
           /\ NewData \notin status /\ pc["rx"] \notin {"start", "enable"} =>
                  pc'["rx"] \notin {"start", "enable"}
<1> USE DEF Awake, Measuring
<1>1. ~TimerExpires /\ ~Measure /\ ~Boot
    BY DEF TimerExpires, Measure, Boot, Radio!MainMeasure, Radio!MainBoot
<1>2. /\ Threads
      /\ pc["main"] \in {"copy", "send", "check", "count", "start",
                         "enable", "stop", "sync"}
    BY <1>1, Shape DEF Firmware, Radio!MainStates
<1>3. age' = age /\ unread' = unread
    BY <1>2 DEF Threads, history
<1>4. ~Radio!MainLoad /\ ~Radio!MainStore /\ ~Radio!MainSync /\ ~Radio!BtReady
    BY DEF Radio!MainLoad, Radio!MainStore, Radio!MainSync, Radio!BtReady
<1>5. CASE \/ Radio!MainCopy \/ Radio!MainSend \/ Radio!MainCheck
           \/ Radio!MainCount \/ Radio!MainStart \/ Radio!MainEnable
           \/ Radio!MainStop
  <2>1. UNCHANGED <<timer, status, conns>>
      BY <1>5 DEF Radio!MainCopy, Radio!MainSend, Radio!MainCheck, Radio!MainCount,
         Radio!MainStart, Radio!MainEnable, Radio!MainStop
  <2>2. /\ pc["main"] # "sync" /\ pc'["rx"] = pc["rx"]
        /\ pc'["main"] \in {"send", "check", "count", "start", "enable", "stop",
                            "sync"}
      BY <1>5, Shape DEF Radio!MainCopy, Radio!MainSend, Radio!MainCheck,
         Radio!MainCount, Radio!MainStart, Radio!MainEnable, Radio!MainStop,
         Radio!Goto
  <2>3. ~Measuring'
      BY <2>2
  <2>4. Linked(Station)' => Linked(Station)
      BY <2>1 DEF Linked
  <2> QED
      BY <1>3, <2>1, <2>2, <2>3, <2>4
<1>6. CASE Radio!RxUpdate
  <2>1. UNCHANGED <<timer, status, conns>>
      BY <1>6 DEF Radio!RxUpdate, Radio!RxCheck, Radio!RxStart, Radio!RxEnable,
         Radio!RxStop
  <2>2. /\ pc'["main"] = pc["main"] /\ pc["rx"] # "idle"
        /\ NewData \notin status /\ pc["rx"] \notin {"start", "enable"} =>
               pc'["rx"] \notin {"start", "enable"}
      BY <1>6, Shape DEF Radio!RxUpdate, Radio!RxCheck, Radio!RxStart,
         Radio!RxEnable, Radio!RxStop, Radio!Goto, NewData
  <2> QED
      BY <1>2, <1>3, <2>1, <2>2 DEF Linked
<1>7. ASSUME NEW c \in Clients,
             \/ Radio!DisconnectedCheck(c) \/ Radio!DisconnectedStop(c)
             \/ Radio!Unlist(c)
      PROVE  /\ UNCHANGED <<timer, status, pc>>
             /\ Linked(Station)' => Linked(Station)
             /\ conns[Station] = "none" => conns'[Station] = "none"
    BY <1>7, Shape DEF Radio!DisconnectedCheck, Radio!DisconnectedStop,
       Radio!Unlist, Linked, Clients
<1> QED
    BY <1>2, <1>3, <1>4, <1>5, <1>6, <1>7 DEF Threads

\* While the main thread waits for its timer and there is no new data nobody
\* starts advertising, and a client's callback stops it.
LEMMA WindingDown ==
    ASSUME Sound, Awake, Firmware, ~timer, pc["main"] = "sync", age # Period,
           NewData \notin status, pc["rx"] \notin {"start", "enable"}
    PROVE  /\ adv' => adv
           /\ payload' = payload
           /\ adv' /\ Parting => Parting'
<1> USE DEF Awake
<1>1. Threads
    BY DEF Firmware, TimerExpires, Measure, Boot, Radio!MainMeasure, Radio!MainBoot
<1>2. conns[Other] = "none"
    BY DEF Meddled
<1>3. CASE Radio!RxUpdate
  <2>1. UNCHANGED <<payload, conns>> /\ (adv' = FALSE \/ adv' = adv)
      BY <1>3 DEF Radio!RxUpdate, Radio!RxCheck, Radio!RxStart, Radio!RxEnable,
         Radio!RxStop, Radio!Stopped
  <2> QED
      BY <2>1 DEF Parting
<1>4. CASE Radio!DisconnectedCheck(Station)
    BY <1>2, <1>4, OneSlot, Shape DEF Radio!DisconnectedCheck, Parting, Clients, NewData
<1>5. CASE Radio!DisconnectedStop(Station) \/ Radio!Unlist(Station)
  <2>1. /\ payload' = payload
        /\ adv' = FALSE \/ (adv' = adv /\ conns[Station] = "leaving")
      BY <1>5 DEF Radio!DisconnectedStop, Radio!Unlist, Radio!Stopped
  <2> QED
      BY <2>1 DEF Parting
<1>6. ~(Radio!DisconnectedCheck(Other) \/ Radio!DisconnectedStop(Other)
        \/ Radio!Unlist(Other))
    BY <1>2 DEF Radio!DisconnectedCheck, Radio!DisconnectedStop, Radio!Unlist
<1>7. ~(\/ Radio!MainLoad \/ Radio!MainStore \/ Radio!MainCopy \/ Radio!MainSend
        \/ Radio!MainCheck \/ Radio!MainCount \/ Radio!MainStart
        \/ Radio!MainEnable \/ Radio!MainStop \/ Radio!MainSync
        \/ Radio!BtReady)
    BY DEF Radio!MainLoad, Radio!MainStore, Radio!MainCopy, Radio!MainSend,
       Radio!MainCheck, Radio!MainCount, Radio!MainStart, Radio!MainEnable,
       Radio!MainStop, Radio!MainSync, Radio!BtReady
<1> QED
    BY <1>1, <1>3, <1>4, <1>5, <1>6, <1>7 DEF Threads, Clients

\* What becomes of each phase with a step of the firmware.
LEMMA ServingFirmware ==
    ASSUME Sound, ClockInv, Awake, Serving, Firmware
    PROVE  Serving'
<1>1. age # Period
    BY Times DEF Serving, ClockInv
<1>2. UNCHANGED <<at, gatt, spent>>
    BY FirmwareFrame DEF loop
<1>3. ~timer /\ ~Measuring
    BY DEF Serving
<1>4. /\ ~timer' /\ ~Measuring' /\ age' = age
      /\ unread' = unread /\ status' = status
      /\ Linked(Station)' => Linked(Station)
      /\ NewData \notin status /\ pc["rx"] \notin {"start", "enable"} =>
             pc'["rx"] \notin {"start", "enable"}
    BY <1>1, <1>3, AfterStore
<1> QED
    BY <1>2, <1>4 DEF Serving

LEMMA RestingFirmware ==
    ASSUME Sound, ClockInv, Awake, Resting, Firmware
    PROVE  Resting' \/ Renewing'
<1>1. UNCHANGED <<at, gatt, spent>>
    BY FirmwareFrame DEF loop
<1>2. /\ ~timer /\ ~Measuring /\ NewData \notin status
      /\ pc["rx"] \notin {"start", "enable"} /\ ~Linked(Station)
    BY DEF Resting
<1>3. CASE age = Period
  <2>1. pc["main"] = "sync" /\ pc["rx"] = "idle" /\ conns[Station] = "none"
      BY <1>2, <1>3, Times DEF Resting, Awake
  <2>2. ~Match /\ (at = "woken" => ~adv)
      BY <1>3, <2>1, Times DEF Resting, Parting, Match
  <2>3. TimerExpires
    <3>1. conns[Other] = "none"
        BY DEF Awake, Meddled
    <3>2. ~\E c \in Clients : \/ Radio!DisconnectedCheck(c)
                              \/ Radio!DisconnectedStop(c)
                              \/ Radio!Unlist(c)
        BY <2>1, <3>1 DEF Clients, Radio!DisconnectedCheck,
           Radio!DisconnectedStop, Radio!Unlist
    <3> QED
        BY <1>2, <2>1, <3>2 DEF Awake, Firmware, Measure, Boot, Threads,
           Radio!MainMeasure, Radio!MainBoot, Radio!MainLoad, Radio!MainStore,
           Radio!MainCopy, Radio!MainSend, Radio!MainCheck, Radio!MainCount,
           Radio!MainStart, Radio!MainEnable, Radio!MainStop, Radio!MainSync,
           Radio!RxUpdate, Radio!RxCheck, Radio!RxStart, Radio!RxEnable,
           Radio!RxStop, Radio!BtReady
  <2>4. /\ UNCHANGED <<status, adv, payload, conns, pc, unread>>
        /\ timer'
      BY <2>3 DEF TimerExpires, Radio!TimerExpires, history
  <2> QED
      BY <1>1, <1>2, <2>1, <2>2, <2>4 DEF Resting, Renewing, Match
<1>4. CASE age # Period
  <2>1. /\ ~timer' /\ ~Measuring' /\ age' = age
        /\ unread' = unread /\ status' = status
        /\ pc["main"] = "sync" => pc'["main"] = "sync"
        /\ ~Linked(Station)'
        /\ conns[Station] = "none" => conns'[Station] = "none"
        /\ pc["rx"] = "idle" => pc'["rx"] = "idle"
        /\ pc'["rx"] \notin {"start", "enable"}
      BY <1>2, <1>4, AfterStore
  <2>2. pc["main"] = "sync" => /\ adv' => adv
                               /\ payload' = payload
                               /\ adv' /\ Parting => Parting'
      BY <1>2, <1>4, WindingDown
  <2>3. at' = "woken" => pc'["main"] = "sync" /\ (adv' => Parting')
      BY <1>1, <2>1, <2>2 DEF Resting
  <2>4. at' = "wait" /\ Match' => age' <= Spell \/ Parting'
    <3>1. CASE age <= Spell
        BY <2>1, <3>1
    <3>2. CASE ~(age <= Spell)
      <4>1. pc["main"] = "sync"
          BY <1>2, <3>2 DEF Awake
      <4> QED
          BY <1>1, <2>1, <2>2, <3>2, <4>1 DEF Resting, Match
    <3> QED
        BY <3>1, <3>2
  <2> QED
      BY <1>1, <1>2, <2>1, <2>3, <2>4 DEF Resting
<1> QED
    BY <1>3, <1>4

LEMMA RenewingFirmware ==
    ASSUME Sound, ClockInv, Awake, Renewing, Firmware
    PROVE  Renewing' \/ Announcing' \/ Serving'
<1>1. UNCHANGED <<at, gatt, spent>>
    BY FirmwareFrame DEF loop
<1>2. /\ \/ pc["main"] = "sync" /\ timer
         \/ pc["main"] \in {"measure", "load", "store"} /\ ~timer
      /\ pc["rx"] = "idle" /\ conns[Station] = "none" /\ NewData \notin status
      /\ at \in {"wait", "woken"}
    BY DEF Renewing, Measuring
<1>3. conns[Other] = "none"
    BY DEF Awake, Meddled
<1>4. ~\E c \in Clients : \/ Radio!DisconnectedCheck(c)
                          \/ Radio!DisconnectedStop(c)
                          \/ Radio!Unlist(c)
    BY <1>2, <1>3 DEF Clients, Radio!DisconnectedCheck,
       Radio!DisconnectedStop, Radio!Unlist
<1>5. ~TimerExpires
    BY <1>2, Times DEF Awake, TimerExpires, Radio!TimerExpires
<1>6. Measure \/ (Threads /\ (Radio!MainLoad \/ Radio!MainStore \/ Radio!MainSync))
    BY <1>2, <1>4, <1>5 DEF Awake, Firmware, Boot, Threads, Radio!MainBoot,
       Radio!MainCopy, Radio!MainSend, Radio!MainCheck, Radio!MainCount,
       Radio!MainStart, Radio!MainEnable, Radio!MainStop, Radio!RxUpdate,
       Radio!RxCheck, Radio!RxStart, Radio!RxEnable, Radio!RxStop, Radio!BtReady
<1>7. /\ UNCHANGED <<adv, payload, conns, age>>
      /\ ~Match' /\ (at' = "woken" => ~adv')
  <2>1. UNCHANGED <<adv, payload, conns, age>>
      BY <1>6 DEF Measure, Threads, Radio!MainMeasure, Radio!MainLoad,
         Radio!MainStore, Radio!MainSync
  <2> QED
      BY <1>1, <2>1 DEF Renewing, Match
<1>8. CASE Measure
  <2>1. UNCHANGED <<timer, status>> /\ pc["main"] = "measure"
        /\ pc'["main"] = "load" /\ pc'["rx"] = "idle"
      BY <1>2, <1>8, Shape DEF Measure, Radio!MainMeasure, Radio!Goto
  <2> QED
      BY <1>1, <1>2, <1>7, <2>1 DEF Renewing, Measuring
<1>9. CASE Threads /\ Radio!MainLoad
  <2>1. UNCHANGED <<timer, status>> /\ pc["main"] = "load"
        /\ pc'["main"] = "store" /\ pc'["rx"] = "idle"
      BY <1>2, <1>9, Shape DEF Radio!MainLoad, Radio!Goto
  <2> QED
      BY <1>1, <1>2, <1>7, <2>1 DEF Renewing, Measuring
<1>10. CASE Threads /\ Radio!MainSync
  <2>1. /\ UNCHANGED <<unread, status>> /\ pc["main"] = "sync" /\ ~timer'
        /\ pc'["main"] = "measure" /\ pc'["rx"] = "idle"
      BY <1>2, <1>10, Shape DEF Threads, history, Radio!MainSync, Radio!Goto
  <2> QED
      BY <1>1, <1>2, <1>7, <2>1 DEF Renewing, Measuring
<1>11. CASE Threads /\ Radio!MainStore
  <2>1. /\ ~timer' /\ NewData \in status' /\ pc["main"] = "store"
        /\ pc'["main"] = "copy" /\ pc'["rx"] = "idle"
      BY <1>2, <1>11, Shape DEF Radio!MainStore, Radio!Goto, NewData
  <2>2. age' <= Spell
      BY <1>7, <2>1 DEF Awake
  <2>3. CASE at = "wait"
      BY <1>1, <1>2, <1>7, <2>1, <2>2, <2>3 DEF Announcing
  <2>4. CASE at = "woken"
    <3>1. age' <= Spell + spent'
        BY <1>1, <1>7, <2>2, Times DEF ClockInv
    <3>2. ~Linked(Station)'
        BY <1>2, <1>7 DEF Linked
    <3> QED
        BY <1>1, <2>1, <2>4, <3>1, <3>2 DEF Serving, Measuring
  <2> QED
      BY <1>2, <2>3, <2>4
<1> QED
    BY <1>6, <1>8, <1>9, <1>10, <1>11

LEMMA AnnouncingFirmware ==
    ASSUME Sound, ClockInv, Awake, Announcing, Firmware
    PROVE  Announcing'
<1>1. UNCHANGED <<at, gatt, spent>>
    BY FirmwareFrame DEF loop
<1>2. ~Meddled /\ Ready /\ ~Measuring
    BY DEF Awake, Announcing, Ready, Measuring
<1>3. /\ Ready'
      /\ Match => Match'
      /\ pc'["main"] = "sync" /\ pc["main"] # "sync" => Match'
    BY <1>2, ReadyMain DEF Announcing
<1>4. age # Period /\ ~timer
    BY Times DEF Announcing
<1>5. /\ ~timer' /\ ~Measuring' /\ age' = age /\ status' = status
      /\ conns'[Station] = "none"
    BY <1>2, <1>4, AfterStore DEF Announcing
<1>6. pc'["main"] \in {"copy", "send", "check", "start", "enable", "sync"}
    BY <1>2, <1>3, <1>4, AfterStore DEF Ready
<1> QED
    BY <1>1, <1>3, <1>5, <1>6 DEF Announcing, Ready

\* The station is found well only by new data that is its own to read.
LEMMA SteadyFound ==
    ASSUME Sound, ClockInv, SteadyInv, Found, steady'
    PROVE  Awake' /\ (Serving' \/ Resting')
<1>1. /\ at = "wait" /\ Match /\ at' = "woken" /\ spent' = 0
      /\ UNCHANGED <<firmware, age, gatt, unread>>
    BY DEF Found
<1>2. Awake' <=> Awake
    BY <1>1 DEF Awake, Meddled, Littered, firmware
<1>3. steady \/ (~Meddled /\ Prompt /\ (gatt \/ ~Linked(Station)))
    BY DEF Found
<1>4. ASSUME Awake, age <= Spell, ~timer, ~Measuring, gatt \/ ~Linked(Station)
      PROVE  Awake' /\ (Serving' \/ Resting')
  <2>1. age' <= Spell + spent' /\ ~timer' /\ ~Measuring'
      BY <1>1, <1>4, Times DEF ClockInv, Measuring, firmware
  <2>2. gatt' \/ ~Linked(Station)'
      BY <1>1, <1>4 DEF Linked, firmware
  <2> QED
      BY <1>1, <1>2, <1>4, <2>1, <2>2 DEF Serving
<1>5. CASE ~steady
  <2>1. ~Meddled /\ Prompt /\ (gatt \/ ~Linked(Station))
      BY <1>3, <1>5
  <2>2. bt = "ready" /\ pc["main"] # "boot"
      BY <1>1 DEF Match, Sound, ClockInv, Radio!Usable
  <2> QED
      BY <1>4, <2>1, <2>2 DEF Prompt, Awake, Measuring
<1>6. CASE steady
  <2>1. Awake /\ (Resting \/ Announcing)
      BY <1>1, <1>6 DEF SteadyInv, Serving, Renewing
  <2>2. CASE Announcing
      BY <1>4, <2>1, <2>2 DEF Announcing, Linked, Measuring
  <2>3. CASE Resting /\ age <= Spell
      BY <1>4, <2>1, <2>3 DEF Resting
  <2>4. CASE Resting /\ ~(age <= Spell)
    <3>1. pc["main"] = "sync" /\ Parting
        BY <1>1, <2>1, <2>4 DEF Resting, Awake
    <3>2. Resting'
        BY <1>1, <2>4, <3>1 DEF Resting, Parting, Measuring, Linked, firmware
    <3> QED
        BY <1>2, <2>1, <3>2
  <2> QED
      BY <2>1, <2>2, <2>3, <2>4
<1> QED
    BY <1>5, <1>6

\* The other steps of the station's loop.
LEMMA SteadyLoop ==
    ASSUME Sound, ClockInv, steady, SteadyInv, Loop, ~Found, steady'
    PROVE  Awake' /\ (Serving' \/ Resting')
<1>1. Awake /\ (Serving \/ Resting \/ Renewing \/ Announcing)
    BY DEF SteadyInv
<1>2. \/ Connect \/ Reconnect \/ AlreadyConnected \/ Read \/ Clear \/ Disconnect
      \/ ReadFails \/ ClearFails
    BY DEF Loop, TimedOut, DiscoverFails, ConnectFails, DisconnectFails, Upset
<1>3. CASE Connect \/ Reconnect \/ AlreadyConnected
  <2>1. /\ at \in {"woken", "connect"} /\ at' = "read"
        /\ UNCHANGED <<age, spent, unread, timer, status, held, payload, bt, pc>>
      BY <1>3 DEF Connect, Reconnect, AlreadyConnected, Connecting, Radio!Connect,
         firmware, history
  <2>2. conns'[Other] = conns[Other]
      BY <1>3, Shape, ClientsAssumption
         DEF Connect, Reconnect, AlreadyConnected, Radio!Connect, Clients, firmware
  <2>3. Awake'
      BY <1>1, <2>1, <2>2 DEF Awake, Meddled, Littered
  <2>4. Serving
    <3>1. Linked(Station) \/ (adv /\ conns[Station] = "none")
        BY <1>3 DEF Connect, Reconnect, AlreadyConnected, Radio!Connect
    <3> QED
        BY <1>1, <2>1, <3>1 DEF Resting, Renewing, Announcing, Parting, Linked
  <2>5. gatt'
    <3>1. CASE Connect \/ Reconnect
        BY <3>1 DEF Connect, Reconnect
    <3>2. CASE AlreadyConnected
        BY <2>1, <2>4, <3>2 DEF AlreadyConnected, Serving
    <3> QED
        BY <1>3, <3>1, <3>2
  <2>6. Serving'
      BY <2>1, <2>4, <2>5 DEF Serving, Measuring
  <2> QED
      BY <2>3, <2>6
<1>4. CASE Read \/ ReadFails
  <2>1. at = "read" /\ at' = "clear"
      BY <1>4 DEF Read, ReadFails
  <2>2. Serving /\ gatt
      BY <1>1, <2>1 DEF Serving, Resting, Renewing, Announcing
  <2>3. Read
      BY <1>4, <2>2 DEF ReadFails
  <2>4. /\ UNCHANGED <<age, spent, gatt, timer, status, held, payload, bt, pc>>
        /\ unread' = FALSE
      BY <2>3 DEF Read, Radio!Collect
  <2>5. conns'[Other] = conns[Other]
      BY <2>3, Shape, ClientsAssumption DEF Read, Radio!Collect, Clients
  <2>6. Awake'
      BY <1>1, <2>4, <2>5 DEF Awake, Meddled, Littered
  <2>7. Serving'
      BY <2>1, <2>2, <2>4 DEF Serving, Measuring
  <2> QED
      BY <2>6, <2>7
<1>5. CASE Clear \/ ClearFails
  <2>1. at = "clear" /\ at' = "disconnect"
      BY <1>5 DEF Clear, ClearFails
  <2>2. Serving /\ gatt
      BY <1>1, <2>1 DEF Serving, Resting, Renewing, Announcing
  <2>3. Clear
      BY <1>5, <2>2 DEF ClearFails
  <2>4. /\ UNCHANGED <<age, spent, gatt, unread, timer, held, bt>>
        /\ pc'["main"] = pc["main"] /\ pc'["rx"] = "check"
      BY <2>3, Shape DEF Clear, history, Radio!StatusWrite, Radio!Goto
  <2>5. conns'[Other] = conns[Other]
      BY <2>3, Shape, ClientsAssumption DEF Clear, Radio!StatusWrite, Clients
  <2>6. status' = {} /\ (payload' = {} \/ payload' = payload)
      BY <2>3, Shape DEF Clear, Radio!StatusWrite, Radio!Merged, ClearWrite,
         Radio!Bits, NewData
  <2>7. Awake'
      BY <1>1, <2>4, <2>5, <2>6 DEF Awake, Meddled, Littered
  <2>8. Serving'
      BY <2>1, <2>2, <2>4, <2>6 DEF Serving, Measuring
  <2> QED
      BY <2>7, <2>8
<1>6. CASE Disconnect
  <2>1. /\ at = "disconnect" /\ at' = "wait" /\ spent' = 0
        /\ UNCHANGED <<age, unread, timer, status, held, payload, adv, bt, pc>>
      BY <1>6 DEF Disconnect, NextRound, Radio!LinkDown
  <2>2. conns'[Other] = conns[Other] /\ conns'[Station] = "closing"
      BY <1>6, Shape, ClientsAssumption DEF Disconnect, Radio!LinkDown, Clients
  <2>3. Serving
      BY <1>1, <2>1 DEF Serving, Resting, Renewing, Announcing
  <2>4. Awake'
      BY <1>1, <2>1, <2>2 DEF Awake, Meddled, Littered
  <2>5. age' <= Spell + SessionLimit
      BY <2>1, <2>3, Times DEF Serving, ClockInv
  <2>6. Resting'
      BY <2>1, <2>2, <2>3, <2>5 DEF Serving, Resting, Measuring, Linked, Parting
  <2> QED
      BY <2>4, <2>6
<1> QED
    BY <1>2, <1>3, <1>4, <1>5, <1>6

LEMMA SteadyTick ==
    ASSUME Sound, ClockInv, steady, SteadyInv, Tick
    PROVE  Awake' /\ (Serving' \/ Resting' \/ Renewing')
<1>1. Awake /\ (Serving \/ Resting \/ Renewing \/ Announcing)
    BY DEF SteadyInv
<1>2. /\ Settled /\ ~(at = "wait" /\ Match)
      /\ age' = age + 1 /\ spent' = spent + 1
      /\ UNCHANGED <<at, gatt, unread>> /\ UNCHANGED firmware
    BY DEF Tick, history
<1>3. Awake'
  <2>1. ~Meddled' /\ bt' = "ready" /\ pc'["main"] # "boot"
      BY <1>1, <1>2 DEF Awake, Meddled, Littered, firmware
  <2>2. timer' \/ pc'["main"] # "sync" => age' <= Spell
      BY <1>2, Times DEF Settled, firmware, ClockInv, Awake
  <2> QED
      BY <2>1, <2>2 DEF Awake
<1>4. CASE Serving
  <2>1. at' # "wait" /\ age' <= Spell + spent'
      BY <1>2, <1>4, Times DEF Serving, ClockInv
  <2> QED
      BY <1>2, <1>3, <1>4, <2>1 DEF Serving, Measuring, Linked, firmware
<1>5. CASE Resting
  <2>1. pc["rx"] = "idle" /\ conns[Station] = "none"
      BY <1>2, <1>5, Shape DEF Settled, Clients, Resting, Linked, Radio!ConnStates
  <2>2. ~Match' \/ at' # "wait"
      BY <1>2 DEF Match, firmware
  <2> QED
      BY <1>2, <1>3, <1>5, <2>1, <2>2
         DEF Resting, Measuring, Linked, Parting, firmware
<1>6. CASE Renewing
    BY <1>2, <1>3, <1>6 DEF Renewing, Measuring, Match, firmware
<1>7. CASE Announcing
    BY <1>2, <1>7 DEF Announcing, Settled
<1> QED
    BY <1>1, <1>4, <1>5, <1>6, <1>7

LEMMA SteadyFirmware ==
    ASSUME Sound, ClockInv, steady, SteadyInv, Firmware
    PROVE  Awake' /\ (Serving' \/ Resting' \/ Renewing' \/ Announcing')
BY AwakeFirmware, ServingFirmware, RestingFirmware, RenewingFirmware,
   AnnouncingFirmware DEF SteadyInv

LEMMA SteadyStep == Sound /\ ClockInv /\ SteadyInv /\ [Next]_vars => SteadyInv'
<1> SUFFICES ASSUME Sound, ClockInv, SteadyInv, [Next]_vars, steady'
             PROVE  Awake' /\ (Serving' \/ Resting' \/ Renewing' \/ Announcing')
    BY DEF SteadyInv
<1>1. CASE Found
    BY <1>1, SteadyFound
<1>2. CASE ~Found
  <2>1. steady
      BY <1>2, FirmwareFrame DEF Next, Loop, TimedOut, Connect, Reconnect,
         AlreadyConnected, DiscoverFails, ConnectFails, Read, ReadFails, Clear, ClearFails, Disconnect,
         DisconnectFails, Upset, history, Tick, Faults, Crash, OtherConnects,
         OtherWrites, OtherLeaves, Reboot, LinkLost, FaultsEnd, Disturbance, vars
  <2>2. CASE Loop
      BY <1>2, <2>1, <2>2, SteadyLoop
  <2>3. CASE Firmware
      BY <2>1, <2>3, SteadyFirmware
  <2>4. CASE Tick
      BY <2>1, <2>4, SteadyTick
  <2>5. CASE Faults
    <3>1. FaultsEnd
        BY <2>5 DEF Faults, Crash, OtherConnects, OtherWrites, OtherLeaves, Reboot,
           LinkLost, Disturbance, Upset
    <3> QED
        BY <2>1, <3>1 DEF FaultsEnd, firmware, loop, history, SteadyInv, Awake,
           Serving, Resting, Renewing, Announcing, Measuring, Parting, Match,
           Linked, Meddled, Littered
  <2>6. CASE UNCHANGED vars
      BY <2>1, <2>6 DEF vars, firmware, loop, history, SteadyInv, Awake,
         Serving, Resting, Renewing, Announcing, Measuring, Parting, Match,
         Linked, Meddled, Littered
  <2> QED
      BY <2>2, <2>3, <2>4, <2>5, <2>6 DEF Next
<1> QED
    BY <1>1, <1>2

LEMMA SteadyAlways == Spec => []SteadyInv
BY SteadyInit, SteadyStep, SoundAlways, ClockAlways, PTL DEF Spec

\* While all goes well the base station reads every measurement before the
\* sensor's main loop replaces it.
THEOREM NothingSkipped == Spec => NoneSkipped
<1>1. SteadyInv /\ steady /\ pc["main"] = "measure" => ~unread
    BY DEF SteadyInv, Serving, Resting, Renewing, Announcing, Measuring
<1>2. Spec => [][steady /\ pc["main"] = "measure" /\ pc'["main"] = "load"
                   => ~unread]_vars
    BY <1>1, SteadyAlways, PTL DEF Spec
<1> QED
    BY <1>2 DEF NoneSkipped

\* While all goes well the base station stamps a point within a pass of the
\* expiry of update_timer that its measurement began with, the first time it
\* reads it and any further time.
THEOREM StampsFit == Spec => StampFits
<1>1. SteadyInv /\ steady /\ at = "read" =>
          /\ ~timer /\ pc["main"] \notin {"measure", "load", "store"}
          /\ age <= Spell + spent
    BY DEF SteadyInv, Serving, Resting, Renewing, Announcing, Measuring
<1>2. Spec => [][steady /\ at = "read" /\ at' = "clear"
                   => /\ ~timer /\ pc["main"] \notin {"measure", "load", "store"}
                      /\ age <= Spell + spent]_vars
    BY <1>1, SteadyAlways, PTL DEF Spec
<1> QED
    BY <1>2 DEF StampFits
=============================================================================
