------------------------- MODULE AdvertisingProofs -------------------------
(***************************************************************************)
(* The safety properties of Advertising hold for every set of clients,     *)
(* number of connection slots and set of writes.  Each is strengthened to  *)
(* an inductive invariant, which every action is shown to preserve.        *)
(***************************************************************************)
EXTENDS Advertising, FiniteSetTheorems, TLAPS

----------------------------------------------------------------------------
(* Types. *)

LEMMA TypeInit == Init => TypeOK
BY DEF Init, TypeOK, Bits, BtStates, ConnStates, Threads, MainStates,
       RxStates, DataStates, Causes

LEMMA TypeStep == TypeOK /\ [Next]_vars => TypeOK'
<1> SUFFICES ASSUME TypeOK, [Next]_vars PROVE TypeOK'
    OBVIOUS
<1> USE DEF TypeOK
<1>1. CASE MainBoot BY <1>1 DEF MainBoot, BtStates, Goto, Threads, MainStates
<1>2. CASE MainMeasure
    BY <1>2 DEF MainMeasure, DataStates, Goto, Threads, MainStates
<1>3. CASE MainLoad BY <1>3 DEF MainLoad, Goto, Threads, MainStates
<1>4. CASE MainStore BY <1>4 DEF MainStore, Bits, Goto, Threads, MainStates
<1>5. CASE MainCopy BY <1>5 DEF MainCopy, Goto, Threads, MainStates
<1>6. CASE MainSend BY <1>6 DEF MainSend, Goto, Threads, MainStates
<1>7. CASE MainCheck BY <1>7 DEF MainCheck, Goto, Threads, MainStates
<1>8. CASE MainCount BY <1>8 DEF MainCount, Goto, Threads, MainStates
<1>9. CASE MainStart BY <1>9 DEF MainStart, Goto, Threads, MainStates
<1>10. CASE MainEnable
    BY <1>10 DEF MainEnable, Enabled, Causes, Goto, Threads, MainStates
<1>11. CASE MainStop
    BY <1>11 DEF MainStop, Stopped, Causes, Goto, Threads, MainStates
<1>12. CASE MainSync BY <1>12 DEF MainSync, Goto, Threads, MainStates
<1>13. CASE RxCheck BY <1>13 DEF RxCheck, Goto, Threads, RxStates
<1>14. CASE RxStart BY <1>14 DEF RxStart, Goto, Threads, RxStates
<1>15. CASE RxEnable
    BY <1>15 DEF RxEnable, Enabled, Causes, Goto, Threads, RxStates
<1>16. CASE RxStop BY <1>16 DEF RxStop, Stopped, Causes, Goto, Threads, RxStates
<1>17. CASE BtReady BY <1>17 DEF BtReady, BtStates
<1>18. CASE TimerExpires BY <1>18 DEF TimerExpires
<1>19. CASE Reboot
    BY <1>19 DEF Reboot, BtStates, ConnStates, Threads, MainStates, RxStates,
           DataStates, Causes
<1>20. ASSUME NEW c \in Clients, DisconnectedCheck(c) PROVE TypeOK'
    BY <1>20 DEF DisconnectedCheck, ConnStates
<1>21. ASSUME NEW c \in Clients, DisconnectedStop(c) PROVE TypeOK'
    BY <1>21 DEF DisconnectedStop, Stopped, ConnStates, Causes
<1>22. ASSUME NEW c \in Clients, Unlist(c) PROVE TypeOK'
    BY <1>22 DEF Unlist, ConnStates
<1>23. ASSUME NEW c \in Clients, Connect(c) PROVE TypeOK'
    BY <1>23 DEF Connect, ConnStates, Causes
<1>24. ASSUME NEW c \in Clients, Collect(c) PROVE TypeOK'
    BY <1>24 DEF Collect, ConnStates, DataStates
<1>25. ASSUME NEW c \in Clients, LinkDown(c) PROVE TypeOK'
    BY <1>25 DEF LinkDown, ConnStates
<1>26. ASSUME NEW c \in Clients, NEW w \in Writes, StatusWrite(c, w)
       PROVE  TypeOK'
    <2>1. w.mask \subseteq Bits /\ w.value \subseteq Bits
        BY WritesAssumption
    <2> QED BY <1>26, <2>1 DEF StatusWrite, Merged, ConnStates, Goto, Threads, RxStates
<1>27. CASE UNCHANGED vars BY <1>27 DEF vars
<1> QED
    BY <1>1, <1>2, <1>3, <1>4, <1>5, <1>6, <1>7, <1>8, <1>9, <1>10, <1>11,
       <1>12, <1>13, <1>14, <1>15, <1>16, <1>17, <1>18, <1>19, <1>20, <1>21,
       <1>22, <1>23, <1>24, <1>25, <1>26, <1>27
       DEF Next, Main, RxUpdate, WorkQueue, Environment

\* Every variable stays in its range, in every behaviour of the firmware.
THEOREM TypeCorrect == Spec => []TypeOK
BY TypeInit, TypeStep, PTL DEF Spec

----------------------------------------------------------------------------
(* A measurement nobody overlapped stays announced.  Inductive: while it is *)
(* fresh no client is past its reads, so no client may clear NEW_DATA.      *)

FreshInv == /\ FreshDataAnnounced
            /\ data = "fresh" => \A c \in Clients : conns[c] # "read"

LEMMA FreshInit == Init => FreshInv
BY DEF Init, FreshInv, FreshDataAnnounced

LEMMA FreshStep == TypeOK /\ FreshInv /\ [Next]_vars => FreshInv'
<1> SUFFICES ASSUME TypeOK, FreshInv, [Next]_vars PROVE FreshInv'
    OBVIOUS
<1> USE DEF FreshInv, FreshDataAnnounced
<1>1. CASE MainBoot
    BY <1>1 DEF MainBoot, Goto, TypeOK, Threads
<1>2. CASE MainMeasure
    BY <1>2 DEF MainMeasure, Goto, TypeOK, Threads
<1>3. CASE MainLoad \/ MainStore
    BY <1>3 DEF MainLoad, MainStore, Goto, TypeOK, Threads
<1>4. CASE MainCopy \/ MainSend \/ MainCheck \/ MainCount \/ MainStart
           \/ MainEnable \/ MainStop \/ MainSync
    <2>1. UNCHANGED <<status, conns, data>> /\ pc["main"] \notin {"load", "store"}
        BY <1>4 DEF MainCopy, MainSend, MainCheck, MainCount, MainStart,
                    MainEnable, MainStop, MainSync
    <2> QED BY <2>1
<1>5. CASE RxCheck \/ RxStart \/ RxEnable \/ RxStop
    <2>1. UNCHANGED <<status, conns, data>> /\ pc'["main"] = pc["main"]
        BY <1>5 DEF RxCheck, RxStart, RxEnable, RxStop, Goto, TypeOK, Threads
    <2> QED BY <2>1
<1>6. CASE BtReady \/ TimerExpires \/ UNCHANGED vars
    <2>1. UNCHANGED <<status, conns, data, pc>>
        BY <1>6 DEF BtReady, TimerExpires, vars
    <2> QED BY <2>1
<1>7. CASE Reboot BY <1>7 DEF Reboot
<1>8. ASSUME NEW c \in Clients,
             \/ DisconnectedCheck(c) \/ DisconnectedStop(c) \/ Unlist(c)
             \/ Connect(c) \/ LinkDown(c)
      PROVE  FreshInv'
    <2>1. /\ UNCHANGED <<status, data, pc>>
          /\ \A d \in Clients : conns'[d] = "read" => conns[d] = "read"
        BY <1>8 DEF DisconnectedCheck, DisconnectedStop, Unlist, Connect,
                    LinkDown, TypeOK
    <2> QED BY <2>1
<1>9. ASSUME NEW c \in Clients, Collect(c) PROVE FreshInv'
    BY <1>9 DEF Collect
<1>10. ASSUME NEW c \in Clients, NEW w \in Writes, StatusWrite(c, w)
       PROVE  FreshInv'
    <2>1. /\ UNCHANGED data
          /\ pc'["main"] = pc["main"]
          /\ \A d \in Clients : conns'[d] = "read" => conns[d] = "read"
        BY <1>10 DEF StatusWrite, Goto, TypeOK, Threads
    <2>2. data = "fresh" => NewData \notin w.mask \ w.value
        BY <1>10 DEF StatusWrite, MayWrite
    <2>3. data = "fresh" /\ NewData \in status => NewData \in status'
        BY <1>10, <2>2 DEF StatusWrite, Merged
    <2> QED BY <2>1, <2>3
<1> QED
    BY <1>1, <1>2, <1>3, <1>4, <1>5, <1>6, <1>7, <1>8, <1>9, <1>10
       DEF Next, Main, RxUpdate, WorkQueue, Environment

\* No measurement that stands apart from every client's collection loses its
\* announcement before a client has read it.
THEOREM FreshAnnounced == Spec => []FreshDataAnnounced
<1>1. FreshInv => FreshDataAnnounced BY DEF FreshInv
<1> QED BY TypeCorrect, FreshInit, FreshStep, <1>1, PTL DEF Spec

----------------------------------------------------------------------------
(* Nothing is served before the first measurement.  Inductive: until then   *)
(* the main thread has not come to the update and no client is connected.   *)

ServedInv ==
    data = "none" => /\ ~adv
                     /\ \A c \in Clients : conns[c] = "none"
                     /\ pc["main"] \in {"boot", "measure"}
                     /\ pc["rx"] = "idle"

LEMMA ServedInit == Init => ServedInv
BY DEF Init, ServedInv, Threads

LEMMA ServedStep == TypeOK /\ ServedInv /\ [Next]_vars => ServedInv'
<1> SUFFICES ASSUME TypeOK, ServedInv, [Next]_vars PROVE ServedInv'
    OBVIOUS
<1> USE DEF ServedInv
<1>1. CASE MainBoot BY <1>1 DEF MainBoot, Goto, TypeOK, Threads
<1>2. CASE MainMeasure BY <1>2 DEF MainMeasure
<1>3. CASE Reboot BY <1>3 DEF Reboot, Threads
<1>4. CASE MainLoad \/ MainStore \/ MainCopy \/ MainSend \/ MainCheck
           \/ MainCount \/ MainStart \/ MainEnable \/ MainStop \/ MainSync
           \/ RxCheck \/ RxStart \/ RxEnable \/ RxStop
    <2>1. data # "none" /\ data' = data
        BY <1>4 DEF MainLoad, MainStore, MainCopy, MainSend, MainCheck,
                    MainCount, MainStart, MainEnable, MainStop, MainSync,
                    RxCheck, RxStart, RxEnable, RxStop
    <2> QED BY <2>1
<1>5. CASE BtReady \/ TimerExpires \/ UNCHANGED vars
    <2>1. UNCHANGED <<adv, conns, data, pc>>
        BY <1>5 DEF BtReady, TimerExpires, vars
    <2> QED BY <2>1
<1>6. ASSUME NEW c \in Clients,
             \/ DisconnectedCheck(c) \/ DisconnectedStop(c) \/ Unlist(c)
             \/ Connect(c) \/ LinkDown(c) \/ Collect(c)
             \/ \E w \in Writes : StatusWrite(c, w)
      PROVE  ServedInv'
    <2>1. data # "none" /\ data' # "none"
        BY <1>6 DEF DisconnectedCheck, DisconnectedStop, Unlist, Connect,
                    LinkDown, Collect, StatusWrite, MayWrite
    <2> QED BY <2>1
<1> QED
    BY <1>1, <1>2, <1>3, <1>4, <1>5, <1>6
       DEF Next, Main, RxUpdate, WorkQueue, Environment

\* Whoever finds the sensor finds it after its first pass: advertising and
\* connections come after run() in main.c has gone through its sensors once.
THEOREM ServedAfterMeasure == Spec => []ServedOnlyAfterMeasure
<1>1. ServedInv => ServedOnlyAfterMeasure
    BY DEF ServedInv, ServedOnlyAfterMeasure
<1> QED BY TypeCorrect, ServedInit, ServedStep, <1>1, PTL DEF Spec

----------------------------------------------------------------------------
(* The connection count. *)

LEMMA ListedFinite == IsFiniteSet(Listed) /\ ConnCount \in Nat
BY ClientsAssumption, FS_Subset, FS_CardinalityType DEF Listed, ConnCount

\* The count does not grow when the list does not.
LEMMA CountMonotone ==
    ASSUME Listed' \subseteq Listed
    PROVE  ConnCount' \in Nat /\ ConnCount' <= ConnCount
BY ListedFinite, FS_Subset, FS_CardinalityType DEF ConnCount

\* A count above one means that somebody else is in the list.
LEMMA SomebodyElse ==
    ASSUME NEW c \in Clients, ~(ConnCount <= 1)
    PROVE  \E d \in Listed : d # c
<1>1. SUFFICES ASSUME Listed \subseteq {c} PROVE FALSE
    BY DEF Listed
<1>2. IsFiniteSet({c}) /\ Cardinality({c}) = 1
    BY FS_Singleton
<1> QED BY <1>1, <1>2, FS_Subset DEF ConnCount

----------------------------------------------------------------------------
(* Silent when idle.  Inductive: while advertising that new data started    *)
(* goes on after the data was acknowledged, some client's callback is still *)
(* to come, and it will stop advertising or leave that to another client.   *)

StopsLater == {"up", "read", "closing", "stopping"}

IdleInv ==
    /\ pc["main"] = "boot" => bt = "off"
    /\ ~Usable => ~adv /\ why = "never"
    /\ adv => why \in {"new data", "stale check"}
    /\ adv /\ why = "new data" /\ NewData \notin status /\ bt = "ready"
        => \E c \in Clients : conns[c] \in StopsLater

LEMMA IdleInit == Init => IdleInv
BY DEF Init, IdleInv, Threads, Usable

LEMMA IdleStep == TypeOK /\ IdleInv /\ [Next]_vars => IdleInv'
<1> SUFFICES ASSUME TypeOK, IdleInv, [Next]_vars PROVE IdleInv'
    OBVIOUS
<1> USE DEF IdleInv
<1>1. CASE MainBoot
    BY <1>1 DEF MainBoot, Goto, TypeOK, Threads, Usable
<1>2. CASE MainStore
    BY <1>2 DEF MainStore, Goto, TypeOK, Threads, Usable
<1>3. CASE MainMeasure \/ MainLoad \/ MainCopy \/ MainSend \/ MainCheck
           \/ MainCount \/ MainStart \/ MainSync
    <2>1. UNCHANGED <<bt, status, adv, conns, why>> /\ pc'["main"] # "boot"
        BY <1>3 DEF MainMeasure, MainLoad, MainCopy, MainSend, MainCheck,
                    MainCount, MainStart, MainSync, Goto, TypeOK, Threads
    <2> QED BY <2>1 DEF Usable
<1>4. CASE MainEnable \/ RxEnable
    <2>1. PICK bits : Enabled(bits)
        BY <1>4 DEF MainEnable, RxEnable
    <2>2. /\ UNCHANGED <<bt, status, conns>>
          /\ pc'["main"] = "boot" => pc["main"] = "boot"
        BY <1>4 DEF MainEnable, RxEnable, Goto, TypeOK, Threads
    <2> QED BY <2>1, <2>2 DEF Enabled, CanStart, Usable
<1>5. CASE MainStop \/ RxStop
    <2>1. Stopped
        BY <1>5 DEF MainStop, RxStop
    <2>2. /\ UNCHANGED <<bt, status, conns>>
          /\ pc'["main"] = "boot" => pc["main"] = "boot"
        BY <1>5 DEF MainStop, RxStop, Goto, TypeOK, Threads
    <2> QED BY <2>1, <2>2 DEF Stopped, Usable
<1>6. CASE RxCheck \/ RxStart
    <2>1. UNCHANGED <<bt, status, adv, conns, why>> /\ pc'["main"] = pc["main"]
        BY <1>6 DEF RxCheck, RxStart, Goto, TypeOK, Threads
    <2> QED BY <2>1 DEF Usable
<1>7. CASE BtReady
    <2>1. bt = "enabling" /\ UNCHANGED <<adv, why, pc>>
        BY <1>7 DEF BtReady
    <2> QED BY <2>1 DEF Usable
<1>8. CASE TimerExpires \/ UNCHANGED vars
    <2>1. UNCHANGED <<bt, status, adv, conns, why, pc>>
        BY <1>8 DEF TimerExpires, vars
    <2> QED BY <2>1 DEF Usable
<1>9. CASE Reboot
    BY <1>9 DEF Reboot, Threads, Usable
<1>10. ASSUME NEW c \in Clients, DisconnectedCheck(c) PROVE IdleInv'
    <2>1. UNCHANGED <<bt, status, adv, why, pc>>
        BY <1>10 DEF DisconnectedCheck
    <2>2. ASSUME bt = "ready", NewData \notin status
          PROVE  \E d \in Clients : conns'[d] \in StopsLater
        <3>1. CASE ConnCount <= 1
            BY <1>10, <2>2, <3>1 DEF DisconnectedCheck, StopsLater, TypeOK
        <3>2. CASE ~(ConnCount <= 1)
            <4>1. PICK d \in Listed : d # c
                BY <3>2, SomebodyElse
            <4>2. /\ d \in Clients
                  /\ conns[d] \in ConnStates \ {"none", "stopping", "leaving"}
                  /\ conns'[d] = conns[d]
                BY <1>10, <4>1 DEF DisconnectedCheck, Listed, TypeOK
            <4> QED BY <4>2 DEF StopsLater, ConnStates
        <3> QED BY <3>1, <3>2
    <2> QED BY <2>1, <2>2 DEF Usable
<1>11. ASSUME NEW c \in Clients, DisconnectedStop(c) PROVE IdleInv'
    BY <1>11 DEF DisconnectedStop, Stopped, Usable
<1>12. ASSUME NEW c \in Clients, Unlist(c) \/ LinkDown(c) \/ Collect(c)
       PROVE  IdleInv'
    <2>1. /\ UNCHANGED <<bt, status, adv, why, pc>>
          /\ \A d \in Clients : conns[d] \in StopsLater => conns'[d] \in StopsLater
        BY <1>12 DEF Unlist, LinkDown, Collect, StopsLater, TypeOK
    <2> QED BY <2>1 DEF Usable
<1>13. ASSUME NEW c \in Clients, Connect(c) PROVE IdleInv'
    BY <1>13 DEF Connect, Usable
<1>14. ASSUME NEW c \in Clients, NEW w \in Writes, StatusWrite(c, w)
       PROVE  IdleInv'
    <2>1. /\ UNCHANGED <<bt, adv, why>>
          /\ pc'["main"] = pc["main"]
          /\ conns'[c] \in StopsLater
        BY <1>14 DEF StatusWrite, MayWrite, StopsLater, Goto, TypeOK, Threads
    <2> QED BY <2>1 DEF Usable
<1> QED
    BY <1>1, <1>2, <1>3, <1>4, <1>5, <1>6, <1>7, <1>8, <1>9, <1>10, <1>11,
       <1>12, <1>13, <1>14
       DEF Next, Main, RxUpdate, WorkQueue, Environment

LEMMA IdleAlways == Spec => []IdleInv
BY TypeCorrect, IdleInit, IdleStep, PTL DEF Spec

\* The radio is off when there is nothing to collect and nobody is there,
\* but for a start decided on an old value of the status word.
THEOREM Silent == Spec => []SilentWhenIdle
<1>1. IdleInv => SilentWhenIdle
    BY DEF IdleInv, SilentWhenIdle, StopsLater, Listed
<1> QED BY IdleAlways, <1>1, PTL

----------------------------------------------------------------------------
(* Off the air only for cause.  Inductive: an acknowledged stop leaves a    *)
(* connection slot free, and as soon as NEW_DATA is set again some thread   *)
(* is on its way to bt_le_adv_start, which that free slot lets succeed.     *)

OnItsWay == \/ pc["main"] \in {"copy", "send", "check", "start", "enable"}
            \/ pc["rx"] \in {"check", "start", "enable"}

\* A context that is about to stop advertising found NEW_DATA clear; if it is
\* set now, it was set since.
RenewedInv == Stopping /\ NewData \in status => renewed

LEMMA RenewedInit == Init => RenewedInv
BY DEF Init, RenewedInv

LEMMA RenewedStep == TypeOK /\ RenewedInv /\ [Next]_vars => RenewedInv'
<1> SUFFICES ASSUME TypeOK, RenewedInv, [Next]_vars PROVE RenewedInv'
    OBVIOUS
<1> USE DEF RenewedInv, Stopping
<1>1. CASE MainStore \/ Reboot
    BY <1>1 DEF MainStore, Reboot
<1>2. CASE MainCheck
    BY <1>2 DEF MainCheck, Goto, TypeOK, Threads
<1>3. CASE MainBoot \/ MainMeasure \/ MainLoad \/ MainCopy \/ MainSend
           \/ MainCount \/ MainStart \/ MainEnable \/ MainStop \/ MainSync
    <2>1. /\ UNCHANGED <<status, conns, renewed>>
          /\ pc'["rx"] = pc["rx"]
          /\ pc'["main"] \in {"count", "stop"} => pc["main"] = "count"
        BY <1>3 DEF MainBoot, MainMeasure, MainLoad, MainCopy, MainSend,
                    MainCount, MainStart, MainEnable, MainStop, MainSync,
                    Goto, TypeOK, Threads
    <2> QED BY <2>1
<1>4. CASE RxCheck
    BY <1>4 DEF RxCheck, Goto, TypeOK, Threads
<1>5. CASE RxStart \/ RxEnable \/ RxStop
    <2>1. /\ UNCHANGED <<status, conns, renewed>>
          /\ pc'["main"] = pc["main"] /\ pc'["rx"] # "stop"
        BY <1>5 DEF RxStart, RxEnable, RxStop, Goto, TypeOK, Threads
    <2> QED BY <2>1
<1>6. CASE BtReady \/ TimerExpires \/ UNCHANGED vars
    <2>1. UNCHANGED <<status, conns, pc, renewed>>
        BY <1>6 DEF BtReady, TimerExpires, vars
    <2> QED BY <2>1
<1>7. ASSUME NEW c \in Clients, DisconnectedCheck(c) PROVE RenewedInv'
    BY <1>7 DEF DisconnectedCheck, TypeOK
<1>8. ASSUME NEW c \in Clients,
             \/ DisconnectedStop(c) \/ Unlist(c) \/ Connect(c)
             \/ Collect(c) \/ LinkDown(c)
      PROVE  RenewedInv'
    <2>1. /\ UNCHANGED <<status, pc, renewed>>
          /\ \A d \in Clients : conns'[d] = "stopping" => conns[d] = "stopping"
        BY <1>8 DEF DisconnectedStop, Unlist, Connect, Collect, LinkDown, TypeOK
    <2> QED BY <2>1
<1>9. ASSUME NEW c \in Clients, NEW w \in Writes, StatusWrite(c, w)
      PROVE  RenewedInv'
    <2>1. /\ pc'["main"] = pc["main"] /\ pc'["rx"] = "check"
          /\ \A d \in Clients : conns'[d] = "stopping" => conns[d] = "stopping"
        BY <1>9 DEF StatusWrite, Goto, TypeOK, Threads
    <2>2. NewData \in status' => NewData \in status \/ NewData \in w.value
        BY <1>9 DEF StatusWrite, Merged
    <2>3. renewed' = (renewed \/ NewData \in w.value)
        BY <1>9 DEF StatusWrite
    <2> QED BY <2>1, <2>2, <2>3
<1> QED
    BY <1>1, <1>2, <1>3, <1>4, <1>5, <1>6, <1>7, <1>8, <1>9
       DEF Next, Main, RxUpdate, WorkQueue, Environment

OffAirInv ==
    /\ ConnCount <= MaxConn
    /\ adv \/ why = "acknowledged" => ConnCount < MaxConn
    /\ ~adv => why \in {"never", "acknowledged", "stale stop", "connected"}
    /\ ~adv /\ why = "acknowledged" /\ NewData \in status /\ Usable => OnItsWay

LEMMA OffAirInit == Init => OffAirInv
<1> SUFFICES ASSUME Init PROVE OffAirInv
    OBVIOUS
<1>1. ConnCount = 0
    BY FS_EmptySet DEF Init, Listed, ConnCount
<1> QED BY <1>1, MaxConnAssumption DEF Init, OffAirInv

\* The list does not grow, the flag and the word keep their meaning, and no
\* thread leaves its way: nothing to worry about.
LEMMA OffAirFrame ==
    ASSUME OffAirInv, Listed' \subseteq Listed,
           UNCHANGED <<bt, adv, why>>,
           Usable /\ ~adv /\ NewData \in status' /\ why = "acknowledged" =>
               OnItsWay' \/ (NewData \in status /\ ~OnItsWay)
    PROVE  OffAirInv'
<1>1. ConnCount' \in Nat /\ ConnCount' <= ConnCount /\ ConnCount \in Nat
    BY CountMonotone, ListedFinite
<1>2. ConnCount <= MaxConn
    BY DEF OffAirInv
<1>3. ConnCount' <= MaxConn /\ (ConnCount < MaxConn => ConnCount' < MaxConn)
    BY <1>1, <1>2, MaxConnAssumption
<1> QED BY <1>3, Zenon DEF OffAirInv, Usable

LEMMA OffAirEnabled ==
    ASSUME OffAirInv, UNCHANGED <<bt, conns, status>>,
           NEW bits, Enabled(bits)
    PROVE  OffAirInv'
<1>1. ConnCount' = ConnCount /\ ConnCount \in Nat /\ Usable' = Usable
    BY ListedFinite DEF ConnCount, Listed, Usable
<1>2. CASE CanStart
    BY <1>1, <1>2 DEF Enabled, CanStart, OffAirInv
<1>3. CASE ~CanStart
    BY <1>1, <1>3 DEF Enabled, CanStart, OffAirInv
<1> QED BY <1>2, <1>3

LEMMA OffAirStopped ==
    ASSUME OffAirInv, Listed' \subseteq Listed, UNCHANGED <<bt, status>>,
           TypeOK, IdleInv, Stopped, NewData \in status => renewed,
           OnItsWay => OnItsWay'
    PROVE  OffAirInv'
<1>1. ConnCount' \in Nat /\ ConnCount' <= ConnCount /\ ConnCount \in Nat
    BY CountMonotone, ListedFinite
<1>2. ConnCount <= MaxConn
    BY DEF OffAirInv
<1>3. ConnCount' <= MaxConn /\ (ConnCount < MaxConn => ConnCount' < MaxConn)
    BY <1>1, <1>2, MaxConnAssumption
<1>4. CASE adv
    BY <1>3, <1>4 DEF OffAirInv, Stopped
<1>5. CASE ~adv
    BY <1>3, <1>5 DEF OffAirInv, Stopped, Usable
<1> QED BY <1>4, <1>5

LEMMA OffAirStep ==
    TypeOK /\ IdleInv /\ RenewedInv /\ OffAirInv /\ [Next]_vars => OffAirInv'
<1> SUFFICES ASSUME TypeOK, IdleInv, RenewedInv, OffAirInv, [Next]_vars
             PROVE  OffAirInv'
    OBVIOUS
<1> USE DEF OnItsWay
<1>1. CASE MainBoot
    <2>1. ~adv /\ why = "never" /\ UNCHANGED <<adv, conns, why>>
        BY <1>1 DEF MainBoot, IdleInv, Usable
    <2>2. ConnCount' = ConnCount
        BY <2>1 DEF ConnCount, Listed
    <2> QED BY <2>1, <2>2 DEF OffAirInv
<1>2. CASE MainMeasure \/ MainLoad \/ MainCount \/ MainSync
    <2>1. /\ UNCHANGED <<bt, status, adv, conns, why>>
          /\ pc["main"] \notin {"copy", "send", "check", "start", "enable"}
          /\ pc'["rx"] = pc["rx"]
        BY <1>2 DEF MainMeasure, MainLoad, MainCount, MainSync, Goto, TypeOK,
                    Threads
    <2> QED BY <2>1, OffAirFrame DEF Listed
<1>3. CASE MainStore \/ MainCopy \/ MainSend
    <2>1. /\ UNCHANGED <<bt, adv, conns, why>>
          /\ pc'["main"] \in {"copy", "send", "check"}
        BY <1>3 DEF MainStore, MainCopy, MainSend, Goto, TypeOK, Threads
    <2> QED BY <2>1, OffAirFrame DEF Listed
<1>4. CASE MainCheck
    <2>1. /\ UNCHANGED <<bt, status, adv, conns, why>>
          /\ NewData \in status => pc'["main"] = "start"
        BY <1>4 DEF MainCheck, Goto, TypeOK, Threads
    <2> QED BY <2>1, OffAirFrame DEF Listed
<1>5. CASE MainStart
    <2>1. UNCHANGED <<bt, status, adv, conns, why>>
        BY <1>5 DEF MainStart
    <2>2. Usable /\ ~adv /\ why = "acknowledged" => pc'["main"] = "enable"
        BY <1>5 DEF MainStart, CanStart, OffAirInv, Goto, TypeOK, Threads
    <2> QED BY <2>1, <2>2, OffAirFrame DEF Listed
<1>6. CASE MainEnable \/ RxEnable
    <2>1. PICK bits : Enabled(bits)
        BY <1>6 DEF MainEnable, RxEnable
    <2>2. UNCHANGED <<bt, status, conns>>
        BY <1>6 DEF MainEnable, RxEnable
    <2> QED BY <2>1, <2>2, OffAirEnabled
<1>7. CASE MainStop \/ RxStop
    <2>1. /\ Stopped
          /\ UNCHANGED <<bt, status, conns>>
          /\ OnItsWay => OnItsWay'
          /\ NewData \in status => renewed
        BY <1>7 DEF MainStop, RxStop, Goto, TypeOK, Threads, RenewedInv, Stopping
    <2> QED BY <2>1, OffAirStopped DEF Listed
<1>8. CASE RxCheck
    <2>1. /\ UNCHANGED <<bt, status, adv, conns, why>>
          /\ NewData \in status => pc'["rx"] = "start"
        BY <1>8 DEF RxCheck, Goto, TypeOK, Threads
    <2> QED BY <2>1, OffAirFrame DEF Listed
<1>9. CASE RxStart
    <2>1. UNCHANGED <<bt, status, adv, conns, why>>
        BY <1>9 DEF RxStart
    <2>2. Usable /\ ~adv /\ why = "acknowledged" => pc'["rx"] = "enable"
        BY <1>9 DEF RxStart, CanStart, OffAirInv, Goto, TypeOK, Threads
    <2> QED BY <2>1, <2>2, OffAirFrame DEF Listed
<1>10. CASE BtReady
    <2>1. ~adv /\ why = "never" /\ UNCHANGED <<adv, conns, why>>
        BY <1>10 DEF BtReady, IdleInv, Usable
    <2>2. ConnCount' = ConnCount
        BY <2>1 DEF ConnCount, Listed
    <2> QED BY <2>1, <2>2 DEF OffAirInv
<1>11. CASE TimerExpires \/ UNCHANGED vars
    <2>1. UNCHANGED <<bt, status, adv, conns, pc, why>>
        BY <1>11 DEF TimerExpires, vars
    <2> QED BY <2>1, OffAirFrame DEF Listed
<1>12. CASE Reboot
    <2>1. Listed' = {}
        BY <1>12 DEF Reboot, Listed
    <2>2. ConnCount' = 0
        BY <2>1, FS_EmptySet DEF ConnCount
    <2>3. ConnCount' <= MaxConn
        BY <2>2, MaxConnAssumption
    <2> QED BY <1>12, <2>3 DEF Reboot, OffAirInv
<1>13. ASSUME NEW c \in Clients,
              \/ DisconnectedCheck(c) \/ Unlist(c) \/ LinkDown(c) \/ Collect(c)
       PROVE  OffAirInv'
    <2>1. /\ UNCHANGED <<bt, status, adv, why, pc>>
          /\ \A d \in Clients : conns[d] = "none" => conns'[d] = "none"
        BY <1>13 DEF DisconnectedCheck, Unlist, LinkDown, Collect, TypeOK
    <2>2. Listed' \subseteq Listed
        BY <2>1 DEF Listed
    <2> QED BY <2>1, <2>2, OffAirFrame
<1>14. ASSUME NEW c \in Clients, DisconnectedStop(c) PROVE OffAirInv'
    <2>1. /\ UNCHANGED <<bt, status, pc>>
          /\ \A d \in Clients : conns[d] = "none" => conns'[d] = "none"
        BY <1>14 DEF DisconnectedStop, TypeOK
    <2>2. Listed' \subseteq Listed
        BY <2>1 DEF Listed
    <2>3. NewData \in status => renewed
        BY <1>14 DEF DisconnectedStop, RenewedInv, Stopping
    <2> QED BY <1>14, <2>1, <2>2, <2>3, OffAirStopped DEF DisconnectedStop
<1>15. ASSUME NEW c \in Clients, Connect(c) PROVE OffAirInv'
    <2>1. Listed' = Listed \cup {c} /\ c \notin Listed
        BY <1>15 DEF Connect, Listed, TypeOK
    <2>2. ConnCount' = ConnCount + 1
        BY <2>1, ListedFinite, FS_AddElement DEF ConnCount
    <2>3. ConnCount + 1 <= MaxConn
        BY <1>15, ListedFinite, MaxConnAssumption DEF OffAirInv, Connect
    <2> QED BY <1>15, <2>2, <2>3 DEF Connect, OffAirInv
<1>16. ASSUME NEW c \in Clients, NEW w \in Writes, StatusWrite(c, w)
       PROVE  OffAirInv'
    <2>1. /\ UNCHANGED <<bt, adv, why>>
          /\ pc'["rx"] = "check"
          /\ \A d \in Clients : conns[d] = "none" => conns'[d] = "none"
        BY <1>16 DEF StatusWrite, MayWrite, Goto, TypeOK, Threads
    <2>2. Listed' \subseteq Listed
        BY <2>1 DEF Listed
    <2> QED BY <2>1, <2>2, OffAirFrame
<1> QED
    BY <1>1, <1>2, <1>3, <1>4, <1>5, <1>6, <1>7, <1>8, <1>9, <1>10, <1>11,
       <1>12, <1>13, <1>14, <1>15, <1>16
       DEF Next, Main, RxUpdate, WorkQueue, Environment

\* New data is off the air only because advertising never began, a client's
\* connection ended it, or a stop came late.
THEOREM OffAir == Spec => []OffAirOnlyForCause
<1>1. OffAirInv => OffAirOnlyForCause
    BY DEF OffAirInv, OffAirOnlyForCause, OnItsWay, Quiet
<1> QED
    BY TypeCorrect, IdleInit, IdleStep, RenewedInit, RenewedStep, OffAirInit,
       OffAirStep, <1>1, PTL DEF Spec

----------------------------------------------------------------------------
(* New data on the air.  Inductive: under OnlyClear nobody but the main     *)
(* thread sets NEW_DATA, so a copy of the word that lacks the bit is stale  *)
(* only until the bit is set, and then the main thread copies it anew.      *)

OnAirInv ==
    OnlyClear =>
        /\ pc["rx"] \in {"start", "enable"} => NewData \in status
        /\ pc["rx"] = "enable" => NewData \in payload
        /\ pc["main"] \in {"send", "enable"} /\ NewData \in status =>
               NewData \in held
        /\ adv /\ NewData \in status /\ pc["main"] \notin {"copy", "send"} =>
               NewData \in payload

LEMMA OnAirInit == Init => OnAirInv
BY DEF Init, OnAirInv, Threads

LEMMA OnAirStep == TypeOK /\ OnAirInv /\ [Next]_vars => OnAirInv'
<1> SUFFICES ASSUME TypeOK, OnAirInv, [Next]_vars, OnlyClear PROVE OnAirInv'
    BY DEF OnAirInv, OnlyClear
<1> USE DEF OnAirInv
<1>1. CASE MainBoot \/ MainMeasure \/ MainLoad \/ MainCheck \/ MainCount \/ MainSync
    <2>1. /\ UNCHANGED <<status, adv, payload>>
          /\ pc'["rx"] = pc["rx"]
          /\ pc["main"] \notin {"copy", "send"}
          /\ pc'["main"] \notin {"send", "enable"}
        BY <1>1 DEF MainBoot, MainMeasure, MainLoad, MainCheck, MainCount,
                    MainSync, Goto, TypeOK, Threads
    <2> QED BY <2>1
<1>2. CASE MainStore BY <1>2 DEF MainStore, Goto, TypeOK, Threads
<1>3. CASE MainCopy BY <1>3 DEF MainCopy, Goto, TypeOK, Threads
<1>4. CASE MainSend BY <1>4 DEF MainSend, Goto, TypeOK, Threads
<1>5. CASE MainStart BY <1>5 DEF MainStart, Goto, TypeOK, Threads
<1>6. CASE MainEnable
    BY <1>6 DEF MainEnable, Enabled, Goto, TypeOK, Threads
<1>7. CASE MainStop \/ RxStop
    <2>1. /\ UNCHANGED <<status, payload, held>> /\ ~adv'
          /\ pc'["rx"] = pc["rx"] \/ pc'["rx"] = "idle"
          /\ pc'["main"] = pc["main"] \/ pc'["main"] = "sync"
        BY <1>7 DEF MainStop, RxStop, Stopped, Goto, TypeOK, Threads
    <2> QED BY <2>1
<1>8. CASE RxCheck BY <1>8 DEF RxCheck, Goto, TypeOK, Threads
<1>9. CASE RxStart BY <1>9 DEF RxStart, Goto, TypeOK, Threads
<1>10. CASE RxEnable
    BY <1>10 DEF RxEnable, Enabled, Goto, TypeOK, Threads
<1>11. CASE BtReady \/ TimerExpires \/ UNCHANGED vars
    <2>1. UNCHANGED <<status, adv, payload, held, pc>>
        BY <1>11 DEF BtReady, TimerExpires, vars
    <2> QED BY <2>1
<1>12. CASE Reboot BY <1>12 DEF Reboot, Threads
<1>13. ASSUME NEW c \in Clients,
              \/ DisconnectedCheck(c) \/ DisconnectedStop(c) \/ Unlist(c)
              \/ Connect(c) \/ Collect(c) \/ LinkDown(c)
       PROVE  OnAirInv'
    <2>1. UNCHANGED <<status, payload, held, pc>> /\ (adv' = FALSE \/ adv' = adv)
        BY <1>13 DEF DisconnectedCheck, DisconnectedStop, Stopped, Unlist,
                     Connect, Collect, LinkDown
    <2> QED BY <2>1
<1>14. ASSUME NEW c \in Clients, NEW w \in Writes, StatusWrite(c, w)
       PROVE  OnAirInv'
    <2>1. /\ UNCHANGED <<adv, held>>
          /\ pc'["rx"] = "check" /\ pc'["main"] = pc["main"]
          /\ adv => payload' = status'
        BY <1>14 DEF StatusWrite, Goto, TypeOK, Threads
    <2>2. NewData \in status' => NewData \in status
        BY <1>14 DEF StatusWrite, Merged, OnlyClear
    <2> QED BY <2>1, <2>2
<1> QED
    BY <1>1, <1>2, <1>3, <1>4, <1>5, <1>6, <1>7, <1>8, <1>9, <1>10, <1>11,
       <1>12, <1>13, <1>14
       DEF Next, Main, RxUpdate, WorkQueue, Environment

\* For clients that only clear NEW_DATA the advertising data carries the bit
\* whenever the word does and the main thread is not about to send it.
THEOREM OnAir == Spec => []NewDataOnAir
<1>1. OnAirInv => NewDataOnAir BY DEF OnAirInv, NewDataOnAir
<1> QED BY TypeCorrect, OnAirInit, OnAirStep, <1>1, PTL DEF Spec
=============================================================================
