---------------------------- MODULE SensorProofs ----------------------------
(***************************************************************************)
(* Advertising implements Sensor, for every set of clients, number of      *)
(* connection slots and set of writes: each step of the three contexts is  *)
(* a step of the abstract sensor or changes nothing that a client sees.    *)
(***************************************************************************)
EXTENDS AdvertisingProofs

\* The abstract state, to be compared before and after a step.
Measured == pc["main"] \in {"load", "store"}
Announced == NewData \in status
Linked == {c \in Clients : conns[c] \in {"up", "read"}}
Starting == At({"start", "enable"})
Halting == At({"count", "stop"})
Parting == {c \in Clients : conns[c] = "stopping"}

PStep == Promise!Next \/ UNCHANGED Promise!vars

LEMMA PromiseInit == Init => Promise!Init
BY DEF Init, Promise!Init, Usable, Listed, At, Threads

----------------------------------------------------------------------------
(* The abstract actions in terms of the abstract state. *)

LEMMA Unseen ==
    ASSUME UNCHANGED <<Usable, Measured, Announced, adv, Linked, Listed,
                       Starting, Halting, Parting>>
    PROVE  PStep
BY DEF PStep, Promise!vars, Measured, Announced, Linked, Starting, Halting, Parting

LEMMA SeenStart ==
    ASSUME NEW t \in Threads, t \in Starting, Starting' = Starting \ {t},
           adv' = (adv \/ CanStart),
           UNCHANGED <<Usable, Measured, Announced, Linked, Listed, Halting,
                       Parting>>
    PROVE  PStep
<1>1. CanStart = Promise!CanStart
    <2>1. Listed \in SUBSET Clients /\ ConnCount \in Nat
        BY ListedFinite DEF Listed
    <2> QED
        BY <2>1, MaxConnAssumption DEF CanStart, Promise!CanStart, ConnCount
<1>2. Promise!Start(t)
    BY <1>1 DEF Promise!Start, Measured, Announced, Linked, Starting, Halting,
                Parting, Promise!connections
<1> QED BY <1>2 DEF PStep, Promise!Next

LEMMA SeenEnable ==
    ASSUME Usable',
           UNCHANGED <<Measured, Announced, adv, Linked, Listed, Starting, Halting,
                       Parting>>
    PROVE  PStep
<1>1. Promise!Enable
    BY DEF Promise!Enable, Promise!connections, Promise!decisions, Measured,
           Announced, Linked, Starting, Halting, Parting
<1> QED BY <1>1 DEF PStep, Promise!Next

LEMMA SeenMeasure ==
    ASSUME Measured',
           UNCHANGED <<Usable, Announced, adv, Linked, Listed, Starting, Halting, Parting>>
    PROVE  PStep
<1>1. Promise!Measure
    BY DEF Promise!Measure, Promise!connections, Promise!decisions, Measured,
           Announced, Linked, Starting, Halting, Parting
<1> QED BY <1>1 DEF PStep, Promise!Next

LEMMA SeenAnnounce ==
    ASSUME Measured, ~Measured', Announced',
           UNCHANGED <<Usable, adv, Linked, Listed, Starting, Halting, Parting>>
    PROVE  PStep
<1>1. Promise!Announce
    BY DEF Promise!Announce, Promise!connections, Promise!decisions, Measured,
           Announced, Linked, Starting, Halting, Parting
<1> QED BY <1>1 DEF PStep, Promise!Next

LEMMA SeenDecideStart ==
    ASSUME NEW t \in Threads,
           Announced,
           Starting' = Starting \cup {t},
           UNCHANGED <<Usable, Measured, Announced, adv, Linked, Listed, Halting, Parting>>
    PROVE  PStep
<1>1. Promise!DecideStart(t)
    BY DEF Promise!DecideStart, Promise!connections, Promise!decisions, Measured,
           Announced, Linked, Starting, Halting, Parting
<1> QED BY <1>1 DEF PStep, Promise!Next

LEMMA SeenDecideStop ==
    ASSUME NEW t \in Threads,
           ~Announced,
           Halting' = Halting \cup {t},
           UNCHANGED <<Usable, Measured, Announced, adv, Linked, Listed, Starting,
                       Parting>>
    PROVE  PStep
<1>1. Promise!DecideStop(t)
    BY DEF Promise!DecideStop, Promise!connections, Promise!decisions, Measured,
           Announced, Linked, Starting, Halting, Parting
<1> QED BY <1>1 DEF PStep, Promise!Next

LEMMA SeenStop ==
    ASSUME NEW t \in Threads,
           t \in Halting,
           Halting' = Halting \ {t},
           adv' = FALSE,
           UNCHANGED <<Usable, Measured, Announced, Linked, Listed, Starting, Parting>>
    PROVE  PStep
<1>1. Promise!Stop(t)
    BY DEF Promise!Stop, Promise!connections, Promise!decisions, Measured,
           Announced, Linked, Starting, Halting, Parting
<1> QED BY <1>1 DEF PStep, Promise!Next

LEMMA SeenForgoStop ==
    ASSUME NEW t \in Threads,
           t \in Halting,
           Halting' = Halting \ {t},
           Listed # {},
           UNCHANGED <<Usable, Measured, Announced, adv, Linked, Listed, Starting,
                       Parting>>
    PROVE  PStep
<1>1. Promise!ForgoStop(t)
    BY DEF Promise!ForgoStop, Promise!connections, Promise!decisions, Measured,
           Announced, Linked, Starting, Halting, Parting
<1> QED BY <1>1 DEF PStep, Promise!Next

LEMMA SeenWrite ==
    ASSUME NEW c \in Clients,
           c \in Linked,
           UNCHANGED <<Usable, Measured, adv, Linked, Listed, Starting, Halting, Parting>>
    PROVE  PStep
<1>1. Promise!Write(c)
    BY DEF Promise!Write, Promise!connections, Promise!decisions, Measured,
           Announced, Linked, Starting, Halting, Parting
<1> QED BY <1>1 DEF PStep, Promise!Next

LEMMA SeenConnect ==
    ASSUME NEW c \in Clients,
           adv, ~adv', c \notin Listed,
           Linked' = Linked \cup {c},
           Listed' = Listed \cup {c},
           UNCHANGED <<Usable, Measured, Announced, Starting, Halting, Parting>>
    PROVE  PStep
<1>1. Promise!Connect(c)
    BY DEF Promise!Connect, Promise!connections, Promise!decisions, Measured,
           Announced, Linked, Starting, Halting, Parting
<1> QED BY <1>1 DEF PStep, Promise!Next

LEMMA SeenLinkDown ==
    ASSUME NEW c \in Clients,
           c \in Linked,
           Linked' = Linked \ {c},
           UNCHANGED <<Usable, Measured, Announced, adv, Listed, Starting, Halting,
                       Parting>>
    PROVE  PStep
<1>1. Promise!LinkDown(c)
    BY DEF Promise!LinkDown, Promise!connections, Promise!decisions, Measured,
           Announced, Linked, Starting, Halting, Parting
<1> QED BY <1>1 DEF PStep, Promise!Next

LEMMA SeenPartDecide ==
    ASSUME NEW c \in Clients,
           ~Announced,
           Listed = {c},
           Linked = {},
           Parting' = Parting \cup {c},
           UNCHANGED <<Usable, Measured, Announced, adv, Linked, Listed, Starting,
                       Halting>>
    PROVE  PStep
<1>1. Promise!PartDecide(c)
    BY DEF Promise!PartDecide, Promise!connections, Promise!decisions, Measured,
           Announced, Linked, Starting, Halting, Parting
<1> QED BY <1>1 DEF PStep, Promise!Next

LEMMA SeenPartStop ==
    ASSUME NEW c \in Clients,
           c \in Parting,
           Parting' = Parting \ {c},
           adv' = FALSE,
           UNCHANGED <<Usable, Measured, Announced, Linked, Listed, Starting, Halting>>
    PROVE  PStep
<1>1. Promise!PartStop(c)
    BY DEF Promise!PartStop, Promise!connections, Promise!decisions, Measured,
           Announced, Linked, Starting, Halting, Parting
<1> QED BY <1>1 DEF PStep, Promise!Next

LEMMA SeenUnlist ==
    ASSUME NEW c \in Clients,
           c \in Listed \ (Linked \cup Parting),
           Listed' = Listed \ {c},
           UNCHANGED <<Usable, Measured, Announced, adv, Linked, Starting, Halting,
                       Parting>>
    PROVE  PStep
<1>1. Promise!Unlist(c)
    BY DEF Promise!Unlist, Promise!connections, Promise!decisions, Measured,
           Announced, Linked, Starting, Halting, Parting
<1> QED BY <1>1 DEF PStep, Promise!Next

\* How a thread's step moves the sets of threads.
LEMMA Moved ==
    ASSUME TypeOK, NEW t \in Threads, NEW s, Goto(t, s)
    PROVE  /\ Starting' = IF s \in {"start", "enable"} THEN Starting \cup {t}
                                                       ELSE Starting \ {t}
           /\ Halting' = IF s \in {"count", "stop"} THEN Halting \cup {t}
                                                    ELSE Halting \ {t}
           /\ Measured' = IF t = "main" THEN s \in {"load", "store"} ELSE Measured
BY DEF TypeOK, Goto, Starting, Halting, Measured, At, Threads

LEMMA ThreadsPart ==
    ASSUME UNCHANGED <<bt, conns>>
    PROVE  UNCHANGED <<Usable, Linked, Listed, Parting>>
BY DEF Usable, Linked, Listed, Parting

\* A thread at work is in the set of its state.
LEMMA Standing ==
    ASSUME NEW t \in Threads
    PROVE  /\ t \in Starting <=> pc[t] \in {"start", "enable"}
           /\ t \in Halting <=> pc[t] \in {"count", "stop"}
BY DEF Starting, Halting, At

----------------------------------------------------------------------------
(* One step of each context. *)

LEMMA MainPromise == TypeOK /\ IdleInv /\ Main => PStep
<1> SUFFICES ASSUME TypeOK, IdleInv, Main PROVE PStep
    OBVIOUS
<1>t. "main" \in Threads /\ adv \in BOOLEAN BY DEF Threads, TypeOK
<1>1. CASE MainBoot
    <2>1. UNCHANGED <<Linked, Listed, Parting, adv, Announced>>
        BY <1>1 DEF MainBoot, Linked, Listed, Parting, Announced
    <2>2. UNCHANGED Usable
        BY <1>1 DEF MainBoot, IdleInv, Usable
    <2>3. UNCHANGED <<Starting, Halting, Measured>>
        BY <1>1, <1>t, Moved, Standing DEF MainBoot, Measured
    <2> QED BY <2>1, <2>2, <2>3, Unseen
<1>2. CASE MainMeasure
    <2>1. UNCHANGED <<bt, conns, adv, Announced>> /\ Goto("main", "load")
        BY <1>2 DEF MainMeasure, Announced
    <2>2. UNCHANGED <<Starting, Halting>>
        BY <1>2, <1>t, <2>1, Moved, Standing DEF MainMeasure
    <2>3. Measured'
        BY <2>1 DEF Measured, Goto, TypeOK, Threads
    <2> QED BY <2>1, <2>2, <2>3, ThreadsPart, SeenMeasure
<1>3. CASE MainLoad \/ MainCopy \/ MainSend \/ MainSync
    <2>1. /\ UNCHANGED <<bt, conns, adv, Announced>>
          /\ UNCHANGED <<Starting, Halting, Measured>>
        BY <1>3, <1>t, Moved, Standing
           DEF MainLoad, MainCopy, MainSend, MainSync, Announced, Measured
    <2> QED BY <2>1, ThreadsPart, Unseen
<1>4. CASE MainStore
    <2>1. /\ UNCHANGED <<bt, conns, adv, Starting, Halting>>
          /\ Measured /\ ~Measured' /\ Announced'
        BY <1>4, <1>t, Moved, Standing DEF MainStore, Announced, Measured
    <2> QED BY <2>1, ThreadsPart, SeenAnnounce
<1>5. CASE MainCheck
    <2>1. UNCHANGED <<bt, conns, adv, Announced, Measured>>
        BY <1>5, <1>t, Moved DEF MainCheck, Announced, Measured
    <2>2. CASE Announced
        <3>1. Starting' = Starting \cup {"main"} /\ UNCHANGED Halting
            BY <1>5, <1>t, <2>2, Moved, Standing DEF MainCheck, Announced
        <3> QED BY <1>t, <2>1, <2>2, <3>1, ThreadsPart, SeenDecideStart
    <2>3. CASE ~Announced
        <3>1. Halting' = Halting \cup {"main"} /\ UNCHANGED Starting
            BY <1>5, <1>t, <2>3, Moved, Standing DEF MainCheck, Announced
        <3> QED BY <1>t, <2>1, <2>3, <3>1, ThreadsPart, SeenDecideStop
    <2> QED BY <2>2, <2>3
<1>6. CASE MainCount
    <2>1. /\ UNCHANGED <<bt, conns, adv, Announced, Measured, Starting>>
          /\ "main" \in Halting
        BY <1>6, <1>t, Moved, Standing DEF MainCount, Announced, Measured
    <2>2. CASE ConnCount = 0
        <3>1. UNCHANGED Halting
            BY <1>6, <1>t, <2>2, Moved, Standing DEF MainCount
        <3> QED BY <2>1, <3>1, ThreadsPart, Unseen
    <2>3. CASE ConnCount # 0
        <3>1. Listed # {}
            BY <2>3, FS_EmptySet DEF ConnCount
        <3>2. Halting' = Halting \ {"main"}
            BY <1>6, <1>t, <2>3, Moved, Standing DEF MainCount
        <3> QED BY <1>t, <2>1, <3>1, <3>2, ThreadsPart, SeenForgoStop
    <2> QED BY <2>2, <2>3
<1>7. CASE MainStart
    <2>1. /\ UNCHANGED <<bt, conns, adv, Announced, Measured, Halting>>
          /\ "main" \in Starting
        BY <1>7, <1>t, Moved, Standing DEF MainStart, Announced, Measured
    <2>2. CASE CanStart
        <3>1. UNCHANGED Starting
            BY <1>7, <1>t, <2>2, Moved, Standing DEF MainStart
        <3> QED BY <2>1, <3>1, ThreadsPart, Unseen
    <2>3. CASE ~CanStart
        <3>1. Starting' = Starting \ {"main"}
            BY <1>7, <1>t, <2>3, Moved DEF MainStart
        <3> QED BY <1>t, <2>1, <2>3, <3>1, ThreadsPart, SeenStart
    <2> QED BY <2>2, <2>3
<1>8. CASE MainEnable
    <2>1. /\ UNCHANGED <<bt, conns, Announced, Measured, Halting>>
          /\ "main" \in Starting /\ Starting' = Starting \ {"main"}
        BY <1>8, <1>t, Moved, Standing DEF MainEnable, Announced, Measured
    <2>2. adv' = (adv \/ CanStart)
        BY <1>8 DEF MainEnable, Enabled, CanStart, TypeOK
    <2> QED BY <1>t, <2>1, <2>2, ThreadsPart, SeenStart
<1>9. CASE MainStop
    <2>1. /\ UNCHANGED <<bt, conns, Announced>> /\ adv' = FALSE
          /\ Goto("main", "sync") /\ pc["main"] = "stop"
        BY <1>9 DEF MainStop, Stopped, Announced
    <2>2. /\ UNCHANGED <<Measured, Starting>>
          /\ "main" \in Halting /\ Halting' = Halting \ {"main"}
        BY <1>t, <2>1, Moved, Standing DEF Measured
    <2> QED BY <1>t, <2>1, <2>2, ThreadsPart, SeenStop
<1> QED
    BY <1>1, <1>2, <1>3, <1>4, <1>5, <1>6, <1>7, <1>8, <1>9 DEF Main

LEMMA RxPromise == TypeOK /\ RxUpdate => PStep
<1> SUFFICES ASSUME TypeOK, RxUpdate PROVE PStep
    OBVIOUS
<1>t. "rx" \in Threads /\ adv \in BOOLEAN BY DEF Threads, TypeOK
<1>1. CASE RxCheck
    <2>1. UNCHANGED <<bt, conns, adv, Announced, Measured>>
        BY <1>1, <1>t, Moved DEF RxCheck, Announced
    <2>2. CASE Announced
        <3>1. Starting' = Starting \cup {"rx"} /\ UNCHANGED Halting
            BY <1>1, <1>t, <2>2, Moved, Standing DEF RxCheck, Announced
        <3> QED BY <1>t, <2>1, <2>2, <3>1, ThreadsPart, SeenDecideStart
    <2>3. CASE ~Announced /\ ConnCount = 0
        <3>1. Halting' = Halting \cup {"rx"} /\ UNCHANGED Starting
            BY <1>1, <1>t, <2>3, Moved, Standing DEF RxCheck, Announced
        <3> QED BY <1>t, <2>1, <2>3, <3>1, ThreadsPart, SeenDecideStop
    <2>4. CASE ~Announced /\ ConnCount # 0
        <3>1. UNCHANGED <<Starting, Halting>>
            BY <1>1, <1>t, <2>4, Moved, Standing DEF RxCheck, Announced
        <3> QED BY <2>1, <3>1, ThreadsPart, Unseen
    <2> QED BY <2>2, <2>3, <2>4
<1>2. CASE RxStart
    <2>1. /\ UNCHANGED <<bt, conns, adv, Announced, Measured, Halting>>
          /\ "rx" \in Starting
        BY <1>2, <1>t, Moved, Standing DEF RxStart, Announced
    <2>2. CASE CanStart
        <3>1. UNCHANGED Starting
            BY <1>2, <1>t, <2>2, Moved, Standing DEF RxStart
        <3> QED BY <2>1, <3>1, ThreadsPart, Unseen
    <2>3. CASE ~CanStart
        <3>1. Starting' = Starting \ {"rx"}
            BY <1>2, <1>t, <2>3, Moved DEF RxStart
        <3> QED BY <1>t, <2>1, <2>3, <3>1, ThreadsPart, SeenStart
    <2> QED BY <2>2, <2>3
<1>3. CASE RxEnable
    <2>1. /\ UNCHANGED <<bt, conns, Announced, Measured, Halting>>
          /\ "rx" \in Starting /\ Starting' = Starting \ {"rx"}
        BY <1>3, <1>t, Moved, Standing DEF RxEnable, Announced
    <2>2. adv' = (adv \/ CanStart)
        BY <1>3 DEF RxEnable, Enabled, CanStart, TypeOK
    <2> QED BY <1>t, <2>1, <2>2, ThreadsPart, SeenStart
<1>4. CASE RxStop
    <2>1. /\ UNCHANGED <<bt, conns, Announced>> /\ adv' = FALSE
          /\ Goto("rx", "idle") /\ pc["rx"] = "stop"
        BY <1>4 DEF RxStop, Stopped, Announced
    <2>2. /\ UNCHANGED <<Measured, Starting>>
          /\ "rx" \in Halting /\ Halting' = Halting \ {"rx"}
        BY <1>t, <2>1, Moved, Standing
    <2> QED BY <1>t, <2>1, <2>2, ThreadsPart, SeenStop
<1> QED BY <1>1, <1>2, <1>3, <1>4 DEF RxUpdate

\* Steps outside the threads leave the threads' decisions alone.
LEMMA ThreadsAlone ==
    ASSUME UNCHANGED pc
    PROVE  UNCHANGED <<Starting, Halting, Measured>>
BY DEF Starting, Halting, Measured, At

LEMMA ClientPromise ==
    ASSUME TypeOK, NEW c \in Clients,
           \/ DisconnectedCheck(c) \/ DisconnectedStop(c) \/ Unlist(c)
           \/ Connect(c) \/ Collect(c) \/ LinkDown(c)
    PROVE  PStep
<1>1. CASE DisconnectedCheck(c)
    <2>1. /\ UNCHANGED <<Usable, adv, Announced, Linked, Listed, pc>>
          /\ c \in Listed /\ c \notin Linked
        BY <1>1 DEF DisconnectedCheck, TypeOK, Usable, Announced, Linked, Listed
    <2>2. CASE bt = "ready" /\ NewData \notin status /\ ConnCount <= 1
        <3>1. Listed = {c}
            <4>1. SUFFICES ASSUME NEW d \in Listed, d # c PROVE FALSE
                BY <2>1
            <4>2. IsFiniteSet({c}) /\ Cardinality({c}) = 1 /\ d \notin {c}
                BY <4>1, FS_Singleton
            <4>3. Cardinality({c} \cup {d}) = 2
                BY <4>2, FS_AddElement
            <4>4. Cardinality({c} \cup {d}) <= ConnCount
                BY <2>1, ListedFinite, FS_Subset DEF ConnCount
            <4> QED BY <2>2, <4>3, <4>4, ListedFinite
        <3>2. Linked = {}
            BY <2>1, <3>1 DEF Linked, Listed
        <3>3. ~Announced /\ Parting' = Parting \cup {c}
            BY <1>1, <2>2 DEF DisconnectedCheck, TypeOK, Announced, Parting
        <3> QED BY <2>1, <3>1, <3>2, <3>3, ThreadsAlone, SeenPartDecide
    <2>3. CASE ~(bt = "ready" /\ NewData \notin status /\ ConnCount <= 1)
        <3>1. UNCHANGED Parting
            BY <1>1, <2>3 DEF DisconnectedCheck, TypeOK, Parting
        <3> QED BY <2>1, <3>1, ThreadsAlone, Unseen
    <2> QED BY <2>2, <2>3
<1>2. CASE DisconnectedStop(c)
    <2>1. /\ UNCHANGED <<Usable, Announced, Linked, Listed, pc>> /\ adv' = FALSE
          /\ c \in Parting /\ Parting' = Parting \ {c}
        BY <1>2 DEF DisconnectedStop, Stopped, TypeOK, Usable, Announced, Linked,
                    Listed, Parting
    <2> QED BY <2>1, ThreadsAlone, SeenPartStop
<1>3. CASE Unlist(c)
    <2>1. /\ UNCHANGED <<Usable, adv, Announced, Linked, Parting, pc>>
          /\ c \in Listed \ (Linked \cup Parting) /\ Listed' = Listed \ {c}
        BY <1>3 DEF Unlist, TypeOK, Usable, Announced, Linked, Listed, Parting
    <2> QED BY <2>1, ThreadsAlone, SeenUnlist
<1>4. CASE Connect(c)
    <2>1. /\ UNCHANGED <<Usable, Announced, Parting, pc>> /\ adv /\ ~adv'
          /\ c \notin Listed /\ Listed' = Listed \cup {c}
          /\ Linked' = Linked \cup {c}
        BY <1>4 DEF Connect, TypeOK, Usable, Announced, Linked, Listed, Parting
    <2> QED BY <2>1, ThreadsAlone, SeenConnect
<1>5. CASE Collect(c)
    <2>1. UNCHANGED <<Usable, adv, Announced, Linked, Listed, Parting, pc>>
        BY <1>5 DEF Collect, TypeOK, Usable, Announced, Linked, Listed, Parting
    <2> QED BY <2>1, ThreadsAlone, Unseen
<1>6. CASE LinkDown(c)
    <2>1. /\ UNCHANGED <<Usable, adv, Announced, Listed, Parting, pc>>
          /\ c \in Linked /\ Linked' = Linked \ {c}
        BY <1>6 DEF LinkDown, TypeOK, Usable, Announced, Linked, Listed, Parting
    <2> QED BY <2>1, ThreadsAlone, SeenLinkDown
<1> QED BY <1>1, <1>2, <1>3, <1>4, <1>5, <1>6

LEMMA WritePromise ==
    ASSUME TypeOK, NEW c \in Clients, NEW w \in Writes, StatusWrite(c, w)
    PROVE  PStep
<1>1. UNCHANGED <<Usable, adv, Linked, Listed, Parting>> /\ c \in Linked
    BY DEF StatusWrite, MayWrite, TypeOK, Usable, Linked, Listed, Parting
<1>2. UNCHANGED <<Starting, Halting, Measured>>
    BY Moved, Standing DEF StatusWrite, Threads
<1> QED BY <1>1, <1>2, SeenWrite

LEMMA RebootPromise == ASSUME Reboot PROVE PStep
<1>1. Promise!Restart
    BY DEF Reboot, Promise!Restart, Usable, Listed, At, Threads
<1> QED BY <1>1 DEF PStep, Promise!Next

\* Every step of the firmware and its clients is a step of the abstract
\* sensor, or leaves it as it is.
LEMMA PromiseStep == TypeOK /\ IdleInv /\ [Next]_vars => PStep
<1> SUFFICES ASSUME TypeOK, IdleInv, [Next]_vars PROVE PStep
    OBVIOUS
<1>1. CASE BtReady
    <2>1. UNCHANGED <<conns, pc, adv, Linked, Listed, Parting, Announced>>
        BY <1>1 DEF BtReady, Linked, Listed, Parting, Announced
    <2>2. Usable' \/ UNCHANGED Usable
        BY <1>1 DEF BtReady, Usable
    <2> QED BY <2>1, <2>2, ThreadsAlone, SeenEnable, Unseen
<1>2. CASE TimerExpires \/ UNCHANGED vars
    <2>1. UNCHANGED <<bt, conns, pc, adv, Announced>>
        BY <1>2 DEF TimerExpires, vars, Announced
    <2> QED BY <2>1, ThreadsAlone, ThreadsPart, Unseen
<1> QED
    BY <1>1, <1>2, MainPromise, RxPromise, ClientPromise, WritePromise, RebootPromise
       DEF Next, WorkQueue, Environment

\* The firmware keeps the promise of Sensor to any clients that use it.
THEOREM Implements == Spec => ImplementsSensor
<1>1. PStep => [Promise!Next]_(Promise!vars)
    BY DEF PStep
<1> QED
    BY TypeCorrect, IdleInit, IdleStep, PromiseInit, PromiseStep, <1>1, PTL
       DEF Spec, ImplementsSensor, Promise!Spec
=============================================================================
