------------------------------- MODULE Sensor -------------------------------
(***************************************************************************)
(* What the sensor promises to its clients, without the threads, copies    *)
(* and buffers that keep the promise (Advertising has those):              *)
(*                                                                         *)
(*   - it announces each measurement once, and only after making it;       *)
(*   - it goes on the air only for data that was announced when a thread   *)
(*     decided so, it never drops such a decision that could go ahead, and *)
(*     a client is served only after finding it on the air;                *)
(*   - it leaves the air when a client connects, or when the data had been *)
(*     acknowledged at the time a thread, or the callback of the last      *)
(*     client to leave, decided so.                                        *)
(*                                                                         *)
(* A decision takes effect later, whatever has changed in between.         *)
(***************************************************************************)
CONSTANTS
    Clients,  \* clients that may connect
    Threads,  \* threads that may start and stop advertising
    Crowds    \* sets of clients that take up all the connection slots

VARIABLES
    usable,     \* does the Bluetooth host accept commands?
    measured,   \* is there a measurement that was not announced?
    announced,  \* is there data to collect?
    onAir,      \* is the sensor advertising?
    linked,     \* clients whose link is up
    listed,     \* clients that hold a connection slot
    starting,   \* threads that are about to start advertising
    stopping,   \* threads that are about to stop it
    parting     \* clients whose callback is about to stop it

vars == <<usable, measured, announced, onAir, linked, listed,
          starting, stopping, parting>>
decisions == <<starting, stopping, parting>>
connections == <<linked, listed>>

Init ==
    /\ ~usable /\ ~measured /\ ~announced /\ ~onAir
    /\ linked = {} /\ listed = {}
    /\ starting = {} /\ stopping = {} /\ parting = {}

----------------------------------------------------------------------------
(* The data. *)

Enable ==
    /\ usable' = TRUE
    /\ UNCHANGED <<measured, announced, onAir, connections, decisions>>

Measure ==
    /\ measured' = TRUE
    /\ UNCHANGED <<usable, announced, onAir, connections, decisions>>

Announce ==
    /\ measured
    /\ measured' = FALSE
    /\ announced' = TRUE
    /\ UNCHANGED <<usable, onAir, connections, decisions>>

\* A client writes the status: it acknowledges, or asks for more.
Write(c) ==
    /\ c \in linked
    /\ announced' \in BOOLEAN
    /\ UNCHANGED <<usable, measured, onAir, connections, decisions>>

----------------------------------------------------------------------------
(* The radio. *)

CanStart == usable /\ ~onAir /\ listed \notin Crowds

DecideStart(t) ==
    /\ announced
    /\ starting' = starting \cup {t}
    /\ UNCHANGED <<usable, measured, announced, onAir, connections, stopping,
                   parting>>

\* The start is made if it can be.
Start(t) ==
    /\ t \in starting
    /\ starting' = starting \ {t}
    /\ onAir' = (onAir \/ CanStart)
    /\ UNCHANGED <<usable, measured, announced, connections, stopping, parting>>

DecideStop(t) ==
    /\ ~announced
    /\ stopping' = stopping \cup {t}
    /\ UNCHANGED <<usable, measured, announced, onAir, connections, starting,
                   parting>>

Stop(t) ==
    /\ t \in stopping
    /\ stopping' = stopping \ {t}
    /\ onAir' = FALSE
    /\ UNCHANGED <<usable, measured, announced, connections, starting, parting>>

\* Somebody is connected: the radio is left to the callback.
ForgoStop(t) ==
    /\ t \in stopping
    /\ listed # {}
    /\ stopping' = stopping \ {t}
    /\ UNCHANGED <<usable, measured, announced, onAir, connections, starting,
                   parting>>

----------------------------------------------------------------------------
(* The clients. *)

Connect(c) ==
    /\ onAir /\ c \notin listed
    /\ onAir' = FALSE
    /\ linked' = linked \cup {c} /\ listed' = listed \cup {c}
    /\ UNCHANGED <<usable, measured, announced, decisions>>

LinkDown(c) ==
    /\ c \in linked
    /\ linked' = linked \ {c}
    /\ UNCHANGED <<usable, measured, announced, onAir, listed, decisions>>

\* The callback of the only client in the list.
PartDecide(c) ==
    /\ ~announced
    /\ listed = {c} /\ linked = {}
    /\ parting' = parting \cup {c}
    /\ UNCHANGED <<usable, measured, announced, onAir, connections, starting,
                   stopping>>

PartStop(c) ==
    /\ c \in parting
    /\ parting' = parting \ {c}
    /\ onAir' = FALSE
    /\ UNCHANGED <<usable, measured, announced, connections, starting, stopping>>

Unlist(c) ==
    /\ c \in listed \ (linked \cup parting)
    /\ listed' = listed \ {c}
    /\ UNCHANGED <<usable, measured, announced, onAir, linked, decisions>>

Restart ==
    /\ usable' = FALSE /\ measured' = FALSE /\ announced' = FALSE /\ onAir' = FALSE
    /\ linked' = {} /\ listed' = {}
    /\ starting' = {} /\ stopping' = {} /\ parting' = {}

Next ==
    \/ Enable \/ Measure \/ Announce \/ Restart
    \/ \E t \in Threads : \/ DecideStart(t) \/ Start(t)
                          \/ DecideStop(t) \/ Stop(t) \/ ForgoStop(t)
    \/ \E c \in Clients : \/ Write(c) \/ Connect(c) \/ LinkDown(c)
                          \/ PartDecide(c) \/ PartStop(c) \/ Unlist(c)

Spec == Init /\ [][Next]_vars
=============================================================================
