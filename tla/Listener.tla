------------------------------ MODULE Listener ------------------------------
(***************************************************************************)
(* What every passive listener shares: one dispatcher thread hands it a    *)
(* packet at a time, and its handler reads time.time() before it takes its *)
(* _lock.  Between the two, request threads may run a read or a reset().   *)
(*                                                                         *)
(* time.time() is the wall clock: it moves on, and a time correction may   *)
(* set it back.                                                            *)
(***************************************************************************)
EXTENDS Integers

CONSTANTS None, Mac,
          MaxClock, MaxSetbacks, MaxPackets   \* bounds

ASSUME ListenerAssumption ==
    /\ MaxClock \in Nat /\ MaxSetbacks \in Nat /\ MaxPackets \in Nat
    /\ None \notin Mac /\ None \notin Nat

VARIABLES
    clock,
    setbacks,   \* how often the clock was set back
    packet,     \* what the handler works on, with the time `now` it read
    received    \* packets so far

listenerVars == <<clock, setbacks, packet, received>>

ListenerInit == clock = 0 /\ setbacks = 0 /\ packet = None /\ received = 0

Tick ==
    /\ clock < MaxClock
    /\ clock' = clock + 1
    /\ UNCHANGED <<setbacks, packet, received>>

SetBack ==
    /\ setbacks < MaxSetbacks
    /\ clock' \in 0 .. clock - 1
    /\ setbacks' = setbacks + 1
    /\ UNCHANGED <<packet, received>>

\* The handler has parsed packet p as one of its own and reads the time.
Receive(p) ==
    /\ packet = None /\ received < MaxPackets
    /\ packet' = [content |-> p, now |-> clock]
    /\ received' = received + 1
    /\ UNCHANGED <<clock, setbacks>>

Handled == packet' = None /\ UNCHANGED <<clock, setbacks, received>>
=============================================================================
