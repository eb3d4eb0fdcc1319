----------------------------- MODULE Dispatcher -----------------------------
(***************************************************************************)
(* backend/capture/dispatcher.py, the one tcpdump that feeds every passive *)
(* listener, together with the start_listener() of its consumers (lldp,    *)
(* cdp, mndp, traffic_stats, modbus_traffic, ip_conflict, dhcp_monitor all *)
(* have the one of lldp.py).                                               *)
(*                                                                         *)
(* A caller is a thread that calls a consumer's start_listener(): the      *)
(* startup hook, then any API request whose handler calls it again.  The   *)
(* capture loop launched by caller t is thread t of loop.  Every block     *)
(* under a _lock is one action.                                            *)
(*                                                                         *)
(* A packet is its number in the order in which the capture loop reads     *)
(* them.  A tcpdump that outlives proc.wait(timeout=2) has got its SIGTERM *)
(* and nobody reads its pipe any more, so it is dropped from the state.    *)
(***************************************************************************)
EXTENDS Naturals, Sequences, FiniteSets, SequencesExt

CONSTANTS
    Caller,      \* threads that call a consumer's start_listener()
    Consumer,    \* the modules that listen
    None,        \* Python's None
    MaxPackets   \* bound: packets read from tcpdump

ASSUME DispatcherAssumption == None \notin Consumer /\ MaxPackets \in Nat

VARIABLES
    listening,  \* the consumers' own _started flags
    started, handlers, tcpdump_available, capture_running,  \* dispatcher.py
    pc, target,                   \* the callers and what each one starts
    loop, tcpdump, pending, hurry, \* the capture loops and their locals
    read, got                     \* packets read; packets handed to a consumer

callers == <<pc, target>>
loops == <<loop, tcpdump, pending, hurry>>
health == <<tcpdump_available, capture_running>>
packets == <<read, got>>
vars == <<listening, started, handlers, health, callers, loops, packets>>

Init ==
    /\ listening = {} /\ started = FALSE /\ handlers = <<>>
    /\ tcpdump_available = None /\ capture_running = FALSE
    /\ pc = [t \in Caller |-> "idle"]
    /\ target = [t \in Caller |-> None]
    /\ loop = [t \in Caller |-> "none"]
    /\ tcpdump = [t \in Caller |-> "none"]
    /\ pending = [t \in Caller |-> <<>>]
    /\ hurry = [t \in Caller |-> FALSE]
    /\ read = 0
    /\ got = [c \in Consumer |-> <<>>]

Goto(t, label) == loop' = [loop EXCEPT ![t] = label]

-----------------------------------------------------------------------------
(* A consumer's start_listener() *)

CheckAndSet(c) == c \notin listening /\ listening' = listening \cup {c}

\* A call that finds the flag set returns at once and changes nothing.
Listen(t, c) ==
    /\ pc[t] = "idle"
    /\ CheckAndSet(c)
    /\ pc' = [pc EXCEPT ![t] = "start"]
    /\ target' = [target EXCEPT ![t] = c]
    /\ UNCHANGED <<started, handlers, health, loops, packets>>

\* dispatcher.start_listener(): the first caller launches the capture loop.
Launch_Unguarded(t) == started' = TRUE /\ Goto(t, "find")
Launch(t) ==
    \/ started /\ UNCHANGED <<started, loop>>
    \/ ~started /\ started' = TRUE /\ Goto(t, "find")

StartListener(t) ==
    /\ pc[t] = "start"
    /\ Launch(t)
    /\ pc' = [pc EXCEPT ![t] = "register"]
    /\ UNCHANGED <<listening, handlers, health, target, tcpdump, pending, hurry, packets>>

Register_OnlyFirst(c) == IF handlers = <<>> THEN <<c>> ELSE handlers
Register(c) == Append(handlers, c)

RegisterHandler(t) ==
    /\ pc[t] = "register"
    /\ handlers' = Register(target[t])
    /\ pc' = [pc EXCEPT ![t] = "idle"]
    /\ target' = [target EXCEPT ![t] = None]
    /\ UNCHANGED <<listening, started, health, loops, packets>>

-----------------------------------------------------------------------------
(* _capture_loop() *)

\* Without a tcpdump binary the thread returns, for good.
Find(t) ==
    /\ loop[t] = "find"
    /\ tcpdump_available' \in BOOLEAN
    /\ Goto(t, IF tcpdump_available' THEN "spawn" ELSE "returned")
    /\ UNCHANGED <<listening, started, handlers, capture_running, callers,
                   tcpdump, pending, hurry, packets>>

\* Popen may raise; proc is None then.
Spawn(t) ==
    /\ loop[t] = "spawn"
    /\ \/ tcpdump' = [tcpdump EXCEPT ![t] = "live"] /\ Goto(t, "header")
       \/ UNCHANGED tcpdump /\ Goto(t, "cleanup")
    /\ UNCHANGED <<listening, started, handlers, health, callers, pending, hurry, packets>>

Header(t) ==
    /\ loop[t] = "header"
    /\ capture_running' = TRUE
    /\ Goto(t, "stream")
    /\ UNCHANGED <<listening, started, handlers, tcpdump_available, callers,
                   tcpdump, pending, hurry, packets>>

\* The pipe is closed before the global header is complete: `continue` runs
\* the finally block and skips the sleep.
AfterHeaderEof_Return(t) == Goto(t, "returned") /\ UNCHANGED hurry
AfterHeaderEof(t) == Goto(t, "cleanup") /\ hurry' = [hurry EXCEPT ![t] = TRUE]

HeaderEof(t) ==
    /\ loop[t] = "header"
    /\ tcpdump[t] = "dead"
    /\ AfterHeaderEof(t)
    /\ UNCHANGED <<listening, started, handlers, health, callers,
                   tcpdump, pending, packets>>

\* One record is read (a dead tcpdump may leave some in the pipe) and
\* _dispatch() takes its copy of the handlers.
Record(t) ==
    /\ loop[t] = "stream"
    /\ read < MaxPackets
    /\ read' = read + 1
    /\ pending' = [pending EXCEPT ![t] = handlers]
    /\ Goto(t, "dispatch")
    /\ UNCHANGED <<listening, started, handlers, health, callers, tcpdump, hurry, got>>

Eof(t) ==
    /\ loop[t] = "stream"
    /\ tcpdump[t] = "dead"
    /\ Goto(t, "cleanup")
    /\ UNCHANGED <<listening, started, handlers, health, callers,
                   tcpdump, pending, hurry, packets>>

\* A handler returns or raises; either way the next one is called.
AfterHandler_Stops(rest, raised) == IF raised THEN <<>> ELSE Tail(rest)
AfterHandler(rest, raised) == Tail(rest)

Handle(t) ==
    /\ loop[t] = "dispatch"
    /\ IF pending[t] = <<>>
       THEN Goto(t, "stream") /\ UNCHANGED <<pending, got>>
       ELSE /\ got' = [got EXCEPT ![Head(pending[t])] = Append(@, read)]
            /\ \E raised \in BOOLEAN :
                  pending' = [pending EXCEPT ![t] = AfterHandler(@, raised)]
            /\ UNCHANGED loop
    /\ UNCHANGED <<listening, started, handlers, health, callers, tcpdump, hurry, read>>

\* The finally block: clear the flag, terminate, ...
Cleanup(t) ==
    /\ loop[t] = "cleanup"
    /\ capture_running' = FALSE
    /\ tcpdump' = [tcpdump EXCEPT ![t] = IF @ = "live" THEN "term" ELSE @]
    /\ Goto(t, "wait")
    /\ UNCHANGED <<listening, started, handlers, tcpdump_available, callers,
                   pending, hurry, packets>>

\* ... wait for at most 2 s, and go on whatever has become of the process.
Wait(t) ==
    /\ loop[t] = "wait"
    /\ tcpdump' = [tcpdump EXCEPT ![t] = "none"]
    /\ Goto(t, IF hurry[t] THEN "spawn" ELSE "sleep")
    /\ hurry' = [hurry EXCEPT ![t] = FALSE]
    /\ UNCHANGED <<listening, started, handlers, health, callers, pending, packets>>

Sleep(t) ==
    /\ loop[t] = "sleep"
    /\ Goto(t, "spawn")
    /\ UNCHANGED <<listening, started, handlers, health, callers,
                   tcpdump, pending, hurry, packets>>

\* tcpdump exits by itself: no permission, interface gone, killed.
Exit(t) ==
    /\ tcpdump[t] \in {"live", "term"}
    /\ tcpdump' = [tcpdump EXCEPT ![t] = "dead"]
    /\ UNCHANGED <<listening, started, handlers, health, callers,
                   loop, pending, hurry, packets>>

-----------------------------------------------------------------------------
Call(t) == StartListener(t) \/ RegisterHandler(t)
CaptureLoop(t) ==
    \/ Find(t) \/ Spawn(t) \/ Header(t) \/ HeaderEof(t) \/ Record(t)
    \/ Eof(t) \/ Handle(t) \/ Cleanup(t) \/ Wait(t) \/ Sleep(t)

Next ==
    \/ \E t \in Caller : Call(t) \/ CaptureLoop(t) \/ Exit(t)
    \/ \E t \in Caller, c \in Consumer : Listen(t, c)

Spec == Init /\ [][Next]_vars

\* Every thread keeps running.  No fairness on requests, and none on tcpdump:
\* it may stay up, or die after every restart.
Fairness == \A t \in Caller : WF_vars(Call(t)) /\ WF_vars(CaptureLoop(t))
FairSpec == Spec /\ Fairness

-----------------------------------------------------------------------------
\* Types of the dispatcher's and its callers' state.
TypeOK ==
    /\ listening \subseteq Consumer
    /\ started \in BOOLEAN
    /\ handlers \in Seq(Consumer)
    /\ tcpdump_available \in BOOLEAN \cup {None}
    /\ capture_running \in BOOLEAN
    /\ pc \in [Caller -> {"idle", "start", "register"}]
    /\ target \in [Caller -> Consumer \cup {None}]
    /\ loop \in [Caller -> {"none", "find", "returned", "spawn", "header", "stream",
                            "dispatch", "cleanup", "wait", "sleep"}]
    /\ tcpdump \in [Caller -> {"none", "live", "term", "dead"}]
    /\ pending \in [Caller -> Seq(Consumer)]
    /\ hurry \in [Caller -> BOOLEAN]
    /\ read \in 0..MaxPackets
    /\ got \in [Consumer -> Seq(1..MaxPackets)]

\* "This module runs a single unfiltered tcpdump instead" (dispatcher.py:8),
\* however many consumers and requests start the listener at once.
SingleCapture == Cardinality({t \in Caller : tcpdump[t] = "live"}) <= 1

\* A consumer that gets packets gets every one that is read from then on, once
\* and in order: no second registration doubles it, "one handler raising doesn't
\* stop the others" (dispatcher.py:16), and it lags by the packet being
\* dispatched at most.
EveryPacketOnce ==
    \A c \in Consumer : got[c] # <<>> =>
        LET upTo(n) == [i \in 1..(n - got[c][1] + 1) |-> got[c][1] + i - 1]
        IN  \/ got[c] = upTo(read)
            \/ \E t \in Caller : c \in ToSet(pending[t]) /\ got[c] = upTo(read - 1)

\* A consumer whose flag is set, so that no later call registers it again, does
\* get its handler registered.
ListeningIsRegistered ==
    \A c \in Consumer : c \in listening ~> c \in ToSet(handlers)

\* The loss of tcpdump, "a new failure mode this consolidation introduces"
\* (dispatcher.py:34), is visible in get_health(), and the capture is tried
\* again, after a death before the first byte too.
LossHandled ==
    \A t \in Caller : /\ tcpdump[t] = "dead" ~> ~capture_running
                      /\ tcpdump[t] = "dead" ~> loop[t] = "spawn"
=============================================================================
