------------------------------ MODULE ToolJob ------------------------------
(***************************************************************************)
(* What the background tools have in common: the module-level _state under *)
(* a _lock, one thread per accepted start(), and for four of them a child  *)
(* process.  Each tool's own module says how its thread and its stop()     *)
(* use them.                                                               *)
(*                                                                         *)
(* Every r \in Run is one accepted start() and the thread it launches.  A  *)
(* block under _lock is one action.  Refused arguments, a missing binary   *)
(* or an eth0 without address change nothing and are stuttering steps.     *)
(* `key` is the field the tool compares to find out that a newer start()   *)
(* took over: a counter (scan_id, session_id) or the host.                 *)
(***************************************************************************)
EXTENDS Naturals, FiniteSets

CONSTANTS Run, None,
          HostOf    \* the host each start() asks for

ASSUME RunAssumption == None \notin Run /\ DOMAIN HostOf = Run

VARIABLES
    running, key, process, stopped,  \* _state
    shown,    \* the published results, by the runs they came from
    latest,   \* history: the last accepted start()
    pc,       \* of each thread: idle, read, await (between two looks), done
    token,    \* the key a thread was given
    proc      \* its child: none, live, term (signalled), dead (output at its end)

toolVars == <<running, key, process, stopped, shown, latest, pc, token, proc>>

Init ==
    /\ running = FALSE /\ key = 0 /\ process = None /\ stopped = FALSE
    /\ shown = {} /\ latest = None
    /\ pc = [r \in Run |-> "idle"]
    /\ token = [r \in Run |-> 0]
    /\ proc = [r \in Run |-> "none"]

Current(r) == key = token[r]
Working(r) == pc[r] \in {"read", "await"}
Goto(r, label) == pc' = [pc EXCEPT ![r] = label]
Terminate(p) == [proc EXCEPT ![p] = IF @ = "live" THEN "term" ELSE @]
\* What start() and stop() signal: the child of the run shown as running.
Interrupted == IF process # None /\ running THEN Terminate(process) ELSE proc

\* The _state.update of a start(), and its thread.
Launch(r, k) ==
    /\ running' = TRUE /\ key' = k /\ stopped' = FALSE
    /\ shown' = {} /\ latest' = r
    /\ token' = [token EXCEPT ![r] = k]
    /\ Goto(r, "read")

\* start() of the tools with a child process, all of it under _lock: interrupt
\* the old child, spawn the new one.
StartProcess(r, k) ==
    /\ pc[r] = "idle"
    /\ process' = r
    /\ proc' = [Interrupted EXCEPT ![r] = "live"]
    /\ Launch(r, k)

\* Popen raised OSError: the old child has been interrupted all the same.
StartFails(r) ==
    /\ pc[r] = "idle"
    /\ proc' = Interrupted
    /\ Goto(r, "done")
    /\ UNCHANGED <<running, key, process, stopped, shown, latest, token>>

\* stop() of these tools; flag is what it does to _stopped.
StopProcess(flag) ==
    /\ process # None /\ running
    /\ proc' = Terminate(process)
    /\ stopped' = flag
    /\ UNCHANGED <<running, key, process, shown, latest, pc, token>>

\* start() and stop() of the tools whose thread does the work itself.
StartThread(r) ==
    /\ pc[r] = "idle"
    /\ Launch(r, key + 1)
    /\ UNCHANGED <<process, proc>>

StopThread_NoBump ==
    /\ running
    /\ running' = FALSE
    /\ UNCHANGED <<key, process, stopped, shown, latest, pc, token, proc>>
StopThread ==
    /\ running
    /\ key' = key + 1
    /\ running' = FALSE
    /\ UNCHANGED <<process, stopped, shown, latest, pc, token, proc>>

\* The thread finds out that it was superseded.
Leave(r) ==
    /\ Goto(r, "done")
    /\ UNCHANGED <<running, key, process, stopped, shown, latest, token, proc>>

\* The thread finds itself current and goes on without _lock: it parses a line,
\* or waits for the answer to a request.
Proceed(r) ==
    /\ pc[r] = "read"
    /\ Current(r)
    /\ Goto(r, "await")
    /\ UNCHANGED <<running, key, process, stopped, shown, latest, token, proc>>

\* The thread publishes results of its run and goes on.
Report(r, results) ==
    /\ shown' = results
    /\ Goto(r, "read")
    /\ UNCHANGED <<running, key, process, stopped, latest, token, proc>>

\* The thread's last block: it clears `running`, with results or without.
End(r, results) ==
    /\ running' = FALSE
    /\ shown' \in results
    /\ Goto(r, "done")
    /\ UNCHANGED <<key, process, stopped, latest, token, proc>>

\* A child process exits and its output comes to an end: in state "live" by
\* itself, in state "term" because it was signalled.
Exit(r, status) ==
    /\ proc[r] = status
    /\ proc' = [proc EXCEPT ![r] = "dead"]
    /\ UNCHANGED <<running, key, process, stopped, shown, latest, pc, token>>

-----------------------------------------------------------------------------
\* Types of a tool's _state and of its threads.
TypeOK ==
    /\ running \in BOOLEAN /\ stopped \in BOOLEAN
    /\ process \in Run \cup {None} /\ latest \in Run \cup {None}
    /\ shown \subseteq Run
    /\ pc \in [Run -> {"idle", "read", "await", "done"}]
    /\ proc \in [Run -> {"none", "live", "term", "dead"}]

\* "superseded by a newer ping session" (ping.py): the results on display come
\* from the latest start() and from no thread that it replaced.
OnlyLatestShown == shown \subseteq {latest}

\* status() and the thread of the latest start() agree: `running` is set as long
\* as that thread is at work and will write to _state again, and no longer.
RunningIsLatest ==
    running <=> latest # None /\ Working(latest) /\ Current(latest)

\* Every tool keeps the promise of Job.
Promise == INSTANCE Job
JobSpec == Promise!Spec
=============================================================================
