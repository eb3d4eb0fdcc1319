----------------------------- MODULE ModbusPoll -----------------------------
(***************************************************************************)
(* backend/tools/modbus_poll.py: the thread reads the registers itself;    *)
(* stop() bumps session_id and clears `running` at once, so an answer that *)
(* is still on its way must not be counted.                                *)
(***************************************************************************)
EXTENDS ToolJob

Start(r) == StartThread(r)

Stop == StopThread

\* The look before the request, ...
PollRound(r) ==
    \/ Proceed(r)
    \/ pc[r] = "read" /\ ~Current(r) /\ Leave(r)

\* ... and the one after the answer, which may come long after a stop().
PollAnswer(r) ==
    /\ pc[r] = "await"
    /\ \/ ~Current(r) /\ Leave(r)
       \/ Current(r) /\ Report(r, shown \cup {r})

Next == (\E r \in Run : Start(r) \/ PollRound(r) \/ PollAnswer(r)) \/ Stop
=============================================================================
