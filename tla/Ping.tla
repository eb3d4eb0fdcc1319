-------------------------------- MODULE Ping --------------------------------
(***************************************************************************)
(* backend/tools/ping.py: reply lines update the statistics as they        *)
(* arrive, the summary overwrites them at the end; a superseded reader is  *)
(* recognised by the host it was started for.                              *)
(***************************************************************************)
EXTENDS ToolJob

Start(r) == StartProcess(r, HostOf[r]) \/ StartFails(r)

Stop == StopProcess(stopped)

\* One reply line.
ReaderLine(r) ==
    /\ pc[r] = "read" /\ proc[r] # "dead"
    /\ \/ ~Current(r) /\ Leave(r)
       \/ Current(r) /\ Report(r, shown \cup {r})

\* The end of the output: `running` is cleared, and ping's summary, when there
\* is one, replaces the live numbers.
ReaderEnd(r) ==
    /\ pc[r] = "read" /\ proc[r] = "dead"
    /\ \/ ~Current(r) /\ Leave(r)
       \/ Current(r) /\ End(r, {shown, shown \cup {r}})

Next == \/ \E r \in Run : \/ Start(r) \/ ReaderLine(r) \/ ReaderEnd(r)
                          \/ Exit(r, "live") \/ Exit(r, "term")
        \/ Stop
=============================================================================
