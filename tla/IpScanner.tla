----------------------------- MODULE IpScanner -----------------------------
(***************************************************************************)
(* backend/tools/ip_scanner.py: nmap's host lines are published as they    *)
(* arrive; a superseded reader leaves at its next line without waiting for *)
(* its child.                                                              *)
(***************************************************************************)
EXTENDS ToolJob

Start(r) == StartProcess(r, key + 1) \/ StartFails(r)

Stop == StopProcess(stopped)

\* One line of nmap's output: a superseded reader leaves, ...
ReaderLine(r) ==
    /\ pc[r] = "read" /\ proc[r] # "dead"
    /\ \/ ~Current(r) /\ Leave(r)
       \/ Proceed(r)

\* ... a host or MAC line publishes this reader's list, any other line nothing.
PublishHosts(r) ==
    /\ pc[r] = "await"
    /\ \/ Current(r) /\ Report(r, {r})
       \/ Report(r, shown)

ReaderEnd_NoGuard(r) ==
    /\ pc[r] = "read" /\ proc[r] = "dead"
    /\ End(r, {shown})
\* The end of the output, and process.wait().
ReaderEnd(r) ==
    /\ pc[r] = "read" /\ proc[r] = "dead"
    /\ \/ ~Current(r) /\ Leave(r)
       \/ Current(r) /\ End(r, {shown})

Next == \/ \E r \in Run : \/ Start(r) \/ ReaderLine(r) \/ PublishHosts(r) \/ ReaderEnd(r)
                          \/ Exit(r, "live") \/ Exit(r, "term")
        \/ Stop
=============================================================================
