-------------------------------- MODULE Mtr --------------------------------
(***************************************************************************)
(* backend/tools/mtr.py: like the port scan, but a superseded reader is    *)
(* recognised by the host it was started for.                              *)
(***************************************************************************)
EXTENDS ToolJob

Start(r) == StartProcess(r, HostOf[r]) \/ StartFails(r)

Stop == StopProcess(TRUE)

ReaderEnd_OnlyCurrent(r) ==
    /\ pc[r] = "read" /\ proc[r] = "dead"
    /\ Current(r)
    /\ End(r, {shown, {r}})
\* _reader_loop: a stopped or failed run, or one whose report does not parse,
\* publishes no hops.
ReaderEnd(r) ==
    /\ pc[r] = "read" /\ proc[r] = "dead"
    /\ \/ ~Current(r) /\ Leave(r)
       \/ Current(r) /\ stopped /\ End(r, {shown})
       \/ Current(r) /\ ~stopped /\ End(r, {shown, {r}})

Next == \/ \E r \in Run : \/ Start(r) \/ ReaderEnd(r)
                          \/ Exit(r, "live") \/ Exit(r, "term")
        \/ Stop
=============================================================================
