---------------------------- MODULE PortScanner ----------------------------
(***************************************************************************)
(* backend/tools/port_scanner.py: nmap's port table is read in one go when *)
(* the scan has ended (communicate), and a counter, scan_id, tells a       *)
(* superseded reader from the current one.                                 *)
(***************************************************************************)
EXTENDS ToolJob

Start(r) == StartProcess(r, key + 1) \/ StartFails(r)

Stop == StopProcess(TRUE)

\* _reader_loop: a stopped or failed scan publishes no ports.
ReaderEnd(r) ==
    /\ pc[r] = "read" /\ proc[r] = "dead"
    /\ \/ ~Current(r) /\ Leave(r)
       \/ Current(r) /\ stopped /\ End(r, {shown})
       \/ Current(r) /\ ~stopped /\ End(r, {shown, {r}})

Next == \/ \E r \in Run : \/ Start(r) \/ ReaderEnd(r)
                          \/ Exit(r, "live") \/ Exit(r, "term")
        \/ Stop
=============================================================================
