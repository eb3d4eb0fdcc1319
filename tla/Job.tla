-------------------------------- MODULE Job --------------------------------
(***************************************************************************)
(* What every background tool of LanPi promises (ping, mtr, port scan, IP  *)
(* scan, Modbus polling and scans): one run at a time.  A start() replaces *)
(* the run and clears the published results, results are only ever those   *)
(* of the latest run and only while it runs, and a run ends once.          *)
(***************************************************************************)
CONSTANTS Run,   \* start() calls that were accepted
          None

VARIABLES latest,   \* the last accepted start(), or None
          running,  \* what status() reports
          shown     \* the runs whose output is in the published results

jobVars == <<latest, running, shown>>

Init == latest = None /\ running = FALSE /\ shown = {}

Start(r) ==
    /\ r # latest
    /\ latest' = r /\ running' = TRUE /\ shown' = {}

Publish ==
    /\ running
    /\ shown' = shown \cup {latest}
    /\ UNCHANGED <<latest, running>>

\* The end of a run may come with its results.
Finish ==
    /\ running
    /\ running' = FALSE
    /\ shown' \in {shown, shown \cup {latest}}
    /\ UNCHANGED latest

Next == (\E r \in Run : Start(r)) \/ Publish \/ Finish

Spec == Init /\ [][Next]_jobVars
=============================================================================
