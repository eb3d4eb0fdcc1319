--------------------------- MODULE ModbusUnitScan ---------------------------
(***************************************************************************)
(* backend/tools/modbus_unit_scan.py: one read per unit ID; the thread     *)
(* ends by itself after the last one.                                      *)
(***************************************************************************)
EXTENDS ToolJob

Start(r) == StartThread(r)

Stop == StopThread

\* One unit ID of _run_scan: the look before the read, ...
ProbeUnit(r) ==
    \/ Proceed(r)
    \/ pc[r] = "read" /\ ~Current(r) /\ Leave(r)

\* ... and the one before its result is appended.
UnitAnswer(r) ==
    /\ pc[r] = "await"
    /\ \/ ~Current(r) /\ Leave(r)
       \/ Current(r) /\ Report(r, shown \cup {r})

\* The end of the range.
ScanEnd(r) ==
    /\ pc[r] = "read" /\ r \in shown
    /\ \/ ~Current(r) /\ Leave(r)
       \/ Current(r) /\ End(r, {shown})

Next == (\E r \in Run : Start(r) \/ ProbeUnit(r) \/ UnitAnswer(r) \/ ScanEnd(r))
        \/ Stop
=============================================================================
