------------------------------ MODULE MCTools ------------------------------
(***************************************************************************)
(* backend/tools side by side, and a page that follows one of them.  They  *)
(* share no state, so one behaviour is a behaviour of one of them: `tool`  *)
(* is chosen at the start and says which.                                  *)
(***************************************************************************)
EXTENDS ToolJob, RegisterScan, ModbusClient, S7Client, ProfinetScan, StatusPage

CONSTANTS Tools,      \* the tools a run is about
          ScanRuns    \* bound: the start()s of the register scan
VARIABLE tool

PortScanner == INSTANCE PortScanner
IpScanner == INSTANCE IpScanner
Mtr == INSTANCE Mtr
Ping == INSTANCE Ping
ModbusPoll == INSTANCE ModbusPoll
ModbusUnitScan == INSTANCE ModbusUnitScan

DistinctHosts == [r \in Run |-> r]
OneHost == [r \in Run |-> "plc"]

\* Devices of a register scan: with a hole, with a readable middle; with nothing.
PatchyDevices ==
    {[a \in Addresses |-> a \in readable] :
        readable \in {Addresses \ {2}, {1, 2}}}
EmptyDevice == {[a \in Addresses |-> FALSE]}

\* Responses to a PROFINET scan: odd lengths, a field twice, a field too short,
\* each cut at several places; another frame.
Frame(mac, identify, blocks, data_len, size) ==
    [mac |-> mac, identify |-> identify, blocks |-> blocks,
     data_len |-> data_len, size |-> size]
Part(field, length) == [field |-> field, length |-> length]
Responses ==
    LET twice == <<Part("name", 3), Part("id", 6), Part("name", 4)>>
        short == <<Part("id", 4), Part("name", 5), Part("ip", 14)>>
        first == CHOOSE m \in Station : TRUE
    IN  {Frame(first, TRUE, twice, 26, n) : n \in {9, 19, 26, 40}}
        \cup {Frame(first, TRUE, short, l, n) : l \in {20, 35}, n \in {9, 19, 36, 40}}
        \cup {Frame(m, TRUE, short, 36, 40) : m \in Station \ {first}}
        \cup {Frame(first, FALSE, twice, 26, 26)}

-----------------------------------------------------------------------------
toolsVars == <<toolVars, scanVars, modbusVars, s7Vars, profinetVars, pageVars, tool>>

\* What the other parts start with makes no difference; nor which transaction id
\* comes first, if only it wraps round.
ToolsInit ==
    /\ ScanInit /\ ModbusClientInit /\ S7Init /\ ProfinetInit /\ PageInit
    /\ tool \in Tools
    /\ device = (CHOOSE d \in Devices : TRUE) \/ tool = "registers"
    /\ transaction_id = IdModulus - 2
    /\ (kind = "clear" /\ ~active) \/ tool = "page"

\* A step of one tool, the others standing still.
OfJob(t, A) ==
    tool = t /\ A /\ UNCHANGED <<scanVars, modbusVars, s7Vars, profinetVars, pageVars, tool>>
OfRegisters(A) ==
    tool = "registers" /\ A /\ UNCHANGED <<modbusVars, s7Vars, profinetVars, pageVars, tool>>
OfModbus(A) ==
    tool = "modbus" /\ A /\ UNCHANGED <<toolVars, scanVars, s7Vars, profinetVars, pageVars, tool>>
OfS7(A) ==
    tool = "s7" /\ A /\ UNCHANGED <<toolVars, scanVars, modbusVars, profinetVars, pageVars, tool>>
OfProfinet(A) ==
    tool = "profinet" /\ A /\ UNCHANGED <<toolVars, scanVars, modbusVars, s7Vars, pageVars, tool>>
OfPage(A) ==
    tool = "page" /\ A /\ UNCHANGED <<toolVars, scanVars, modbusVars, s7Vars, profinetVars, tool>>

ToolsNext ==
    \/ OfJob("port", PortScanner!Next)
    \/ OfJob("ip", IpScanner!Next)
    \/ OfJob("mtr", Mtr!Next)
    \/ OfJob("ping", Ping!Next)
    \/ OfJob("poll", ModbusPoll!Next)
    \/ OfJob("units", ModbusUnitScan!Next)
    \/ OfRegisters(ScanNext /\ \A r \in Run \ ScanRuns : pc'[r] = "idle")
    \/ OfModbus(ModbusClientNext)
    \/ OfS7(S7Next)
    \/ OfProfinet(ProfinetNext)
    \/ OfPage(PageNext)

\* The thread of a start() keeps working.
Worker(r) ==
    \/ OfJob("port", PortScanner!ReaderEnd(r))
    \/ OfJob("ip", IpScanner!ReaderEnd(r) \/ IpScanner!PublishHosts(r))
    \/ OfJob("mtr", Mtr!ReaderEnd(r))
    \/ OfJob("ping", Ping!ReaderEnd(r))
    \/ OfJob("poll", ModbusPoll!PollRound(r) \/ ModbusPoll!PollAnswer(r))
    \/ OfJob("units", ModbusUnitScan!ProbeUnit(r) \/ ModbusUnitScan!UnitAnswer(r))
    \/ OfRegisters(Thread(r))

\* A thread works, a signalled child exits, a call goes on (its sockets have a
\* timeout) and time passes; the page as in PageFairness.
ToolsFairness ==
    /\ \A r \in Run : WF_toolsVars(Worker(r))
    /\ \A r \in Run : WF_toolsVars(tool # "page" /\ Exit(r, "term")
                                   /\ UNCHANGED <<scanVars, modbusVars, s7Vars, profinetVars, pageVars, tool>>)
    /\ WF_toolsVars(OfModbus(ModbusThread) \/ OfS7(S7Thread) \/ OfProfinet(ProfinetThread)
                    \/ OfPage(ServePolls))
    /\ WF_toolsVars(OfProfinet(DeadlinePasses) \/ OfPage(Arrivals))
    /\ WF_toolsVars(OfPage(ServeClicks))
    /\ SF_toolsVars(OfPage(Tick)) /\ SF_toolsVars(OfPage(Refresh))
    /\ SF_toolsVars(OfPage(PollsArrive))

ToolsSpec == ToolsInit /\ [][ToolsNext]_toolsVars /\ ToolsFairness

-----------------------------------------------------------------------------
\* What has to come to an end: the thread of a start() that stop() or a newer
\* start() interrupted (the child was signalled or, where there is none, the key
\* has moved on) or whose child has exited; a register scan; a client's call.
MustEnd ==
    \/ \E r \in Run :
          /\ Working(r)
          /\ \/ proc[r] \in {"term", "dead"}
             \/ proc[r] = "none" /\ ~Current(r)
             \/ tool = "registers"
    \/ call.pc \notin {"idle", "done"}
    \/ s7.pc \notin {"idle", "done"}
    \/ scan \notin {"idle", "done", "raised"}

(* Nobody works for ever: threads that were interrupted or have lost their  *)
(* child end, whichever start() came later; a register scan and a call of   *)
(* the Modbus, S7 and PROFINET clients end whatever the device sends        *)
(* meanwhile (modbus.py:303, s7_diag.py:316, profinet_scan.py:315).         *)
ThreadsEnd == MustEnd ~> ~MustEnd
=============================================================================
