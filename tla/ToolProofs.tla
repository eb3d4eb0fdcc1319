----------------------------- MODULE ToolProofs -----------------------------
(***************************************************************************)
(* Proofs about the background tools, for any number of start() calls and  *)
(* of threads at work at the same time: each of them keeps the promise of  *)
(* Job.tla, and its `running` is that of the latest start().               *)
(*                                                                         *)
(* The tools differ in when their threads look at _state.  What the proofs *)
(* need of that is ToolStep: every step of every tool is one of its        *)
(* disjuncts, so the invariant is shown to be kept only once.              *)
(*                                                                         *)
(* The register scan is one more of them; about its blocks and segments it *)
(* is shown that they tile the range, and that merging keeps what they say.*)
(***************************************************************************)
EXTENDS RegisterScan, FoldTheorems

PortScanner == INSTANCE PortScanner
IpScanner == INSTANCE IpScanner
Mtr == INSTANCE Mtr
Ping == INSTANCE Ping
ModbusPoll == INSTANCE ModbusPoll
ModbusUnitScan == INSTANCE ModbusUnitScan

\* The tools whose key is a counter, and those whose key is the host.
CounterTool == {"port", "ip", "poll", "units"}
HostTool == {"mtr", "ping"}

ToolNext(t) ==
    \/ t = "port" /\ PortScanner!Next
    \/ t = "ip" /\ IpScanner!Next
    \/ t = "mtr" /\ Mtr!Next
    \/ t = "ping" /\ Ping!Next
    \/ t = "poll" /\ ModbusPoll!Next
    \/ t = "units" /\ ModbusUnitScan!Next

ToolSpec(t) == Init /\ [][ToolNext(t)]_toolVars

DistinctHosts == \A q, r \in Run : HostOf[q] = HostOf[r] => q = r

-----------------------------------------------------------------------------
\* No thread that is still at work was given this key.
Fresh(k) == \A q \in Run : Working(q) => token[q] # k

\* What the steps of all tools have in common.
CommonStep ==
    \/ \E r \in Run : StartFails(r)
    \/ \E flag \in {TRUE, stopped} : StopProcess(flag)
    \/ \E r \in Run : Working(r) /\ ~Current(r) /\ Leave(r)
    \/ \E r \in Run : Proceed(r)
    \/ \E r \in Run : Working(r) /\ Report(r, shown)
    \/ \E r \in Run : Working(r) /\ Current(r) /\ Report(r, shown \cup {r})
    \/ \E r \in Run : Working(r) /\ Current(r) /\ Report(r, {r})
    \/ \E r \in Run : Working(r) /\ Current(r) /\ End(r, {shown, {r}, shown \cup {r}})
    \/ \E r \in Run, status \in {"live", "term"} : Exit(r, status)

\* The steps of a tool whose key is a counter, and of one whose key is the host.
CounterStep ==
    \/ \E r \in Run : StartProcess(r, key + 1) \/ StartThread(r)
    \/ StopThread
    \/ CommonStep
HostStep ==
    \/ \E r \in Run : StartProcess(r, HostOf[r])
    \/ CommonStep

\* A step of either kind that takes a fresh key where it takes one.
ToolStep ==
    \/ \E r \in Run : \E k \in {key + 1, HostOf[r]} : Fresh(k) /\ StartProcess(r, k)
    \/ Fresh(key + 1) /\ \E r \in Run : StartThread(r)
    \/ Fresh(key + 1) /\ StopThread
    \/ CommonStep

\* A thread that would still write to _state belongs to the latest start(), and
\* `running` says that there is one.
OwnsState == \A r \in Run : Working(r) /\ Current(r) => running /\ latest = r
RunningWorks == running => latest \in Run /\ Working(latest) /\ Current(latest)

\* A start() happens once.
LatestBegun == latest # None => latest \in Run /\ pc[latest] # "idle"

ToolInv ==
    /\ TypeOK
    /\ DOMAIN token = Run
    /\ OwnsState /\ RunningWorks /\ LatestBegun
    /\ OnlyLatestShown

\* What makes a key fresh: a counter that is never behind a token, or hosts that
\* tell the threads apart.
CounterInv == key \in Nat /\ \A q \in Run : Working(q) => token[q] \in Nat /\ token[q] <= key
HostInv == \A q \in Run : Working(q) => token[q] = HostOf[q]
KeyInv(t) == IF t \in CounterTool THEN CounterInv ELSE HostInv

-----------------------------------------------------------------------------
\* Before the first start() nothing runs.
LEMMA InitToolInv == Init => ToolInv /\ CounterInv /\ HostInv
  <1> SUFFICES ASSUME Init PROVE ToolInv /\ CounterInv /\ HostInv
    OBVIOUS
  <1>1. \A r \in Run : ~Working(r)
    BY DEF Init, Working
  <1>2. TypeOK /\ DOMAIN token = Run
    BY DEF Init, TypeOK
  <1>3. OwnsState /\ RunningWorks /\ LatestBegun /\ OnlyLatestShown
    BY <1>1 DEF Init, OwnsState, RunningWorks, LatestBegun, OnlyLatestShown
  <1>4. CounterInv /\ HostInv
    BY <1>1 DEF Init, CounterInv, HostInv
  <1>5. QED
    BY <1>2, <1>3, <1>4 DEF ToolInv

\* Each step of a tool is typed.
LEMMA StepTypeOK == ASSUME ToolInv, ToolStep PROVE TypeOK' /\ (DOMAIN token = Run)'
  <1> USE RunAssumption DEF ToolInv, TypeOK, Goto, Terminate, Interrupted
  <1>1. ASSUME NEW r \in Run, NEW k, StartProcess(r, k)
        PROVE  TypeOK' /\ (DOMAIN token = Run)'
    BY <1>1 DEF StartProcess, Launch
  <1>2. ASSUME NEW r \in Run, StartFails(r) PROVE TypeOK' /\ (DOMAIN token = Run)'
    BY <1>2 DEF StartFails
  <1>3. ASSUME NEW flag \in {TRUE, stopped}, StopProcess(flag) PROVE TypeOK' /\ (DOMAIN token = Run)'
    BY <1>3 DEF StopProcess
  <1>4. ASSUME NEW r \in Run, StartThread(r) PROVE TypeOK' /\ (DOMAIN token = Run)'
    BY <1>4 DEF StartThread, Launch
  <1>5. ASSUME StopThread PROVE TypeOK' /\ (DOMAIN token = Run)'
    BY <1>5 DEF StopThread
  <1>6. ASSUME NEW r \in Run, Leave(r) PROVE TypeOK' /\ (DOMAIN token = Run)'
    BY <1>6 DEF Leave
  <1>7. ASSUME NEW r \in Run, Proceed(r) PROVE TypeOK' /\ (DOMAIN token = Run)'
    BY <1>7 DEF Proceed
  <1>8. ASSUME NEW r \in Run, NEW s \in {shown, shown \cup {r}, {r}}, Report(r, s)
        PROVE  TypeOK' /\ (DOMAIN token = Run)'
    BY <1>8 DEF Report
  <1>9. ASSUME NEW r \in Run, End(r, {shown, {r}, shown \cup {r}})
        PROVE  TypeOK' /\ (DOMAIN token = Run)'
    BY <1>9 DEF End
  <1>10. ASSUME NEW r \in Run, NEW status, Exit(r, status)
         PROVE  TypeOK' /\ (DOMAIN token = Run)'
    BY <1>10 DEF Exit
  <1>11. QED
    BY <1>1, <1>2, <1>3, <1>4, <1>5, <1>6, <1>7, <1>8, <1>9, <1>10 DEF ToolStep, CommonStep

\* The thread of the latest start() is the one that writes, through every step.
LEMMA StepOwns == ASSUME ToolInv, ToolStep PROVE OwnsState' /\ RunningWorks' /\ LatestBegun'
  <1> USE RunAssumption DEF ToolInv, TypeOK, Goto, OwnsState, RunningWorks, LatestBegun,
                            Working, Current
  <1> DEFINE Goal == OwnsState' /\ RunningWorks' /\ LatestBegun'
  <1>1. ASSUME NEW r \in Run, NEW k, Fresh(k), StartProcess(r, k) PROVE Goal
    BY <1>1 DEF StartProcess, Launch, Fresh
  <1>2. ASSUME NEW r \in Run, StartFails(r) PROVE Goal
    BY <1>2 DEF StartFails
  <1>3. ASSUME NEW flag \in {TRUE, stopped}, StopProcess(flag) PROVE Goal
    BY <1>3 DEF StopProcess
  <1>4. ASSUME NEW r \in Run, Fresh(key + 1), StartThread(r) PROVE Goal
    BY <1>4 DEF StartThread, Launch, Fresh
  <1>5. ASSUME Fresh(key + 1), StopThread PROVE Goal
    BY <1>5 DEF StopThread, Fresh
  <1>6. ASSUME NEW r \in Run, ~Current(r), Leave(r) PROVE Goal
    BY <1>6 DEF Leave
  <1>7. ASSUME NEW r \in Run, Proceed(r) PROVE Goal
    BY <1>7 DEF Proceed
  <1>8. ASSUME NEW r \in Run, NEW s, Working(r), Report(r, s) PROVE Goal
    BY <1>8 DEF Report
  <1>9. ASSUME NEW r \in Run, Working(r), Current(r), End(r, {shown, {r}, shown \cup {r}})
        PROVE  Goal
    BY <1>9 DEF End
  <1>10. ASSUME NEW r \in Run, NEW status, Exit(r, status) PROVE Goal
    BY <1>10 DEF Exit
  <1> HIDE DEF ToolInv, TypeOK, Goto, OwnsState, RunningWorks, LatestBegun, Working, Current
  <1>11. QED
    BY <1>1, <1>2, <1>3, <1>4, <1>5, <1>6, <1>7, <1>8, <1>9, <1>10 DEF ToolStep, CommonStep

\* A step of a tool is a step of Job, or leaves what Job shows alone.
LEMMA StepImplements == ASSUME ToolInv, ToolStep PROVE [Promise!Next]_(Promise!jobVars)
  <1> USE RunAssumption DEF ToolInv, TypeOK, Promise!jobVars
  <1> DEFINE Goal == Promise!Next \/ UNCHANGED Promise!jobVars
  <1>1. ASSUME NEW r \in Run, NEW k, pc[r] = "idle", Launch(r, k) PROVE Promise!Start(r)
    BY <1>1 DEF Launch, LatestBegun, Promise!Start
  <1>2. ASSUME NEW r \in Run, StartFails(r) PROVE Goal
    BY <1>2 DEF StartFails
  <1>3. ASSUME NEW flag \in {TRUE, stopped}, StopProcess(flag) PROVE Goal
    BY <1>3 DEF StopProcess
  <1>4. ASSUME StopThread PROVE Promise!Finish
    BY <1>4 DEF StopThread, Promise!Finish
  <1>5. ASSUME NEW r \in Run, Leave(r) PROVE Goal
    BY <1>5 DEF Leave
  <1>6. ASSUME NEW r \in Run, Proceed(r) PROVE Goal
    BY <1>6 DEF Proceed
  <1>7. ASSUME NEW r \in Run, Report(r, shown) PROVE Goal
    BY <1>7 DEF Report
  <1>8. ASSUME NEW r \in Run, Working(r), Current(r) PROVE running /\ latest = r
    BY <1>8 DEF OwnsState
  <1>9. ASSUME NEW r \in Run, Working(r), Current(r), NEW s \in {{r}, shown \cup {r}}, Report(r, s)
        PROVE  Promise!Publish
    BY <1>8, <1>9 DEF Report, OnlyLatestShown, Promise!Publish
  <1>10. ASSUME NEW r \in Run, Working(r), Current(r), End(r, {shown, {r}, shown \cup {r}})
         PROVE  Promise!Finish
    BY <1>8, <1>10 DEF End, OnlyLatestShown, Promise!Finish
  <1>11. ASSUME NEW r \in Run, NEW status, Exit(r, status) PROVE Goal
    BY <1>11 DEF Exit
  <1>12. ASSUME NEW r \in Run, NEW k, StartProcess(r, k) PROVE Goal
    BY <1>1, <1>12 DEF StartProcess, Promise!Next
  <1>13. ASSUME NEW r \in Run, StartThread(r) PROVE Goal
    BY <1>1, <1>13 DEF StartThread, Promise!Next
  <1>14. QED
    BY <1>2, <1>3, <1>4, <1>5, <1>6, <1>7, <1>9, <1>10, <1>11, <1>12, <1>13
       DEF ToolStep, CommonStep, Promise!Next

\* The published results stay those of the latest start().
LEMMA StepShows == ASSUME ToolInv, ToolStep PROVE OnlyLatestShown'
  <1>1. [Promise!Next]_(Promise!jobVars)
    BY StepImplements
  <1>2. OnlyLatestShown
    BY DEF ToolInv
  <1>3. QED
    BY <1>1, <1>2 DEF OnlyLatestShown, Promise!Next, Promise!Start, Promise!Publish,
                      Promise!Finish, Promise!jobVars

\* The invariant is kept.
LEMMA StepToolInv == ASSUME ToolInv, ToolStep PROVE ToolInv'
  BY StepTypeOK, StepOwns, StepShows DEF ToolInv

-----------------------------------------------------------------------------
\* port_scanner.py
LEMMA PortScannerStep == ASSUME PortScanner!Next PROVE CounterStep
  <1> USE DEF PortScanner!Goto, PortScanner!Terminate, PortScanner!Interrupted,
              Goto, Terminate, Interrupted
  <1>1. ASSUME NEW r \in Run, PortScanner!Start(r) PROVE CounterStep
    BY <1>1 DEF PortScanner!Start, PortScanner!StartProcess,
       PortScanner!Launch, PortScanner!StartFails, StartProcess, Launch, StartFails, CounterStep, CommonStep
  <1>2. ASSUME NEW r \in Run, PortScanner!ReaderEnd(r) PROVE CounterStep
    BY <1>2 DEF PortScanner!ReaderEnd, PortScanner!Current, PortScanner!Leave,
       PortScanner!End, Leave, End, Working, Current, CounterStep, CommonStep
  <1>3. ASSUME NEW r \in Run, NEW status \in {"live", "term"}, PortScanner!Exit(r, status)
        PROVE  CounterStep
    BY <1>3 DEF PortScanner!Exit, Exit, CounterStep, CommonStep
  <1>4. ASSUME PortScanner!Stop PROVE CounterStep
    BY <1>4 DEF PortScanner!Stop, PortScanner!StopProcess, StopProcess, CounterStep, CommonStep
  <1>5. QED
    BY <1>1, <1>2, <1>3, <1>4 DEF PortScanner!Next

\* ip_scanner.py
LEMMA IpScannerStep == ASSUME IpScanner!Next PROVE CounterStep
  <1> USE DEF IpScanner!Goto, IpScanner!Terminate, IpScanner!Interrupted, IpScanner!Current,
              Goto, Terminate, Interrupted, Current, Working
  <1>1. ASSUME NEW r \in Run, IpScanner!Start(r) PROVE CounterStep
    BY <1>1 DEF IpScanner!Start, IpScanner!StartProcess, IpScanner!Launch,
       IpScanner!StartFails, StartProcess, Launch, StartFails, CounterStep, CommonStep
  <1>2. ASSUME NEW r \in Run, IpScanner!ReaderLine(r) PROVE CounterStep
    BY <1>2 DEF IpScanner!ReaderLine, IpScanner!Leave, IpScanner!Proceed, Leave, Proceed, CounterStep, CommonStep
  <1>3. ASSUME NEW r \in Run, IpScanner!PublishHosts(r) PROVE CounterStep
    BY <1>3 DEF IpScanner!PublishHosts, IpScanner!Report, Report, CounterStep, CommonStep
  <1>4. ASSUME NEW r \in Run, IpScanner!ReaderEnd(r) PROVE CounterStep
    BY <1>4 DEF IpScanner!ReaderEnd, IpScanner!Leave, IpScanner!End, Leave, End, CounterStep, CommonStep
  <1>5. ASSUME NEW r \in Run, NEW status \in {"live", "term"}, IpScanner!Exit(r, status)
        PROVE  CounterStep
    BY <1>5 DEF IpScanner!Exit, Exit, CounterStep, CommonStep
  <1>6. ASSUME IpScanner!Stop PROVE CounterStep
    BY <1>6 DEF IpScanner!Stop, IpScanner!StopProcess, StopProcess, CounterStep, CommonStep
  <1>7. QED
    BY <1>1, <1>2, <1>3, <1>4, <1>5, <1>6 DEF IpScanner!Next

\* mtr.py
LEMMA MtrStep == ASSUME Mtr!Next PROVE HostStep
  <1> USE DEF Mtr!Goto, Mtr!Terminate, Mtr!Interrupted, Mtr!Current,
              Goto, Terminate, Interrupted, Current, Working
  <1>1. ASSUME NEW r \in Run, Mtr!Start(r) PROVE HostStep
    BY <1>1 DEF Mtr!Start, Mtr!StartProcess, Mtr!Launch, Mtr!StartFails,
       StartProcess, Launch, StartFails, HostStep, CommonStep
  <1>2. ASSUME NEW r \in Run, Mtr!ReaderEnd(r) PROVE HostStep
    BY <1>2 DEF Mtr!ReaderEnd, Mtr!Leave, Mtr!End, Leave, End, HostStep, CommonStep
  <1>3. ASSUME NEW r \in Run, NEW status \in {"live", "term"}, Mtr!Exit(r, status)
        PROVE  HostStep
    BY <1>3 DEF Mtr!Exit, Exit, HostStep, CommonStep
  <1>4. ASSUME Mtr!Stop PROVE HostStep
    BY <1>4 DEF Mtr!Stop, Mtr!StopProcess, StopProcess, HostStep, CommonStep
  <1>5. QED
    BY <1>1, <1>2, <1>3, <1>4 DEF Mtr!Next

\* ping.py
LEMMA PingStep == ASSUME Ping!Next PROVE HostStep
  <1> USE DEF Ping!Goto, Ping!Terminate, Ping!Interrupted, Ping!Current,
              Goto, Terminate, Interrupted, Current, Working
  <1>1. ASSUME NEW r \in Run, Ping!Start(r) PROVE HostStep
    BY <1>1 DEF Ping!Start, Ping!StartProcess, Ping!Launch, Ping!StartFails,
       StartProcess, Launch, StartFails, HostStep, CommonStep
  <1>2. ASSUME NEW r \in Run, Ping!ReaderLine(r) PROVE HostStep
    BY <1>2 DEF Ping!ReaderLine, Ping!Leave, Ping!Report, Leave, Report, HostStep, CommonStep
  <1>3. ASSUME NEW r \in Run, Ping!ReaderEnd(r) PROVE HostStep
    BY <1>3 DEF Ping!ReaderEnd, Ping!Leave, Ping!End, Leave, End, HostStep, CommonStep
  <1>4. ASSUME NEW r \in Run, NEW status \in {"live", "term"}, Ping!Exit(r, status)
        PROVE  HostStep
    BY <1>4 DEF Ping!Exit, Exit, HostStep, CommonStep
  <1>5. ASSUME Ping!Stop PROVE HostStep
    BY <1>5 DEF Ping!Stop, Ping!StopProcess, StopProcess, HostStep, CommonStep
  <1>6. QED
    BY <1>1, <1>2, <1>3, <1>4, <1>5 DEF Ping!Next

\* modbus_poll.py
LEMMA ModbusPollStep == ASSUME ModbusPoll!Next PROVE CounterStep
  <1> USE DEF ModbusPoll!Goto, ModbusPoll!Current,
              Goto, Current, Working
  <1>1. ASSUME NEW r \in Run, ModbusPoll!Start(r) PROVE CounterStep
    BY <1>1 DEF ModbusPoll!Start, ModbusPoll!StartThread, ModbusPoll!Launch, StartThread, Launch, CounterStep, CommonStep
  <1>2. ASSUME NEW r \in Run, ModbusPoll!PollRound(r) PROVE CounterStep
    BY <1>2 DEF ModbusPoll!PollRound, ModbusPoll!Leave, ModbusPoll!Proceed, Leave, Proceed, CounterStep, CommonStep
  <1>3. ASSUME NEW r \in Run, ModbusPoll!PollAnswer(r) PROVE CounterStep
    BY <1>3 DEF ModbusPoll!PollAnswer, ModbusPoll!Leave, ModbusPoll!Report, Leave, Report, CounterStep, CommonStep
  <1>4. ASSUME ModbusPoll!Stop PROVE CounterStep
    BY <1>4 DEF ModbusPoll!Stop, ModbusPoll!StopThread, StopThread, CounterStep, CommonStep
  <1>5. QED
    BY <1>1, <1>2, <1>3, <1>4 DEF ModbusPoll!Next

\* modbus_unit_scan.py
LEMMA ModbusUnitScanStep == ASSUME ModbusUnitScan!Next PROVE CounterStep
  <1> USE DEF ModbusUnitScan!Goto, ModbusUnitScan!Current,
              Goto, Current, Working
  <1>1. ASSUME NEW r \in Run, ModbusUnitScan!Start(r) PROVE CounterStep
    BY <1>1 DEF ModbusUnitScan!Start, ModbusUnitScan!StartThread, ModbusUnitScan!Launch, StartThread, Launch, CounterStep, CommonStep
  <1>2. ASSUME NEW r \in Run, ModbusUnitScan!ProbeUnit(r) PROVE CounterStep
    BY <1>2 DEF ModbusUnitScan!ProbeUnit, ModbusUnitScan!Leave, ModbusUnitScan!Proceed, Leave, Proceed, CounterStep, CommonStep
  <1>3. ASSUME NEW r \in Run, ModbusUnitScan!UnitAnswer(r) PROVE CounterStep
    BY <1>3 DEF ModbusUnitScan!UnitAnswer, ModbusUnitScan!Leave, ModbusUnitScan!Report, Leave, Report, CounterStep, CommonStep
  <1>4. ASSUME NEW r \in Run, ModbusUnitScan!ScanEnd(r) PROVE CounterStep
    BY <1>4 DEF ModbusUnitScan!ScanEnd, ModbusUnitScan!Leave, ModbusUnitScan!End, Leave, End, CounterStep, CommonStep
  <1>5. ASSUME ModbusUnitScan!Stop PROVE CounterStep
    BY <1>5 DEF ModbusUnitScan!Stop, ModbusUnitScan!StopThread, StopThread, CounterStep, CommonStep
  <1>6. QED
    BY <1>1, <1>2, <1>3, <1>4, <1>5 DEF ModbusUnitScan!Next

-----------------------------------------------------------------------------
\* These steps give out no key and put no thread to work.
LEMMA CommonKeepsKeys ==
  ASSUME ToolInv, CommonStep
  PROVE  UNCHANGED <<key, token>> /\ \A q \in Run : Working(q)' => Working(q)
  <1> USE DEF ToolInv, TypeOK, Working, Goto
  <1> QED
    BY DEF CommonStep, StartFails, StopProcess, Leave, Proceed, Report, End, Exit

\* A counter that moves on was given to nobody who is at work.
LEMMA CounterInvStep ==
  ASSUME ToolInv, CounterInv, CounterStep PROVE ToolStep /\ CounterInv'
  <1>1. Fresh(key + 1)
    BY DEF CounterInv, Fresh
  <1>2. ToolStep
    BY <1>1 DEF CounterStep, ToolStep
  <1>3. ASSUME NEW r \in Run, pc[r] = "idle", Launch(r, key + 1) PROVE CounterInv'
    BY <1>3 DEF Launch, Goto, CounterInv, Working, ToolInv, TypeOK
  <1>4. ASSUME StopThread PROVE CounterInv'
    BY <1>4 DEF StopThread, CounterInv, Working
  <1>5. ASSUME CommonStep PROVE CounterInv'
    BY <1>5, CommonKeepsKeys DEF CounterInv
  <1>6. QED
    BY <1>2, <1>3, <1>4, <1>5 DEF CounterStep, StartProcess, StartThread

\* Nor was the host of a start() that is still to come, unless another asked for it.
LEMMA HostInvStep ==
  ASSUME ToolInv, HostInv, DistinctHosts, HostStep PROVE ToolStep /\ HostInv'
  <1>1. ASSUME NEW r \in Run, StartProcess(r, HostOf[r])
        PROVE  Fresh(HostOf[r]) /\ HostInv'
    <2>1. pc[r] = "idle" /\ ~Working(r)
      BY <1>1 DEF StartProcess, Working
    <2>2. Fresh(HostOf[r])
      BY <2>1 DEF HostInv, DistinctHosts, Fresh
    <2>3. HostInv'
      BY <1>1 DEF StartProcess, Launch, Goto, HostInv, Working, ToolInv, TypeOK
    <2>4. QED
      BY <2>2, <2>3
  <1>2. ASSUME CommonStep PROVE HostInv'
    BY <1>2, CommonKeepsKeys DEF HostInv
  <1>3. QED
    BY <1>1, <1>2 DEF HostStep, ToolStep

\* The invariant of a tool is inductive.
LEMMA ToolInductive ==
  ASSUME NEW t \in CounterTool \cup HostTool, t \in HostTool => DistinctHosts
  PROVE  ToolSpec(t) => [](ToolInv /\ KeyInv(t))
  <1>1. Init => ToolInv /\ KeyInv(t)
    BY InitToolInv DEF KeyInv
  <1>2. ASSUME ToolInv, KeyInv(t), ToolNext(t) PROVE (ToolInv /\ KeyInv(t))'
    <2>1. CASE t \in CounterTool
      <3>1. CounterStep
        BY <1>2, <2>1, PortScannerStep, IpScannerStep, ModbusPollStep, ModbusUnitScanStep
           DEF ToolNext, CounterTool
      <3>2. QED
        BY <1>2, <2>1, <3>1, CounterInvStep, StepToolInv DEF KeyInv
    <2>2. CASE t \in HostTool
      <3>1. HostStep /\ t \notin CounterTool
        BY <1>2, <2>2, MtrStep, PingStep DEF ToolNext, HostTool, CounterTool
      <3>2. QED
        BY <1>2, <2>2, <3>1, HostInvStep, StepToolInv DEF KeyInv
    <2>3. QED
      BY <2>1, <2>2
  <1>3. ASSUME ToolInv, KeyInv(t), UNCHANGED toolVars PROVE (ToolInv /\ KeyInv(t))'
    BY <1>3 DEF toolVars, ToolInv, TypeOK, OwnsState, RunningWorks, LatestBegun, OnlyLatestShown,
                KeyInv, CounterInv, HostInv, Working, Current
  <1>4. QED
    BY <1>1, <1>2, <1>3, PTL DEF ToolSpec

-----------------------------------------------------------------------------
(* The tools' _state and threads are typed (port_scanner.py, ip_scanner.py, *)
(* mtr.py, ping.py, modbus_poll.py, modbus_unit_scan.py), whoever calls     *)
(* start() and stop() and when.                                             *)
THEOREM ToolsTyped ==
  ASSUME NEW t \in CounterTool \cup HostTool, t \in HostTool => DistinctHosts
  PROVE  ToolSpec(t) => []TypeOK
  <1>1. ToolInv => TypeOK
    BY DEF ToolInv
  <1>2. QED
    BY <1>1, ToolInductive, PTL

(* status() is right about the latest start(), for every tool and any      *)
(* number of starts and stops: `running` is set exactly as long as its      *)
(* thread will write to _state again, however many superseded threads are   *)
(* still at work (the guards on scan_id and session_id; with ping and mtr   *)
(* the guard on the host, where no two starts ask for the same one).        *)
THEOREM RunningAgrees ==
  ASSUME NEW t \in CounterTool \cup HostTool, t \in HostTool => DistinctHosts
  PROVE  ToolSpec(t) => []RunningIsLatest
  <1>1. ToolInv => RunningIsLatest
    BY RunAssumption DEF ToolInv, TypeOK, OwnsState, RunningWorks, LatestBegun, RunningIsLatest
  <1>2. QED
    BY <1>1, ToolInductive, PTL

(* Every tool keeps the promise of Job: one run at a time, results only of  *)
(* the latest start() and only while it runs, one end per run.  A late      *)
(* answer or a late line of output of a run that was stopped or replaced    *)
(* changes nothing that status() shows.                                     *)
THEOREM ToolsKeepPromise ==
  ASSUME NEW t \in CounterTool \cup HostTool, t \in HostTool => DistinctHosts
  PROVE  ToolSpec(t) => JobSpec
  <1>1. Init => Promise!Init
    BY DEF Init, Promise!Init
  <1>2. ASSUME ToolInv, KeyInv(t), ToolNext(t) PROVE [Promise!Next]_(Promise!jobVars)
    <2>1. CASE t \in CounterTool
      <3>1. CounterStep
        BY <1>2, <2>1, PortScannerStep, IpScannerStep, ModbusPollStep, ModbusUnitScanStep
           DEF ToolNext, CounterTool
      <3>2. QED
        BY <1>2, <2>1, <3>1, CounterInvStep, StepImplements DEF KeyInv
    <2>2. CASE t \in HostTool
      <3>1. HostStep /\ t \notin CounterTool
        BY <1>2, <2>2, MtrStep, PingStep DEF ToolNext, HostTool, CounterTool
      <3>2. QED
        BY <1>2, <2>2, <3>1, HostInvStep, StepImplements DEF KeyInv
    <2>3. QED
      BY <2>1, <2>2
  <1>3. UNCHANGED toolVars => UNCHANGED Promise!jobVars
    BY DEF toolVars, Promise!jobVars
  <1>4. QED
    BY <1>1, <1>2, <1>3, ToolInductive, PTL DEF ToolSpec, JobSpec, Promise!Spec

-----------------------------------------------------------------------------
(* modbus_register_scan.py *)

\* Its steps on what it has in common with the other tools.
LEMMA ScanStep == ASSUME ScanNext PROVE CounterStep \/ UNCHANGED toolVars
  <1>1. ASSUME NEW r \in Run, Start(r) PROVE CounterStep
    BY <1>1 DEF Start, CounterStep
  <1>2. ASSUME Stop PROVE CounterStep
    BY <1>2 DEF Stop, CounterStep
  <1>3. ASSUME NEW r \in Run, Probe(r) PROVE CounterStep \/ UNCHANGED toolVars
    BY <1>3 DEF Probe, CounterStep, CommonStep
  <1>4. ASSUME NEW r \in Run, Answer(r) PROVE CounterStep
    <2>1. Working(r)
      BY <1>4 DEF Answer, Working
    <2>2. Report(r, shown) \/ (Current(r) /\ Report(r, shown \cup {r}))
      BY <1>4 DEF Answer, Bump
    <2>3. QED
      BY <2>1, <2>2 DEF CounterStep, CommonStep
  <1>5. ASSUME NEW r \in Run, ScanEnd(r) PROVE CounterStep
    <2>1. Working(r)
      BY <1>5 DEF ScanEnd, Working
    <2>2. \/ ~Current(r) /\ Leave(r)
          \/ Current(r) /\ End(r, {shown, {r}, shown \cup {r}})
      BY <1>5 DEF ScanEnd, Publish, End
    <2>3. QED
      BY <2>1, <2>2 DEF CounterStep, CommonStep
  <1>6. QED
    BY <1>1, <1>2, <1>3, <1>4, <1>5 DEF ScanNext, Thread

\* So it keeps the invariant of a tool whose key is a counter.
LEMMA ScanToolInv ==
  /\ ScanInit => ToolInv /\ CounterInv
  /\ ToolInv /\ CounterInv /\ [ScanNext]_allVars => (ToolInv /\ CounterInv)'
  <1>1. ScanInit => ToolInv /\ CounterInv
    BY InitToolInv DEF ScanInit
  <1>2. ASSUME ToolInv, CounterInv, CounterStep PROVE (ToolInv /\ CounterInv)'
    BY <1>2, CounterInvStep, StepToolInv
  <1>3. ASSUME ToolInv, CounterInv, UNCHANGED toolVars PROVE (ToolInv /\ CounterInv)'
    BY <1>3 DEF toolVars, ToolInv, TypeOK, OwnsState, RunningWorks, LatestBegun, OnlyLatestShown,
                CounterInv, Working, Current
  <1>4. QED
    BY <1>1, <1>2, <1>3, ScanStep DEF allVars

\* The stack and the results of a scan tile what lies on either side of the
\* address that comes next.
Outcomes == {"readable", "exception", "timeout", "stopped"}
SegmentType == [start : Int, end : Int, outcome : Outcomes]
BlockType == Int \X Int

BlocksTile(t, a, b) ==
    /\ \A i \in 1..Len(t) : t[i][1] <= t[i][2]
    /\ \A i \in 1..(Len(t) - 1) : t[i + 1][1] = t[i][2] + 1
    /\ IF t = <<>> THEN a = b + 1 ELSE t[1][1] = a /\ t[Len(t)][2] = b
SegmentsTile(f, a, b) ==
    /\ \A i \in 1..Len(f) : f[i].start <= f[i].end
    /\ \A i \in 1..(Len(f) - 1) : f[i + 1].start = f[i].end + 1
    /\ IF f = <<>> THEN a = b + 1 ELSE f[1].start = a /\ f[Len(f)].end = b

Position(t) == IF t = <<>> THEN EndAddress + 1 ELSE t[1][1]

ThreadTiles(t, f) ==
    /\ t \in Seq(BlockType) /\ f \in Seq(SegmentType)
    /\ SegmentsTile(f, StartAddress, Position(t) - 1)
    /\ BlocksTile(t, Position(t), EndAddress)

\* Blocks that tile a block can take its place.
LEMMA BlocksConcat ==
  ASSUME NEW s \in Seq(BlockType), NEW t \in Seq(BlockType),
         NEW a \in Int, NEW b \in Int, NEW c \in Int, s # <<>>,
         BlocksTile(s, a, b), BlocksTile(t, b + 1, c)
  PROVE  BlocksTile(s \o t, a, c) /\ s \o t \in Seq(BlockType) /\ s \o t # <<>>
  <1>1. PICK m, n : /\ m = Len(s) /\ n = Len(t) /\ m \in Nat \ {0} /\ n \in Nat
                    /\ \A i \in 1..m : s[i] \in BlockType
                    /\ \A i \in 1..n : t[i] \in BlockType
    <2>1. /\ Len(s) \in Nat /\ Len(t) \in Nat /\ Len(s) # 0
          /\ \A i \in 1..Len(s) : s[i] \in BlockType
          /\ \A i \in 1..Len(t) : t[i] \in BlockType
      OBVIOUS
    <2>2. QED
      BY <2>1
  <1>2. PICK u : /\ u = s \o t /\ u \in Seq(BlockType) /\ Len(u) = m + n
                 /\ \A i \in 1..m : u[i] = s[i]
                 /\ \A i \in 1..n : u[m + i] = t[i]
    <2>1. s \o t \in Seq(BlockType) /\ Len(s \o t) = m + n
      BY <1>1
    <2>2. \A i \in 1..m : (s \o t)[i] = s[i]
      BY <1>1
    <2>3. \A i \in 1..n : (s \o t)[m + i] = t[i]
      BY <1>1
    <2>4. QED
      BY <2>1, <2>2, <2>3
  <1>3. u # <<>>
    BY <1>1, <1>2
  <1>4. \A i \in (m + 1)..(m + n) : u[i] = t[i - m] /\ i - m \in 1..n
    <2>1. ASSUME NEW i \in (m + 1)..(m + n) PROVE u[i] = t[i - m] /\ i - m \in 1..n
      <3>1. PICK j : j = i - m /\ j \in 1..n /\ i = m + j
        BY <1>1
      <3>2. QED
        BY <1>2, <3>1
    <2>2. QED
      BY <2>1
  <1>5. ASSUME NEW i \in 1..(m + n) PROVE u[i][1] <= u[i][2]
    BY <1>1, <1>2, <1>4, <1>5 DEF BlocksTile
  <1>6. ASSUME NEW i \in 1..(m + n - 1) PROVE u[i + 1][1] = u[i][2] + 1
    <2>1. CASE i < m
      BY <1>1, <1>2, <2>1 DEF BlocksTile
    <2>2. CASE i = m
      <3>1. u[i] = s[m] /\ n > 0 /\ u[i + 1] = t[1]
        BY <1>1, <1>2, <2>2
      <3>2. s[m][2] = b
        BY <1>1 DEF BlocksTile
      <3>3. t[1][1] = b + 1
        BY <1>1, <3>1 DEF BlocksTile
      <3>4. QED
        BY <3>1, <3>2, <3>3
    <2>3. CASE i > m
      <3>1. PICK j : j = i - m /\ j \in 1..(n - 1) /\ i = m + j /\ j + 1 \in 1..n /\ j \in 1..n
        BY <1>1, <2>3
      <3>2. u[i] = t[j] /\ u[i + 1] = t[j + 1]
        <4>1. i + 1 = m + (j + 1)
          BY <1>1, <3>1
        <4>2. QED
          BY <1>2, <3>1, <4>1
      <3>3. t[j + 1][1] = t[j][2] + 1
        BY <1>1, <3>1 DEF BlocksTile
      <3>4. QED
        BY <3>2, <3>3
    <2>4. QED
      BY <1>1, <2>1, <2>2, <2>3
  <1>7. u[1][1] = a
    BY <1>1, <1>2 DEF BlocksTile
  <1>8. u[m + n][2] = c
    <2>1. CASE n = 0
      <3>1. t = <<>> /\ b + 1 = c + 1 /\ u[m + n] = s[m]
        BY <1>1, <1>2, <2>1 DEF BlocksTile
      <3>2. s[m][2] = b
        BY <1>1 DEF BlocksTile
      <3>3. QED
        BY <3>1, <3>2
    <2>2. CASE n > 0
      <3>1. u[m + n] = t[n]
        BY <1>1, <1>2, <2>2
      <3>2. t[n][2] = c
        BY <1>1, <2>2 DEF BlocksTile
      <3>3. QED
        BY <3>1, <3>2
    <2>3. QED
      BY <1>1, <2>1, <2>2
  <1>9. Len(u) - 1 = m + n - 1
    BY <1>1, <1>2
  <1>10. QED
    BY <1>2, <1>3, <1>5, <1>6, <1>7, <1>8, <1>9 DEF BlocksTile

\* The blocks after the first.
LEMMA BlocksTail ==
  ASSUME NEW t \in Seq(BlockType), t # <<>>, NEW a, NEW b \in Int, BlocksTile(t, a, b)
  PROVE  /\ Tail(t) \in Seq(BlockType) /\ BlocksTile(Tail(t), t[1][2] + 1, b)
         /\ t[1] \in BlockType /\ Head(t) = t[1] /\ t[1][1] = a /\ t[1][1] <= t[1][2]
         /\ Tail(t) # <<>> => Tail(t)[1][1] = t[1][2] + 1
         /\ Tail(t) = <<>> => b + 1 = t[1][2] + 1
  <1>1. PICK n, u : /\ n = Len(t) /\ n \in Nat \ {0} /\ u = Tail(t) /\ u \in Seq(BlockType)
                    /\ Len(u) = n - 1 /\ \A i \in 1..(n - 1) : u[i] = t[i + 1]
                    /\ \A i \in 1..n : t[i] \in BlockType
                    /\ Head(t) = t[1]
    <2>1. /\ Len(t) \in Nat \ {0} /\ \A i \in 1..Len(t) : t[i] \in BlockType
      OBVIOUS
    <2>2. /\ Tail(t) \in Seq(BlockType) /\ Len(Tail(t)) = Len(t) - 1 /\ Head(t) = t[1]
          /\ \A i \in 1..(Len(t) - 1) : Tail(t)[i] = t[i + 1]
      OBVIOUS
    <2>3. QED
      BY <2>1, <2>2
  <1>2. t[1][1] = a /\ t[1][1] <= t[1][2] /\ t[n][2] = b
    BY <1>1 DEF BlocksTile
  <1>3. \A i \in 1..(n - 1) : u[i][1] <= u[i][2]
    BY <1>1 DEF BlocksTile
  <1>4. \A i \in 1..(n - 1 - 1) : u[i + 1][1] = u[i][2] + 1
    BY <1>1 DEF BlocksTile
  <1>5. CASE n = 1
    <2>1. u = <<>> /\ b = t[1][2]
      BY <1>1, <1>2, <1>5
    <2>2. QED
      BY <1>1, <1>2, <1>3, <1>4, <2>1 DEF BlocksTile
  <1>6. CASE n > 1
    <2>1. /\ u # <<>> /\ u[1] = t[1 + 1] /\ u[n - 1] = t[n]
      BY <1>1, <1>6
    <2>2. u[1][1] = t[1][2] + 1
      <3>1. 1 \in 1..(Len(t) - 1)
        BY <1>1, <1>6
      <3>2. t[1 + 1][1] = t[1][2] + 1
        BY <3>1 DEF BlocksTile
      <3>3. QED
        BY <2>1, <3>2
    <2>3. BlocksTile(u, t[1][2] + 1, b)
      BY <1>1, <1>2, <1>3, <1>4, <2>1, <2>2 DEF BlocksTile
    <2>4. QED
      BY <1>1, <1>2, <2>1, <2>2, <2>3
  <1>7. QED
    BY <1>1, <1>5, <1>6

\* A segment where the others end.
LEMMA SegmentsAppend ==
  ASSUME NEW f \in Seq(SegmentType), NEW a \in Int, NEW b \in Int, SegmentsTile(f, a, b),
         NEW seg \in SegmentType, seg.start = b + 1, seg.start <= seg.end
  PROVE  /\ Append(f, seg) \in Seq(SegmentType) /\ SegmentsTile(Append(f, seg), a, seg.end)
  <1>1. PICK n, u : /\ n = Len(f) /\ n \in Nat /\ u = Append(f, seg) /\ u \in Seq(SegmentType)
                    /\ Len(u) = n + 1 /\ u[n + 1] = seg /\ \A i \in 1..n : u[i] = f[i]
                    /\ \A i \in 1..n : f[i] \in SegmentType
    <2>1. Len(f) \in Nat /\ \A i \in 1..Len(f) : f[i] \in SegmentType
      OBVIOUS
    <2>2. /\ Append(f, seg) \in Seq(SegmentType) /\ Len(Append(f, seg)) = Len(f) + 1
          /\ Append(f, seg)[Len(f) + 1] = seg /\ \A i \in 1..Len(f) : Append(f, seg)[i] = f[i]
      OBVIOUS
    <2>3. QED
      BY <2>1, <2>2
  <1>2. \A i \in 1..(n + 1) : u[i].start <= u[i].end
    BY <1>1 DEF SegmentsTile
  <1>3. ASSUME NEW i \in 1..n PROVE u[i + 1].start = u[i].end + 1
    <2>1. CASE i < n
      BY <1>1, <2>1 DEF SegmentsTile
    <2>2. CASE i = n
      BY <1>1, <2>2 DEF SegmentsTile
    <2>3. QED
      BY <1>1, <2>1, <2>2
  <1>4. u[1].start = a
    <2>1. CASE n = 0
      <3>1. f = <<>> /\ u[1] = seg
        BY <1>1, <2>1
      <3>2. QED
        BY <3>1 DEF SegmentsTile
    <2>2. CASE n > 0
      BY <1>1, <2>2 DEF SegmentsTile
    <2>3. QED
      BY <1>1, <2>1, <2>2
  <1>5. u # <<>>
    BY <1>1
  <1>6. QED
    BY <1>1, <1>2, <1>3, <1>4, <1>5 DEF SegmentsTile

\* Facts of arithmetic about full reads.
LEMMA FullReads ==
  ASSUME NEW q \in Nat, NEW m \in Nat \ {0}, NEW n, n = (q + m) \div m
  PROVE  /\ n \in Nat \ {0} /\ n * m <= q + m /\ q < n * m
         /\ \A i \in 1..n : (i - 1) * m = i * m - m /\ i * m \in Nat /\ m <= i * m
         /\ \A i \in 1..(n - 1) : i * m + m <= n * m
         /\ 1 * m = m
  <1>1. PICK p : p = q + m /\ p \in Nat /\ n = p \div m
    OBVIOUS
  <1>2. n \in Nat /\ n * m <= p /\ p < n * m + m
    BY <1>1
  <1>3. q < n * m
    BY <1>1, <1>2
  <1>4. n # 0
    BY <1>3
  <1>5. ASSUME NEW i \in 1..n PROVE (i - 1) * m = i * m - m /\ i * m \in Nat /\ m <= i * m
    BY <1>2
  <1>6. ASSUME NEW i \in 1..(n - 1) PROVE i * m + m <= n * m
    <2>1. i + 1 \in Nat /\ i + 1 <= n /\ (i + 1) * m = i * m + m
      BY <1>2
    <2>2. (i + 1) * m <= n * m
      BY <1>2, <2>1
    <2>3. QED
      BY <2>1, <2>2
  <1>7. QED
    BY <1>1, <1>2, <1>3, <1>4, <1>5, <1>6

\* A block too large for one read is cut without a gap or an overlap.
LEMMA ChunksTile ==
  ASSUME NEW b \in BlockType, b[1] <= b[2]
  PROVE  Chunks(b) \in Seq(BlockType) /\ Chunks(b) # <<>> /\ BlocksTile(Chunks(b), b[1], b[2])
  <1>1. PICK lo, hi, q, m, n : /\ lo = b[1] /\ hi = b[2] /\ lo \in Int /\ hi \in Int /\ lo <= hi
                               /\ q = hi - lo /\ m = MaxQuantity /\ n = (q + m) \div m
                               /\ q \in Nat /\ m \in Nat \ {0}
    BY RangeAssumption DEF BlockType
  <1>2. /\ n \in Nat \ {0} /\ n * m <= q + m /\ q < n * m
        /\ \A i \in 1..n : (i - 1) * m = i * m - m /\ i * m \in Nat /\ m <= i * m
        /\ \A i \in 1..(n - 1) : i * m + m <= n * m
        /\ 1 * m = m
    <2>1. q \in Nat /\ m \in Nat \ {0} /\ n = (q + m) \div m
      BY <1>1
    <2>2. QED
      BY <2>1, FullReads, Zenon
  <1>3. \A x, y \in Int : Min({x, y}) = IF x <= y THEN x ELSE y
    <2>1. ASSUME NEW x \in Int, NEW y \in Int PROVE Min({x, y}) = IF x <= y THEN x ELSE y
      <3>1. PICK z : z = IF x <= y THEN x ELSE y
        OBVIOUS
      <3>2. z \in {x, y} /\ \A w \in {x, y} : z <= w
        BY <3>1
      <3>3. \A v \in {x, y} : (\A w \in {x, y} : v <= w) => v = z
        BY <3>1
      <3>4. Min({x, y}) = z
        BY <3>2, <3>3 DEF Min
      <3>5. QED
        BY <3>1, <3>4
    <2>2. QED
      BY <2>1
  <1>4. PICK c : c = Chunks(b)
    OBVIOUS
  <1>5. c = [i \in 1..n |-> <<lo + (i - 1) * m, Min({lo + i * m - 1, hi})>>]
    <2>1. Quantity(b) + MaxQuantity - 1 = q + m
      BY <1>1 DEF Quantity
    <2>2. QED
      BY <1>1, <1>4, <2>1 DEF Chunks
  <1>6. ASSUME NEW i \in 1..n
        PROVE  /\ c[i] = <<lo + (i * m - m), IF i < n THEN lo + i * m - 1 ELSE hi>>
               /\ c[i] \in BlockType /\ c[i][1] <= c[i][2]
    <2>1. PICK x, e : x = i * m /\ x \in Nat /\ m <= x /\ (i - 1) * m = x - m /\ e = n * m
      BY <1>2
    <2>2. (i < n => x + m <= e) /\ (i = n => x = e) /\ e <= q + m /\ q < e /\ e \in Int
      BY <1>1, <1>2, <2>1
    <2>3. Min({lo + x - 1, hi}) = IF i < n THEN lo + x - 1 ELSE hi
      <3>1. lo + x - 1 \in Int /\ Min({lo + x - 1, hi}) = IF lo + x - 1 <= hi THEN lo + x - 1 ELSE hi
        BY <1>1, <1>3, <2>1
      <3>2. i < n => lo + x - 1 <= hi
        BY <1>1, <2>1, <2>2
      <3>3. ~(i < n) => hi <= lo + x - 1
        BY <1>1, <1>2, <2>1, <2>2
      <3>4. QED
        BY <1>1, <3>1, <3>2, <3>3
    <2>4. c[i] = <<lo + (x - m), IF i < n THEN lo + x - 1 ELSE hi>>
      BY <1>5, <2>1, <2>3
    <2>5. lo + (x - m) <= (IF i < n THEN lo + x - 1 ELSE hi)
      <3>1. CASE i < n
        BY <1>1, <2>1, <3>1
      <3>2. CASE ~(i < n)
        BY <1>1, <1>2, <2>1, <2>2, <3>2
      <3>3. QED
        BY <3>1, <3>2
    <2>6. QED
      BY <1>1, <2>1, <2>4, <2>5 DEF BlockType
  <1>7. c \in Seq(BlockType) /\ Len(c) = n /\ c # <<>>
    <2>1. c \in [1..n -> BlockType]
      BY <1>5, <1>6
    <2>2. QED
      BY <1>2, <2>1
  <1>8. ASSUME NEW i \in 1..(n - 1) PROVE c[i + 1][1] = c[i][2] + 1
    <2>1. i \in 1..n /\ i + 1 \in 1..n /\ i < n
      BY <1>2
    <2>2. c[i + 1][1] = lo + ((i + 1) * m - m) /\ c[i][2] = lo + i * m - 1
      BY <1>6, <2>1
    <2>3. (i + 1) * m - m = i * m
      <3>1. i + 1 \in 1..n
        BY <2>1
      <3>2. ((i + 1) - 1) * m = (i + 1) * m - m
        BY <1>2, <3>1
      <3>3. QED
        BY <3>2
    <2>4. PICK x : x = i * m /\ x \in Int
      BY <1>2, <2>1
    <2>5. QED
      BY <1>1, <2>2, <2>3, <2>4
  <1>9. c[1][1] = lo /\ c[n][2] = hi
    <2>1. 1 \in 1..n /\ n \in 1..n /\ ~(n < n) /\ lo + (1 * m - m) = lo
      BY <1>1, <1>2
    <2>2. QED
      BY <1>6, <2>1
  <1>10. BlocksTile(c, lo, hi)
    BY <1>6, <1>7, <1>8, <1>9 DEF BlocksTile
  <1>11. QED
    BY <1>1, <1>4, <1>7, <1>10

\* Nor does bisecting lose or repeat an address, of an odd number of them either.
LEMMA HalvesTile ==
  ASSUME NEW b \in BlockType, b[1] < b[2]
  PROVE  Halves(b) \in Seq(BlockType) /\ Halves(b) # <<>> /\ BlocksTile(Halves(b), b[1], b[2])
  <1>1. PICK lo, hi, mid : /\ lo = b[1] /\ hi = b[2] /\ lo \in Int /\ hi \in Int /\ lo < hi
                           /\ mid = lo + (hi - lo + 1) \div 2
    BY DEF BlockType
  <1>2. mid \in Int /\ lo < mid /\ mid <= hi
    BY <1>1
  <1>3. PICK h : h = <<<<lo, mid - 1>>, <<mid, hi>>>>
    OBVIOUS
  <1>4. Halves(b) = h
    BY <1>1, <1>3 DEF Halves, Quantity
  <1>5. /\ h \in Seq(BlockType) /\ Len(h) = 2 /\ h # <<>>
        /\ h[1] = <<lo, mid - 1>> /\ h[2] = <<mid, hi>>
    BY <1>1, <1>2, <1>3 DEF BlockType
  <1>6. BlocksTile(h, lo, hi)
    BY <1>1, <1>2, <1>5 DEF BlocksTile
  <1>7. QED
    BY <1>1, <1>4, <1>5, <1>6

\* A call of _probe that returns, and one that makes others.
LEMMA ReturnTiles ==
  ASSUME NEW t, NEW f, ThreadTiles(t, f), t # <<>>, NEW outcome \in Outcomes
  PROVE  /\ ThreadTiles(Tail(t), Append(f, Segment(Head(t), outcome)))
         /\ Head(t) \in BlockType /\ Head(t)[1] <= Head(t)[2]
         /\ Position(t) = Head(t)[1] /\ Position(Tail(t)) = Head(t)[2] + 1
  <1>1. PICK b : b = t[1] /\ Position(t) = b[1]
    BY DEF Position
  <1>2. EndAddress \in Int /\ StartAddress \in Int
    BY RangeAssumption
  <1>3. /\ t \in Seq(BlockType) /\ f \in Seq(SegmentType) /\ BlocksTile(t, b[1], EndAddress)
        /\ SegmentsTile(f, StartAddress, b[1] - 1)
    BY <1>1 DEF ThreadTiles
  <1>4. /\ Tail(t) \in Seq(BlockType) /\ BlocksTile(Tail(t), b[2] + 1, EndAddress)
        /\ b \in BlockType /\ Head(t) = b /\ b[1] <= b[2]
        /\ Tail(t) # <<>> => Tail(t)[1][1] = b[2] + 1
        /\ Tail(t) = <<>> => EndAddress + 1 = b[2] + 1
    BY <1>1, <1>2, <1>3, BlocksTail
  <1>5. Position(Tail(t)) = b[2] + 1
    BY <1>4 DEF Position
  <1>6. PICK seg : seg = Segment(b, outcome)
    OBVIOUS
  <1>7. b[1] \in Int /\ b[2] \in Int /\ b[1] - 1 \in Int
    BY <1>4 DEF BlockType
  <1>8. seg \in SegmentType /\ seg.start = (b[1] - 1) + 1 /\ seg.start <= seg.end /\ seg.end = b[2]
    BY <1>4, <1>6, <1>7 DEF Segment, SegmentType
  <1>9. Append(f, seg) \in Seq(SegmentType) /\ SegmentsTile(Append(f, seg), StartAddress, seg.end)
    <2>1. PICK a : a = b[1] - 1 /\ a \in Int
      BY <1>7
    <2>2. SegmentsTile(f, StartAddress, a) /\ seg.start = a + 1
      BY <1>3, <1>8, <2>1
    <2>3. QED
      BY <1>2, <1>3, <1>8, <2>1, <2>2, SegmentsAppend
  <1>10. (b[2] + 1) - 1 = b[2]
    BY <1>7
  <1>11. ThreadTiles(Tail(t), Append(f, seg))
    BY <1>4, <1>5, <1>8, <1>9, <1>10 DEF ThreadTiles
  <1>12. QED
    BY <1>1, <1>4, <1>5, <1>6, <1>11

LEMMA RecurseTiles ==
  ASSUME NEW t, NEW f, ThreadTiles(t, f), t # <<>>,
         NEW blocks \in Seq(BlockType), blocks # <<>>,
         BlocksTile(blocks, Head(t)[1], Head(t)[2])
  PROVE  ThreadTiles(blocks \o Tail(t), f) /\ Position(blocks \o Tail(t)) = Position(t)
  <1>1. PICK b, u, e : /\ b = Head(t) /\ u = Tail(t) /\ e = EndAddress /\ e \in Int
    <2>1. EndAddress \in Int
      BY RangeAssumption
    <2>2. QED
      BY <2>1
  <1>2. b = t[1] /\ Position(t) = b[1]
    BY <1>1 DEF Position, ThreadTiles
  <1>3. /\ t \in Seq(BlockType) /\ f \in Seq(SegmentType) /\ BlocksTile(t, b[1], e)
        /\ SegmentsTile(f, StartAddress, b[1] - 1)
    BY <1>1, <1>2 DEF ThreadTiles
  <1>4. u \in Seq(BlockType) /\ BlocksTile(u, b[2] + 1, e) /\ b \in BlockType
    BY <1>1, <1>2, <1>3, BlocksTail
  <1>5. PICK lo, hi : lo = b[1] /\ hi = b[2] /\ lo \in Int /\ hi \in Int
    BY <1>4 DEF BlockType
  <1>6. BlocksTile(blocks, lo, hi) /\ BlocksTile(u, hi + 1, e)
    BY <1>1, <1>4, <1>5
  <1>7. /\ BlocksTile(blocks \o u, lo, e) /\ blocks \o u \in Seq(BlockType)
        /\ blocks \o u # <<>>
    BY <1>1, <1>4, <1>5, <1>6, BlocksConcat
  <1>8. Position(blocks \o u) = lo
    BY <1>7 DEF Position, BlocksTile
  <1>9. ThreadTiles(blocks \o u, f)
    BY <1>1, <1>3, <1>5, <1>7, <1>8 DEF ThreadTiles
  <1>10. QED
    BY <1>1, <1>2, <1>5, <1>8, <1>9

-----------------------------------------------------------------------------
\* What a segment says of its addresses is so.
Truthful(seg) ==
    \A a \in seg.start..seg.end : /\ seg.outcome = "readable" => device[a]
                                  /\ seg.outcome = "exception" => ~device[a]

\* What ResultExact asks of the rows of a result.
ExactRows(rows) ==
    /\ Tiles(rows)
    /\ \A i \in 1..(Len(rows) - 1) : rows[i].outcome # rows[i + 1].outcome
    /\ \A seg \in ToSet(rows) : seg.outcome # "stopped" /\ Truthful(seg)

\* A thread at work: its stack and results tile the range, its segments are true,
\* and if it is current none was stopped and the progress is its own.
ThreadInv(r) ==
    /\ ThreadTiles(todo[r], found[r])
    /\ \A i \in 1..Len(found[r]) : Truthful(found[r][i])
    /\ pc[r] = "await" => todo[r] # <<>>
    /\ Current(r) => /\ progress = Position(todo[r]) - StartAddress
                     /\ \A i \in 1..Len(found[r]) : found[r][i].outcome # "stopped"

\* A result is on display only when nobody is at work who would change it.
ResultInv == segments # <<>> => ~running /\ progress = Total /\ ExactRows(segments)

ScanInv ==
    /\ DOMAIN todo = Run /\ DOMAIN found = Run
    /\ \A r \in Run : Working(r) => ThreadInv(r)
    /\ \A r \in Run : pc[r] = "idle" => found[r] = <<>>
    /\ ResultInv

\* A thread does not touch the stack and the results of another, and progress is
\* only that of the one that is current.
LEMMA OthersKeep ==
  ASSUME ToolInv, ScanInv, NEW r \in Run, UNCHANGED <<device, key, token>>,
         \A q \in Run : q # r => /\ pc'[q] = pc[q] /\ todo'[q] = todo[q] /\ found'[q] = found[q],
         progress' = progress \/ (Working(r) /\ Current(r))
  PROVE  \A q \in Run : q # r => /\ Working(q)' => ThreadInv(q)'
                                 /\ pc'[q] = "idle" => found'[q] = <<>>
  <1>1. SUFFICES ASSUME NEW q \in Run, q # r
                 PROVE  /\ Working(q)' => ThreadInv(q)'
                        /\ pc'[q] = "idle" => found'[q] = <<>>
    OBVIOUS
  <1>2. pc'[q] = pc[q] /\ todo'[q] = todo[q] /\ found'[q] = found[q]
    BY <1>1
  <1>3. Working(q)' = Working(q) /\ Current(q)' = Current(q)
    BY <1>2 DEF Working, Current
  <1>4. Working(q) /\ Current(q) => progress' = progress
    BY <1>1 DEF ToolInv, OwnsState
  <1>5. \A seg : Truthful(seg)' = Truthful(seg)
    BY DEF Truthful
  <1>6. ASSUME Working(q) PROVE ThreadInv(q)'
    <2>1. ThreadInv(q)
      BY <1>6 DEF ScanInv
    <2>2. ThreadTiles(todo[q], found[q])'
      BY <1>2, <2>1 DEF ThreadInv
    <2>3. QED
      BY <1>2, <1>3, <1>4, <1>5, <1>6, <2>1, <2>2 DEF ThreadInv
  <1>7. QED
    BY <1>2, <1>3, <1>6 DEF ScanInv

\* Before the first start() there is no thread.
LEMMA ScanInvInit == ScanInit => ScanInv
  <1> SUFFICES ASSUME ScanInit PROVE ScanInv
    OBVIOUS
  <1>1. \A r \in Run : ~Working(r)
    BY DEF ScanInit, Init, Working
  <1>2. QED
    BY <1>1 DEF ScanInit, ScanInv, ResultInv

\* start(): a new thread has all to do; no other is current any more.
LEMMA StartKeeps ==
  ASSUME ToolInv, CounterInv, ScanInv, NEW r \in Run, Start(r) PROVE ScanInv'
  <1>1. /\ pc[r] = "idle" /\ key' = key + 1 /\ token' = [token EXCEPT ![r] = key + 1]
        /\ pc' = [pc EXCEPT ![r] = "read"] /\ found' = found /\ device' = device
        /\ todo' = [todo EXCEPT ![r] = <<<<StartAddress, EndAddress>>>>]
        /\ progress' = 0 /\ segments' = <<>>
    BY DEF Start, StartThread, Launch, Goto
  <1>2. DOMAIN pc = Run /\ DOMAIN token = Run /\ DOMAIN todo = Run /\ DOMAIN found = Run
    BY DEF ToolInv, TypeOK, ScanInv
  <1>3. ASSUME NEW q \in Run, q # r, Working(q)' PROVE ThreadInv(q)'
    <2>1. /\ pc'[q] = pc[q] /\ todo'[q] = todo[q] /\ found'[q] = found[q] /\ token'[q] = token[q]
      BY <1>1, <1>2, <1>3
    <2>2. Working(q) /\ ThreadInv(q)
      BY <1>3, <2>1 DEF Working, ScanInv
    <2>3. ~Current(q)'
      BY <1>1, <2>1, <2>2 DEF Current, CounterInv
    <2>4. \A seg : Truthful(seg)' = Truthful(seg)
      BY <1>1 DEF Truthful
    <2>5. ThreadTiles(todo[q], found[q])'
      BY <2>1, <2>2 DEF ThreadInv
    <2>6. QED
      BY <2>1, <2>2, <2>3, <2>4, <2>5 DEF ThreadInv
  <1>4. ThreadInv(r)'
    <2>1. PICK t : t = <<<<StartAddress, EndAddress>>>>
      OBVIOUS
    <2>2. todo'[r] = t /\ found'[r] = <<>> /\ pc'[r] = "read"
      BY <1>1, <1>2, <2>1 DEF ScanInv
    <2>3. /\ t \in Seq(BlockType) /\ Len(t) = 1 /\ t # <<>>
          /\ t[1] = <<StartAddress, EndAddress>>
      BY <2>1, RangeAssumption DEF BlockType
    <2>4. Position(t) = StartAddress
      BY <2>3 DEF Position
    <2>5. BlocksTile(t, StartAddress, EndAddress)
      BY <2>3, RangeAssumption DEF BlocksTile
    <2>6. SegmentsTile(<<>>, StartAddress, StartAddress - 1)
      BY RangeAssumption DEF SegmentsTile
    <2>7. ThreadTiles(t, <<>>)
      BY <2>3, <2>4, <2>5, <2>6 DEF ThreadTiles
    <2>8. progress' = Position(t) - StartAddress
      BY <1>1, <2>4, RangeAssumption
    <2>9. ThreadTiles(todo[r], found[r])'
      BY <2>2, <2>7
    <2>10. QED
      BY <2>2, <2>3, <2>8, <2>9 DEF ThreadInv
  <1>5. \A q \in Run : pc'[q] = "idle" => found'[q] = <<>>
    BY <1>1, <1>2 DEF ScanInv
  <1>6. ResultInv'
    BY <1>1 DEF ResultInv
  <1>7. DOMAIN todo' = Run /\ DOMAIN found' = Run
    BY <1>1, <1>2
  <1>8. QED
    BY <1>3, <1>4, <1>5, <1>6, <1>7 DEF ScanInv

\* stop(): nobody is current any more.
LEMMA StopKeeps == ASSUME ToolInv, CounterInv, ScanInv, Stop PROVE ScanInv'
  <1>1. /\ key' = key + 1 /\ running' = FALSE /\ token' = token /\ pc' = pc
        /\ UNCHANGED <<device, todo, found, segments, progress>>
    BY DEF Stop, StopThread, scanVars
  <1>2. \A seg : Truthful(seg)' = Truthful(seg)
    BY <1>1 DEF Truthful
  <1>3. ASSUME NEW q \in Run, Working(q)' PROVE ThreadInv(q)'
    <2>1. Working(q) /\ ThreadInv(q)
      BY <1>1, <1>3 DEF Working, ScanInv
    <2>2. ~Current(q)'
      BY <1>1, <2>1 DEF Current, CounterInv
    <2>3. ThreadTiles(todo[q], found[q])'
      BY <1>1, <2>1 DEF ThreadInv
    <2>4. QED
      BY <1>1, <1>2, <2>1, <2>2, <2>3 DEF ThreadInv
  <1>4. ResultInv'
    BY <1>1, <1>2 DEF ScanInv, ResultInv, ExactRows
  <1>5. QED
    BY <1>1, <1>3, <1>4 DEF ScanInv

\* A call that returns: the segment is true, and stopped only if the thread is
\* not current; the progress made is that of its block.
LEMMA ReturnKeeps ==
  ASSUME ToolInv, ScanInv, NEW r \in Run, Working(r), todo[r] # <<>>,
         NEW outcome \in Outcomes, Return(r, outcome),
         UNCHANGED <<device, key, token>>, pc'[r] = "read",
         \A a \in Block(r)[1]..Block(r)[2] : /\ outcome = "readable" => device[a]
                                             /\ outcome = "exception" => ~device[a],
         Current(r) => outcome # "stopped" /\ progress' = progress + Quantity(Block(r))
  PROVE  ThreadInv(r)'
  <1>1. PICK t, f, b, seg : /\ t = todo[r] /\ f = found[r] /\ b = Head(t)
                            /\ seg = Segment(b, outcome)
    OBVIOUS
  <1>2. DOMAIN todo = Run /\ DOMAIN found = Run /\ ThreadInv(r)
    BY DEF ScanInv
  <1>3. todo'[r] = Tail(t) /\ found'[r] = Append(f, seg)
    BY <1>1, <1>2 DEF Return, Block
  <1>4. ThreadTiles(t, f) /\ t # <<>> /\ f \in Seq(SegmentType)
    BY <1>1, <1>2 DEF ThreadInv, ThreadTiles
  <1>5. /\ ThreadTiles(Tail(t), Append(f, seg)) /\ b \in BlockType
        /\ Position(t) = b[1] /\ Position(Tail(t)) = b[2] + 1
    BY <1>1, <1>4, ReturnTiles
  <1>6. ThreadTiles(todo[r], found[r])'
    BY <1>3, <1>5
  <1>7. \A s : Truthful(s)' = Truthful(s)
    BY DEF Truthful
  <1>8. Truthful(seg) /\ seg.outcome = outcome
    BY <1>1 DEF Truthful, Segment, Block
  <1>9. \A i \in 1..Len(Append(f, seg)) : Append(f, seg)[i] = seg \/ (i \in 1..Len(f) /\ Append(f, seg)[i] = f[i])
    BY <1>4
  <1>10. \A i \in 1..Len(f) : Truthful(f[i])
    BY <1>1, <1>2 DEF ThreadInv
  <1>11. (\A i \in 1..Len(found[r]) : Truthful(found[r][i]))'
    BY <1>3, <1>7, <1>8, <1>9, <1>10
  <1>12. Current(r)' = Current(r)
    BY DEF Current
  <1>13. ASSUME Current(r)
         PROVE  /\ progress' = Position(Tail(t)) - StartAddress
                /\ \A i \in 1..Len(Append(f, seg)) : Append(f, seg)[i].outcome # "stopped"
    <2>1. progress = b[1] - StartAddress /\ progress' = progress + (b[2] - b[1] + 1)
      BY <1>1, <1>2, <1>5, <1>13 DEF ThreadInv, Quantity, Block
    <2>2. progress' = Position(Tail(t)) - StartAddress
      BY <1>5, <2>1, RangeAssumption DEF BlockType
    <2>3. \A i \in 1..Len(f) : f[i].outcome # "stopped"
      BY <1>1, <1>2, <1>13 DEF ThreadInv
    <2>4. QED
      BY <1>8, <1>9, <1>13, <2>2, <2>3
  <1>14. QED
    BY <1>3, <1>6, <1>11, <1>12, <1>13 DEF ThreadInv

\* A call that makes others for the same addresses.
LEMMA RecurseKeeps ==
  ASSUME ToolInv, ScanInv, NEW r \in Run, Working(r), todo[r] # <<>>,
         NEW blocks \in Seq(BlockType), blocks # <<>>, Recurse(r, blocks),
         BlocksTile(blocks, Block(r)[1], Block(r)[2]),
         UNCHANGED <<device, key, token, progress>>, pc'[r] = "read"
  PROVE  ThreadInv(r)'
  <1>1. PICK t, f : t = todo[r] /\ f = found[r]
    OBVIOUS
  <1>2. DOMAIN todo = Run /\ ThreadInv(r)
    BY DEF ScanInv
  <1>3. todo'[r] = blocks \o Tail(t) /\ found'[r] = f
    BY <1>1, <1>2 DEF Recurse
  <1>4. ThreadTiles(t, f) /\ t # <<>> /\ BlocksTile(blocks, Head(t)[1], Head(t)[2])
    BY <1>1, <1>2 DEF ThreadInv, Block
  <1>5. ThreadTiles(blocks \o Tail(t), f) /\ Position(blocks \o Tail(t)) = Position(t)
    BY <1>4, RecurseTiles
  <1>6. ThreadTiles(todo[r], found[r])' /\ Position(todo[r])' = Position(todo[r])
    BY <1>1, <1>3, <1>5
  <1>7. (\A s : Truthful(s)' = Truthful(s)) /\ Current(r)' = Current(r)
    BY DEF Truthful, Current
  <1>8. QED
    BY <1>1, <1>2, <1>3, <1>6, <1>7 DEF ThreadInv

\* The block at the top of a thread's stack.
LEMMA BlockFacts ==
  ASSUME ScanInv, NEW r \in Run, Working(r), todo[r] # <<>>
  PROVE  Block(r) \in BlockType /\ Block(r)[1] <= Block(r)[2]
  <1>1. PICK t, f : t = todo[r] /\ f = found[r]
    OBVIOUS
  <1>2. ThreadTiles(t, f)
    BY <1>1 DEF ScanInv, ThreadInv
  <1>3. t # <<>> /\ "readable" \in Outcomes
    BY <1>1 DEF Outcomes
  <1>4. Head(t) \in BlockType /\ Head(t)[1] <= Head(t)[2]
    BY <1>2, <1>3, ReturnTiles
  <1>5. QED
    BY <1>1, <1>4 DEF Block

\* What a thread's step leaves to show.
LEMMA ThreadKeeps ==
  ASSUME ToolInv, ScanInv, NEW r \in Run, Working(r), UNCHANGED <<device, key, token>>,
         \E label \in {"read", "await", "done"} : pc' = [pc EXCEPT ![r] = label],
         \A q \in Run : q # r => todo'[q] = todo[q] /\ found'[q] = found[q],
         DOMAIN todo' = Run, DOMAIN found' = Run,
         progress' = progress \/ (Working(r) /\ Current(r)),
         Working(r)' => ThreadInv(r)', ResultInv'
  PROVE  ScanInv'
  <1>1. DOMAIN pc = Run
    BY DEF ToolInv, TypeOK
  <1>2. \A q \in Run : q # r => pc'[q] = pc[q]
    BY <1>1
  <1>3. pc'[r] # "idle"
    BY <1>1
  <1>4. \A q \in Run : q # r => /\ Working(q)' => ThreadInv(q)'
                                /\ pc'[q] = "idle" => found'[q] = <<>>
    BY <1>2, OthersKeep
  <1>5. QED
    BY <1>3, <1>4 DEF ScanInv

\* A result stays while `running`, the device and the progress do.
LEMMA ResultKept ==
  ASSUME ResultInv, UNCHANGED <<segments, device, progress>>, running' = running
  PROVE  ResultInv'
  <1>1. \A seg : Truthful(seg)' = Truthful(seg)
    BY DEF Truthful
  <1>2. QED
    BY <1>1 DEF ResultInv, ExactRows

\* _probe up to its read.
LEMMA ProbeKeeps == ASSUME ToolInv, ScanInv, NEW r \in Run, Probe(r) PROVE ScanInv'
  <1>1. Working(r) /\ todo[r] # <<>> /\ pc[r] = "read"
    BY DEF Probe, Working
  <1>2. DOMAIN todo = Run /\ DOMAIN found = Run /\ DOMAIN pc = Run /\ ThreadInv(r) /\ ResultInv
    BY <1>1 DEF ScanInv, ToolInv, TypeOK
  <1>3. Block(r) \in BlockType /\ Block(r)[1] <= Block(r)[2]
    BY <1>1, BlockFacts
  <1>4. UNCHANGED <<device, segments, progress, key, token, running>>
    BY DEF Probe, Proceed, toolVars
  <1>5. ResultInv'
    BY <1>2, <1>4, ResultKept
  <1>6. CASE ~Current(r) /\ Return(r, "stopped") /\ UNCHANGED toolVars
    <2>1. "stopped" \in Outcomes
      BY DEF Outcomes
    <2>2. pc' = [pc EXCEPT ![r] = "read"] /\ pc'[r] = "read"
      BY <1>1, <1>2, <1>6 DEF toolVars, ToolInv, TypeOK
    <2>3. ThreadInv(r)'
      BY <1>1, <1>4, <1>6, <2>1, <2>2, ReturnKeeps
    <2>4. /\ \A q \in Run : q # r => todo'[q] = todo[q] /\ found'[q] = found[q]
          /\ DOMAIN todo' = Run /\ DOMAIN found' = Run
      BY <1>2, <1>6 DEF Return
    <2>5. QED
      BY <1>1, <1>4, <1>5, <2>2, <2>3, <2>4, ThreadKeeps
  <1>7. CASE Recurse(r, Chunks(Block(r))) /\ UNCHANGED toolVars
    <2>1. PICK blocks : blocks = Chunks(Block(r))
      OBVIOUS
    <2>2. /\ blocks \in Seq(BlockType) /\ blocks # <<>>
          /\ BlocksTile(blocks, Block(r)[1], Block(r)[2])
      BY <1>3, <2>1, ChunksTile
    <2>3. pc' = [pc EXCEPT ![r] = "read"] /\ pc'[r] = "read"
      BY <1>1, <1>2, <1>7 DEF toolVars, ToolInv, TypeOK
    <2>4. Recurse(r, blocks)
      BY <1>7, <2>1
    <2>5. ThreadInv(r)'
      BY <1>1, <1>4, <2>2, <2>3, <2>4, RecurseKeeps
    <2>6. /\ \A q \in Run : q # r => todo'[q] = todo[q] /\ found'[q] = found[q]
          /\ DOMAIN todo' = Run /\ DOMAIN found' = Run
      BY <1>2, <2>4 DEF Recurse
    <2>7. QED
      BY <1>1, <1>4, <1>5, <2>3, <2>5, <2>6, ThreadKeeps
  <1>8. CASE Proceed(r) /\ UNCHANGED <<todo, found>>
    <2>1. pc' = [pc EXCEPT ![r] = "await"]
      BY <1>8 DEF Proceed, Goto
    <2>2. (\A s : Truthful(s)' = Truthful(s)) /\ Current(r)' = Current(r)
      BY <1>4 DEF Truthful, Current
    <2>3. ThreadTiles(todo[r], found[r])'
      BY <1>2, <1>8 DEF ThreadInv
    <2>4. ThreadInv(r)'
      BY <1>1, <1>2, <1>4, <1>8, <2>2, <2>3 DEF ThreadInv
    <2>5. QED
      BY <1>1, <1>2, <1>4, <1>5, <1>8, <2>1, <2>4, ThreadKeeps
  <1>9. QED
    BY <1>6, <1>7, <1>8 DEF Probe

-----------------------------------------------------------------------------
(* _merge_segments *)

\* Rows up to address e, the last of them with outcome o.
RowsUpTo(m, e, o) ==
    /\ m \in Seq(SegmentType) /\ m # <<>> /\ SegmentsTile(m, StartAddress, e)
    /\ \A i \in 1..(Len(m) - 1) : m[i].outcome # m[i + 1].outcome
    /\ \A i \in 1..Len(m) : m[i].outcome # "stopped" /\ Truthful(m[i])
    /\ m[Len(m)].outcome = o

\* The next segment makes the last row longer or starts another.
LEMMA ExtendKeeps ==
  ASSUME NEW m, NEW e \in Int, NEW o, RowsUpTo(m, e, o),
         NEW seg \in SegmentType, seg.start = e + 1, seg.start <= seg.end,
         seg.outcome # "stopped", Truthful(seg)
  PROVE  RowsUpTo(Extend(m, seg), seg.end, seg.outcome)
  <1>1. /\ m \in Seq(SegmentType) /\ m # <<>> /\ SegmentsTile(m, StartAddress, e)
        /\ \A i \in 1..(Len(m) - 1) : m[i].outcome # m[i + 1].outcome
        /\ \A i \in 1..Len(m) : m[i].outcome # "stopped" /\ Truthful(m[i])
    BY DEF RowsUpTo
  <1>2. PICK n : n = Len(m) /\ n \in Nat \ {0} /\ \A i \in 1..n : m[i] \in SegmentType
    BY <1>1
  <1>3. m[n].end = e /\ m[1].start = StartAddress /\ StartAddress \in Int
    BY <1>1, <1>2, RangeAssumption DEF SegmentsTile
  <1>4. CASE seg.outcome # m[n].outcome
    <2>1. PICK u : u = Append(m, seg)
      OBVIOUS
    <2>2. Extend(m, seg) = u
      BY <1>1, <1>2, <1>4, <2>1 DEF Extend, SameRow, Last
    <2>3. u \in Seq(SegmentType) /\ SegmentsTile(u, StartAddress, seg.end)
      BY <1>1, <1>3, <2>1, SegmentsAppend
    <2>4. Len(u) = n + 1 /\ u # <<>> /\ u[n + 1] = seg /\ \A i \in 1..n : u[i] = m[i]
      BY <1>1, <1>2, <2>1
    <2>5. ASSUME NEW i \in 1..n PROVE u[i].outcome # u[i + 1].outcome
      <3>1. CASE i = n
        BY <1>2, <1>4, <2>4, <3>1
      <3>2. CASE i < n
        BY <1>1, <1>2, <2>4, <3>2
      <3>3. QED
        BY <1>2, <3>1, <3>2
    <2>6. \A i \in 1..(n + 1) : u[i].outcome # "stopped" /\ Truthful(u[i])
      BY <1>1, <1>2, <2>4
    <2>7. Len(u) - 1 = n /\ u[Len(u)].outcome = seg.outcome
      BY <1>2, <2>4
    <2>8. RowsUpTo(u, seg.end, seg.outcome)
      BY <2>3, <2>4, <2>5, <2>6, <2>7 DEF RowsUpTo
    <2>9. QED
      BY <2>2, <2>8
  <1>5. CASE seg.outcome = m[n].outcome
    <2>1. PICK last, longer : last = m[n] /\ longer = [last EXCEPT !.end = seg.end]
      OBVIOUS
    <2>2. last \in SegmentType /\ last.end = e /\ last.start <= e /\ last.outcome = seg.outcome
      BY <1>1, <1>2, <1>3, <1>5, <2>1 DEF SegmentsTile
    <2>3. /\ longer \in SegmentType /\ longer.start = last.start /\ longer.end = seg.end
          /\ longer.outcome = last.outcome
      BY <2>1, <2>2 DEF SegmentType
    <2>4. PICK u : u = Append(Front(m), longer)
      OBVIOUS
    <2>5. Extend(m, seg) = u
      BY <1>1, <1>2, <1>3, <1>5, <2>1, <2>4 DEF Extend, SameRow, Last
    <2>6. /\ u \in Seq(SegmentType) /\ Len(u) = n /\ u # <<>> /\ u[n] = longer
          /\ \A i \in 1..(n - 1) : u[i] = m[i]
      <3>1. PICK w : w = SubSeq(m, 1, n - 1)
        OBVIOUS
      <3>2. w \in Seq(SegmentType) /\ Len(w) = n - 1 /\ \A i \in 1..(n - 1) : w[i] = m[i]
        BY <1>1, <1>2, <3>1
      <3>3. u = Append(w, longer)
        BY <1>2, <2>4, <3>1 DEF Front
      <3>4. QED
        BY <1>2, <2>3, <3>2, <3>3
    <2>7. \A i \in 1..n : u[i].start = m[i].start /\ u[i].outcome = m[i].outcome
      <3>1. u[n].start = m[n].start /\ u[n].outcome = m[n].outcome
        BY <2>1, <2>3, <2>6
      <3>2. \A i \in 1..(n - 1) : u[i].start = m[i].start /\ u[i].outcome = m[i].outcome
        BY <2>6
      <3>3. \A i \in 1..n : i = n \/ i \in 1..(n - 1)
        BY <1>2
      <3>4. QED
        BY <3>1, <3>2, <3>3
    <2>8. \A i \in 1..(n - 1) : u[i].end = m[i].end
      BY <1>2, <2>6
    <2>9. u[n].end = seg.end /\ u[n].start <= seg.end
      BY <2>2, <2>3, <2>6 DEF SegmentType
    <2>10. \A i \in 1..n : u[i].start <= u[i].end
      <3>1. \A i \in 1..(n - 1) : u[i].start <= u[i].end
        BY <1>1, <1>2, <2>6 DEF SegmentsTile
      <3>2. QED
        BY <1>2, <2>9, <3>1
    <2>11. \A i \in 1..(n - 1) : u[i + 1].start = u[i].end + 1
      <3>1. ASSUME NEW i \in 1..(n - 1) PROVE u[i + 1].start = u[i].end + 1
        <4>1. i + 1 \in 1..n
          BY <1>2
        <4>2. m[i + 1].start = m[i].end + 1
          BY <1>1, <1>2 DEF SegmentsTile
        <4>3. QED
          BY <2>7, <2>8, <4>1, <4>2
      <3>2. QED
        BY <3>1
    <2>12. SegmentsTile(u, StartAddress, seg.end)
      <3>1. u[1].start = StartAddress
        BY <1>2, <1>3, <2>7
      <3>2. QED
        BY <2>6, <2>9, <2>10, <2>11, <3>1 DEF SegmentsTile
    <2>13. \A i \in 1..(n - 1) : u[i].outcome # u[i + 1].outcome
      <3>1. ASSUME NEW i \in 1..(n - 1) PROVE u[i].outcome # u[i + 1].outcome
        <4>1. i + 1 \in 1..n /\ i \in 1..n
          BY <1>2
        <4>2. QED
          BY <1>1, <1>2, <2>7, <4>1
      <3>2. QED
        BY <3>1
    <2>14. Truthful(longer)
      <3>1. ASSUME NEW a \in longer.start..longer.end
            PROVE  /\ longer.outcome = "readable" => device[a]
                   /\ longer.outcome = "exception" => ~device[a]
        <4>1. a \in last.start..last.end \/ a \in seg.start..seg.end
          BY <2>2, <2>3 DEF SegmentType
        <4>2. Truthful(last)
          BY <1>1, <1>2, <2>1
        <4>3. QED
          BY <2>2, <2>3, <4>1, <4>2 DEF Truthful
      <3>2. QED
        BY <3>1 DEF Truthful
    <2>15. \A i \in 1..n : u[i].outcome # "stopped" /\ Truthful(u[i])
      <3>1. ASSUME NEW i \in 1..n PROVE u[i].outcome # "stopped" /\ Truthful(u[i])
        <4>1. CASE i = n
          BY <2>2, <2>3, <2>6, <2>14, <4>1
        <4>2. CASE i < n
          BY <1>1, <1>2, <2>6, <4>2
        <4>3. QED
          BY <1>2, <4>1, <4>2
      <3>2. QED
        BY <3>1
    <2>16. u[n].outcome = seg.outcome
      BY <2>2, <2>3, <2>6
    <2>17. RowsUpTo(u, seg.end, seg.outcome)
      BY <2>6, <2>12, <2>13, <2>15, <2>16 DEF RowsUpTo
    <2>18. QED
      BY <2>5, <2>17
  <1>6. QED
    BY <1>4, <1>5

\* Segments that tile are in order, so sorting them changes nothing.
LEMMA TilesAreOrdered ==
  ASSUME NEW f \in Seq(SegmentType), NEW a, NEW b, SegmentsTile(f, a, b)
  PROVE  Ordered(f) = f
  <1> DEFINE P == {k \in Nat : \A i \in 1..Len(f) : i + k <= Len(f) =>
                                  f[i].start + k <= f[i + k].start}
  <1>1. PICK n : n = Len(f) /\ n \in Nat /\ (\A i \in 1..n : f[i] \in SegmentType)
                 /\ DOMAIN f = 1..n
    <2>1. Len(f) \in Nat /\ (\A i \in 1..Len(f) : f[i] \in SegmentType) /\ DOMAIN f = 1..Len(f)
      OBVIOUS
    <2>2. QED
      BY <2>1
  <1>2. \A i \in 1..n : f[i].start \in Int /\ f[i].end \in Int /\ f[i].start <= f[i].end
    BY <1>1 DEF SegmentsTile, SegmentType
  <1>3. \A i \in 1..(n - 1) : f[i + 1].start = f[i].end + 1
    BY <1>1 DEF SegmentsTile
  <1>4. 0 \in P
    <2>1. \A i \in 1..n : f[i].start + 0 <= f[i + 0].start
      BY <1>1, <1>2
    <2>2. QED
      BY <1>1, <2>1
  <1>5. ASSUME NEW k \in Nat, k \in P PROVE k + 1 \in P
    <2>0. \A i \in 1..n : i + k <= n => f[i].start + k <= f[i + k].start
      BY <1>1, <1>5
    <2> HIDE DEF P
    <2>1. ASSUME NEW i \in 1..n, i + (k + 1) <= n PROVE f[i].start + (k + 1) <= f[i + (k + 1)].start
      <3>1. PICK j : j = i + k /\ j \in 1..(n - 1) /\ j \in 1..n /\ j + 1 = i + (k + 1)
                     /\ i + k <= n
        BY <1>1, <2>1
      <3>2. f[i].start + k <= f[j].start
        BY <2>0, <3>1
      <3>3. f[j + 1].start = f[j].end + 1
        BY <1>3, <3>1
      <3>4. f[i].start + (k + 1) <= f[j + 1].start
        <4>1. PICK x, y, z, v : /\ x = f[i].start /\ y = f[j].start /\ z = f[j].end
                                /\ v = f[j + 1].start /\ x \in Int /\ y \in Int /\ z \in Int
                                /\ y <= z
          BY <1>2, <3>1
        <4>2. x \in Int /\ y \in Int /\ z \in Int /\ x + k <= y /\ y <= z /\ v = z + 1
          BY <3>2, <3>3, <4>1
        <4>3. x + (k + 1) <= v
          BY <4>2
        <4>4. QED
          BY <4>1, <4>3
      <3>5. QED
        BY <3>1, <3>4
    <2>2. k + 1 \in Nat
      OBVIOUS
    <2>3. \A i \in 1..Len(f) : i + (k + 1) <= Len(f) => f[i].start + (k + 1) <= f[i + (k + 1)].start
      BY <1>1, <2>1
    <2>4. QED
      BY <2>2, <2>3, Zenon DEF P
  <1>6. Nat \subseteq P
    <2> HIDE DEF P
    <2> QED
      BY <1>4, <1>5, NatInductive
  <1>7. ASSUME NEW i \in 1..n, NEW j \in 1..n, i < j PROVE f[i].start < f[j].start
    <2>1. PICK k \in Nat : k = j - i /\ k > 0 /\ i + k = j /\ i + k <= Len(f)
      BY <1>1, <1>7
    <2>2. k \in P
      BY <1>6
    <2>3. f[i].start + k <= f[j].start
      BY <1>1, <2>1, <2>2
    <2>4. QED
      BY <1>2, <2>1, <2>3
  <1> HIDE DEF P
  <1>8. ASSUME NEW i \in 1..n PROVE Rank(f, i) = i
    <2>1. ASSUME NEW j \in 1..n
          PROVE  (f[j].start < f[i].start \/ (f[j].start = f[i].start /\ j <= i)) <=> j <= i
      <3>1. CASE j < i
        BY <1>2, <1>7, <3>1
      <3>2. CASE j = i
        BY <3>2
      <3>3. CASE i < j
        BY <1>2, <1>7, <3>3
      <3>4. QED
        BY <1>1, <3>1, <3>2, <3>3
    <2>2. {j \in 1..n : f[j].start < f[i].start \/ (f[j].start = f[i].start /\ j <= i)} = 1..i
      BY <1>1, <2>1
    <2>3. Cardinality(1..i) = i
      <3>1. 1 \in Int /\ i \in Int /\ ~(1 > i)
        BY <1>1
      <3>2. Cardinality(1..i) = i - 1 + 1
        BY <3>1, FS_Interval
      <3>3. QED
        BY <3>1, <3>2
    <2>4. QED
      BY <1>1, <2>2, <2>3 DEF Rank
  <1>9. ASSUME NEW k \in DOMAIN f PROVE (CHOOSE i \in DOMAIN f : Rank(f, i) = k) = k
    <2>1. k \in DOMAIN f /\ Rank(f, k) = k /\ \A i \in DOMAIN f : Rank(f, i) = k => i = k
      BY <1>1, <1>8
    <2>2. QED
      BY <2>1
  <1>10. Ordered(f) = [k \in DOMAIN f |-> f[k]]
    <2>1. ASSUME NEW k \in DOMAIN f PROVE Ordered(f)[k] = f[k]
      <3>1. Ordered(f)[k] = f[CHOOSE i \in DOMAIN f : Rank(f, i) = k]
        BY DEF Ordered
      <3>2. QED
        BY <1>9, <3>1
    <2>2. Ordered(f) = [k \in DOMAIN f |-> Ordered(f)[k]]
      BY DEF Ordered
    <2>3. QED
      BY <2>1, <2>2
  <1>11. QED
    BY <1>1, <1>10

\* The fold of _merge_segments, one segment after the other.
LEMMA MergeUnfolds ==
  ASSUME NEW f \in Seq(SegmentType)
  PROVE  \E g : /\ FoldLeft(Extend, <<>>, f) = g[1..Len(f)] /\ g[{}] = <<>>
               /\ \A n \in Nat : n + 1 \in 1..Len(f) => g[1..(n + 1)] = Extend(g[1..n], f[n + 1])
  <1> DEFINE S == DOMAIN f
             A == Seq(SegmentType)
             F == [p \in A \X SegmentType |-> Extend(p[1], p[2])]
             body(iter) == [t \in SUBSET S |->
                              IF t = {} THEN <<>> ELSE Extend(iter[t \ {Max(t)}], f[Max(t)])]
  <1>1. ASSUME NEW m \in A, NEW seg \in SegmentType PROVE F[<<m, seg>>] = Extend(m, seg) /\ Extend(m, seg) \in A
    <2>1. F[<<m, seg>>] = Extend(m, seg)
      OBVIOUS
    <2>2. CASE m = <<>> \/ ~SameRow(Last(m), seg)
      BY <2>2 DEF Extend
    <2>3. CASE m # <<>> /\ SameRow(Last(m), seg)
      <3>1. PICK n, last, w : n = Len(m) /\ last = m[n] /\ w = SubSeq(m, 1, n - 1)
        OBVIOUS
      <3>2. n \in Nat \ {0} /\ last \in SegmentType /\ w \in Seq(SegmentType)
        BY <2>3, <3>1
      <3>3. PICK longer : longer = [last EXCEPT !.end = seg.end] /\ longer \in SegmentType
        <4>1. [last EXCEPT !.end = seg.end] \in SegmentType
          BY <3>2 DEF SegmentType
        <4>2. QED
          BY <4>1
      <3>4. Extend(m, seg) = Append(w, longer)
        BY <2>3, <3>1, <3>3 DEF Extend, Last, Front
      <3>5. QED
        BY <2>1, <3>2, <3>3, <3>4
    <2>4. QED
      BY <2>1, <2>2, <2>3
  <1>2. \E g \in [SUBSET S -> A] : \A t \in SUBSET S : FoldsTo(g, t, <<>>, F, f)
    <2>1. <<>> \in A
      OBVIOUS
    <2>2. \A m \in A, seg \in SegmentType : F[<<m, seg>>] \in A
      BY <1>1
    <2>3. PICK B, G, base : B = A /\ G = F /\ base = <<>>
      OBVIOUS
    <2>4. base \in B /\ \A m \in B, seg \in SegmentType : G[<<m, seg>>] \in B
      BY <2>1, <2>2, <2>3, Zenon
    <2>5. \E g \in [SUBSET DOMAIN f -> B] : \A t \in SUBSET DOMAIN f : FoldsTo(g, t, base, G, f)
      BY <2>4, SeqRecursion, Zenon
    <2> HIDE DEF A, F
    <2>6. QED
      BY <2>3, <2>5, Zenon
  <1>3. PICK g \in [SUBSET S -> A] : \A t \in SUBSET S : FoldsTo(g, t, <<>>, F, f)
    BY <1>2
  <1>4. g = body(g)
    <2>1. ASSUME NEW t \in SUBSET S, t # {} PROVE g[t] = Extend(g[t \ {Max(t)}], f[Max(t)])
      <3>1. Max(t) \in S
        BY <2>1, MaxInSet
      <3>2. g[t \ {Max(t)}] \in A /\ f[Max(t)] \in SegmentType
        BY <1>3, <3>1
      <3>3. g[t] = F[<<g[t \ {Max(t)}], f[Max(t)]>>]
        BY <1>3, <2>1 DEF FoldsTo
      <3>4. QED
        BY <1>1, <3>2, <3>3
    <2>2. g[{}] = <<>>
      BY <1>3 DEF FoldsTo
    <2>3. QED
      BY <2>1, <2>2
  <1>5. PICK iter : iter = CHOOSE h : h = body(h)
    OBVIOUS
  <1>6. iter = body(iter)
    BY <1>4, <1>5
  <1>7. FoldLeft(Extend, <<>>, f) = iter[S]
    BY <1>5 DEF FoldLeft, MapThenFoldSet
  <1>8. S = 1..Len(f) /\ Len(f) \in Nat
    OBVIOUS
  <1>9. iter[{}] = <<>>
    BY <1>6
  <1>10. ASSUME NEW n \in Nat, n + 1 \in 1..Len(f)
         PROVE  iter[1..(n + 1)] = Extend(iter[1..n], f[n + 1])
    <2>1. PICK t : t = 1..(n + 1) /\ t \in SUBSET S /\ t # {}
      BY <1>8, <1>10
    <2>2. Max(t) = n + 1 /\ t \ {n + 1} = 1..n
      BY <2>1, MaxOfFirst
    <2>3. iter[t] = Extend(iter[t \ {Max(t)}], f[Max(t)])
      BY <1>6, <2>1
    <2>4. QED
      BY <2>1, <2>2, <2>3
  <1>11. QED
    BY <1>7, <1>8, <1>9, <1>10

\* Merging the segments of a whole scan gives rows that are exact.
LEMMA MergeExact ==
  ASSUME NEW f \in Seq(SegmentType), SegmentsTile(f, StartAddress, EndAddress),
         \A i \in 1..Len(f) : Truthful(f[i]) /\ f[i].outcome # "stopped"
  PROVE  ExactRows(MergeSegments(f))
  <1>1. PICK L : L = Len(f) /\ L \in Nat \ {0} /\ \A i \in 1..L : f[i] \in SegmentType
    <2>1. f # <<>>
      BY RangeAssumption DEF SegmentsTile
    <2>2. Len(f) \in Nat \ {0} /\ \A i \in 1..Len(f) : f[i] \in SegmentType
      BY <2>1
    <2>3. QED
      BY <2>2
  <1>2. PICK g : /\ MergeSegments(f) = g[1..L] /\ g[{}] = <<>>
                 /\ \A n \in Nat : n + 1 \in 1..L => g[1..(n + 1)] = Extend(g[1..n], f[n + 1])
    <2>1. Ordered(f) = f
      BY TilesAreOrdered
    <2>2. MergeSegments(f) = FoldLeft(Extend, <<>>, f)
      BY <2>1 DEF MergeSegments
    <2>3. QED
      BY <1>1, <2>2, MergeUnfolds
  <1>3. \A i \in 1..L : /\ f[i] \in SegmentType /\ f[i].end \in Int /\ f[i].start <= f[i].end
                        /\ Truthful(f[i]) /\ f[i].outcome # "stopped"
    BY <1>1 DEF SegmentsTile, SegmentType
  <1>4. \A i \in 1..(L - 1) : f[i + 1].start = f[i].end + 1
    BY <1>1 DEF SegmentsTile
  <1>5. f[1].start = StartAddress /\ f[L].end = EndAddress
    BY <1>1 DEF SegmentsTile
  <1> DEFINE P == {n \in Nat : n + 1 <= L => RowsUpTo(g[1..(n + 1)], f[n + 1].end, f[n + 1].outcome)}
  <1>6. 0 \in P
    <2>1. g[1..(0 + 1)] = Extend(g[1..0], f[0 + 1])
      <3>1. 0 \in Nat /\ 0 + 1 \in 1..L
        BY <1>1
      <3>2. QED
        BY <1>2, <3>1, Zenon
    <2>2. PICK m, seg : m = g[1..(0 + 1)] /\ seg = f[1]
      OBVIOUS
    <2>3. m = <<seg>>
      <3>1. 1..0 = {} /\ f[0 + 1] = seg
        BY <2>2
      <3>2. g[1..0] = <<>>
        BY <1>2, <3>1
      <3>3. m = Extend(<<>>, seg)
        BY <2>1, <2>2, <3>1, <3>2, Zenon
      <3>4. QED
        BY <3>3 DEF Extend
    <2>4. seg \in SegmentType /\ seg.start = StartAddress /\ seg.start <= seg.end
          /\ Truthful(seg) /\ seg.outcome # "stopped"
      BY <1>1, <1>3, <1>5, <2>2
    <2>5. m \in Seq(SegmentType) /\ Len(m) = 1 /\ m # <<>> /\ m[1] = seg
      BY <2>3, <2>4
    <2>6. SegmentsTile(m, StartAddress, seg.end)
      BY <2>4, <2>5 DEF SegmentsTile
    <2>7. RowsUpTo(m, seg.end, seg.outcome)
      BY <2>4, <2>5, <2>6 DEF RowsUpTo
    <2>8. RowsUpTo(g[1..(0 + 1)], f[0 + 1].end, f[0 + 1].outcome)
      BY <2>2, <2>7
    <2>9. 0 \in Nat
      OBVIOUS
    <2>10. QED
      BY <2>8, <2>9, Zenon
  <1>7. ASSUME NEW n \in Nat, n \in P PROVE n + 1 \in P
    <2>1. n + 1 <= L => RowsUpTo(g[1..(n + 1)], f[n + 1].end, f[n + 1].outcome)
      BY <1>7, Zenon
    <2> HIDE DEF P
    <2>2. ASSUME (n + 1) + 1 <= L
          PROVE  RowsUpTo(g[1..((n + 1) + 1)], f[(n + 1) + 1].end, f[(n + 1) + 1].outcome)
      <3>1. PICK i, j : /\ i = n + 1 /\ j = (n + 1) + 1 /\ i \in Nat /\ j = i + 1 /\ i <= L
                        /\ i \in 1..(L - 1) /\ i \in 1..L /\ j \in 1..L
        BY <1>1, <2>2
      <3>2. PICK m, e, o, seg : m = g[1..i] /\ e = f[i].end /\ o = f[i].outcome /\ seg = f[j]
        OBVIOUS
      <3>3. RowsUpTo(m, e, o)
        BY <2>1, <3>1, <3>2
      <3>4. e \in Int /\ seg \in SegmentType /\ seg.start = e + 1 /\ seg.start <= seg.end
            /\ seg.outcome # "stopped" /\ Truthful(seg)
        BY <1>3, <1>4, <3>1, <3>2
      <3>5. RowsUpTo(Extend(m, seg), seg.end, seg.outcome)
        BY <3>3, <3>4, ExtendKeeps
      <3>6. g[1..j] = Extend(m, seg)
        BY <1>2, <3>1, <3>2
      <3>7. RowsUpTo(g[1..j], f[j].end, f[j].outcome)
        BY <3>2, <3>5, <3>6
      <3>8. QED
        BY <3>1, <3>7
    <2>3. n + 1 \in Nat
      OBVIOUS
    <2>4. QED
      BY <2>2, <2>3, Zenon DEF P
  <1>8. Nat \subseteq P
    <2> HIDE DEF P
    <2> QED
      BY <1>6, <1>7, NatInductive
  <1>9. RowsUpTo(g[1..L], f[L].end, f[L].outcome)
    <2>1. PICK n : n \in Nat /\ L = n + 1 /\ n + 1 <= L
      <3>1. L - 1 \in Nat /\ L = (L - 1) + 1 /\ (L - 1) + 1 <= L
        BY <1>1
      <3>2. QED
        BY <3>1
    <2>2. n \in P
      BY <1>8, <2>1
    <2>3. QED
      BY <2>1, <2>2, Zenon
  <1>10. PICK rows, o : rows = MergeSegments(f) /\ RowsUpTo(rows, EndAddress, o)
    BY <1>2, <1>5, <1>9
  <1>11. rows \in Seq(SegmentType) /\ rows # <<>> /\ SegmentsTile(rows, StartAddress, EndAddress)
         /\ DOMAIN rows = 1..Len(rows)
    BY <1>10 DEF RowsUpTo
  <1>12. Tiles(rows)
    BY <1>11 DEF Tiles, SegmentsTile, Last
  <1>13. QED
    BY <1>10, <1>11, <1>12 DEF ExactRows, RowsUpTo, ToSet

-----------------------------------------------------------------------------
\* The rest of _probe.
LEMMA AnswerKeeps == ASSUME ToolInv, ScanInv, NEW r \in Run, Answer(r) PROVE ScanInv'
  <1>1. Working(r) /\ pc[r] = "await"
    BY DEF Answer, Working
  <1>2. /\ DOMAIN todo = Run /\ DOMAIN found = Run /\ DOMAIN pc = Run /\ ResultInv
        /\ ThreadInv(r) /\ todo[r] # <<>>
    BY <1>1 DEF ScanInv, ToolInv, TypeOK, ThreadInv
  <1>3. PICK b : b = Block(r) /\ b \in BlockType /\ b[1] <= b[2] /\ b[1] \in Int /\ b[2] \in Int
    <2>1. Block(r) \in BlockType /\ Block(r)[1] <= Block(r)[2]
      BY <1>1, <1>2, BlockFacts
    <2>2. Block(r)[1] \in Int /\ Block(r)[2] \in Int
      BY <2>1 DEF BlockType
    <2>3. QED
      BY <2>1, <2>2
  <1>4. PICK a \in Answers(b) :
          \/ /\ a = "exception" /\ Quantity(b) > 1
             /\ Recurse(r, Halves(b)) /\ Report(r, shown) /\ UNCHANGED progress
          \/ /\ ~(a = "exception" /\ Quantity(b) > 1)
             /\ Return(r, a) /\ Bump(r)
    BY <1>3 DEF Answer
  <1>5. /\ UNCHANGED <<device, segments, key, token, running>>
        /\ pc' = [pc EXCEPT ![r] = "read"] /\ pc'[r] = "read"
    BY <1>2, <1>4 DEF Answer, Bump, Report, Goto
  <1>6. CASE /\ a = "exception" /\ Quantity(b) > 1
             /\ Recurse(r, Halves(b)) /\ UNCHANGED progress
    <2>1. PICK blocks : blocks = Halves(b)
      OBVIOUS
    <2>2. b[1] < b[2]
      BY <1>3, <1>6 DEF Quantity
    <2>3. blocks \in Seq(BlockType) /\ blocks # <<>> /\ BlocksTile(blocks, b[1], b[2])
      BY <1>3, <2>1, <2>2, HalvesTile
    <2>4. Recurse(r, blocks) /\ BlocksTile(blocks, Block(r)[1], Block(r)[2])
      BY <1>3, <1>6, <2>1, <2>3
    <2>5. ThreadInv(r)'
      BY <1>1, <1>2, <1>5, <1>6, <2>3, <2>4, RecurseKeeps
    <2>6. /\ \A q \in Run : q # r => todo'[q] = todo[q] /\ found'[q] = found[q]
          /\ DOMAIN todo' = Run /\ DOMAIN found' = Run
      BY <1>2, <2>4 DEF Recurse
    <2>7. ResultInv'
      BY <1>2, <1>5, <1>6, ResultKept
    <2>8. QED
      BY <1>1, <1>5, <1>6, <2>5, <2>6, <2>7, ThreadKeeps
  <1>7. CASE ~(a = "exception" /\ Quantity(b) > 1) /\ Return(r, a) /\ Bump(r)
    <2>1. a \in Outcomes /\ a # "stopped"
      BY <1>4, RangeAssumption DEF Answers, Outcomes
    <2>2. \A x \in b[1]..b[2] : (a = "readable" => device[x]) /\ (a = "exception" => ~device[x])
      <3>1. CASE a = "readable"
        BY <1>4, <3>1, RangeAssumption DEF Answers
      <3>2. CASE a = "exception"
        <4>1. b[1] = b[2]
          BY <1>3, <1>7, <3>2 DEF Quantity
        <4>2. ~(\A x \in b[1]..b[2] : device[x])
          BY <1>4, <3>2, RangeAssumption DEF Answers
        <4>3. \A x \in b[1]..b[2] : x = b[1]
          BY <1>3, <4>1
        <4>4. QED
          BY <3>2, <4>2, <4>3
      <3>3. QED
        BY <3>1, <3>2
    <2>3. progress' = progress \/ Current(r)
      BY <1>7 DEF Bump
    <2>4. Current(r) => progress' = progress + Quantity(Block(r))
      BY <1>7 DEF Bump
    <2>5. ThreadInv(r)'
      BY <1>1, <1>2, <1>3, <1>5, <1>7, <2>1, <2>2, <2>4, ReturnKeeps
    <2>6. /\ \A q \in Run : q # r => todo'[q] = todo[q] /\ found'[q] = found[q]
          /\ DOMAIN todo' = Run /\ DOMAIN found' = Run
      BY <1>2, <1>7 DEF Return
    <2>7. ResultInv'
      <3>1. CASE progress' = progress
        BY <1>2, <1>5, <3>1, ResultKept
      <3>2. CASE Current(r)
        <4>1. running
          BY <1>1, <3>2 DEF ToolInv, OwnsState
        <4>2. QED
          BY <1>2, <1>5, <4>1 DEF ResultInv
      <3>3. QED
        BY <2>3, <3>1, <3>2
    <2>8. QED
      BY <1>1, <1>5, <2>3, <2>5, <2>6, <2>7, ThreadKeeps
  <1>8. QED
    BY <1>4, <1>6, <1>7

\* The end of _run_scan.
LEMMA ScanEndKeeps == ASSUME ToolInv, ScanInv, NEW r \in Run, ScanEnd(r) PROVE ScanInv'
  <1>1. Working(r) /\ pc[r] = "read" /\ todo[r] = <<>>
    BY DEF ScanEnd, Working
  <1>2. /\ DOMAIN todo = Run /\ DOMAIN found = Run /\ DOMAIN pc = Run /\ ResultInv
        /\ ThreadInv(r)
    BY <1>1 DEF ScanInv, ToolInv, TypeOK
  <1>3. /\ UNCHANGED <<device, key, token, todo, progress>>
        /\ pc' = [pc EXCEPT ![r] = "done"] /\ found' = [found EXCEPT ![r] = <<>>]
    BY DEF ScanEnd, Publish, End, Leave, Goto
  <1>4. ~Working(r)'
    BY <1>2, <1>3 DEF Working
  <1>5. ResultInv'
    <2>1. CASE ~Current(r) /\ Leave(r) /\ UNCHANGED segments
      BY <1>2, <1>3, <2>1, ResultKept DEF Leave
    <2>2. CASE Current(r) /\ running' = FALSE /\ segments' = MergeSegments(found[r])
      <3>1. PICK f : f = found[r]
        OBVIOUS
      <3>2. Position(todo[r]) = EndAddress + 1 /\ (EndAddress + 1) - 1 = EndAddress
        BY <1>1, RangeAssumption DEF Position
      <3>3. f \in Seq(SegmentType) /\ SegmentsTile(f, StartAddress, EndAddress)
        BY <1>2, <3>1, <3>2 DEF ThreadInv, ThreadTiles
      <3>4. \A i \in 1..Len(f) : Truthful(f[i]) /\ f[i].outcome # "stopped"
        BY <1>2, <2>2, <3>1 DEF ThreadInv
      <3>5. ExactRows(MergeSegments(f))
        BY <3>3, <3>4, MergeExact
      <3>6. progress = Total
        BY <1>2, <2>2, <3>2, RangeAssumption DEF ThreadInv, Total
      <3>7. \A seg : Truthful(seg)' = Truthful(seg)
        BY <1>3 DEF Truthful
      <3>8. ExactRows(segments)'
        BY <2>2, <3>1, <3>5, <3>7 DEF ExactRows
      <3>9. QED
        BY <1>3, <2>2, <3>6, <3>8 DEF ResultInv
    <2>3. QED
      BY <2>1, <2>2 DEF ScanEnd, Publish, End
  <1>6. /\ \A q \in Run : q # r => todo'[q] = todo[q] /\ found'[q] = found[q]
        /\ DOMAIN todo' = Run /\ DOMAIN found' = Run
    BY <1>2, <1>3
  <1>7. QED
    BY <1>1, <1>3, <1>4, <1>5, <1>6, ThreadKeeps

\* The invariant of the register scan is inductive.
LEMMA ScanInductive == ScanSpec => [](ToolInv /\ CounterInv /\ ScanInv)
  <1>1. ScanInit => ToolInv /\ CounterInv /\ ScanInv
    BY ScanToolInv, ScanInvInit
  <1>2. ASSUME ToolInv, CounterInv, ScanInv, [ScanNext]_allVars PROVE ScanInv'
    <2>1. CASE ScanNext
      BY <1>2, <2>1, StartKeeps, StopKeeps, ProbeKeeps, AnswerKeeps, ScanEndKeeps
         DEF ScanNext, Thread
    <2>2. CASE UNCHANGED allVars
      <3>1. UNCHANGED <<pc, token, key, running, device, todo, found, segments, progress>>
        BY <2>2 DEF allVars, toolVars, scanVars
      <3>2. \A seg : Truthful(seg)' = Truthful(seg)
        BY <3>1 DEF Truthful
      <3>3. ASSUME NEW r \in Run, Working(r)' PROVE ThreadInv(r)'
        <4>1. Working(r) /\ ThreadInv(r)
          BY <1>2, <3>1, <3>3 DEF Working, ScanInv
        <4>2. ThreadTiles(todo[r], found[r])'
          BY <3>1, <4>1 DEF ThreadInv
        <4>3. QED
          BY <3>1, <3>2, <4>1, <4>2 DEF ThreadInv, Current
      <3>4. ResultInv'
        BY <1>2, <3>1, ResultKept DEF ScanInv
      <3>5. QED
        BY <1>2, <3>1, <3>3, <3>4 DEF ScanInv
    <2>3. QED
      BY <1>2, <2>1, <2>2
  <1>3. QED
    BY <1>1, <1>2, ScanToolInv, PTL DEF ScanSpec

\* What was found and what is to be done, one after the other.
LEMMA TilesTogether ==
  ASSUME ScanInv, NEW r \in Run, Working(r) PROVE Tiles(found[r] \o Pending(r))
  <1>1. PICK t, f, s, m, n : /\ t = todo[r] /\ f = found[r] /\ s = Pending(r)
                             /\ m = Len(f) /\ n = Len(t)
    OBVIOUS
  <1>2. ThreadTiles(t, f)
    BY <1>1 DEF ScanInv, ThreadInv
  <1>3. /\ t \in Seq(BlockType) /\ f \in Seq(SegmentType) /\ m \in Nat /\ n \in Nat
        /\ DOMAIN t = 1..n
    BY <1>1, <1>2 DEF ThreadTiles
  <1> DEFINE X == [start : Int, end : Int, outcome : Outcomes \cup {"pending"}]
  <1>4. s = [i \in 1..n |-> Segment(t[i], "pending")]
    BY <1>1, <1>3 DEF Pending
  <1>5. \A i \in 1..n : s[i] \in X /\ s[i].start = t[i][1] /\ s[i].end = t[i][2]
    <2>1. \A i \in 1..n : t[i] \in BlockType
      BY <1>1, <1>3
    <2>2. QED
      BY <1>4, <2>1 DEF Segment, BlockType
  <1>6. SegmentType \subseteq X
    BY DEF SegmentType
  <1> HIDE DEF X
  <1>7. s \in Seq(X) /\ Len(s) = n /\ f \in Seq(X)
    <2>1. s \in [1..n -> X]
      BY <1>4, <1>5
    <2>2. f \in [1..m -> X]
      <3>1. f \in [1..m -> SegmentType]
        BY <1>1, <1>3
      <3>2. QED
        BY <1>6, <3>1
    <2>3. QED
      BY <1>3, <2>1, <2>2
  <1>8. PICK u : /\ u = f \o s /\ u \in Seq(X) /\ Len(u) = m + n /\ DOMAIN u = 1..(m + n)
                 /\ (\A i \in 1..m : u[i] = f[i])
                 /\ (\A i \in 1..n : u[m + i] = s[i])
    <2>1. f \o s \in Seq(X) /\ Len(f \o s) = m + n
      <3>1. f \o s \in Seq(X) /\ Len(f \o s) = Len(f) + Len(s)
        BY <1>7
      <3>2. QED
        BY <1>1, <1>7, <3>1
    <2>2. \A i \in 1..m : (f \o s)[i] = f[i]
      BY <1>1, <1>3, <1>7
    <2>3. \A i \in 1..n : (f \o s)[m + i] = s[i]
      BY <1>1, <1>3, <1>7
    <2>4. PICK v : v = f \o s
      OBVIOUS
    <2>5. v \in Seq(X) /\ Len(v) = m + n /\ DOMAIN v = 1..(m + n)
      BY <1>3, <2>1, <2>4
    <2>6. QED
      BY <2>2, <2>3, <2>4, <2>5
  <1>9. \A i \in 1..m : u[i] = f[i] /\ u[i].start <= u[i].end
    BY <1>1, <1>2, <1>8 DEF ThreadTiles, SegmentsTile
  <1>10. \A i \in 1..n : /\ u[m + i].start = t[i][1] /\ u[m + i].end = t[i][2]
                         /\ u[m + i].start <= u[m + i].end
    <2>1. \A i \in 1..n : u[m + i].start = t[i][1] /\ u[m + i].end = t[i][2]
      BY <1>5, <1>8
    <2>2. \A i \in 1..n : t[i][1] <= t[i][2]
      BY <1>1, <1>2 DEF ThreadTiles, BlocksTile
    <2>3. QED
      BY <2>1, <2>2
  <1>11. \A i \in 1..(m + n) : i \in 1..m \/ \E j \in 1..n : i = m + j
    <2>1. ASSUME NEW i \in 1..(m + n), i \notin 1..m PROVE \E j \in 1..n : i = m + j
      <3>1. i - m \in 1..n /\ i = m + (i - m)
        BY <1>3, <2>1
      <3>2. QED
        BY <3>1
    <2>2. QED
      BY <2>1
  <1>12. \A i \in DOMAIN u : u[i].start <= u[i].end
    BY <1>8, <1>9, <1>10, <1>11
  <1>13. PICK p : p = Position(t) /\ p \in Int
    BY <1>3, RangeAssumption DEF Position, BlockType
  <1>14. /\ \A i \in 1..(m - 1) : f[i + 1].start = f[i].end + 1
         /\ m # 0 => f[1].start = StartAddress /\ f[m].end = p - 1
         /\ m = 0 => StartAddress = p
    <2>1. SegmentsTile(f, StartAddress, p - 1)
      BY <1>2, <1>13 DEF ThreadTiles
    <2>2. m = 0 <=> f = <<>>
      BY <1>1, <1>3
    <2>3. QED
      BY <1>1, <1>13, <2>1, <2>2, RangeAssumption DEF SegmentsTile
  <1>15. /\ \A i \in 1..(n - 1) : t[i + 1][1] = t[i][2] + 1
         /\ n # 0 => t[1][1] = p /\ t[n][2] = EndAddress
         /\ n = 0 => p = EndAddress + 1
    <2>1. BlocksTile(t, p, EndAddress)
      BY <1>2, <1>13 DEF ThreadTiles
    <2>2. n = 0 <=> t = <<>>
      BY <1>1, <1>3
    <2>3. QED
      BY <1>1, <2>1, <2>2 DEF BlocksTile
  <1>16. m + n # 0 /\ u # <<>>
    BY <1>3, <1>8, <1>13, <1>14, <1>15, RangeAssumption
  <1>17. ASSUME NEW i \in 1..(Len(u) - 1) PROVE u[i + 1].start = u[i].end + 1
    <2>1. CASE i < m
      <3>1. i \in 1..(m - 1) /\ i \in 1..m /\ i + 1 \in 1..m
        BY <1>3, <2>1
      <3>2. u[i] = f[i] /\ u[i + 1] = f[i + 1]
        BY <1>8, <3>1
      <3>3. QED
        BY <1>14, <3>1, <3>2
    <2>2. CASE i = m
      <3>1. 1 \in 1..n /\ m # 0 /\ n # 0 /\ i \in 1..m
        BY <1>3, <1>8, <2>2
      <3>2. u[m + 1].start = p
        BY <1>10, <1>15, <3>1
      <3>3. u[m].end = p - 1
        BY <1>8, <1>14, <2>2, <3>1
      <3>4. QED
        BY <1>13, <2>2, <3>2, <3>3
    <2>3. CASE i > m
      <3>1. PICK j : j = i - m /\ i = m + j /\ j \in 1..(n - 1) /\ j \in 1..n /\ j + 1 \in 1..n
                     /\ i + 1 = m + (j + 1)
        BY <1>3, <1>8, <2>3
      <3>2. u[i + 1].start = t[j + 1][1] /\ u[i].end = t[j][2]
        BY <1>10, <3>1
      <3>3. QED
        BY <1>15, <3>1, <3>2
    <2>4. QED
      BY <1>3, <2>1, <2>2, <2>3
  <1>18. u[1].start = StartAddress
    <2>1. CASE m # 0
      BY <1>3, <1>8, <1>14, <2>1
    <2>2. CASE m = 0
      <3>1. 1 \in 1..n /\ m + 1 = 1 /\ n # 0
        BY <1>3, <1>16, <2>2
      <3>2. u[m + 1].start = t[1][1]
        BY <1>10, <3>1
      <3>3. QED
        BY <1>14, <1>15, <2>2, <3>1, <3>2
    <2>3. QED
      BY <2>1, <2>2
  <1>19. u[m + n].end = EndAddress
    <2>1. CASE n # 0
      <3>1. n \in 1..n
        BY <1>3, <2>1
      <3>2. QED
        BY <1>10, <1>15, <2>1, <3>1
    <2>2. CASE n = 0
      <3>1. m \in 1..m /\ m + n = m /\ m # 0
        BY <1>3, <1>16, <2>2
      <3>2. u[m].end = p - 1
        BY <1>8, <1>14, <3>1
      <3>3. QED
        BY <1>15, <2>2, <3>1, <3>2, RangeAssumption
    <2>3. QED
      BY <2>1, <2>2
  <1>20. Tiles(u)
    BY <1>8, <1>12, <1>16, <1>17, <1>18, <1>19 DEF Tiles, Last
  <1>21. QED
    BY <1>1, <1>8, <1>20

\* The addresses of segments that tile are those between their ends.
LEMMA TilesCover ==
  ASSUME NEW f \in Seq(SegmentType), NEW a \in Int, NEW b \in Int, SegmentsTile(f, a, b)
  PROVE  UNION {seg.start..seg.end : seg \in ToSet(f)} = a..b /\ a <= b + 1
  <1>1. PICK L : L = Len(f) /\ L \in Nat /\ DOMAIN f = 1..L
    <2>1. Len(f) \in Nat /\ DOMAIN f = 1..Len(f)
      OBVIOUS
    <2>2. QED
      BY <2>1
  <1>2. \A i \in 1..L : f[i].start \in Int /\ f[i].end \in Int /\ f[i].start <= f[i].end
    <2>1. \A i \in 1..L : f[i] \in SegmentType
      BY <1>1
    <2>2. QED
      BY <1>1, <2>1 DEF SegmentsTile, SegmentType
  <1>3. \A i \in 1..(L - 1) : f[i + 1].start = f[i].end + 1
    BY <1>1 DEF SegmentsTile
  <1> DEFINE Covered(n) == UNION {f[i].start..f[i].end : i \in 1..n}
             P == {n \in Nat : n + 1 <= L => /\ Covered(n + 1) = f[1].start..f[n + 1].end
                                             /\ f[1].start <= f[n + 1].end}
  <1>4. 0 \in P
    <2>1. 0 + 1 <= L => /\ Covered(0 + 1) = f[1].start..f[0 + 1].end
                        /\ f[1].start <= f[0 + 1].end
      <3>1. 1..(0 + 1) = {1} /\ 0 + 1 = 1
        OBVIOUS
      <3>2. Covered(0 + 1) = f[1].start..f[1].end
        BY <3>1, Zenon
      <3>3. 1 <= L => f[1].start <= f[1].end
        BY <1>1, <1>2
      <3>4. QED
        BY <3>1, <3>2, <3>3
    <2>2. 0 \in Nat
      OBVIOUS
    <2>3. QED
      BY <2>1, <2>2, Zenon
  <1>5. ASSUME NEW n \in Nat, n \in P PROVE n + 1 \in P
    <2>1. n + 1 <= L => Covered(n + 1) = f[1].start..f[n + 1].end /\ f[1].start <= f[n + 1].end
      BY <1>5, Zenon
    <2> HIDE DEF P
    <2>2. ASSUME (n + 1) + 1 <= L
          PROVE  /\ Covered((n + 1) + 1) = f[1].start..f[(n + 1) + 1].end
                 /\ f[1].start <= f[(n + 1) + 1].end
      <3>1. PICK i, j : /\ i = n + 1 /\ j = (n + 1) + 1 /\ j = i + 1 /\ i <= L
                        /\ i \in 1..(L - 1) /\ i \in 1..L /\ j \in 1..L /\ 1 \in 1..L
                        /\ 1..j = (1..i) \cup {j}
        BY <1>1, <2>2
      <3>2. Covered(j) = Covered(i) \cup (f[j].start..f[j].end)
        BY <3>1
      <3>3. Covered(i) = f[1].start..f[i].end /\ f[1].start <= f[i].end
        BY <2>1, <3>1
      <3>4. f[j].start = f[i].end + 1
        BY <1>3, <3>1
      <3>5. PICK x, y, z : /\ x = f[1].start /\ y = f[i].end /\ z = f[j].end /\ x \in Int /\ y \in Int
                           /\ z \in Int /\ y + 1 <= z /\ x <= y
        BY <1>2, <3>1, <3>3, <3>4
      <3>6. (x..y) \cup ((y + 1)..z) = x..z /\ x <= z
        <4>1. x \in Int /\ y \in Int /\ z \in Int /\ y + 1 <= z /\ x <= y
          BY <3>5
        <4>2. \A w : w \in (x..y) \cup ((y + 1)..z) <=> w \in x..z
          BY <4>1
        <4>3. QED
          BY <4>1, <4>2
      <3>7. Covered(j) = x..z
        BY <3>2, <3>3, <3>4, <3>5, <3>6, Zenon
      <3>8. QED
        BY <3>1, <3>5, <3>6, <3>7
    <2>3. n + 1 \in Nat
      OBVIOUS
    <2>4. QED
      BY <2>2, <2>3, Zenon DEF P
  <1>6. Nat \subseteq P
    <2> HIDE DEF P
    <2> QED
      BY <1>4, <1>5, NatInductive
  <1>7. UNION {seg.start..seg.end : seg \in ToSet(f)} = Covered(L)
    BY <1>1 DEF ToSet
  <1>8. CASE L = 0
    <2>1. f = <<>> /\ a = b + 1 /\ 1..L = {}
      BY <1>1, <1>8 DEF SegmentsTile
    <2>2. Covered(L) = {} /\ a..b = {}
      BY <2>1
    <2>3. QED
      BY <1>7, <2>1, <2>2
  <1>9. CASE L # 0
    <2>1. f # <<>> /\ f[1].start = a /\ f[L].end = b
      BY <1>1, <1>9 DEF SegmentsTile
    <2>2. PICK n : n \in Nat /\ L = n + 1 /\ n + 1 <= L
      <3>1. L - 1 \in Nat /\ L = (L - 1) + 1 /\ (L - 1) + 1 <= L
        BY <1>1, <1>9
      <3>2. QED
        BY <3>1
    <2>3. n \in P
      BY <1>6, <2>2
    <2>4. Covered(L) = a..b /\ a <= b
      BY <2>1, <2>2, <2>3, Zenon
    <2>5. QED
      BY <1>7, <2>4
  <1>10. QED
    BY <1>8, <1>9

-----------------------------------------------------------------------------
(* The register scan's status() is right about its latest start(), and no   *)
(* answer that comes after a stop() or a newer start() changes it           *)
(* (the scan_id of modbus_register_scan.py), for any number of scans.       *)
THEOREM RegisterScanRunning == ScanSpec => []RunningIsLatest
  <1>1. ToolInv => RunningIsLatest
    BY RunAssumption DEF ToolInv, TypeOK, OwnsState, RunningWorks, LatestBegun, RunningIsLatest
  <1>2. QED
    BY <1>1, ScanInductive, PTL

(* It keeps the promise of Job, as the other tools do.                      *)
THEOREM RegisterScanKeepsPromise == ScanSpec => JobSpec
  <1>1. ScanInit => Promise!Init
    BY DEF ScanInit, Init, Promise!Init
  <1>2. ASSUME ToolInv, CounterInv, [ScanNext]_allVars PROVE [Promise!Next]_(Promise!jobVars)
    <2>1. CASE CounterStep
      BY <1>2, <2>1, CounterInvStep, StepImplements
    <2>2. CASE UNCHANGED toolVars
      BY <2>2 DEF toolVars, Promise!jobVars
    <2>3. QED
      BY <1>2, <2>1, <2>2, ScanStep DEF allVars
  <1>3. QED
    BY <1>1, <1>2, ScanInductive, PTL DEF ScanSpec, JobSpec, Promise!Spec

(* No address of any range is lost or probed twice, whatever the limit on a *)
(* read, the device, the timeouts and the moment of a stop(): at every step *)
(* of _probe, what was found and what is still to be done tile the range.   *)
THEOREM RangeIsCoveredOnce == ScanSpec => []CoveredOnce
  <1>1. ASSUME ScanInv, NEW r \in Run, Working(r) PROVE Tiles(found[r] \o Pending(r))
    BY <1>1, TilesTogether
  <1>2. ScanInv => CoveredOnce
    BY <1>1 DEF CoveredOnce
  <1>3. QED
    BY <1>2, ScanInductive, PTL

(* The progress on display counts the addresses the current scan has        *)
(* covered, and a finished scan has covered them all.                       *)
THEOREM ProgressIsExact == ScanSpec => []ProgressExact
  <1>1. ASSUME ToolInv, ScanInv PROVE ProgressExact
    <2>1. ASSUME running
          PROVE  progress = Cardinality(UNION {seg.start..seg.end : seg \in ToSet(found[latest])})
      <3>1. latest \in Run /\ Working(latest) /\ Current(latest)
        BY <1>1, <2>1 DEF ToolInv, RunningWorks
      <3>2. PICK f, p, a : f = found[latest] /\ p = Position(todo[latest]) - 1 /\ a = StartAddress
        OBVIOUS
      <3>3. ThreadInv(latest)
        BY <1>1, <3>1 DEF ScanInv
      <3>4. f \in Seq(SegmentType) /\ SegmentsTile(f, a, p) /\ a \in Int
        BY <3>2, <3>3, RangeAssumption DEF ThreadInv, ThreadTiles
      <3>5. Position(todo[latest]) \in Int
        BY <3>3, RangeAssumption DEF ThreadInv, ThreadTiles, Position, BlockType
      <3>6. p \in Int /\ progress = p + 1 - a
        BY <3>1, <3>2, <3>3, <3>5, RangeAssumption DEF ThreadInv
      <3>7. UNION {seg.start..seg.end : seg \in ToSet(f)} = a..p /\ a <= p + 1
        BY <3>4, <3>6, TilesCover
      <3>8. Cardinality(a..p) = progress
        <4>1. Cardinality(a..p) = IF a > p THEN 0 ELSE p - a + 1
          BY <3>4, <3>6, FS_Interval
        <4>2. QED
          BY <3>4, <3>6, <3>7, <4>1
      <3>9. QED
        BY <3>2, <3>7, <3>8
    <2>2. segments # <<>> => progress = Total
      BY <1>1 DEF ScanInv, ResultInv
    <2>3. QED
      BY <2>1, <2>2 DEF ProgressExact
  <1>2. QED
    BY <1>1, ScanInductive, PTL

(* A published result is exact for any range, limit and device: its rows    *)
(* tile the range, neighbours differ, every row says of each of its         *)
(* addresses what the device answers, and none of it was stopped.  So the   *)
(* superseded scans, the chunks, the halves and _merge_segments are right.  *)
THEOREM ResultIsExact == ScanSpec => []ResultExact
  <1>1. ScanInv => ResultExact
    BY DEF ScanInv, ResultInv, ExactRows, Truthful, ResultExact
  <1>2. QED
    BY <1>1, ScanInductive, PTL
=============================================================================
