----------------------------- MODULE PcapProofs -----------------------------
(***************************************************************************)
(* Proofs about Pcap.tla, for any number of sessions, of parts and of      *)
(* start() calls in progress at the same time.                             *)
(***************************************************************************)
EXTENDS Pcap, FiniteSetTheorems, TLAPS

-----------------------------------------------------------------------------
\* What the program counter says about the part number: a thread that may look
\* at its tcpdump has one.
PartMatchesPc ==
    \A s \in Session :
        /\ pc[s] \in {"idle", "spawn"} => part[s] = 0
        /\ pc[s] \in Supervising \cup {"finish", "respawn"} => part[s] > 0

\* _lock is kept across steps by the thread that waits for a superseded tcpdump
\* and by no other; that thread is not the current session and cannot become it.
LockHolder ==
    /\ \A s \in Session : pc[s] = "reapLocked" => lock = s /\ ~Current(s)
    /\ lock # None => pc[lock] = "reapLocked"

\* The inductive invariant.
IInv ==
    /\ ControlTypeOK
    /\ PartMatchesPc
    /\ LockHolder
    /\ NoOrphanTcpdump
    /\ RunningHasLoop

\* The backend starts with no capture, no loop and no tcpdump.
LEMMA InitIInv == Init => IInv
  <1> SUFFICES ASSUME Init PROVE IInv
    OBVIOUS
  <1> USE SessionAssumption, BoundAssumption
  <1>1. ControlTypeOK
    <2>1. /\ running \in BOOLEAN /\ stop_requested \in BOOLEAN
          /\ process \in Process \cup {None} /\ lock \in Session \cup {None}
          /\ session_id \in Nat
      BY DEF Init
    <2>2. /\ pc \in [Session -> PCs]
          /\ deadline \in [Session -> {"none", "pending", "passed"}]
          /\ proc \in [Process -> {"none", "live", "term", "dead"}]
      BY DEF Init, PCs
    <2>3. id \in [Session -> Nat] /\ part \in [Session -> 0..MaxPart]
      BY DEF Init
    <2>4. finishing \in [Session -> BOOLEAN]
      BY DEF Init
    <2>5. QED
      BY <2>1, <2>2, <2>3, <2>4 DEF ControlTypeOK
  <1>2. PartMatchesPc
    BY DEF Init, PartMatchesPc, Supervising
  <1>3. LockHolder
    BY DEF Init, LockHolder
  <1>4. NoOrphanTcpdump
    BY DEF Init, NoOrphanTcpdump, Alive
  <1>5. RunningHasLoop
    BY DEF Init, RunningHasLoop
  <1>6. QED
    BY <1>1, <1>2, <1>3, <1>4, <1>5 DEF IInv

\* Every step keeps the control variables in their types.
LEMMA NextType == ControlTypeOK /\ PartMatchesPc /\ [Next]_vars => ControlTypeOK'
  <1> SUFFICES ASSUME ControlTypeOK, PartMatchesPc, [Next]_vars PROVE ControlTypeOK'
    OBVIOUS
  <1> USE SessionAssumption, BoundAssumption
          DEF ControlTypeOK, PCs, Process, Part, Goto, state, locals, scan, files
  <1>1. ASSUME NEW s \in Session, Begin(s) PROVE ControlTypeOK'
    BY <1>1 DEF Begin, NewId, Terminate
  <1>2. ASSUME NEW s \in Session, Spawn(s) PROVE ControlTypeOK'
    <2>1. part' \in [Session -> 0..MaxPart] /\ pc' \in [Session -> PCs]
      BY <1>2 DEF Spawn
    <2>2. proc' \in [Process -> {"none", "live", "term", "dead"}]
      BY <1>2 DEF Spawn
    <2>3. QED
      BY <1>2, <2>1, <2>2 DEF Spawn
  <1>3. ASSUME NEW s \in Session, Refused(s) PROVE ControlTypeOK'
    BY <1>3 DEF Refused
  <1>4. ASSUME NEW s \in Session, Commit(s) PROVE ControlTypeOK'
    <2>1. Own(s) \in Process
      BY <1>4 DEF Own, PartMatchesPc, Supervising, Commit
    <2>2. QED
      BY <1>4, <2>1 DEF Commit
  <1>5. ASSUME NEW s \in Session, Glob(s) PROVE ControlTypeOK'
    BY <1>5 DEF Glob
  <1>6. ASSUME NEW s \in Session, Sort(s) PROVE ControlTypeOK'
    BY <1>6 DEF Sort, Pruned
  <1>7. ASSUME NEW s \in Session, Unlink(s) PROVE ControlTypeOK'
    BY <1>7 DEF Unlink
  <1>8. ASSUME NEW s \in Session, PruneEnd(s) PROVE ControlTypeOK'
    BY <1>8 DEF PruneEnd, Pruned
  <1>9. ASSUME NEW s \in Session, Poll(s) PROVE ControlTypeOK'
    <2>1. Own(s) \in Process
      BY <1>9 DEF Own, PartMatchesPc, Supervising, Poll
    <2>2. Ends(s) \in BOOLEAN
      BY DEF Ends, TimedOut, Exited
    <2>3. finishing' \in [Session -> BOOLEAN]
      BY <1>9, <2>2 DEF Poll
    <2>4. /\ pc' \in [Session -> PCs] /\ lock' \in Session \cup {None}
          /\ proc' \in [Process -> {"none", "live", "term", "dead"}]
      BY <1>9, <2>1 DEF Poll, Abandon, Terminate
    <2>5. QED
      BY <1>9, <2>3, <2>4 DEF Poll, Abandon
  <1>10. ASSUME NEW s \in Session, ReapLocked(s) PROVE ControlTypeOK'
    BY <1>10 DEF ReapLocked
  <1>11. ASSUME NEW s \in Session, Reap(s) PROVE ControlTypeOK'
    BY <1>11 DEF Reap
  <1>12. ASSUME NEW s \in Session, Finish(s) PROVE ControlTypeOK'
    BY <1>12 DEF Finish, ClearState
  <1>13. ASSUME NEW s \in Session, Respawn(s) PROVE ControlTypeOK'
    <2>1. part' \in [Session -> 0..MaxPart] /\ pc' \in [Session -> PCs]
      BY <1>13 DEF Respawn
    <2>2. proc' \in [Process -> {"none", "live", "term", "dead"}]
      BY <1>13 DEF Respawn
    <2>3. QED
      BY <1>13, <2>1, <2>2 DEF Respawn
  <1>14. ASSUME NEW s \in Session, Rotate(s) PROVE ControlTypeOK'
    <2>1. Own(s) \in Process
      BY <1>14 DEF Own, PartMatchesPc, Supervising, Rotate
    <2>2. pc' \in [Session -> PCs] /\ lock' \in Session \cup {None}
      BY <1>14 DEF Rotate, Abandon
    <2>3. proc' \in [Process -> {"none", "live", "term", "dead"}]
      BY <1>14, <2>1 DEF Rotate, Abandon, Terminate
    <2>4. /\ running' \in BOOLEAN /\ stop_requested' \in BOOLEAN
          /\ process' \in Process \cup {None} /\ session_id' \in Nat
      BY <1>14, <2>1 DEF Rotate, Abandon, ClearState
    <2>5. QED
      BY <1>14, <2>2, <2>3, <2>4 DEF Rotate
  <1>15. ASSUME NEW s \in Session, Write(s) PROVE ControlTypeOK'
    BY <1>15 DEF Write
  <1>16. ASSUME NEW s \in Session, DeadlinePasses(s) PROVE ControlTypeOK'
    BY <1>16 DEF DeadlinePasses
  <1>17. ASSUME NEW p \in Process, Exit(p) \/ Crash(p) PROVE ControlTypeOK'
    BY <1>17 DEF Exit, Crash
  <1>18. CASE Stop
    BY <1>18 DEF Stop, Terminate
  <1>19. ASSUME NEW name \in Listed, Delete(name) PROVE ControlTypeOK'
    BY <1>19 DEF Delete
  <1>20. CASE UNCHANGED vars
    BY <1>20 DEF vars
  <1>21. QED
    BY <1>1, <1>2, <1>3, <1>4, <1>5, <1>6, <1>7, <1>8, <1>9, <1>10, <1>11, <1>12, <1>13, <1>14, <1>15, <1>16, <1>17, <1>18, <1>19, <1>20 DEF Next, Thread

\* What the sorting step of a prune does to the control variables: it only
\* moves its own thread on, whether it gives up or goes on to unlink.
LEMMA SortControl ==
    ASSUME NEW s \in Session, Sort(s)
    PROVE  /\ pc[s] = "sort"
           /\ \E label \in {"unlink", "spawn", "finish"} :
                /\ pc' = [pc EXCEPT ![s] = label]
                /\ label = "spawn" => part[s] = 0
                /\ label = "finish" => part[s] # 0
           /\ UNCHANGED <<state, lock, locals, proc>>
  <1>1. pc[s] = "sort" /\ UNCHANGED <<state, lock, locals, proc>>
    BY DEF Sort
  <1>2. Goto(s, "unlink") \/ Pruned(s)
    BY DEF Sort
  <1>3. CASE Goto(s, "unlink")
    BY <1>1, <1>3 DEF Goto
  <1>4. CASE Pruned(s)
    BY <1>1, <1>4 DEF Goto, Pruned
  <1>5. QED
    BY <1>2, <1>3, <1>4

\* Every step keeps the part number and the program counter in agreement.
LEMMA NextPart ==
    ControlTypeOK /\ PartMatchesPc /\ ControlTypeOK' /\ [Next]_vars => PartMatchesPc'
  <1> SUFFICES ASSUME ControlTypeOK, PartMatchesPc, ControlTypeOK', [Next]_vars PROVE PartMatchesPc'
    OBVIOUS
  <1> USE SessionAssumption, BoundAssumption
          DEF ControlTypeOK, PCs, Goto, state, locals, scan, files, PartMatchesPc, Supervising
  <1>1. ASSUME NEW s \in Session, Begin(s) PROVE PartMatchesPc'
    BY <1>1 DEF Begin
  <1>2. ASSUME NEW s \in Session, Spawn(s) PROVE PartMatchesPc'
    BY <1>2 DEF Spawn
  <1>3. ASSUME NEW s \in Session, Refused(s) PROVE PartMatchesPc'
    BY <1>3 DEF Refused
  <1>4. ASSUME NEW s \in Session, Commit(s) PROVE PartMatchesPc'
    BY <1>4 DEF Commit
  <1>5. ASSUME NEW s \in Session, Glob(s) PROVE PartMatchesPc'
    BY <1>5 DEF Glob
  <1>6. ASSUME NEW s \in Session, Sort(s) PROVE PartMatchesPc'
    BY <1>6, SortControl
  <1>7. ASSUME NEW s \in Session, Unlink(s) PROVE PartMatchesPc'
    BY <1>7 DEF Unlink
  <1>8. ASSUME NEW s \in Session, PruneEnd(s) PROVE PartMatchesPc'
    BY <1>8 DEF PruneEnd, Pruned
  <1>9. ASSUME NEW s \in Session, Poll(s) PROVE PartMatchesPc'
    BY <1>9 DEF Poll, Abandon
  <1>10. ASSUME NEW s \in Session, ReapLocked(s) PROVE PartMatchesPc'
    BY <1>10 DEF ReapLocked
  <1>11. ASSUME NEW s \in Session, Reap(s) PROVE PartMatchesPc'
    BY <1>11 DEF Reap
  <1>12. ASSUME NEW s \in Session, Finish(s) PROVE PartMatchesPc'
    BY <1>12 DEF Finish
  <1>13. ASSUME NEW s \in Session, Respawn(s) PROVE PartMatchesPc'
    BY <1>13 DEF Respawn
  <1>14. ASSUME NEW s \in Session, Rotate(s) PROVE PartMatchesPc'
    BY <1>14 DEF Rotate, Abandon
  <1>15. ASSUME NEW s \in Session, Write(s) PROVE PartMatchesPc'
    BY <1>15 DEF Write
  <1>16. ASSUME NEW s \in Session, DeadlinePasses(s) PROVE PartMatchesPc'
    BY <1>16 DEF DeadlinePasses
  <1>17. ASSUME NEW p \in Process, Exit(p) \/ Crash(p) PROVE PartMatchesPc'
    BY <1>17 DEF Exit, Crash
  <1>18. CASE Stop
    BY <1>18 DEF Stop
  <1>19. ASSUME NEW name \in Listed, Delete(name) PROVE PartMatchesPc'
    BY <1>19 DEF Delete
  <1>20. CASE UNCHANGED vars
    BY <1>20 DEF vars
  <1>21. QED
    BY <1>1, <1>2, <1>3, <1>4, <1>5, <1>6, <1>7, <1>8, <1>9, <1>10, <1>11, <1>12, <1>13, <1>14, <1>15, <1>16, <1>17, <1>18, <1>19, <1>20 DEF Next, Thread

\* Every step keeps _lock with the thread that waits under it.
LEMMA NextLock ==
    ControlTypeOK /\ LockHolder /\ ControlTypeOK' /\ [Next]_vars => LockHolder'
  <1> SUFFICES ASSUME ControlTypeOK, LockHolder, ControlTypeOK', [Next]_vars PROVE LockHolder'
    OBVIOUS
  <1> USE SessionAssumption, BoundAssumption
          DEF ControlTypeOK, PCs, Goto, state, locals, scan, files, LockHolder, Current
  <1>1. ASSUME NEW s \in Session, Begin(s) PROVE LockHolder'
    BY <1>1 DEF Begin
  <1>2. ASSUME NEW s \in Session, Spawn(s) PROVE LockHolder'
    BY <1>2 DEF Spawn
  <1>3. ASSUME NEW s \in Session, Refused(s) PROVE LockHolder'
    BY <1>3 DEF Refused
  <1>4. ASSUME NEW s \in Session, Commit(s) PROVE LockHolder'
    BY <1>4 DEF Commit
  <1>5. ASSUME NEW s \in Session, Glob(s) PROVE LockHolder'
    BY <1>5 DEF Glob
  <1>6. ASSUME NEW s \in Session, Sort(s) PROVE LockHolder'
    BY <1>6, SortControl
  <1>7. ASSUME NEW s \in Session, Unlink(s) PROVE LockHolder'
    BY <1>7 DEF Unlink
  <1>8. ASSUME NEW s \in Session, PruneEnd(s) PROVE LockHolder'
    BY <1>8 DEF PruneEnd, Pruned
  <1>9. ASSUME NEW s \in Session, Poll(s) PROVE LockHolder'
    BY <1>9 DEF Poll, Abandon
  <1>10. ASSUME NEW s \in Session, ReapLocked(s) PROVE LockHolder'
    BY <1>10 DEF ReapLocked
  <1>11. ASSUME NEW s \in Session, Reap(s) PROVE LockHolder'
    BY <1>11 DEF Reap
  <1>12. ASSUME NEW s \in Session, Finish(s) PROVE LockHolder'
    BY <1>12 DEF Finish, ClearState
  <1>13. ASSUME NEW s \in Session, Respawn(s) PROVE LockHolder'
    BY <1>13 DEF Respawn
  <1>14. ASSUME NEW s \in Session, Rotate(s) PROVE LockHolder'
    BY <1>14 DEF Rotate, Abandon, ClearState
  <1>15. ASSUME NEW s \in Session, Write(s) PROVE LockHolder'
    BY <1>15 DEF Write
  <1>16. ASSUME NEW s \in Session, DeadlinePasses(s) PROVE LockHolder'
    BY <1>16 DEF DeadlinePasses
  <1>17. ASSUME NEW p \in Process, Exit(p) \/ Crash(p) PROVE LockHolder'
    BY <1>17 DEF Exit, Crash
  <1>18. CASE Stop
    BY <1>18 DEF Stop
  <1>19. ASSUME NEW name \in Listed, Delete(name) PROVE LockHolder'
    BY <1>19 DEF Delete
  <1>20. CASE UNCHANGED vars
    BY <1>20 DEF vars
  <1>21. QED
    BY <1>1, <1>2, <1>3, <1>4, <1>5, <1>6, <1>7, <1>8, <1>9, <1>10, <1>11, <1>12, <1>13, <1>14, <1>15, <1>16, <1>17, <1>18, <1>19, <1>20 DEF Next, Thread

\* `running` keeps its loop when the step keeps every current loop a loop.
LEMMA KeepsLoop ==
    ASSUME RunningHasLoop, UNCHANGED <<running, session_id, id>>,
           \A t \in Session : Looping(t) /\ Current(t) => Looping(t)'
    PROVE  RunningHasLoop'
  BY DEF RunningHasLoop, Current

\* No step leaves a tcpdump behind.
LEMMA NextOrphan ==
    ControlTypeOK /\ PartMatchesPc /\ NoOrphanTcpdump /\ ControlTypeOK' /\ [Next]_vars => NoOrphanTcpdump'
  <1> SUFFICES ASSUME ControlTypeOK, PartMatchesPc, NoOrphanTcpdump, ControlTypeOK', [Next]_vars PROVE NoOrphanTcpdump'
    OBVIOUS
  <1> USE SessionAssumption, BoundAssumption
          DEF ControlTypeOK, PCs, Goto, state, locals, scan, files, NoOrphanTcpdump, Supervising, Alive, Own, Process, Part
  <1>1. ASSUME NEW s \in Session, Begin(s) PROVE NoOrphanTcpdump'
    BY <1>1 DEF Begin, NewId, Terminate
  <1>2. ASSUME NEW s \in Session, Spawn(s) PROVE NoOrphanTcpdump'
    BY <1>2 DEF Spawn
  <1>3. ASSUME NEW s \in Session, Refused(s) PROVE NoOrphanTcpdump'
    BY <1>3 DEF Refused
  <1>4. ASSUME NEW s \in Session, Commit(s) PROVE NoOrphanTcpdump'
    BY <1>4 DEF Commit
  <1>5. ASSUME NEW s \in Session, Glob(s) PROVE NoOrphanTcpdump'
    BY <1>5 DEF Glob
  <1>6. ASSUME NEW s \in Session, Sort(s) PROVE NoOrphanTcpdump'
    BY <1>6, SortControl
  <1>7. ASSUME NEW s \in Session, Unlink(s) PROVE NoOrphanTcpdump'
    BY <1>7 DEF Unlink
  <1>8. ASSUME NEW s \in Session, PruneEnd(s) PROVE NoOrphanTcpdump'
    BY <1>8 DEF PruneEnd, Pruned
  <1>9. ASSUME NEW s \in Session, Poll(s) PROVE NoOrphanTcpdump'
    BY <1>9 DEF Poll, Abandon, Terminate
  <1>10. ASSUME NEW s \in Session, ReapLocked(s) PROVE NoOrphanTcpdump'
    BY <1>10 DEF ReapLocked
  <1>11. ASSUME NEW s \in Session, Reap(s) PROVE NoOrphanTcpdump'
    BY <1>11 DEF Reap
  <1>12. ASSUME NEW s \in Session, Finish(s) PROVE NoOrphanTcpdump'
    BY <1>12 DEF Finish
  <1>13. ASSUME NEW s \in Session, Respawn(s) PROVE NoOrphanTcpdump'
    BY <1>13 DEF Respawn
  <1>14. ASSUME NEW s \in Session, Rotate(s) PROVE NoOrphanTcpdump'
    <2>1. part[s] > 0 /\ Own(s) \in Process
      BY <1>14 DEF Rotate, PartMatchesPc
    <2>2. CASE Abandon(s)
      BY <1>14, <2>1, <2>2 DEF Rotate, Abandon, Terminate
    <2>3. CASE UNCHANGED proc /\ Goto(s, "done") /\ proc[Own(s)] = "none"
      BY <1>14, <2>1, <2>3 DEF Rotate
    <2>4. CASE UNCHANGED proc /\ Goto(s, "poll")
      BY <1>14, <2>1, <2>4 DEF Rotate
    <2>5. QED
      BY <1>14, <2>2, <2>3, <2>4 DEF Rotate
  <1>15. ASSUME NEW s \in Session, Write(s) PROVE NoOrphanTcpdump'
    BY <1>15 DEF Write
  <1>16. ASSUME NEW s \in Session, DeadlinePasses(s) PROVE NoOrphanTcpdump'
    BY <1>16 DEF DeadlinePasses
  <1>17. ASSUME NEW p \in Process, Exit(p) \/ Crash(p) PROVE NoOrphanTcpdump'
    BY <1>17 DEF Exit, Crash
  <1>18. CASE Stop
    BY <1>18 DEF Stop, Terminate
  <1>19. ASSUME NEW name \in Listed, Delete(name) PROVE NoOrphanTcpdump'
    BY <1>19 DEF Delete
  <1>20. CASE UNCHANGED vars
    BY <1>20 DEF vars
  <1>21. QED
    BY <1>1, <1>2, <1>3, <1>4, <1>5, <1>6, <1>7, <1>8, <1>9, <1>10, <1>11, <1>12, <1>13, <1>14, <1>15, <1>16, <1>17, <1>18, <1>19, <1>20 DEF Next, Thread

\* No step leaves `running` set without a loop that answers for it.
LEMMA NextRunning ==
    ControlTypeOK /\ PartMatchesPc /\ LockHolder /\ RunningHasLoop /\ ControlTypeOK' /\ [Next]_vars => RunningHasLoop'
  <1> SUFFICES ASSUME ControlTypeOK, PartMatchesPc, LockHolder, RunningHasLoop, ControlTypeOK', [Next]_vars PROVE RunningHasLoop'
    OBVIOUS
  <1> USE SessionAssumption, BoundAssumption
          DEF ControlTypeOK, PCs, Goto, state, locals, scan, files, RunningHasLoop, Looping, Current, Pruning, PartMatchesPc, LockHolder, Supervising
  <1>1. ASSUME NEW s \in Session, Begin(s) PROVE RunningHasLoop'
    BY <1>1 DEF Begin
  <1>2. ASSUME NEW s \in Session, Spawn(s) PROVE RunningHasLoop'
    BY <1>2 DEF Spawn
  <1>3. ASSUME NEW s \in Session, Refused(s) PROVE RunningHasLoop'
    BY <1>3 DEF Refused
  <1>4. ASSUME NEW s \in Session, Commit(s) PROVE RunningHasLoop'
    BY <1>4 DEF Commit
  <1>5. ASSUME NEW s \in Session, Glob(s) PROVE RunningHasLoop'
    BY <1>5 DEF Glob
  <1>6. ASSUME NEW s \in Session, Sort(s) PROVE RunningHasLoop'
    <2>1. \A t \in Session : Looping(t) /\ Current(t) => Looping(t)'
      BY <1>6, SortControl
    <2>2. QED
      BY <1>6, <2>1, SortControl, KeepsLoop
  <1>7. ASSUME NEW s \in Session, Unlink(s) PROVE RunningHasLoop'
    BY <1>7 DEF Unlink
  <1>8. ASSUME NEW s \in Session, PruneEnd(s) PROVE RunningHasLoop'
    BY <1>8 DEF PruneEnd, Pruned
  <1>9. ASSUME NEW s \in Session, Poll(s) PROVE RunningHasLoop'
    <2>1. \A t \in Session : Looping(t) /\ Current(t) => Looping(t)'
      BY <1>9 DEF Poll, Abandon
    <2>2. QED
      BY <1>9, <2>1, KeepsLoop DEF Poll, Abandon
  <1>10. ASSUME NEW s \in Session, ReapLocked(s) PROVE RunningHasLoop'
    BY <1>10 DEF ReapLocked
  <1>11. ASSUME NEW s \in Session, Reap(s) PROVE RunningHasLoop'
    BY <1>11 DEF Reap
  <1>12. ASSUME NEW s \in Session, Finish(s) PROVE RunningHasLoop'
    <2>1. CASE running' = FALSE
      BY <2>1
    <2>2. CASE UNCHANGED <<running, session_id>> /\ running
      <3>1. \A t \in Session : Looping(t) /\ Current(t) => Looping(t)'
        BY <1>12, <2>2 DEF Finish, ClearState
      <3>2. QED
        BY <1>12, <2>2, <3>1, KeepsLoop DEF Finish, ClearState
    <2>3. QED
      BY <1>12, <2>1, <2>2 DEF Finish, ClearState
  <1>13. ASSUME NEW s \in Session, Respawn(s) PROVE RunningHasLoop'
    BY <1>13 DEF Respawn
  <1>14. ASSUME NEW s \in Session, Rotate(s) PROVE RunningHasLoop'
    <2>1. CASE running' = FALSE
      BY <2>1
    <2>2. CASE UNCHANGED <<running, session_id>> /\ running
      <3>1. \A t \in Session : Looping(t) /\ Current(t) => Looping(t)'
        BY <1>14, <2>2 DEF Rotate, Abandon, ClearState
      <3>2. QED
        BY <1>14, <2>2, <3>1, KeepsLoop DEF Rotate, ClearState
    <2>3. QED
      BY <1>14, <2>1, <2>2 DEF Rotate, Abandon, ClearState
  <1>15. ASSUME NEW s \in Session, Write(s) PROVE RunningHasLoop'
    BY <1>15 DEF Write
  <1>16. ASSUME NEW s \in Session, DeadlinePasses(s) PROVE RunningHasLoop'
    BY <1>16 DEF DeadlinePasses
  <1>17. ASSUME NEW p \in Process, Exit(p) \/ Crash(p) PROVE RunningHasLoop'
    BY <1>17 DEF Exit, Crash
  <1>18. CASE Stop
    BY <1>18 DEF Stop
  <1>19. ASSUME NEW name \in Listed, Delete(name) PROVE RunningHasLoop'
    BY <1>19 DEF Delete
  <1>20. CASE UNCHANGED vars
    BY <1>20 DEF vars
  <1>21. QED
    BY <1>1, <1>2, <1>3, <1>4, <1>5, <1>6, <1>7, <1>8, <1>9, <1>10, <1>11, <1>12, <1>13, <1>14, <1>15, <1>16, <1>17, <1>18, <1>19, <1>20 DEF Next, Thread

-----------------------------------------------------------------------------
\* Every step of a request, a loop, a tcpdump or the clock keeps IInv.
LEMMA NextIInv == IInv /\ [Next]_vars => IInv'
  BY NextType, NextPart, NextLock, NextOrphan, NextRunning DEF IInv

\* The inductive invariant holds in every state the capture service reaches.
LEMMA Inductive == Spec => []IInv
  BY InitIInv, NextIInv, PTL DEF Spec

\* The control variables of the capture service keep their types.
THEOREM ControlTypes == Spec => []ControlTypeOK
  <1>1. IInv => ControlTypeOK
    BY DEF IInv
  <1>2. QED
    BY Inductive, <1>1, PTL

\* No tcpdump is ever left running without a thread that will look at it again,
\* however many start() calls, rotations, stops and failures interleave.
THEOREM TcpdumpSupervised == Spec => []NoOrphanTcpdump
  <1>1. IInv => NoOrphanTcpdump
    BY DEF IInv
  <1>2. QED
    BY Inductive, <1>1, PTL

\* While status() says "running", some session loop holds the stored session id
\* and will clear the flag or be superseded; this needs no assumption on how
\* start() calls overlap.
THEOREM RunningAnswered == Spec => []RunningHasLoop
  <1>1. IInv => RunningHasLoop
    BY DEF IInv
  <1>2. QED
    BY Inductive, <1>1, PTL

-----------------------------------------------------------------------------
(* start() calls that do not overlap: one client, one request at a time. *)

\* The new id of the start() in progress is fresh, and no two loops share one.
FreshIds ==
    /\ \A s, t \in Session : Starting(s) /\ Starting(t) => s = t
    /\ \A s \in Session : Starting(s) => id[s] = session_id + 1
    /\ \A s \in Session : Looping(s) => id[s] <= session_id
    /\ \A s, t \in Session : Looping(s) /\ Looping(t) /\ id[s] = id[t] => s = t

SerialInv == FreshIds /\ NoHiddenCapture

\* A step that starts no session, launches no loop and leaves _state and the
\* ids alone keeps SerialInv.
LEMMA KeepsSerial ==
    ASSUME SerialInv, UNCHANGED <<state, id>>,
           \A t \in Session : /\ Starting(t)' => Starting(t)
                              /\ Looping(t)' => Looping(t)
    PROVE  SerialInv'
  BY DEF SerialInv, FreshIds, NoHiddenCapture, Current, state

\* A step outside start()'s and the loop's blocks under _lock changes no id and
\* starts nothing.
LEMMA QuietSteps ==
    ASSUME ControlTypeOK, PartMatchesPc, NEW s \in Session,
           \/ Spawn(s) \/ Refused(s) \/ Glob(s) \/ Sort(s) \/ Unlink(s) \/ PruneEnd(s)
           \/ Poll(s) \/ ReapLocked(s) \/ Reap(s)
           \/ Respawn(s) \/ Write(s) \/ DeadlinePasses(s)
    PROVE  /\ UNCHANGED <<state, id>>
           /\ \A t \in Session : /\ Starting(t)' => Starting(t)
                                 /\ Looping(t)' => Looping(t)
  <1> USE DEF ControlTypeOK, PCs, Goto, state, locals, scan, files, Starting, Looping,
              Pruning, PartMatchesPc, Supervising
  <1>1. CASE Spawn(s)
    BY <1>1, BoundAssumption DEF Spawn
  <1>2. CASE Refused(s)
    BY <1>2, BoundAssumption DEF Refused
  <1>3. CASE Glob(s)
    BY <1>3, BoundAssumption DEF Glob
  <1>4. CASE Sort(s)
    BY <1>4, SortControl
  <1>5. CASE Unlink(s)
    BY <1>5, BoundAssumption DEF Unlink
  <1>6. CASE PruneEnd(s)
    BY <1>6, BoundAssumption DEF PruneEnd, Pruned
  <1>7. CASE Poll(s)
    BY <1>7, BoundAssumption DEF Poll, Abandon
  <1>8. CASE ReapLocked(s)
    BY <1>8, BoundAssumption DEF ReapLocked
  <1>9. CASE Reap(s)
    BY <1>9, BoundAssumption DEF Reap
  <1>10. CASE Respawn(s)
    BY <1>10, BoundAssumption DEF Respawn
  <1>11. CASE Write(s)
    BY <1>11, BoundAssumption DEF Write
  <1>12. CASE DeadlinePasses(s)
    BY <1>12, BoundAssumption DEF DeadlinePasses
  <1>13. QED
    BY <1>1, <1>2, <1>3, <1>4, <1>5, <1>6, <1>7, <1>8, <1>9, <1>10, <1>11, <1>12

\* With one start() in progress at a time, every step keeps SerialInv: Begin
\* hands out an id above all others and Commit is the only step that stores one.
LEMMA NextSerial ==
    ASSUME MaxStarts = 1, IsFiniteSet(Session)
    PROVE  IInv /\ SerialInv /\ [Next]_vars => SerialInv'
  <1> SUFFICES ASSUME IInv, SerialInv, [Next]_vars PROVE SerialInv'
    OBVIOUS
  <1> USE BoundAssumption
  <1>t. ControlTypeOK /\ PartMatchesPc /\ ControlTypeOK'
    BY NextType DEF IInv
  <1>1. ASSUME NEW s \in Session, Begin(s) PROVE SerialInv'
    <2>1. \A t \in Session : ~Starting(t)
      <3> DEFINE Busy == {t \in Session : Starting(t)}
      <3>1. IsFiniteSet(Busy) /\ Cardinality(Busy) < 1
        BY <1>1, FS_Subset DEF Begin
      <3>2. Cardinality(Busy) = 0
        BY <3>1, FS_CardinalityType
      <3>3. QED
        BY <3>1, <3>2, FS_EmptySet
    <2>2. /\ ~Looping(s)
          /\ \A t \in Session \ {s} : /\ Starting(t)' <=> Starting(t)
                                      /\ Looping(t)' <=> Looping(t)
                                      /\ id'[t] = id[t]
          /\ ~Looping(s)'
          /\ id'[s] = session_id + 1
      BY <1>1, <1>t DEF Begin, NewId, Goto, ControlTypeOK, PartMatchesPc, Starting, Looping, Pruning
    <2>3. UNCHANGED state
      BY <1>1 DEF Begin
    <2>4. FreshIds'
      BY <2>1, <2>2, <2>3 DEF SerialInv, FreshIds, state
    <2>5. NoHiddenCapture'
      BY <2>2, <2>3 DEF SerialInv, NoHiddenCapture, Current, state
    <2>6. QED
      BY <2>4, <2>5 DEF SerialInv
  <1>2. ASSUME NEW s \in Session, Commit(s) PROVE SerialInv'
    <2>1. /\ Starting(s) /\ ~Starting(s)' /\ Looping(s)'
          /\ \A t \in Session \ {s} : /\ Starting(t)' <=> Starting(t)
                                      /\ Looping(t)' <=> Looping(t)
          /\ UNCHANGED id
          /\ session_id' = id[s] /\ running' /\ process' = <<s, part[s]>>
          /\ part[s] \in Part
      BY <1>2, <1>t DEF Commit, Own, Goto, ControlTypeOK, PartMatchesPc, Supervising,
                        Starting, Looping, Pruning, locals, Part
    <2>2. \A t \in Session : Looping(t) => id[t] < id[s]
      BY <2>1, <1>t DEF SerialInv, FreshIds, ControlTypeOK
    <2>3. FreshIds'
      BY <2>1, <2>2, <1>t DEF SerialInv, FreshIds, ControlTypeOK
    <2>4. NoHiddenCapture'
      BY <2>1, <2>2, <1>t DEF NoHiddenCapture, Current, ControlTypeOK
    <2>5. QED
      BY <2>3, <2>4 DEF SerialInv
  <1>3. ASSUME NEW s \in Session, Finish(s) \/ Rotate(s) PROVE SerialInv'
    <2>1. /\ Looping(s)
          /\ \A t \in Session : /\ Starting(t)' => Starting(t)
                                /\ Looping(t)' => Looping(t)
          /\ UNCHANGED <<id, session_id>>
      BY <1>3, <1>t DEF Finish, Rotate, Abandon, ClearState, Goto, ControlTypeOK,
                        PartMatchesPc, Supervising, Starting, Looping, Pruning, state
    <2>2. FreshIds'
      BY <2>1 DEF SerialInv, FreshIds
    <2>3. CASE UNCHANGED state
      BY <2>1, <2>3, KeepsSerial
    <2>4. CASE ClearState /\ Current(s) /\ Goto(s, "done")
      <3>1. \A t \in Session : Looping(t)' => t # s /\ ~Current(t)
        BY <2>1, <2>4, <1>t DEF SerialInv, FreshIds, Current, Goto, Looping, Pruning, ControlTypeOK
      <3>2. NoHiddenCapture'
        BY <2>1, <3>1 DEF NoHiddenCapture, Current
      <3>3. QED
        BY <2>2, <3>2 DEF SerialInv
    <2>5. CASE /\ process' = Own(s) /\ Current(s) /\ part[s] \in Part
               /\ UNCHANGED <<running, session_id>>
      <3>1. running /\ \A t \in Session : Looping(t)' /\ Current(t)' => t = s
        BY <2>1, <2>5 DEF SerialInv, FreshIds, NoHiddenCapture, Current
      <3>2. NoHiddenCapture'
        BY <2>1, <2>5, <3>1 DEF NoHiddenCapture, Own
      <3>3. QED
        BY <2>2, <3>2 DEF SerialInv
    <2>6. CASE Finish(s)
      BY <2>6, <2>3, <2>4 DEF Finish
    <2>7. CASE Rotate(s)
      <3>1. part[s] \in Part
        BY <2>7, <1>t DEF Rotate, PartMatchesPc, Supervising, ControlTypeOK, Part
      <3>2. QED
        BY <2>7, <3>1, <2>3, <2>4, <2>5 DEF Rotate, Abandon
    <2>8. QED
      BY <1>3, <2>6, <2>7
  <1>4. ASSUME NEW s \in Session, Thread(s) \/ Write(s) \/ DeadlinePasses(s) PROVE SerialInv'
    BY <1>2, <1>3, <1>4, <1>t, QuietSteps, KeepsSerial DEF Thread
  <1>5. ASSUME NEW p \in Process, Exit(p) \/ Crash(p) PROVE SerialInv'
    BY <1>5, KeepsSerial DEF Exit, Crash, Starting, Looping, locals
  <1>6. CASE Stop
    <2>1. /\ UNCHANGED <<id, running, process, session_id>>
          /\ \A t \in Session : (Starting(t)' <=> Starting(t)) /\ (Looping(t)' <=> Looping(t))
      BY <1>6 DEF Stop, Starting, Looping, locals
    <2>2. QED
      BY <2>1 DEF SerialInv, FreshIds, NoHiddenCapture, Current
  <1>7. ASSUME NEW name \in Listed, Delete(name) PROVE SerialInv'
    BY <1>7, KeepsSerial DEF Delete, Starting, Looping, locals
  <1>8. CASE UNCHANGED vars
    BY <1>8, KeepsSerial DEF vars, Starting, Looping, locals
  <1>9. QED
    BY <1>1, <1>4, <1>5, <1>6, <1>7, <1>8 DEF Next

\* When start() calls do not overlap, a loop that goes on capturing is always
\* the one status() shows and stop() reaches.
THEOREM SerialCaptureVisible ==
    ASSUME MaxStarts = 1, IsFiniteSet(Session)
    PROVE  Spec => []NoHiddenCapture
  <1>1. Init => SerialInv
    BY DEF Init, SerialInv, FreshIds, NoHiddenCapture, Starting, Looping, Pruning
  <1>2. SerialInv => NoHiddenCapture
    BY DEF SerialInv
  <1>3. IInv /\ SerialInv /\ [Next]_vars => SerialInv'
    BY NextSerial
  <1>4. QED
    BY Inductive, <1>1, <1>2, <1>3, PTL DEF Spec

=============================================================================
