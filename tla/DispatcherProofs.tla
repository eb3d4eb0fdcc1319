-------------------------- MODULE DispatcherProofs --------------------------
(***************************************************************************)
(* Proofs about Dispatcher.tla, for any number of consumers, of threads    *)
(* that start them at once and of packets: there is one tcpdump, and every *)
(* consumer gets every packet from its first one on, once and in order.    *)
(***************************************************************************)
EXTENDS Dispatcher, FiniteSetTheorems, TLAPS

\* There is one capture loop, and a tcpdump only while that loop looks after it.
OneLoop ==
    /\ \A t, u \in Caller : loop[t] # "none" /\ loop[u] # "none" => t = u
    /\ ~started => \A t \in Caller : loop[t] = "none"
TcpdumpInLoop ==
    \A t \in Caller : tcpdump[t] # "none" =>
        loop[t] \in {"header", "stream", "dispatch", "cleanup", "wait"}

Distinct(s) == \A i, j \in DOMAIN s : s[i] = s[j] => i = j

\* A consumer is started by one caller at a time, which has not registered it yet.
Starting(t) == pc[t] \in {"start", "register"}
StartedOnce ==
    /\ \A t \in Caller : Starting(t) =>
          /\ target[t] \in listening
          /\ target[t] \notin ToSet(handlers)
    /\ \A t, u \in Caller : Starting(t) /\ Starting(u) /\ target[t] = target[u] => t = u
RegisteredOnce == Distinct(handlers) /\ ToSet(handlers) \subseteq listening

\* The copy of the handlers that a packet is handed to.
PendingCopy ==
    \A t \in Caller :
        /\ pending[t] # <<>> => loop[t] = "dispatch"
        /\ loop[t] = "dispatch" => read >= 1
        /\ Distinct(pending[t])
        /\ ToSet(pending[t]) \subseteq ToSet(handlers)

\* The packets s[1], s[1] + 1, ..., n.
Contiguous(s, n) ==
    /\ Len(s) = n - s[1] + 1
    /\ \A i \in 1..Len(s) : s[i] = s[1] + i - 1

Awaited(c) == \E t \in Caller : c \in ToSet(pending[t])
Delivered ==
    \A c \in Consumer : got[c] # <<>> =>
        /\ c \in ToSet(handlers)
        /\ Awaited(c) => Contiguous(got[c], read - 1)
        /\ ~Awaited(c) => Contiguous(got[c], read)

DispatcherInv ==
    /\ TypeOK /\ OneLoop /\ TcpdumpInLoop
    /\ StartedOnce /\ RegisteredOnce /\ PendingCopy /\ Delivered

-----------------------------------------------------------------------------
\* Nothing has been started.
LEMMA InitDispatcherInv == Init => DispatcherInv
  <1> SUFFICES ASSUME Init PROVE DispatcherInv
    OBVIOUS
  <1> USE DispatcherAssumption DEF Init
  <1>1. TypeOK
    <2>1. <<>> \in Seq(Consumer) /\ <<>> \in Seq(1..MaxPackets)
      OBVIOUS
    <2>2. got \in [Consumer -> Seq(1..MaxPackets)] /\ pending \in [Caller -> Seq(Consumer)]
      BY <2>1
    <2>3. hurry \in [Caller -> BOOLEAN] /\ started \in BOOLEAN /\ capture_running \in BOOLEAN
      OBVIOUS
    <2>4. handlers \in Seq(Consumer) /\ read \in 0..MaxPackets
      OBVIOUS
    <2>5. QED
      BY <2>2, <2>3, <2>4 DEF TypeOK
  <1>2. OneLoop /\ TcpdumpInLoop
    BY DEF OneLoop, TcpdumpInLoop
  <1>3. StartedOnce /\ RegisteredOnce
    BY DEF StartedOnce, RegisteredOnce, Starting, Distinct, ToSet
  <1>4. PendingCopy
    BY DEF PendingCopy, Distinct, ToSet
  <1>5. Delivered
    BY DEF Delivered
  <1>6. QED
    BY <1>1, <1>2, <1>3, <1>4, <1>5 DEF DispatcherInv

\* Every step keeps the types.
LEMMA NextTypeOK == ASSUME DispatcherInv, Next PROVE TypeOK'
  <1> USE DispatcherAssumption
      DEF DispatcherInv, TypeOK, Goto, callers, loops, health, packets
  <1>1. ASSUME NEW t \in Caller, NEW c \in Consumer, Listen(t, c) PROVE TypeOK'
    BY <1>1 DEF Listen, CheckAndSet
  <1>2. ASSUME NEW t \in Caller, StartListener(t) PROVE TypeOK'
    BY <1>2 DEF StartListener, Launch
  <1>3. ASSUME NEW t \in Caller, RegisterHandler(t) PROVE TypeOK'
    BY <1>3 DEF RegisterHandler, Register, StartedOnce, Starting
  <1>4. ASSUME NEW t \in Caller, Find(t) PROVE TypeOK'
    BY <1>4 DEF Find
  <1>5. ASSUME NEW t \in Caller, Spawn(t) PROVE TypeOK'
    BY <1>5 DEF Spawn
  <1>6. ASSUME NEW t \in Caller, Header(t) PROVE TypeOK'
    BY <1>6 DEF Header
  <1>7. ASSUME NEW t \in Caller, HeaderEof(t) PROVE TypeOK'
    BY <1>7 DEF HeaderEof, AfterHeaderEof
  <1>8. ASSUME NEW t \in Caller, Record(t) PROVE TypeOK'
    BY <1>8 DEF Record
  <1>9. ASSUME NEW t \in Caller, Eof(t) PROVE TypeOK'
    BY <1>9 DEF Eof
  <1>10. ASSUME NEW t \in Caller, Handle(t) PROVE TypeOK'
    <2>1. CASE pending[t] = <<>>
      BY <1>10, <2>1 DEF Handle
    <2>2. CASE pending[t] # <<>>
      <3>1. /\ got' = [got EXCEPT ![Head(pending[t])] = Append(@, read)]
            /\ pending' = [pending EXCEPT ![t] = Tail(@)]
            /\ UNCHANGED <<listening, started, handlers, health, callers, loop, tcpdump, hurry, read>>
        BY <1>10, <2>2 DEF Handle, AfterHandler
      <3>2. Head(pending[t]) \in Consumer /\ Tail(pending[t]) \in Seq(Consumer)
        BY <2>2
      <3>3. read \in 1..MaxPackets
        BY <1>10 DEF Handle, PendingCopy
      <3>4. got' \in [Consumer -> Seq(1..MaxPackets)]
        BY <3>1, <3>2, <3>3
      <3>5. QED
        BY <3>1, <3>2, <3>4
    <2>3. QED
      BY <2>1, <2>2
  <1>11. ASSUME NEW t \in Caller, Cleanup(t) PROVE TypeOK'
    BY <1>11 DEF Cleanup
  <1>12. ASSUME NEW t \in Caller, Wait(t) PROVE TypeOK'
    BY <1>12 DEF Wait
  <1>13. ASSUME NEW t \in Caller, Sleep(t) PROVE TypeOK'
    BY <1>13 DEF Sleep
  <1>14. ASSUME NEW t \in Caller, Exit(t) PROVE TypeOK'
    BY <1>14 DEF Exit
  <1> HIDE DEF DispatcherInv, TypeOK, Goto
  <1>15. QED
    BY <1>1, <1>2, <1>3, <1>4, <1>5, <1>6, <1>7, <1>8, <1>9, <1>10, <1>11, <1>12, <1>13, <1>14
       DEF Next, Call, CaptureLoop

\* The first caller launches the one loop; a restarted loop has let its tcpdump go.
LEMMA NextLoops == ASSUME DispatcherInv, Next PROVE OneLoop' /\ TcpdumpInLoop'
  <1> USE DispatcherAssumption
      DEF DispatcherInv, TypeOK, Goto, callers, loops, health, packets, OneLoop, TcpdumpInLoop
  <1>1. ASSUME NEW t \in Caller, NEW c \in Consumer, Listen(t, c) PROVE OneLoop' /\ TcpdumpInLoop'
    BY <1>1 DEF Listen, CheckAndSet
  <1>2. ASSUME NEW t \in Caller, StartListener(t) PROVE OneLoop' /\ TcpdumpInLoop'
    <2>1. UNCHANGED tcpdump
      BY <1>2 DEF StartListener
    <2>2. CASE UNCHANGED <<started, loop>>
      BY <2>1, <2>2
    <2>3. CASE ~started /\ started' = TRUE /\ Goto(t, "find")
      <3>1. \A u \in Caller : loop[u] = "none" /\ tcpdump[u] = "none"
        BY <2>3
      <3>2. \A u \in Caller : u # t => loop'[u] = "none"
        BY <2>3, <3>1
      <3>3. QED
        BY <2>1, <2>3, <3>1, <3>2
    <2>4. QED
      BY <1>2, <2>2, <2>3 DEF StartListener, Launch
  <1>3. ASSUME NEW t \in Caller, RegisterHandler(t) PROVE OneLoop' /\ TcpdumpInLoop'
    BY <1>3 DEF RegisterHandler, Register
  <1>4. ASSUME NEW t \in Caller, Find(t) PROVE OneLoop' /\ TcpdumpInLoop'
    BY <1>4 DEF Find
  <1>5. ASSUME NEW t \in Caller, Spawn(t) PROVE OneLoop' /\ TcpdumpInLoop'
    BY <1>5 DEF Spawn
  <1>6. ASSUME NEW t \in Caller, Header(t) PROVE OneLoop' /\ TcpdumpInLoop'
    BY <1>6 DEF Header
  <1>7. ASSUME NEW t \in Caller, HeaderEof(t) PROVE OneLoop' /\ TcpdumpInLoop'
    BY <1>7 DEF HeaderEof, AfterHeaderEof
  <1>8. ASSUME NEW t \in Caller, Record(t) PROVE OneLoop' /\ TcpdumpInLoop'
    BY <1>8 DEF Record
  <1>9. ASSUME NEW t \in Caller, Eof(t) PROVE OneLoop' /\ TcpdumpInLoop'
    BY <1>9 DEF Eof
  <1>10. ASSUME NEW t \in Caller, Handle(t) PROVE OneLoop' /\ TcpdumpInLoop'
    BY <1>10 DEF Handle, AfterHandler
  <1>11. ASSUME NEW t \in Caller, Cleanup(t) PROVE OneLoop' /\ TcpdumpInLoop'
    BY <1>11 DEF Cleanup
  <1>12. ASSUME NEW t \in Caller, Wait(t) PROVE OneLoop' /\ TcpdumpInLoop'
    BY <1>12 DEF Wait
  <1>13. ASSUME NEW t \in Caller, Sleep(t) PROVE OneLoop' /\ TcpdumpInLoop'
    BY <1>13 DEF Sleep
  <1>14. ASSUME NEW t \in Caller, Exit(t) PROVE OneLoop' /\ TcpdumpInLoop'
    BY <1>14 DEF Exit
  <1> HIDE DEF DispatcherInv, TypeOK, Goto, OneLoop, TcpdumpInLoop
  <1>15. QED
    BY <1>1, <1>2, <1>3, <1>4, <1>5, <1>6, <1>7, <1>8, <1>9, <1>10, <1>11, <1>12, <1>13, <1>14
       DEF Next, Call, CaptureLoop

\* The check and set of _started keeps a consumer from being registered twice.
LEMMA NextRegistered == ASSUME DispatcherInv, Next PROVE StartedOnce' /\ RegisteredOnce'
  <1> USE DispatcherAssumption
      DEF DispatcherInv, TypeOK, Goto, callers, loops, health, packets, StartedOnce, RegisteredOnce, Starting, Distinct, ToSet
  <1>1. ASSUME NEW t \in Caller, NEW c \in Consumer, Listen(t, c) PROVE StartedOnce' /\ RegisteredOnce'
    BY <1>1 DEF Listen, CheckAndSet
  <1>2. ASSUME NEW t \in Caller, StartListener(t) PROVE StartedOnce' /\ RegisteredOnce'
    BY <1>2 DEF StartListener, Launch
  <1>3. ASSUME NEW t \in Caller, RegisterHandler(t) PROVE StartedOnce' /\ RegisteredOnce'
    BY <1>3 DEF RegisterHandler, Register
  <1>4. ASSUME NEW t \in Caller, Find(t) PROVE StartedOnce' /\ RegisteredOnce'
    BY <1>4 DEF Find
  <1>5. ASSUME NEW t \in Caller, Spawn(t) PROVE StartedOnce' /\ RegisteredOnce'
    BY <1>5 DEF Spawn
  <1>6. ASSUME NEW t \in Caller, Header(t) PROVE StartedOnce' /\ RegisteredOnce'
    BY <1>6 DEF Header
  <1>7. ASSUME NEW t \in Caller, HeaderEof(t) PROVE StartedOnce' /\ RegisteredOnce'
    BY <1>7 DEF HeaderEof, AfterHeaderEof
  <1>8. ASSUME NEW t \in Caller, Record(t) PROVE StartedOnce' /\ RegisteredOnce'
    BY <1>8 DEF Record
  <1>9. ASSUME NEW t \in Caller, Eof(t) PROVE StartedOnce' /\ RegisteredOnce'
    BY <1>9 DEF Eof
  <1>10. ASSUME NEW t \in Caller, Handle(t) PROVE StartedOnce' /\ RegisteredOnce'
    BY <1>10 DEF Handle, AfterHandler
  <1>11. ASSUME NEW t \in Caller, Cleanup(t) PROVE StartedOnce' /\ RegisteredOnce'
    BY <1>11 DEF Cleanup
  <1>12. ASSUME NEW t \in Caller, Wait(t) PROVE StartedOnce' /\ RegisteredOnce'
    BY <1>12 DEF Wait
  <1>13. ASSUME NEW t \in Caller, Sleep(t) PROVE StartedOnce' /\ RegisteredOnce'
    BY <1>13 DEF Sleep
  <1>14. ASSUME NEW t \in Caller, Exit(t) PROVE StartedOnce' /\ RegisteredOnce'
    BY <1>14 DEF Exit
  <1> HIDE DEF DispatcherInv, TypeOK, Goto, StartedOnce, RegisteredOnce, Starting, Distinct, ToSet
  <1>15. QED
    BY <1>1, <1>2, <1>3, <1>4, <1>5, <1>6, <1>7, <1>8, <1>9, <1>10, <1>11, <1>12, <1>13, <1>14
       DEF Next, Call, CaptureLoop

\* A sequence without repetitions, and its tail.
LEMMA DistinctTail ==
  ASSUME NEW S, NEW s \in Seq(S), s # <<>>, Distinct(s)
  PROVE  /\ Distinct(Tail(s))
         /\ Head(s) \in ToSet(s)
         /\ ToSet(Tail(s)) = ToSet(s) \ {Head(s)}
  <1>1. /\ Len(s) \in Nat /\ Len(s) > 0 /\ DOMAIN s = 1..Len(s)
        /\ DOMAIN Tail(s) = 1..(Len(s) - 1)
        /\ \A i \in 1..(Len(s) - 1) : Tail(s)[i] = s[i + 1]
        /\ Head(s) = s[1]
    OBVIOUS
  <1>2. Distinct(Tail(s))
    BY <1>1 DEF Distinct
  <1>3. Head(s) \in ToSet(s)
    BY <1>1 DEF ToSet
  <1>4. ASSUME NEW x \in ToSet(Tail(s)) PROVE x \in ToSet(s) /\ x # Head(s)
    <2>1. PICK i \in 1..(Len(s) - 1) : x = s[i + 1]
      BY <1>1, <1>4 DEF ToSet
    <2>2. i + 1 \in DOMAIN s /\ 1 \in DOMAIN s /\ i + 1 # 1
      BY <1>1
    <2>3. QED
      BY <1>1, <2>1, <2>2 DEF ToSet, Distinct
  <1>5. ASSUME NEW x \in ToSet(s), x # Head(s) PROVE x \in ToSet(Tail(s))
    <2>1. PICK i \in 1..Len(s) : x = s[i]
      BY <1>1, <1>5 DEF ToSet
    <2>2. i # 1 /\ i - 1 \in 1..(Len(s) - 1) /\ (i - 1) + 1 = i
      BY <1>1, <1>5, <2>1
    <2>3. QED
      BY <1>1, <2>1, <2>2 DEF ToSet
  <1>6. QED
    BY <1>2, <1>3, <1>4, <1>5

\* A registration keeps the handlers that are there.
LEMMA AppendKeeps ==
  ASSUME NEW S, NEW s \in Seq(S), NEW x \in S
  PROVE  ToSet(Append(s, x)) = ToSet(s) \cup {x}
  <1>1. /\ DOMAIN s = 1..Len(s) /\ Len(s) \in Nat
        /\ DOMAIN Append(s, x) = 1..(Len(s) + 1)
        /\ \A i \in 1..Len(s) : Append(s, x)[i] = s[i]
        /\ Append(s, x)[Len(s) + 1] = x
    OBVIOUS
  <1>2. \A i \in 1..(Len(s) + 1) : i \in 1..Len(s) \/ i = Len(s) + 1
    BY <1>1
  <1>3. 1..Len(s) \subseteq 1..(Len(s) + 1) /\ Len(s) + 1 \in 1..(Len(s) + 1)
    BY <1>1
  <1>4. QED
    BY <1>1, <1>2, <1>3 DEF ToSet

\* Only the loop that dispatches has a copy, and takes its consumers one by one.
LEMMA NextPending == ASSUME DispatcherInv, Next PROVE PendingCopy'
  <1> USE DispatcherAssumption
      DEF DispatcherInv, TypeOK, Goto, callers, loops, health, packets, PendingCopy
  <1>1. ASSUME NEW t \in Caller, NEW c \in Consumer, Listen(t, c) PROVE PendingCopy'
    BY <1>1 DEF Listen, CheckAndSet
  <1>2. ASSUME NEW t \in Caller, StartListener(t) PROVE PendingCopy'
    <2>1. UNCHANGED <<pending, handlers, read>>
      BY <1>2 DEF StartListener
    <2>2. \A u \in Caller : loop'[u] # loop[u] => pending[u] = <<>> /\ loop'[u] = "find"
      BY <1>2 DEF StartListener, Launch, OneLoop
    <2>3. \A u \in Caller : loop'[u] = "dispatch" => loop[u] = "dispatch"
      BY <2>2
    <2>4. QED
      BY <2>1, <2>2, <2>3
  <1>3. ASSUME NEW t \in Caller, RegisterHandler(t) PROVE PendingCopy'
    <2>1. target[t] \in Consumer
      BY <1>3 DEF RegisterHandler, StartedOnce, Starting
    <2>2. handlers' = Append(handlers, target[t]) /\ UNCHANGED <<loop, pending, read>>
      BY <1>3 DEF RegisterHandler, Register
    <2>3. ToSet(handlers') = ToSet(handlers) \cup {target[t]}
      BY <2>1, <2>2, AppendKeeps
    <2>4. QED
      BY <2>2, <2>3
  <1>4. ASSUME NEW t \in Caller, Find(t) PROVE PendingCopy'
    BY <1>4 DEF Find
  <1>5. ASSUME NEW t \in Caller, Spawn(t) PROVE PendingCopy'
    BY <1>5 DEF Spawn
  <1>6. ASSUME NEW t \in Caller, Header(t) PROVE PendingCopy'
    BY <1>6 DEF Header
  <1>7. ASSUME NEW t \in Caller, HeaderEof(t) PROVE PendingCopy'
    BY <1>7 DEF HeaderEof, AfterHeaderEof
  <1>8. ASSUME NEW t \in Caller, Record(t) PROVE PendingCopy'
    <2>1. \A u \in Caller : u # t => loop[u] = "none" /\ pending[u] = <<>>
      BY <1>8 DEF Record, OneLoop
    <2>2. read' >= 1
      BY <1>8 DEF Record
    <2>3. Distinct(handlers)
      BY DEF RegisteredOnce
    <2>4. QED
      BY <1>8, <2>1, <2>2, <2>3 DEF Record
  <1>9. ASSUME NEW t \in Caller, Eof(t) PROVE PendingCopy'
    BY <1>9 DEF Eof
  <1>10. ASSUME NEW t \in Caller, Handle(t) PROVE PendingCopy'
    <2>1. CASE pending[t] = <<>>
      BY <1>10, <2>1 DEF Handle
    <2>2. CASE pending[t] # <<>>
      <3>1. pending' = [pending EXCEPT ![t] = Tail(@)] /\ UNCHANGED <<loop, read, handlers>>
        BY <1>10, <2>2 DEF Handle, AfterHandler
      <3>2. Distinct(Tail(pending[t])) /\ ToSet(Tail(pending[t])) \subseteq ToSet(pending[t])
        BY <2>2, DistinctTail
      <3>3. QED
        BY <1>10, <3>1, <3>2 DEF Handle
    <2>3. QED
      BY <2>1, <2>2
  <1>11. ASSUME NEW t \in Caller, Cleanup(t) PROVE PendingCopy'
    BY <1>11 DEF Cleanup
  <1>12. ASSUME NEW t \in Caller, Wait(t) PROVE PendingCopy'
    BY <1>12 DEF Wait
  <1>13. ASSUME NEW t \in Caller, Sleep(t) PROVE PendingCopy'
    BY <1>13 DEF Sleep
  <1>14. ASSUME NEW t \in Caller, Exit(t) PROVE PendingCopy'
    BY <1>14 DEF Exit
  <1> HIDE DEF DispatcherInv, TypeOK, Goto, PendingCopy
  <1>15. QED
    BY <1>1, <1>2, <1>3, <1>4, <1>5, <1>6, <1>7, <1>8, <1>9, <1>10, <1>11, <1>12, <1>13, <1>14
       DEF Next, Call, CaptureLoop

\* One more packet.
LEMMA ContiguousAppend ==
  ASSUME NEW s \in Seq(Nat), NEW n \in Nat, s = <<>> \/ Contiguous(s, n - 1)
  PROVE  Contiguous(Append(s, n), n)
  <1>1. /\ Len(s) \in Nat /\ Len(Append(s, n)) = Len(s) + 1
        /\ \A i \in 1..Len(s) : Append(s, n)[i] = s[i] /\ s[i] \in Nat
        /\ Append(s, n)[Len(s) + 1] = n
    OBVIOUS
  <1>2. CASE s = <<>>
    BY <1>1, <1>2 DEF Contiguous
  <1>3. CASE s # <<>> /\ Contiguous(s, n - 1)
    <2>1. 1 \in 1..Len(s) /\ Append(s, n)[1] = s[1] /\ s[1] \in Nat
      BY <1>1, <1>3
    <2>2. Len(s) = n - s[1]
      BY <1>1, <1>3, <2>1 DEF Contiguous
    <2>3. ASSUME NEW i \in 1..(Len(s) + 1) PROVE Append(s, n)[i] = s[1] + i - 1
      <3>1. CASE i \in 1..Len(s)
        BY <1>1, <1>3, <3>1 DEF Contiguous
      <3>2. CASE i = Len(s) + 1
        <4>1. Append(s, n)[i] = n
          BY <1>1, <3>2
        <4>2. s[1] + i - 1 = n
          BY <1>1, <2>1, <2>2, <3>2
        <4>3. QED
          BY <4>1, <4>2
      <3>3. QED
        BY <1>1, <3>1, <3>2
    <2>4. QED
      BY <1>1, <2>1, <2>2, <2>3 DEF Contiguous
  <1>4. QED
    BY <1>2, <1>3

\* Most steps hand out no packet.
LEMMA DeliveredKept ==
  ASSUME Delivered, UNCHANGED <<got, pending, read>>, ToSet(handlers) \subseteq ToSet(handlers')
  PROVE  Delivered'
  BY DEF Delivered, Awaited

\* A packet that is read goes to all that got the one before, and to each of them once.
LEMMA NextDelivered == ASSUME DispatcherInv, Next PROVE Delivered'
  <1> USE DispatcherAssumption DEF callers, loops, health, packets
  <1>0. Delivered /\ TypeOK /\ OneLoop /\ PendingCopy
    BY DEF DispatcherInv
  <1>1. ASSUME NEW t \in Caller, RegisterHandler(t) PROVE Delivered'
    <2>1. target[t] \in Consumer /\ handlers \in Seq(Consumer)
      BY <1>1 DEF RegisterHandler, StartedOnce, Starting, DispatcherInv, TypeOK
    <2>2. handlers' = Append(handlers, target[t]) /\ UNCHANGED <<got, pending, read>>
      BY <1>1 DEF RegisterHandler, Register
    <2>3. ToSet(handlers) \subseteq ToSet(handlers')
      BY <2>1, <2>2, AppendKeeps
    <2>4. QED
      BY <1>0, <2>2, <2>3, DeliveredKept
  <1>2. ASSUME NEW t \in Caller, Record(t) PROVE Delivered'
    <2>1. /\ read' = read + 1 /\ pending' = [pending EXCEPT ![t] = handlers]
          /\ UNCHANGED <<got, handlers>>
      BY <1>2 DEF Record
    <2>2. \A u \in Caller : pending[u] = <<>>
      BY <1>0, <1>2 DEF Record, OneLoop, PendingCopy
    <2>3. \A c \in Consumer : ~Awaited(c)
      BY <2>2 DEF Awaited, ToSet
    <2>4. pending'[t] = handlers
      BY <1>0, <2>1 DEF TypeOK
    <2>5. read' - 1 = read
      BY <1>0, <2>1 DEF TypeOK
    <2>6. ASSUME NEW c \in Consumer, got'[c] # <<>>
          PROVE  c \in ToSet(handlers)' /\ Awaited(c)' /\ Contiguous(got'[c], read' - 1)
      BY <1>0, <2>1, <2>3, <2>4, <2>5, <2>6 DEF Delivered, Awaited
    <2>7. QED
      BY <2>6 DEF Delivered
  <1>3. ASSUME NEW t \in Caller, Handle(t) PROVE Delivered'
    <2>1. CASE pending[t] = <<>>
      BY <1>0, <1>3, <2>1, DeliveredKept DEF Handle
    <2>2. CASE pending[t] # <<>>
      <3>0. PICK h \in Consumer : h = Head(pending[t])
        BY <1>0, <2>2 DEF TypeOK
      <3>1. /\ got' = [got EXCEPT ![h] = Append(@, read)]
            /\ pending' = [pending EXCEPT ![t] = Tail(@)]
            /\ UNCHANGED <<handlers, read>>
        BY <1>3, <2>2, <3>0 DEF Handle, AfterHandler
      <3>2. pending[t] \in Seq(Consumer) /\ h \in Consumer /\ read \in Nat
        BY <1>0, <2>2 DEF TypeOK
      <3>3. h \in ToSet(pending[t]) /\ ToSet(Tail(pending[t])) = ToSet(pending[t]) \ {h}
        BY <1>0, <2>2, <3>0, <3>2, DistinctTail DEF PendingCopy
      <3>4. \A u \in Caller : u # t => pending[u] = <<>> /\ ToSet(pending[u]) = {}
        BY <1>0, <1>3 DEF Handle, OneLoop, PendingCopy, ToSet
      <3>5. \A u \in Caller : pending'[u] = IF u = t THEN Tail(pending[t]) ELSE pending[u]
        BY <1>0, <3>1 DEF TypeOK
      <3>6. \A c : Awaited(c) <=> c \in ToSet(pending[t])
        BY <3>4 DEF Awaited
      <3>7. \A c : Awaited(c)' <=> c \in ToSet(pending[t]) /\ c # h
        BY <3>3, <3>4, <3>5 DEF Awaited
      <3>8. ASSUME NEW c \in Consumer, c # h, got'[c] # <<>>
            PROVE  /\ c \in ToSet(handlers)'
                   /\ Awaited(c)' => Contiguous(got[c], read - 1)
                   /\ ~Awaited(c)' => Contiguous(got[c], read)
                   /\ got'[c] = got[c]
        <4>1. got'[c] = got[c]
          BY <1>0, <3>1, <3>8 DEF TypeOK
        <4>2. QED
          BY <1>0, <3>1, <3>6, <3>7, <3>8, <4>1 DEF Delivered
      <3>9. h \in ToSet(handlers)' /\ ~Awaited(h)' /\ Contiguous(got'[h], read)
        <4>1. got[h] \in Seq(Nat) /\ got'[h] = Append(got[h], read)
          BY <1>0, <3>1, <3>2 DEF TypeOK
        <4>2. got[h] = <<>> \/ Contiguous(got[h], read - 1)
          BY <1>0, <3>2, <3>3, <3>6 DEF Delivered
        <4>3. h \in ToSet(handlers)'
          BY <1>0, <3>1, <3>3 DEF PendingCopy
        <4>4. ~Awaited(h)'
          BY <3>7
        <4>5. Contiguous(Append(got[h], read), read)
          BY <3>2, <4>1, <4>2, ContiguousAppend
        <4>6. QED
          BY <4>1, <4>3, <4>4, <4>5
      <3>10. ASSUME NEW c \in Consumer, got'[c] # <<>>
             PROVE  /\ c \in ToSet(handlers)'
                    /\ Awaited(c)' => Contiguous(got'[c], read' - 1)
                    /\ ~Awaited(c)' => Contiguous(got'[c], read')
        <4>1. CASE c = h
          BY <3>1, <3>9, <4>1
        <4>2. CASE c # h
          BY <3>1, <3>8, <3>10, <4>2
        <4>3. QED
          BY <4>1, <4>2
      <3>11. QED
        BY <3>10 DEF Delivered
    <2>3. QED
      BY <2>1, <2>2
  <1>4. ASSUME UNCHANGED <<got, pending, read, handlers>> PROVE Delivered'
    BY <1>0, <1>4, DeliveredKept
  <1>5. ASSUME NEW t \in Caller, NEW c \in Consumer, Listen(t, c) PROVE Delivered'
    BY <1>4, <1>5 DEF Listen
  <1>6. ASSUME NEW t \in Caller, StartListener(t) PROVE Delivered'
    BY <1>4, <1>6 DEF StartListener
  <1>7. ASSUME NEW t \in Caller,
               Find(t) \/ Spawn(t) \/ Header(t) \/ HeaderEof(t) \/ Eof(t) \/ Cleanup(t)
                 \/ Wait(t) \/ Sleep(t) \/ Exit(t)
        PROVE  Delivered'
    BY <1>4, <1>7 DEF Find, Spawn, Header, HeaderEof, Eof, Cleanup, Wait, Sleep, Exit
  <1>8. QED
    BY <1>1, <1>2, <1>3, <1>5, <1>6, <1>7 DEF Next, Call, CaptureLoop

-----------------------------------------------------------------------------
\* The invariant is inductive.
LEMMA DispatcherInductive == Spec => []DispatcherInv
  <1>1. ASSUME DispatcherInv, Next PROVE DispatcherInv'
    BY <1>1, NextTypeOK, NextLoops, NextRegistered, NextPending, NextDelivered DEF DispatcherInv
  <1>2. ASSUME DispatcherInv, UNCHANGED vars PROVE DispatcherInv'
    <2> USE DEF vars, callers, loops, health, packets
    <2>1. TypeOK' /\ OneLoop' /\ TcpdumpInLoop'
      BY <1>2 DEF DispatcherInv, TypeOK, OneLoop, TcpdumpInLoop
    <2>2. StartedOnce' /\ RegisteredOnce' /\ PendingCopy' /\ Delivered'
      BY <1>2 DEF DispatcherInv, StartedOnce, Starting, RegisteredOnce, PendingCopy, Delivered, Awaited
    <2>3. QED
      BY <2>1, <2>2 DEF DispatcherInv
  <1>3. QED
    BY InitDispatcherInv, <1>1, <1>2, PTL DEF Spec

(* The dispatcher's state, its callers' and its loop's is typed             *)
(* (dispatcher.py).                                                         *)
THEOREM DispatcherTyped == Spec => []TypeOK
  <1>1. DispatcherInv => TypeOK
    BY DEF DispatcherInv
  <1>2. QED
    BY <1>1, DispatcherInductive, PTL

(* "A single unfiltered tcpdump" (dispatcher.py:8): whichever threads call  *)
(* start_listener() at the same moment, and however often the capture is    *)
(* lost and started again, no two tcpdumps run at once.                     *)
THEOREM OneCapture == Spec => []SingleCapture
  <1>1. ASSUME DispatcherInv PROVE SingleCapture
    <2> DEFINE L == {t \in Caller : tcpdump[t] = "live"}
    <2>1. CASE L = {}
      BY <2>1, FS_EmptySet DEF SingleCapture
    <2>2. CASE L # {}
      <3>1. PICK t \in L : TRUE
        BY <2>2
      <3>2. \A u \in L : u = t
        BY <1>1, <3>1 DEF DispatcherInv, OneLoop, TcpdumpInLoop
      <3>3. L = {t}
        BY <3>1, <3>2
      <3>4. Cardinality(L) = 1
        BY <3>3, FS_Singleton
      <3>5. QED
        BY <3>4 DEF SingleCapture
    <2>3. QED
      BY <2>1, <2>2
  <1>2. QED
    BY <1>1, DispatcherInductive, PTL

(* A consumer that gets packets gets every one from then on, once and in    *)
(* order (dispatcher.py, _dispatch): no race of two start_listener() calls  *)
(* registers it twice, no handler that raises takes a packet from another,  *)
(* and none is lost over a restart of tcpdump.                              *)
THEOREM PacketsOnce == Spec => []EveryPacketOnce
  <1>1. ASSUME DispatcherInv PROVE EveryPacketOnce
    <2> SUFFICES ASSUME NEW c \in Consumer, got[c] # <<>>
                 PROVE  LET upTo(n) == [i \in 1..(n - got[c][1] + 1) |-> got[c][1] + i - 1]
                        IN  \/ got[c] = upTo(read)
                            \/ \E t \in Caller : c \in ToSet(pending[t]) /\ got[c] = upTo(read - 1)
      BY DEF EveryPacketOnce
    <2> DEFINE upTo(n) == [i \in 1..(n - got[c][1] + 1) |-> got[c][1] + i - 1]
    <2>1. got[c] = [i \in 1..Len(got[c]) |-> got[c][i]]
      <3>1. got[c] \in Seq(1..MaxPackets)
        BY <1>1 DEF DispatcherInv, TypeOK
      <3>2. QED
        BY <3>1
    <2>2. ASSUME NEW n, Contiguous(got[c], n) PROVE got[c] = upTo(n)
      BY <2>1, <2>2 DEF Contiguous
    <2>3. CASE Awaited(c)
      <3>1. Contiguous(got[c], read - 1)
        BY <1>1, <2>3 DEF DispatcherInv, Delivered
      <3>2. got[c] = upTo(read - 1)
        BY <2>2, <3>1
      <3>3. QED
        BY <2>3, <3>2 DEF Awaited
    <2>4. CASE ~Awaited(c)
      <3>1. Contiguous(got[c], read)
        BY <1>1, <2>4 DEF DispatcherInv, Delivered
      <3>2. QED
        BY <2>2, <3>1
    <2>5. QED
      BY <2>3, <2>4
  <1>2. QED
    BY <1>1, DispatcherInductive, PTL
=============================================================================
