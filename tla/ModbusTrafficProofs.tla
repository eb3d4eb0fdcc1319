------------------------ MODULE ModbusTrafficProofs ------------------------
(***************************************************************************)
(* Proofs about ModbusTraffic.tla, for any connections, transaction ids,   *)
(* operations, timeout and cap, and any number of packets.                 *)
(***************************************************************************)
EXTENDS ModbusTraffic, FoldTheorems

Relationship ==
    [requests : Nat, responses : Nat, exceptions : Nat, missing : Nat,
     timed : Nat, min_ms : Int \cup {None}, max_ms : Int \cup {None}]

\* What is recorded of response times, once there is one or before.
TimesOK(rel, late) ==
    /\ rel.max_ms = None \/ (rel.max_ms \in Int /\ rel.max_ms <= PendingTimeout)
    /\ rel.min_ms = None \/ (rel.min_ms \in Int /\ (~ late => rel.min_ms >= 0))
    /\ rel.timed > 0 => /\ rel.max_ms \in Int /\ rel.max_ms <= PendingTimeout
                        /\ rel.min_ms \in Int /\ (~ late => rel.min_ms >= 0)

TimeInv ==
    /\ clock \in Nat /\ setbacks \in Nat
    /\ packet # None => packet.now \in Nat /\ (setbacks = 0 => packet.now <= clock)

\* No awaited request is younger than the packet being handled.
PendingInv ==
    /\ IsFiniteSet(DOMAIN pending)
    /\ \A k \in DOMAIN pending :
          /\ pending[k].sent_at \in Nat
          /\ setbacks = 0 => /\ pending[k].sent_at <= clock
                             /\ packet # None => pending[k].sent_at <= packet.now

RelationshipsInv ==
    \A r \in DOMAIN relationships :
        relationships[r] \in Relationship /\ TimesOK(relationships[r], setbacks # 0)

\* The inductive invariant.
ModbusInv == TimeInv /\ PendingInv /\ RelationshipsInv /\ PendingTracked

-----------------------------------------------------------------------------
\* The tables start empty.
LEMMA ModbusInvInit == ListenerInit /\ ModbusInit => ModbusInv
  <1> SUFFICES ASSUME ListenerInit, ModbusInit PROVE ModbusInv
    OBVIOUS
  <1>1. DOMAIN pending = {} /\ DOMAIN relationships = {}
    BY DEF ModbusInit
  <1>2. IsFiniteSet(DOMAIN pending)
    BY <1>1, FS_EmptySet
  <1>3. QED
    BY <1>1, <1>2 DEF ListenerInit, ModbusInv, TimeInv, PendingInv, RelationshipsInv, PendingTracked

\* Counting the missing changes no other column and no key.
LEMMA CountMissingKeeps ==
  ASSUME NEW now \in Int, PendingInv, RelationshipsInv
  PROVE  /\ DOMAIN CountMissing(now) = DOMAIN relationships
         /\ \A r \in DOMAIN relationships :
               /\ CountMissing(now)[r] \in Relationship
               /\ TimesOK(CountMissing(now)[r], setbacks # 0)
  <1>1. DOMAIN CountMissing(now) = DOMAIN relationships
    BY DEF CountMissing
  <1>2. ASSUME NEW r \in DOMAIN relationships
        PROVE  /\ CountMissing(now)[r] \in Relationship
               /\ TimesOK(CountMissing(now)[r], setbacks # 0)
    <2> DEFINE expired == {k \in Stale(now) : RelOf(k, pending[k]) = r}
    <2>1. expired \subseteq DOMAIN pending
      BY DEF Stale
    <2>2. Cardinality(expired) \in Nat
      BY <2>1, FS_Subset, FS_CardinalityType DEF PendingInv
    <2>3. CountMissing(now)[r] = [relationships[r] EXCEPT !.missing = @ + Cardinality(expired)]
      BY DEF CountMissing
    <2> HIDE DEF expired
    <2>4. relationships[r] \in Relationship /\ TimesOK(relationships[r], setbacks # 0)
      BY DEF RelationshipsInv
    <2>5. QED
      BY <2>2, <2>3, <2>4 DEF Relationship, TimesOK
  <1>3. QED
    BY <1>1, <1>2

\* What is still awaited was awaited before and is in time.
LEMMA UnansweredKeeps ==
  ASSUME NEW now \in Int, PendingInv
  PROVE  /\ DOMAIN Unanswered(now) \subseteq DOMAIN pending
         /\ IsFiniteSet(DOMAIN Unanswered(now))
         /\ \A k \in DOMAIN Unanswered(now) :
               /\ Unanswered(now)[k] = pending[k]
               /\ now - pending[k].sent_at <= PendingTimeout
  <1>1. DOMAIN Unanswered(now) = DOMAIN pending \ Stale(now)
    BY DEF Unanswered, Restrict
  <1>2. IsFiniteSet(DOMAIN Unanswered(now))
    BY <1>1, FS_Subset DEF PendingInv
  <1>3. \A k \in DOMAIN Unanswered(now) : Unanswered(now)[k] = pending[k]
    BY <1>1 DEF Unanswered, Restrict
  <1>4. \A k \in DOMAIN pending \ Stale(now) : now - pending[k].sent_at <= PendingTimeout
    BY ModbusAssumption DEF Stale, PendingInv
  <1>5. QED
    BY <1>1, <1>2, <1>3, <1>4

\* A response time within the timeout keeps the recorded ones within it.
LEMMA TimedKeeps ==
  ASSUME NEW rel \in Relationship, NEW late \in BOOLEAN, TimesOK(rel, late),
         NEW ms \in Int, ms <= PendingTimeout, ~ late => ms >= 0
  PROVE  Timed(rel, ms) \in Relationship /\ TimesOK(Timed(rel, ms), late)
  <1>1. PICK low \in Int : low = LowerOf(rel.min_ms, ms) /\ (~ late => low >= 0)
    BY DEF TimesOK, LowerOf
  <1>2. PICK high \in Int : high = HigherOf(rel.max_ms, ms) /\ high <= PendingTimeout
    BY DEF TimesOK, HigherOf
  <1>3. PICK n \in Nat : n = rel.timed + 1
    BY DEF Relationship
  <1> DEFINE new == [rel EXCEPT !.timed = n, !.min_ms = low, !.max_ms = high]
  <1>4. Timed(rel, ms) = new
    BY <1>1, <1>2, <1>3 DEF Timed
  <1>5. new \in Relationship /\ new.min_ms = low /\ new.max_ms = high
    BY DEF Relationship
  <1> HIDE DEF new
  <1>6. TimesOK(new, late)
    BY <1>1, <1>2, <1>5 DEF TimesOK
  <1>7. QED
    BY <1>4, <1>5, <1>6

-----------------------------------------------------------------------------
\* A request handled: its relationship counts it before it is awaited.
LEMMA HandleRequestKeeps == ModbusInv /\ HandleRequest => ModbusInv'
  <1> SUFFICES ASSUME ModbusInv, HandleRequest PROVE ModbusInv'
    OBVIOUS
  <1> DEFINE p == packet.content
             now == packet.now
             r == <<p.conn, p.op>>
             key == <<p.conn, p.tid>>
             rels == CountMissing(now)
             open == Unanswered(now)
             rel == IF r \in DOMAIN rels THEN rels[r] ELSE EmptyRelationship
             entry == [sent_at |-> now, op |-> p.op]
  <1>1. /\ now \in Nat /\ now \in Int /\ (setbacks = 0 => now <= clock)
        /\ PendingInv /\ RelationshipsInv
        /\ packet' = None /\ clock' = clock /\ setbacks' = setbacks
    BY DEF ModbusInv, TimeInv, HandleRequest, Handled
  <1>2. /\ DOMAIN rels = DOMAIN relationships
        /\ \A q \in DOMAIN rels : rels[q] \in Relationship /\ TimesOK(rels[q], setbacks # 0)
    BY <1>1, CountMissingKeeps
  <1>3. /\ DOMAIN open \subseteq DOMAIN pending /\ IsFiniteSet(DOMAIN open)
        /\ \A k \in DOMAIN open : open[k] = pending[k]
    BY <1>1, UnansweredKeeps
  <1>4. TimeInv'
    BY <1>1 DEF ModbusInv, TimeInv
  <1>5. \/ /\ relationships' = Extended(rels, r, [rel EXCEPT !.requests = @ + 1])
           /\ pending' = Extended(open, key, entry)
        \/ relationships' = rels /\ pending' = open
    BY DEF HandleRequest
  <1>6. rel \in Relationship /\ TimesOK(rel, setbacks # 0)
    BY <1>2 DEF EmptyRelationship, Relationship, TimesOK
  <1> DEFINE counted == [rel EXCEPT !.requests = @ + 1]
  <1>7. counted \in Relationship /\ TimesOK(counted, setbacks # 0)
    <2> HIDE DEF rel
    <2> QED BY <1>6 DEF Relationship, TimesOK
  <1> HIDE DEF p, now, r, key, rels, open, rel, counted
  <1>8. CASE relationships' = rels /\ pending' = open
    <2>1. PendingInv'
      BY <1>1, <1>3, <1>8 DEF ModbusInv, PendingInv
    <2>2. RelationshipsInv'
      BY <1>1, <1>2, <1>8 DEF RelationshipsInv
    <2>3. PendingTracked'
      BY <1>2, <1>3, <1>8 DEF ModbusInv, PendingTracked, RelOf
    <2>4. QED
      BY <1>4, <2>1, <2>2, <2>3 DEF ModbusInv
  <1>9. CASE /\ relationships' = Extended(rels, r, counted)
             /\ pending' = Extended(open, key, entry)
    <2>1. /\ DOMAIN relationships' = DOMAIN rels \cup {r}
          /\ \A q \in DOMAIN relationships' : relationships'[q] = IF q = r THEN counted ELSE rels[q]
      BY <1>9 DEF Extended
    <2>2. /\ DOMAIN pending' = DOMAIN open \cup {key}
          /\ \A k \in DOMAIN pending' : pending'[k] = IF k = key THEN entry ELSE open[k]
      BY <1>9 DEF Extended
    <2>3. IsFiniteSet(DOMAIN pending')
      BY <1>3, <2>2, FS_AddElement
    <2>4. PendingInv'
      BY <1>1, <1>3, <2>2, <2>3 DEF PendingInv
    <2>5. RelationshipsInv'
      BY <1>1, <1>2, <1>7, <2>1 DEF RelationshipsInv
    <2>6. RelOf(key, entry) = r
      BY DEF RelOf, key, r
    <2>7. PendingTracked'
      BY <1>2, <1>3, <2>1, <2>2, <2>6 DEF ModbusInv, PendingTracked, RelOf
    <2>8. QED
      BY <1>4, <2>4, <2>5, <2>7 DEF ModbusInv
  <1>10. QED
    BY <1>5, <1>8, <1>9 DEF counted

\* A response handled: the request it answers is no longer awaited, and its
\* time is counted only if it was still awaited at this very moment.
LEMMA HandleResponseKeeps == ModbusInv /\ HandleResponse => ModbusInv'
  <1> SUFFICES ASSUME ModbusInv, HandleResponse PROVE ModbusInv'
    OBVIOUS
  <1> DEFINE p == packet.content
             now == packet.now
             r == <<p.conn, p.op>>
             key == <<p.conn, p.tid>>
             rels == CountMissing(now)
             open == Unanswered(now)
             counted == [rels[r] EXCEPT !.responses = @ + 1,
                                        !.exceptions = IF p.kind = "exception" THEN @ + 1 ELSE @]
             ms == now - open[key].sent_at
  <1>1. /\ now \in Nat /\ now \in Int /\ packet # None
        /\ PendingInv /\ RelationshipsInv
        /\ packet' = None /\ clock' = clock /\ setbacks' = setbacks
    BY DEF ModbusInv, TimeInv, HandleResponse, Handled
  <1>2. /\ DOMAIN rels = DOMAIN relationships
        /\ \A q \in DOMAIN rels : rels[q] \in Relationship /\ TimesOK(rels[q], setbacks # 0)
    BY <1>1, CountMissingKeeps
  <1>3. /\ DOMAIN open \subseteq DOMAIN pending /\ IsFiniteSet(DOMAIN open)
        /\ \A k \in DOMAIN open : /\ open[k] = pending[k]
                                  /\ now - pending[k].sent_at <= PendingTimeout
    BY <1>1, UnansweredKeeps
  <1>4. TimeInv'
    BY <1>1 DEF ModbusInv, TimeInv
  <1>5. /\ pending' = Restrict(open, DOMAIN open \ {key})
        /\ \/ relationships' = rels
           \/ r \in DOMAIN rels /\ relationships' = [rels EXCEPT ![r] = counted]
           \/ /\ r \in DOMAIN rels /\ key \in DOMAIN open
              /\ relationships' = [rels EXCEPT ![r] = Timed(counted, ms)]
    BY DEF HandleResponse
  <1>6. ASSUME r \in DOMAIN rels PROVE counted \in Relationship /\ TimesOK(counted, setbacks # 0)
    <2>1. PICK old \in Relationship : old = rels[r] /\ TimesOK(old, setbacks # 0)
      BY <1>2, <1>6
    <2>2. PICK e \in Nat : e = IF p.kind = "exception" THEN old.exceptions + 1 ELSE old.exceptions
      BY DEF Relationship
    <2>3. PICK n \in Nat : n = old.responses + 1
      BY DEF Relationship
    <2> DEFINE new == [old EXCEPT !.responses = n, !.exceptions = e]
    <2>4. counted = new
      BY <2>1, <2>2, <2>3, Zenon
    <2>5. /\ new \in Relationship /\ new.timed = old.timed
          /\ new.min_ms = old.min_ms /\ new.max_ms = old.max_ms
      BY DEF Relationship
    <2> HIDE DEF new, counted
    <2>6. QED
      BY <2>1, <2>4, <2>5 DEF TimesOK
  <1>7. ASSUME key \in DOMAIN open
        PROVE  ms \in Int /\ ms <= PendingTimeout /\ (setbacks = 0 => ms >= 0)
    <2>1. open[key] = pending[key] /\ key \in DOMAIN pending
      BY <1>3, <1>7
    <2> HIDE DEF key, open
    <2>2. QED
      BY <1>1, <1>3, <1>7, <2>1 DEF PendingInv
  <1>8. ASSUME r \in DOMAIN rels, key \in DOMAIN open
        PROVE  Timed(counted, ms) \in Relationship /\ TimesOK(Timed(counted, ms), setbacks # 0)
    <2>1. counted \in Relationship /\ TimesOK(counted, setbacks # 0)
      BY <1>6, <1>8
    <2>2. ms \in Int /\ ms <= PendingTimeout /\ (setbacks = 0 => ms >= 0)
      BY <1>7, <1>8
    <2>3. (setbacks # 0) \in BOOLEAN
      OBVIOUS
    <2> HIDE DEF counted, ms
    <2>4. QED
      BY <2>1, <2>2, <2>3, TimedKeeps
  <1> DEFINE timed == Timed(counted, ms)
  <1> HIDE DEF p, now, r, key, rels, open, counted, ms, timed
  <1>9. /\ DOMAIN pending' \subseteq DOMAIN open
        /\ \A k \in DOMAIN pending' : pending'[k] = open[k]
    BY <1>5 DEF Restrict
  <1>10. /\ DOMAIN relationships' = DOMAIN relationships
         /\ \A q \in DOMAIN relationships' :
               relationships'[q] \in Relationship /\ TimesOK(relationships'[q], setbacks # 0)
    <2>1. CASE relationships' = rels
      BY <1>2, <2>1
    <2>2. CASE r \in DOMAIN rels /\ relationships' = [rels EXCEPT ![r] = counted]
      BY <1>2, <1>6, <2>2
    <2>3. CASE r \in DOMAIN rels /\ key \in DOMAIN open /\ relationships' = [rels EXCEPT ![r] = timed]
      BY <1>2, <1>8, <2>3 DEF timed
    <2>4. QED
      BY <1>5, <2>1, <2>2, <2>3 DEF timed
  <1>11. PendingInv'
    <2>1. IsFiniteSet(DOMAIN pending')
      BY <1>3, <1>9, FS_Subset
    <2>2. QED
      BY <1>1, <1>3, <1>9, <2>1 DEF PendingInv
  <1>12. RelationshipsInv'
    BY <1>1, <1>10 DEF RelationshipsInv
  <1>13. PendingTracked'
    BY <1>3, <1>9, <1>10 DEF ModbusInv, PendingTracked, RelOf
  <1>14. QED
    BY <1>4, <1>11, <1>12, <1>13 DEF ModbusInv

\* A step of the clock or the arrival of a packet leaves the tables alone.
LEMMA ClockKeeps ==
  ModbusInv /\ (Tick \/ SetBack \/ \E p : Receive(p)) /\ UNCHANGED modbusVars => ModbusInv'
  <1> SUFFICES ASSUME ModbusInv, Tick \/ SetBack \/ \E p : Receive(p), UNCHANGED modbusVars
               PROVE  ModbusInv'
    OBVIOUS
  <1>1. /\ clock' \in Nat /\ setbacks' \in Nat
        /\ setbacks' = 0 => setbacks = 0 /\ clock <= clock'
    BY DEF ModbusInv, TimeInv, Tick, SetBack, Receive
  <1>2. packet' = packet \/ packet'.now = clock
    BY DEF Tick, SetBack, Receive
  <1>3. packet' # packet => clock' = clock /\ setbacks' = setbacks
    BY DEF Tick, SetBack, Receive
  <1>4. TimeInv'
    BY <1>1, <1>2, <1>3 DEF ModbusInv, TimeInv
  <1>5. PendingInv'
    BY <1>1, <1>2, <1>3 DEF ModbusInv, TimeInv, PendingInv, modbusVars
  <1>6. RelationshipsInv'
    BY <1>1 DEF ModbusInv, RelationshipsInv, TimesOK, modbusVars, Relationship
  <1>7. PendingTracked'
    BY DEF ModbusInv, PendingTracked, RelOf, modbusVars
  <1>8. QED
    BY <1>4, <1>5, <1>6, <1>7 DEF ModbusInv

\* Reading expires what is late; reset() empties both tables at once.
LEMMA RequestsKeep == ModbusInv /\ (GetModbusStats \/ ResetModbus) => ModbusInv'
  <1>1. ASSUME ModbusInv, GetModbusStats PROVE ModbusInv'
    <2> DEFINE rels == CountMissing(clock)
               open == Unanswered(clock)
    <2>1. /\ clock \in Int /\ PendingInv /\ RelationshipsInv
          /\ packet' = packet /\ clock' = clock /\ setbacks' = setbacks
          /\ relationships' = rels /\ pending' = open
      BY <1>1 DEF ModbusInv, TimeInv, GetModbusStats, listenerVars
    <2>2. /\ DOMAIN rels = DOMAIN relationships
          /\ \A q \in DOMAIN rels : rels[q] \in Relationship /\ TimesOK(rels[q], setbacks # 0)
      BY <2>1, CountMissingKeeps
    <2>3. /\ DOMAIN open \subseteq DOMAIN pending /\ IsFiniteSet(DOMAIN open)
          /\ \A k \in DOMAIN open : open[k] = pending[k]
      BY <2>1, UnansweredKeeps
    <2> HIDE DEF rels, open
    <2>4. TimeInv'
      BY <1>1, <2>1 DEF ModbusInv, TimeInv
    <2>5. PendingInv'
      BY <2>1, <2>3 DEF PendingInv
    <2>6. RelationshipsInv'
      BY <2>1, <2>2 DEF RelationshipsInv
    <2>7. PendingTracked'
      BY <1>1, <2>1, <2>2, <2>3 DEF ModbusInv, PendingTracked, RelOf
    <2>8. QED
      BY <2>4, <2>5, <2>6, <2>7 DEF ModbusInv
  <1>2. ASSUME ModbusInv, ResetModbus PROVE ModbusInv'
    <2>1. /\ DOMAIN pending' = {} /\ DOMAIN relationships' = {}
          /\ packet' = packet /\ clock' = clock /\ setbacks' = setbacks
      BY <1>2 DEF ResetModbus, listenerVars
    <2>2. IsFiniteSet(DOMAIN pending')
      BY <2>1, FS_EmptySet
    <2>3. TimeInv'
      BY <1>2, <2>1 DEF ModbusInv, TimeInv
    <2>4. PendingInv' /\ RelationshipsInv' /\ PendingTracked'
      BY <2>1, <2>2 DEF PendingInv, RelationshipsInv, PendingTracked
    <2>5. QED
      BY <2>3, <2>4 DEF ModbusInv
  <1>3. QED
    BY <1>1, <1>2

\* Every step of the listener keeps the invariant.
LEMMA ModbusInvNext == ModbusInv /\ [ModbusNext]_<<listenerVars, modbusVars>> => ModbusInv'
  <1> SUFFICES ASSUME ModbusInv, [ModbusNext]_<<listenerVars, modbusVars>> PROVE ModbusInv'
    OBVIOUS
  <1>1. CASE (Tick \/ SetBack) /\ UNCHANGED modbusVars
    BY <1>1, ClockKeeps
  <1>2. CASE ReceiveModbus
    BY <1>2, ClockKeeps DEF ReceiveModbus
  <1>3. CASE HandleRequest
    BY <1>3, HandleRequestKeeps
  <1>4. CASE HandleResponse
    BY <1>4, HandleResponseKeeps
  <1>5. CASE GetModbusStats \/ ResetModbus
    BY <1>5, RequestsKeep
  <1>6. CASE UNCHANGED <<listenerVars, modbusVars>>
    BY <1>6 DEF ModbusInv, TimeInv, PendingInv, RelationshipsInv, PendingTracked, RelOf,
                listenerVars, modbusVars
  <1>7. QED
    BY <1>1, <1>2, <1>3, <1>4, <1>5, <1>6 DEF ModbusNext

-----------------------------------------------------------------------------
(* Every request that handle_packet() still awaits has its relationship in  *)
(* the table, so a timeout is always counted: whatever the cap refuses and  *)
(* whenever reset() comes.                                                  *)
THEOREM AwaitedIsTracked == ModbusSpec => []PendingTracked
  <1>1. ModbusInv => PendingTracked
    BY DEF ModbusInv
  <1>2. QED
    BY <1>1, ModbusInvInit, ModbusInvNext, PTL DEF ModbusSpec

(* No recorded response time exceeds the timeout, and none is negative      *)
(* unless the wall clock was set back.                                      *)
THEOREM TimesAreInTime == ModbusSpec => []ResponseTimesInTime
  <1>1. ModbusInv => ResponseTimesInTime
    BY DEF ModbusInv, RelationshipsInv, TimesOK, ResponseTimesInTime
  <1>2. QED
    BY <1>1, ModbusInvInit, ModbusInvNext, PTL DEF ModbusSpec

-----------------------------------------------------------------------------
(* Every request is accounted for once. *)

\* Of each relationship the requests that were neither answered in time nor
\* counted missing; their sum over the table.
Owed(rels) == [r \in DOMAIN rels |-> rels[r].requests - (rels[r].timed + rels[r].missing)]
Debt(rels) == SumFunctionOnSet(Owed(rels), DOMAIN rels)

Balanced(rels, open) ==
    /\ IsFiniteSet(DOMAIN rels) /\ IsFiniteSet(DOMAIN open)
    /\ \A r \in DOMAIN rels : rels[r] \in Relationship
    /\ Cardinality(DOMAIN open) <= Debt(rels)

\* The columns are numbers.
LEMMA OwedType ==
  ASSUME NEW rels, \A r \in DOMAIN rels : rels[r] \in Relationship
  PROVE  \A r \in DOMAIN rels : Owed(rels)[r] \in Int
  BY DEF Owed, Relationship

\* Empty tables balance.
LEMMA EmptyBalanced == Balanced(<<>>, <<>>)
  <1>1. PICK D, e : D = DOMAIN <<>> /\ e = Owed(<<>>)
    OBVIOUS
  <1>2. D = {} /\ IsFiniteSet(D) /\ Cardinality(D) = 0 /\ \A r \in D : e[r] \in Int
    BY <1>1, FS_EmptySet
  <1>3. SumFunctionOnSet(e, D) = 0
    BY <1>2, SumPick
  <1>4. QED
    BY <1>1, <1>2, <1>3 DEF Balanced, Debt

\* A row that owes d more, or a new one that owes d, makes up for d more requests
\* that are awaited.
LEMMA RowKeepsBalance ==
  ASSUME NEW rels, NEW open, Balanced(rels, open), NEW new, NEW left, NEW r, NEW d \in Int,
         DOMAIN new = DOMAIN rels \cup {r},
         \A q \in DOMAIN new : new[q] \in Relationship,
         \A q \in DOMAIN rels : q # r => new[q] = rels[q],
         r \in DOMAIN rels => Owed(new)[r] = Owed(rels)[r] + d,
         r \notin DOMAIN rels => Owed(new)[r] = d,
         IsFiniteSet(DOMAIN left), Cardinality(DOMAIN left) <= Cardinality(DOMAIN open) + d
  PROVE  Balanced(new, left)
  <1>1. PICK S, f, e : S = DOMAIN rels /\ f = Owed(rels) /\ e = Owed(new)
    OBVIOUS
  <1>2. IsFiniteSet(S) /\ IsFiniteSet(S \cup {r})
    BY <1>1, FS_AddElement DEF Balanced
  <1>3. (\A q \in S : f[q] \in Int) /\ (\A q \in S \cup {r} : e[q] \in Int)
    BY <1>1, OwedType DEF Balanced
  <1>4. \A q \in S : q # r => f[q] = e[q]
    BY <1>1 DEF Owed
  <1>5. SumFunctionOnSet(e, S \cup {r}) = SumFunctionOnSet(f, S) + d
    <2>1. CASE r \in S
      <3>1. S \cup {r} = S /\ e[r] - f[r] = d
        <4>1. e[r] = f[r] + d /\ f[r] \in Int
          BY <1>1, <1>3, <2>1
        <4>2. QED
          BY <2>1, <4>1
      <3>2. SumFunctionOnSet(e, S) = SumFunctionOnSet(f, S) + (e[r] - f[r])
        BY <1>2, <1>3, <1>4, <2>1, SumUpdate
      <3>3. QED
        BY <3>1, <3>2
    <2>2. CASE r \notin S
      <3>1. SumFunctionOnSet(e, S \cup {r}) = SumFunctionOnSet(e, S) + e[r]
        <4>1. \A q \in S \cup {r} : e[q] \in Int
          BY <1>3
        <4>2. IsFiniteSet(S)
          BY <1>2
        <4>3. QED
          BY <2>2, <4>1, <4>2, SumAdd
      <3>2. \A q \in S : f[q] = e[q]
        BY <1>4, <2>2
      <3>3. SumFunctionOnSet(f, S) = SumFunctionOnSet(e, S)
        BY <1>2, <1>3, <3>2, SumExtensional
      <3>4. e[r] = d
        BY <1>1, <2>2
      <3>5. QED
        BY <3>1, <3>3, <3>4
    <2>3. QED
      BY <2>1, <2>2
  <1>6. Debt(new) = Debt(rels) + d
    BY <1>1, <1>5 DEF Debt
  <1>7. Debt(rels) \in Int
    BY <1>1, <1>2, <1>3, SumType DEF Debt
  <1>8. Cardinality(DOMAIN open) \in Nat /\ Cardinality(DOMAIN left) \in Nat
    BY FS_CardinalityType DEF Balanced
  <1>9. Cardinality(DOMAIN left) <= Debt(new)
    BY <1>6, <1>7, <1>8 DEF Balanced
  <1>10. QED
    BY <1>1, <1>2, <1>9 DEF Balanced

\* A request that expires is counted missing in its own relationship.
LEMMA ExpiryKeepsBalance ==
  ASSUME ModbusInv, Balanced(relationships, pending), NEW now \in Int
  PROVE  Balanced(CountMissing(now), Unanswered(now))
  <1> DEFINE key == [k \in DOMAIN pending |-> RelOf(k, pending[k])]
  <1>1. PICK D, T, f, e, h : /\ D = DOMAIN relationships /\ T = Stale(now)
                             /\ f = Owed(CountMissing(now)) /\ e = Tally(T, key, D)
                             /\ h = Owed(relationships)
    OBVIOUS
  <1>2. T \subseteq DOMAIN pending /\ IsFiniteSet(T) /\ IsFiniteSet(D) /\ IsFiniteSet(DOMAIN pending)
    <2>1. T \subseteq DOMAIN pending
      BY <1>1 DEF Stale
    <2>2. QED
      BY <1>1, <2>1, FS_Subset DEF Balanced
  <1>3. \A k \in T : key[k] \in D
    BY <1>1, <1>2 DEF ModbusInv, PendingTracked
  <1>4. \A r \in D : e[r] \in Nat
    <2>1. ASSUME NEW r \in D PROVE e[r] \in Nat
      <3>1. PICK V : V = {k \in T : key[k] = r}
        OBVIOUS
      <3>2. Cardinality(V) \in Nat
        BY <1>2, <3>1, FS_Subset, FS_CardinalityType
      <3>3. QED
        BY <1>1, <3>1, <3>2 DEF Tally
    <2>2. QED
      BY <2>1
  <1>5. /\ DOMAIN CountMissing(now) = D
        /\ \A r \in D : CountMissing(now)[r] \in Relationship
    BY <1>1, CountMissingKeeps DEF ModbusInv
  <1>6. ASSUME NEW r \in D PROVE f[r] \in Int /\ h[r] = f[r] + e[r]
    <2>1. CountMissing(now)[r] = [relationships[r] EXCEPT !.missing = @ + e[r]]
      <3>1. {k \in Stale(now) : RelOf(k, pending[k]) = r} = {k \in T : key[k] = r}
        BY <1>1, <1>2
      <3>2. QED
        BY <1>1, <3>1 DEF CountMissing, Tally
    <2>2. PICK old, n : old = relationships[r] /\ old \in Relationship /\ n = e[r] /\ n \in Nat
      BY <1>1, <1>4 DEF Balanced
    <2>3. f[r] = old.requests - (old.timed + (old.missing + n))
      BY <1>1, <1>5, <2>1, <2>2 DEF Owed, Relationship
    <2>4. h[r] = old.requests - (old.timed + old.missing)
      BY <1>1, <2>2 DEF Owed
    <2>5. QED
      BY <2>2, <2>3, <2>4 DEF Relationship
  <1> HIDE DEF key
  <1>7. SumFunctionOnSet(h, D) = SumFunctionOnSet(f, D) + SumFunctionOnSet(e, D)
    BY <1>2, <1>4, <1>6, SumPlus
  <1>8. SumFunctionOnSet(e, D) = Cardinality(T)
    BY <1>1, <1>2, <1>3, TallyCounts
  <1>9. DOMAIN Unanswered(now) = DOMAIN pending \ T /\ IsFiniteSet(DOMAIN Unanswered(now))
    <2>1. DOMAIN Unanswered(now) = DOMAIN pending \ T
      BY <1>1 DEF Unanswered, Restrict
    <2>2. QED
      BY <1>2, <2>1, FS_Subset
  <1>10. /\ Cardinality(DOMAIN Unanswered(now)) = Cardinality(DOMAIN pending) - Cardinality(T)
         /\ Cardinality(DOMAIN pending) \in Nat /\ Cardinality(T) \in Nat
    <2>1. PICK A : A = DOMAIN pending /\ A \cap T = T
      BY <1>2
    <2>2. Cardinality(A \ T) = Cardinality(A) - Cardinality(A \cap T)
      BY <1>2, <2>1, FS_Difference
    <2>3. QED
      BY <1>2, <1>9, <2>1, <2>2, FS_CardinalityType
  <1>11. SumFunctionOnSet(f, D) \in Int
    BY <1>2, <1>6, SumType
  <1>12. Cardinality(DOMAIN pending) <= SumFunctionOnSet(h, D)
    BY <1>1 DEF Balanced, Debt
  <1>13. Cardinality(DOMAIN Unanswered(now)) <= SumFunctionOnSet(f, D)
    BY <1>7, <1>8, <1>10, <1>11, <1>12
  <1>14. QED
    BY <1>1, <1>2, <1>5, <1>9, <1>13 DEF Balanced, Debt

\* A request is counted and awaited; one that reuses an id replaces the other.
LEMMA RequestBalanced ==
  ASSUME ModbusInv, Balanced(relationships, pending), HandleRequest
  PROVE  Balanced(relationships, pending)'
  <1>1. PICK r, key, entry, rels, open, now :
          /\ r = <<packet.content.conn, packet.content.op>>
          /\ key = <<packet.content.conn, packet.content.tid>>
          /\ entry = [sent_at |-> packet.now, op |-> packet.content.op]
          /\ now = packet.now /\ rels = CountMissing(now) /\ open = Unanswered(now)
    OBVIOUS
  <1>2. now \in Int
    BY <1>1 DEF HandleRequest, ModbusInv, TimeInv
  <1>3. Balanced(rels, open)
    BY <1>1, <1>2, ExpiryKeepsBalance
  <1>4. PICK rel : rel = IF r \in DOMAIN rels THEN rels[r] ELSE EmptyRelationship
    OBVIOUS
  <1>5. \/ /\ relationships' = Extended(rels, r, [rel EXCEPT !.requests = @ + 1])
           /\ pending' = Extended(open, key, entry)
        \/ relationships' = rels /\ pending' = open
    BY <1>1, <1>4 DEF HandleRequest
  <1>6. CASE relationships' = rels /\ pending' = open
    BY <1>3, <1>6
  <1>7. CASE /\ relationships' = Extended(rels, r, [rel EXCEPT !.requests = @ + 1])
             /\ pending' = Extended(open, key, entry)
    <2>1. rel \in Relationship
      BY <1>3, <1>4 DEF Balanced, EmptyRelationship, Relationship
    <2>2. PICK counted : counted = [rel EXCEPT !.requests = @ + 1]
      OBVIOUS
    <2>3. /\ counted \in Relationship /\ counted.requests = rel.requests + 1
          /\ counted.timed = rel.timed /\ counted.missing = rel.missing
      BY <2>1, <2>2 DEF Relationship
    <2>4. PICK new, left : new = relationships' /\ left = pending'
      OBVIOUS
    <2>5. /\ DOMAIN new = DOMAIN rels \cup {r}
          /\ \A q \in DOMAIN new : new[q] = IF q = r THEN counted ELSE rels[q]
      BY <1>7, <2>2, <2>4 DEF Extended
    <2>6. DOMAIN left = DOMAIN open \cup {key}
      BY <1>7, <2>4 DEF Extended
    <2>7. /\ IsFiniteSet(DOMAIN left) /\ Cardinality(DOMAIN left) <= Cardinality(DOMAIN open) + 1
      <3>1. PICK A, B : A = DOMAIN open /\ B = A \cup {key} /\ B = DOMAIN left /\ IsFiniteSet(A)
        BY <1>3, <2>6 DEF Balanced
      <3>2. /\ IsFiniteSet(B)
            /\ Cardinality(B) = IF key \in A THEN Cardinality(A) ELSE Cardinality(A) + 1
        BY <3>1, FS_AddElement
      <3>3. Cardinality(A) \in Nat
        BY <3>1, FS_CardinalityType
      <3>4. IsFiniteSet(B) /\ Cardinality(B) <= Cardinality(A) + 1
        BY <3>2, <3>3
      <3>5. QED
        BY <3>1, <3>4, Zenon
    <2>8. \A q \in DOMAIN new : new[q] \in Relationship
      BY <1>3, <2>3, <2>5 DEF Balanced
    <2>9. \A q \in DOMAIN rels : q # r => new[q] = rels[q]
      BY <2>5
    <2>10. Owed(new)[r] = (rel.requests + 1) - (rel.timed + rel.missing)
      <3>1. r \in DOMAIN new /\ new[r] = counted
        BY <2>5
      <3>2. Owed(new)[r] = counted.requests - (counted.timed + counted.missing)
        BY <3>1 DEF Owed
      <3>3. QED
        BY <2>3, <3>2, Zenon
    <2>11. r \in DOMAIN rels => Owed(new)[r] = Owed(rels)[r] + 1
      BY <1>4, <2>1, <2>10 DEF Owed, Relationship
    <2>12. r \notin DOMAIN rels => Owed(new)[r] = 1
      BY <1>4, <2>10 DEF EmptyRelationship
    <2>13. Balanced(new, left)
      BY <1>3, <2>5, <2>7, <2>8, <2>9, <2>11, <2>12, RowKeepsBalance
    <2>14. QED
      BY <2>4, <2>13
  <1>8. QED
    BY <1>5, <1>6, <1>7

\* An answer in time counts once, for the request that is then no longer awaited.
LEMMA ResponseBalanced ==
  ASSUME ModbusInv, Balanced(relationships, pending), HandleResponse
  PROVE  Balanced(relationships, pending)'
  <1>1. PICK r, key, rels, open, now :
          /\ r = <<packet.content.conn, packet.content.op>>
          /\ key = <<packet.content.conn, packet.content.tid>>
          /\ now = packet.now /\ rels = CountMissing(now) /\ open = Unanswered(now)
    OBVIOUS
  <1>2. now \in Int
    BY <1>1 DEF HandleResponse, ModbusInv, TimeInv
  <1>3. Balanced(rels, open)
    BY <1>1, <1>2, ExpiryKeepsBalance
  <1>4. PICK left : left = Restrict(open, DOMAIN open \ {key})
    OBVIOUS
  <1>5. /\ IsFiniteSet(DOMAIN left)
        /\ Cardinality(DOMAIN left) =
             IF key \in DOMAIN open THEN Cardinality(DOMAIN open) - 1 ELSE Cardinality(DOMAIN open)
    <2>1. DOMAIN left = DOMAIN open \ {key}
      BY <1>4 DEF Restrict
    <2>2. QED
      BY <1>3, <2>1, FS_RemoveElement DEF Balanced
  <1>6. Cardinality(DOMAIN open) \in Nat
    BY <1>3, FS_CardinalityType DEF Balanced
  <1>7. PICK exceptions, ms, counted :
          /\ exceptions = (IF packet.content.kind = "exception" THEN rels[r].exceptions + 1
                                                                ELSE rels[r].exceptions)
          /\ ms = now - open[key].sent_at
          /\ counted = [rels[r] EXCEPT !.responses = @ + 1, !.exceptions = exceptions]
    OBVIOUS
  <1>8. /\ pending' = left
        /\ \/ relationships' = rels
           \/ r \in DOMAIN rels /\ relationships' = [rels EXCEPT ![r] = counted]
           \/ /\ r \in DOMAIN rels /\ key \in DOMAIN open
              /\ relationships' = [rels EXCEPT ![r] = Timed(counted, ms)]
    BY <1>1, <1>4, <1>7 DEF HandleResponse
  <1>9. CASE relationships' = rels
    <2>1. Debt(rels) \in Int /\ Cardinality(DOMAIN open) <= Debt(rels)
      <3>1. PICK S, f : S = DOMAIN rels /\ f = Owed(rels)
        OBVIOUS
      <3>2. IsFiniteSet(S) /\ \A q \in S : f[q] \in Int
        BY <1>3, <3>1, OwedType DEF Balanced
      <3>3. QED
        BY <1>3, <3>1, <3>2, SumType DEF Balanced, Debt
    <2>2. Cardinality(DOMAIN left) <= Debt(rels)
      BY <1>5, <1>6, <2>1
    <2>3. Balanced(rels, left)
      BY <1>3, <1>5, <2>2 DEF Balanced
    <2>4. QED
      BY <1>8, <1>9, <2>3
  <1>10. ASSUME NEW row, NEW d \in Int, r \in DOMAIN rels, row \in Relationship,
                row.requests - (row.timed + row.missing)
                  = rels[r].requests - (rels[r].timed + rels[r].missing) + d,
                Cardinality(DOMAIN left) <= Cardinality(DOMAIN open) + d,
                relationships' = [rels EXCEPT ![r] = row]
         PROVE  Balanced(relationships, pending)'
    <2>1. PICK new : new = [rels EXCEPT ![r] = row]
      OBVIOUS
    <2>2. /\ DOMAIN new = DOMAIN rels \cup {r} /\ new[r] = row
          /\ \A q \in DOMAIN rels : q # r => new[q] = rels[q]
      BY <1>10, <2>1
    <2>3. \A q \in DOMAIN new : new[q] \in Relationship
      BY <1>3, <1>10, <2>2 DEF Balanced
    <2>4. Owed(new)[r] = Owed(rels)[r] + d
      <3>1. Owed(new)[r] = row.requests - (row.timed + row.missing)
        BY <2>2 DEF Owed
      <3>2. Owed(rels)[r] = rels[r].requests - (rels[r].timed + rels[r].missing)
        BY <1>10 DEF Owed
      <3>3. QED
        BY <1>10, <3>1, <3>2
    <2>5. Balanced(new, left)
      <3>1. r \in DOMAIN rels /\ d \in Int
            /\ Cardinality(DOMAIN left) <= Cardinality(DOMAIN open) + d
        BY <1>10
      <3>2. IsFiniteSet(DOMAIN left)
        BY <1>5
      <3>3. QED
        BY <1>3, <2>2, <2>3, <2>4, <3>1, <3>2, RowKeepsBalance
    <2>6. QED
      BY <1>8, <1>10, <2>1, <2>5
  <1>11. ASSUME r \in DOMAIN rels
         PROVE  /\ counted \in Relationship /\ counted.requests = rels[r].requests
                /\ counted.timed = rels[r].timed /\ counted.missing = rels[r].missing
    <2>1. PICK old : old = rels[r] /\ old \in Relationship
      BY <1>3, <1>11 DEF Balanced
    <2>2. PICK n \in Nat, e \in Nat : n = old.responses + 1 /\ e = exceptions
      BY <1>7, <2>1 DEF Relationship
    <2>3. counted = [old EXCEPT !.responses = n, !.exceptions = e]
      BY <1>7, <2>1, <2>2, Zenon
    <2>4. /\ counted \in Relationship /\ counted.requests = old.requests
          /\ counted.timed = old.timed /\ counted.missing = old.missing
      BY <2>1, <2>2, <2>3 DEF Relationship
    <2>5. QED
      BY <2>1, <2>4, Zenon
  <1>12. CASE r \in DOMAIN rels /\ relationships' = [rels EXCEPT ![r] = counted]
    <2>1. Cardinality(DOMAIN left) <= Cardinality(DOMAIN open) + 0
      BY <1>5, <1>6
    <2>2. counted.requests - (counted.timed + counted.missing)
            = rels[r].requests - (rels[r].timed + rels[r].missing) + 0
      BY <1>11, <1>12 DEF Relationship
    <2>3. 0 \in Int /\ counted \in Relationship
      BY <1>11, <1>12
    <2>4. QED
      BY <1>10, <1>12, <2>1, <2>2, <2>3, Zenon
  <1>13. CASE /\ r \in DOMAIN rels /\ key \in DOMAIN open
              /\ relationships' = [rels EXCEPT ![r] = Timed(counted, ms)]
    <2>1. Cardinality(DOMAIN left) <= Cardinality(DOMAIN open) + -1
      BY <1>5, <1>6, <1>13
    <2>2. PICK row : row = Timed(counted, ms)
      OBVIOUS
    <2>3. /\ row \in Relationship /\ row.requests = counted.requests
          /\ row.timed = counted.timed + 1 /\ row.missing = counted.missing
      <3>1. ms \in Int
        <4>1. /\ DOMAIN open \subseteq DOMAIN pending
              /\ \A k \in DOMAIN open : open[k] = pending[k]
          BY <1>1, <1>2, UnansweredKeeps DEF ModbusInv
        <4>2. QED
          BY <1>2, <1>7, <1>13, <4>1 DEF ModbusInv, PendingInv
      <3>2. PICK n \in Nat, low \in Int, high \in Int :
              /\ n = counted.timed + 1
              /\ low = LowerOf(counted.min_ms, ms) /\ high = HigherOf(counted.max_ms, ms)
        BY <1>11, <1>13, <3>1 DEF Relationship, LowerOf, HigherOf
      <3>3. row = [counted EXCEPT !.timed = n, !.min_ms = low, !.max_ms = high]
        BY <2>2, <3>2 DEF Timed
      <3>4. counted \in Relationship
        BY <1>11, <1>13
      <3>5. QED
        BY <3>2, <3>3, <3>4 DEF Relationship
    <2>4. row.requests - (row.timed + row.missing)
            = rels[r].requests - (rels[r].timed + rels[r].missing) + -1
      BY <1>11, <1>13, <2>3 DEF Relationship
    <2>5. -1 \in Int /\ row \in Relationship /\ relationships' = [rels EXCEPT ![r] = row]
      BY <1>13, <2>2, <2>3
    <2>6. QED
      BY <1>10, <1>13, <2>1, <2>4, <2>5, Zenon
  <1>14. QED
    BY <1>8, <1>9, <1>12, <1>13

\* Both columns and the requests still awaited, over all relationships.
LEMMA BalancedMeans == Balanced(relationships, pending) => RequestsAccounted
  <1> SUFFICES ASSUME Balanced(relationships, pending) PROVE RequestsAccounted
    OBVIOUS
  <1>1. PICK D, a, b, c, d, e :
          /\ D = DOMAIN relationships
          /\ a = [r \in DOMAIN relationships |-> relationships[r].timed]
          /\ b = [r \in DOMAIN relationships |-> relationships[r].missing]
          /\ c = [r \in DOMAIN relationships |-> relationships[r].requests]
          /\ d = [r \in DOMAIN relationships |-> relationships[r].timed + relationships[r].missing]
          /\ e = Owed(relationships)
    OBVIOUS
  <1>2. IsFiniteSet(D)
    BY <1>1 DEF Balanced
  <1>3. \A r \in D : /\ a[r] \in Int /\ b[r] \in Int /\ d[r] = a[r] + b[r]
                     /\ d[r] \in Int /\ e[r] \in Int /\ c[r] = d[r] + e[r]
    <2>1. ASSUME NEW r \in D
          PROVE  /\ a[r] \in Int /\ b[r] \in Int /\ d[r] = a[r] + b[r]
                 /\ d[r] \in Int /\ e[r] \in Int /\ c[r] = d[r] + e[r]
      <3>1. PICK row \in Relationship : row = relationships[r]
        BY <1>1 DEF Balanced
      <3>2. /\ a[r] = row.timed /\ b[r] = row.missing /\ c[r] = row.requests
            /\ d[r] = row.timed + row.missing /\ e[r] = row.requests - (row.timed + row.missing)
        BY <1>1, <3>1 DEF Owed
      <3>3. QED
        BY <3>2 DEF Relationship
    <2>2. QED
      BY <2>1
  <1>4. SumFunctionOnSet(d, D) = SumFunctionOnSet(a, D) + SumFunctionOnSet(b, D)
    BY <1>2, <1>3, SumPlus
  <1>5. SumFunctionOnSet(c, D) = SumFunctionOnSet(d, D) + SumFunctionOnSet(e, D)
    BY <1>2, <1>3, SumPlus
  <1>6. /\ SumFunctionOnSet(a, D) \in Int /\ SumFunctionOnSet(b, D) \in Int
        /\ SumFunctionOnSet(e, D) \in Int
    BY <1>2, <1>3, SumType
  <1>7. PICK n : n = Cardinality(DOMAIN pending) /\ n \in Nat /\ n <= SumFunctionOnSet(e, D)
    BY <1>1, FS_CardinalityType DEF Balanced, Debt
  <1>8. SumFunctionOnSet(a, D) + SumFunctionOnSet(b, D) + n <= SumFunctionOnSet(c, D)
    BY <1>4, <1>5, <1>6, <1>7
  <1>9. /\ FoldFunction(+, 0, [r \in DOMAIN relationships |-> relationships[r].timed])
             = SumFunctionOnSet(a, D)
        /\ FoldFunction(+, 0, [r \in DOMAIN relationships |-> relationships[r].missing])
             = SumFunctionOnSet(b, D)
        /\ FoldFunction(+, 0, [r \in DOMAIN relationships |-> relationships[r].requests])
             = SumFunctionOnSet(c, D)
    BY <1>1 DEF FoldFunction, SumFunctionOnSet
  <1>10. QED
    BY <1>7, <1>8, <1>9 DEF RequestsAccounted

\* Every step keeps the balance.
LEMMA BalancedStep ==
  ModbusInv /\ Balanced(relationships, pending) /\ [ModbusNext]_<<listenerVars, modbusVars>>
     => Balanced(relationships, pending)'
  <1> SUFFICES ASSUME ModbusInv, Balanced(relationships, pending),
                      [ModbusNext]_<<listenerVars, modbusVars>>
               PROVE  Balanced(relationships, pending)'
    OBVIOUS
  <1>1. CASE UNCHANGED modbusVars
    <2>1. relationships' = relationships /\ pending' = pending
      BY <1>1 DEF modbusVars
    <2>2. QED
      BY <2>1
  <1>2. CASE HandleRequest
    BY <1>2, RequestBalanced
  <1>3. CASE HandleResponse
    BY <1>3, ResponseBalanced
  <1>4. CASE GetModbusStats
    <2>1. clock \in Int
      BY DEF ModbusInv, TimeInv
    <2>2. Balanced(CountMissing(clock), Unanswered(clock))
      BY <2>1, ExpiryKeepsBalance
    <2>3. QED
      BY <1>4, <2>2 DEF GetModbusStats
  <1>5. CASE ResetModbus
    <2>1. relationships' = <<>> /\ pending' = <<>>
      BY <1>5 DEF ResetModbus
    <2>2. QED
      BY <2>1, EmptyBalanced
  <1>6. QED
    BY <1>1, <1>2, <1>3, <1>4, <1>5
    DEF ModbusNext, ReceiveModbus, modbusVars, listenerVars

\* A request is accounted for at most once, however many relationships and
\* requests there are: every handler of modbus_traffic.py keeps the balance of
\* what the rows owe and what is awaited.
THEOREM RequestsAreAccounted == ModbusSpec => []RequestsAccounted
  <1>1. ListenerInit /\ ModbusInit => ModbusInv /\ Balanced(relationships, pending)
    <2>1. ModbusInit => Balanced(relationships, pending)
      BY EmptyBalanced DEF ModbusInit
    <2>2. QED
      BY <2>1, ModbusInvInit
  <1>2. QED
    BY <1>1, ModbusInvNext, BalancedStep, BalancedMeans, PTL DEF ModbusSpec
=============================================================================
