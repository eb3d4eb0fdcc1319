---------------------------- MODULE ClientProofs ----------------------------
(***************************************************************************)
(* Proofs about one call of the S7 client (S7Client.tla) and one of the    *)
(* Modbus client (ModbusClient.tla), for any tag, any number of objects    *)
(* and of answers on their way, and whatever the device sends; and about   *)
(* the PROFINET scan (ProfinetScan.tla), for any responses.                *)
(***************************************************************************)
EXTENDS S7Client, ModbusClient, ProfinetScan, FoldTheorems

(* The S7 client. *)

Connected == {"setup", "module", "component", "read"}

S7TypeOK ==
    /\ s7 \in [pc : {"idle", "attempt", "negotiate", "done"} \cup Connected,
               tag : Tag \cup {Identify}, attempt : 0..2,
               raised : BOOLEAN, connected : BOOLEAN,
               result : {"none", "failed", "not confirmed", "no setup", "no value", "ok"}]
    /\ confirmed \in BOOLEAN

\* The open socket is that of the attempt under way.
SocketOfAttempt ==
    /\ S7At("negotiate") \/ s7.pc \in Connected => sockets = {s7.attempt}
    /\ s7.pc \in {"idle", "attempt", "done"} => sockets = {}

\* The PLC has confirmed where the call talks to it, and before that it has not.
ConfirmedWhenConnected ==
    /\ s7.pc \in Connected => confirmed
    /\ s7.pc \in {"idle", "attempt", "negotiate"} => ~confirmed
    /\ s7.connected => confirmed /\ S7At("done")
    /\ S7At("done") /\ ~confirmed =>
          s7.attempt = 2 /\ s7.result \in {"failed", "not confirmed"}

S7Inv == S7TypeOK /\ SocketOfAttempt /\ ConfirmedWhenConnected

-----------------------------------------------------------------------------
(* The Modbus client. *)

Id == 0..(IdModulus - 1)
Bodies == [kind : {"unusable", "exception", "values", "part"},
           objects : SUBSET Nat, more : BOOLEAN, next : Nat]
Requests == [id : Id, object_id : Nat]
Answers == [id : Id, nr : Nat, body : Bodies]

ModbusTypeOK ==
    /\ transaction_id \in Id
    /\ call \in [pc : {"idle", "request", "connect", "receive", "done"},
                 function : {"read", "identify"}, id : Id, sent : 0..MaxRequests,
                 object_id : Nat, objects : SUBSET Nat,
                 result : {"none", "error", "exception", "ok"}]
    /\ asked \in Seq(Requests) /\ wire \in Seq(Answers)
    /\ others \in 0..MaxOthers
    /\ plain \in BOOLEAN

\* How many ids were taken after this one when the counter is at t.
AgeAt(t, id) == IF id <= t THEN t - id ELSE t - id + IdModulus
Age(id) == AgeAt(transaction_id, id)

\* The ids of the requests are all from this call's time, the later the younger.
IdsFresh ==
    /\ \A i \in DOMAIN asked : Age(asked[i].id) < call.sent + others
    /\ \A i, j \in DOMAIN asked : i < j => Age(asked[j].id) < Age(asked[i].id)
    /\ call.sent > 0 => Age(call.id) < call.sent + others
    /\ call.sent > Len(asked) => \A i \in DOMAIN asked : Age(call.id) < Age(asked[i].id)

\* Where the call is: what it has sent and what it waits for.
CallFits ==
    /\ At("idle") => /\ call.sent = 0 /\ asked = <<>> /\ wire = <<>>
                     /\ call.object_id = 0 /\ call.objects = {}
    /\ At("request") => /\ call.sent = Len(asked) /\ call.sent < MaxRequests
                        /\ call.function = "read" => call.sent = 0
    /\ At("connect") => /\ asked = <<>>
                        /\ call.sent = IF call.function = "read" THEN 1 ELSE 0
    /\ At("receive") => /\ asked # <<>> /\ call.sent = Len(asked)
                        /\ asked[Len(asked)] = [id |-> call.id, object_id |-> call.object_id]
    /\ ~At("done") => call.result = "none"

\* An answer is one to the request whose number and id it has, and conforms if all do.
WireFits ==
    \A i \in DOMAIN wire :
        /\ wire[i].nr \in DOMAIN asked
        /\ wire[i].id = asked[wire[i].nr].id
        /\ call.function = "read" => wire[i].body.kind # "part"
        /\ plain => wire[i].body \in Conforming(asked[wire[i].nr].object_id)

\* As long as the device conforms, the objects come one after the other, and at
\* least one with every request.
ObjectsSoFar ==
    plain /\ call.function = "identify" /\ ~At("done") =>
        /\ call.object_id \in Object
        /\ call.objects = 0..(call.object_id - 1)
        /\ call.sent <= call.object_id + (IF At("receive") THEN 1 ELSE 0)

ModbusInv ==
    /\ ModbusTypeOK /\ IdsFresh /\ CallFits /\ WireFits /\ ObjectsSoFar
    /\ ~astray /\ AnswersExact

-----------------------------------------------------------------------------
\* Before a call there is no connection.
LEMMA InitS7Inv == S7Init => S7Inv
  <1> SUFFICES ASSUME S7Init PROVE S7Inv
    OBVIOUS
  <1>1. S7TypeOK
    <2>1. s7 \in [pc : {"idle", "attempt", "negotiate", "done"} \cup Connected,
                  tag : Tag \cup {Identify}, attempt : 0..2,
                  raised : BOOLEAN, connected : BOOLEAN,
                  result : {"none", "failed", "not confirmed", "no setup", "no value", "ok"}]
      BY DEF S7Init
    <2>2. QED
      BY <2>1 DEF S7Init, S7TypeOK
  <1>2. SocketOfAttempt /\ ConfirmedWhenConnected
    BY DEF S7Init, SocketOfAttempt, ConfirmedWhenConnected, S7At, Connected
  <1>3. QED
    BY <1>1, <1>2 DEF S7Inv

\* There is a second attempt, and no third.
LEMMA NextAttempt == \A n \in 0..2 : n < 2 => n + 1 \in 0..2
  OBVIOUS

\* Opening and negotiating the connection keeps the invariant.
LEMMA OpenKeepsS7Inv ==
  ASSUME S7Inv, (\E tag \in Tag \cup {Identify} : BeginS7(tag)) \/ OpenSocket
                \/ Confirmed \/ NotConfirmed \/ GiveUp
  PROVE  S7Inv'
  <1> USE DEF S7Inv, S7TypeOK, SocketOfAttempt, ConfirmedWhenConnected,
              S7At, Connected
  <1>1. ASSUME NEW tag \in Tag \cup {Identify}, BeginS7(tag) PROVE S7Inv'
    BY <1>1 DEF BeginS7
  <1>2. ASSUME OpenSocket PROVE S7Inv'
    <2>1. S7TypeOK'
      <3>1. s7.attempt + 1 \in 0..2
        <4>1. s7.attempt \in 0..2
          OBVIOUS
        <4>2. s7.attempt < 2
          BY <1>2 DEF OpenSocket
        <4>3. QED
          BY <4>1, <4>2, NextAttempt, Zenon
      <3>2. QED
        BY <1>2, <3>1 DEF OpenSocket
    <2>2. SocketOfAttempt'
      BY <1>2 DEF OpenSocket
    <2>3. ConfirmedWhenConnected'
      BY <1>2 DEF OpenSocket
    <2>4. QED
      BY <2>1, <2>2, <2>3
  <1>3. ASSUME Confirmed PROVE S7Inv'
    BY <1>3 DEF Confirmed
  <1>4. ASSUME NotConfirmed PROVE S7Inv'
    BY <1>4 DEF NotConfirmed, AfterOSError
  <1>5. ASSUME GiveUp PROVE S7Inv'
    BY <1>5 DEF GiveUp, S7Return
  <1> HIDE DEF S7Inv
  <1>6. QED
    BY <1>1, <1>2, <1>3, <1>4, <1>5

\* So do the requests over it and their failures.
LEMMA TalkKeepsS7Inv ==
  ASSUME S7Inv, Broken \/ Setup \/ ReadModule \/ ReadComponent \/ ReadVar
  PROVE  S7Inv'
  <1> USE DEF S7Inv, S7TypeOK, SocketOfAttempt, ConfirmedWhenConnected,
              S7At, Connected
  <1>1. ASSUME Broken PROVE S7Inv'
    BY <1>1 DEF Broken, S7Return
  <1>2. ASSUME Setup PROVE S7Inv'
    BY <1>2, ZenonT(60) DEF Setup, S7Return
  <1>3. ASSUME ReadModule PROVE S7Inv'
    BY <1>3 DEF ReadModule
  <1>4. ASSUME ReadComponent PROVE S7Inv'
    BY <1>4 DEF ReadComponent, S7Return
  <1>5. ASSUME ReadVar PROVE S7Inv'
    <2>1. PICK result : result \in {"ok", "no value"} /\ S7Return(result, TRUE)
      BY <1>5 DEF ReadVar, ParseReadVar
    <2>2. QED
      BY <1>5, <2>1 DEF ReadVar, S7Return
  <1> HIDE DEF S7Inv
  <1>6. QED
    BY <1>1, <1>2, <1>3, <1>4, <1>5

\* Whatever the PLC sends or breaks off.
LEMMA S7Invariant == S7Spec => []S7Inv
  <1>1. S7Inv /\ S7Next => S7Inv'
    BY OpenKeepsS7Inv, TalkKeepsS7Inv DEF S7Next, S7Thread
  <1>2. ASSUME S7Inv, UNCHANGED s7Vars PROVE S7Inv'
    <2>1. S7TypeOK' /\ SocketOfAttempt'
      BY <1>2 DEF S7Inv, S7TypeOK, SocketOfAttempt, S7At, s7Vars
    <2>2. ConfirmedWhenConnected'
      BY <1>2 DEF S7Inv, ConfirmedWhenConnected, S7At, s7Vars
    <2>3. QED
      BY <2>1, <2>2 DEF S7Inv
  <1>3. QED
    BY <1>1, <1>2, InitS7Inv, PTL DEF S7Spec

(* A call of identify() or read_tag() never holds two connections and       *)
(* leaves none open; without a confirmation from the PLC it fails only      *)
(* after both TSAPs, also when the first attempt raised, and it says        *)
(* connected only of a PLC that confirmed (_open_and_negotiate_cotp and the *)
(* finally clauses of s7_diag.py).                                          *)
THEOREM S7VerdictHolds == S7Spec => []S7Verdict
  <1>1. S7Inv => S7Verdict
    BY DEF S7Inv, S7TypeOK, SocketOfAttempt, ConfirmedWhenConnected, S7Verdict, S7At,
           Connected
  <1>2. QED
    BY <1>1, S7Invariant, PTL

-----------------------------------------------------------------------------
\* Ids start again at 0.
LEMMA Wraps ==
  ASSUME NEW M \in Nat, NEW t \in 0..(M - 1)
  PROVE  (t + 1) % M = IF t + 1 = M THEN 0 ELSE t + 1
  OBVIOUS

\* Ages tell ids apart; when one more id is taken it has age 0, and every other
\* gets one older, unless it is the oldest possible.
LEMMA Ages ==
  ASSUME NEW t \in Id, NEW id \in Id
  PROVE  /\ AgeAt(t, id) \in Id
         /\ \A i2 \in Id : AgeAt(t, i2) = AgeAt(t, id) => i2 = id
         /\ (t + 1) % IdModulus \in Id
         /\ AgeAt((t + 1) % IdModulus, (t + 1) % IdModulus) = 0
         /\ AgeAt(t, id) + 1 < IdModulus =>
               AgeAt((t + 1) % IdModulus, id) = AgeAt(t, id) + 1
  <1>1. IdModulus \in Nat
    BY ModbusAssumption
  <1>2. PICK u : u = (t + 1) % IdModulus
    OBVIOUS
  <1>3. u = IF t + 1 = IdModulus THEN 0 ELSE t + 1
    BY <1>1, <1>2, Wraps DEF Id
  <1> HIDE <1>2
  <1>4. /\ AgeAt(t, id) \in Id
        /\ \A i2 \in Id : AgeAt(t, i2) = AgeAt(t, id) => i2 = id
    BY <1>1 DEF Id, AgeAt
  <1>5. u \in Id /\ AgeAt(u, u) = 0
    BY <1>1, <1>3 DEF Id, AgeAt
  <1>6. AgeAt(t, id) + 1 < IdModulus => AgeAt(u, id) = AgeAt(t, id) + 1
    BY <1>1, <1>3 DEF Id, AgeAt
  <1>7. QED
    BY <1>2, <1>4, <1>5, <1>6

\* One more at the end of a sequence.
LEMMA Appended ==
  ASSUME NEW S, NEW s \in Seq(S), NEW e \in S
  PROVE  /\ Len(s) \in Nat /\ DOMAIN s = 1..Len(s)
         /\ Append(s, e) \in Seq(S) /\ Len(Append(s, e)) = Len(s) + 1
         /\ DOMAIN Append(s, e) = 1..(Len(s) + 1)
         /\ \A i \in DOMAIN s : Append(s, e)[i] = s[i]
         /\ Append(s, e)[Len(s) + 1] = e
  OBVIOUS

\* The first one taken from a sequence.
LEMMA Popped ==
  ASSUME NEW S, NEW s \in Seq(S), s # <<>>
  PROVE  /\ 1 \in DOMAIN s /\ Head(s) = s[1] /\ Head(s) \in S
         /\ Tail(s) \in Seq(S)
         /\ \A i \in DOMAIN Tail(s) : i + 1 \in DOMAIN s /\ Tail(s)[i] = s[i + 1]
  OBVIOUS

\* The fields of a body.
LEMMA BodyFields ==
  ASSUME NEW kind \in {"unusable", "exception", "values", "part"},
         NEW objects \in SUBSET Nat, NEW more \in BOOLEAN, NEW next \in Nat
  PROVE  /\ Body(kind, objects, more, next) \in Bodies
         /\ Body(kind, objects, more, next).kind = kind
         /\ Body(kind, objects, more, next).objects = objects
         /\ Body(kind, objects, more, next).more = more
         /\ Body(kind, objects, more, next).next = next
  BY DEF Body, Bodies

\* A body without objects.
LEMMA BareFields ==
  ASSUME NEW kind \in {"unusable", "exception", "values", "part"}
  PROVE  /\ Bare(kind) \in Bodies /\ Bare(kind).kind = kind
         /\ Bare(kind).more = FALSE
  BY DEF Bare, Body, Bodies

\* The bodies a device sends; only an identification comes in parts.
LEMMA BodiesTyped ==
  ASSUME NEW o \in Nat, NEW b \in Conforming(o) \cup Misbehaving(o)
  PROVE  b \in Bodies /\ (call.function = "read" => b.kind # "part")
  <1>1. CASE call.function = "read"
    <2>1. b \in {Bare("values"), Bare("exception"), Bare("unusable")}
      BY <1>1 DEF Conforming, Misbehaving
    <2>2. QED
      BY <2>1, BareFields
  <1>2. CASE call.function # "read" /\ b \in Conforming(o)
    <2>1. NumObjects \in Nat
      BY ModbusAssumption
    <2>2. CASE b = Bare("exception")
      BY <1>2, <2>2, BareFields
    <2>3. CASE b = Body("part", o..(NumObjects - 1), FALSE, 0)
      <3>1. o..(NumObjects - 1) \in SUBSET Nat
        BY <2>1
      <3>2. QED
        BY <1>2, <2>3, <3>1, BodyFields
    <2>4. ASSUME NEW u \in o..(NumObjects - 2), b = Body("part", o..u, TRUE, u + 1)
          PROVE  b \in Bodies
      <3>1. o..u \in SUBSET Nat /\ u + 1 \in Nat
        BY <2>1
      <3>2. QED
        BY <2>4, <3>1, BodyFields
    <2>5. QED
      BY <1>2, <2>2, <2>3, <2>4 DEF Conforming
  <1>3. CASE call.function # "read" /\ b \in Misbehaving(o)
    <2>1. CASE b \in {Bare("unusable"), Bare("part")}
      BY <1>3, <2>1, BareFields
    <2>2. ASSUME NEW n \in Nat, b = Body("part", {o}, TRUE, n)
          PROVE  b \in Bodies
      <3>1. {o} \in SUBSET Nat /\ TRUE \in BOOLEAN
        OBVIOUS
      <3>2. QED
        BY <2>2, <3>1, BodyFields, Zenon
    <2>3. (IF o = 0 THEN 1 ELSE 0) \in Nat
      OBVIOUS
    <2>4. QED
      BY <1>3, <2>1, <2>2, <2>3 DEF Misbehaving
  <1>4. QED
    BY <1>1, <1>2, <1>3

\* The start of a call.
LEMMA ModbusInvInit == ModbusClientInit => ModbusInv
  <1> SUFFICES ASSUME ModbusClientInit PROVE ModbusInv
    OBVIOUS
  <1>1. ModbusTypeOK
    BY ModbusAssumption DEF ModbusClientInit, ModbusTypeOK, Id
  <1>2. IdsFresh /\ WireFits
    BY DEF ModbusClientInit, IdsFresh, WireFits
  <1>3. CallFits
    BY DEF ModbusClientInit, CallFits, At
  <1>4. ObjectsSoFar /\ ~astray /\ AnswersExact
    BY ModbusAssumption DEF ModbusClientInit, ObjectsSoFar, AnswersExact
  <1>5. QED
    BY <1>1, <1>2, <1>3, <1>4 DEF ModbusInv

\* Only the answer to the latest request has its id.
LEMMA OwnIsLatest ==
  ASSUME ModbusInv, At("receive"), NEW i \in DOMAIN wire, OwnAnswer(wire[i])
  PROVE  wire[i].nr = Len(asked)
  <1>1. PICK n, l : n = wire[i].nr /\ l = Len(asked)
    OBVIOUS
  <1>2. asked \in Seq(Requests) /\ transaction_id \in Id
    BY DEF ModbusInv, ModbusTypeOK
  <1>3. n \in 1..l /\ l \in Nat
    BY <1>1, <1>2 DEF ModbusInv, WireFits
  <1>4. asked[n].id = call.id /\ asked[l].id = call.id
    BY <1>1 DEF ModbusInv, WireFits, CallFits, OwnAnswer
  <1>5. n < l => Age(asked[l].id) < Age(asked[n].id)
    <2>1. n \in DOMAIN asked /\ l \in DOMAIN asked
      BY <1>1, <1>2, <1>3
    <2>2. QED
      BY <2>1 DEF ModbusInv, IdsFresh
  <1>6. Age(call.id) \in Nat
    <2>1. call.id \in Id
      BY DEF ModbusInv, ModbusTypeOK
    <2>2. Age(call.id) \in Id
      BY <1>2, <2>1, Ages DEF Age
    <2>3. QED
      BY <2>2, ModbusAssumption DEF Id
  <1>7. QED
    BY <1>1, <1>3, <1>4, <1>5, <1>6

\* What taking an answer does to the call.
LEMMA Judgement ==
  ASSUME ModbusInv, Receive
  PROVE  /\ wire \in Seq(Answers) /\ wire # <<>> /\ wire[1] \in Answers
         /\ 1 \in DOMAIN wire /\ ~astray'
         /\ \/ call' = Ended(call, "error")
            \/ call' = Ended(call, "exception")
            \/ /\ wire[1].body.kind = "values" /\ wire[1].nr = Len(asked)
               /\ call' = Ended(call, "ok")
            \/ /\ wire[1].body.kind = "part" /\ wire[1].nr = Len(asked)
               /\ call' = Collected(wire[1].body)
  <1>1. wire \in Seq(Answers) /\ wire # <<>>
    BY DEF ModbusInv, ModbusTypeOK, Receive
  <1>2. 1 \in DOMAIN wire /\ Head(wire) = wire[1] /\ wire[1] \in Answers
    BY <1>1, Popped
  <1>3. OwnAnswer(wire[1]) => wire[1].nr = Len(asked)
    BY <1>2, OwnIsLatest DEF Receive
  <1>4. ~astray'
    BY <1>2, <1>3 DEF Receive, ModbusInv
  <1>5. wire[1].body.kind \in {"unusable", "exception", "values", "part"}
    BY <1>2 DEF Answers, Bodies
  <1>6. call' = Judged(wire[1])
    BY <1>2 DEF Receive
  <1>7. CASE ~OwnAnswer(wire[1]) \/ wire[1].body.kind = "unusable"
    BY <1>1, <1>2, <1>4, <1>6, <1>7 DEF Judged
  <1>8. CASE OwnAnswer(wire[1]) /\ wire[1].body.kind = "exception"
    BY <1>1, <1>2, <1>4, <1>6, <1>8 DEF Judged
  <1>9. CASE OwnAnswer(wire[1]) /\ wire[1].body.kind = "values"
    BY <1>1, <1>2, <1>3, <1>4, <1>6, <1>9 DEF Judged
  <1>10. CASE OwnAnswer(wire[1]) /\ wire[1].body.kind = "part"
    BY <1>1, <1>2, <1>3, <1>4, <1>6, <1>10 DEF Judged
  <1>11. QED
    BY <1>5, <1>7, <1>8, <1>9, <1>10

\* What is on the wire after that.
LEMMA WireShorter ==
  ASSUME ModbusInv, Receive
  PROVE  /\ wire' \in Seq(Answers)
         /\ \A i \in DOMAIN wire' : \E j \in DOMAIN wire : wire'[i] = wire[j]
  <1>1. wire \in Seq(Answers) /\ wire # <<>>
    BY Judgement
  <1>2. wire' = <<>> \/ wire' = Tail(wire)
    BY DEF Receive
  <1>3. CASE wire' = <<>>
    BY <1>3
  <1>4. CASE wire' = Tail(wire)
    <2>1. /\ Tail(wire) \in Seq(Answers)
          /\ \A i \in DOMAIN Tail(wire) : i + 1 \in DOMAIN wire /\ Tail(wire)[i] = wire[i + 1]
      BY <1>1, Popped
    <2>2. QED
      BY <1>4, <2>1, Zenon
  <1>5. QED
    BY <1>2, <1>3, <1>4

\* Types.
LEMMA ModbusTypeNext == ASSUME ModbusInv, ModbusClientNext PROVE ModbusTypeOK'
  <1> USE DEF ModbusTypeOK, At
  <1>1. ModbusTypeOK /\ NextId \in Id
    BY Ages DEF ModbusInv, NextId
  <1>2. ASSUME Begin("read") \/ Begin("identify") PROVE ModbusTypeOK'
    BY <1>1, <1>2 DEF Begin
  <1>3. ASSUME NextRequest PROVE ModbusTypeOK'
    <2>1. call.sent + 1 \in 0..MaxRequests
      <3>1. call.sent \in 0..MaxRequests /\ call.sent < MaxRequests
        BY <1>1, <1>3 DEF ModbusInv, CallFits, NextRequest
      <3>2. QED
        BY <3>1, ModbusAssumption
    <2>2. PICK k : k = [call EXCEPT !.id = NextId, !.sent = @ + 1]
      OBVIOUS
    <2>3. /\ k \in [pc : {"idle", "request", "connect", "receive", "done"},
                    function : {"read", "identify"}, id : Id, sent : 0..MaxRequests,
                    object_id : Nat, objects : SUBSET Nat,
                    result : {"none", "error", "exception", "ok"}]
          /\ k.id = NextId /\ k.object_id = call.object_id
      BY <1>1, <2>1, <2>2
    <2>4. call' \in {[k EXCEPT !.pc = "connect"], [k EXCEPT !.pc = "receive"]}
      BY <1>3, <2>2 DEF NextRequest, SendAll
    <2>5. asked' = asked \/ asked' = Append(asked, [id |-> NextId, object_id |-> call.object_id])
      BY <1>3, <2>2, <2>3 DEF NextRequest, SendAll
    <2>6. asked' \in Seq(Requests)
      <3>1. [id |-> NextId, object_id |-> call.object_id] \in Requests
        BY <1>1 DEF Requests
      <3>2. QED
        BY <1>1, <2>5, <3>1, Appended
    <2>7. QED
      BY <1>1, <1>3, <2>3, <2>4, <2>6 DEF NextRequest
  <1>4. ASSUME OtherRequest PROVE ModbusTypeOK'
    <2>1. others' \in 0..MaxOthers
      BY <1>1, <1>4, ModbusAssumption DEF OtherRequest
    <2>2. QED
      BY <1>1, <1>4, <2>1 DEF OtherRequest
  <1>5. ASSUME ConnectTo PROVE ModbusTypeOK'
    <2>1. asked' \in Seq(Requests)
      <3>1. [id |-> call.id, object_id |-> call.object_id] \in Requests
        BY <1>1 DEF Requests
      <3>2. PICK e \in Requests : e = [id |-> call.id, object_id |-> call.object_id]
        BY <3>1
      <3>3. Append(asked, e) \in Seq(Requests)
        BY <1>1, Appended
      <3>4. asked' = asked \/ asked' = Append(asked, e)
        BY <1>5, <3>2 DEF ConnectTo, SendAll
      <3>5. QED
        BY <1>1, <3>3, <3>4
    <2>2. QED
      BY <1>1, <1>5, <2>1 DEF ConnectTo, SendAll, Ended
  <1>6. ASSUME DeviceAnswers PROVE ModbusTypeOK'
    <2>1. PICK i \in DOMAIN asked, good \in BOOLEAN :
             /\ \E b \in IF good THEN Conforming(asked[i].object_id)
                                 ELSE Misbehaving(asked[i].object_id) :
                   wire' = Append(wire, [id |-> asked[i].id, nr |-> i, body |-> b])
             /\ plain' = (plain /\ good)
      BY <1>6 DEF DeviceAnswers
    <2>2. asked[i] \in Requests /\ i \in Nat
      BY <1>1, <2>1
    <2>3. PICK b \in Conforming(asked[i].object_id) \cup Misbehaving(asked[i].object_id) :
             wire' = Append(wire, [id |-> asked[i].id, nr |-> i, body |-> b])
      BY <2>1
    <2>4. [id |-> asked[i].id, nr |-> i, body |-> b] \in Answers
      BY <2>2, BodiesTyped DEF Answers, Requests
    <2>5. wire' \in Seq(Answers)
      BY <1>1, <2>3, <2>4, Appended
    <2>6. plain' \in BOOLEAN
      BY <1>1, <2>1
    <2>7. QED
      BY <1>1, <1>6, <2>5, <2>6 DEF DeviceAnswers
  <1>7. ASSUME Receive PROVE ModbusTypeOK'
    <2>1. wire' \in Seq(Answers)
      BY <1>7, WireShorter
    <2>2. PICK b \in Bodies : b = wire[1].body
      BY <1>7, Judgement DEF Answers
    <2>3. call' \in {Ended(call, "error"), Ended(call, "exception"), Ended(call, "ok"),
                     Collected(b)}
      BY <1>7, <2>2, Judgement
    <2>4. b.objects \in SUBSET Nat /\ b.next \in Nat
      BY <2>2 DEF Bodies
    <2>5. call' \in [pc : {"idle", "request", "connect", "receive", "done"},
                     function : {"read", "identify"}, id : Id, sent : 0..MaxRequests,
                     object_id : Nat, objects : SUBSET Nat,
                     result : {"none", "error", "exception", "ok"}]
      BY <1>1, <2>3, <2>4 DEF Ended, Collected
    <2>6. QED
      BY <1>1, <1>7, <2>1, <2>5 DEF Receive
  <1>8. ASSUME NoAnswer PROVE ModbusTypeOK'
    <2>1. wire' \in Seq(Answers)
      BY <1>8 DEF NoAnswer
    <2>2. call' = [call EXCEPT !.pc = "done", !.result = "error"]
      BY <1>8 DEF NoAnswer, Ended
    <2>3. QED
      BY <1>1, <1>8, <2>1, <2>2 DEF NoAnswer
  <1> HIDE DEF ModbusTypeOK
  <1>9. QED
    BY <1>2, <1>3, <1>4, <1>5, <1>6, <1>7, <1>8 DEF ModbusClientNext, ModbusThread

\* The ids are ids, and there are never as many as the counter has values.
LEMMA IdFacts ==
  ASSUME ModbusInv
  PROVE  /\ transaction_id \in Id /\ call.id \in Id
         /\ \A i \in DOMAIN asked : asked[i].id \in Id
         /\ asked \in Seq(Requests) /\ Len(asked) \in Nat /\ DOMAIN asked = 1..Len(asked)
         /\ call.sent \in Nat /\ others \in Nat
         /\ call.sent + others < IdModulus /\ IdModulus \in Nat
  <1>1. asked \in Seq(Requests) /\ transaction_id \in Id /\ call.id \in Id
    BY DEF ModbusInv, ModbusTypeOK
  <1>2. \A i \in DOMAIN asked : asked[i].id \in Id
    <2>1. \A i \in DOMAIN asked : asked[i] \in Requests
      BY <1>1
    <2>2. QED
      BY <2>1 DEF Requests
  <1>3. call.sent \in 0..MaxRequests /\ others \in 0..MaxOthers
    BY DEF ModbusInv, ModbusTypeOK
  <1>4. /\ call.sent \in Nat /\ others \in Nat
        /\ call.sent + others < IdModulus /\ IdModulus \in Nat
    BY <1>3, ModbusAssumption
  <1>5. QED
    BY <1>1, <1>2, <1>4

\* When the counter moves on, the ids of the call get one older.
LEMMA Older ==
  ASSUME ModbusInv, NEW id \in Id, Age(id) < call.sent + others
  PROVE  AgeAt(NextId, id) = Age(id) + 1 /\ Age(id) \in Nat
  <1>1. /\ Age(id) \in Id
        /\ Age(id) + 1 < IdModulus => AgeAt(NextId, id) = Age(id) + 1
    BY IdFacts, Ages DEF Age, NextId
  <1>2. Age(id) \in Nat /\ Age(id) + 1 < IdModulus
    <2>1. PICK a : a = Age(id)
      OBVIOUS
    <2>2. a \in Id /\ a < call.sent + others
      BY <1>1, <2>1
    <2>3. a \in Nat /\ a + 1 < IdModulus
      BY <2>2, IdFacts DEF Id
    <2>4. QED
      BY <2>1, <2>3
  <1>3. QED
    BY <1>1, <1>2

\* The id just taken is the youngest.
LEMMA Youngest == ASSUME ModbusInv PROVE NextId \in Id /\ AgeAt(NextId, NextId) = 0
  BY IdFacts, Ages DEF NextId

\* Ids stay apart.
LEMMA IdsNext == ASSUME ModbusInv, ModbusClientNext PROVE IdsFresh'
  <1> USE DEF Age
  <1>1. IdsFresh
    BY DEF ModbusInv
  <1>2. ASSUME UNCHANGED <<transaction_id, asked, others>>,
               call'.id = call.id, call'.sent = call.sent
        PROVE  IdsFresh'
    BY <1>1, <1>2 DEF IdsFresh
  <1>3. ASSUME Begin("read") \/ Begin("identify") PROVE IdsFresh'
    BY <1>2, <1>3 DEF Begin, ModbusInv, ModbusTypeOK
  <1>4. ASSUME NextRequest PROVE IdsFresh'
    <2>1. /\ transaction_id' = NextId /\ others' = others
          /\ call.sent = Len(asked)
          /\ call.function = "read" => call.sent = 0
      BY <1>4 DEF NextRequest, ModbusInv, CallFits
    <2>2. call'.id = NextId /\ call'.sent = call.sent + 1
      BY <1>4 DEF NextRequest, SendAll, ModbusInv, ModbusTypeOK
    <2>3. CASE call.function = "read"
      <3>1. asked' = asked /\ DOMAIN asked = {} /\ call.sent = 0
        <4>1. asked' = asked
          BY <1>4, <2>3 DEF NextRequest, ModbusInv, ModbusTypeOK
        <4>2. Len(asked) = 0 /\ DOMAIN asked = 1..Len(asked)
          BY <2>1, <2>3, IdFacts
        <4>3. QED
          BY <2>1, <2>3, <4>1, <4>2
      <3>2. AgeAt(transaction_id', call'.id) < call'.sent + others'
        BY <2>1, <2>2, IdFacts, Youngest
      <3>3. QED
        BY <3>1, <3>2 DEF IdsFresh
    <2>4. CASE call.function = "identify"
      <3>1. PICK e : e = [id |-> NextId, object_id |-> call.object_id]
        OBVIOUS
      <3>2. asked' = Append(asked, e) /\ e.id = NextId
        BY <1>4, <2>4, <3>1 DEF NextRequest, SendAll, ModbusInv, ModbusTypeOK
      <3>3. e \in Requests
        BY <3>1, Youngest DEF Requests, ModbusInv, ModbusTypeOK
      <3>4. PICK l \in Nat :
               /\ l = Len(asked) /\ Len(asked') = l + 1
               /\ DOMAIN asked = 1..l /\ DOMAIN asked' = 1..(l + 1)
               /\ \A i \in 1..l : asked'[i] = asked[i]
               /\ asked'[l + 1] = e
        <4>1. PICK l \in Nat : l = Len(asked) /\ asked \in Seq(Requests)
          BY IdFacts
        <4>2. QED
          BY <3>2, <3>3, <4>1, Appended
      <3>5. \A i \in 1..l : /\ AgeAt(transaction_id', asked'[i].id) = Age(asked[i].id) + 1
                            /\ Age(asked[i].id) \in Nat
                            /\ Age(asked[i].id) < call.sent + others
        BY <1>1, <2>1, <3>4, IdFacts, Older DEF IdsFresh
      <3>6. AgeAt(transaction_id', asked'[l + 1].id) = 0
        BY <2>1, <3>2, <3>4, Youngest
      <3>7. AgeAt(transaction_id', call'.id) = 0
        BY <2>1, <2>2, Youngest
      <3>8. \A i \in DOMAIN asked' : AgeAt(transaction_id', asked'[i].id) < call'.sent + others'
        <4>1. ASSUME NEW i \in 1..l
              PROVE  AgeAt(transaction_id', asked'[i].id) < call'.sent + others'
          BY <2>1, <2>2, <3>5, IdFacts
        <4>2. AgeAt(transaction_id', asked'[l + 1].id) < call'.sent + others'
          BY <2>1, <2>2, <3>6, IdFacts
        <4>3. QED
          BY <3>4, <4>1, <4>2
      <3>9. \A i, j \in DOMAIN asked' :
               i < j => AgeAt(transaction_id', asked'[j].id) < AgeAt(transaction_id', asked'[i].id)
        <4>1. ASSUME NEW i \in 1..l, NEW j \in 1..l, i < j
              PROVE  AgeAt(transaction_id', asked'[j].id) < AgeAt(transaction_id', asked'[i].id)
          <5>1. Age(asked[j].id) < Age(asked[i].id)
            BY <1>1, <3>4, <4>1 DEF IdsFresh
          <5>2. QED
            BY <3>5, <5>1
        <4>2. ASSUME NEW i \in 1..l
              PROVE  AgeAt(transaction_id', asked'[l + 1].id) < AgeAt(transaction_id', asked'[i].id)
          BY <3>5, <3>6
        <4>3. \A i, j \in 1..(l + 1) : i < j => i \in 1..l /\ (j \in 1..l \/ j = l + 1)
          OBVIOUS
        <4>4. QED
          BY <3>4, <4>1, <4>2, <4>3
      <3>10. call'.sent = Len(asked') /\ AgeAt(transaction_id', call'.id) < call'.sent + others'
        <4>1. call.sent = l /\ call'.sent = l + 1
          BY <2>1, <2>2, <3>4
        <4>2. others' \in Nat
          BY <2>1, IdFacts
        <4>3. QED
          BY <3>4, <3>7, <4>1, <4>2
      <3>11. ~(call'.sent > Len(asked'))
        <4>1. call'.sent = l + 1
          BY <2>1, <2>2, <3>4
        <4>2. QED
          BY <3>4, <4>1
      <3>12. QED
        BY <3>8, <3>9, <3>10, <3>11 DEF IdsFresh
    <2>5. QED
      BY <2>3, <2>4 DEF ModbusInv, ModbusTypeOK
  <1>5. ASSUME OtherRequest PROVE IdsFresh'
    <2>1. /\ transaction_id' = NextId /\ others' = others + 1
          /\ call' = call /\ asked' = asked
      BY <1>5 DEF OtherRequest
    <2>2. \A i \in DOMAIN asked : /\ AgeAt(transaction_id', asked[i].id) = Age(asked[i].id) + 1
                                  /\ Age(asked[i].id) \in Nat
                                  /\ Age(asked[i].id) < call.sent + others
      BY <1>1, <2>1, IdFacts, Older DEF IdsFresh
    <2>3. call.sent > 0 => /\ AgeAt(transaction_id', call.id) = Age(call.id) + 1
                           /\ Age(call.id) \in Nat /\ Age(call.id) < call.sent + others
      BY <1>1, <2>1, IdFacts, Older DEF IdsFresh
    <2>4. \A i \in DOMAIN asked : AgeAt(transaction_id', asked[i].id) < call.sent + others'
      BY <2>1, <2>2, IdFacts
    <2>5. ASSUME NEW i \in DOMAIN asked, NEW j \in DOMAIN asked, i < j
          PROVE  AgeAt(transaction_id', asked[j].id) < AgeAt(transaction_id', asked[i].id)
      <3>1. Age(asked[j].id) < Age(asked[i].id)
        BY <1>1, <2>5 DEF IdsFresh
      <3>2. QED
        BY <2>2, <3>1
    <2>6. call.sent > 0 => AgeAt(transaction_id', call.id) < call.sent + others'
      BY <2>1, <2>3, IdFacts
    <2>7. ASSUME call.sent > Len(asked), NEW i \in DOMAIN asked
          PROVE  AgeAt(transaction_id', call.id) < AgeAt(transaction_id', asked[i].id)
      <3>1. Age(call.id) < Age(asked[i].id) /\ call.sent > 0
        BY <1>1, <2>7, IdFacts DEF IdsFresh
      <3>2. QED
        BY <2>2, <2>3, <3>1
    <2>8. QED
      BY <2>1, <2>4, <2>5, <2>6, <2>7 DEF IdsFresh
  <1>6. ASSUME ConnectTo PROVE IdsFresh'
    <2>1. UNCHANGED <<transaction_id, others>> /\ call'.id = call.id /\ call'.sent = call.sent
      BY <1>6 DEF ConnectTo, SendAll, Ended, ModbusInv, ModbusTypeOK
    <2>2. CASE asked' = asked
      BY <1>2, <2>1, <2>2
    <2>3. CASE asked' # asked
      <3>1. PICK e : e = [id |-> call.id, object_id |-> call.object_id]
        OBVIOUS
      <3>2. /\ asked' = Append(asked, e) /\ e.id = call.id
            /\ asked = <<>> /\ call.sent = 1
        BY <1>6, <2>3, <3>1 DEF ConnectTo, SendAll, ModbusInv, CallFits
      <3>3. DOMAIN asked' = {1} /\ asked'[1] = e /\ Len(asked') = 1
        BY <3>2
      <3>4. Age(call.id) < call.sent + others
        BY <1>1, <3>2 DEF IdsFresh
      <3>5. QED
        BY <2>1, <3>2, <3>3, <3>4 DEF IdsFresh
    <2>4. QED
      BY <2>2, <2>3
  <1>7. ASSUME DeviceAnswers PROVE IdsFresh'
    BY <1>2, <1>7 DEF DeviceAnswers
  <1>8. ASSUME Receive PROVE IdsFresh'
    <2>1. call'.id = call.id /\ call'.sent = call.sent
      <3>1. call' \in {Ended(call, "error"), Ended(call, "exception"), Ended(call, "ok"),
                       Collected(wire[1].body)}
        BY <1>8, Judgement
      <3>2. QED
        BY <3>1 DEF Ended, Collected, ModbusInv, ModbusTypeOK
    <2>2. QED
      BY <1>2, <1>8, <2>1 DEF Receive
  <1>9. ASSUME NoAnswer PROVE IdsFresh'
    BY <1>2, <1>9 DEF NoAnswer, Ended, ModbusInv, ModbusTypeOK
  <1> HIDE DEF Age
  <1>10. QED
    BY <1>3, <1>4, <1>5, <1>6, <1>7, <1>8, <1>9 DEF ModbusClientNext, ModbusThread

\* The two ways a part of an identification is taken.
LEMMA CollectedCases ==
  ASSUME NEW b
  PROVE  \/ /\ AskAgain(b)
            /\ Collected(b) = [call EXCEPT !.objects = @ \cup b.objects, !.object_id = b.next,
                                           !.pc = "request"]
         \/ /\ ~AskAgain(b)
            /\ Collected(b) = [call EXCEPT !.objects = @ \cup b.objects, !.pc = "done",
                                           !.result = "ok"]
  BY DEF Collected, Ended

\* Where the call is.
LEMMA CallNext == ASSUME ModbusInv, ModbusClientNext PROVE CallFits'
  <1> USE DEF At
  <1>1. ModbusTypeOK /\ CallFits
    BY DEF ModbusInv
  <1>2. ASSUME Begin("read") \/ Begin("identify") PROVE CallFits'
    <2>1. /\ call.pc = "idle" /\ asked' = asked /\ call.sent = 0 /\ asked = <<>>
          /\ call.result = "none"
      BY <1>1, <1>2 DEF Begin, CallFits
    <2>2. 0 < MaxRequests
      BY ModbusAssumption
    <2>3. /\ call'.sent = 0 /\ call'.result = "none"
          /\ \/ call'.pc = "request" /\ call'.function = "read"
             \/ call'.pc = "connect" /\ call'.function = "identify"
      BY <1>1, <1>2, <2>1 DEF Begin, ModbusTypeOK
    <2>4. QED
      BY <2>1, <2>2, <2>3 DEF CallFits
  <1>3. ASSUME NextRequest PROVE CallFits'
    <2>1. /\ call.sent = Len(asked)
          /\ call.function = "read" => call.sent = 0
          /\ call.result = "none"
      BY <1>1, <1>3 DEF NextRequest, CallFits
    <2>2. CASE call.function = "read"
      <3>1. /\ call'.pc = "connect" /\ call'.function = "read" /\ call'.result = "none"
            /\ call'.sent = call.sent + 1 /\ asked' = asked
        BY <1>1, <1>3, <2>1, <2>2 DEF NextRequest, ModbusTypeOK
      <3>2. asked = <<>> /\ call'.sent = 1
        BY <2>1, <2>2, <3>1, IdFacts
      <3>3. QED
        BY <3>1, <3>2 DEF CallFits
    <2>3. CASE call.function = "identify"
      <3>1. /\ call'.pc = "receive" /\ call'.function = "identify" /\ call'.result = "none"
            /\ call'.sent = call.sent + 1
            /\ call'.id = NextId /\ call'.object_id = call.object_id
        BY <1>1, <1>3, <2>1, <2>3 DEF NextRequest, SendAll, ModbusTypeOK
      <3>2. PICK e : e = [id |-> NextId, object_id |-> call.object_id]
        OBVIOUS
      <3>3. asked' = Append(asked, e) /\ e \in Requests
        BY <1>1, <1>3, <2>3, <3>2, Youngest DEF NextRequest, SendAll, ModbusTypeOK, Requests
      <3>4. Len(asked') = Len(asked) + 1 /\ asked'[Len(asked) + 1] = e /\ Len(asked) \in Nat
        BY <3>3, IdFacts, Appended
      <3>5. asked' # <<>> /\ call'.sent = Len(asked') /\ asked'[Len(asked')] = e
        BY <2>1, <3>1, <3>4
      <3>6. QED
        BY <3>1, <3>2, <3>5 DEF CallFits
    <2>4. QED
      BY <1>1, <2>2, <2>3 DEF ModbusTypeOK
  <1>4. ASSUME OtherRequest \/ DeviceAnswers PROVE CallFits'
    <2>1. call' = call /\ asked' = asked /\ (At("idle") => wire' = wire)
      <3>1. At("idle") => DOMAIN asked = {}
        BY <1>1 DEF CallFits
      <3>2. QED
        BY <1>4, <3>1 DEF OtherRequest, DeviceAnswers
    <2>2. QED
      BY <1>1, <2>1 DEF CallFits
  <1>5. ASSUME ConnectTo PROVE CallFits'
    <2>1. /\ asked = <<>> /\ call.result = "none"
          /\ call.sent = IF call.function = "read" THEN 1 ELSE 0
      BY <1>1, <1>5 DEF ConnectTo, CallFits
    <2>2. CASE call.function = "read" /\ SendAll(call)
      <3>1. PICK e : e = [id |-> call.id, object_id |-> call.object_id]
        OBVIOUS
      <3>2. asked' = Append(<<>>, e)
        BY <2>1, <2>2, <3>1 DEF SendAll
      <3>3. Len(asked') = 1 /\ asked'[1] = e /\ asked' # <<>>
        BY <3>2
      <3>4. /\ call'.pc = "receive" /\ call'.result = "none" /\ call'.sent = 1
            /\ call'.id = call.id /\ call'.object_id = call.object_id
        BY <1>1, <2>1, <2>2 DEF SendAll, ModbusTypeOK
      <3>5. QED
        BY <3>1, <3>3, <3>4 DEF CallFits
    <2>3. CASE /\ call.function = "identify" /\ call' = [call EXCEPT !.pc = "request"]
               /\ UNCHANGED asked
      <3>1. /\ call'.pc = "request" /\ call'.result = "none" /\ call'.sent = 0
            /\ call'.function = "identify"
        BY <1>1, <2>1, <2>3 DEF ModbusTypeOK
      <3>2. 0 < MaxRequests /\ Len(asked') = 0
        BY <2>1, <2>3, ModbusAssumption
      <3>3. QED
        BY <3>1, <3>2 DEF CallFits
    <2>4. CASE call' = Ended(call, "error")
      BY <1>1, <2>4 DEF CallFits, Ended, ModbusTypeOK
    <2>5. QED
      BY <1>5, <2>2, <2>3, <2>4 DEF ConnectTo
  <1>6. ASSUME Receive PROVE CallFits'
    <2>1. asked' = asked /\ At("receive")
      BY <1>6 DEF Receive
    <2>2. CASE call' \in {Ended(call, "error"), Ended(call, "exception"), Ended(call, "ok")}
      BY <1>1, <2>2 DEF CallFits, Ended, ModbusTypeOK
    <2>3. CASE wire[1].body.kind = "part" /\ call' = Collected(wire[1].body)
      <3>1. PICK b : b = wire[1].body
        OBVIOUS
      <3>2. CASE ~AskAgain(b)
        <4> call' = [call EXCEPT !.objects = @ \cup b.objects, !.pc = "done", !.result = "ok"]
          BY <2>3, <3>1, <3>2, CollectedCases
        <4>1. call'.pc = "done"
          BY <1>1 DEF ModbusTypeOK
        <4>2. QED
          BY <4>1 DEF CallFits
      <3>3. CASE AskAgain(b)
        <4> call' = [call EXCEPT !.objects = @ \cup b.objects, !.object_id = b.next,
                                 !.pc = "request"]
          BY <2>3, <3>1, <3>3, CollectedCases
        <4>1. /\ call'.pc = "request" /\ call'.sent = call.sent /\ call'.result = call.result
              /\ call'.function = call.function
          BY <1>1 DEF ModbusTypeOK
        <4>2. call.sent < MaxRequests
          BY <3>3 DEF AskAgain
        <4>3. call.function # "read"
          BY <1>6, <2>3, Judgement DEF ModbusInv, WireFits
        <4>4. call.sent = Len(asked) /\ call.result = "none"
          BY <1>1, <2>1 DEF CallFits
        <4>5. QED
          BY <2>1, <4>1, <4>2, <4>3, <4>4 DEF CallFits
      <3>4. QED
        BY <3>2, <3>3
    <2>4. QED
      BY <1>6, <2>2, <2>3, Judgement
  <1>7. ASSUME NoAnswer PROVE CallFits'
    BY <1>1, <1>7 DEF NoAnswer, CallFits, Ended, ModbusTypeOK
  <1> HIDE DEF At
  <1>8. QED
    BY <1>2, <1>3, <1>4, <1>5, <1>6, <1>7 DEF ModbusClientNext, ModbusThread


\* What is on the wire, as long as requests are only added and answers taken.
LEMMA WireKept ==
  ASSUME WireFits, call'.function = call.function, UNCHANGED plain,
         DOMAIN asked \subseteq DOMAIN asked',
         \A i \in DOMAIN asked : asked'[i] = asked[i],
         \A i \in DOMAIN wire' : \E j \in DOMAIN wire : wire'[i] = wire[j]
  PROVE  WireFits'
  <1>1. SUFFICES ASSUME NEW i \in DOMAIN wire'
                 PROVE  /\ wire'[i].nr \in DOMAIN asked'
                        /\ wire'[i].id = asked'[wire'[i].nr].id
                        /\ call.function = "read" => wire'[i].body.kind # "part"
                        /\ plain => wire'[i].body \in Conforming(asked'[wire'[i].nr].object_id)
    BY DEF WireFits, Conforming
  <1>2. PICK j \in DOMAIN wire : wire'[i] = wire[j]
    OBVIOUS
  <1>3. /\ wire[j].nr \in DOMAIN asked
        /\ wire[j].id = asked[wire[j].nr].id
        /\ call.function = "read" => wire[j].body.kind # "part"
        /\ plain => wire[j].body \in Conforming(asked[wire[j].nr].object_id)
    BY DEF WireFits
  <1>4. asked'[wire[j].nr] = asked[wire[j].nr]
    BY <1>3
  <1>5. QED
    BY <1>2, <1>3, <1>4

\* What is on the wire.
LEMMA WireNext == ASSUME ModbusInv, ModbusClientNext PROVE WireFits'
  <1>1. ModbusTypeOK /\ CallFits /\ WireFits
    BY DEF ModbusInv
  <1>2. ASSUME wire' = <<>> PROVE WireFits'
    BY <1>2 DEF WireFits
  <1>3. ASSUME Begin("read") \/ Begin("identify") PROVE WireFits'
    BY <1>1, <1>2, <1>3 DEF Begin, CallFits
  <1>4. ASSUME NextRequest PROVE WireFits'
    <2>1. wire' = wire /\ UNCHANGED plain /\ call'.function = call.function
      BY <1>1, <1>4 DEF NextRequest, SendAll, ModbusTypeOK
    <2>2. CASE asked' = asked
      BY <1>1, <2>1, <2>2, WireKept
    <2>3. CASE asked' # asked
      <3>1. PICK e : e = [id |-> NextId, object_id |-> call.object_id]
        OBVIOUS
      <3>2. asked' = Append(asked, e) /\ e \in Requests
        BY <1>1, <1>4, <2>3, <3>1, Youngest DEF NextRequest, SendAll, ModbusTypeOK, Requests
      <3>3. /\ DOMAIN asked \subseteq DOMAIN asked'
            /\ \A i \in DOMAIN asked : asked'[i] = asked[i]
        BY <3>2, IdFacts, Appended
      <3>4. QED
        BY <1>1, <2>1, <3>3, WireKept
    <2>4. QED
      BY <2>2, <2>3
  <1>5. ASSUME OtherRequest PROVE WireFits'
    BY <1>1, <1>5, WireKept DEF OtherRequest
  <1>6. ASSUME ConnectTo PROVE WireFits'
    <2>1. wire' = wire /\ UNCHANGED plain /\ call'.function = call.function
      BY <1>1, <1>6 DEF ConnectTo, SendAll, Ended, ModbusTypeOK
    <2>2. asked = <<>>
      BY <1>1, <1>6 DEF ConnectTo, CallFits
    <2>3. DOMAIN asked = {}
      BY <2>2
    <2>4. QED
      BY <1>1, <2>1, <2>3, WireKept
  <1>7. ASSUME DeviceAnswers PROVE WireFits'
    <2>1. PICK i \in DOMAIN asked, good \in BOOLEAN :
             /\ \E b \in IF good THEN Conforming(asked[i].object_id)
                                 ELSE Misbehaving(asked[i].object_id) :
                   wire' = Append(wire, [id |-> asked[i].id, nr |-> i, body |-> b])
             /\ plain' = (plain /\ good)
      BY <1>7 DEF DeviceAnswers
    <2>2. PICK o, id : o = asked[i].object_id /\ id = asked[i].id
      OBVIOUS
    <2>3. asked[i] \in Requests /\ i \in Nat
      BY <1>1, <2>1 DEF ModbusTypeOK
    <2>4. o \in Nat /\ id \in Id
      BY <2>2, <2>3 DEF Requests
    <2>5. PICK b \in Conforming(o) \cup Misbehaving(o) :
             /\ wire' = Append(wire, [id |-> id, nr |-> i, body |-> b])
             /\ plain' => b \in Conforming(o)
      BY <2>1, <2>2
    <2>6. PICK e : e = [id |-> id, nr |-> i, body |-> b]
      OBVIOUS
    <2>7. e \in Answers /\ (call.function = "read" => b.kind # "part")
      BY <2>3, <2>4, <2>6, BodiesTyped DEF Answers
    <2>8. /\ Len(wire) \in Nat /\ DOMAIN wire = 1..Len(wire)
          /\ DOMAIN wire' = 1..(Len(wire) + 1)
          /\ \A j \in DOMAIN wire : wire'[j] = wire[j]
          /\ wire'[Len(wire) + 1] = e
      BY <1>1, <2>5, <2>6, <2>7, Appended DEF ModbusTypeOK
    <2>9. \A j \in DOMAIN wire' : j \in DOMAIN wire \/ wire'[j] = e
      BY <2>8
    <2>10. call' = call /\ asked' = asked /\ (plain' => plain)
      BY <1>7, <2>1 DEF DeviceAnswers
    <2>11. SUFFICES ASSUME NEW j \in DOMAIN wire'
                    PROVE  /\ wire'[j].nr \in DOMAIN asked
                           /\ wire'[j].id = asked[wire'[j].nr].id
                           /\ call.function = "read" => wire'[j].body.kind # "part"
                           /\ plain' => wire'[j].body \in Conforming(asked[wire'[j].nr].object_id)
      BY <2>10 DEF WireFits, Conforming
    <2>12. CASE j \in DOMAIN wire
      BY <1>1, <2>8, <2>10, <2>12 DEF WireFits
    <2>13. CASE wire'[j] = e
      BY <2>1, <2>2, <2>5, <2>6, <2>7, <2>13
    <2>14. QED
      BY <2>9, <2>12, <2>13
  <1>8. ASSUME Receive PROVE WireFits'
    <2>1. call'.function = call.function
      <3>1. call' \in {Ended(call, "error"), Ended(call, "exception"), Ended(call, "ok"),
                       Collected(wire[1].body)}
        BY <1>8, Judgement
      <3>2. QED
        BY <1>1, <3>1 DEF Ended, Collected, ModbusTypeOK
    <2>2. QED
      BY <1>1, <1>8, <2>1, WireShorter, WireKept DEF Receive
  <1>9. ASSUME NoAnswer PROVE WireFits'
    BY <1>2, <1>9 DEF NoAnswer
  <1>10. QED
    BY <1>3, <1>4, <1>5, <1>6, <1>7, <1>8, <1>9 DEF ModbusClientNext, ModbusThread

\* A part that conforms: the rest, or a part with more to come after it.
LEMMA PartOfConforming ==
  ASSUME NEW o \in Object, NEW b \in Conforming(o), b.kind = "part",
         call.function = "identify"
  PROVE  \/ b.objects = o..(NumObjects - 1) /\ b.more = FALSE
         \/ \E u \in o..(NumObjects - 2) :
               b.objects = o..u /\ b.more = TRUE /\ b.next = u + 1
  <1>1. NumObjects \in Nat /\ o \in Nat
    BY ModbusAssumption DEF Object
  <1>2. CASE b = Bare("exception")
    BY <1>2, BareFields
  <1>3. CASE b = Body("part", o..(NumObjects - 1), FALSE, 0)
    BY <1>3 DEF Body
  <1>4. ASSUME NEW u \in o..(NumObjects - 2), b = Body("part", o..u, TRUE, u + 1)
        PROVE  b.objects = o..u /\ b.more = TRUE /\ b.next = u + 1
    BY <1>4 DEF Body
  <1>5. QED
    BY <1>2, <1>3, <1>4 DEF Conforming

\* With a device that conforms, an answer to the latest request either completes the
\* objects, or leads to a further request, which the bound on them allows.
LEMMA PartTaken ==
  ASSUME ModbusInv, At("receive"), plain, call.function = "identify",
         1 \in DOMAIN wire, wire[1].nr = Len(asked), wire[1].body.kind = "part"
  PROVE  \/ ~AskAgain(wire[1].body) /\ call.objects \cup wire[1].body.objects = Object
         \/ /\ AskAgain(wire[1].body) /\ wire[1].body.next \in Object
            /\ call.objects \cup wire[1].body.objects = 0..(wire[1].body.next - 1)
            /\ call.sent <= wire[1].body.next
  <1>1. PICK b, o, n : b = wire[1].body /\ o = call.object_id /\ n = call.sent
    OBVIOUS
  <1>2. asked[wire[1].nr].object_id = o
    BY <1>1 DEF ModbusInv, CallFits
  <1>3. b \in Conforming(o)
    BY <1>1, <1>2 DEF ModbusInv, WireFits
  <1>4. /\ o \in Object /\ call.objects = 0..(o - 1)
        /\ n <= o + 1
    BY <1>1 DEF ModbusInv, ObjectsSoFar, At
  <1>5. NumObjects \in Nat /\ NumObjects <= MaxRequests /\ MaxRequests \in Nat /\ n \in Nat
    BY <1>1, IdFacts, ModbusAssumption
  <1>6. o \in Nat /\ o <= NumObjects - 1
    BY <1>4, <1>5 DEF Object
  <1>7. CASE b.objects = o..(NumObjects - 1) /\ b.more = FALSE
    <2>1. ~AskAgain(b)
      BY <1>7 DEF AskAgain
    <2>2. 0..(o - 1) \cup o..(NumObjects - 1) = 0..(NumObjects - 1)
      BY <1>5, <1>6
    <2>3. QED
      BY <1>1, <1>4, <1>7, <2>1, <2>2 DEF Object
  <1>8. ASSUME NEW u \in o..(NumObjects - 2), b.objects = o..u, b.more = TRUE, b.next = u + 1
        PROVE  /\ AskAgain(b) /\ b.next \in Object
               /\ call.objects \cup b.objects = 0..(b.next - 1)
               /\ n <= b.next
    <2>1. u + 1 # o /\ u + 1 \in Object /\ n <= u + 1 /\ n < MaxRequests /\ u \in Nat
      BY <1>4, <1>5, <1>6 DEF Object
    <2>2. AskAgain(b)
      BY <1>1, <1>8, <2>1 DEF AskAgain
    <2>3. 0..(o - 1) \cup o..u = 0..((u + 1) - 1)
      BY <1>6, <2>1
    <2>4. QED
      BY <1>4, <1>8, <2>1, <2>2, <2>3
  <1>9. QED
    BY <1>1, <1>3, <1>4, <1>7, <1>8, PartOfConforming

\* The objects so far.
LEMMA ObjectsNext == ASSUME ModbusInv, ModbusClientNext PROVE ObjectsSoFar'
  <1> USE DEF At
  <1>1. ModbusTypeOK /\ CallFits /\ ObjectsSoFar
    BY DEF ModbusInv
  <1>2. ASSUME call'.pc = "done" PROVE ObjectsSoFar'
    BY <1>2 DEF ObjectsSoFar
  <1>3. ASSUME Begin("read") \/ Begin("identify") PROVE ObjectsSoFar'
    <2>1. /\ call'.sent = 0 /\ call'.object_id = 0 /\ call'.objects = {}
          /\ call'.pc \in {"request", "connect"}
      BY <1>1, <1>3 DEF Begin, CallFits, ModbusTypeOK
    <2>2. 0 \in Object /\ {} = 0..(0 - 1)
      BY ModbusAssumption DEF Object
    <2>3. QED
      BY <2>1, <2>2 DEF ObjectsSoFar
  <1>4. ASSUME NextRequest PROVE ObjectsSoFar'
    <2>1. /\ call'.sent = call.sent + 1 /\ call'.object_id = call.object_id
          /\ call'.objects = call.objects /\ call'.function = call.function
          /\ call'.function = "identify" => call'.pc = "receive"
          /\ call.pc = "request" /\ plain' = plain
      BY <1>1, <1>4 DEF NextRequest, SendAll, ModbusTypeOK
    <2>2. ASSUME plain, call.function = "identify"
          PROVE  /\ call.object_id \in Object /\ call.objects = 0..(call.object_id - 1)
                 /\ call.sent <= call.object_id
      <3>1. /\ call.object_id \in Object /\ call.objects = 0..(call.object_id - 1)
            /\ call.sent <= call.object_id + 0
        BY <1>1, <2>1, <2>2 DEF ObjectsSoFar
      <3>2. call.object_id \in Nat
        BY <1>1 DEF ModbusTypeOK
      <3>3. QED
        BY <3>1, <3>2
    <2>3. call.sent \in Nat /\ call.object_id \in Nat
      BY <1>1, IdFacts DEF ModbusTypeOK
    <2>4. QED
      BY <2>1, <2>2, <2>3 DEF ObjectsSoFar
  <1>5. ASSUME OtherRequest \/ DeviceAnswers PROVE ObjectsSoFar'
    <2>1. call' = call /\ (plain' => plain)
      <3>1. CASE OtherRequest
        BY <3>1 DEF OtherRequest
      <3>2. CASE DeviceAnswers
        <4>1. \E good \in BOOLEAN : plain' = (plain /\ good)
          BY <3>2 DEF DeviceAnswers
        <4>2. QED
          BY <3>2, <4>1 DEF DeviceAnswers
      <3>3. QED
        BY <1>5, <3>1, <3>2
    <2>2. QED
      BY <1>1, <2>1 DEF ObjectsSoFar
  <1>6. ASSUME ConnectTo PROVE ObjectsSoFar'
    <2>1. CASE call.function = "read" /\ SendAll(call)
      BY <1>1, <2>1 DEF SendAll, ObjectsSoFar, ModbusTypeOK
    <2>2. CASE call.function = "identify" /\ call' = [call EXCEPT !.pc = "request"]
      BY <1>1, <1>6, <2>2 DEF ConnectTo, ObjectsSoFar, ModbusTypeOK
    <2>3. CASE call' = Ended(call, "error")
      BY <1>1, <1>2, <2>3 DEF Ended, ModbusTypeOK
    <2>4. QED
      BY <1>6, <2>1, <2>2, <2>3 DEF ConnectTo
  <1>7. ASSUME Receive PROVE ObjectsSoFar'
    <2>1. CASE call' \in {Ended(call, "error"), Ended(call, "exception"), Ended(call, "ok")}
      BY <1>1, <1>2, <2>1 DEF Ended, ModbusTypeOK
    <2>2. CASE /\ wire[1].body.kind = "part" /\ wire[1].nr = Len(asked)
               /\ call' = Collected(wire[1].body)
      <3>1. PICK b : b = wire[1].body
        OBVIOUS
      <3>2. CASE ~AskAgain(b)
        <4>1. call' = [call EXCEPT !.objects = @ \cup b.objects, !.pc = "done", !.result = "ok"]
          BY <2>2, <3>1, <3>2, CollectedCases
        <4>2. QED
          BY <1>1, <1>2, <4>1 DEF ModbusTypeOK
      <3>3. CASE AskAgain(b)
        <4>1. call' = [call EXCEPT !.objects = @ \cup b.objects, !.object_id = b.next,
                                   !.pc = "request"]
          BY <2>2, <3>1, <3>3, CollectedCases
        <4>2. /\ call'.objects = call.objects \cup b.objects /\ call'.object_id = b.next
              /\ call'.pc = "request" /\ call'.sent = call.sent
              /\ call'.function = call.function
          BY <1>1, <4>1 DEF ModbusTypeOK
        <4>3. plain' = plain /\ 1 \in DOMAIN wire /\ At("receive")
          BY <1>7, Judgement DEF Receive
        <4>4. ASSUME plain, call.function = "identify"
              PROVE  /\ b.next \in Object /\ call.objects \cup b.objects = 0..(b.next - 1)
                     /\ call.sent <= b.next + 0
          <5>1. /\ b.next \in Object /\ call.objects \cup b.objects = 0..(b.next - 1)
                /\ call.sent <= b.next
            BY <2>2, <3>1, <3>3, <4>3, <4>4, PartTaken
          <5>2. b.next \in Nat
            BY <5>1, ModbusAssumption DEF Object
          <5>3. QED
            BY <5>1, <5>2
        <4>5. QED
          BY <4>2, <4>3, <4>4 DEF ObjectsSoFar
      <3>4. QED
        BY <3>2, <3>3
    <2>3. QED
      BY <1>7, <2>1, <2>2, Judgement
  <1>8. ASSUME NoAnswer PROVE ObjectsSoFar'
    BY <1>1, <1>2, <1>8 DEF NoAnswer, Ended, ModbusTypeOK
  <1> HIDE DEF At
  <1>9. QED
    BY <1>3, <1>4, <1>5, <1>6, <1>7, <1>8 DEF ModbusClientNext, ModbusThread

\* The result of the call.
LEMMA ExactNext == ASSUME ModbusInv, ModbusClientNext PROVE ~astray' /\ AnswersExact'
  <1> DEFINE Goal == ~astray' /\ AnswersExact'
  <1>1. ModbusTypeOK /\ CallFits /\ AnswersExact /\ ~astray
    BY DEF ModbusInv
  <1>2. call'.sent <= MaxRequests
    <2>1. call'.sent \in 0..MaxRequests
      BY ModbusTypeNext DEF ModbusTypeOK
    <2>2. QED
      BY <2>1, ModbusAssumption
  <1>3. ASSUME ~astray', call'.result # "ok" PROVE Goal
    BY <1>2, <1>3 DEF AnswersExact
  <1>4. ASSUME Begin("read") \/ Begin("identify") \/ NextRequest \/ ConnectTo PROVE Goal
    <2>1. call.result = "none" /\ astray' = astray
      BY <1>1, <1>4 DEF Begin, NextRequest, ConnectTo, CallFits, At
    <2>2. call'.result \in {"none", "error"}
      BY <1>1, <1>4, <2>1 DEF Begin, NextRequest, ConnectTo, SendAll, Ended, ModbusTypeOK
    <2>3. QED
      BY <1>1, <1>3, <2>1, <2>2
  <1>5. ASSUME OtherRequest \/ DeviceAnswers PROVE Goal
    <2>1. call.result = "none" /\ astray' = astray /\ call' = call
      BY <1>1, <1>5 DEF OtherRequest, DeviceAnswers, CallFits
    <2>2. QED
      BY <1>1, <1>3, <2>1
  <1>6. ASSUME Receive PROVE Goal
    <2>1. ~astray' /\ plain' = plain /\ call.result = "none" /\ At("receive") /\ 1 \in DOMAIN wire
      BY <1>1, <1>6, Judgement DEF Receive, CallFits, At
    <2>2. CASE call' \in {Ended(call, "error"), Ended(call, "exception")}
      BY <1>1, <1>3, <2>1, <2>2 DEF Ended, ModbusTypeOK
    <2>3. CASE /\ wire[1].body.kind = "values" /\ wire[1].nr = Len(asked)
               /\ call' = Ended(call, "ok")
      <3>1. call'.function = call.function
        BY <1>1, <2>3 DEF Ended, ModbusTypeOK
      <3>2. ASSUME plain, call.function = "identify" PROVE FALSE
        <4>1. PICK b, o : b = wire[1].body /\ o = call.object_id
          OBVIOUS
        <4>2. b \in Conforming(o)
          BY <2>1, <2>3, <3>2, <4>1 DEF ModbusInv, WireFits, CallFits
        <4>3. \/ b = Bare("exception") \/ b = Body("part", o..(NumObjects - 1), FALSE, 0)
              \/ \E u \in o..(NumObjects - 2) : b = Body("part", o..u, TRUE, u + 1)
          BY <3>2, <4>2 DEF Conforming
        <4>4. b.kind \in {"exception", "part"}
          BY <4>3 DEF Bare, Body
        <4>5. QED
          BY <2>3, <4>1, <4>4
      <3>3. QED
        BY <1>2, <2>1, <3>1, <3>2 DEF AnswersExact
    <2>4. CASE /\ wire[1].body.kind = "part" /\ wire[1].nr = Len(asked)
               /\ call' = Collected(wire[1].body)
      <3>1. PICK b : b = wire[1].body
        OBVIOUS
      <3>2. CASE ~AskAgain(b)
        <4>1. call' = [call EXCEPT !.objects = @ \cup b.objects, !.pc = "done", !.result = "ok"]
          BY <2>4, <3>1, <3>2, CollectedCases
        <4>2. call'.objects = call.objects \cup b.objects /\ call'.function = call.function
          BY <1>1, <4>1 DEF ModbusTypeOK
        <4>3. plain /\ call.function = "identify" => call.objects \cup b.objects = Object
          BY <2>1, <2>4, <3>1, <3>2, PartTaken
        <4>4. QED
          BY <1>2, <2>1, <4>2, <4>3 DEF AnswersExact
      <3>3. CASE AskAgain(b)
        <4>1. call' = [call EXCEPT !.objects = @ \cup b.objects, !.object_id = b.next,
                                   !.pc = "request"]
          BY <2>4, <3>1, <3>3, CollectedCases
        <4>2. call'.result = "none"
          BY <1>1, <2>1, <4>1 DEF ModbusTypeOK
        <4>3. QED
          BY <1>3, <2>1, <4>2
      <3>4. QED
        BY <3>2, <3>3
    <2>5. QED
      BY <1>6, <2>2, <2>3, <2>4, Judgement
  <1>7. ASSUME NoAnswer PROVE Goal
    BY <1>1, <1>3, <1>7 DEF NoAnswer, Ended, ModbusTypeOK
  <1> HIDE DEF Goal
  <1>8. Goal
    BY <1>4, <1>5, <1>6, <1>7 DEF ModbusClientNext, ModbusThread
  <1>9. QED
    BY <1>8 DEF Goal

(* What read() or read_device_identification() returns as ok is what the    *)
(* device answered to the latest request of that very call, however many    *)
(* answers come late, twice or out of order and however many ids other      *)
(* calls take meanwhile; an identification by a device that keeps to the    *)
(* protocol has all its objects, however they are cut into answers and      *)
(* although the loop is bounded, and the bound always holds.                *)
THEOREM AnswersAreExact == ModbusClientSpec => []AnswersExact
  <1>1. ModbusInv /\ ModbusClientNext => ModbusInv'
    BY ModbusTypeNext, IdsNext, CallNext, WireNext, ObjectsNext, ExactNext DEF ModbusInv
  <1>2. ASSUME ModbusInv, UNCHANGED modbusVars PROVE ModbusInv'
    <2>1. ModbusTypeOK' /\ IdsFresh' /\ CallFits' /\ ObjectsSoFar'
      BY <1>2 DEF ModbusInv, modbusVars, ModbusTypeOK, IdsFresh, Age, CallFits, At, ObjectsSoFar
    <2>2. WireFits'
      BY <1>2, WireKept DEF ModbusInv, modbusVars
    <2>3. ~astray' /\ AnswersExact'
      BY <1>2 DEF ModbusInv, modbusVars, AnswersExact
    <2>4. QED
      BY <2>1, <2>2, <2>3 DEF ModbusInv
  <1>3. ModbusInv => AnswersExact
    BY DEF ModbusInv
  <1>4. QED
    BY <1>1, <1>2, <1>3, ModbusInvInit, PTL DEF ModbusClientSpec
-----------------------------------------------------------------------------
(* The PROFINET scan. *)

\* The blocks of a frame lie behind each other, each at its bytes' end or, where
\* their number is odd, one behind.
LEMMA StartsFollow ==
  ASSUME NEW f, f.blocks \in Seq(BlockType)
  PROVE  /\ StartOf(f)[1] = 0
         /\ \A n \in Nat : n + 1 \in 1..Len(f.blocks) =>
               StartOf(f)[n + 2] = StartOf(f)[n + 1] + BlockBytes(f.blocks[n + 1])
         /\ \A i \in 1..(Len(f.blocks) + 1) : StartOf(f)[i] \in Nat
  <1>1. PICK s : s = f.blocks /\ s \in Seq(BlockType)
    OBVIOUS
  <1> DEFINE n == Len(s)
             F == [p \in Nat \X BlockType |-> p[1] + BlockBytes(p[2])]
             body(start) == [i \in 1..(n + 1) |->
                               IF i = 1 THEN 0 ELSE start[i - 1] + BlockBytes(s[i - 1])]
  <1>2. n \in Nat /\ DOMAIN s = 1..n
    BY <1>1
  <1>3. \A a \in Nat, b \in BlockType :
           /\ F[<<a, b>>] = a + BlockBytes(b) /\ F[<<a, b>>] \in Nat
    <2> SUFFICES ASSUME NEW a \in Nat, NEW b \in BlockType
                 PROVE  F[<<a, b>>] = a + BlockBytes(b) /\ a + BlockBytes(b) \in Nat
      OBVIOUS
    <2>1. PICK l : l = b.length /\ l \in Nat
      BY DEF BlockType
    <2>2. l % 2 \in Nat
      BY <2>1
    <2>3. BlockBytes(b) \in Nat
      BY <2>1, <2>2 DEF BlockBytes
    <2>4. QED
      BY <2>3
  <1>4. \E g \in [SUBSET DOMAIN s -> Nat] : \A t \in SUBSET DOMAIN s : FoldsTo(g, t, 0, F, s)
    <2>1. PICK G, A, X, base : G = F /\ A = Nat /\ X = BlockType /\ base = 0
      OBVIOUS
    <2>2. base \in A /\ s \in Seq(X) /\ \A a \in A, b \in X : G[<<a, b>>] \in A
      <3>1. \A a \in Nat, b \in BlockType : F[<<a, b>>] \in Nat
        BY <1>3
      <3> HIDE DEF F
      <3>2. QED
        BY <1>1, <2>1, <3>1
    <2>3. \E g \in [SUBSET DOMAIN s -> A] : \A t \in SUBSET DOMAIN s : FoldsTo(g, t, base, G, s)
      BY <2>2, SeqRecursion, Zenon
    <2> HIDE DEF F
    <2>4. QED
      BY <2>1, <2>3, Zenon
  <1>5. PICK g \in [SUBSET DOMAIN s -> Nat] : \A t \in SUBSET DOMAIN s : FoldsTo(g, t, 0, F, s)
    BY <1>4
  <1>6. g[{}] = 0
    BY <1>5 DEF FoldsTo
  <1>7. ASSUME NEW k \in Nat, k + 1 \in 1..n
        PROVE  g[1..(k + 1)] = g[1..k] + BlockBytes(s[k + 1])
    <2>1. PICK t : t = 1..(k + 1) /\ t \in SUBSET DOMAIN s /\ t # {}
      <3>1. PICK m \in Nat : m = n /\ DOMAIN s = 1..m /\ k + 1 <= m
        <4> HIDE DEF n
        <4>1. QED
          BY <1>2, <1>7
      <3>2. 1..(k + 1) \subseteq 1..m /\ 1..(k + 1) # {}
        BY <3>1
      <3>3. QED
        BY <3>1, <3>2
    <2>2. Max(t) = k + 1 /\ t \ {k + 1} = 1..k
      BY <2>1, MaxOfFirst
    <2>3. g[t] = F[<<g[t \ {Max(t)}], s[Max(t)]>>]
      BY <1>5, <2>1 DEF FoldsTo
    <2>4. g[1..k] \in Nat /\ s[k + 1] \in BlockType
      BY <1>1, <1>2, <1>5, <1>7
    <2> HIDE DEF F
    <2>5. QED
      BY <1>3, <2>1, <2>2, <2>3, <2>4
  <1> DEFINE h == [i \in 1..(n + 1) |-> g[1..(i - 1)]]
  <1>8. ASSUME NEW i \in 1..(n + 1), i # 1
        PROVE  h[i] = h[i - 1] + BlockBytes(s[i - 1])
    <2>1. PICK k \in Nat : i = k + 2
      <3>1. i - 2 \in Nat /\ i = (i - 2) + 2
        BY <1>2, <1>8
      <3>2. QED
        BY <3>1
    <2>2. k + 1 \in 1..n /\ k + 1 \in 1..(n + 1) /\ i - 1 = k + 1 /\ (k + 1) - 1 = k
      BY <1>2, <2>1
    <2>3. h[i] = g[1..(k + 1)] /\ h[i - 1] = g[1..k]
      BY <2>2
    <2>4. QED
      BY <1>7, <2>2, <2>3
  <1>9. h[1] = 0
    <2>1. 1 \in 1..(n + 1) /\ 1..(1 - 1) = {}
      BY <1>2
    <2>2. QED
      BY <1>6, <2>1
  <1>10. h = body(h)
    <2>1. \A i \in 1..(n + 1) : h[i] = IF i = 1 THEN 0 ELSE h[i - 1] + BlockBytes(s[i - 1])
      BY <1>8, <1>9
    <2>2. PICK hh : hh = h /\ DOMAIN hh = 1..(n + 1) /\ hh = [i \in 1..(n + 1) |-> hh[i]]
      OBVIOUS
    <2> HIDE DEF h
    <2>3. QED
      BY <2>1, <2>2
  <1>11. PICK start : start = CHOOSE u : u = body(u)
    OBVIOUS
  <1>12. start = body(start)
    <2>1. \E u : u = body(u)
      BY <1>10
    <2>2. QED
      BY <1>11, <2>1
  <1>13. StartOf(f) = start
    BY <1>1, <1>11 DEF StartOf
  <1>14. \A i \in 1..(n + 1) :
            start[i] = IF i = 1 THEN 0 ELSE start[i - 1] + BlockBytes(s[i - 1])
    BY <1>12
  <1>15. start[1] = 0
    BY <1>2, <1>14
  <1>16. ASSUME NEW k \in Nat, k + 1 \in 1..n
         PROVE  start[k + 2] = start[k + 1] + BlockBytes(s[k + 1])
    <2>1. k + 2 \in 1..(n + 1) /\ k + 2 # 1 /\ (k + 2) - 1 = k + 1
      BY <1>2, <1>16
    <2>2. QED
      BY <1>14, <2>1
  <1>17. ASSUME NEW i \in 1..(n + 1) PROVE start[i] \in Nat
    <2> DEFINE P == {k \in Nat : k <= n => start[k + 1] \in Nat}
    <2>1. 0 \in P
      BY <1>15
    <2>2. ASSUME NEW k \in P PROVE k + 1 \in P
      <3>1. k \in Nat /\ k + 1 \in Nat
        OBVIOUS
      <3>2. ASSUME k + 1 <= n PROVE start[(k + 1) + 1] \in Nat
        <4>1. k + 1 \in 1..n /\ k <= n /\ (k + 1) + 1 = k + 2
          BY <1>2, <3>1, <3>2
        <4>2. start[k + 1] \in Nat /\ s[k + 1] \in BlockType
          BY <1>1, <1>2, <4>1
        <4>3. PICK a, b : a = start[k + 1] /\ b = s[k + 1]
          OBVIOUS
        <4>4. a + BlockBytes(b) \in Nat
          BY <1>3, <4>2, <4>3
        <4>5. QED
          BY <1>16, <3>1, <4>1, <4>3, <4>4
      <3>3. QED
        BY <3>1, <3>2, Zenon DEF P
    <2>3. Nat \subseteq P
      <3> HIDE DEF P
      <3>1. QED
        BY <2>1, <2>2, NatInductive
    <2>4. i - 1 \in Nat /\ i - 1 <= n /\ (i - 1) + 1 = i
      BY <1>2
    <2>5. i - 1 \in P
      BY <2>3, <2>4
    <2>6. QED
      BY <2>4, <2>5
  <1>18. QED
    BY <1>1, <1>13, <1>15, <1>16, <1>17

\* A later block starts behind an earlier one.
LEMMA StartsIncrease ==
  ASSUME NEW f, f.blocks \in Seq(BlockType),
         NEW i \in 1..Len(f.blocks), NEW j \in 1..(Len(f.blocks) + 1), i < j
  PROVE  /\ f.blocks[i].length \in Nat
         /\ StartOf(f)[j] >= StartOf(f)[i] + 4 + f.blocks[i].length
  <1>1. PICK s, start, n : s = f.blocks /\ start = StartOf(f) /\ n = Len(s)
    OBVIOUS
  <1>2. s \in Seq(BlockType) /\ n \in Nat /\ i \in 1..n /\ j \in 1..(n + 1)
    BY <1>1
  <1>3. /\ \A k \in Nat : k + 1 \in 1..n => start[k + 2] = start[k + 1] + BlockBytes(s[k + 1])
        /\ \A k \in 1..(n + 1) : start[k] \in Nat
    <2>1. f.blocks \in Seq(BlockType)
      OBVIOUS
    <2>2. QED
      BY <1>1, <2>1, StartsFollow
  <1>4. \A k \in 1..n : start[k + 1] >= start[k] + 4 + s[k].length /\ s[k].length \in Nat
    <2> SUFFICES ASSUME NEW k \in 1..n
                 PROVE  start[k + 1] >= start[k] + 4 + s[k].length /\ s[k].length \in Nat
      OBVIOUS
    <2>1. PICK l, r : l = s[k].length /\ l \in Nat /\ r = l % 2 /\ r \in Nat
      <3>1. s[k] \in BlockType
        <4>1. DOMAIN s = 1..n
          BY <1>1, <1>2
        <4>2. QED
          BY <1>2, <4>1
      <3>2. s[k].length \in Nat
        BY <3>1 DEF BlockType
      <3>3. QED
        BY <3>2
    <2>2. k - 1 \in Nat /\ (k - 1) + 1 = k /\ (k - 1) + 2 = k + 1 /\ k + 1 \in 1..(n + 1) /\ k \in 1..(n + 1)
      BY <1>2
    <2>3. start[k + 1] = start[k] + (4 + l + r) /\ start[k] \in Nat /\ start[k + 1] \in Nat
      <3>1. \A a \in Nat : a + 1 \in 1..n => start[a + 2] = start[a + 1] + BlockBytes(s[a + 1])
        BY <1>3
      <3>2. start[k + 1] = start[k] + BlockBytes(s[k])
        BY <2>2, <3>1
      <3>3. BlockBytes(s[k]) = 4 + l + r
        BY <2>1 DEF BlockBytes
      <3>4. QED
        BY <1>3, <2>2, <3>2, <3>3
    <2>4. PICK a, b : a = start[k] /\ b = start[k + 1]
      OBVIOUS
    <2>5. b = a + (4 + l + r) /\ a \in Nat /\ b \in Nat
      BY <2>3, <2>4
    <2>6. b >= a + 4 + l
      <3>1. l \in Nat /\ r \in Nat
        BY <2>1
      <3>2. QED
        BY <2>5, <3>1
    <2>7. QED
      BY <2>1, <2>4, <2>6
  <1> DEFINE P == {d \in Nat : (i + 1) + d <= n + 1 => start[(i + 1) + d] >= start[i + 1]}
  <1>5. 0 \in P
    <2>1. i + 1 \in 1..(n + 1) /\ (i + 1) + 0 = i + 1
      BY <1>2
    <2>2. start[i + 1] \in Nat
      BY <1>3, <2>1
    <2>3. start[(i + 1) + 0] >= start[i + 1]
      BY <2>1, <2>2
    <2>4. QED
      BY <2>3
  <1>6. ASSUME NEW d \in P PROVE d + 1 \in P
    <2>1. d \in Nat /\ d + 1 \in Nat
      OBVIOUS
    <2>2. ASSUME (i + 1) + (d + 1) <= n + 1 PROVE start[(i + 1) + (d + 1)] >= start[i + 1]
      <3>1. PICK k : k = (i + 1) + d
        OBVIOUS
      <3>2. /\ k \in 1..n /\ k \in 1..(n + 1) /\ k + 1 \in 1..(n + 1) /\ i + 1 \in 1..(n + 1)
            /\ (i + 1) + (d + 1) = k + 1 /\ k <= n + 1
        BY <1>2, <2>1, <2>2, <3>1
      <3>3. start[k] >= start[i + 1]
        BY <3>1, <3>2
      <3>4. start[k + 1] >= start[k] + 4 + s[k].length /\ s[k].length \in Nat
        BY <1>4, <3>2
      <3>5. start[k] \in Nat /\ start[k + 1] \in Nat /\ start[i + 1] \in Nat
        BY <1>3, <3>2
      <3>6. start[k + 1] >= start[i + 1]
        BY <3>3, <3>4, <3>5
      <3>7. QED
        BY <3>2, <3>6
    <2>3. QED
      BY <2>1, <2>2, Zenon DEF P
  <1>7. Nat \subseteq P
    <2> HIDE DEF P
    <2>1. QED
      BY <1>5, <1>6, NatInductive
  <1>8. PICK d \in Nat : j = (i + 1) + d
    <2>1. j - (i + 1) \in Nat /\ j = (i + 1) + (j - (i + 1))
      BY <1>2
    <2>2. QED
      BY <2>1
  <1>9. start[j] >= start[i + 1]
    <2>1. d \in P /\ (i + 1) + d <= n + 1
      BY <1>2, <1>7, <1>8
    <2>2. QED
      BY <1>8, <2>1
  <1>10. /\ start[i + 1] >= start[i] + 4 + s[i].length /\ s[i].length \in Nat
         /\ start[i] \in Nat /\ start[i + 1] \in Nat /\ start[j] \in Nat
    <2>1. i + 1 \in 1..(n + 1) /\ i \in 1..(n + 1)
      BY <1>2
    <2>2. QED
      BY <1>2, <1>3, <1>4, <2>1
  <1>11. start[j] >= start[i] + 4 + s[i].length
    BY <1>9, <1>10
  <1>12. QED
    BY <1>1, <1>10, <1>11

\* One turn of the loop over the blocks.
ReadBlock(f, acc, i) ==
    IF StartOf(f)[i] = acc.at /\ acc.at + 4 <= FrameEnd(f)
         /\ acc.at + 4 + f.blocks[i].length <= f.size
    THEN [at |-> Following(acc.at, f.blocks[i].length), read |-> acc.read \cup {i}]
    ELSE acc

Place == [at : Nat, read : SUBSET Nat]
AtFirst == [at |-> 0, read |-> {}]

\* The loop, as where it is after each of the blocks.
LEMMA ReadUnfolds ==
  ASSUME NEW f, f.blocks \in Seq(BlockType)
  PROVE  \E g : /\ Read(f) = g[1..Len(f.blocks)].read /\ g[{}] = AtFirst
                /\ \A n \in Nat : n + 1 \in 1..Len(f.blocks) =>
                      g[1..(n + 1)] = ReadBlock(f, g[1..n], n + 1)
  <1>1. PICK N \in Nat : N = Len(f.blocks) /\ DOMAIN f.blocks = 1..N
    OBVIOUS
  <1> DEFINE S == 1..N
             idx == [i \in S |-> i]
             F == [p \in Place \X S |-> ReadBlock(f, p[1], p[2])]
             body(iter) == [t \in SUBSET S |->
                              IF t = {} THEN AtFirst
                              ELSE ReadBlock(f, iter[t \ {Max(t)}], idx[Max(t)])]
  <1>2. idx \in Seq(S) /\ DOMAIN idx = S /\ \A i \in S : idx[i] = i
    OBVIOUS
  <1>3. ASSUME NEW a \in Place, NEW i \in S PROVE ReadBlock(f, a, i) \in Place
    <2>1. f.blocks[i] \in BlockType
      BY <1>1
    <2>2. PICK l, r : l = f.blocks[i].length /\ l \in Nat /\ r = l % 2 /\ r \in Nat
      <3>1. f.blocks[i].length \in Nat
        BY <2>1 DEF BlockType
      <3>2. QED
        BY <3>1
    <2>3. PICK at, read : a.at = at /\ a.read = read /\ at \in Nat /\ read \in SUBSET Nat
      BY DEF Place
    <2>4. Following(at, l) \in Nat /\ read \cup {i} \in SUBSET Nat
      <3>1. l \in Nat /\ r \in Nat /\ at \in Nat
        BY <2>2, <2>3
      <3>2. at + 4 + l + r \in Nat
        BY <3>1
      <3>3. Following(at, l) = at + 4 + l + r
        BY <2>2 DEF Following
      <3>4. i \in Nat /\ read \in SUBSET Nat
        BY <2>3
      <3>5. QED
        BY <3>2, <3>3, <3>4
    <2>5. [at |-> Following(at, l), read |-> read \cup {i}] \in Place
      BY <2>4 DEF Place
    <2>6. QED
      BY <2>2, <2>3, <2>5 DEF ReadBlock
  <1>4. \A a \in Place, i \in S : F[<<a, i>>] = ReadBlock(f, a, i) /\ F[<<a, i>>] \in Place
    BY <1>3
  <1>5. \E g \in [SUBSET S -> Place] : \A t \in SUBSET S : FoldsTo(g, t, AtFirst, F, idx)
    <2>1. AtFirst \in Place
      BY DEF AtFirst, Place
    <2>2. PICK A, X, G, base, s : A = Place /\ X = S /\ G = F /\ base = AtFirst /\ s = idx
      OBVIOUS
    <2>3. base \in A /\ s \in Seq(X) /\ \A a \in A, i \in X : G[<<a, i>>] \in A
      <3> HIDE DEF S, F, idx
      <3>1. QED
        BY <1>2, <1>4, <2>1, <2>2, Zenon
    <2>4. \E g \in [SUBSET DOMAIN s -> A] : \A t \in SUBSET DOMAIN s : FoldsTo(g, t, base, G, s)
      BY <2>3, SeqRecursion, Zenon
    <2> HIDE DEF S, F, idx
    <2>5. QED
      BY <1>2, <2>2, <2>4, Zenon
  <1>6. PICK g \in [SUBSET S -> Place] : \A t \in SUBSET S : FoldsTo(g, t, AtFirst, F, idx)
    BY <1>5
  <1>7. ASSUME NEW t \in SUBSET S, t # {}
        PROVE  g[t] = ReadBlock(f, g[t \ {Max(t)}], idx[Max(t)])
    <2>1. Max(t) \in S
      <3>1. PICK s, X : s = idx /\ X = S /\ s \in Seq(X) /\ DOMAIN s = S
        BY <1>2
      <3> HIDE DEF S, idx
      <3>2. t \in SUBSET DOMAIN s
        BY <3>1
      <3>3. QED
        BY <1>7, <3>1, <3>2, MaxInSet
    <2>2. g[t \ {Max(t)}] \in Place /\ idx[Max(t)] \in S
      BY <1>6, <2>1
    <2>3. g[t] = F[<<g[t \ {Max(t)}], idx[Max(t)]>>]
      <3> HIDE DEF S, F, idx
      <3>1. QED
        BY <1>6, <1>7 DEF FoldsTo
    <2> HIDE DEF S, F, idx
    <2>4. QED
      BY <1>4, <2>2, <2>3
  <1>8. g[{}] = AtFirst
    <2>1. {} \in SUBSET S
      OBVIOUS
    <2> HIDE DEF S, F, idx
    <2>2. QED
      BY <1>6, <2>1 DEF FoldsTo
  <1>9. g = body(g)
    <2> HIDE DEF S, F, idx
    <2>1. QED
      BY <1>6, <1>7, <1>8
  <1>10. PICK iter : iter = CHOOSE h : h = body(h)
    OBVIOUS
  <1>11. iter = body(iter)
    <2>1. \E h : h = body(h)
      BY <1>9
    <2>2. QED
      BY <1>10, <2>1
  <1>12. Read(f) = iter[S].read
    BY <1>1, <1>2, <1>10 DEF Read, FoldLeft, MapThenFoldSet, AtFirst, ReadBlock
  <1>13. iter[{}] = AtFirst
    BY <1>11
  <1>14. ASSUME NEW n \in Nat, n + 1 \in S
         PROVE  iter[1..(n + 1)] = ReadBlock(f, iter[1..n], n + 1)
    <2>1. PICK t : t = 1..(n + 1) /\ t \in SUBSET S /\ t # {}
      <3>1. N \in Nat /\ n + 1 <= N
        BY <1>1, <1>14
      <3>2. 1 \in 1..(n + 1) /\ \A x \in 1..(n + 1) : x \in 1..N
        BY <3>1
      <3>3. QED
        BY <3>2
    <2>2. Max(t) = n + 1 /\ t \ {n + 1} = 1..n
      BY <2>1, MaxOfFirst
    <2>3. iter[t] = ReadBlock(f, iter[t \ {Max(t)}], idx[Max(t)])
      BY <1>11, <2>1
    <2>4. QED
      BY <1>2, <1>14, <2>1, <2>2, <2>3
  <1>15. QED
    BY <1>1, <1>12, <1>13, <1>14

\* Where the announced length or the frame ends.
LEMMA FrameEndType ==
  ASSUME NEW f, f.data_len \in Nat, f.size \in Nat PROVE FrameEnd(f) \in Nat
  <1>1. PICK a \in Nat : a = f.data_len
    OBVIOUS
  <1>2. PICK b \in Nat : b = f.size
    OBVIOUS
  <1>3. \E x \in {a, b} : \A y \in {a, b} : x =< y
    OBVIOUS
  <1>4. Min({a, b}) \in {a, b}
    BY <1>3 DEF Min
  <1>5. QED
    BY <1>1, <1>2, <1>4 DEF FrameEnd

\* Once a block did not come whole, none behind it did.
LEMMA CutStaysCut ==
  ASSUME NEW f, f.blocks \in Seq(BlockType), f.data_len \in Nat, f.size \in Nat,
         NEW i \in 1..Len(f.blocks), i \notin Whole(f), NEW j \in 1..Len(f.blocks), i <= j
  PROVE  j \notin Whole(f)
  <1>1. CASE i = j
    BY <1>1
  <1>2. CASE i < j
    <2>1. PICK n \in Nat : n = Len(f.blocks) /\ DOMAIN f.blocks = 1..n
      OBVIOUS
    <2>2. i \in 1..n /\ j \in 1..n /\ i \in 1..(n + 1) /\ j \in 1..(n + 1)
      BY <2>1
    <2>3. \A k \in 1..n : f.blocks[k].length \in Nat
      <3>1. \A k \in 1..n : f.blocks[k] \in BlockType
        BY <2>1
      <3>2. QED
        BY <3>1 DEF BlockType
    <2>4. PICK a, b, l, m, e, z :
             /\ a = StartOf(f)[i] /\ b = StartOf(f)[j]
             /\ l = f.blocks[i].length /\ m = f.blocks[j].length
             /\ e = FrameEnd(f) /\ z = f.size
      OBVIOUS
    <2>5. l \in Nat /\ m \in Nat /\ e \in Nat /\ z \in Nat
      BY <2>2, <2>3, <2>4, FrameEndType
    <2>6. a \in Nat /\ b \in Nat
      <3>1. \A k \in 1..(Len(f.blocks) + 1) : StartOf(f)[k] \in Nat
        BY StartsFollow
      <3>2. \A k \in 1..(n + 1) : StartOf(f)[k] \in Nat
        BY <2>1, <3>1
      <3>3. QED
        BY <2>2, <2>4, <3>2
    <2>7. b >= a + 4 + l
      <3>1. j \in 1..(Len(f.blocks) + 1)
        BY <2>1, <2>2
      <3>2. StartOf(f)[j] >= StartOf(f)[i] + 4 + f.blocks[i].length
        BY <1>2, <3>1, StartsIncrease
      <3>3. QED
        BY <2>4, <3>2
    <2>8. ~(a + 4 <= e /\ a + 4 + l <= z)
      BY <2>1, <2>2, <2>4 DEF Whole
    <2>9. ~(b + 4 <= e /\ b + 4 + m <= z)
      BY <2>5, <2>6, <2>7, <2>8
    <2>10. QED
      BY <2>4, <2>9 DEF Whole
  <1>3. QED
    BY <1>1, <1>2

\* After n blocks the loop is at the next one and has read them all, or it is at
\* the first that did not come whole and has read those before it.
AllRead(f, n, acc) ==
    /\ acc.at = StartOf(f)[n + 1] /\ acc.read = 1..n /\ 1..n \subseteq Whole(f)
StoppedAt(f, i, acc) ==
    /\ acc.at = StartOf(f)[i] /\ i \notin Whole(f)
    /\ acc.read = 1..(i - 1) /\ 1..(i - 1) \subseteq Whole(f)
ReadUpTo(f, n, acc) == AllRead(f, n, acc) \/ \E i \in 1..n : StoppedAt(f, i, acc)

\* One more block.
LEMMA ReadOneMore ==
  ASSUME NEW f, f.blocks \in Seq(BlockType),
         NEW n \in Nat, n + 1 \in 1..Len(f.blocks), NEW acc, ReadUpTo(f, n, acc),
         NEW next, next = ReadBlock(f, acc, n + 1)
  PROVE  ReadUpTo(f, n + 1, next)
  <1>1. PICK start, l, r : start = StartOf(f) /\ l = f.blocks[n + 1].length /\ r = l % 2
    OBVIOUS
  <1>2. /\ 1..(n + 1) = (1..n) \cup {n + 1} /\ n + 1 \in DOMAIN f.blocks
        /\ (n + 1) - 1 = n /\ (n + 1) + 1 = n + 2
    OBVIOUS
  <1>3. l \in Nat /\ r \in Nat
    <2>1. f.blocks[n + 1] \in BlockType
      OBVIOUS
    <2>2. l \in Nat
      BY <1>1, <2>1 DEF BlockType
    <2>3. QED
      BY <1>1, <2>2
  <1>4. start[n + 2] = start[n + 1] + (4 + l + r) /\ start[n + 1] \in Nat
    <2>1. /\ StartOf(f)[n + 2] = StartOf(f)[n + 1] + BlockBytes(f.blocks[n + 1])
          /\ \A k \in 1..(Len(f.blocks) + 1) : StartOf(f)[k] \in Nat
      BY StartsFollow
    <2>2. n + 1 \in 1..(Len(f.blocks) + 1)
      OBVIOUS
    <2>3. BlockBytes(f.blocks[n + 1]) = 4 + l + r
      BY <1>1 DEF BlockBytes
    <2>4. QED
      BY <1>1, <2>1, <2>2, <2>3
  <1>5. n + 1 \in Whole(f) <=> start[n + 1] + 4 <= FrameEnd(f) /\ start[n + 1] + 4 + l <= f.size
    BY <1>1, <1>2 DEF Whole
  <1>6. CASE AllRead(f, n, acc)
    <2>1. acc.at = start[n + 1] /\ acc.read = 1..n /\ 1..n \subseteq Whole(f)
      BY <1>1, <1>6 DEF AllRead
    <2>2. CASE n + 1 \in Whole(f)
      <3>1. next = [at |-> Following(start[n + 1], l), read |-> (1..n) \cup {n + 1}]
        BY <1>1, <1>5, <2>1, <2>2 DEF ReadBlock
      <3>2. PICK a \in Nat : a = start[n + 1]
        BY <1>4
      <3>3. Following(a, l) = a + (4 + l + r)
        <4>1. Following(a, l) = a + 4 + l + r
          BY <1>1 DEF Following
        <4>2. QED
          BY <1>3, <4>1
      <3>4. next.at = start[n + 2] /\ next.read = 1..(n + 1)
        <4>1. PICK w, z : w = Following(start[n + 1], l) /\ z = (1..n) \cup {n + 1}
          OBVIOUS
        <4>2. next = [at |-> w, read |-> z]
          BY <3>1, <4>1
        <4>3. w = start[n + 2]
          BY <1>4, <3>2, <3>3, <4>1
        <4>4. z = 1..(n + 1)
          BY <1>2, <4>1
        <4>5. QED
          BY <4>2, <4>3, <4>4
      <3>5. AllRead(f, n + 1, next)
        BY <1>1, <1>2, <2>1, <2>2, <3>4 DEF AllRead
      <3>6. QED
        BY <3>5 DEF ReadUpTo
    <2>3. CASE n + 1 \notin Whole(f)
      <3>1. next = acc
        BY <1>1, <1>5, <2>1, <2>3 DEF ReadBlock
      <3>2. StoppedAt(f, n + 1, next)
        BY <1>1, <1>2, <2>1, <2>3, <3>1 DEF StoppedAt
      <3>3. n + 1 \in 1..(n + 1)
        OBVIOUS
      <3>4. QED
        BY <3>2, <3>3 DEF ReadUpTo
    <2>4. QED
      BY <2>2, <2>3
  <1>7. CASE \E i \in 1..n : StoppedAt(f, i, acc)
    <2>1. PICK i \in 1..n : StoppedAt(f, i, acc)
      BY <1>7
    <2>2. start[n + 1] # acc.at
      <3>1. i \in 1..Len(f.blocks) /\ n + 1 \in 1..(Len(f.blocks) + 1) /\ i < n + 1
        <4>1. PICK N \in Nat : N = Len(f.blocks)
          OBVIOUS
        <4>2. n + 1 \in 1..N /\ i \in 1..n
          BY <4>1
        <4>3. i \in 1..N /\ n + 1 \in 1..(N + 1) /\ i < n + 1
          BY <4>2
        <4>4. QED
          BY <4>1, <4>3
      <3>2. f.blocks[i].length \in Nat /\ StartOf(f)[n + 1] >= StartOf(f)[i] + 4 + f.blocks[i].length
        BY <3>1, StartsIncrease
      <3>3. StartOf(f)[i] \in Nat
        <4>1. i \in 1..(Len(f.blocks) + 1)
          BY <3>1
        <4>2. QED
          BY <4>1, StartsFollow
      <3>4. StartOf(f)[n + 1] # StartOf(f)[i]
        <4>1. PICK a, b, m : a = StartOf(f)[i] /\ b = StartOf(f)[n + 1] /\ m = f.blocks[i].length
          OBVIOUS
        <4>2. a \in Nat /\ m \in Nat /\ b >= a + 4 + m
          BY <3>2, <3>3, <4>1
        <4>3. b # a
          BY <4>2
        <4>4. QED
          BY <4>1, <4>3
      <3>5. QED
        BY <1>1, <2>1, <3>4 DEF StoppedAt
    <2>3. next = acc
      BY <1>1, <2>2 DEF ReadBlock
    <2>4. QED
      BY <1>2, <2>1, <2>3 DEF ReadUpTo
  <1>8. QED
    BY <1>6, <1>7 DEF ReadUpTo

\* The loop reads the blocks that came whole, and no other.
LEMMA ReadIsWhole ==
  ASSUME NEW f, f.blocks \in Seq(BlockType), f.data_len \in Nat, f.size \in Nat
  PROVE  Read(f) = Whole(f)
  <1>1. PICK g : /\ Read(f) = g[1..Len(f.blocks)].read /\ g[{}] = AtFirst
                 /\ \A n \in Nat : n + 1 \in 1..Len(f.blocks) =>
                       g[1..(n + 1)] = ReadBlock(f, g[1..n], n + 1)
    BY ReadUnfolds
  <1>2. PICK N \in Nat : N = Len(f.blocks) /\ DOMAIN f.blocks = 1..N
    OBVIOUS
  <1> DEFINE P == {n \in Nat : n <= N => ReadUpTo(f, n, g[1..n])}
  <1>3. 0 \in P
    <2>1. 1..0 = {} /\ 0 + 1 = 1
      OBVIOUS
    <2>2. AtFirst.at = StartOf(f)[1] /\ AtFirst.read = {}
      BY StartsFollow DEF AtFirst
    <2>3. g[1..0] = AtFirst
      BY <1>1, <2>1
    <2>4. ReadUpTo(f, 0, g[1..0])
      BY <2>1, <2>2, <2>3 DEF ReadUpTo, AllRead
    <2>5. QED
      BY <2>4
  <1>4. ASSUME NEW n \in P PROVE n + 1 \in P
    <2>1. n \in Nat /\ n + 1 \in Nat
      OBVIOUS
    <2>2. ASSUME n + 1 <= N PROVE ReadUpTo(f, n + 1, g[1..(n + 1)])
      <3>1. n + 1 \in 1..Len(f.blocks) /\ n <= N
        BY <1>2, <2>1, <2>2
      <3>2. PICK acc, next : acc = g[1..n] /\ next = g[1..(n + 1)]
        OBVIOUS
      <3>3. ReadUpTo(f, n, acc) /\ next = ReadBlock(f, acc, n + 1)
        BY <1>1, <2>1, <3>1, <3>2
      <3>4. ReadUpTo(f, n + 1, next)
        BY <2>1, <3>1, <3>3, ReadOneMore
      <3>5. QED
        BY <3>2, <3>4
    <2>3. QED
      BY <2>1, <2>2, Zenon DEF P
  <1>5. Nat \subseteq P
    <2> HIDE DEF P
    <2>1. QED
      BY <1>3, <1>4, NatInductive
  <1>6. PICK acc : acc = g[1..N] /\ ReadUpTo(f, N, acc) /\ Read(f) = acc.read
    BY <1>1, <1>2, <1>5
  <1>7. Whole(f) \subseteq 1..N
    BY <1>2 DEF Whole
  <1>8. CASE AllRead(f, N, acc)
    BY <1>6, <1>7, <1>8 DEF AllRead
  <1>9. CASE \E i \in 1..N : StoppedAt(f, i, acc)
    <2>1. PICK i \in 1..N : StoppedAt(f, i, acc)
      BY <1>9
    <2>2. acc.read = 1..(i - 1) /\ 1..(i - 1) \subseteq Whole(f) /\ i \notin Whole(f)
      BY <2>1 DEF StoppedAt
    <2>3. ASSUME NEW j \in Whole(f) PROVE j \in 1..(i - 1)
      <3>1. j \in 1..N
        BY <1>7
      <3>2. ~(i <= j)
        BY <1>2, <2>2, <2>3, <3>1, CutStaysCut
      <3>3. QED
        BY <3>1, <3>2
    <2>4. QED
      BY <1>6, <2>2, <2>3
  <1>10. QED
    BY <1>6, <1>8, <1>9 DEF ReadUpTo

(* A PROFINET device is listed once, with the fields of its last response   *)
(* that came whole and no others, for blocks of any number and length, any  *)
(* announced length and frames cut anywhere, and any order of the responses *)
(* (profinet_scan.py, _parse_response and the loop of scan).                *)
THEOREM DevicesAreListedAsSent == ProfinetSpec => []ListedAsSent
  <1> DEFINE Inv == /\ devices = [m \in Station |-> devices[m]]
                    /\ heard = [m \in Station |-> heard[m]]
                    /\ ListedAsSent
  <1>1. ProfinetInit => Inv
    BY DEF ProfinetInit, ListedAsSent
  <1>2. Inv /\ UNCHANGED <<devices, heard>> => Inv'
    BY DEF ListedAsSent
  <1>3. ASSUME Inv, NEW f \in Response, ReceiveFrame(f) PROVE Inv'
    <2>1. CASE UNCHANGED <<devices, heard>>
      BY <1>2, <1>3, <2>1
    <2>2. CASE /\ ParseResponse(f) # <<>>
               /\ devices' = [devices EXCEPT ![f.mac] = ParseResponse(f)]
               /\ heard' = [heard EXCEPT ![f.mac] = <<f>>]
      <3>1. f.mac \in Station /\ f.data_len \in Nat /\ f.size \in Nat /\ f.blocks \in Seq(BlockType)
        BY ResponseAssumption
      <3>2. Read(f) = Whole(f)
        BY <3>1, ReadIsWhole
      <3>3. ParseResponse(f) = Fields(f, Whole(f))
        BY <2>2, <3>2 DEF ParseResponse
      <3>4. PICK mac, fields : mac = f.mac /\ fields = Fields(f, Whole(f))
        OBVIOUS
      <3>5. /\ devices' = [devices EXCEPT ![mac] = fields]
            /\ heard' = [heard EXCEPT ![mac] = <<f>>]
        BY <2>2, <3>3, <3>4
      <3>6. /\ devices' = [m \in Station |-> devices'[m]]
            /\ heard' = [m \in Station |-> heard'[m]]
        BY <1>3, <3>5
      <3>7. ASSUME NEW m \in Station
            PROVE  devices'[m] = IF heard'[m] = <<>> THEN <<>>
                                 ELSE Fields(heard'[m][1], Whole(heard'[m][1]))
        <4>1. CASE m = mac
          <5>1. devices'[m] = fields /\ heard'[m] = <<f>>
            BY <1>3, <3>5, <4>1
          <5>2. <<f>> # <<>> /\ <<f>>[1] = f
            OBVIOUS
          <5>3. QED
            BY <3>4, <5>1, <5>2
        <4>2. CASE m # mac
          <5>1. devices'[m] = devices[m] /\ heard'[m] = heard[m]
            BY <1>3, <3>5, <4>2
          <5>2. QED
            BY <1>3, <5>1 DEF ListedAsSent
        <4>3. QED
          BY <4>1, <4>2
      <3>8. ListedAsSent'
        BY <3>7 DEF ListedAsSent
      <3>9. QED
        BY <3>6, <3>8
    <2>3. QED
      BY <1>3, <2>1, <2>2 DEF ReceiveFrame
  <1>4. ASSUME Inv, [ProfinetNext]_profinetVars PROVE Inv'
    <2>1. CASE \E f \in Response : ReceiveFrame(f)
      BY <1>3, <1>4, <2>1
    <2>2. CASE BeginScan \/ Turn \/ Silence \/ PortDown \/ DeadlinePasses \/ UNCHANGED profinetVars
      <3>1. UNCHANGED <<devices, heard>>
        BY <2>2 DEF BeginScan, Turn, Silence, PortDown, DeadlinePasses, profinetVars
      <3>2. QED
        BY <1>2, <1>4, <3>1
    <2>3. QED
      BY <1>4, <2>1, <2>2 DEF ProfinetNext, ProfinetThread
  <1>5. Inv => ListedAsSent
    OBVIOUS
  <1>6. QED
    BY <1>1, <1>4, <1>5, PTL DEF ProfinetSpec
=============================================================================
