---------------------------- MODULE ModbusClient ----------------------------
(***************************************************************************)
(* backend/tools/modbus.py: one call of read() or of                       *)
(* read_device_identification() on its own connection.  All that calls     *)
(* share is the transaction counter, from which others may take ids at any *)
(* time.                                                                   *)
(*                                                                         *)
(* The device answers any request it got on the connection, in any order   *)
(* and more than once, and need not answer as the protocol says.  Refused  *)
(* arguments and an eth0 without address take no step.                     *)
(***************************************************************************)
EXTENDS Naturals, Sequences

CONSTANTS IdModulus,     \* 0x10000
          MaxOthers,     \* bound: ids other calls take meanwhile
          MaxRequests,   \* the 8 of read_device_identification()
          NumObjects,    \* objects the device identifies itself with
          MaxWire        \* bound: answers on their way at the same time

\* "Regular" access has seven objects.  No id comes twice during a call.
ASSUME ModbusAssumption ==
    /\ NumObjects \in Nat \ {0} /\ MaxRequests \in Nat /\ NumObjects <= MaxRequests
    /\ MaxOthers \in Nat /\ MaxWire \in Nat \ {0}
    /\ IdModulus \in Nat /\ MaxRequests + MaxOthers < IdModulus

VARIABLES
    transaction_id,
    call,     \* the locals of the call
    asked,    \* the requests that reached the device
    wire,     \* answers on their way
    others,   \* ids taken by other calls
    plain,    \* history: all answers were what the protocol says
    astray    \* history: one was taken for the answer to another request

modbusVars == <<transaction_id, call, asked, wire, others, plain, astray>>

Object == 0..(NumObjects - 1)

ModbusClientInit ==
    /\ transaction_id \in 0..(IdModulus - 1)
    /\ call = [pc |-> "idle", function |-> "read", id |-> 0, sent |-> 0, object_id |-> 0,
               objects |-> {}, result |-> "none"]
    /\ asked = <<>> /\ wire = <<>>
    /\ others = 0 /\ plain = TRUE /\ astray = FALSE

At(label) == call.pc = label
Ended(k, verdict) == [k EXCEPT !.pc = "done", !.result = verdict]
SendAll(k) ==
    /\ call' = [k EXCEPT !.pc = "receive"]
    /\ asked' = Append(asked, [id |-> k.id, object_id |-> k.object_id])

\* read() builds its one request first, read_device_identification() connects.
Begin(f) ==
    /\ At("idle")
    /\ call' = [call EXCEPT !.function = f,
                            !.pc = IF f = "read" THEN "request" ELSE "connect"]
    /\ UNCHANGED <<transaction_id, asked, wire, others, plain, astray>>

NextId == (transaction_id + 1) % IdModulus

NextRequest ==
    LET k == [call EXCEPT !.id = NextId, !.sent = @ + 1]
    IN  /\ At("request")
        /\ transaction_id' = NextId
        /\ \/ k.function = "read" /\ call' = [k EXCEPT !.pc = "connect"] /\ UNCHANGED asked
           \/ k.function = "identify" /\ SendAll(k)
        /\ UNCHANGED <<wire, others, plain, astray>>

OtherRequest ==
    /\ ~At("done") /\ others < MaxOthers
    /\ others' = others + 1
    /\ transaction_id' = NextId
    /\ UNCHANGED <<call, asked, wire, plain, astray>>

\* bind() and connect(); refused, unreachable or timed out.
ConnectTo ==
    /\ At("connect")
    /\ \/ call.function = "read" /\ SendAll(call)
       \/ call.function = "identify" /\ call' = [call EXCEPT !.pc = "request"] /\ UNCHANGED asked
       \/ call' = Ended(call, "error") /\ UNCHANGED asked
    /\ UNCHANGED <<transaction_id, wire, others, plain, astray>>

-----------------------------------------------------------------------------
(* The device. *)

Body(kind, objects, more, next) ==
    [kind |-> kind, objects |-> objects, more |-> more, next |-> next]
Bare(kind) == Body(kind, {}, FALSE, 0)

\* As many objects as fit, starting with the one that was asked for.
Conforming(o) ==
    IF call.function = "read" THEN {Bare("values"), Bare("exception")}
    ELSE {Bare("exception"), Body("part", o..(NumObjects - 1), FALSE, 0)}
         \cup {Body("part", o..u, TRUE, u + 1) : u \in o..(NumObjects - 2)}

\* Unusable; or an identification that never advances, goes round, or is cut.
Misbehaving(o) ==
    IF call.function = "read" THEN {Bare("unusable")}
    ELSE {Bare("unusable"), Bare("part"),
          Body("part", {o}, TRUE, o), Body("part", {o}, TRUE, IF o = 0 THEN 1 ELSE 0)}

DeviceAnswers ==
    /\ ~At("done") /\ Len(wire) < MaxWire
    /\ \E i \in DOMAIN asked, good \in BOOLEAN :
          LET o == asked[i].object_id
          IN  /\ \E b \in IF good THEN Conforming(o) ELSE Misbehaving(o) :
                    wire' = Append(wire, [id |-> asked[i].id, nr |-> i, body |-> b])
              /\ plain' = (plain /\ good)
    /\ UNCHANGED <<transaction_id, call, asked, others, astray>>

-----------------------------------------------------------------------------
OwnAnswer_Any(a) == TRUE
OwnAnswer(a) == a.id = call.id

\* Another round of the loop: at most MaxRequests.
AskAgain(b) == b.more /\ b.next # call.object_id /\ call.sent < MaxRequests

Collected(b) ==
    LET got == [call EXCEPT !.objects = @ \cup b.objects]
    IN  IF AskAgain(b) THEN [got EXCEPT !.object_id = b.next, !.pc = "request"]
                       ELSE Ended(got, "ok")

Judged(a) ==
    CASE ~OwnAnswer(a) \/ a.body.kind = "unusable" -> Ended(call, "error")
      [] OwnAnswer(a) /\ a.body.kind = "exception" -> Ended(call, "exception")
      [] OwnAnswer(a) /\ a.body.kind = "values"    -> Ended(call, "ok")
      [] OwnAnswer(a) /\ a.body.kind = "part"      -> Collected(a.body)

\* Header and body of the next answer; the connection is closed with the call.
Receive ==
    /\ At("receive") /\ wire # <<>>
    /\ call' = Judged(Head(wire))
    /\ wire' = IF call'.pc = "done" THEN <<>> ELSE Tail(wire)
    /\ astray' = (astray \/ (OwnAnswer(Head(wire)) /\ Head(wire).nr # Len(asked)))
    /\ UNCHANGED <<transaction_id, asked, others, plain>>

\* Nothing comes in time: a timeout, or the connection is closed or reset.
NoAnswer ==
    /\ At("receive")
    /\ call' = Ended(call, "error")
    /\ wire' = <<>>
    /\ UNCHANGED <<transaction_id, asked, others, plain, astray>>

ModbusThread == NextRequest \/ ConnectTo \/ Receive \/ NoAnswer

ModbusClientNext ==
    Begin("read") \/ Begin("identify") \/ ModbusThread \/ OtherRequest \/ DeviceAnswers
ModbusClientSpec == ModbusClientInit /\ [][ModbusClientNext]_modbusVars

-----------------------------------------------------------------------------
(* What a call returns as ok is what the device said to that very request,  *)
(* although answers repeat and come late; and an identification by a device *)
(* that keeps to the protocol has every object, however the answers are cut *)
(* into parts (modbus.py:265, "follows to collect every object").  One that *)
(* does not cannot keep the call in its loop (modbus.py:300).               *)
AnswersExact ==
    /\ call.sent <= MaxRequests
    /\ call.result = "ok" =>
        /\ ~astray
        /\ call.function = "identify" /\ plain => call.objects = Object
=============================================================================
