--------------------------- MODULE ModbusTraffic ---------------------------
(***************************************************************************)
(* capture/modbus_traffic.py: requests and responses on port 502 paired by *)
(* connection and transaction id, counted per relationship.                *)
(*                                                                         *)
(* A connection is a pair of client and server, an operation a pair of     *)
(* unit and function code.  Averages and last_seen are left out.           *)
(***************************************************************************)
EXTENDS Listener, FiniteSets, Functions

CONSTANTS Conn, Tid, Op, PendingTimeout, MaxRelationships

ASSUME ModbusAssumption == PendingTimeout \in Nat /\ MaxRelationships \in Nat

VARIABLES
    relationships,   \* _relationships, on the keys it holds
    pending          \* _pending, on the keys it holds

modbusVars == <<relationships, pending>>

RelKey == Conn \X Op
PendingKey == Conn \X Tid

\* _empty_relationship(); `timed` is _ms_count.
EmptyRelationship ==
    [requests |-> 0, responses |-> 0, exceptions |-> 0, missing |-> 0,
     timed |-> 0, min_ms |-> None, max_ms |-> None]

ModbusInit == relationships = <<>> /\ pending = <<>>

RelOf(key, entry) == <<key[1], entry.op>>

\* What _prune_stale_pending(now) pops.
Stale(now) == {k \in DOMAIN pending : now - pending[k].sent_at > PendingTimeout}

Unanswered(now) == Restrict(pending, DOMAIN pending \ Stale(now))

CountMissing_AlsoKept(now) ==
    [r \in DOMAIN relationships |->
        [relationships[r] EXCEPT !.missing =
            @ + Cardinality({k \in DOMAIN pending : RelOf(k, pending[k]) = r
                                                    /\ now - pending[k].sent_at >= PendingTimeout})]]
\* ... and the "missing" it adds.
CountMissing(now) ==
    [r \in DOMAIN relationships |->
        [relationships[r] EXCEPT !.missing =
            @ + Cardinality({k \in Stale(now) : RelOf(k, pending[k]) = r})]]

\* A packet with a port 502 whose payload is one whole MBAP header and PDU.
ReceiveModbus ==
    /\ \E conn \in Conn, tid \in Tid, op \in Op, kind \in {"request", "response", "exception"} :
          Receive([conn |-> conn, tid |-> tid, op |-> op, kind |-> kind])
    /\ UNCHANGED modbusVars

Extended(f, key, value) == [k \in DOMAIN f \cup {key} |-> IF k = key THEN value ELSE f[k]]

LowerOf(old, ms) == IF old = None \/ ms < old THEN ms ELSE old
HigherOf(old, ms) == IF old = None \/ ms > old THEN ms ELSE old

\* One more response time.
Timed(rel, ms) ==
    [rel EXCEPT !.timed = @ + 1, !.min_ms = LowerOf(@, ms), !.max_ms = HigherOf(@, ms)]

Tracked(rels, r) == r \in DOMAIN rels \/ Cardinality(DOMAIN rels) < MaxRelationships

HandleRequest ==
    /\ packet # None /\ packet.content.kind = "request"
    /\ LET p == packet.content
           r == <<p.conn, p.op>>
           rels == CountMissing(packet.now)
           open == Unanswered(packet.now)
           rel == IF r \in DOMAIN rels THEN rels[r] ELSE EmptyRelationship
       IN \/ /\ Tracked(rels, r)
             /\ relationships' = Extended(rels, r, [rel EXCEPT !.requests = @ + 1])
             /\ pending' = Extended(open, <<p.conn, p.tid>>, [sent_at |-> packet.now, op |-> p.op])
          \/ /\ ~ Tracked(rels, r)
             /\ relationships' = rels /\ pending' = open
    /\ Handled

HandleResponse_NoPrune ==
    /\ packet # None /\ packet.content.kind # "request"
    /\ LET p == packet.content
           r == <<p.conn, p.op>>
           k == <<p.conn, p.tid>>
           counted == [relationships[r] EXCEPT !.responses = @ + 1]
       IN /\ pending' = Restrict(pending, DOMAIN pending \ {k})
          /\ relationships' =
               IF r \notin DOMAIN relationships THEN relationships
               ELSE [relationships EXCEPT ![r] =
                        IF k \in DOMAIN pending THEN Timed(counted, packet.now - pending[k].sent_at)
                                                ELSE counted]
    /\ Handled
\* A response is counted on the relationship its own header names; the pending
\* request is popped whether or not that one is tracked.
HandleResponse ==
    /\ packet # None /\ packet.content.kind # "request"
    /\ LET p == packet.content
           r == <<p.conn, p.op>>
           k == <<p.conn, p.tid>>
           rels == CountMissing(packet.now)
           open == Unanswered(packet.now)
           counted == [rels[r] EXCEPT !.responses = @ + 1,
                                      !.exceptions = IF p.kind = "exception" THEN @ + 1 ELSE @]
       IN /\ pending' = Restrict(open, DOMAIN open \ {k})
          /\ \/ /\ r \notin DOMAIN rels
                /\ relationships' = rels
             \/ /\ r \in DOMAIN rels /\ k \notin DOMAIN open
                /\ relationships' = [rels EXCEPT ![r] = counted]
             \/ /\ r \in DOMAIN rels /\ k \in DOMAIN open
                /\ relationships' =
                     [rels EXCEPT ![r] = Timed(counted, packet.now - open[k].sent_at)]
    /\ Handled

GetModbusStats ==
    /\ relationships' = CountMissing(clock)
    /\ pending' = Unanswered(clock)
    /\ UNCHANGED listenerVars

ResetModbus_KeepPending == relationships' = <<>> /\ UNCHANGED <<pending, listenerVars>>
ResetModbus ==
    /\ relationships' = <<>> /\ pending' = <<>>
    /\ UNCHANGED listenerVars

ModbusNext ==
    \/ (Tick \/ SetBack) /\ UNCHANGED modbusVars
    \/ ReceiveModbus
    \/ HandleRequest
    \/ HandleResponse
    \/ GetModbusStats
    \/ ResetModbus

ModbusSpec ==
    ListenerInit /\ ModbusInit /\ [][ModbusNext]_<<listenerVars, modbusVars>>

-----------------------------------------------------------------------------
ModbusTypeOK ==
    /\ DOMAIN relationships \subseteq RelKey
    /\ Cardinality(DOMAIN relationships) <= MaxRelationships
    /\ DOMAIN pending \subseteq PendingKey
    /\ \A k \in DOMAIN pending : pending[k] \in [sent_at : 0 .. MaxClock, op : Op]
    /\ \A r \in DOMAIN relationships : relationships[r].exceptions <= relationships[r].responses

(* Every request still awaited belongs to a relationship that is shown, so  *)
(* each one that times out is counted as missing somewhere: neither the    *)
(* cap, nor reset() between request and answer, leaves one without.        *)
PendingTracked == \A k \in DOMAIN pending : RelOf(k, pending[k]) \in DOMAIN relationships

(* A request is accounted for at most once: over all relationships, those   *)
(* answered in time, those counted missing and those still awaited are no  *)
(* more than the requests seen.  Late answers, answers that name another   *)
(* unit or function, and reused transaction ids do not count it twice.     *)
RequestsAccounted ==
    LET Sum(field(_)) == FoldFunction(+, 0, [r \in DOMAIN relationships |-> field(relationships[r])])
    IN Sum(LAMBDA rel : rel.timed) + Sum(LAMBDA rel : rel.missing) + Cardinality(DOMAIN pending)
          <= Sum(LAMBDA rel : rel.requests)

(* A response time is one of an answer in time: never above                 *)
(* _PENDING_TIMEOUT_SECONDS, since the handler expires old requests with    *)
(* the very time it then subtracts, and never negative unless the clock     *)
(* was set back.                                                            *)
ResponseTimesInTime ==
    \A r \in DOMAIN relationships :
        relationships[r].timed > 0 =>
            /\ relationships[r].max_ms <= PendingTimeout
            /\ setbacks = 0 => relationships[r].min_ms >= 0
=============================================================================
