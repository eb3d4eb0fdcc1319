----------------------------- MODULE Neighbors -----------------------------
(***************************************************************************)
(* The neighbor tables of discovery/lldp.py, cdp.py and mndp.py: the same  *)
(* _neighbors dictionary, capped on writing and aged on reading, behind    *)
(* three parsers of TLV payloads.                                          *)
(*                                                                         *)
(* An entry's `since`, the number of the packet that brought its key, is   *)
(* its place in the dictionary: an updated key keeps it, and min() returns *)
(* the first of equals.                                                    *)
(***************************************************************************)
EXTENDS Listener, SequencesExt, FiniteSets

CONSTANTS Announcement,   \* the packets that may arrive: a MAC and its TLVs
          Empty,          \* the empty string
          MaxNeighbors, StaleAfter

Field == {"name", "address", "version"}

\* A TLV is complete, cut off by the end of the packet, the end marker, said to
\* be shorter than its header (only CDP's length counts the header), or of a
\* type or content that is not understood.
Form == {"whole", "cut", "end", "short", "unread"}
TlvType == [field : Field, value : STRING, form : Form]

ASSUME NeighborsAssumption ==
    /\ MaxNeighbors \in Nat \ {0} /\ StaleAfter \in Nat
    /\ \A p \in Announcement : p.mac \in Mac /\ p.payload \in Seq(TlvType)

VARIABLES
    neighbors,   \* _neighbors, on the MACs it holds
    reading,     \* the time a get_neighbors() read before it took the lock
    heard        \* history: the last packet handled, of the MACs heard from, and its parser

neighborsVars == <<neighbors, reading, heard>>

NoFields == [f \in Field |-> None]

-----------------------------------------------------------------------------
(* The parsers: one TLV after the other, a later value replaces an earlier *)
(* one.  A CDP length below the header's ends the loop only after the TLV  *)
(* was read as empty, and the first line of an empty CDP version raises.   *)

Stops(protocol, tlv) ==
    \/ tlv.form = "cut"
    \/ tlv.form = "end" /\ protocol = "lldp"

Value(tlv) == IF tlv.form = "short" THEN Empty ELSE tlv.value

Carries(tlv) ==
    /\ tlv.form \in {"whole", "short"}
    /\ tlv.field = "address" => Value(tlv) # Empty

Raises(protocol, tlv) ==
    protocol = "cdp" /\ Carries(tlv) /\ tlv.field = "version" /\ Value(tlv) = Empty

ReadTlv_CutRead(protocol, acc, tlv) ==
    IF acc.done THEN acc
    ELSE [fields |-> IF Carries(tlv) \/ tlv.form = "cut"
                     THEN [acc.fields EXCEPT ![tlv.field] = Value(tlv)] ELSE acc.fields,
          done |-> Stops(protocol, tlv) \/ tlv.form = "short",
          raised |-> acc.raised \/ Raises(protocol, tlv)]
ReadTlv(protocol, acc, tlv) ==
    IF acc.done THEN acc
    ELSE IF Stops(protocol, tlv) THEN [acc EXCEPT !.done = TRUE]
    ELSE [fields |-> IF Carries(tlv) THEN [acc.fields EXCEPT ![tlv.field] = Value(tlv)]
                                     ELSE acc.fields,
          done |-> tlv.form = "short" \/ Raises(protocol, tlv),
          raised |-> Raises(protocol, tlv)]

Parse(protocol, payload) ==
    FoldLeft(LAMBDA acc, tlv : ReadTlv(protocol, acc, tlv),
             [fields |-> NoFields, done |-> FALSE, raised |-> FALSE], payload)

-----------------------------------------------------------------------------
NeighborsInit ==
    neighbors = <<>> /\ reading = None /\ heard = <<>>

Put(table, mac, entry) ==
    [m \in DOMAIN table \cup {mac} |->
        IF m # mac THEN table[m]
        ELSE [entry EXCEPT !.since = IF mac \in DOMAIN table THEN table[mac].since ELSE @]]

OldestOf_FirstKey(table) ==
    CHOOSE m \in DOMAIN table : \A o \in DOMAIN table : table[m].since <= table[o].since
\* min() over the keys by last_seen.
OldestOf(table) ==
    CHOOSE m \in DOMAIN table : \A o \in DOMAIN table :
        \/ table[m].last_seen < table[o].last_seen
        \/ table[m].last_seen = table[o].last_seen /\ table[m].since <= table[o].since

Without(table, mac) == Restrict(table, DOMAIN table \ {mac})

Evict_OverByOne(table, mac) ==
    IF Cardinality(DOMAIN table) > MaxNeighbors + 1 /\ OldestOf(table) # mac
    THEN Without(table, OldestOf(table)) ELSE table
Evict(table, mac) ==
    IF Cardinality(DOMAIN table) > MaxNeighbors /\ OldestOf(table) # mac
    THEN Without(table, OldestOf(table)) ELSE table

\* _handle_packet() up to its lock; the dispatcher swallows what the parser
\* raises, and nothing is stored.
ReceiveNeighbor(protocol) ==
    /\ \E p \in Announcement :
          /\ \A i \in DOMAIN p.payload : p.payload[i].form = "short" => protocol = "cdp"
          /\ ~ Parse(protocol, p.payload).raised
          /\ Receive(p)
    /\ UNCHANGED neighborsVars

\* The rest of it, under the lock.
HandleNeighbor(protocol) ==
    /\ packet # None
    /\ LET p == packet.content
           entry == [since |-> received, last_seen |-> packet.now,
                     fields |-> Parse(protocol, p.payload).fields]
       IN /\ neighbors' = Evict(Put(neighbors, p.mac, entry), p.mac)
          /\ heard' = [m \in DOMAIN heard \cup {p.mac} |->
                         IF m # p.mac THEN heard[m]
                         ELSE [at |-> packet.now, protocol |-> protocol, payload |-> p.payload]]
    /\ Handled
    /\ UNCHANGED reading

\* get_neighbors(): the time, then the purge under the lock.
GetNeighbors ==
    /\ reading = None
    /\ reading' = clock
    /\ UNCHANGED <<listenerVars, neighbors, heard>>

IsFresh(now, last_seen) == now - last_seen <= StaleAfter

Purged(table, now) ==
    Restrict(table, {m \in DOMAIN table : IsFresh(now, table[m].last_seen)})

PurgeStale ==
    /\ reading # None
    /\ neighbors' = Purged(neighbors, reading)
    /\ reading' = None
    /\ UNCHANGED <<listenerVars, heard>>

NeighborsNext(protocol) ==
    \/ (Tick \/ SetBack) /\ UNCHANGED neighborsVars
    \/ ReceiveNeighbor(protocol)
    \/ HandleNeighbor(protocol)
    \/ GetNeighbors
    \/ PurgeStale

NeighborsSpec(protocol) ==
    ListenerInit /\ NeighborsInit /\ [][NeighborsNext(protocol)]_<<listenerVars, neighborsVars>>

-----------------------------------------------------------------------------
NeighborsTypeOK ==
    /\ DOMAIN neighbors \subseteq Mac
    /\ \A m \in DOMAIN neighbors :
          neighbors[m] \in [since : 1 .. MaxPackets, last_seen : 0 .. MaxClock,
                           fields : [Field -> {None, Empty} \cup STRING]]
    /\ reading \in {None} \cup 0 .. MaxClock

(* The table outgrows _MAX_NEIGHBORS by at most one entry for every time    *)
(* the clock was set back: only then can the neighbor just stored be the   *)
(* oldest one, which _handle_packet() does not evict.                      *)
NeighborsBounded == Cardinality(DOMAIN neighbors) <= MaxNeighbors + setbacks

\* The others heard at the same time as m or later.
HeardSince(m) == {o \in DOMAIN heard \ {m} : heard[o].at >= heard[m].at}

(* A neighbor heard within the last 60 s is listed, unless _MAX_NEIGHBORS   *)
(* others were heard at the same time or later: eviction and the purge of  *)
(* a reader whose time is already old never hide a fresh neighbor.         *)
FreshNeighborListed ==
    setbacks = 0 =>
        \A m \in DOMAIN heard :
            IsFresh(clock, heard[m].at) /\ Cardinality(HeardSince(m)) < MaxNeighbors
                => m \in DOMAIN neighbors

\* The TLVs that count: none before them, nor they themselves, ended the loop.
Counting(protocol, payload) ==
    {i \in DOMAIN payload : /\ ~ Stops(protocol, payload[i])
                            /\ \A j \in 1 .. i - 1 : /\ ~ Stops(protocol, payload[j])
                                                     /\ payload[j].form # "short"}

\* What a payload says of a field: the last TLV that counts and carries it.
Says(protocol, payload, f) ==
    LET given == {i \in Counting(protocol, payload) :
                    Carries(payload[i]) /\ payload[i].field = f}
    IN IF given = {} THEN None ELSE Value(payload[Max(given)])

(* An entry shows exactly what its MAC's last packet said before its first  *)
(* unreadable byte: nothing of an earlier packet, nothing after a TLV that *)
(* is cut off.                                                             *)
FieldsOfLastPacket ==
    \A m \in DOMAIN neighbors :
        /\ m \in DOMAIN heard /\ neighbors[m].last_seen = heard[m].at
        /\ \A f \in Field : neighbors[m].fields[f] = Says(heard[m].protocol, heard[m].payload, f)
=============================================================================
