---------------------------- MODULE TrafficStats ----------------------------
(***************************************************************************)
(* capture/traffic_stats.py: running totals, totals per talker and the     *)
(* packets of the last _RATE_WINDOW_SECONDS.  started_at is left out.      *)
(***************************************************************************)
EXTENDS Listener, Sequences, FiniteSets

CONSTANTS Frame,     \* the frames that may arrive, by what _classify() looks at
          SelfMac,   \* of eth0
          RateWindow, MaxTalkers

ASSUME TrafficAssumption ==
    /\ RateWindow \in Nat /\ MaxTalkers \in Nat
    /\ \A f \in Frame : f.length \in Nat
    /\ SelfMac # "unread" /\ None # "unread"

VARIABLES
    stats,      \* _stats
    talkers,    \* _talkers, on the MACs it holds
    recent,     \* _recent_packets
    selfMac,    \* _self_mac_cache: "unread", SelfMac, or None if sysfs failed
    counted     \* history: the frames recorded since reset(), with their time

trafficVars == <<stats, talkers, recent, selfMac, counted>>

ProtocolNames == {"arp", "ipv4", "ipv6", "dhcp", "lldp", "cdp", "mdns", "ssdp", "profinet", "s7"}
Cast == {"broadcast", "multicast", "unicast"}

-----------------------------------------------------------------------------
(* _classify().  A frame has an ethertype, a destination and, in IPv4, the  *)
(* service its ports name; `data` says that a TCP segment carries some.     *)

CastOf(f) == IF f.dst = "all" THEN "broadcast"
             ELSE IF f.dst \in {"group", "cdp"} THEN "multicast" ELSE "unicast"

Service(f) == IF f.service \in {"dhcp", "mdns", "ssdp"} \/ (f.service = "s7" /\ f.data)
              THEN {f.service} ELSE {}

ProtocolsOf(f) ==
    CASE f.ether = "arp" -> {"arp"}
      [] f.ether = "ipv4" -> {"ipv4"} \cup Service(f)
      [] f.ether \in {"ipv6", "lldp", "profinet"} -> {f.ether}
      [] f.ether = "other" /\ f.dst = "cdp" -> {"cdp"}
      [] OTHER -> {}

SourceIp(f) == IF f.ether \in {"arp", "ipv4"} THEN f.ip ELSE None

-----------------------------------------------------------------------------
NoCounts == [packets |-> 0, bytes |-> 0, cast |-> [c \in Cast |-> 0],
             protocols |-> [p \in ProtocolNames |-> 0]]

TrafficInit ==
    /\ stats = NoCounts /\ talkers = <<>> /\ recent = <<>>
    /\ selfMac = "unread" /\ counted = <<>>

Count(totals, f) ==
    [packets |-> totals.packets + 1,
     bytes |-> totals.bytes + f.length,
     cast |-> [totals.cast EXCEPT ![CastOf(f)] = @ + 1],
     protocols |-> [p \in ProtocolNames |->
                      totals.protocols[p] + (IF p \in ProtocolsOf(f) THEN 1 ELSE 0)]]

\* A talker's row also keeps its last source address and has no unicast column.
NewTalker == [totals |-> NoCounts, ip |-> None]
CountTalker(row, f) ==
    [totals |-> Count(row.totals, f), ip |-> IF SourceIp(f) = None THEN row.ip ELSE SourceIp(f)]

Trim_Inclusive(window, now) ==
    LET kept == {i \in DOMAIN window : window[i].at > now - RateWindow}
    IN IF kept = {} THEN <<>>
       ELSE SubSeq(window, CHOOSE i \in kept : \A j \in kept : i <= j, Len(window))
\* popleft() while the head is older than the window.
Trim(window, now) ==
    LET kept == {i \in DOMAIN window : window[i].at >= now - RateWindow}
    IN IF kept = {} THEN <<>>
       ELSE SubSeq(window, CHOOSE i \in kept : \A j \in kept : i <= j, Len(window))

ReceiveFrame ==
    /\ \E f \in Frame : Receive(f)
    /\ UNCHANGED trafficVars

\* _self_mac(): the interface's own address is read from sysfs once.
OwnMac == IF selfMac = "unread" THEN {SelfMac, None} ELSE {selfMac}

\* _classify_and_record() under the lock.
HandleFrame ==
    /\ packet # None
    /\ LET f == packet.content
       IN /\ stats' = Count(stats, f)
          /\ counted' = Append(counted, [at |-> packet.now, frame |-> f])
          /\ recent' = Trim(Append(recent, [at |-> packet.now, mac |-> f.src, length |-> f.length]),
                            packet.now)
          /\ selfMac' \in OwnMac
          /\ \/ /\ f.src = selfMac'
                /\ UNCHANGED talkers
             \/ /\ f.src # selfMac' /\ f.src \in DOMAIN talkers
                /\ talkers' = [talkers EXCEPT ![f.src] = CountTalker(@, f)]
             \/ /\ f.src # selfMac' /\ f.src \notin DOMAIN talkers
                /\ Cardinality(DOMAIN talkers) < MaxTalkers
                /\ talkers' = [m \in DOMAIN talkers \cup {f.src} |->
                                 IF m = f.src THEN CountTalker(NewTalker, f) ELSE talkers[m]]
             \/ /\ f.src # selfMac' /\ f.src \notin DOMAIN talkers
                /\ Cardinality(DOMAIN talkers) >= MaxTalkers
                /\ UNCHANGED talkers
    /\ Handled

\* get_stats() trims the window before it derives the rates.
GetTrafficStats ==
    /\ recent' = Trim(recent, clock)
    /\ UNCHANGED <<listenerVars, stats, talkers, selfMac, counted>>

ResetTraffic_KeepTalkers ==
    /\ stats' = NoCounts /\ recent' = <<>> /\ counted' = <<>>
    /\ UNCHANGED <<listenerVars, talkers, selfMac>>
ResetTraffic ==
    /\ stats' = NoCounts /\ talkers' = <<>> /\ recent' = <<>> /\ counted' = <<>>
    /\ UNCHANGED <<listenerVars, selfMac>>

TrafficNext ==
    \/ (Tick \/ SetBack) /\ UNCHANGED trafficVars
    \/ ReceiveFrame
    \/ HandleFrame
    \/ GetTrafficStats
    \/ ResetTraffic

TrafficSpec == ListenerInit /\ TrafficInit /\ [][TrafficNext]_<<listenerVars, trafficVars>>

-----------------------------------------------------------------------------
TrafficTypeOK ==
    /\ DOMAIN talkers \subseteq Mac
    /\ Cardinality(DOMAIN talkers) <= MaxTalkers
    /\ stats.packets \in 0 .. MaxPackets
    /\ selfMac \in {"unread", SelfMac, None}

\* The counted frames of a talker that satisfy P.
CountedBy(m, P(_)) ==
    Cardinality({i \in DOMAIN counted : counted[i].frame.src = m /\ P(counted[i].frame)})

(* The talker table and the summary describe the same period: a row counts  *)
(* every frame of its MAC since the last reset(), also when the table was  *)
(* full or a read or reset() came between capture and recording, the split *)
(* of the totals adds up, and eth0's own MAC is no talker once it is known. *)
TalkersExact ==
    /\ stats.packets = Len(counted)
    /\ stats.cast["broadcast"] + stats.cast["multicast"] + stats.cast["unicast"] = stats.packets
    /\ \A m \in DOMAIN talkers :
          /\ talkers[m].totals.packets = CountedBy(m, LAMBDA f : TRUE)
          /\ \A p \in ProtocolNames :
                talkers[m].totals.protocols[p] = CountedBy(m, LAMBDA f : p \in ProtocolsOf(f))
          /\ m # selfMac

(* The live rate is over the frames of the last five seconds: no frame that *)
(* recent is missing from the window, the window holds nothing from before *)
(* a reset(), and what was dropped from it is older than the window.       *)
WindowExact ==
    setbacks = 0 =>
        \E k \in 0 .. Len(counted) :
            /\ Len(recent) = Len(counted) - k
            /\ \A i \in DOMAIN recent : /\ recent[i].at = counted[k + i].at
                                        /\ recent[i].mac = counted[k + i].frame.src
            /\ \A i \in 1 .. k : counted[i].at < clock - RateWindow
=============================================================================
