---------------------------- MODULE MCTrackers ----------------------------
(***************************************************************************)
(* The passive listeners side by side.  They share the dispatcher's thread *)
(* and the clock but no table, so one behaviour is a behaviour of one of   *)
(* them: `tracker` is chosen at the start and says which.                  *)
(***************************************************************************)
EXTENDS Neighbors, IpConflict, DhcpMonitor, TrafficStats, ModbusTraffic

CONSTANTS Trackers,   \* the listeners a run is about
          s1, s2      \* two of the servers
VARIABLE tracker

Tlv(field, value, form) == [field |-> field, value |-> value, form |-> form]

Plain == <<Tlv("name", "a", "whole"), Tlv("address", "x", "whole"), Tlv("name", "b", "whole")>>
Broken == <<Tlv("address", "y", "whole"), Tlv("address", Empty, "whole"), Tlv("name", "a", "end"),
            Tlv("name", "b", "whole"), Tlv("name", "a", "unread"), Tlv("address", "x", "cut")>>
EmptyVersion == <<Tlv("name", "a", "whole"), Tlv("version", Empty, "whole")>>
ShortName == <<Tlv("name", "a", "whole"), Tlv("name", "b", "short"), Tlv("address", "x", "whole")>>

SmallAnnouncements ==
    [mac : Mac, payload : {Plain}]
    \cup [mac : {SelfMac}, payload : {Broken, EmptyVersion, ShortName}]

SmallReplies ==
    [mac : {SelfMac}, src : {s1}, identifier : Server, type : {"offer", "nak"}, lease : Lease]
    \cup [mac : Mac \ {SelfMac}, src : {s1, s2}, identifier : {None}, type : {"ack"}, lease : {None}]

SmallFrame(src, dst, ether, service, data) ==
    [src |-> src, dst |-> dst, ether |-> ether, service |-> service, data |-> data,
     ip |-> "10.0.0.1", length |-> 2]

SmallFrames ==
    {SmallFrame(m, "all", "arp", None, FALSE) : m \in Mac \ {SelfMac}}
    \cup {SmallFrame(SelfMac, "cdp", "other", None, FALSE),
          SmallFrame(SelfMac, "host", "ipv4", "s7", TRUE)}

\* Only SelfMac and the servers are told apart.
Symmetric == Permutations(Mac \ {SelfMac}) \cup Permutations(Tid) \cup Permutations(Op)

NeighborProtocols == {"lldp", "cdp", "mndp"}

TrackerInit ==
    /\ ListenerInit /\ NeighborsInit /\ ConflictInit /\ DhcpInit /\ TrafficInit /\ ModbusInit
    /\ tracker \in Trackers

TrackerNext ==
    \/ /\ tracker \in NeighborProtocols /\ NeighborsNext(tracker)
       /\ UNCHANGED <<tracker, conflictVars, dhcpVars, trafficVars, modbusVars>>
    \/ /\ tracker = "conflict" /\ ConflictNext
       /\ UNCHANGED <<tracker, neighborsVars, dhcpVars, trafficVars, modbusVars>>
    \/ /\ tracker = "dhcp" /\ DhcpNext
       /\ UNCHANGED <<tracker, neighborsVars, conflictVars, trafficVars, modbusVars>>
    \/ /\ tracker = "traffic" /\ TrafficNext
       /\ UNCHANGED <<tracker, neighborsVars, conflictVars, dhcpVars, modbusVars>>
    \/ /\ tracker = "modbus" /\ ModbusNext
       /\ UNCHANGED <<tracker, neighborsVars, conflictVars, dhcpVars, trafficVars>>

TrackerSpec ==
    TrackerInit
    /\ [][TrackerNext]_<<tracker, listenerVars, neighborsVars, conflictVars, dhcpVars,
                         trafficVars, modbusVars>>

\* The types of all tables.
TrackersTypeOK ==
    NeighborsTypeOK /\ ConflictTypeOK /\ DhcpTypeOK /\ TrafficTypeOK /\ ModbusTypeOK
=============================================================================
