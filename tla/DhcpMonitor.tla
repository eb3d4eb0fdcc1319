---------------------------- MODULE DhcpMonitor ----------------------------
(***************************************************************************)
(* capture/dhcp_monitor.py: the DHCP servers seen answering, by server     *)
(* identifier or, without that option, by source address.  The dictionary  *)
(* is a function on the servers it holds; nothing expires.                 *)
(***************************************************************************)
EXTENDS Listener, FiniteSets

CONSTANTS Reply,        \* the replies that may arrive
          Server,       \* server addresses
          Lease,        \* addresses handed out; None stands for 0.0.0.0
          MaxServers, MaxSample

\* A reply that parses, from port 67: any message type, with or without a
\* server identifier (a relay's source address differs from it).
ASSUME DhcpAssumption ==
    /\ MaxServers \in Nat \ {0} /\ MaxSample \in Nat
    /\ Reply \subseteq [mac : Mac, src : Server, identifier : Server \cup {None},
                       type : {"offer", "ack", "nak"}, lease : Lease \cup {None}]

VARIABLES
    servers,   \* _servers
    replies    \* history: servers of the offers and acks handled since reset()

dhcpVars == <<servers, replies>>

DhcpInit == servers = <<>> /\ replies = {}

ServerOf_Source(p) == p.src
ServerOf(p) == IF p.identifier = None THEN p.src ELSE p.identifier

ReceiveReply ==
    /\ \E p \in Reply : p.type \in {"offer", "ack"} /\ Receive(p)
    /\ UNCHANGED dhcpVars

NewServer(mac, now) ==
    [mac |-> mac, offers |-> 0, acks |-> 0,
     first_seen |-> now, last_seen |-> now, offered_ips |-> {}]

Sampled(ips, lease) ==
    IF lease # None /\ Cardinality(ips) < MaxSample THEN ips \cup {lease} ELSE ips

\* One more reply of a server.
Update(entry, p, now) ==
    [entry EXCEPT !.mac = p.mac, !.last_seen = now,
                  !.offers = IF p.type = "offer" THEN @ + 1 ELSE @,
                  !.acks = IF p.type = "ack" THEN @ + 1 ELSE @,
                  !.offered_ips = Sampled(@, p.lease)]

HandleReply ==
    /\ packet # None
    /\ LET p == packet.content
           s == ServerOf(p)
       IN /\ replies' = replies \cup {IF p.identifier = None THEN p.src ELSE p.identifier}
          /\ \/ /\ s \in DOMAIN servers
                /\ servers' = [servers EXCEPT ![s] = Update(@, p, packet.now)]
             \/ /\ s \notin DOMAIN servers /\ Cardinality(DOMAIN servers) < MaxServers
                /\ servers' = [t \in DOMAIN servers \cup {s} |->
                                 IF t = s THEN Update(NewServer(p.mac, packet.now), p, packet.now)
                                          ELSE servers[t]]
             \/ /\ s \notin DOMAIN servers /\ Cardinality(DOMAIN servers) >= MaxServers
                /\ UNCHANGED servers
    /\ Handled

ResetServers == servers' = <<>> /\ replies' = {} /\ UNCHANGED listenerVars

DhcpNext ==
    \/ (Tick \/ SetBack) /\ UNCHANGED dhcpVars
    \/ ReceiveReply
    \/ HandleReply
    \/ ResetServers

DhcpSpec == ListenerInit /\ DhcpInit /\ [][DhcpNext]_<<listenerVars, dhcpVars>>

\* get_servers(): "multiple_servers_detected".
MultipleServersDetected == Cardinality(DOMAIN servers) > 1

-----------------------------------------------------------------------------
DhcpTypeOK ==
    /\ DOMAIN servers \subseteq Server
    /\ \A s \in DOMAIN servers :
          /\ servers[s].offers + servers[s].acks \in 1 .. MaxPackets
          /\ Cardinality(servers[s].offered_ips) <= MaxSample
    /\ replies \subseteq Server

(* The alarm is on exactly when two different servers answered since the    *)
(* last reset(), whatever relays, repeated answers, a changed MAC or a full *)
(* table did in between.                                                   *)
AlarmExact ==
    MaxServers > 1 => (MultipleServersDetected <=> Cardinality(replies) > 1)
=============================================================================
