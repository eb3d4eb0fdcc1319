----------------------------- MODULE IpConflict -----------------------------
(***************************************************************************)
(* capture/ip_conflict.py: which MACs claim which address in ARP.  A claim *)
(* expires _MAC_TTL_SECONDS after it was last heard; expired claims go     *)
(* whenever the table is written or read.  An address that arrives at a    *)
(* full table is not recorded.                                             *)
(***************************************************************************)
EXTENDS Listener, FiniteSets, Functions

CONSTANTS Ip, MacTtl, MaxTrackedIps

ASSUME ConflictAssumption == MacTtl \in Nat /\ MaxTrackedIps \in Nat

VARIABLES
    owners,   \* _owners: address -> MAC -> last_seen, both partial
    claims    \* history: the last recorded claim of each pair, since reset()

conflictVars == <<owners, claims>>

ConflictInit == owners = <<>> /\ claims = [c \in Ip \X Mac |-> None]

LiveClaim(now, last_seen) == now - last_seen <= MacTtl

PruneStaleMacs_WholeAddress(table, now) ==
    [ip \in {i \in DOMAIN table : \E m \in DOMAIN table[i] : LiveClaim(now, table[i][m])} |->
        table[ip]]
\* _prune_stale_macs(): expired claims, and addresses nobody claims any more.
PruneStaleMacs(table, now) ==
    LET live(ip) == {m \in DOMAIN table[ip] : LiveClaim(now, table[ip][m])}
    IN [ip \in {i \in DOMAIN table : live(i) # {}} |-> Restrict(table[ip], live(ip))]

\* handle_packet() of an ARP packet whose sender address is not 0.0.0.0.
ReceiveArp ==
    /\ \E ip \in Ip, mac \in Mac : Receive([ip |-> ip, mac |-> mac])
    /\ UNCHANGED conflictVars

MacsOf(table, ip) == IF ip \in DOMAIN table THEN DOMAIN table[ip] ELSE {}

Claimed(table, ip, mac, now) ==
    [i \in DOMAIN table \cup {ip} |->
        IF i # ip THEN table[i]
        ELSE [m \in MacsOf(table, ip) \cup {mac} |-> IF m = mac THEN now ELSE table[ip][m]]]

HandleArp ==
    /\ packet # None
    /\ LET p == packet.content
           table == PruneStaleMacs(owners, packet.now)
           full == p.ip \notin DOMAIN table /\ Cardinality(DOMAIN table) >= MaxTrackedIps
       IN  \/ /\ full
              /\ owners' = table
              /\ claims' = [claims EXCEPT ![<<p.ip, p.mac>>] = None]
           \/ /\ ~full
              /\ owners' = Claimed(table, p.ip, p.mac, packet.now)
              /\ claims' = [claims EXCEPT ![<<p.ip, p.mac>>] = packet.now]
    /\ Handled

GetConflicts ==
    /\ owners' = PruneStaleMacs(owners, clock)
    /\ UNCHANGED <<listenerVars, claims>>

ResetConflicts ==
    /\ owners' = <<>>
    /\ claims' = [c \in Ip \X Mac |-> None]
    /\ UNCHANGED listenerVars

ConflictNext ==
    \/ (Tick \/ SetBack) /\ UNCHANGED conflictVars
    \/ ReceiveArp
    \/ HandleArp
    \/ GetConflicts
    \/ ResetConflicts

ConflictSpec ==
    ListenerInit /\ ConflictInit /\ [][ConflictNext]_<<listenerVars, conflictVars>>

\* The "conflicts" get_conflicts() answers at this moment.
Conflicts ==
    LET table == PruneStaleMacs(owners, clock)
    IN {ip \in DOMAIN table : Cardinality(DOMAIN table[ip]) >= 2}

-----------------------------------------------------------------------------
ConflictTypeOK ==
    /\ DOMAIN owners \subseteq Ip
    /\ \A ip \in DOMAIN owners : /\ DOMAIN owners[ip] \subseteq Mac
                                 /\ \A m \in DOMAIN owners[ip] : owners[ip][m] \in 0 .. MaxClock
    /\ Cardinality(DOMAIN owners) <= MaxTrackedIps
    /\ claims \in [Ip \X Mac -> {None} \cup 0 .. MaxClock]

(* An address is reported exactly while two recorded claims on it are no    *)
(* older than the TTL: a MAC that fell silent leaves no phantom conflict,  *)
(* and pruning, other addresses and delayed handlers mask no real one.     *)
ConflictsExact ==
    setbacks = 0 =>
        Conflicts = {ip \in Ip : Cardinality({m \in Mac :
                        claims[<<ip, m>>] # None /\ LiveClaim(clock, claims[<<ip, m>>])}) >= 2}
=============================================================================
