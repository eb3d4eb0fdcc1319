--------------------------- MODULE TrackerProofs ---------------------------
(***************************************************************************)
(* Proofs about the tables of the passive listeners: DhcpMonitor.tla,      *)
(* IpConflict.tla, TrafficStats.tla and Neighbors.tla, for any caps and    *)
(* times, any number of packets and any course of the clock.               *)
(***************************************************************************)
EXTENDS Neighbors, IpConflict, DhcpMonitor, TrafficStats, FoldTheorems,
        SequenceTheorems

\* The clock, and the time of the packet being handled.
TimesFit ==
    /\ clock \in Nat /\ setbacks \in Nat
    /\ packet # None => packet.now \in Nat /\ (setbacks = 0 => packet.now <= clock)

\* The steps of Listener.tla keep that.  At the start there is no packet.
LEMMA TimesFitInit == ListenerInit => TimesFit
  BY DEF ListenerInit, TimesFit

\* Time moves on,
LEMMA TimesFitTick == ASSUME TimesFit, Tick PROVE TimesFit'
  BY DEF TimesFit, Tick

\* is corrected,
LEMMA TimesFitSetBack == ASSUME TimesFit, SetBack PROVE TimesFit'
  BY DEF TimesFit, SetBack

\* is read by a handler,
LEMMA TimesFitReceive == ASSUME TimesFit, NEW p, Receive(p) PROVE TimesFit'
  BY DEF TimesFit, Receive

\* and the handler is done.
LEMMA TimesFitHandled == ASSUME TimesFit, Handled PROVE TimesFit'
  BY DEF TimesFit, Handled
-----------------------------------------------------------------------------
(* capture/dhcp_monitor.py *)

\* The table holds the servers that answered, all of them unless it is full.
ServersFit ==
    /\ IsFiniteSet(replies) /\ DOMAIN servers \subseteq replies
    /\ DOMAIN servers = replies \/ Cardinality(DOMAIN servers) >= MaxServers

\* The servers of a DHCP reply stay known.
LEMMA ServersFitNext == ASSUME ServersFit, DhcpNext PROVE ServersFit'
  <1>1. ASSUME UNCHANGED dhcpVars PROVE ServersFit'
    BY <1>1 DEF ServersFit, dhcpVars
  <1>2. ASSUME HandleReply PROVE ServersFit'
    <2>1. PICK s : s = ServerOf(packet.content)
      OBVIOUS
    <2>2. replies' = replies \cup {s}
      BY <1>2, <2>1 DEF HandleReply, ServerOf
    <2>3. IsFiniteSet(replies')
      BY <2>2, FS_AddElement DEF ServersFit
    <2>4. CASE s \in DOMAIN servers
      <3>1. DOMAIN servers' = DOMAIN servers /\ replies' = replies
        BY <1>2, <2>1, <2>2, <2>4 DEF HandleReply, ServersFit
      <3>2. QED
        BY <3>1 DEF ServersFit
    <2>5. CASE s \notin DOMAIN servers /\ Cardinality(DOMAIN servers) < MaxServers
      <3>1. IsFiniteSet(DOMAIN servers) /\ Cardinality(DOMAIN servers) \in Nat
        BY FS_Subset, FS_CardinalityType DEF ServersFit
      <3>2. DOMAIN servers = replies /\ ~(Cardinality(DOMAIN servers) >= MaxServers)
        BY <2>5, <3>1, DhcpAssumption DEF ServersFit
      <3>3. DOMAIN servers' = DOMAIN servers \cup {s}
        BY <1>2, <2>1, <2>5, <3>2 DEF HandleReply
      <3>4. QED
        BY <2>2, <2>3, <3>2, <3>3 DEF ServersFit
    <2>6. CASE s \notin DOMAIN servers /\ Cardinality(DOMAIN servers) >= MaxServers
      <3>1. servers' = servers
        <4>1. IsFiniteSet(DOMAIN servers) /\ Cardinality(DOMAIN servers) \in Nat
          BY FS_Subset, FS_CardinalityType DEF ServersFit
        <4>2. QED
          BY <1>2, <2>1, <2>6, <4>1, DhcpAssumption DEF HandleReply
      <3>2. QED
        BY <2>2, <2>3, <2>6, <3>1 DEF ServersFit
    <2>7. QED
      BY <1>2, <2>1, <2>4, <2>5, <2>6 DEF HandleReply
  <1>3. ASSUME ResetServers PROVE ServersFit'
    BY <1>3, FS_EmptySet DEF ResetServers, ServersFit
  <1>4. QED
    BY <1>1, <1>2, <1>3 DEF DhcpNext, ReceiveReply

(* The alarm of get_servers() is on exactly when two different servers      *)
(* answered since the last reset(), for any cap above one, any number of    *)
(* servers and replies, and whatever a full table turned away               *)
(* (dhcp_monitor.py).                                                       *)
THEOREM AlarmIsExact == DhcpSpec => []AlarmExact
  <1>1. DhcpInit => ServersFit
    BY FS_EmptySet DEF DhcpInit, ServersFit
  <1>2. ServersFit /\ UNCHANGED <<listenerVars, dhcpVars>> => ServersFit'
    BY DEF ServersFit, dhcpVars
  <1>3. ASSUME ServersFit PROVE AlarmExact
    <2>1. /\ IsFiniteSet(DOMAIN servers) /\ Cardinality(DOMAIN servers) \in Nat
          /\ Cardinality(replies) \in Nat
          /\ Cardinality(DOMAIN servers) <= Cardinality(replies)
      BY <1>3, FS_Subset, FS_CardinalityType DEF ServersFit
    <2>2. QED
      BY <1>3, <2>1, DhcpAssumption DEF ServersFit, AlarmExact, MultipleServersDetected
  <1>4. QED
    BY <1>1, <1>2, <1>3, ServersFitNext, PTL DEF DhcpSpec

-----------------------------------------------------------------------------
(* capture/ip_conflict.py *)

Claims == [Ip \X Mac -> {None} \cup Nat]

\* The table holds claims that were made, with the time of the last one.
EntriesFit(table, made) ==
    /\ DOMAIN table \subseteq Ip
    /\ \A ip \in DOMAIN table :
          /\ DOMAIN table[ip] \subseteq Mac
          /\ \A m \in DOMAIN table[ip] : /\ made[<<ip, m>>] = table[ip][m]
                                         /\ table[ip][m] \in Nat

\* It holds all that are live.
LiveListed(table, made, now) ==
    \A ip \in Ip, m \in Mac :
        made[<<ip, m>>] # None /\ LiveClaim(now, made[<<ip, m>>])
            => ip \in DOMAIN table /\ m \in DOMAIN table[ip]

ClaimsFit ==
    /\ TimesFit /\ claims \in Claims
    /\ packet # None => packet.content \in [ip : Ip, mac : Mac]
    /\ EntriesFit(owners, claims)
    /\ setbacks = 0 => LiveListed(owners, claims, clock)

\* What pruning leaves: the live claims of each address that has one.
LiveOf(table, now, t) ==
    /\ DOMAIN t \subseteq DOMAIN table
    /\ \A ip \in DOMAIN t :
          /\ DOMAIN t[ip] = {m \in DOMAIN table[ip] : LiveClaim(now, table[ip][m])}
          /\ \A m \in DOMAIN t[ip] : t[ip][m] = table[ip][m]
    /\ \A ip \in DOMAIN table : \A m \in DOMAIN table[ip] :
          LiveClaim(now, table[ip][m]) => ip \in DOMAIN t

\* _prune_stale_macs() leaves no more and no less.
LEMMA PruneLeaves ==
  ASSUME NEW table, NEW now, NEW t, t = PruneStaleMacs(table, now)
  PROVE  LiveOf(table, now, t)
  BY DEF PruneStaleMacs, Restrict, LiveOf

\* It loses nothing that is live then or later.
LEMMA PruneKeeps ==
  ASSUME NEW table, NEW made \in Claims, NEW now \in Nat,
         EntriesFit(table, made)
  PROVE  /\ EntriesFit(PruneStaleMacs(table, now), made)
         /\ \A later \in Nat : now <= later /\ LiveListed(table, made, later)
               => LiveListed(PruneStaleMacs(table, now), made, later)
  <1>1. PICK t : t = PruneStaleMacs(table, now)
    OBVIOUS
  <1>2. LiveOf(table, now, t)
    BY <1>1, PruneLeaves
  <1>3. EntriesFit(t, made)
    BY <1>2 DEF EntriesFit, LiveOf
  <1>4. ASSUME NEW later \in Nat, now <= later, LiveListed(table, made, later)
        PROVE  LiveListed(t, made, later)
    <2> SUFFICES ASSUME NEW ip \in Ip, NEW m \in Mac,
                        made[<<ip, m>>] # None, LiveClaim(later, made[<<ip, m>>])
                 PROVE  ip \in DOMAIN t /\ m \in DOMAIN t[ip]
      BY DEF LiveListed
    <2>1. ip \in DOMAIN table /\ m \in DOMAIN table[ip]
      BY <1>4 DEF LiveListed
    <2>2. made[<<ip, m>>] = table[ip][m] /\ table[ip][m] \in Nat
      BY <2>1 DEF EntriesFit
    <2>3. LiveClaim(now, table[ip][m])
      BY <1>4, <2>2, ConflictAssumption DEF LiveClaim
    <2>4. QED
      BY <1>2, <2>1, <2>3 DEF LiveOf
  <1>5. QED
    BY <1>1, <1>3, <1>4

\* A claim that is recorded.
LEMMA ClaimedKeeps ==
  ASSUME NEW table, NEW made \in Claims, NEW now \in Nat, NEW later \in Nat,
         NEW ip \in Ip, NEW mac \in Mac, EntriesFit(table, made)
  PROVE  LET recorded == [made EXCEPT ![<<ip, mac>>] = now]
         IN  /\ recorded \in Claims
             /\ EntriesFit(Claimed(table, ip, mac, now), recorded)
             /\ LiveListed(table, made, later)
                   => LiveListed(Claimed(table, ip, mac, now), recorded, later)
  <1>1. PICK rec, t : rec = [made EXCEPT ![<<ip, mac>>] = now] /\ t = Claimed(table, ip, mac, now)
    OBVIOUS
  <1>2. /\ rec \in Claims /\ rec[<<ip, mac>>] = now
        /\ \A i \in Ip, m \in Mac : <<i, m>> # <<ip, mac>> => rec[<<i, m>>] = made[<<i, m>>]
    BY <1>1 DEF Claims
  <1>3. /\ DOMAIN t = DOMAIN table \cup {ip}
        /\ \A i \in DOMAIN table : i # ip => t[i] = table[i]
        /\ DOMAIN t[ip] = MacsOf(table, ip) \cup {mac}
        /\ t[ip][mac] = now
        /\ \A m \in MacsOf(table, ip) : m # mac => t[ip][m] = table[ip][m]
    BY <1>1 DEF Claimed
  <1>4. EntriesFit(t, rec)
    <2>1. DOMAIN t \subseteq Ip
      BY <1>3 DEF EntriesFit
    <2>2. ASSUME NEW i \in DOMAIN t, i # ip
          PROVE  /\ DOMAIN t[i] \subseteq Mac
                 /\ \A m \in DOMAIN t[i] : rec[<<i, m>>] = t[i][m] /\ t[i][m] \in Nat
      BY <1>2, <1>3, <2>1, <2>2 DEF EntriesFit
    <2>3. /\ DOMAIN t[ip] \subseteq Mac
          /\ \A m \in DOMAIN t[ip] : rec[<<ip, m>>] = t[ip][m] /\ t[ip][m] \in Nat
      BY <1>2, <1>3 DEF EntriesFit, MacsOf
    <2>4. QED
      BY <2>1, <2>2, <2>3 DEF EntriesFit
  <1>5. ASSUME LiveListed(table, made, later) PROVE LiveListed(t, rec, later)
    BY <1>2, <1>3, <1>5 DEF LiveListed, MacsOf
  <1>6. QED
    BY <1>1, <1>2, <1>4, <1>5

\* A claim on an address that the table has no room for.
LEMMA UnclaimedKeeps ==
  ASSUME NEW table, NEW made \in Claims, NEW later \in Nat,
         NEW ip \in Ip, NEW mac \in Mac, EntriesFit(table, made), ip \notin DOMAIN table
  PROVE  LET recorded == [made EXCEPT ![<<ip, mac>>] = None]
         IN  /\ recorded \in Claims
             /\ EntriesFit(table, recorded)
             /\ LiveListed(table, made, later) => LiveListed(table, recorded, later)
  <1>1. PICK rec : rec = [made EXCEPT ![<<ip, mac>>] = None]
    OBVIOUS
  <1>2. /\ rec \in Claims /\ rec[<<ip, mac>>] = None
        /\ \A i \in Ip, m \in Mac : <<i, m>> # <<ip, mac>> => rec[<<i, m>>] = made[<<i, m>>]
    BY <1>1 DEF Claims
  <1>3. EntriesFit(table, rec)
    BY <1>2 DEF EntriesFit
  <1>4. LiveListed(table, made, later) => LiveListed(table, rec, later)
    BY <1>2 DEF LiveListed
  <1>5. QED
    BY <1>1, <1>2, <1>3, <1>4

\* Claims are kept track of.
LEMMA ClaimsFitNext == ASSUME ClaimsFit, ConflictNext PROVE ClaimsFit'
  <1> USE DEF ClaimsFit
  <1>1. ASSUME Tick, UNCHANGED conflictVars PROVE ClaimsFit'
    <2>1. TimesFit' /\ clock \in Nat /\ clock' = clock + 1 /\ UNCHANGED <<packet, setbacks>>
      BY <1>1, TimesFitTick DEF TimesFit, Tick
    <2>2. setbacks = 0 => LiveListed(owners, claims, clock')
      <3>1. ASSUME NEW ip \in Ip, NEW m \in Mac, claims[<<ip, m>>] # None,
                   LiveClaim(clock', claims[<<ip, m>>])
            PROVE  LiveClaim(clock, claims[<<ip, m>>])
        <4>1. claims[<<ip, m>>] \in Nat
          BY <3>1 DEF Claims
        <4>2. QED
          BY <2>1, <3>1, <4>1, ConflictAssumption DEF LiveClaim
      <3>2. QED
        BY <3>1 DEF LiveListed
    <2>3. QED
      BY <1>1, <2>1, <2>2 DEF conflictVars
  <1>2. ASSUME SetBack, UNCHANGED conflictVars PROVE ClaimsFit'
    <2>1. setbacks' # 0 /\ UNCHANGED packet
      BY <1>2 DEF SetBack, TimesFit
    <2>2. QED
      BY <1>2, <2>1, TimesFitSetBack DEF conflictVars
  <1>3. ASSUME ReceiveArp PROVE ClaimsFit'
    <2>1. PICK p \in [ip : Ip, mac : Mac] : Receive(p)
      BY <1>3 DEF ReceiveArp
    <2>2. TimesFit' /\ packet'.content = p /\ UNCHANGED <<clock, setbacks>>
      BY <2>1, TimesFitReceive DEF Receive
    <2>3. QED
      BY <1>3, <2>1, <2>2 DEF ReceiveArp, conflictVars
  <1>4. ASSUME HandleArp PROVE ClaimsFit'
    <2>1. PICK p, now, table : /\ p = packet.content /\ now = packet.now
                               /\ table = PruneStaleMacs(owners, now)
      OBVIOUS
    <2>2. /\ p.ip \in Ip /\ p.mac \in Mac /\ now \in Nat /\ clock \in Nat
          /\ setbacks = 0 => now <= clock
          /\ Handled
      BY <1>4, <2>1 DEF HandleArp, TimesFit
    <2>3. TimesFit' /\ packet' = None /\ UNCHANGED <<clock, setbacks>>
      BY <2>2, TimesFitHandled DEF Handled
    <2>4. /\ EntriesFit(table, claims)
          /\ setbacks = 0 => LiveListed(table, claims, clock)
      BY <2>1, <2>2, PruneKeeps
    <2>5. CASE /\ p.ip \notin DOMAIN table
               /\ owners' = table
               /\ claims' = [claims EXCEPT ![<<p.ip, p.mac>>] = None]
      BY <2>2, <2>3, <2>4, <2>5, UnclaimedKeeps
    <2>6. CASE /\ owners' = Claimed(table, p.ip, p.mac, now)
               /\ claims' = [claims EXCEPT ![<<p.ip, p.mac>>] = now]
      BY <2>2, <2>3, <2>4, <2>6, ClaimedKeeps
    <2>7. QED
      BY <1>4, <2>1, <2>5, <2>6 DEF HandleArp
  <1>5. ASSUME GetConflicts PROVE ClaimsFit'
    <2>1. /\ UNCHANGED <<clock, setbacks, packet, claims>> /\ TimesFit'
          /\ owners' = PruneStaleMacs(owners, clock) /\ clock \in Nat
      BY <1>5 DEF GetConflicts, listenerVars, TimesFit
    <2>2. /\ EntriesFit(owners', claims)
          /\ setbacks = 0 => LiveListed(owners', claims, clock)
      BY <2>1, PruneKeeps
    <2>3. QED
      BY <2>1, <2>2
  <1>6. ASSUME ResetConflicts PROVE ClaimsFit'
    <2>1. UNCHANGED <<clock, setbacks, packet>> /\ TimesFit'
      BY <1>6 DEF ResetConflicts, listenerVars, TimesFit
    <2>2. claims' \in Claims /\ \A ip \in Ip, m \in Mac : claims'[<<ip, m>>] = None
      BY <1>6 DEF ResetConflicts, Claims
    <2>3. EntriesFit(owners', claims') /\ LiveListed(owners', claims', clock)
      BY <1>6, <2>2 DEF ResetConflicts, EntriesFit, LiveListed
    <2>4. QED
      BY <2>1, <2>2, <2>3
  <1> HIDE DEF ClaimsFit
  <1>7. QED
    BY <1>1, <1>2, <1>3, <1>4, <1>5, <1>6 DEF ConflictNext

(* get_conflicts() reports an address exactly while two recorded claims on  *)
(* it are no older than the TTL, for any addresses, MACs, TTL, cap and      *)
(* delay of a handler, as long as the clock is not set back                 *)
(* (ip_conflict.py, _prune_stale_macs).                                     *)
THEOREM ConflictsAreExact == ConflictSpec => []ConflictsExact
  <1>1. ListenerInit /\ ConflictInit => ClaimsFit
    <2> SUFFICES ASSUME ListenerInit, ConflictInit PROVE ClaimsFit
      OBVIOUS
    <2>1. claims \in Claims /\ \A ip \in Ip, m \in Mac : claims[<<ip, m>>] = None
      BY DEF ConflictInit, Claims
    <2>2. EntriesFit(owners, claims) /\ LiveListed(owners, claims, clock)
      BY <2>1 DEF ConflictInit, EntriesFit, LiveListed
    <2>3. QED
      BY <2>1, <2>2, TimesFitInit DEF ListenerInit, ClaimsFit
  <1>2. ClaimsFit /\ UNCHANGED <<listenerVars, conflictVars>> => ClaimsFit'
    BY DEF ClaimsFit, TimesFit, listenerVars, conflictVars
  <1>3. ASSUME ClaimsFit, setbacks = 0
        PROVE  Conflicts = {ip \in Ip : Cardinality({m \in Mac :
                              claims[<<ip, m>>] # None /\ LiveClaim(clock, claims[<<ip, m>>])}) >= 2}
    <2> DEFINE Live(ip) == {m \in Mac : claims[<<ip, m>>] # None
                                        /\ LiveClaim(clock, claims[<<ip, m>>])}
    <2>1. PICK t : t = PruneStaleMacs(owners, clock)
      OBVIOUS
    <2>2. /\ clock \in Nat /\ claims \in Claims
          /\ EntriesFit(owners, claims) /\ LiveListed(owners, claims, clock)
      BY <1>3 DEF ClaimsFit, TimesFit
    <2>3. EntriesFit(t, claims) /\ LiveListed(t, claims, clock)
      BY <2>1, <2>2, PruneKeeps
    <2>4. \A ip \in DOMAIN t : DOMAIN t[ip] \subseteq Live(ip)
      <3> SUFFICES ASSUME NEW ip \in DOMAIN t, NEW m \in DOMAIN t[ip] PROVE m \in Live(ip)
        OBVIOUS
      <3>1. ip \in DOMAIN owners /\ m \in DOMAIN owners[ip] /\ LiveClaim(clock, owners[ip][m])
        <4>1. LiveOf(owners, clock, t)
          BY <2>1, PruneLeaves
        <4>2. QED
          BY <4>1 DEF LiveOf
      <3>2. m \in Mac /\ claims[<<ip, m>>] = owners[ip][m] /\ owners[ip][m] \in Nat
        BY <2>2, <3>1 DEF EntriesFit
      <3>3. QED
        BY <3>1, <3>2, ListenerAssumption
    <2>5. \A ip \in DOMAIN t : Live(ip) \subseteq DOMAIN t[ip] /\ ip \in Ip
      BY <2>3 DEF LiveListed, EntriesFit
    <2>6. \A ip \in Ip \ DOMAIN t : Live(ip) = {}
      BY <2>3 DEF LiveListed
    <2>7. \A ip \in DOMAIN t : Live(ip) = DOMAIN t[ip] /\ ip \in Ip
      BY <2>4, <2>5
    <2>8. Conflicts = {ip \in DOMAIN t : Cardinality(DOMAIN t[ip]) >= 2}
      BY <2>1 DEF Conflicts
    <2> HIDE DEF Live
    <2>9. Conflicts = {ip \in Ip : Cardinality(Live(ip)) >= 2}
      BY <2>6, <2>7, <2>8, FS_EmptySet
    <2>10. QED
      BY <2>9 DEF Live
  <1>4. ClaimsFit => ConflictsExact
    BY <1>3 DEF ConflictsExact
  <1>5. QED
    BY <1>1, <1>2, <1>4, ClaimsFitNext, PTL DEF ConflictSpec
-----------------------------------------------------------------------------
(* discovery/lldp.py, cdp.py, mndp.py *)

\* The time and the place of the entries of a table.
Stamped(table) ==
    \A m \in DOMAIN table : table[m].last_seen \in Nat /\ table[m].since \in Nat

\* min() finds a key, and none was seen before it.
LEMMA OldestIsFirst ==
  ASSUME NEW table, Stamped(table), DOMAIN table # {}, NEW x, x = OldestOf(table)
  PROVE  /\ x \in DOMAIN table
         /\ \A o \in DOMAIN table :
               \/ table[x].last_seen < table[o].last_seen
               \/ table[x].last_seen = table[o].last_seen /\ table[x].since <= table[o].since
  <1>1. PICK a \in DOMAIN table : \A o \in DOMAIN table : table[a].last_seen <= table[o].last_seen
    <2> DEFINE S == {table[m].last_seen : m \in DOMAIN table}
    <2>1. S \subseteq Nat /\ S # {}
      BY DEF Stamped
    <2>2. PICK v \in S : \A y \in S : v <= y
      BY <2>1, NatMin
    <2>3. QED
      BY <2>2
  <1>2. PICK b \in DOMAIN table :
          /\ table[b].last_seen = table[a].last_seen
          /\ \A o \in DOMAIN table : table[o].last_seen = table[a].last_seen
                                       => table[b].since <= table[o].since
    <2> DEFINE E == {m \in DOMAIN table : table[m].last_seen = table[a].last_seen}
               S == {table[m].since : m \in E}
    <2>1. S \subseteq Nat /\ S # {}
      BY DEF Stamped
    <2>2. PICK v \in S : \A y \in S : v <= y
      BY <2>1, NatMin
    <2>3. QED
      BY <2>2
  <1>3. \A o \in DOMAIN table :
          \/ table[b].last_seen < table[o].last_seen
          \/ table[b].last_seen = table[o].last_seen /\ table[b].since <= table[o].since
    BY <1>1, <1>2 DEF Stamped
  <1>4. QED
    BY <1>3 DEF OldestOf

Before(table, place) == \A m \in DOMAIN table : table[m].since < place

Stored(table, mac, place, now, read) ==
    Evict(Put(table, mac, [since |-> place, last_seen |-> now, fields |-> read]), mac)

\* What storing an entry does: it is there afterwards, what else is there is as
\* before, at most one other key went, which was the oldest, and the table is
\* larger only if it had room or the new entry is older than all others.
StoreEffect(table, mac, place, now, t) ==
    /\ IsFiniteSet(DOMAIN t)
    /\ mac \in DOMAIN t
    /\ t[mac].last_seen = now /\ t[mac].since \in Nat /\ t[mac].since <= place
    /\ DOMAIN t \subseteq DOMAIN table \cup {mac}
    /\ \A m \in DOMAIN t : m # mac => t[m] = table[m]
    /\ \/ Cardinality(DOMAIN t) <= Cardinality(DOMAIN table)
       \/ /\ Cardinality(DOMAIN t) = Cardinality(DOMAIN table) + 1
          /\ \/ Cardinality(DOMAIN t) <= MaxNeighbors
             \/ \A o \in DOMAIN table : now < table[o].last_seen
    /\ \A m \in DOMAIN table \ DOMAIN t :
          /\ Cardinality(DOMAIN t) >= MaxNeighbors
          /\ \A o \in DOMAIN t : table[m].last_seen <= t[o].last_seen

\* The new entry's place is after all others.
LEMMA StoreHasEffect ==
  ASSUME NEW table, IsFiniteSet(DOMAIN table), Stamped(table),
         NEW mac, NEW place \in Nat, NEW now \in Nat, NEW read,
         Before(table, place),
         NEW t, t = Stored(table, mac, place, now, read)
  PROVE  StoreEffect(table, mac, place, now, t)
  <1> USE DEF StoreEffect
  <1> DEFINE n == Cardinality(DOMAIN table)
  <1>1. PICK u : /\ u = Put(table, mac, [since |-> place, last_seen |-> now, fields |-> read])
                 /\ t = Evict(u, mac)
    BY DEF Stored
  <1>2. /\ DOMAIN u = DOMAIN table \cup {mac}
        /\ \A m \in DOMAIN u : m # mac => u[m] = table[m]
        /\ u[mac].last_seen = now
        /\ u[mac].since = IF mac \in DOMAIN table THEN table[mac].since ELSE place
    BY <1>1 DEF Put
  <1>3. /\ IsFiniteSet(DOMAIN u) /\ n \in Nat
        /\ Cardinality(DOMAIN u) = IF mac \in DOMAIN table THEN n ELSE n + 1
    BY <1>2, FS_AddElement, FS_CardinalityType
  <1>4. Stamped(u) /\ u[mac].since \in Nat /\ u[mac].since <= place
    BY <1>2 DEF Stamped, Before
  <1>5. PICK x : x = OldestOf(u)
    OBVIOUS
  <1>6. /\ x \in DOMAIN u
        /\ \A o \in DOMAIN u :
              \/ u[x].last_seen < u[o].last_seen
              \/ u[x].last_seen = u[o].last_seen /\ u[x].since <= u[o].since
    BY <1>2, <1>4, <1>5, OldestIsFirst
  <1>7. CASE Cardinality(DOMAIN u) > MaxNeighbors /\ x # mac
    <2>1. /\ DOMAIN t = DOMAIN u \ {x} /\ \A m \in DOMAIN t : t[m] = u[m]
      BY <1>1, <1>5, <1>7 DEF Evict, Without, Restrict
    <2>2. IsFiniteSet(DOMAIN t) /\ Cardinality(DOMAIN t) = Cardinality(DOMAIN u) - 1
      BY <1>3, <1>6, <2>1, FS_RemoveElement
    <2>3. Cardinality(DOMAIN t) <= n /\ Cardinality(DOMAIN t) >= MaxNeighbors
      BY <1>3, <1>7, <2>2, NeighborsAssumption
    <2>4. \A m \in DOMAIN table \ DOMAIN t : \A o \in DOMAIN t : table[m].last_seen <= t[o].last_seen
      BY <1>2, <1>4, <1>6, <1>7, <2>1 DEF Stamped
    <2>5. QED
      BY <1>2, <1>4, <1>7, <2>1, <2>2, <2>3, <2>4
  <1>8. CASE ~(Cardinality(DOMAIN u) > MaxNeighbors /\ x # mac)
    <2>1. t = u
      BY <1>1, <1>5, <1>8 DEF Evict
    <2>2. \/ Cardinality(DOMAIN t) <= n
          \/ /\ Cardinality(DOMAIN t) = n + 1
             /\ \/ Cardinality(DOMAIN t) <= MaxNeighbors
                \/ \A o \in DOMAIN table : now < table[o].last_seen
      <3>1. CASE mac \in DOMAIN table \/ Cardinality(DOMAIN u) <= MaxNeighbors
        BY <1>3, <2>1, <3>1
      <3>2. CASE mac \notin DOMAIN table /\ x = mac
        <4>1. \A o \in DOMAIN table : now < table[o].last_seen
          <5> SUFFICES ASSUME NEW o \in DOMAIN table PROVE now < table[o].last_seen
            OBVIOUS
          <5>1. u[o] = table[o] /\ u[mac].since = place /\ table[o].since < place
                /\ table[o].since \in Nat
            BY <1>2, <3>2 DEF Stamped, Before
          <5>2. QED
            BY <1>2, <1>6, <3>2, <5>1
        <4>2. QED
          BY <1>3, <2>1, <3>2, <4>1
      <3>3. QED
        BY <1>3, <1>8, <3>1, <3>2, NeighborsAssumption
    <2>3. QED
      BY <1>2, <1>3, <1>4, <2>1, <2>2
  <1>9. QED
    BY <1>7, <1>8

\* How many neighbors there may be, and whether one was last seen by time t.
Room == MaxNeighbors + setbacks
SomeSeenBy(t) == \E m \in DOMAIN neighbors : neighbors[m].last_seen <= t

\* The entries of the table, and the packets it was made from.
TableFits ==
    /\ TimesFit /\ received \in Nat
    /\ packet # None => packet.content.mac \in Mac
    /\ IsFiniteSet(DOMAIN neighbors) /\ Stamped(neighbors)
    /\ \A m \in DOMAIN neighbors :
          /\ neighbors[m].since <= received
          /\ packet # None => neighbors[m].since < received

\* A table without room holds an entry that no packet can be older than; a
\* packet that is ahead of the clock, which was set back since, finds room.
RoomLeft ==
    /\ Cardinality(DOMAIN neighbors) <= Room
    /\ Cardinality(DOMAIN neighbors) = Room =>
          SomeSeenBy(clock) /\ (packet # None => SomeSeenBy(packet.now))
    /\ packet # None /\ packet.now > clock =>
          /\ Cardinality(DOMAIN neighbors) < Room
          /\ Cardinality(DOMAIN neighbors) = Room - 1 => SomeSeenBy(packet.now)

\* Purging leaves a part of the table.
LEMMA PurgeLeaves ==
  ASSUME NEW table, IsFiniteSet(DOMAIN table), Stamped(table), NEW now,
         NEW t, t = Purged(table, now)
  PROVE  /\ DOMAIN t \subseteq DOMAIN table /\ IsFiniteSet(DOMAIN t) /\ Stamped(t)
         /\ \A m \in DOMAIN t : t[m] = table[m]
         /\ \A m \in DOMAIN table \ DOMAIN t : ~ IsFresh(now, table[m].last_seen)
         /\ Cardinality(DOMAIN t) \in Nat /\ Cardinality(DOMAIN table) \in Nat
         /\ Cardinality(DOMAIN t) <= Cardinality(DOMAIN table)
         /\ Cardinality(DOMAIN t) = Cardinality(DOMAIN table) => DOMAIN t = DOMAIN table
  <1>1. /\ DOMAIN t \subseteq DOMAIN table /\ \A m \in DOMAIN t : t[m] = table[m]
        /\ \A m \in DOMAIN table \ DOMAIN t : ~ IsFresh(now, table[m].last_seen)
    BY DEF Purged, Restrict
  <1>2. /\ IsFiniteSet(DOMAIN t) /\ Cardinality(DOMAIN t) <= Cardinality(DOMAIN table)
        /\ Cardinality(DOMAIN t) = Cardinality(DOMAIN table) => DOMAIN t = DOMAIN table
    BY <1>1, FS_Subset
  <1>3. QED
    BY <1>1, <1>2, FS_CardinalityType DEF Stamped

\* A handler stores its packet's entry.
LEMMA HandleStores ==
  ASSUME NEW protocol, TableFits, HandleNeighbor(protocol)
  PROVE  StoreEffect(neighbors, packet.content.mac, received, packet.now, neighbors')
  <1>1. PICK table, mac, place, now, read, t :
           /\ table = neighbors /\ place = received
           /\ mac = packet.content.mac /\ now = packet.now
           /\ read = Parse(protocol, packet.content.payload).fields
           /\ t = Stored(table, mac, place, now, read)
    OBVIOUS
  <1>2. neighbors' = t
    BY <1>1 DEF HandleNeighbor, Stored
  <1>3. /\ now \in Nat /\ place \in Nat
        /\ IsFiniteSet(DOMAIN table) /\ Stamped(table) /\ Before(table, place)
    BY <1>1 DEF TableFits, HandleNeighbor, TimesFit, Before
  <1>4. t = Stored(table, mac, place, now, read)
    BY <1>1
  <1>5. StoreEffect(table, mac, place, now, t)
    BY <1>3, <1>4, StoreHasEffect
  <1>6. QED
    BY <1>1, <1>2, <1>5

\* The entries stay what they are.
LEMMA TableFitsNext ==
  ASSUME NEW protocol, TableFits, NeighborsNext(protocol) PROVE TableFits'
  <1> USE DEF TableFits
  <1>1. ASSUME Tick \/ SetBack, UNCHANGED neighborsVars PROVE TableFits'
    <2>1. TimesFit' /\ UNCHANGED <<packet, received>>
      BY <1>1, TimesFitTick, TimesFitSetBack DEF Tick, SetBack
    <2>2. QED
      BY <1>1, <2>1 DEF neighborsVars
  <1>2. ASSUME ReceiveNeighbor(protocol) PROVE TableFits'
    <2>1. PICK p \in Announcement : Receive(p)
      BY <1>2 DEF ReceiveNeighbor
    <2>2. TimesFit' /\ packet'.content = p /\ received' = received + 1 /\ UNCHANGED neighbors
      BY <1>2, <2>1, TimesFitReceive DEF Receive, ReceiveNeighbor, neighborsVars
    <2>3. \A m \in DOMAIN neighbors : neighbors[m].since < received'
      BY <2>2 DEF Stamped
    <2>4. QED
      BY <2>1, <2>2, <2>3, NeighborsAssumption DEF Stamped
  <1>3. ASSUME HandleNeighbor(protocol) PROVE TableFits'
    <2>1. PICK table, mac, place, now, t :
             /\ table = neighbors /\ place = received /\ t = neighbors'
             /\ mac = packet.content.mac /\ now = packet.now
      OBVIOUS
    <2>2. /\ TimesFit' /\ packet' = None /\ received' = place
          /\ now \in Nat /\ place \in Nat /\ Stamped(table) /\ Before(table, place)
      BY <1>3, <2>1, TimesFitHandled DEF HandleNeighbor, Handled, TimesFit, Before
    <2>3. StoreEffect(table, mac, place, now, t)
      BY <1>3, <2>1, HandleStores
    <2> HIDE DEF TableFits
    <2>4. Stamped(t) /\ \A m \in DOMAIN t : t[m].since <= place
      BY <2>2, <2>3 DEF Stamped, Before, StoreEffect
    <2>5. IsFiniteSet(DOMAIN t)
      BY <2>3 DEF StoreEffect
    <2>6. QED
      BY <2>1, <2>2, <2>4, <2>5 DEF TableFits, Stamped
  <1>4. ASSUME GetNeighbors PROVE TableFits'
    BY <1>4 DEF GetNeighbors, listenerVars, TimesFit
  <1>5. ASSUME PurgeStale PROVE TableFits'
    <2>1. UNCHANGED <<packet, received>> /\ TimesFit'
      BY <1>5 DEF PurgeStale, listenerVars, TimesFit
    <2>2. PICK t : t = neighbors' /\ t = Purged(neighbors, reading)
      BY <1>5 DEF PurgeStale
    <2>3. /\ DOMAIN t \subseteq DOMAIN neighbors /\ IsFiniteSet(DOMAIN t) /\ Stamped(t)
          /\ \A m \in DOMAIN t : t[m] = neighbors[m]
      BY <2>2, PurgeLeaves
    <2>4. QED
      BY <2>1, <2>2, <2>3
  <1> HIDE DEF TableFits
  <1>6. QED
    BY <1>1, <1>2, <1>3, <1>4, <1>5 DEF NeighborsNext

\* And so does the room left for others.
LEMMA RoomLeftNext ==
  ASSUME NEW protocol, TableFits, RoomLeft, NeighborsNext(protocol) PROVE RoomLeft'
  <1>0. /\ Cardinality(DOMAIN neighbors) \in Nat /\ MaxNeighbors \in Nat
        /\ clock \in Nat /\ setbacks \in Nat /\ Stamped(neighbors)
        /\ packet # None => packet.now \in Nat /\ (setbacks = 0 => packet.now <= clock)
    BY FS_CardinalityType, NeighborsAssumption DEF TableFits, TimesFit
  <1> USE <1>0 DEF RoomLeft, Room, SomeSeenBy
  <1>1. ASSUME Tick, UNCHANGED neighborsVars PROVE RoomLeft'
    BY <1>1 DEF Tick, neighborsVars, Stamped
  <1>2. ASSUME SetBack, UNCHANGED neighborsVars PROVE RoomLeft'
    BY <1>2 DEF SetBack, neighborsVars, Stamped
  <1>3. ASSUME ReceiveNeighbor(protocol) PROVE RoomLeft'
    <2>1. /\ UNCHANGED <<neighbors, clock, setbacks>>
          /\ packet'.now = clock
      BY <1>3 DEF ReceiveNeighbor, Receive, neighborsVars
    <2>2. QED
      BY <2>1
  <1>4. ASSUME HandleNeighbor(protocol) PROVE RoomLeft'
    <2>1. PICK table, mac, place, now, t :
             /\ table = neighbors /\ place = received /\ t = neighbors'
             /\ mac = packet.content.mac /\ now = packet.now
      OBVIOUS
    <2>2. packet # None /\ packet' = None /\ UNCHANGED <<clock, setbacks>>
      BY <1>4 DEF HandleNeighbor, Handled
    <2>3. StoreEffect(table, mac, place, now, t)
      BY <1>4, <2>1, HandleStores
    <2>4. /\ Cardinality(DOMAIN t) \in Nat
          /\ mac \in DOMAIN t /\ t[mac].last_seen = now
          /\ \/ Cardinality(DOMAIN t) <= Cardinality(DOMAIN table)
             \/ /\ Cardinality(DOMAIN t) = Cardinality(DOMAIN table) + 1
                /\ \/ Cardinality(DOMAIN t) <= MaxNeighbors
                   \/ ~ \E o \in DOMAIN table : table[o].last_seen <= now
      <3>1. /\ Cardinality(DOMAIN t) \in Nat
            /\ mac \in DOMAIN t /\ t[mac].last_seen = now
        BY <2>3, FS_CardinalityType DEF StoreEffect
      <3>2. (\A o \in DOMAIN table : now < table[o].last_seen)
              => ~ \E o \in DOMAIN table : table[o].last_seen <= now
        BY <2>1, <2>2 DEF Stamped
      <3>3. QED
        BY <2>3, <3>1, <3>2 DEF StoreEffect
    <2>5. CASE now <= clock
      <3>1. Cardinality(DOMAIN t) <= Room
        BY <2>1, <2>2, <2>4
      <3>2. SomeSeenBy(clock)'
        BY <2>1, <2>2, <2>4, <2>5
      <3>3. QED
        BY <2>1, <2>2, <3>1, <3>2
    <2>6. CASE now > clock
      <3>1. Cardinality(DOMAIN t) < Room
        BY <2>1, <2>2, <2>4, <2>6
      <3>2. QED
        BY <2>1, <2>2, <2>4, <3>1
    <2>7. QED
      BY <2>1, <2>2, <2>5, <2>6
  <1>5. ASSUME GetNeighbors PROVE RoomLeft'
    BY <1>5 DEF GetNeighbors, listenerVars
  <1>6. ASSUME PurgeStale PROVE RoomLeft'
    <2>1. PICK table, t : table = neighbors /\ t = neighbors' /\ t = Purged(table, reading)
      BY <1>6 DEF PurgeStale
    <2>2. UNCHANGED <<clock, setbacks, packet>>
      BY <1>6 DEF PurgeStale, listenerVars
    <2>3. /\ \A m \in DOMAIN t : t[m] = table[m]
          /\ Cardinality(DOMAIN t) \in Nat
          /\ Cardinality(DOMAIN t) <= Cardinality(DOMAIN table)
          /\ Cardinality(DOMAIN t) = Cardinality(DOMAIN table) => DOMAIN t = DOMAIN table
      <3>1. IsFiniteSet(DOMAIN table) /\ Stamped(table) /\ t = Purged(table, reading)
        BY <2>1 DEF TableFits
      <3>2. QED
        BY <3>1, PurgeLeaves
    <2>4. CASE Cardinality(DOMAIN t) = Cardinality(DOMAIN table)
      BY <2>1, <2>2, <2>3, <2>4
    <2>5. CASE Cardinality(DOMAIN t) < Cardinality(DOMAIN table)
      BY <2>1, <2>2, <2>3, <2>5
    <2>6. QED
      BY <2>1, <2>3, <2>4, <2>5
  <1> HIDE DEF RoomLeft
  <1>7. QED
    BY <1>1, <1>2, <1>3, <1>4, <1>5, <1>6 DEF NeighborsNext

(* However many neighbors announce themselves and whatever the clock does,  *)
(* the table exceeds _MAX_NEIGHBORS by at most one entry per setback of the *)
(* clock, and never without one, in the three protocols alike (lldp.py,     *)
(* cdp.py and mndp.py: _handle_packet() spares the key just stored).        *)
THEOREM NeighborsAreBounded ==
  ASSUME NEW protocol PROVE NeighborsSpec(protocol) => []NeighborsBounded
  <1>1. ListenerInit /\ NeighborsInit => TableFits /\ RoomLeft
    <2> SUFFICES ASSUME ListenerInit, NeighborsInit PROVE TableFits /\ RoomLeft
      OBVIOUS
    <2>1. DOMAIN neighbors = {} /\ packet = None /\ received = 0 /\ setbacks = 0 /\ TimesFit
      BY TimesFitInit DEF ListenerInit, NeighborsInit
    <2>2. Cardinality(DOMAIN neighbors) = 0 /\ IsFiniteSet(DOMAIN neighbors)
      BY <2>1, FS_EmptySet
    <2>3. QED
      BY <2>1, <2>2, NeighborsAssumption DEF TableFits, RoomLeft, Room, Stamped
  <1>2. TableFits /\ RoomLeft /\ UNCHANGED <<listenerVars, neighborsVars>>
          => TableFits' /\ RoomLeft'
    BY DEF TableFits, RoomLeft, Room, SomeSeenBy, TimesFit, Stamped, listenerVars, neighborsVars
  <1>3. RoomLeft => NeighborsBounded
    BY DEF RoomLeft, Room, NeighborsBounded
  <1>4. TableFits /\ RoomLeft /\ NeighborsNext(protocol) => TableFits' /\ RoomLeft'
    BY TableFitsNext, RoomLeftNext
  <1>5. QED
    BY <1>1, <1>2, <1>3, <1>4, PTL DEF NeighborsSpec

\* The table and the packets it was made from.
HeardFits ==
    /\ IsFiniteSet(DOMAIN heard)
    /\ \A m \in DOMAIN heard : heard[m].at \in Nat
    /\ \A m \in DOMAIN neighbors : m \in DOMAIN heard /\ neighbors[m].last_seen = heard[m].at
    /\ reading # None => reading \in Nat

\* Nothing was read or heard later than now.
InOrder ==
    /\ reading # None => reading <= clock
    /\ \A m \in DOMAIN heard : /\ heard[m].at <= clock
                               /\ packet # None => heard[m].at <= packet.now

\* A packet is heard.
LEMMA HeardHandled ==
  ASSUME NEW protocol, TableFits, HeardFits, HandleNeighbor(protocol)
  PROVE  /\ HeardFits'
         /\ setbacks = 0 /\ InOrder => InOrder'
  <1>1. PICK table, mac, place, now, t :
           /\ table = neighbors /\ place = received /\ t = neighbors'
           /\ mac = packet.content.mac /\ now = packet.now
    OBVIOUS
  <1>2. /\ packet # None /\ packet' = None /\ UNCHANGED <<clock, setbacks, reading>>
        /\ now \in Nat /\ clock \in Nat /\ (setbacks = 0 => now <= clock)
        /\ DOMAIN heard' = DOMAIN heard \cup {mac} /\ heard'[mac].at = now
        /\ \A m \in DOMAIN heard' : m # mac => heard'[m] = heard[m]
    BY <1>1 DEF HandleNeighbor, Handled, TableFits, TimesFit
  <1>3. StoreEffect(table, mac, place, now, t)
    BY <1>1, HandleStores
  <1>4. /\ t[mac].last_seen = now
        /\ \A m \in DOMAIN t : m # mac => m \in DOMAIN table /\ t[m] = table[m]
    BY <1>3 DEF StoreEffect
  <1>5. HeardFits'
    <2>1. IsFiniteSet(DOMAIN heard')
      BY <1>2, FS_AddElement DEF HeardFits
    <2>2. \A m \in DOMAIN heard' : heard'[m].at \in Nat
      BY <1>2 DEF HeardFits
    <2>3. \A m \in DOMAIN t : m \in DOMAIN heard' /\ t[m].last_seen = heard'[m].at
      BY <1>1, <1>2, <1>4 DEF HeardFits
    <2>4. QED
      BY <1>1, <1>2, <2>1, <2>2, <2>3 DEF HeardFits
  <1>6. ASSUME setbacks = 0, InOrder PROVE InOrder'
    BY <1>2, <1>6 DEF InOrder
  <1>7. QED
    BY <1>5, <1>6

\* A packet that is stored evicts a neighbor only for _MAX_NEIGHBORS later ones.
LEMMA FreshKeptHandled ==
  ASSUME NEW protocol, TableFits, HeardFits, InOrder, FreshNeighborListed,
         setbacks = 0, HandleNeighbor(protocol)
  PROVE  FreshNeighborListed'
  <1>1. PICK table, mac, place, now, t :
           /\ table = neighbors /\ place = received /\ t = neighbors'
           /\ mac = packet.content.mac /\ now = packet.now
    OBVIOUS
  <1>2. /\ packet # None /\ UNCHANGED <<clock, setbacks>> /\ now \in Nat
        /\ DOMAIN heard' = DOMAIN heard \cup {mac} /\ heard'[mac].at = now
        /\ \A m \in DOMAIN heard' : m # mac => heard'[m] = heard[m]
    BY <1>1 DEF HandleNeighbor, Handled, TableFits, TimesFit
  <1>3. StoreEffect(table, mac, place, now, t)
    BY <1>1, HandleStores
  <1>4. HeardFits'
    BY HeardHandled
  <1> SUFFICES ASSUME NEW m \in DOMAIN heard', m # mac,
                      IsFresh(clock, heard'[m].at), Cardinality(HeardSince(m)') < MaxNeighbors
               PROVE  m \in DOMAIN t
    <2>1. mac \in DOMAIN t
      BY <1>3 DEF StoreEffect
    <2>2. QED
      BY <1>1, <1>2, <2>1 DEF FreshNeighborListed, IsFresh
  <1>5. m \in DOMAIN heard /\ heard'[m] = heard[m]
    BY <1>2
  <1>6. HeardSince(m) \subseteq HeardSince(m)'
    BY <1>1, <1>2, <1>5 DEF HeardSince, HeardFits, InOrder
  <1>7. IsFiniteSet(HeardSince(m)')
    BY <1>4, FS_Subset DEF HeardSince, HeardFits
  <1>8. /\ Cardinality(HeardSince(m)) \in Nat /\ Cardinality(HeardSince(m)') \in Nat
        /\ Cardinality(HeardSince(m)) <= Cardinality(HeardSince(m)')
        /\ IsFiniteSet(HeardSince(m))
    BY <1>6, <1>7, FS_Subset, FS_CardinalityType
  <1>9. m \in DOMAIN table
    BY <1>1, <1>2, <1>5, <1>8, NeighborsAssumption DEF FreshNeighborListed
  <1>10. ASSUME m \notin DOMAIN t PROVE FALSE
    <2>1. /\ Cardinality(DOMAIN t) >= MaxNeighbors
          /\ \A o \in DOMAIN t : table[m].last_seen <= t[o].last_seen
      BY <1>3, <1>9, <1>10 DEF StoreEffect
    <2>2. \A o \in DOMAIN t : o # m /\ o \in DOMAIN heard' /\ t[o].last_seen = heard'[o].at
                              /\ heard'[o].at \in Nat
      BY <1>1, <1>4, <1>10 DEF HeardFits
    <2>3. table[m].last_seen = heard'[m].at
      BY <1>1, <1>5, <1>9 DEF HeardFits
    <2>4. DOMAIN t \subseteq HeardSince(m)'
      BY <1>5, <2>1, <2>2, <2>3 DEF HeardSince, HeardFits
    <2>5. Cardinality(DOMAIN t) <= Cardinality(HeardSince(m)') /\ Cardinality(DOMAIN t) \in Nat
      BY <1>7, <2>4, FS_Subset, FS_CardinalityType
    <2>6. QED
      BY <1>8, <2>1, <2>5, NeighborsAssumption
  <1>11. QED
    BY <1>10

\* Fresh neighbors are listed, and why.
FreshKept ==
    /\ HeardFits /\ FreshNeighborListed
    /\ setbacks = 0 => InOrder

\* Every step keeps fresh neighbors listed.
LEMMA FreshKeptNext ==
  ASSUME NEW protocol, TableFits, FreshKept, NeighborsNext(protocol) PROVE FreshKept'
  <1>0. /\ clock \in Nat /\ setbacks \in Nat /\ StaleAfter \in Nat
        /\ packet # None => packet.now \in Nat
        /\ \A m \in DOMAIN heard : heard[m].at \in Nat
    BY NeighborsAssumption DEF TableFits, TimesFit, FreshKept, HeardFits
  <1> USE <1>0 DEF FreshKept
  <1>1. ASSUME Tick, UNCHANGED neighborsVars PROVE FreshKept'
    <2>1. clock' = clock + 1 /\ UNCHANGED <<setbacks, packet, neighbors, reading, heard>>
      BY <1>1 DEF Tick, neighborsVars
    <2>2. \A m \in DOMAIN heard : IsFresh(clock', heard[m].at) => IsFresh(clock, heard[m].at)
      BY <2>1 DEF IsFresh
    <2>3. FreshNeighborListed'
      BY <2>1, <2>2 DEF FreshNeighborListed, HeardSince, IsFresh
    <2>4. HeardFits' /\ (setbacks' = 0 => InOrder')
      BY <2>1 DEF HeardFits, InOrder
    <2>5. QED
      BY <2>3, <2>4
  <1>2. ASSUME SetBack, UNCHANGED neighborsVars PROVE FreshKept'
    <2>1. setbacks' # 0 /\ UNCHANGED <<neighbors, reading, heard>>
      BY <1>2 DEF SetBack, neighborsVars
    <2>2. QED
      BY <2>1 DEF HeardFits, FreshNeighborListed
  <1>3. ASSUME ReceiveNeighbor(protocol) PROVE FreshKept'
    <2>1. /\ UNCHANGED <<clock, setbacks, neighbors, reading, heard>>
          /\ packet'.now = clock
      BY <1>3 DEF ReceiveNeighbor, Receive, neighborsVars
    <2>2. QED
      BY <2>1 DEF HeardFits, FreshNeighborListed, HeardSince, InOrder
  <1>4. ASSUME HandleNeighbor(protocol) PROVE FreshKept'
    <2>1. UNCHANGED setbacks
      BY <1>4 DEF HandleNeighbor, Handled
    <2>2. CASE setbacks = 0
      BY <1>4, <2>1, <2>2, HeardHandled, FreshKeptHandled
    <2>3. CASE setbacks # 0
      BY <1>4, <2>1, <2>3, HeardHandled DEF FreshNeighborListed
    <2>4. QED
      BY <2>2, <2>3
  <1>5. ASSUME GetNeighbors PROVE FreshKept'
    BY <1>5 DEF GetNeighbors, listenerVars, HeardFits, FreshNeighborListed, HeardSince, InOrder
  <1>6. ASSUME PurgeStale PROVE FreshKept'
    <2>1. PICK table, now, t : table = neighbors /\ now = reading /\ t = neighbors'
                               /\ t = Purged(table, now)
      BY <1>6 DEF PurgeStale
    <2>2. reading' = None /\ now # None /\ UNCHANGED <<clock, setbacks, packet, heard>>
      BY <1>6, <2>1 DEF PurgeStale, listenerVars
    <2>3. /\ DOMAIN t \subseteq DOMAIN table /\ \A m \in DOMAIN t : t[m] = table[m]
          /\ \A m \in DOMAIN table \ DOMAIN t : ~ IsFresh(now, table[m].last_seen)
      <3>1. IsFiniteSet(DOMAIN table) /\ Stamped(table) /\ t = Purged(table, now)
        BY <2>1 DEF TableFits
      <3>2. QED
        BY <3>1, PurgeLeaves
    <2>4. HeardFits'
      BY <2>1, <2>2, <2>3 DEF HeardFits
    <2>5. ASSUME setbacks = 0 PROVE FreshNeighborListed'
      <3>1. now \in Nat /\ now <= clock
        BY <2>1, <2>2, <2>5 DEF HeardFits, InOrder
      <3>2. \A m \in DOMAIN table : IsFresh(clock, table[m].last_seen) => m \in DOMAIN t
        <4>1. \A m \in DOMAIN table : table[m].last_seen \in Nat
          BY <2>1 DEF TableFits, Stamped
        <4>2. QED
          BY <2>3, <3>1, <4>1 DEF IsFresh
      <3>3. \A m \in DOMAIN table : table[m].last_seen = heard[m].at
        BY <2>1 DEF HeardFits
      <3>4. QED
        BY <2>1, <2>2, <3>2, <3>3 DEF FreshNeighborListed, HeardSince, IsFresh
    <2>6. QED
      BY <2>2, <2>4, <2>5 DEF FreshNeighborListed, InOrder
  <1> HIDE DEF FreshKept
  <1>7. QED
    BY <1>1, <1>2, <1>3, <1>4, <1>5, <1>6 DEF NeighborsNext

(* A neighbor heard within the last 60 s is in the table unless             *)
(* _MAX_NEIGHBORS others were heard at the same time or later, for any cap, *)
(* any purge by a reader whose time is old and any delay of a handler, as   *)
(* long as the clock is not set back (lldp.py, cdp.py, mndp.py).            *)
THEOREM FreshNeighborsAreListed ==
  ASSUME NEW protocol PROVE NeighborsSpec(protocol) => []FreshNeighborListed
  <1>1. ListenerInit /\ NeighborsInit => TableFits /\ FreshKept
    <2> SUFFICES ASSUME ListenerInit, NeighborsInit PROVE TableFits /\ FreshKept
      OBVIOUS
    <2>1. /\ DOMAIN neighbors = {} /\ DOMAIN heard = {} /\ reading = None
          /\ packet = None /\ received = 0 /\ TimesFit
      BY TimesFitInit DEF ListenerInit, NeighborsInit
    <2>2. IsFiniteSet({})
      BY FS_EmptySet
    <2>3. TableFits
      BY <2>1, <2>2 DEF TableFits, Stamped
    <2>4. QED
      BY <2>1, <2>2, <2>3 DEF FreshKept, HeardFits, InOrder, FreshNeighborListed
  <1>2. TableFits /\ FreshKept /\ UNCHANGED <<listenerVars, neighborsVars>>
          => TableFits' /\ FreshKept'
    BY DEF TableFits, FreshKept, HeardFits, InOrder, FreshNeighborListed, HeardSince,
           TimesFit, Stamped, listenerVars, neighborsVars
  <1>3. FreshKept => FreshNeighborListed
    BY DEF FreshKept
  <1>4. TableFits /\ FreshKept /\ NeighborsNext(protocol) => TableFits' /\ FreshKept'
    BY TableFitsNext, FreshKeptNext
  <1>5. QED
    BY <1>1, <1>2, <1>3, <1>4, PTL DEF NeighborsSpec
-----------------------------------------------------------------------------
(* capture/traffic_stats.py *)

\* What _recent_packets and the record of all frames hold.
InWindow == [at : Nat, mac : {f.src : f \in Frame}, length : Nat]
Recorded == [at : Nat, frame : Frame]

FramesFit ==
    /\ TimesFit
    /\ packet # None => packet.content \in Frame
    /\ counted \in Seq(Recorded) /\ recent \in Seq(InWindow)

\* What _classify_and_record() stores of a frame.
LEMMA RecordedFits ==
  ASSUME NEW f \in Frame, NEW now \in Nat
  PROVE  /\ [at |-> now, mac |-> f.src, length |-> f.length] \in InWindow
         /\ [at |-> now, frame |-> f] \in Recorded
  BY TrafficAssumption DEF InWindow, Recorded

\* t is w without its first d entries, which are older than the window.
Drops(w, now, t, d) ==
    /\ Len(t) = Len(w) - d
    /\ \A i \in 1 .. Len(t) : t[i] = w[d + i]
    /\ \A i \in 1 .. d : w[i].at < now - RateWindow

\* popleft() drops a part from the head, and only what is older than the window.
LEMMA TrimDrops ==
  ASSUME NEW w \in Seq(InWindow), NEW now \in Nat, NEW t, t = Trim(w, now)
  PROVE  /\ t \in Seq(InWindow)
         /\ \E d \in 0 .. Len(w) : Drops(w, now, t, d)
  <1> DEFINE kept == {i \in DOMAIN w : w[i].at >= now - RateWindow}
  <1>1. \A i \in 1 .. Len(w) : w[i] \in InWindow /\ w[i].at \in Nat
    <2>1. \A i \in 1 .. Len(w) : w[i] \in InWindow
      OBVIOUS
    <2>2. QED
      BY <2>1 DEF InWindow
  <1>2. DOMAIN w = 1 .. Len(w) /\ Len(w) \in Nat
    BY LenProperties
  <1>3. CASE kept = {}
    <2>1. t = << >>
      BY <1>3 DEF Trim
    <2>2. \A i \in 1 .. Len(w) : w[i].at < now - RateWindow
      BY <1>1, <1>2, <1>3, TrafficAssumption
    <2>3. Drops(w, now, t, Len(w))
      BY <1>2, <2>1, <2>2 DEF Drops
    <2>4. QED
      BY <1>2, <2>1, <2>3
  <1>4. CASE kept # {}
    <2>1. kept \subseteq Nat
      BY <1>2
    <2>2. \E i \in kept : \A j \in kept : i <= j
      BY <1>4, <2>1, NatMin
    <2>3. PICK first : first = CHOOSE i \in kept : \A j \in kept : i <= j
      OBVIOUS
    <2>4. first \in kept /\ \A j \in kept : first <= j
      BY <2>2, <2>3
    <2>5. t = SubSeq(w, first, Len(w))
      BY <1>4, <2>3 DEF Trim
    <2>6. first \in 1 .. Len(w)
      BY <1>2, <2>4
    <2>7. /\ t \in Seq(InWindow) /\ Len(t) = Len(w) - first + 1
          /\ \A i \in 1 .. Len(w) - first + 1 : t[i] = w[first + i - 1]
      BY <1>1, <1>2, <2>5, <2>6, SubSeqProperties
    <2>8. \A i \in 1 .. first - 1 : w[i].at < now - RateWindow
      BY <1>1, <1>2, <2>4, <2>6, TrafficAssumption
    <2>9. Drops(w, now, t, first - 1)
      BY <1>2, <2>6, <2>7, <2>8 DEF Drops
    <2>10. QED
      BY <1>2, <2>6, <2>7, <2>9
  <1>5. QED
    BY <1>3, <1>4

\* The steps of the module keep the types of both.
LEMMA FramesFitNext == ASSUME FramesFit, TrafficNext PROVE FramesFit'
  <1> USE DEF FramesFit
  <1>1. ASSUME Tick \/ SetBack, UNCHANGED trafficVars PROVE FramesFit'
    <2>1. TimesFit' /\ UNCHANGED packet
      BY <1>1, TimesFitTick, TimesFitSetBack DEF Tick, SetBack
    <2>2. QED
      BY <1>1, <2>1 DEF trafficVars
  <1>2. ASSUME ReceiveFrame PROVE FramesFit'
    <2>1. PICK f \in Frame : Receive(f)
      BY <1>2 DEF ReceiveFrame
    <2>2. TimesFit' /\ packet'.content = f
      BY <2>1, TimesFitReceive DEF Receive
    <2>3. QED
      BY <1>2, <2>2 DEF ReceiveFrame, trafficVars
  <1>3. ASSUME HandleFrame PROVE FramesFit'
    <2>1. PICK f, now, e, w : /\ f = packet.content /\ now = packet.now
                              /\ e = [at |-> now, mac |-> f.src, length |-> f.length]
                              /\ w = Append(recent, e)
      OBVIOUS
    <2>2. f \in Frame /\ now \in Nat /\ TimesFit' /\ packet' = None
      BY <1>3, <2>1, TimesFitHandled DEF HandleFrame, Handled, TimesFit
    <2>3. e \in InWindow /\ [at |-> now, frame |-> f] \in Recorded
      BY <2>1, <2>2, RecordedFits
    <2>4. w \in Seq(InWindow)
      BY <2>1, <2>3
    <2>5. counted' \in Seq(Recorded)
      BY <1>3, <2>1, <2>3 DEF HandleFrame
    <2>6. recent' = Trim(w, now)
      BY <1>3, <2>1 DEF HandleFrame
    <2>7. recent' \in Seq(InWindow)
      BY <2>2, <2>4, <2>6, TrimDrops
    <2>8. QED
      BY <2>2, <2>5, <2>7
  <1>4. ASSUME GetTrafficStats PROVE FramesFit'
    <2>1. UNCHANGED <<packet, counted>> /\ TimesFit' /\ clock \in Nat
      BY <1>4 DEF GetTrafficStats, listenerVars, TimesFit
    <2>2. recent' \in Seq(InWindow)
      BY <1>4, <2>1, TrimDrops DEF GetTrafficStats
    <2>3. QED
      BY <2>1, <2>2
  <1>5. ASSUME ResetTraffic PROVE FramesFit'
    BY <1>5 DEF ResetTraffic, listenerVars, TimesFit
  <1> HIDE DEF FramesFit
  <1>6. QED
    BY <1>1, <1>2, <1>3, <1>4, <1>5 DEF TrafficNext

\* A window w shows the frames of c from the k-th on; the others are too old.
Shows(w, c, k, now) ==
    /\ Len(w) = Len(c) - k
    /\ \A i \in 1 .. Len(w) : w[i].at = c[k + i].at /\ w[i].mac = c[k + i].frame.src
    /\ \A i \in 1 .. k : c[i].at < now - RateWindow

\* Trimming the window later leaves that true.
LEMMA TrimShows ==
  ASSUME NEW w \in Seq(InWindow), NEW c \in Seq(Recorded), NEW k \in 0 .. Len(c),
         NEW now \in Nat, NEW later \in Nat, now <= later, Shows(w, c, k, later),
         NEW t, t = Trim(w, now)
  PROVE  \E n \in 0 .. Len(c) : Shows(t, c, n, later)
  <1>1. PICK d \in 0 .. Len(w) : Drops(w, now, t, d)
    BY TrimDrops
  <1>2. t \in Seq(InWindow)
    BY TrimDrops
  <1>3. Len(w) \in Nat /\ Len(c) \in Nat /\ Len(t) \in Nat /\ d \in Nat /\ k \in Nat
    BY <1>1, <1>2
  <1>4. k + d \in 0 .. Len(c) /\ Len(t) = Len(c) - (k + d)
    BY <1>1, <1>3 DEF Drops, Shows
  <1>5. ASSUME NEW i \in 1 .. Len(t)
        PROVE  t[i].at = c[(k + d) + i].at /\ t[i].mac = c[(k + d) + i].frame.src
    <2>1. t[i] = w[d + i] /\ d + i \in 1 .. Len(w)
      BY <1>1, <1>3 DEF Drops
    <2>2. w[d + i].at = c[k + (d + i)].at /\ w[d + i].mac = c[k + (d + i)].frame.src
      BY <2>1 DEF Shows
    <2>3. k + (d + i) = (k + d) + i
      BY <1>3
    <2>4. QED
      BY <2>1, <2>2, <2>3
  <1>6. ASSUME NEW i \in 1 .. k + d PROVE c[i].at < later - RateWindow
    <2>1. CASE i <= k
      BY <1>3, <2>1 DEF Shows
    <2>2. CASE i > k
      <3>1. i - k \in 1 .. d /\ i - k \in 1 .. Len(w) /\ k + (i - k) = i
        BY <1>1, <1>3, <2>2
      <3>2. w[i - k].at < now - RateWindow /\ w[i - k].at = c[k + (i - k)].at
        BY <1>1, <3>1 DEF Drops, Shows
      <3>3. c[i].at \in Nat
        <4>1. c[i] \in Recorded
          BY <1>3, <1>4
        <4>2. QED
          BY <4>1 DEF Recorded
      <3>4. QED
        BY <3>1, <3>2, <3>3, TrafficAssumption
    <2>3. QED
      BY <1>3, <2>1, <2>2
  <1>7. Shows(t, c, k + d, later)
    BY <1>4, <1>5, <1>6 DEF Shows
  <1>8. QED
    BY <1>4, <1>7

\* The window as WindowExact states it.
LEMMA WindowShows ==
  ASSUME FramesFit
  PROVE  WindowExact <=> (setbacks = 0 => \E k \in 0 .. Len(counted) : Shows(recent, counted, k, clock))
  <1>1. DOMAIN recent = 1 .. Len(recent)
    BY DEF FramesFit
  <1>2. QED
    BY <1>1 DEF WindowExact, Shows

\* It stays exact.
LEMMA WindowNext == ASSUME FramesFit, WindowExact, TrafficNext PROVE WindowExact'
  <1> DEFINE Exact == \E k \in 0 .. Len(counted) : Shows(recent, counted, k, clock)
  <1>1. FramesFit'
    BY FramesFitNext
  <1>2. (setbacks = 0 => Exact) /\ (WindowExact' <=> (setbacks' = 0 => Exact'))
    <2>1. WindowExact <=> (setbacks = 0 => Exact)
      BY WindowShows
    <2>2. WindowExact' <=> (setbacks' = 0 => Exact')
      <3>1. DOMAIN recent' = 1 .. Len(recent')
        BY <1>1 DEF FramesFit
      <3>2. QED
        BY <3>1 DEF WindowExact, Shows
    <2>3. QED
      BY <2>1, <2>2
  <1>3. /\ clock \in Nat /\ setbacks \in Nat
        /\ counted \in Seq(Recorded) /\ recent \in Seq(InWindow)
    BY DEF FramesFit, TimesFit
  <1> SUFFICES ASSUME setbacks' = 0 PROVE Exact'
    BY <1>2
  <1>4. ASSUME Tick, UNCHANGED trafficVars PROVE Exact'
    <2>1. clock' = clock + 1 /\ UNCHANGED <<setbacks, recent, counted>>
      BY <1>4 DEF Tick, trafficVars
    <2>2. PICK k \in 0 .. Len(counted) : Shows(recent, counted, k, clock)
      BY <1>2, <2>1
    <2>3. \A i \in 1 .. k : counted[i].at \in Nat
      <3>1. \A i \in 1 .. k : counted[i] \in Recorded
        BY <1>3
      <3>2. QED
        BY <3>1 DEF Recorded
    <2>4. Shows(recent, counted, k, clock')
      BY <1>3, <2>1, <2>2, <2>3, TrafficAssumption DEF Shows
    <2>5. QED
      BY <2>1, <2>4 DEF Shows
  <1>5. ASSUME SetBack PROVE FALSE
    BY <1>3, <1>5 DEF SetBack
  <1>6. ASSUME ReceiveFrame PROVE Exact'
    BY <1>2, <1>6 DEF ReceiveFrame, Receive, trafficVars, Shows
  <1>7. ASSUME HandleFrame PROVE Exact'
    <2>1. PICK f, now, e, w, c : /\ f = packet.content /\ now = packet.now
                                 /\ e = [at |-> now, mac |-> f.src, length |-> f.length]
                                 /\ w = Append(recent, e)
                                 /\ c = Append(counted, [at |-> now, frame |-> f])
      OBVIOUS
    <2>2. /\ UNCHANGED <<clock, setbacks>> /\ f \in Frame /\ now \in Nat /\ now <= clock
          /\ recent' = Trim(w, now) /\ counted' = c
      BY <1>7, <2>1 DEF HandleFrame, Handled, FramesFit, TimesFit
    <2>3. PICK k \in 0 .. Len(counted) : Shows(recent, counted, k, clock)
      BY <1>2, <2>2
    <2>4. e \in InWindow /\ [at |-> now, frame |-> f] \in Recorded
      BY <2>1, <2>2, RecordedFits
    <2>5. /\ w \in Seq(InWindow) /\ Len(w) = Len(recent) + 1
          /\ \A i \in 1 .. Len(recent) : w[i] = recent[i]
          /\ w[Len(recent) + 1] = e
      BY <1>3, <2>1, <2>4, AppendProperties
    <2>6. /\ c \in Seq(Recorded) /\ Len(c) = Len(counted) + 1
          /\ \A i \in 1 .. Len(counted) : c[i] = counted[i]
          /\ c[Len(counted) + 1] = [at |-> now, frame |-> f]
      BY <1>3, <2>1, <2>4, AppendProperties
    <2>7. Shows(w, c, k, clock) /\ k \in 0 .. Len(c)
      <3>1. /\ Len(recent) \in Nat /\ Len(counted) \in Nat /\ k \in Nat /\ k <= Len(counted)
            /\ Len(recent) = Len(counted) - k
        BY <1>3, <2>3 DEF Shows
      <3>2. Len(w) = Len(c) - k /\ k \in 0 .. Len(c)
        BY <2>5, <2>6, <3>1
      <3>3. ASSUME NEW i \in 1 .. Len(w)
            PROVE  w[i].at = c[k + i].at /\ w[i].mac = c[k + i].frame.src
        <4>1. CASE i = Len(recent) + 1
          <5>1. k + i = Len(counted) + 1
            BY <3>1, <4>1
          <5>2. QED
            BY <2>1, <2>5, <2>6, <4>1, <5>1
        <4>2. CASE i \in 1 .. Len(recent)
          <5>1. k + i \in 1 .. Len(counted)
            BY <3>1, <4>2
          <5>2. QED
            BY <2>3, <2>5, <2>6, <4>2, <5>1 DEF Shows
        <4>3. QED
          BY <2>5, <3>1, <3>3, <4>1, <4>2
      <3>4. \A i \in 1 .. k : c[i].at < clock - RateWindow
        BY <2>3, <2>6, <3>1 DEF Shows
      <3>5. QED
        BY <3>2, <3>3, <3>4 DEF Shows
    <2>8. \E n \in 0 .. Len(c) : Shows(recent', c, n, clock)
      BY <1>3, <2>2, <2>5, <2>6, <2>7, TrimShows
    <2>9. QED
      BY <2>2, <2>8 DEF Shows
  <1>8. ASSUME GetTrafficStats PROVE Exact'
    <2>1. UNCHANGED <<clock, setbacks, counted>> /\ recent' = Trim(recent, clock)
      BY <1>8 DEF GetTrafficStats, listenerVars
    <2>2. PICK k \in 0 .. Len(counted) : Shows(recent, counted, k, clock)
      BY <1>2, <2>1
    <2>3. PICK w, c, now, t : w = recent /\ c = counted /\ now = clock /\ t = recent'
      OBVIOUS
    <2>4. /\ w \in Seq(InWindow) /\ c \in Seq(Recorded) /\ k \in 0 .. Len(c) /\ now \in Nat
          /\ Shows(w, c, k, now) /\ t = Trim(w, now)
      BY <1>3, <2>1, <2>2, <2>3
    <2>5. \E n \in 0 .. Len(c) : Shows(t, c, n, now)
      BY <2>4, TrimShows
    <2>6. QED
      BY <2>1, <2>3, <2>5 DEF Shows
  <1>9. ASSUME ResetTraffic PROVE Exact'
    <2>1. recent' = << >> /\ counted' = << >>
      BY <1>9 DEF ResetTraffic
    <2>2. 0 \in 0 .. Len(counted') /\ Shows(recent', counted', 0, clock')
      BY <2>1 DEF Shows
    <2>3. QED
      BY <2>2 DEF Shows
  <1> HIDE DEF Exact
  <1>10. QED
    BY <1>4, <1>5, <1>6, <1>7, <1>8, <1>9 DEF TrafficNext

(* The rate of get_stats() is over the frames of the last                   *)
(* _RATE_WINDOW_SECONDS: none of them is missing from _recent_packets and   *)
(* none from before a reset() is in it, for any window, load and delay of a *)
(* handler, as long as the clock is not set back (traffic_stats.py).        *)
THEOREM WindowIsExact == TrafficSpec => []WindowExact
  <1>1. ListenerInit /\ TrafficInit => FramesFit /\ WindowExact
    <2> SUFFICES ASSUME ListenerInit, TrafficInit PROVE FramesFit /\ WindowExact
      OBVIOUS
    <2>1. recent = << >> /\ counted = << >> /\ packet = None /\ TimesFit
      BY TimesFitInit DEF ListenerInit, TrafficInit
    <2>2. FramesFit
      BY <2>1 DEF FramesFit
    <2>3. 0 \in 0 .. Len(counted) /\ Shows(recent, counted, 0, clock)
      BY <2>1 DEF Shows
    <2>4. QED
      BY <2>2, <2>3, WindowShows
  <1>2. FramesFit /\ WindowExact /\ UNCHANGED <<listenerVars, trafficVars>>
          => FramesFit' /\ WindowExact'
    BY DEF FramesFit, WindowExact, TimesFit, listenerVars, trafficVars
  <1>3. FramesFit /\ WindowExact /\ TrafficNext => FramesFit' /\ WindowExact'
    BY FramesFitNext, WindowNext
  <1>4. QED
    BY <1>1, <1>2, <1>3, PTL DEF TrafficSpec

Totals == [packets : Nat, bytes : Nat, cast : [Cast -> Nat], protocols : [ProtocolNames -> Nat]]

\* The frames of c that came from m, and those of them that speak p.
From(c, m) == {i \in DOMAIN c : c[i].frame.src = m}
Speaking(c, m, p) == {i \in DOMAIN c : c[i].frame.src = m /\ p \in ProtocolsOf(c[i].frame)}

\* A row counts the frames of its MAC.
RowCounts(row, c, m) ==
    /\ row.totals \in Totals
    /\ row.totals.packets = Cardinality(From(c, m))
    /\ \A p \in ProtocolNames : row.totals.protocols[p] = Cardinality(Speaking(c, m, p))

\* The totals are of all frames, and every row of those of its MAC; a MAC that
\* has no row although there is room for one sent nothing or is eth0's own.
TotalsFit ==
    /\ stats \in Totals /\ stats.packets = Len(counted)
    /\ stats.cast["broadcast"] + stats.cast["multicast"] + stats.cast["unicast"] = stats.packets

RowsFit ==
    /\ IsFiniteSet(DOMAIN talkers)
    /\ \A m \in DOMAIN talkers : RowCounts(talkers[m], counted, m) /\ m # selfMac
    /\ Cardinality(DOMAIN talkers) < MaxTalkers =>
          \A m : m \notin DOMAIN talkers /\ m # selfMac => From(counted, m) = {}
    /\ selfMac = "unread" => counted = << >> /\ DOMAIN talkers = {}

\* What _classify_and_record() adds to a row.
LEMMA CountAdds ==
  ASSUME NEW totals \in Totals, NEW f \in Frame, NEW new, new = Count(totals, f)
  PROVE  /\ new \in Totals
         /\ new.packets = totals.packets + 1
         /\ \A p \in ProtocolNames :
               new.protocols[p] = totals.protocols[p] + (IF p \in ProtocolsOf(f) THEN 1 ELSE 0)
         /\ new.cast["broadcast"] + new.cast["multicast"] + new.cast["unicast"]
              = totals.cast["broadcast"] + totals.cast["multicast"] + totals.cast["unicast"] + 1
  <1>1. /\ totals.packets \in Nat /\ totals.bytes \in Nat /\ f.length \in Nat
        /\ totals.cast \in [Cast -> Nat] /\ totals.protocols \in [ProtocolNames -> Nat]
    BY TrafficAssumption DEF Totals
  <1>2. /\ new.packets = totals.packets + 1
        /\ new.bytes = totals.bytes + f.length
        /\ new.cast = [totals.cast EXCEPT ![CastOf(f)] = @ + 1]
        /\ new.protocols = [p \in ProtocolNames |->
                              totals.protocols[p] + (IF p \in ProtocolsOf(f) THEN 1 ELSE 0)]
        /\ new = [packets |-> new.packets, bytes |-> new.bytes, cast |-> new.cast,
                  protocols |-> new.protocols]
    BY DEF Count
  <1>3. CastOf(f) \in Cast
    BY DEF CastOf, Cast
  <1>4. new.cast \in [Cast -> Nat] /\ new.protocols \in [ProtocolNames -> Nat]
    <2>1. new.cast \in [Cast -> Nat]
      BY <1>1, <1>2, <1>3
    <2>2. \A p \in ProtocolNames :
             totals.protocols[p] + (IF p \in ProtocolsOf(f) THEN 1 ELSE 0) \in Nat
      BY <1>1
    <2>3. new.protocols \in [ProtocolNames -> Nat]
      BY <1>2, <2>2
    <2>4. QED
      BY <2>1, <2>3
  <1>5. new \in Totals
    BY <1>1, <1>2, <1>4 DEF Totals
  <1>6. new.cast["broadcast"] + new.cast["multicast"] + new.cast["unicast"]
          = totals.cast["broadcast"] + totals.cast["multicast"] + totals.cast["unicast"] + 1
    BY <1>1, <1>2 DEF CastOf, Cast
  <1>7. QED
    BY <1>2, <1>5, <1>6

Recording(c, now, f) == Append(c, [at |-> now, frame |-> f])

\* One more frame is counted under its source, and under no other MAC.
LEMMA FromAppended ==
  ASSUME NEW c \in Seq(Recorded), NEW now \in Nat, NEW f \in Frame,
         NEW c2, c2 = Recording(c, now, f), NEW m
  PROVE  /\ m # f.src => From(c2, m) = From(c, m)
         /\ Cardinality(From(c2, f.src)) = Cardinality(From(c, f.src)) + 1
         /\ \A p : m # f.src => Speaking(c2, m, p) = Speaking(c, m, p)
         /\ \A p : Cardinality(Speaking(c2, f.src, p))
                     = Cardinality(Speaking(c, f.src, p)) + (IF p \in ProtocolsOf(f) THEN 1 ELSE 0)
  <1> DEFINE n == Len(c) + 1
  <1>1. [at |-> now, frame |-> f] \in Recorded
    BY RecordedFits
  <1>2. /\ Len(c) \in Nat /\ DOMAIN c = 1 .. Len(c)
        /\ DOMAIN c2 = 1 .. n
        /\ \A i \in 1 .. Len(c) : c2[i] = c[i]
        /\ c2[n].frame = f
    <2>1. PICK e \in Recorded : e.frame = f /\ c2 = Append(c, e)
      BY <1>1 DEF Recording
    <2>2. /\ c2 \in Seq(Recorded) /\ Len(c2) = n /\ c2[n] = e
          /\ \A i \in 1 .. Len(c) : c2[i] = c[i]
      BY <2>1, AppendProperties
    <2>3. DOMAIN c2 = 1 .. n /\ DOMAIN c = 1 .. Len(c) /\ Len(c) \in Nat
      BY <2>2, LenProperties
    <2>4. QED
      BY <2>1, <2>2, <2>3
  <1>3. DOMAIN c2 = DOMAIN c \cup {n} /\ n \notin DOMAIN c /\ \A i \in DOMAIN c : c2[i] = c[i]
    BY <1>2
  <1>4. IsFiniteSet(DOMAIN c)
    <2>1. Len(c) \in Int /\ 1 \in Int /\ DOMAIN c = 1 .. Len(c)
      BY <1>2
    <2>2. IsFiniteSet(1 .. Len(c))
      BY <2>1, FS_Interval
    <2>3. QED
      BY <2>1, <2>2
  <1> HIDE DEF n
  <1>5. From(c2, f.src) = From(c, f.src) \cup {n} /\ (m # f.src => From(c2, m) = From(c, m))
    BY <1>2, <1>3 DEF From
  <1>6. \A p : /\ m # f.src => Speaking(c2, m, p) = Speaking(c, m, p)
               /\ p \in ProtocolsOf(f)
                     => Speaking(c2, f.src, p) = Speaking(c, f.src, p) \cup {n}
               /\ p \notin ProtocolsOf(f) => Speaking(c2, f.src, p) = Speaking(c, f.src, p)
    BY <1>2, <1>3 DEF Speaking
  <1>7. IsFiniteSet(From(c, f.src)) /\ n \notin From(c, f.src)
    BY <1>3, <1>4, FS_Subset DEF From
  <1>8. \A p : IsFiniteSet(Speaking(c, f.src, p)) /\ n \notin Speaking(c, f.src, p)
    <2> SUFFICES ASSUME NEW p
                 PROVE  IsFiniteSet(Speaking(c, f.src, p)) /\ n \notin Speaking(c, f.src, p)
      OBVIOUS
    <2>1. Speaking(c, f.src, p) \subseteq DOMAIN c
      BY DEF Speaking
    <2>2. QED
      BY <1>3, <1>4, <2>1, FS_Subset
  <1>9. Cardinality(From(c2, f.src)) = Cardinality(From(c, f.src)) + 1
    BY <1>5, <1>7, FS_AddElement
  <1>10. ASSUME NEW p
         PROVE  Cardinality(Speaking(c2, f.src, p))
                  = Cardinality(Speaking(c, f.src, p)) + (IF p \in ProtocolsOf(f) THEN 1 ELSE 0)
    <2>1. Cardinality(Speaking(c, f.src, p)) \in Nat
      BY <1>8, FS_CardinalityType
    <2>2. CASE p \in ProtocolsOf(f)
      <3>1. Cardinality(Speaking(c2, f.src, p)) = Cardinality(Speaking(c, f.src, p)) + 1
        BY <1>6, <1>8, <2>2, FS_AddElement
      <3>2. QED
        BY <2>2, <3>1
    <2>3. CASE p \notin ProtocolsOf(f)
      BY <1>6, <2>1, <2>3
    <2>4. QED
      BY <2>2, <2>3
  <1>11. QED
    BY <1>5, <1>6, <1>9, <1>10

\* The rows of the other MACs still count theirs, that of the source one more.
LEMMA RowCountsAppended ==
  ASSUME NEW c \in Seq(Recorded), NEW now \in Nat, NEW f \in Frame,
         NEW c2, c2 = Recording(c, now, f), NEW row, NEW m, RowCounts(row, c, m)
  PROVE  /\ m # f.src => RowCounts(row, c2, m)
         /\ m = f.src => RowCounts(CountTalker(row, f), c2, m)
  <1>1. ASSUME m # f.src PROVE RowCounts(row, c2, m)
    BY <1>1, FromAppended DEF RowCounts
  <1>2. ASSUME m = f.src PROVE RowCounts(CountTalker(row, f), c2, m)
    <2>1. PICK old, new : old = row.totals /\ new = Count(old, f)
      OBVIOUS
    <2>2. old \in Totals /\ old.packets = Cardinality(From(c, m))
          /\ \A p \in ProtocolNames : old.protocols[p] = Cardinality(Speaking(c, m, p))
      BY <2>1 DEF RowCounts
    <2>3. /\ new \in Totals /\ new.packets = old.packets + 1
          /\ \A p \in ProtocolNames :
                new.protocols[p] = old.protocols[p] + (IF p \in ProtocolsOf(f) THEN 1 ELSE 0)
      BY <2>1, <2>2, CountAdds
    <2>4. /\ Cardinality(From(c2, m)) = Cardinality(From(c, m)) + 1
          /\ \A p : Cardinality(Speaking(c2, m, p))
                      = Cardinality(Speaking(c, m, p)) + (IF p \in ProtocolsOf(f) THEN 1 ELSE 0)
      BY <1>2, FromAppended
    <2>5. CountTalker(row, f).totals = new
      BY <2>1 DEF CountTalker
    <2>6. QED
      BY <2>2, <2>3, <2>4, <2>5 DEF RowCounts
  <1>3. QED
    BY <1>1, <1>2

\* A new row counts nothing.
LEMMA NewRowCounts ==
  ASSUME NEW c, NEW m, From(c, m) = {} PROVE RowCounts(NewTalker, c, m)
  <1>1. \A p : Speaking(c, m, p) = {}
    BY DEF From, Speaking
  <1>2. Cardinality({}) = 0
    BY FS_EmptySet
  <1>3. NewTalker.totals = NoCounts /\ NoCounts \in Totals
    BY DEF NewTalker, NoCounts, Totals
  <1>4. NoCounts.packets = 0 /\ \A p \in ProtocolNames : NoCounts.protocols[p] = 0
    BY DEF NoCounts
  <1>5. QED
    BY <1>1, <1>2, <1>3, <1>4 DEF RowCounts

\* The totals stay right.
LEMMA TotalsFitNext == ASSUME FramesFit, TotalsFit, TrafficNext PROVE TotalsFit'
  <1>1. ASSUME UNCHANGED <<stats, counted>> PROVE TotalsFit'
    BY <1>1 DEF TotalsFit
  <1>2. ASSUME HandleFrame PROVE TotalsFit'
    <2>1. PICK f, now, old, new, e : /\ f = packet.content /\ now = packet.now
                                     /\ old = stats /\ new = stats'
                                     /\ e = [at |-> now, frame |-> f]
      OBVIOUS
    <2>2. f \in Frame /\ now \in Nat /\ new = Count(old, f) /\ counted' = Append(counted, e)
      BY <1>2, <2>1 DEF HandleFrame, FramesFit, TimesFit
    <2>3. old \in Totals
      BY <2>1 DEF TotalsFit
    <2>4. /\ new \in Totals /\ new.packets = old.packets + 1
          /\ new.cast["broadcast"] + new.cast["multicast"] + new.cast["unicast"]
               = old.cast["broadcast"] + old.cast["multicast"] + old.cast["unicast"] + 1
      BY <2>2, <2>3, CountAdds
    <2>5. e \in Recorded
      BY <2>1, <2>2, RecordedFits
    <2>6. Len(counted') = Len(counted) + 1
      BY <2>2, <2>5, AppendProperties DEF FramesFit
    <2>7. QED
      BY <2>1, <2>4, <2>6 DEF TotalsFit
  <1>3. ASSUME ResetTraffic PROVE TotalsFit'
    <2>1. /\ NoCounts \in Totals /\ NoCounts.packets = 0
          /\ NoCounts.cast["broadcast"] + NoCounts.cast["multicast"] + NoCounts.cast["unicast"] = 0
      BY DEF NoCounts, Totals, Cast
    <2>2. QED
      BY <1>3, <2>1 DEF ResetTraffic, TotalsFit
  <1>4. QED
    BY <1>1, <1>2, <1>3 DEF TrafficNext, ReceiveFrame, GetTrafficStats, trafficVars

\* So do the rows, when a frame is recorded,
LEMMA RowsFitHandled == ASSUME FramesFit, RowsFit, HandleFrame PROVE RowsFit'
  <1>1. PICK f, now, c, c2, old, new, own, own2 :
           /\ f = packet.content /\ now = packet.now
           /\ c = counted /\ c2 = counted' /\ old = talkers /\ new = talkers'
           /\ own = selfMac /\ own2 = selfMac'
    OBVIOUS
  <1>2. /\ f \in Frame /\ now \in Nat /\ c \in Seq(Recorded)
        /\ c2 = Recording(c, now, f)
    BY <1>1 DEF HandleFrame, FramesFit, TimesFit, Recording
  <1>3. /\ own2 # "unread"
        /\ own # "unread" => own2 = own
    BY <1>1, TrafficAssumption DEF HandleFrame, OwnMac
  <1>4. /\ IsFiniteSet(DOMAIN old) /\ Cardinality(DOMAIN old) \in Nat /\ MaxTalkers \in Nat
        /\ \A m \in DOMAIN old : RowCounts(old[m], c, m) /\ m # own2
        /\ Cardinality(DOMAIN old) < MaxTalkers =>
              \A m : m \notin DOMAIN old /\ m # own2 => From(c, m) = {}
    <2>1. /\ IsFiniteSet(DOMAIN old)
          /\ \A m \in DOMAIN old : RowCounts(old[m], c, m) /\ m # own
          /\ Cardinality(DOMAIN old) < MaxTalkers =>
                \A m : m \notin DOMAIN old /\ m # own => From(c, m) = {}
          /\ own = "unread" => c = << >> /\ DOMAIN old = {}
      BY <1>1 DEF RowsFit
    <2>2. c = << >> => \A m : From(c, m) = {}
      BY DEF From
    <2>3. QED
      BY <1>3, <2>1, <2>2, FS_CardinalityType, TrafficAssumption
  <1>5. \A m : m # f.src => From(c2, m) = From(c, m)
    BY <1>2, FromAppended
  <1>6. \A m \in DOMAIN old : m # f.src => RowCounts(old[m], c2, m)
    BY <1>2, <1>4, RowCountsAppended
  <1> SUFFICES /\ IsFiniteSet(DOMAIN new)
               /\ \A m \in DOMAIN new : RowCounts(new[m], c2, m) /\ m # own2
               /\ Cardinality(DOMAIN new) < MaxTalkers =>
                     \A m : m \notin DOMAIN new /\ m # own2 => From(c2, m) = {}
    BY <1>1, <1>3 DEF RowsFit, RowCounts, From, Speaking
  <1>7. CASE f.src = own2 /\ new = old
    BY <1>4, <1>5, <1>6, <1>7
  <1>8. CASE /\ f.src # own2 /\ f.src \in DOMAIN old
             /\ new = [old EXCEPT ![f.src] = CountTalker(@, f)]
    <2>1. DOMAIN new = DOMAIN old /\ new[f.src] = CountTalker(old[f.src], f)
          /\ \A m \in DOMAIN old : m # f.src => new[m] = old[m]
      BY <1>8
    <2>2. RowCounts(CountTalker(old[f.src], f), c2, f.src)
      BY <1>2, <1>4, <1>8, RowCountsAppended
    <2>3. QED
      BY <1>4, <1>5, <1>6, <1>8, <2>1, <2>2
  <1>9. CASE /\ f.src # own2 /\ f.src \notin DOMAIN old /\ Cardinality(DOMAIN old) < MaxTalkers
             /\ new = [m \in DOMAIN old \cup {f.src} |->
                         IF m = f.src THEN CountTalker(NewTalker, f) ELSE old[m]]
    <2>1. /\ DOMAIN new = DOMAIN old \cup {f.src}
          /\ new[f.src] = CountTalker(NewTalker, f)
          /\ \A m \in DOMAIN old : m # f.src => new[m] = old[m]
      BY <1>9
    <2>2. From(c, f.src) = {}
      BY <1>4, <1>9
    <2>3. RowCounts(NewTalker, c, f.src)
      BY <2>2, NewRowCounts
    <2>4. RowCounts(CountTalker(NewTalker, f), c2, f.src)
      BY <1>2, <2>3, RowCountsAppended
    <2>5. IsFiniteSet(DOMAIN new)
      BY <1>4, <2>1, FS_AddElement
    <2>6. QED
      BY <1>4, <1>5, <1>6, <1>9, <2>1, <2>4, <2>5
  <1>10. CASE /\ f.src # own2 /\ f.src \notin DOMAIN old /\ Cardinality(DOMAIN old) >= MaxTalkers
              /\ new = old
    BY <1>4, <1>6, <1>10
  <1>11. QED
    BY <1>1, <1>7, <1>8, <1>9, <1>10 DEF HandleFrame

\* and in every other step.
LEMMA RowsFitNext == ASSUME FramesFit, RowsFit, TrafficNext PROVE RowsFit'
  <1>1. ASSUME UNCHANGED <<talkers, counted, selfMac>> PROVE RowsFit'
    BY <1>1 DEF RowsFit, RowCounts, From, Speaking
  <1>2. ASSUME HandleFrame PROVE RowsFit'
    BY <1>2, RowsFitHandled
  <1>3. ASSUME ResetTraffic PROVE RowsFit'
    <2>1. DOMAIN talkers' = {} /\ counted' = << >>
      BY <1>3 DEF ResetTraffic
    <2>2. \A m : From(counted, m)' = {}
      BY <2>1 DEF From
    <2>3. QED
      BY <2>1, <2>2, FS_EmptySet DEF RowsFit, From
  <1>4. QED
    BY <1>1, <1>2, <1>3 DEF TrafficNext, ReceiveFrame, GetTrafficStats, trafficVars

(* The summary and the talkers of get_stats() describe the same frames, all *)
(* those recorded since the last reset(): a row counts every one of its MAC *)
(* and, per protocol, those that speak it, the casts add up, and eth0's own *)
(* address is no talker, for any cap, frames and order of reads and resets  *)
(* (traffic_stats.py, _classify_and_record).                                *)
THEOREM TalkersAreExact == TrafficSpec => []TalkersExact
  <1>1. ListenerInit /\ TrafficInit => FramesFit /\ TotalsFit /\ RowsFit
    <2> SUFFICES ASSUME ListenerInit, TrafficInit PROVE FramesFit /\ TotalsFit /\ RowsFit
      OBVIOUS
    <2>1. /\ recent = << >> /\ counted = << >> /\ packet = None /\ TimesFit
          /\ DOMAIN talkers = {} /\ stats = NoCounts
      BY TimesFitInit DEF ListenerInit, TrafficInit
    <2>2. FramesFit
      BY <2>1 DEF FramesFit
    <2>3. /\ NoCounts \in Totals /\ NoCounts.packets = 0
          /\ NoCounts.cast["broadcast"] + NoCounts.cast["multicast"] + NoCounts.cast["unicast"] = 0
      BY DEF NoCounts, Totals, Cast
    <2>4. TotalsFit
      BY <2>1, <2>3 DEF TotalsFit
    <2>5. RowsFit
      BY <2>1, FS_EmptySet DEF RowsFit, From
    <2>6. QED
      BY <2>2, <2>4, <2>5
  <1>2. FramesFit /\ TotalsFit /\ RowsFit /\ UNCHANGED <<listenerVars, trafficVars>>
          => FramesFit' /\ TotalsFit' /\ RowsFit'
    BY DEF FramesFit, TotalsFit, RowsFit, RowCounts, From, Speaking, TimesFit,
           listenerVars, trafficVars
  <1>3. FramesFit /\ TotalsFit /\ RowsFit /\ TrafficNext => FramesFit' /\ TotalsFit' /\ RowsFit'
    BY FramesFitNext, TotalsFitNext, RowsFitNext
  <1>4. TotalsFit /\ RowsFit => TalkersExact
    <2> SUFFICES ASSUME TotalsFit, RowsFit, NEW m \in DOMAIN talkers
                 PROVE  /\ talkers[m].totals.packets = CountedBy(m, LAMBDA f : TRUE)
                        /\ \A p \in ProtocolNames : talkers[m].totals.protocols[p]
                                               = CountedBy(m, LAMBDA f : p \in ProtocolsOf(f))
                        /\ m # selfMac
      BY Zenon DEF TalkersExact, TotalsFit
    <2>1. RowCounts(talkers[m], counted, m) /\ m # selfMac
      BY DEF RowsFit
    <2>2. CountedBy(m, LAMBDA f : TRUE) = Cardinality(From(counted, m))
      BY DEF CountedBy, From
    <2>3. ASSUME NEW p PROVE CountedBy(m, LAMBDA f : p \in ProtocolsOf(f))
                               = Cardinality(Speaking(counted, m, p))
      BY DEF CountedBy, Speaking
    <2>4. QED
      BY <2>1, <2>2, <2>3 DEF RowCounts
  <1>5. QED
    BY <1>1, <1>2, <1>3, <1>4, PTL DEF TrafficSpec
-----------------------------------------------------------------------------
(* The parsers of discovery/lldp.py, cdp.py and mndp.py *)

Read == [fields : [Field -> {None, Empty} \cup STRING], done : BOOLEAN, raised : BOOLEAN]
NothingRead == [fields |-> NoFields, done |-> FALSE, raised |-> FALSE]

\* One TLV.
LEMMA ReadTlvType ==
  ASSUME NEW protocol, NEW acc \in Read, NEW tlv \in TlvType
  PROVE  ReadTlv(protocol, acc, tlv) \in Read
  <1>1. Value(tlv) \in {None, Empty} \cup STRING
    BY DEF Value, TlvType
  <1>2. PICK v : v = Value(tlv) /\ v \in {None, Empty} \cup STRING
    BY <1>1
  <1>3. [acc.fields EXCEPT ![tlv.field] = v] \in [Field -> {None, Empty} \cup STRING]
    BY <1>2 DEF Read, TlvType
  <1>4. CASE acc.done
    BY <1>4 DEF ReadTlv
  <1>5. CASE ~acc.done /\ Stops(protocol, tlv)
    BY <1>5 DEF ReadTlv, Read
  <1>6. CASE ~acc.done /\ ~Stops(protocol, tlv)
    <2>1. PICK fields, done, raised :
             /\ fields = IF Carries(tlv) THEN [acc.fields EXCEPT ![tlv.field] = v] ELSE acc.fields
             /\ done = (tlv.form = "short" \/ Raises(protocol, tlv))
             /\ raised = Raises(protocol, tlv)
      OBVIOUS
    <2>2. ReadTlv(protocol, acc, tlv) = [fields |-> fields, done |-> done, raised |-> raised]
      BY <1>2, <1>6, <2>1 DEF ReadTlv
    <2>3. fields \in [Field -> {None, Empty} \cup STRING] /\ done \in BOOLEAN /\ raised \in BOOLEAN
      BY <1>3, <2>1 DEF Read, Raises
    <2>4. QED
      BY <2>2, <2>3 DEF Read
  <1>7. QED
    BY <1>4, <1>5, <1>6

\* The loop, as what it has read after each of the TLVs.
LEMMA ParseUnfolds ==
  ASSUME NEW protocol, NEW payload \in Seq(TlvType)
  PROVE  \E g : /\ Parse(protocol, payload) = g[1..Len(payload)] /\ g[{}] = NothingRead
                /\ \A n \in Nat : n + 1 \in 1..Len(payload) =>
                      /\ g[1..n] \in Read
                      /\ g[1..(n + 1)] = ReadTlv(protocol, g[1..n], payload[n + 1])
  <1> DEFINE S == DOMAIN payload
             F == [p \in Read \X TlvType |-> ReadTlv(protocol, p[1], p[2])]
             body(iter) == [t \in SUBSET S |->
                              IF t = {} THEN NothingRead
                              ELSE ReadTlv(protocol, iter[t \ {Max(t)}], payload[Max(t)])]
  <1>1. \A a \in Read, tlv \in TlvType :
          F[<<a, tlv>>] = ReadTlv(protocol, a, tlv) /\ F[<<a, tlv>>] \in Read
    BY ReadTlvType
  <1>2. \E g \in [SUBSET S -> Read] : \A t \in SUBSET S : FoldsTo(g, t, NothingRead, F, payload)
    <2>1. NothingRead \in Read
      BY DEF NothingRead, Read, NoFields
    <2>2. PICK B, X, G, base : B = Read /\ X = TlvType /\ G = F /\ base = NothingRead
      OBVIOUS
    <2>3. base \in B /\ payload \in Seq(X) /\ \A a \in B, tlv \in X : G[<<a, tlv>>] \in B
      BY <1>1, <2>1, <2>2, Zenon
    <2>4. \E g \in [SUBSET DOMAIN payload -> B] :
             \A t \in SUBSET DOMAIN payload : FoldsTo(g, t, base, G, payload)
      BY <2>3, SeqRecursion, Zenon
    <2> HIDE DEF F
    <2>5. QED
      BY <2>2, <2>4, Zenon
  <1>3. PICK g \in [SUBSET S -> Read] : \A t \in SUBSET S : FoldsTo(g, t, NothingRead, F, payload)
    BY <1>2
  <1>4. ASSUME NEW t \in SUBSET S, t # {}
        PROVE  g[t] = ReadTlv(protocol, g[t \ {Max(t)}], payload[Max(t)])
    <2>1. Max(t) \in S
      BY <1>4, MaxInSet
    <2>2. g[t \ {Max(t)}] \in Read /\ payload[Max(t)] \in TlvType
      BY <1>3, <2>1
    <2>3. g[t] = F[<<g[t \ {Max(t)}], payload[Max(t)]>>]
      BY <1>3, <1>4 DEF FoldsTo
    <2> HIDE DEF F
    <2>4. QED
      BY <1>1, <2>2, <2>3
  <1>5. g[{}] = NothingRead
    BY <1>3 DEF FoldsTo
  <1>6. g = body(g)
    BY <1>3, <1>4, <1>5
  <1>7. PICK iter : iter = CHOOSE h : h = body(h)
    OBVIOUS
  <1>8. iter = body(iter)
    BY <1>6, <1>7
  <1>9. Parse(protocol, payload) = iter[S]
    BY <1>7 DEF Parse, FoldLeft, MapThenFoldSet, NothingRead
  <1>10. S = 1..Len(payload) /\ Len(payload) \in Nat
    OBVIOUS
  <1>11. iter[{}] = NothingRead
    BY <1>8
  <1>12. ASSUME NEW n \in Nat, n + 1 \in 1..Len(payload)
         PROVE  iter[1..(n + 1)] = ReadTlv(protocol, iter[1..n], payload[n + 1])
    <2>1. PICK t : t = 1..(n + 1) /\ t \in SUBSET S /\ t # {}
      BY <1>10, <1>12
    <2>2. Max(t) = n + 1 /\ t \ {n + 1} = 1..n
      BY <2>1, MaxOfFirst
    <2>3. iter[t] = ReadTlv(protocol, iter[t \ {Max(t)}], payload[Max(t)])
      BY <1>8, <2>1
    <2>4. QED
      BY <2>1, <2>2, <2>3
  <1>13. ASSUME NEW n \in Nat, n \in 0..Len(payload) PROVE iter[1..n] \in Read
    <2> DEFINE P == {k \in Nat : k <= Len(payload) => iter[1..k] \in Read}
    <2>1. 0 \in P
      <3>1. 1..0 = {} /\ NothingRead \in Read
        BY DEF NothingRead, Read, NoFields
      <3>2. QED
        BY <1>11, <3>1
    <2>2. ASSUME NEW k \in P PROVE k + 1 \in P
      <3>1. k \in Nat /\ k + 1 \in Nat
        OBVIOUS
      <3>2. ASSUME k + 1 <= Len(payload) PROVE iter[1..(k + 1)] \in Read
        <4>1. k + 1 \in 1..Len(payload) /\ k <= Len(payload)
          BY <1>10, <3>1, <3>2
        <4>2. iter[1..k] \in Read /\ payload[k + 1] \in TlvType
          BY <4>1
        <4>3. QED
          BY <1>12, <3>1, <4>1, <4>2, ReadTlvType
      <3>3. QED
        BY <3>1, <3>2, Zenon DEF P
    <2> HIDE DEF P
    <2>3. Nat \subseteq P
      BY <2>1, <2>2, NatInductive
    <2>4. n \in P
      BY <2>3
    <2>5. QED
      BY <1>10, <1>13, <2>4 DEF P
  <1>14. ASSUME NEW n \in Nat, n + 1 \in 1..Len(payload) PROVE iter[1..n] \in Read
    BY <1>10, <1>13, <1>14
  <1>15. QED
    BY <1>9, <1>10, <1>11, <1>12, <1>14

Ends(protocol, tlv) == Stops(protocol, tlv) \/ tlv.form = "short"

\* Of the first n TLVs those that count and carry field f, and what they say.
Given(protocol, payload, n, f) ==
    {i \in 1..n : i \in Counting(protocol, payload) /\ Carries(payload[i]) /\ payload[i].field = f}
SaidBy(protocol, payload, n, f) ==
    IF Given(protocol, payload, n, f) = {} THEN None
    ELSE Value(payload[Max(Given(protocol, payload, n, f))])

\* What the loop holds after n TLVs: an error, which ended it, or what they say.
ReadSoFar(protocol, payload, n, acc) ==
    /\ acc.raised => acc.done
    /\ ~acc.raised => /\ acc.done <=> \E j \in 1..n : Ends(protocol, payload[j])
                      /\ \A f \in Field : acc.fields[f] = SaidBy(protocol, payload, n, f)

\* One more TLV.
LEMMA ReadFurther ==
  ASSUME NEW protocol, NEW payload \in Seq(TlvType),
         NEW n \in Nat, n + 1 \in 1..Len(payload), NEW acc \in Read,
         ReadSoFar(protocol, payload, n, acc),
         NEW next, next = ReadTlv(protocol, acc, payload[n + 1])
  PROVE  ReadSoFar(protocol, payload, n + 1, next)
  <1> DEFINE Last1(f) == n + 1 \in Counting(protocol, payload)
                         /\ Carries(payload[n + 1]) /\ payload[n + 1].field = f
  <1>1. PICK tlv : tlv = payload[n + 1] /\ tlv \in TlvType
    OBVIOUS
  <1>2. /\ 1..(n + 1) = (1..n) \cup {n + 1} /\ n + 1 \notin 1..n
        /\ 1..((n + 1) - 1) = 1..n /\ n + 1 \in DOMAIN payload
    OBVIOUS
  <1>3. n + 1 \in Counting(protocol, payload) <=>
           ~Stops(protocol, tlv) /\ ~(\E j \in 1..n : Ends(protocol, payload[j]))
    BY <1>1, <1>2 DEF Counting, Ends
  <1>4. ASSUME NEW f, ~Last1(f)
        PROVE  SaidBy(protocol, payload, n + 1, f) = SaidBy(protocol, payload, n, f)
    <2>1. Given(protocol, payload, n + 1, f) = Given(protocol, payload, n, f)
      BY <1>2, <1>4 DEF Given
    <2>2. QED
      BY <2>1 DEF SaidBy
  <1>5. ASSUME NEW f, Last1(f)
        PROVE  SaidBy(protocol, payload, n + 1, f) = Value(tlv)
    <2>1. PICK G : G = Given(protocol, payload, n + 1, f)
      OBVIOUS
    <2>2. n + 1 \in G /\ G \subseteq 1..(n + 1)
      BY <1>2, <1>5, <2>1 DEF Given
    <2>3. \A y \in G : n + 1 >= y
      BY <2>2
    <2>4. \A x \in G : (\A y \in G : x >= y) => x = n + 1
      BY <2>2
    <2>5. Max(G) = n + 1
      BY <2>2, <2>3, <2>4 DEF Max
    <2>6. QED
      BY <1>1, <2>1, <2>2, <2>5 DEF SaidBy
  <1>6. CASE acc.done
    <2>1. next = acc
      BY <1>6 DEF ReadTlv
    <2>2. ASSUME ~acc.raised
          PROVE  /\ \E j \in 1..(n + 1) : Ends(protocol, payload[j])
                 /\ \A f \in Field : acc.fields[f] = SaidBy(protocol, payload, n + 1, f)
      <3>1. PICK j \in 1..n : Ends(protocol, payload[j])
        BY <1>6, <2>2 DEF ReadSoFar
      <3>2. n + 1 \notin Counting(protocol, payload)
        BY <1>3, <3>1
      <3>3. \A f \in Field : acc.fields[f] = SaidBy(protocol, payload, n, f)
        BY <2>2 DEF ReadSoFar
      <3>4. \A f \in Field : SaidBy(protocol, payload, n + 1, f) = SaidBy(protocol, payload, n, f)
        BY <1>4, <3>2
      <3>5. QED
        BY <1>2, <3>1, <3>3, <3>4
    <2>3. QED
      BY <1>6, <2>1, <2>2 DEF ReadSoFar
  <1>7. CASE ~acc.done
    <2>1. /\ ~acc.raised /\ ~(\E j \in 1..n : Ends(protocol, payload[j]))
          /\ \A f \in Field : acc.fields[f] = SaidBy(protocol, payload, n, f)
      BY <1>7 DEF ReadSoFar
    <2>2. (\E j \in 1..(n + 1) : Ends(protocol, payload[j])) <=> Ends(protocol, tlv)
      BY <1>1, <1>2, <2>1
    <2>3. CASE Stops(protocol, tlv)
      <3>1. next.done = TRUE /\ next.raised = acc.raised /\ next.fields = acc.fields
        BY <1>1, <1>7, <2>3 DEF ReadTlv, Read
      <3>2. n + 1 \notin Counting(protocol, payload) /\ Ends(protocol, tlv)
        BY <1>3, <2>3 DEF Ends
      <3>3. \A f \in Field : SaidBy(protocol, payload, n + 1, f) = SaidBy(protocol, payload, n, f)
        BY <1>4, <3>2
      <3>4. QED
        BY <2>1, <2>2, <3>1, <3>2, <3>3 DEF ReadSoFar
    <2>4. CASE ~Stops(protocol, tlv)
      <3>1. /\ next.raised = Raises(protocol, tlv)
            /\ next.done = (tlv.form = "short" \/ Raises(protocol, tlv))
            /\ next.fields = IF Carries(tlv) THEN [acc.fields EXCEPT ![tlv.field] = Value(tlv)]
                                             ELSE acc.fields
        BY <1>1, <1>7, <2>4 DEF ReadTlv
      <3>2. n + 1 \in Counting(protocol, payload)
        BY <1>3, <2>1, <2>4
      <3>3. ASSUME NEW f \in Field PROVE next.fields[f] = SaidBy(protocol, payload, n + 1, f)
        <4>1. CASE Carries(tlv) /\ tlv.field = f
          <5>1. Last1(f)
            BY <1>1, <3>2, <4>1
          <5>2. next.fields[f] = Value(tlv)
            BY <3>1, <4>1 DEF Read
          <5>3. QED
            BY <1>5, <5>1, <5>2
        <4>2. CASE ~(Carries(tlv) /\ tlv.field = f)
          <5>1. ~Last1(f)
            BY <1>1, <4>2
          <5>2. next.fields[f] = acc.fields[f]
            BY <3>1, <4>2 DEF Read
          <5>3. QED
            BY <1>4, <2>1, <5>1, <5>2
        <4>3. QED
          BY <4>1, <4>2
      <3>4. ~Raises(protocol, tlv) => (next.done <=> Ends(protocol, tlv))
        BY <2>4, <3>1 DEF Ends
      <3>5. QED
        BY <2>2, <3>1, <3>3, <3>4 DEF ReadSoFar
    <2>5. QED
      BY <2>3, <2>4
  <1>8. QED
    BY <1>6, <1>7

\* A parser that does not raise returns what the payload says.
LEMMA ParseSays ==
  ASSUME NEW protocol, NEW payload \in Seq(TlvType), ~Parse(protocol, payload).raised,
         NEW f \in Field
  PROVE  Parse(protocol, payload).fields[f] = Says(protocol, payload, f)
  <1>1. PICK g : /\ Parse(protocol, payload) = g[1..Len(payload)] /\ g[{}] = NothingRead
                 /\ \A n \in Nat : n + 1 \in 1..Len(payload) =>
                       /\ g[1..n] \in Read
                       /\ g[1..(n + 1)] = ReadTlv(protocol, g[1..n], payload[n + 1])
    BY ParseUnfolds
  <1> DEFINE P == {n \in Nat : n <= Len(payload) => ReadSoFar(protocol, payload, n, g[1..n])}
  <1>2. Len(payload) \in Nat /\ DOMAIN payload = 1..Len(payload)
    OBVIOUS
  <1>3. 0 \in P
    <2>1. 1..0 = {} /\ \A e \in Field : SaidBy(protocol, payload, 0, e) = None
      BY DEF SaidBy, Given
    <2>2. ReadSoFar(protocol, payload, 0, NothingRead)
      BY <2>1 DEF ReadSoFar, NothingRead, NoFields
    <2>3. g[1..0] = NothingRead
      BY <1>1, <2>1
    <2>4. QED
      BY <2>2, <2>3
  <1>4. ASSUME NEW n \in P PROVE n + 1 \in P
    <2>1. n \in Nat /\ n + 1 \in Nat
      OBVIOUS
    <2>2. ASSUME n + 1 <= Len(payload) PROVE ReadSoFar(protocol, payload, n + 1, g[1..(n + 1)])
      <3>1. n + 1 \in 1..Len(payload) /\ n <= Len(payload)
        BY <1>2, <2>1, <2>2
      <3>2. PICK acc, next : acc = g[1..n] /\ next = g[1..(n + 1)]
        OBVIOUS
      <3>3. /\ ReadSoFar(protocol, payload, n, acc) /\ acc \in Read
            /\ next = ReadTlv(protocol, acc, payload[n + 1])
        BY <1>1, <2>1, <3>1, <3>2
      <3>4. ReadSoFar(protocol, payload, n + 1, next)
        BY <2>1, <3>1, <3>3, ReadFurther
      <3>5. QED
        BY <3>2, <3>4
    <2>3. QED
      BY <2>1, <2>2, Zenon DEF P
  <1>5. Nat \subseteq P
    <2> HIDE DEF P
    <2>1. QED
      BY <1>3, <1>4, NatInductive
  <1>6. ReadSoFar(protocol, payload, Len(payload), g[1..Len(payload)])
    BY <1>2, <1>5
  <1>7. g[1..Len(payload)].fields[f] = SaidBy(protocol, payload, Len(payload), f)
    BY <1>1, <1>6 DEF ReadSoFar
  <1>8. Given(protocol, payload, Len(payload), f)
          = {i \in Counting(protocol, payload) : Carries(payload[i]) /\ payload[i].field = f}
    BY <1>2 DEF Given, Counting
  <1>9. SaidBy(protocol, payload, Len(payload), f) = Says(protocol, payload, f)
    BY <1>8 DEF SaidBy, Says
  <1>10. QED
    BY <1>1, <1>7, <1>9

\* The packet being handled was parsed without an error.
Parsed(protocol) ==
    packet # None => /\ packet.content \in Announcement
                     /\ ~Parse(protocol, packet.content.payload).raised

\* What is shown of a MAC after a packet: of its own the packet's, of others the same.
LEMMA StoreShows ==
  ASSUME NEW table, NEW mac, NEW place, NEW now, NEW read,
         NEW t, t = Stored(table, mac, place, now, read), NEW m \in DOMAIN t
  PROVE  IF m = mac THEN t[m].fields = read /\ t[m].last_seen = now
                    ELSE m \in DOMAIN table /\ t[m] = table[m]
  <1>1. PICK u : /\ u = Put(table, mac, [since |-> place, last_seen |-> now, fields |-> read])
                 /\ t = Evict(u, mac)
    BY DEF Stored
  <1>2. /\ DOMAIN u = DOMAIN table \cup {mac}
        /\ \A o \in DOMAIN u : o # mac => u[o] = table[o]
        /\ u[mac].last_seen = now /\ u[mac].fields = read
    BY <1>1 DEF Put
  <1>3. m \in DOMAIN u /\ t[m] = u[m]
    BY <1>1 DEF Evict, Without, Restrict
  <1>4. QED
    BY <1>2, <1>3

\* Handling a packet shows what it says.
LEMMA ShownHandled ==
  ASSUME NEW protocol, Parsed(protocol), FieldsOfLastPacket, HandleNeighbor(protocol)
  PROVE  FieldsOfLastPacket'
  <1>1. PICK table, mac, place, now, payload, read, t :
           /\ table = neighbors /\ place = received
           /\ mac = packet.content.mac /\ now = packet.now
           /\ payload = packet.content.payload
           /\ read = Parse(protocol, payload).fields
           /\ t = Stored(table, mac, place, now, read)
    OBVIOUS
  <1>2. /\ neighbors' = t
        /\ DOMAIN heard' = DOMAIN heard \cup {mac}
        /\ heard'[mac] = [at |-> now, protocol |-> protocol, payload |-> payload]
        /\ \A m \in DOMAIN heard : m # mac => heard'[m] = heard[m]
    BY <1>1 DEF HandleNeighbor, Stored
  <1>3. payload \in Seq(TlvType) /\ ~Parse(protocol, payload).raised
    BY <1>1, NeighborsAssumption DEF Parsed, HandleNeighbor
  <1>4. \A f \in Field : read[f] = Says(protocol, payload, f)
    BY <1>1, <1>3, ParseSays
  <1> SUFFICES ASSUME NEW m \in DOMAIN t
               PROVE  /\ m \in DOMAIN heard' /\ t[m].last_seen = heard'[m].at
                      /\ \A f \in Field : t[m].fields[f]
                            = Says(heard'[m].protocol, heard'[m].payload, f)
    BY <1>2 DEF FieldsOfLastPacket
  <1>5. t = Stored(table, mac, place, now, read)
    BY <1>1
  <1>6. IF m = mac THEN t[m].fields = read /\ t[m].last_seen = now
                   ELSE m \in DOMAIN table /\ t[m] = table[m]
    BY <1>5, StoreShows
  <1>7. CASE m = mac
    BY <1>2, <1>4, <1>6, <1>7
  <1>8. CASE m # mac
    BY <1>1, <1>2, <1>6, <1>8 DEF FieldsOfLastPacket
  <1>9. QED
    BY <1>7, <1>8

(* Every row of a neighbor table shows exactly what its MAC's last packet    *)
(* said before its first unreadable byte, whatever TLVs the packets have and *)
(* in whatever order, for each of the three parsers (lldp.py, cdp.py,        *)
(* mndp.py: the loop over the TLVs, and the row that is replaced).           *)
THEOREM NeighborsShowLastPacket ==
  ASSUME NEW protocol PROVE NeighborsSpec(protocol) => []FieldsOfLastPacket
  <1> DEFINE Inv == Parsed(protocol) /\ FieldsOfLastPacket
  <1>1. ListenerInit /\ NeighborsInit => Inv
    BY DEF ListenerInit, NeighborsInit, Parsed, FieldsOfLastPacket
  <1>2. Inv /\ UNCHANGED <<listenerVars, neighborsVars>> => Inv'
    BY DEF Parsed, FieldsOfLastPacket, listenerVars, neighborsVars
  <1>3. ASSUME Inv, NeighborsNext(protocol) PROVE Inv'
    <2>1. CASE (Tick \/ SetBack) /\ UNCHANGED neighborsVars
      BY <1>3, <2>1 DEF Tick, SetBack, Parsed, FieldsOfLastPacket, neighborsVars
    <2>2. CASE ReceiveNeighbor(protocol)
      <3>1. PICK p \in Announcement : ~Parse(protocol, p.payload).raised /\ Receive(p)
        BY <2>2 DEF ReceiveNeighbor
      <3>2. Parsed(protocol)'
        BY <3>1 DEF Receive, Parsed
      <3>3. FieldsOfLastPacket'
        BY <1>3, <2>2 DEF ReceiveNeighbor, neighborsVars, FieldsOfLastPacket
      <3>4. QED
        BY <3>2, <3>3
    <2>3. CASE HandleNeighbor(protocol)
      <3>1. FieldsOfLastPacket'
        BY <1>3, <2>3, ShownHandled
      <3>2. Parsed(protocol)'
        BY <2>3 DEF HandleNeighbor, Handled, Parsed
      <3>3. QED
        BY <3>1, <3>2
    <2>4. CASE GetNeighbors
      BY <1>3, <2>4 DEF GetNeighbors, listenerVars, Parsed, FieldsOfLastPacket
    <2>5. CASE PurgeStale
      <3>1. PICK t : t = Purged(neighbors, reading)
        OBVIOUS
      <3>2. \A m \in DOMAIN t : m \in DOMAIN neighbors /\ t[m] = neighbors[m]
        BY <3>1 DEF Purged, Restrict
      <3>3. neighbors' = t /\ UNCHANGED <<packet, heard>>
        BY <2>5, <3>1 DEF PurgeStale, listenerVars
      <3>4. QED
        BY <1>3, <3>2, <3>3 DEF Parsed, FieldsOfLastPacket
    <2>6. QED
      BY <1>3, <2>1, <2>2, <2>3, <2>4, <2>5 DEF NeighborsNext
  <1>4. Inv => FieldsOfLastPacket
    OBVIOUS
  <1>5. QED
    BY <1>1, <1>2, <1>3, <1>4, PTL DEF NeighborsSpec
=============================================================================
