----------------------------- MODULE LinkHistory -----------------------------
(***************************************************************************)
(* backend/network/link_history.py with link.get_link_status(): a thread   *)
(* samples the test port every two seconds and keeps an event whenever the *)
(* sample differs from the last one kept.                                  *)
(*                                                                         *)
(* A sample takes two commands, `ip` (presence and operstate) and          *)
(* `ethtool` (link, speed and duplex), without _lock: the link may change, *)
(* reset() may run and each command may fail in between.  The counters and *)
(* the PHY statistics of the same sample are not tracked and left out.     *)
(***************************************************************************)
EXTENDS Naturals, Sequences, SequencesExt

CONSTANTS Speed,         \* the speeds the link can have; "down" is no speed
          Unknown,       \* Python's None
          MaxEvents,     \* _MAX_EVENTS
          MaxMisses      \* bound: commands that fail

ASSUME LinkAssumption == MaxEvents \in Nat \ {0} /\ MaxMisses \in Nat /\ "down" \notin Speed

VARIABLES
    link,      \* the link itself: "down" or its speed
    watcher,   \* the thread: none (not started), sleep, ethtool, store
    current,   \* its sample
    events, last_snapshot,
    misses

linkVars == <<link, watcher, current, events, last_snapshot, misses>>

Link == {"down"} \cup Speed

\* The fields as the two commands print them; nothing where one gave no output.
Operstate(l) == IF l = "down" THEN "DOWN" ELSE "UP"
Ethtool(l) == [detected |-> l # "down", speed |-> IF l = "down" THEN Unknown ELSE l]
NoIp == [present |-> FALSE, operstate |-> Unknown]
NoEthtool == [detected |-> Unknown, speed |-> Unknown]

Status(ip, et) == [ip |-> ip, ethtool |-> et]
StatusOf(l) == Status([present |-> TRUE, operstate |-> Operstate(l)], Ethtool(l))

LinkInit ==
    /\ link \in Link
    /\ watcher = "none" /\ current = Status(NoIp, NoEthtool)
    /\ events = <<>> /\ last_snapshot = Unknown
    /\ misses = 0

\* start_listener(), at startup (main.py): a later call returns at once.
StartWatcher ==
    /\ watcher = "none"
    /\ watcher' = "sleep"
    /\ UNCHANGED <<link, current, events, last_snapshot, misses>>

\* One of the two commands gives `value`, or nothing after its timeout.
Either(part, value, nothing) ==
    \/ current' = [current EXCEPT ![part] = value] /\ UNCHANGED misses
    \/ /\ misses < MaxMisses
       /\ current' = [current EXCEPT ![part] = nothing]
       /\ misses' = misses + 1

\* _get_ip_link_info, after the sleep.
ReadIp ==
    /\ watcher = "sleep"
    /\ Either("ip", StatusOf(link).ip, NoIp)
    /\ watcher' = "ethtool"
    /\ UNCHANGED <<link, events, last_snapshot>>

\* _get_ethtool_info
ReadEthtool ==
    /\ watcher = "ethtool"
    /\ Either("ethtool", Ethtool(link), NoEthtool)
    /\ watcher' = "store"
    /\ UNCHANGED <<link, events, last_snapshot>>

\* A deque with a maxlen drops its first element.
AppendBounded(s, e) == IF Len(s) < MaxEvents THEN Append(s, e) ELSE Append(Tail(s), e)

\* The block under _lock.
Store ==
    /\ watcher = "store"
    /\ watcher' = "sleep"
    /\ \/ /\ last_snapshot = Unknown \/ current # last_snapshot
          /\ events' = AppendBounded(events, current)
          /\ last_snapshot' = current
       \/ /\ last_snapshot # Unknown /\ current = last_snapshot
          /\ UNCHANGED <<events, last_snapshot>>
    /\ UNCHANGED <<link, current, misses>>

ResetHistory_KeepLast ==
    /\ events' = <<>>
    /\ UNCHANGED <<link, watcher, current, last_snapshot, misses>>
\* reset()
ResetHistory ==
    /\ events' = <<>> /\ last_snapshot' = Unknown
    /\ UNCHANGED <<link, watcher, current, misses>>

\* A cable is pulled or plugged in, or the speed is negotiated anew.
Change(l) ==
    /\ link' = l /\ l # link
    /\ UNCHANGED <<watcher, current, events, last_snapshot, misses>>

Watch == StartWatcher \/ ReadIp \/ ReadEthtool \/ Store

LinkNext == Watch \/ ResetHistory \/ \E l \in Link : Change(l)

LinkSpec == LinkInit /\ [][LinkNext]_linkVars /\ WF_linkVars(Watch)

-----------------------------------------------------------------------------
(* A state of the link that lasts is the last event again and again,       *)
(* whatever came before: samples torn by a change, commands that failed,   *)
(* and a reset() between the sample and its record, which is followed by   *)
(* an event from before it (link_history.py:45).                           *)
LinkFollowed ==
    \A l \in Link : <>[](link = l) => []<>(events # <<>> /\ Last(events) = StatusOf(l))
=============================================================================
