---------------------------- MODULE WifiFallback ----------------------------
(***************************************************************************)
(* Who has wlan0: NetworkManager as a client, or hostapd as the fallback   *)
(* access point.  Three parties switch it without a common lock: the       *)
(* monitor (system/lanpi-wifi-fallback.sh), and the requests of            *)
(* network/wifi.py and network/ap.py, both through the two scripts         *)
(* lanpi-ap-up.sh and lanpi-ap-down.sh.                                    *)
(*                                                                         *)
(* A command of a script is one step; it may fail, and the script then     *)
(* ends (set -e).  Steps of different parties interleave freely, also a    *)
(* monitor's ap-up.sh with a request that waits or restores the access     *)
(* point.  With Apart, one thing is assumed of time: a run of ap-down.sh   *)
(* (some two seconds) and an ap-up.sh of the monitor (started after 25     *)
(* seconds without an access point) do not overlap.                        *)
(***************************************************************************)
EXTENDS Naturals

CONSTANTS Request,     \* request threads
          Operation,   \* of "add", "retry", "config", "connect", "forget"
          Fallible,    \* commands that may fail for reasons of their own
          MaxFailures, \* how often they do
          Apart,       \* the monitor's ap-up.sh and a request's ap-down.sh never overlap
          Threshold    \* checks without network: DOWN_THRESHOLD / CHECK_INTERVAL

ASSUME WifiAssumption ==
    /\ Apart \in BOOLEAN /\ MaxFailures \in Nat /\ Threshold \in Nat \ {0}
    /\ "monitor" \notin Request

VARIABLES
    managed,    \* wlan0 belongs to NetworkManager
    client,     \* it is connected to a known network
    hostapd,    \* active
    dnsmasq,    \* active
    address,    \* wlan0 has the address of the access point
    inRange,    \* a known network can be joined
    down,       \* down_seconds of the monitor, in checks
    at,         \* where each party is
    op,         \* what each request thread runs
    failures

radio == <<managed, client, hostapd, dnsmasq, address>>
wifiVars == <<radio, inRange, down, at, op, failures>>

Party == Request \cup {"monitor"}
UpScript == {"unmanage", "flush", "add address", "start hostapd", "start dnsmasq"}
DownScript == {"stop dnsmasq", "stop hostapd", "manage", "delete address"}

Init ==
    /\ managed = TRUE /\ client = FALSE
    /\ hostapd = FALSE /\ dnsmasq = FALSE /\ address = FALSE
    /\ inRange \in BOOLEAN
    /\ down = 0 /\ failures = 0
    /\ at = [p \in Party |-> IF p = "monitor" THEN "check" ELSE "idle"]
    /\ op = [r \in Request |-> "none"]

Goto(p, label) == at' = [at EXCEPT ![p] = label]

\* Where a party goes on after a script.
AfterUp(p) == IF p = "monitor" THEN "check" ELSE "idle"
AfterDown(p) == IF op[p] = "add" THEN "up connection" ELSE "wait"

-----------------------------------------------------------------------------
(* The scripts, command by command.  There is one radio: as an access      *)
(* point it is no client.                                                  *)

Unmanage(p) ==
    /\ managed' = FALSE /\ client' = FALSE
    /\ UNCHANGED <<hostapd, dnsmasq, address>>
    /\ Goto(p, "flush")

Flush(p) ==
    /\ address' = FALSE
    /\ UNCHANGED <<managed, client, hostapd, dnsmasq>>
    /\ Goto(p, "add address")

\* `ip addr add` refuses an address that is there.
AddAddress(p) ==
    /\ address' = TRUE
    /\ Goto(p, IF address THEN AfterUp(p) ELSE "start hostapd")
    /\ UNCHANGED <<managed, client, hostapd, dnsmasq>>

\* With `ip link set wlan0 up` before it.
StartHostapd(p) ==
    /\ hostapd' = TRUE /\ client' = FALSE
    /\ UNCHANGED <<managed, dnsmasq, address>>
    /\ Goto(p, "start dnsmasq")

StartDnsmasq(p) ==
    /\ dnsmasq' = TRUE
    /\ UNCHANGED <<managed, client, hostapd, address>>
    /\ Goto(p, AfterUp(p))

StopDnsmasq(p) ==
    /\ dnsmasq' = FALSE
    /\ UNCHANGED <<managed, client, hostapd, address>>
    /\ Goto(p, "stop hostapd")

StopHostapd_Ignored(p) ==
    /\ UNCHANGED radio
    /\ Goto(p, "manage")
StopHostapd(p) ==
    /\ hostapd' = FALSE
    /\ UNCHANGED <<managed, client, dnsmasq, address>>
    /\ Goto(p, "manage")

Manage(p) ==
    /\ managed' = TRUE
    /\ UNCHANGED <<client, hostapd, dnsmasq, address>>
    /\ Goto(p, "delete address")

DeleteAddress(p) ==
    /\ address' = FALSE
    /\ UNCHANGED <<managed, client, hostapd, dnsmasq>>
    /\ Goto(p, AfterDown(p))

Command(p) ==
    /\ \/ at[p] = "unmanage" /\ Unmanage(p)
       \/ at[p] = "flush" /\ Flush(p)
       \/ at[p] = "add address" /\ AddAddress(p)
       \/ at[p] = "start hostapd" /\ StartHostapd(p)
       \/ at[p] = "start dnsmasq" /\ StartDnsmasq(p)
       \/ at[p] = "stop dnsmasq" /\ StopDnsmasq(p)
       \/ at[p] = "stop hostapd" /\ StopHostapd(p)
       \/ at[p] = "manage" /\ Manage(p)
       \/ at[p] = "delete address" /\ DeleteAddress(p)
    /\ UNCHANGED <<inRange, down, op, failures>>

Fails_MonitorToo(p) ==
    /\ at[p] \in Fallible \cap (UpScript \cup DownScript)
    /\ failures < MaxFailures
    /\ failures' = failures + 1
    /\ Goto(p, "idle")
    /\ UNCHANGED <<radio, inRange, down, op>>
\* A failed command ends its script; activate()'s result is ignored, a failed
\* deactivate() ends the request, the monitor logs it.
Fails(p) ==
    /\ at[p] \in Fallible \cap (UpScript \cup DownScript)
    /\ failures < MaxFailures
    /\ failures' = failures + 1
    /\ Goto(p, AfterUp(p))
    /\ UNCHANGED <<radio, inRange, down, op>>

-----------------------------------------------------------------------------
Check_OneShot ==
    /\ at["monitor"] = "check"
    /\ \/ /\ hostapd \/ client
          /\ Goto("monitor", "idle") /\ UNCHANGED down
       \/ /\ ~ (hostapd \/ client) /\ down + 1 < Threshold
          /\ down' = down + 1 /\ UNCHANGED at
       \/ /\ ~ (hostapd \/ client) /\ down + 1 >= Threshold
          /\ down' = 0 /\ Goto("monitor", "unmanage")
    /\ UNCHANGED <<radio, inRange, op, failures>>
\* One turn of the monitor's loop.
Check ==
    /\ at["monitor"] = "check"
    /\ \/ /\ hostapd \/ client
          /\ down' = 0
          /\ UNCHANGED at
       \/ /\ ~ (hostapd \/ client) /\ down + 1 < Threshold
          /\ down' = down + 1
          /\ UNCHANGED at
       \/ /\ ~ (hostapd \/ client) /\ down + 1 >= Threshold
          /\ Apart => \A r \in Request : at[r] \notin DownScript
          /\ down' = 0
          /\ Goto("monitor", "unmanage")
    /\ UNCHANGED <<radio, inRange, op, failures>>

-----------------------------------------------------------------------------
(* The requests.                                                           *)

Accept(r, o, label) ==
    /\ at[r] = "idle" /\ o \in Operation
    /\ op' = [op EXCEPT ![r] = o]
    /\ Goto(r, label)

\* add_known() saves the profile, which may make a network known.
AddKnown(r) ==
    /\ Accept(r, "add", "look")
    /\ inRange' \in {inRange, TRUE}
    /\ UNCHANGED <<radio, down, failures>>

RetryKnown(r) ==
    /\ Accept(r, "retry", "look")
    /\ UNCHANGED <<radio, inRange, down, failures>>

\* set_config() has written the file.
SetConfig(r) ==
    /\ Accept(r, "config", "look")
    /\ UNCHANGED <<radio, inRange, down, failures>>

\* ap.is_active()
Look(r) ==
    /\ at[r] = "look"
    /\ \/ ~ hostapd /\ Goto(r, "idle")
       \/ hostapd /\ op[r] = "config" /\ Goto(r, "restart")
       \/ /\ hostapd /\ op[r] # "config"
          /\ Apart => at["monitor"] \notin UpScript
          /\ Goto(r, "stop dnsmasq")
    /\ UNCHANGED <<radio, inRange, down, op, failures>>

\* A restart that fails has stopped hostapd; nobody looks at its result.
Restart(r) ==
    /\ at[r] = "restart"
    /\ \/ hostapd' = TRUE /\ client' = FALSE /\ UNCHANGED failures
       \/ /\ "restart" \in Fallible /\ failures < MaxFailures
          /\ failures' = failures + 1
          /\ hostapd' = FALSE /\ UNCHANGED client
    /\ Goto(r, "idle")
    /\ UNCHANGED <<managed, dnsmasq, address, inRange, down, op>>

\* add_known(): `nmcli connection up`.
UpConnection(r) ==
    /\ at[r] = "up connection"
    /\ \/ managed /\ ~ hostapd /\ inRange /\ client' = TRUE /\ Goto(r, "idle")
       \/ client' = FALSE /\ Goto(r, "unmanage")
    /\ UNCHANGED <<managed, hostapd, dnsmasq, address, inRange, down, op, failures>>

\* retry_known(): until a client connection is up, or the deadline.
Wait(r) ==
    /\ at[r] = "wait"
    /\ \/ client /\ ~ hostapd /\ Goto(r, "idle")
       \/ Goto(r, "unmanage")
    /\ UNCHANGED <<radio, inRange, down, op, failures>>

\* connect(): `nmcli device wifi connect`, which leaves the present network.
Connect(r) ==
    /\ at[r] = "idle" /\ "connect" \in Operation
    /\ managed /\ ~ hostapd
    /\ \/ client' = TRUE /\ inRange' = TRUE
       \/ client' = FALSE /\ UNCHANGED inRange
    /\ UNCHANGED <<managed, hostapd, dnsmasq, address, down, at, op, failures>>

Forget(r) ==
    /\ at[r] = "idle" /\ "forget" \in Operation
    /\ inRange' \in {inRange, FALSE}
    /\ client' = (client /\ inRange')
    /\ UNCHANGED <<managed, hostapd, dnsmasq, address, down, at, op, failures>>

-----------------------------------------------------------------------------
(* NetworkManager and the surroundings.                                    *)

AutoConnect ==
    /\ managed /\ ~ hostapd /\ inRange /\ ~ client
    /\ client' = TRUE
    /\ UNCHANGED <<managed, hostapd, dnsmasq, address, inRange, down, at, op, failures>>

Move ==
    /\ inRange' = ~ inRange
    /\ client' = (client /\ inRange')
    /\ UNCHANGED <<managed, hostapd, dnsmasq, address, down, at, op, failures>>

Next ==
    \/ \E p \in Party : Command(p) \/ Fails(p)
    \/ Check
    \/ \E r \in Request : \/ AddKnown(r) \/ RetryKnown(r) \/ SetConfig(r) \/ Look(r) \/ Restart(r)
                          \/ UpConnection(r) \/ Wait(r) \/ Connect(r) \/ Forget(r)
    \/ AutoConnect \/ Move

\* The monitor and the scripts go on; nothing is promised of users or networks.
Fairness ==
    /\ WF_wifiVars(Check)
    /\ \A p \in Party : WF_wifiVars(Command(p) \/ Fails(p))
    /\ \A r \in Request : WF_wifiVars(Look(r) \/ Restart(r) \/ UpConnection(r) \/ Wait(r))

WifiSpec == Init /\ [][Next]_wifiVars /\ Fairness

-----------------------------------------------------------------------------
TypeOK ==
    /\ managed \in BOOLEAN /\ client \in BOOLEAN /\ hostapd \in BOOLEAN
    /\ dnsmasq \in BOOLEAN /\ address \in BOOLEAN /\ inRange \in BOOLEAN
    /\ down \in 0 .. Threshold - 1 /\ failures \in 0 .. MaxFailures
    /\ at \in [Party -> UpScript \cup DownScript
                        \cup {"check", "idle", "look", "restart", "up connection", "wait"}]

Reachable == client \/ (hostapd /\ address)

(* The device can be reached again and again: whatever the network, the     *)
(* user and failing commands do, the monitor or the request itself brings  *)
(* back a client connection or an access point with its address            *)
(* (lanpi-wifi-fallback.sh:4, "so the device stays reachable").            *)
StaysReachable == []<>Reachable

(* Out of range and left alone, the device ends as an access point that     *)
(* stays: attempts that failed half way are repeated, and what the other   *)
(* party's script was doing meanwhile does not take it away.               *)
FallbackTakesOver ==
    <>[](~ inRange /\ \A r \in Request : at[r] = "idle") => <>[](hostapd /\ address)

Settled == at["monitor"] = "check" /\ \A r \in Request : at[r] = "idle"

(* When no script and no request is under way, an active hostapd has its    *)
(* address: is_active() and the monitor take hostapd for a working access  *)
(* point and would never repair one without.                               *)
SettledApHasAddress == Settled /\ hostapd => address
=============================================================================
