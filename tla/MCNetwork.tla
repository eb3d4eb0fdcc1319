----------------------------- MODULE MCNetwork -----------------------------
(***************************************************************************)
(* backend/network side by side: wlan0 (WifiFallback), the mode of eth0    *)
(* (Eth0Mode) and the history of its link (LinkHistory).  They share no    *)
(* state, so one behaviour is a behaviour of one of them: `part` is chosen *)
(* at the start and says which.                                            *)
(***************************************************************************)
EXTENDS WifiFallback, Eth0Mode, LinkHistory

CONSTANT Parts   \* the parts a run is about
VARIABLE part

networkVars == <<wifiVars, ethVars, linkVars, part>>

\* What the other parts start with makes no difference.
NetworkInit ==
    /\ Init /\ EthInit /\ LinkInit
    /\ part \in Parts
    /\ inRange \/ part = "wifi"
    /\ profile = None \/ part = "eth0"
    /\ link = "down" \/ part = "link"

NetworkNext ==
    /\ \/ part = "wifi" /\ Next /\ UNCHANGED <<ethVars, linkVars>>
       \/ part = "eth0" /\ EthNext /\ UNCHANGED <<wifiVars, linkVars>>
       \/ part = "link" /\ LinkNext /\ UNCHANGED <<wifiVars, ethVars>>
    /\ UNCHANGED part

Wifi(A) == part = "wifi" /\ A /\ UNCHANGED <<ethVars, linkVars, part>>

\* Check, the scripts and the requests of wlan0, and the watcher of the link.
NetworkFairness ==
    /\ WF_networkVars(Wifi(Check))
    /\ \A p \in Party : WF_networkVars(Wifi(Command(p) \/ Fails(p)))
    /\ \A r \in Request : WF_networkVars(Wifi(Look(r) \/ Restart(r) \/ UpConnection(r) \/ Wait(r)))
    /\ WF_networkVars(part = "link" /\ Watch /\ UNCHANGED <<wifiVars, ethVars, part>>)

NetworkSpec == NetworkInit /\ [][NetworkNext]_networkVars /\ NetworkFairness

\* StaysReachable of the behaviours of wlan0: the fallback monitor
\* (lanpi-wifi-fallback.sh) and the requests bring the device back.
WifiStaysReachable == part = "wifi" => StaysReachable

\* FallbackTakesOver of the behaviours of wlan0 (lanpi-wifi-fallback.sh:46).
WifiFallbackTakesOver == part = "wifi" => FallbackTakesOver

\* LinkFollowed of the behaviours of the link history (link_history.py:43-55).
HistoryFollowsLink == part = "link" => LinkFollowed
=============================================================================
