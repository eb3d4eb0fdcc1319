------------------------------ MODULE TestPort ------------------------------
(***************************************************************************)
(* What the test port promises, whoever changes its mode and however often *)
(* at once: it is passive until a mode has been applied, what comes into   *)
(* force is a whole mode that a request asked for (or the DHCP a profile   *)
(* is created with), and it goes from one mode to the next through         *)
(* passive, never directly.                                                *)
(***************************************************************************)
CONSTANTS Mode,      \* "dhcp" and the static addresses
          Passive

VARIABLES inForce,   \* Passive or a mode
          wanted     \* the modes that may come into force

portVars == <<inForce, wanted>>

Init == inForce = Passive /\ wanted \subseteq {"dhcp"}

Ask(m) ==
    /\ wanted' \in {wanted \cup {m}, wanted \cup {"dhcp"}}
    /\ UNCHANGED inForce

\* A request is over, or its setting was replaced by that of another one.
Forget ==
    /\ wanted' \subseteq wanted
    /\ UNCHANGED inForce

TakeEffect ==
    /\ inForce = Passive
    /\ inForce' \in wanted
    /\ UNCHANGED wanted

Drop ==
    /\ inForce' = Passive
    /\ wanted' \subseteq wanted

Next == (\E m \in Mode : Ask(m)) \/ Forget \/ TakeEffect \/ Drop

Spec == Init /\ [][Next]_portVars
=============================================================================
