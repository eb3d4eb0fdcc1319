------------------------------ MODULE Eth0Mode ------------------------------
(***************************************************************************)
(* backend/network/eth0_mode.py: the mode of the test port.  Every request *)
(* is a sequence of nmcli commands without a lock around it, and a command *)
(* is one step: requests interleave, and so do get_mode(), which needs two *)
(* commands, and NetworkManager itself, which goes on activating a         *)
(* connection after nmcli was given up (shell.run's timeout of 20 s).      *)
(*                                                                         *)
(* Gateway and DNS are written and read together with the address.  The    *)
(* route metric and never-default are written with every mode and are not  *)
(* kept.  An nmcli that is missing changes nothing: a stuttering step.     *)
(***************************************************************************)
EXTENDS FiniteSets

CONSTANTS Setter,      \* threads that serve set_passive(), set_dhcp(), set_static()
          Address,     \* static addresses in CIDR form
          Refused,     \* those of them nmcli does not accept
          Passive, None

\* The settings of the connection profile, as far as the modes differ in them.
Profile == [method : {"auto", "manual"}, address : Address \cup {None}]

\* A mode is no address, and None is nothing that a variable holds beside it.
ASSUME PortAssumption ==
    /\ Refused \subseteq Address
    /\ "dhcp" \notin Address \cup {Passive} /\ Passive \notin Address
    /\ None \notin {"method"} \cup Profile
    /\ None \notin [settings : Profile, by : Setter, active : BOOLEAN]

VARIABLES
    profile,    \* the lanpi-eth0 connection profile: None or its settings
    device,     \* what NetworkManager applies to eth0: None or a copy of a profile
    pc, asked,  \* of each request: its next command, the mode it is to set
    alone,      \* history: the requests that met no other request
    answer,     \* of each request: "ok" or "failed"
    rejected,   \* history: the last `connection up` was refused
    look,       \* get_mode(): None, or the connection has been seen and the method is next
    quiet,      \* history: no mode change and no failed command since get_mode() began
    report      \* the last answer of get_mode()

ethVars == <<profile, device, pc, asked, alone, answer, rejected, look, quiet, report>>

Mode == {"dhcp"} \cup Address

EthInit ==
    /\ profile \in {None, [method |-> "auto", address |-> None]}
    /\ device = None
    /\ pc = [r \in Setter |-> "idle"]
    /\ asked = [r \in Setter |-> Passive]
    /\ alone = [r \in Setter |-> FALSE]
    /\ answer = [r \in Setter |-> "ok"] /\ rejected = FALSE
    /\ look = None /\ quiet = FALSE /\ report = None

Step(r, label) == pc' = [pc EXCEPT ![r] = label]
Answered(r, a) == Step(r, "idle") /\ answer' = [answer EXCEPT ![r] = a]
Open(r) == pc[r] # "idle"

\* The settings `connection modify` writes for a mode: all of them, so that
\* nothing is left of another mode.
Settings_Leftover(m) ==
    IF m = "dhcp" THEN [method |-> "auto", address |-> IF profile = None THEN None ELSE profile.address]
                  ELSE [method |-> "manual", address |-> m]
Settings(m) == [method |-> IF m = "dhcp" THEN "auto" ELSE "manual",
                address |-> IF m = "dhcp" THEN None ELSE m]

-----------------------------------------------------------------------------
(* set_passive(), set_dhcp(), set_static(). *)

\* A request arrives; set_static() has checked the form of its address.
Ask(r, m) ==
    /\ ~Open(r)
    /\ Step(r, IF m = Passive THEN "disconnect" ELSE "show")
    /\ asked' = [asked EXCEPT ![r] = m]
    /\ alone' = [q \in Setter |-> q = r /\ \A o \in Setter \ {r} : ~Open(o)]
    /\ quiet' = FALSE
    /\ UNCHANGED <<profile, device, answer, look, report, rejected>>

\* set_passive(): "not active" is what it wants, too.
Disconnect(r) ==
    /\ pc[r] = "disconnect"
    /\ \/ device' = None /\ Answered(r, "ok")
       \/ UNCHANGED device /\ Answered(r, "failed")
    /\ UNCHANGED <<profile, asked, alone, look, quiet, report, rejected>>

\* _ensure_profile() lists the profiles; where lanpi-eth0 exists it only sets
\* the route metric again.  A list that failed has no names in it; one that
\* timed out ends the request.
Show(r) ==
    /\ pc[r] = "show"
    /\ \/ profile # None /\ Step(r, "modify") /\ UNCHANGED answer
       \/ Step(r, "add") /\ UNCHANGED answer
       \/ Answered(r, "failed")
    /\ UNCHANGED <<profile, device, asked, alone, look, quiet, report, rejected>>

\* A second profile of that name changes nothing: nmcli takes the first one.
Add(r) ==
    /\ pc[r] = "add"
    /\ \/ /\ profile' = IF profile = None THEN Settings("dhcp") ELSE profile
          /\ Step(r, "modify") /\ UNCHANGED answer
       \/ Answered(r, "failed") /\ UNCHANGED profile
    /\ UNCHANGED <<device, asked, alone, look, quiet, report, rejected>>

Modify_UpOnce(r) ==
    /\ pc[r] = "modify"
    /\ profile' = IF asked[r] \in Refused THEN profile ELSE Settings(asked[r])
    /\ \/ device = None /\ Step(r, "up") /\ UNCHANGED answer
       \/ device # None /\ Answered(r, "ok")
    /\ UNCHANGED <<device, asked, alone, look, quiet, report, rejected>>
\* The result of this command is not looked at.
Modify(r) ==
    /\ pc[r] = "modify"
    /\ profile' = IF asked[r] \in Refused THEN profile ELSE Settings(asked[r])
    /\ Step(r, "up")
    /\ UNCHANGED <<device, asked, alone, answer, look, quiet, report, rejected>>

\* `connection up`: NetworkManager takes down what is there and begins to
\* activate the profile as it is now, or it refuses at once and leaves the
\* device as it was, with the profile rewritten.
Up(r) ==
    /\ pc[r] = "up"
    /\ \/ /\ device' = [settings |-> profile, by |-> r, active |-> FALSE]
          /\ Step(r, "await") /\ UNCHANGED answer
          /\ rejected' = FALSE
       \/ /\ Answered(r, "failed") /\ UNCHANGED device
          /\ rejected' = TRUE
    /\ UNCHANGED <<profile, asked, alone, look, quiet, report>>

\* nmcli waits for the end of its own activation, for 20 seconds.
Own(r) == device # None /\ device.by = r
UpAnswer_Begun(r) ==
    IF Own(r) THEN "ok" ELSE "failed"
UpAnswer(r) ==
    IF Own(r) /\ device.active THEN "ok" ELSE "failed"
UpReturns(r) ==
    /\ pc[r] = "await"
    /\ Answered(r, UpAnswer(r))
    /\ UNCHANGED <<profile, device, asked, alone, look, quiet, report, rejected>>

-----------------------------------------------------------------------------
(* get_mode(): two commands, the second one by the name the first returned. *)

ReadDevice ==
    /\ look = None
    /\ look' = IF device = None THEN None ELSE "method"
    /\ quiet' = \A r \in Setter : ~Open(r)
    /\ report' = IF device = None THEN Passive ELSE report
    /\ UNCHANGED <<profile, device, pc, asked, alone, answer, rejected>>

\* A second command that fails counts as "auto".
ReportedMethod == IF profile.method = "manual" THEN "static" ELSE "dhcp"
ReadMethod ==
    /\ look = "method"
    /\ look' = None
    /\ \/ report' = ReportedMethod /\ UNCHANGED quiet
       \/ report' = "dhcp" /\ quiet' = FALSE
    /\ UNCHANGED <<profile, device, pc, asked, alone, answer, rejected>>

-----------------------------------------------------------------------------
(* NetworkManager. *)

Activated ==
    /\ device # None /\ ~device.active
    /\ device' = [device EXCEPT !.active = TRUE]
    /\ UNCHANGED <<profile, pc, asked, alone, answer, look, quiet, report, rejected>>

\* No lease, or the cable was pulled.
Deactivated ==
    /\ device # None
    /\ device' = None
    /\ quiet' = FALSE
    /\ UNCHANGED <<profile, pc, asked, alone, answer, look, report, rejected>>

EthNext ==
    \/ \E r \in Setter : \/ \E m \in Mode \cup {Passive} : Ask(r, m)
                          \/ Disconnect(r) \/ Show(r) \/ Add(r) \/ Modify(r)
                          \/ Up(r) \/ UpReturns(r)
    \/ ReadDevice \/ ReadMethod
    \/ Activated \/ Deactivated

EthSpec == EthInit /\ [][EthNext]_ethVars

-----------------------------------------------------------------------------
\* The mode that settings amount to; a DHCP profile that kept an address is none.
ModeOf(s) ==
    IF s.method = "manual" THEN s.address
    ELSE IF s.address = None THEN "dhcp" ELSE "mixed"

InForce == IF device # None /\ device.active THEN ModeOf(device.settings) ELSE Passive

Wanted ==
    {asked[r] : r \in {q \in Setter : Open(q) /\ asked[q] # Passive}}
    \cup (IF profile = None THEN {} ELSE {ModeOf(profile)})
    \cup (IF device = None THEN {} ELSE {ModeOf(device.settings)})

(* The test port keeps the promise of TestPort, with requests that overlap, *)
(* fail half way or are given up while NetworkManager goes on: what is in   *)
(* force is always one whole mode, never DHCP with a static address left    *)
(* over (eth0_mode.py:186).                                                 *)
Port == INSTANCE TestPort WITH inForce <- InForce, wanted <- Wanted
PortSpec == Port!Spec

(* "eth0 set to static mode" (eth0_mode.py:224): when a request that met no *)
(* other one answers ok, the mode it asked for is in force at that moment.  *)
OkMeansApplied ==
    [][\A r \in Setter :
         Open(r) /\ ~Open(r)' /\ alone[r] /\ answer'[r] = "ok" => InForce' = asked[r]]_ethVars

(* get_mode() takes the method from the profile and the rest from the       *)
(* device.  Without a mode change in between it tells what NetworkManager   *)
(* applies, unless the last `connection up` was refused: any profile that   *)
(* is changed is brought up again, and only that may fail unnoticed by the  *)
(* profile (eth0_mode.py:196-200).                                          *)
Kind(m) == IF m \in {Passive, "dhcp"} THEN m ELSE "static"
ReportedInForce ==
    [][look = "method" /\ look' = None /\ quiet /\ quiet' /\ ~rejected
         => device # None /\ report' = Kind(ModeOf(device.settings))]_ethVars
=============================================================================
