--------------------------- MODULE NetworkProofs ---------------------------
(***************************************************************************)
(* Proofs about the mode of the test port (Eth0Mode.tla), for any number   *)
(* of requests and addresses, and about who has wlan0 (WifiFallback.tla).  *)
(***************************************************************************)
EXTENDS WifiFallback, Eth0Mode, TLAPS

\* The settings of whole modes, and what NetworkManager applies of them.
Whole == {Settings(m) : m \in Mode}
Applied == [settings : Whole, by : Setter, active : BOOLEAN]

EthTypeOK ==
    /\ profile \in {None} \cup Whole
    /\ device \in {None} \cup Applied
    /\ pc \in [Setter -> {"idle", "disconnect", "show", "add", "modify", "up", "await"}]
    /\ asked \in [Setter -> Mode \cup {Passive}]
    /\ alone \in [Setter -> BOOLEAN]
    /\ answer \in [Setter -> {"ok", "failed"}]
    /\ rejected \in BOOLEAN
    /\ look \in {None, "method"}
    /\ quiet \in BOOLEAN

\* set_passive() has one command of its own, the other modes the rest.
AskedFits ==
    \A r \in Setter :
        /\ pc[r] = "disconnect" => asked[r] = Passive
        /\ pc[r] \in {"show", "add", "modify", "up", "await"} => asked[r] \in Mode

\* There is a profile to modify, to bring up, and behind what is applied.
ProfileThere ==
    /\ device # None => profile # None
    /\ \A r \in Setter : pc[r] \in {"modify", "up", "await"} => profile # None

\* A profile that differs from what is applied is about to be brought up, or the
\* last time that was refused.
UpIsDue ==
    device # None /\ device.settings # profile => rejected \/ \E r \in Setter : pc[r] = "up"

\* Nobody interferes with a request that is alone, and what it wrote is still there.
AloneKept ==
    \A r \in Setter : alone[r] /\ Open(r) =>
        /\ \A q \in Setter \ {r} : ~Open(q)
        /\ asked[r] \notin Refused =>
              /\ pc[r] = "up" => profile = Settings(asked[r])
              /\ pc[r] = "await" /\ Own(r) => device.settings = Settings(asked[r])

\* As long as it is quiet, get_mode() looks at a port that nobody changes.
QuietKept ==
    look = "method" /\ quiet => device # None /\ \A r \in Setter : ~Open(r)

EthInv ==
    /\ EthTypeOK /\ AskedFits /\ ProfileThere /\ UpIsDue /\ AloneKept /\ QuietKept

-----------------------------------------------------------------------------
\* Whole settings stand for the mode they were made for.
LEMMA ModeOfSettings == \A m \in Mode : ModeOf(Settings(m)) = m
  BY DEF ModeOf, Settings

\* Neither a profile nor what is applied is taken for none.
LEMMA WholeNotNone == Whole \subseteq Profile /\ None \notin Whole /\ None \notin Applied
  <1>1. Whole \subseteq Profile
    BY DEF Whole, Settings, Mode, Profile
  <1>2. QED
    BY <1>1, PortAssumption DEF Applied

\* Before the first request the port is passive.
LEMMA EthInvInit == EthInit => EthInv
  <1> SUFFICES ASSUME EthInit PROVE EthInv
    OBVIOUS
  <1>1. "dhcp" \in Mode /\ Settings("dhcp") = [method |-> "auto", address |-> None]
    BY DEF Mode, Settings
  <1>2. EthTypeOK
    BY <1>1 DEF EthInit, EthTypeOK, Whole
  <1>3. QED
    BY <1>2, PortAssumption DEF EthInit, EthInv, AskedFits, ProfileThere, UpIsDue, AloneKept, QuietKept, Open

\* What is written into the profile, and what is applied of it, are whole settings.
LEMMA WritesWhole ==
  ASSUME EthInv, NEW r \in Setter
  PROVE  /\ Add(r) => (profile' = profile /\ Answered(r, "failed")) \/ profile' \in Whole
         /\ Modify(r) => profile' \in Whole
         /\ Up(r) => device' \in Applied \/ UNCHANGED device
  <1>1. /\ profile \in {None} \cup Whole /\ asked \in [Setter -> Mode \cup {Passive}]
        /\ pc[r] \in {"modify", "up"} => profile \in Whole /\ asked[r] \in Mode
    BY DEF EthInv, EthTypeOK, ProfileThere, AskedFits
  <1>2. \A m \in Mode : Settings(m) \in Whole
    BY DEF Whole
  <1>3. "dhcp" \in Mode
    BY DEF Mode
  <1>4. Add(r) => (profile' = profile /\ Answered(r, "failed")) \/ profile' \in Whole
    BY <1>1, <1>2, <1>3 DEF Add
  <1>5. Modify(r) => profile' \in Whole
    BY <1>1, <1>2 DEF Modify
  <1>6. Up(r) => device' \in Applied \/ UNCHANGED device
    <2>1. ASSUME pc[r] = "up" PROVE [settings |-> profile, by |-> r, active |-> FALSE] \in Applied
      BY <1>1, <2>1 DEF Applied
    <2>2. QED
      BY <2>1 DEF Up
  <1>7. QED
    BY <1>4, <1>5, <1>6

\* An activation that ends leaves the settings as they are.
LEMMA ActivatedApplies ==
  ASSUME EthInv, Activated
  PROVE  /\ device \in Applied /\ device' \in Applied
         /\ device'.settings = device.settings /\ device'.by = device.by /\ device'.active
  <1>1. device \in Applied
    BY DEF EthInv, EthTypeOK, Activated
  <1>2. QED
    BY <1>1 DEF Activated, Applied

\* Every command writes whole settings, and applies only what is in the profile.
LEMMA EthTypeNext == ASSUME EthInv, EthNext PROVE EthTypeOK'
  <1> USE PortAssumption, WholeNotNone DEF EthInv, EthTypeOK, Step
  <1>1. ASSUME NEW r \in Setter, NEW m \in Mode \cup {Passive}, Ask(r, m) PROVE EthTypeOK'
    BY <1>1 DEF Ask
  <1>2. ASSUME NEW r \in Setter, Disconnect(r) PROVE EthTypeOK'
    BY <1>2 DEF Disconnect, Answered
  <1>3. ASSUME NEW r \in Setter, Show(r) PROVE EthTypeOK'
    BY <1>3 DEF Show, Answered
  <1>4. ASSUME NEW r \in Setter, Add(r) PROVE EthTypeOK'
    BY <1>4, WritesWhole DEF Add, Answered
  <1>5. ASSUME NEW r \in Setter, Modify(r) PROVE EthTypeOK'
    BY <1>5, WritesWhole DEF Modify
  <1>6. ASSUME NEW r \in Setter, Up(r) PROVE EthTypeOK'
    BY <1>6, WritesWhole DEF Up, Answered
  <1>7. ASSUME NEW r \in Setter, UpReturns(r) PROVE EthTypeOK'
    BY <1>7 DEF UpReturns, UpAnswer, Answered
  <1>8. ASSUME ReadDevice PROVE EthTypeOK'
    BY <1>8 DEF ReadDevice
  <1>9. ASSUME ReadMethod PROVE EthTypeOK'
    BY <1>9 DEF ReadMethod
  <1>10. ASSUME Activated PROVE EthTypeOK'
    BY <1>10, ActivatedApplies DEF Activated
  <1>11. ASSUME Deactivated PROVE EthTypeOK'
    BY <1>11 DEF Deactivated
  <1> HIDE DEF EthInv, EthTypeOK, Step
  <1>12. QED
    BY <1>1, <1>2, <1>3, <1>4, <1>5, <1>6, <1>7, <1>8, <1>9, <1>10, <1>11
       DEF EthNext

\* The commands of a request follow from what it was asked for.
LEMMA AskedNext == ASSUME EthInv, EthNext PROVE AskedFits'
  <1> USE PortAssumption, WholeNotNone DEF EthInv, EthTypeOK, Step, Open, AskedFits
  <1>1. ASSUME NEW r \in Setter, NEW m \in Mode \cup {Passive}, Ask(r, m) PROVE AskedFits'
    BY <1>1 DEF Ask
  <1>2. ASSUME NEW r \in Setter, Disconnect(r) PROVE AskedFits'
    BY <1>2 DEF Disconnect, Answered
  <1>3. ASSUME NEW r \in Setter, Show(r) PROVE AskedFits'
    BY <1>3 DEF Show, Answered
  <1>4. ASSUME NEW r \in Setter, Add(r) PROVE AskedFits'
    BY <1>4, WritesWhole DEF Add, Answered
  <1>5. ASSUME NEW r \in Setter, Modify(r) PROVE AskedFits'
    BY <1>5, WritesWhole DEF Modify
  <1>6. ASSUME NEW r \in Setter, Up(r) PROVE AskedFits'
    BY <1>6, WritesWhole DEF Up, Answered
  <1>7. ASSUME NEW r \in Setter, UpReturns(r) PROVE AskedFits'
    BY <1>7 DEF UpReturns, UpAnswer, Answered
  <1>8. ASSUME ReadDevice PROVE AskedFits'
    BY <1>8 DEF ReadDevice
  <1>9. ASSUME ReadMethod PROVE AskedFits'
    BY <1>9 DEF ReadMethod
  <1>10. ASSUME Activated PROVE AskedFits'
    BY <1>10, ActivatedApplies DEF Activated
  <1>11. ASSUME Deactivated PROVE AskedFits'
    BY <1>11 DEF Deactivated
  <1> HIDE DEF EthInv, EthTypeOK, Step, Open, AskedFits
  <1>12. QED
    BY <1>1, <1>2, <1>3, <1>4, <1>5, <1>6, <1>7, <1>8, <1>9, <1>10, <1>11
       DEF EthNext

\* A profile is never taken away.
LEMMA ProfileNext == ASSUME EthInv, EthNext PROVE ProfileThere'
  <1> USE PortAssumption, WholeNotNone DEF EthInv, EthTypeOK, Step, Open, ProfileThere
  <1>1. ASSUME NEW r \in Setter, NEW m \in Mode \cup {Passive}, Ask(r, m) PROVE ProfileThere'
    BY <1>1 DEF Ask
  <1>2. ASSUME NEW r \in Setter, Disconnect(r) PROVE ProfileThere'
    BY <1>2 DEF Disconnect, Answered
  <1>3. ASSUME NEW r \in Setter, Show(r) PROVE ProfileThere'
    BY <1>3 DEF Show, Answered
  <1>4. ASSUME NEW r \in Setter, Add(r) PROVE ProfileThere'
    BY <1>4, WritesWhole DEF Add, Answered
  <1>5. ASSUME NEW r \in Setter, Modify(r) PROVE ProfileThere'
    BY <1>5, WritesWhole DEF Modify
  <1>6. ASSUME NEW r \in Setter, Up(r) PROVE ProfileThere'
    BY <1>6, WritesWhole DEF Up, Answered
  <1>7. ASSUME NEW r \in Setter, UpReturns(r) PROVE ProfileThere'
    BY <1>7 DEF UpReturns, UpAnswer, Answered
  <1>8. ASSUME ReadDevice PROVE ProfileThere'
    BY <1>8 DEF ReadDevice
  <1>9. ASSUME ReadMethod PROVE ProfileThere'
    BY <1>9 DEF ReadMethod
  <1>10. ASSUME Activated PROVE ProfileThere'
    BY <1>10, ActivatedApplies DEF Activated
  <1>11. ASSUME Deactivated PROVE ProfileThere'
    BY <1>11 DEF Deactivated
  <1> HIDE DEF EthInv, EthTypeOK, Step, Open, ProfileThere
  <1>12. QED
    BY <1>1, <1>2, <1>3, <1>4, <1>5, <1>6, <1>7, <1>8, <1>9, <1>10, <1>11
       DEF EthNext

\* Nobody changes a profile without bringing it up.
LEMMA UpNext == ASSUME EthInv, EthNext PROVE UpIsDue'
  <1> USE PortAssumption, WholeNotNone DEF EthInv, EthTypeOK, Step, Open, UpIsDue, ProfileThere
  <1>1. ASSUME NEW r \in Setter, NEW m \in Mode \cup {Passive}, Ask(r, m) PROVE UpIsDue'
    BY <1>1 DEF Ask
  <1>2. ASSUME NEW r \in Setter, Disconnect(r) PROVE UpIsDue'
    BY <1>2 DEF Disconnect, Answered
  <1>3. ASSUME NEW r \in Setter, Show(r) PROVE UpIsDue'
    BY <1>3 DEF Show, Answered
  <1>4. ASSUME NEW r \in Setter, Add(r) PROVE UpIsDue'
    BY <1>4, WritesWhole DEF Add, Answered
  <1>5. ASSUME NEW r \in Setter, Modify(r) PROVE UpIsDue'
    BY <1>5, WritesWhole DEF Modify
  <1>6. ASSUME NEW r \in Setter, Up(r) PROVE UpIsDue'
    BY <1>6, WritesWhole DEF Up, Answered
  <1>7. ASSUME NEW r \in Setter, UpReturns(r) PROVE UpIsDue'
    BY <1>7 DEF UpReturns, UpAnswer, Answered
  <1>8. ASSUME ReadDevice PROVE UpIsDue'
    BY <1>8 DEF ReadDevice
  <1>9. ASSUME ReadMethod PROVE UpIsDue'
    BY <1>9 DEF ReadMethod
  <1>10. ASSUME Activated PROVE UpIsDue'
    BY <1>10, ActivatedApplies DEF Activated
  <1>11. ASSUME Deactivated PROVE UpIsDue'
    BY <1>11 DEF Deactivated
  <1> HIDE DEF EthInv, EthTypeOK, Step, Open, UpIsDue, ProfileThere
  <1>12. QED
    BY <1>1, <1>2, <1>3, <1>4, <1>5, <1>6, <1>7, <1>8, <1>9, <1>10, <1>11
       DEF EthNext

\* A request that is alone finds what it wrote.
LEMMA AloneNext == ASSUME EthInv, EthNext PROVE AloneKept'
  <1> USE PortAssumption, WholeNotNone DEF EthInv, EthTypeOK, Step, Open, Own, AloneKept
  <1>1. ASSUME NEW r \in Setter, NEW m \in Mode \cup {Passive}, Ask(r, m) PROVE AloneKept'
    BY <1>1 DEF Ask
  <1>2. ASSUME NEW r \in Setter, Disconnect(r) PROVE AloneKept'
    BY <1>2 DEF Disconnect, Answered
  <1>3. ASSUME NEW r \in Setter, Show(r) PROVE AloneKept'
    BY <1>3 DEF Show, Answered
  <1>4. ASSUME NEW r \in Setter, Add(r) PROVE AloneKept'
    BY <1>4, WritesWhole DEF Add, Answered
  <1>5. ASSUME NEW r \in Setter, Modify(r) PROVE AloneKept'
    BY <1>5, WritesWhole DEF Modify
  <1>6. ASSUME NEW r \in Setter, Up(r) PROVE AloneKept'
    BY <1>6, WritesWhole DEF Up, Answered
  <1>7. ASSUME NEW r \in Setter, UpReturns(r) PROVE AloneKept'
    BY <1>7 DEF UpReturns, UpAnswer, Answered
  <1>8. ASSUME ReadDevice PROVE AloneKept'
    BY <1>8 DEF ReadDevice
  <1>9. ASSUME ReadMethod PROVE AloneKept'
    BY <1>9 DEF ReadMethod
  <1>10. ASSUME Activated PROVE AloneKept'
    BY <1>10, ActivatedApplies DEF Activated
  <1>11. ASSUME Deactivated PROVE AloneKept'
    BY <1>11 DEF Deactivated
  <1> HIDE DEF EthInv, EthTypeOK, Step, Open, Own, AloneKept
  <1>12. QED
    BY <1>1, <1>2, <1>3, <1>4, <1>5, <1>6, <1>7, <1>8, <1>9, <1>10, <1>11
       DEF EthNext

\* A request, a failure or a link that drops ends the quiet.
LEMMA QuietNext == ASSUME EthInv, EthNext PROVE QuietKept'
  <1> USE PortAssumption, WholeNotNone DEF EthInv, EthTypeOK, Step, Open, QuietKept
  <1>1. ASSUME NEW r \in Setter, NEW m \in Mode \cup {Passive}, Ask(r, m) PROVE QuietKept'
    BY <1>1 DEF Ask
  <1>2. ASSUME NEW r \in Setter, Disconnect(r) PROVE QuietKept'
    BY <1>2 DEF Disconnect, Answered
  <1>3. ASSUME NEW r \in Setter, Show(r) PROVE QuietKept'
    BY <1>3 DEF Show, Answered
  <1>4. ASSUME NEW r \in Setter, Add(r) PROVE QuietKept'
    BY <1>4, WritesWhole DEF Add, Answered
  <1>5. ASSUME NEW r \in Setter, Modify(r) PROVE QuietKept'
    BY <1>5, WritesWhole DEF Modify
  <1>6. ASSUME NEW r \in Setter, Up(r) PROVE QuietKept'
    BY <1>6, WritesWhole DEF Up, Answered
  <1>7. ASSUME NEW r \in Setter, UpReturns(r) PROVE QuietKept'
    BY <1>7 DEF UpReturns, UpAnswer, Answered
  <1>8. ASSUME ReadDevice PROVE QuietKept'
    BY <1>8 DEF ReadDevice
  <1>9. ASSUME ReadMethod PROVE QuietKept'
    BY <1>9 DEF ReadMethod
  <1>10. ASSUME Activated PROVE QuietKept'
    BY <1>10, ActivatedApplies DEF Activated
  <1>11. ASSUME Deactivated PROVE QuietKept'
    BY <1>11 DEF Deactivated
  <1> HIDE DEF EthInv, EthTypeOK, Step, Open, QuietKept
  <1>12. QED
    BY <1>1, <1>2, <1>3, <1>4, <1>5, <1>6, <1>7, <1>8, <1>9, <1>10, <1>11
       DEF EthNext

-----------------------------------------------------------------------------
\* Who is asked for what stays, or a request that is over is left out.
LEMMA OpenAfter ==
  ASSUME EthInv, NEW r \in Setter, NEW label, Open(r), Step(r, label), UNCHANGED asked
  PROVE  \A q \in Setter : (Open(q))' => Open(q) /\ (label = "idle" => q # r)
  BY DEF EthInv, EthTypeOK, Step, Open

\* A step that changes neither the profile nor what is applied and opens no request
\* can only forget modes.
LEMMA OnlyForgets ==
  ASSUME UNCHANGED <<profile, device, asked>>, \A q \in Setter : (Open(q))' => Open(q)
  PROVE  Port!Forget
  BY DEF Port!Forget, Wanted, InForce

\* A request asks for a mode.
LEMMA AskImplements ==
  ASSUME EthInv, NEW r \in Setter, NEW m \in Mode \cup {Passive}, Ask(r, m)
  PROVE  [Port!Next]_(Port!portVars)
  <1>1. /\ ~Open(r) /\ UNCHANGED <<profile, device>>
        /\ \A q \in Setter : q # r => ((Open(q))' <=> Open(q)) /\ asked'[q] = asked[q]
        /\ (Open(r))' /\ asked'[r] = m
    BY DEF EthInv, EthTypeOK, Ask, Step, Open
  <1>2. UNCHANGED InForce
    BY <1>1 DEF InForce
  <1>3. CASE m = Passive
    <2>1. Wanted' = Wanted
      BY <1>1, <1>3 DEF Wanted
    <2>2. QED
      BY <1>2, <2>1 DEF Port!portVars
  <1>4. CASE m # Passive
    <2>1. Wanted' = Wanted \cup {m}
      BY <1>1, <1>4 DEF Wanted
    <2>2. Port!Ask(m)
      BY <1>2, <2>1 DEF Port!Ask
    <2>3. QED
      BY <1>4, <2>2 DEF Port!Next
  <1>5. QED
    BY <1>3, <1>4

\* What is applied is taken away, or begins to be applied anew.
LEMMA DropImplements ==
  ASSUME EthInv, InForce' = Passive, UNCHANGED <<profile, asked>>,
         \A q \in Setter : (Open(q))' => Open(q),
         device' = None \/ (device' \in Applied /\ device'.settings = profile /\ profile # None)
  PROVE  Port!Drop
  <1>1. Wanted' \subseteq Wanted
    BY DEF Wanted
  <1>2. QED
    BY <1>1 DEF Port!Drop

\* Every step of the test port is a step of TestPort or changes nothing of it.
LEMMA EthImplements == ASSUME EthInv, EthNext PROVE [Port!Next]_(Port!portVars)
  <1> DEFINE Goal == [Port!Next]_(Port!portVars)
  <1>1. ASSUME NEW r \in Setter, NEW m \in Mode \cup {Passive}, Ask(r, m) PROVE Goal
    BY <1>1, AskImplements
  <1>2. ASSUME NEW r \in Setter, Disconnect(r) PROVE Goal
    <2>1. Open(r) /\ Step(r, "idle") /\ UNCHANGED <<profile, asked>>
      BY <1>2 DEF Disconnect, Answered, Open
    <2>2. \A q \in Setter : (Open(q))' => Open(q)
      BY <2>1, OpenAfter
    <2>3. CASE device' = None
      BY <2>1, <2>2, <2>3, DropImplements DEF InForce, Port!Next
    <2>4. CASE UNCHANGED device
      BY <2>1, <2>2, <2>4, OnlyForgets DEF Port!Next
    <2>5. QED
      BY <1>2, <2>3, <2>4 DEF Disconnect
  <1>3. ASSUME NEW r \in Setter, Show(r) PROVE Goal
    <2>1. PICK label : Open(r) /\ Step(r, label) /\ UNCHANGED <<profile, device, asked>>
      BY <1>3 DEF Show, Answered, Open
    <2>2. \A q \in Setter : (Open(q))' => Open(q)
      BY <2>1, OpenAfter
    <2>3. QED
      BY <2>1, <2>2, OnlyForgets DEF Port!Next
  <1>4. ASSUME NEW r \in Setter, Add(r) PROVE Goal
    <2>1. PICK label : Open(r) /\ Step(r, label) /\ UNCHANGED <<device, asked>>
      BY <1>4 DEF Add, Answered, Open
    <2>2. \A q \in Setter : (Open(q))' => Open(q)
      BY <2>1, OpenAfter
    <2>3. CASE UNCHANGED profile
      BY <2>1, <2>2, <2>3, OnlyForgets DEF Port!Next
    <2>4. CASE profile' # profile
      <3>1. /\ profile = None /\ profile' = Settings("dhcp") /\ "dhcp" \in Mode
            /\ Step(r, "modify")
        BY <1>4, <2>4 DEF Add, Mode
      <3>2. \A q \in Setter : (Open(q))' <=> Open(q)
        BY <2>1, <3>1 DEF EthInv, EthTypeOK, Step, Open
      <3>3. ModeOf(profile') = "dhcp" /\ profile' # None
        BY <3>1, ModeOfSettings, WholeNotNone DEF Whole
      <3>4. Wanted' = Wanted \cup {"dhcp"}
        BY <2>1, <3>1, <3>2, <3>3 DEF Wanted
      <3>5. Port!Ask("dhcp")
        BY <2>1, <3>4 DEF Port!Ask, InForce
      <3>6. QED
        BY <3>1, <3>5 DEF Port!Next
    <2>5. QED
      BY <2>3, <2>4
  <1>5. ASSUME NEW r \in Setter, Modify(r) PROVE Goal
    <2>1. Open(r) /\ Step(r, "up") /\ UNCHANGED <<device, asked>> /\ asked[r] \in Mode
      BY <1>5 DEF Modify, Open, EthInv, AskedFits
    <2>2. \A q \in Setter : (Open(q))' <=> Open(q)
      BY <2>1 DEF EthInv, EthTypeOK, Step, Open
    <2>3. CASE UNCHANGED profile
      BY <2>1, <2>2, <2>3, OnlyForgets DEF Port!Next
    <2>4. CASE profile' = Settings(asked[r])
      <3>1. ModeOf(profile') = asked[r] /\ asked[r] # Passive
        BY <2>1, <2>4, ModeOfSettings, PortAssumption DEF Mode
      <3>2. Wanted' \subseteq Wanted
        BY <2>1, <2>2, <3>1 DEF Wanted
      <3>3. Port!Forget
        BY <2>1, <3>2 DEF Port!Forget, InForce
      <3>4. QED
        BY <3>3 DEF Port!Next
    <2>5. QED
      BY <1>5, <2>3, <2>4 DEF Modify
  <1>6. ASSUME NEW r \in Setter, Up(r) PROVE Goal
    <2>1. PICK label : Open(r) /\ Step(r, label) /\ UNCHANGED <<profile, asked>>
      BY <1>6 DEF Up, Answered, Open
    <2>2. \A q \in Setter : (Open(q))' => Open(q)
      BY <2>1, OpenAfter
    <2>3. CASE UNCHANGED device
      BY <2>1, <2>2, <2>3, OnlyForgets DEF Port!Next
    <2>4. CASE device' # device
      <3>1. device' = [settings |-> profile, by |-> r, active |-> FALSE] /\ device' \in Applied
        BY <1>6, <2>4, WritesWhole DEF Up
      <3>2. device'.settings = profile /\ ~device'.active
        BY <3>1
      <3>3. profile # None
        BY <1>6 DEF Up, EthInv, ProfileThere
      <3>4. InForce' = Passive
        BY <3>2 DEF InForce
      <3>5. QED
        BY <2>1, <2>2, <3>1, <3>2, <3>3, <3>4, DropImplements DEF Port!Next
    <2>5. QED
      BY <2>3, <2>4
  <1>7. ASSUME NEW r \in Setter, UpReturns(r) PROVE Goal
    <2>1. Open(r) /\ Step(r, "idle") /\ UNCHANGED <<profile, device, asked>>
      BY <1>7 DEF UpReturns, Answered, Open
    <2>2. \A q \in Setter : (Open(q))' => Open(q)
      BY <2>1, OpenAfter
    <2>3. QED
      BY <2>1, <2>2, OnlyForgets DEF Port!Next
  <1>8. ASSUME ReadDevice \/ ReadMethod PROVE Goal
    BY <1>8 DEF ReadDevice, ReadMethod, Wanted, InForce, Open, Port!portVars
  <1>9. ASSUME Activated PROVE Goal
    <2>1. UNCHANGED <<profile, asked, pc>> /\ device # None /\ device' # None
      BY <1>9, ActivatedApplies, WholeNotNone DEF Activated
    <2>2. Wanted' = Wanted
      BY <1>9, <2>1, ActivatedApplies DEF Wanted, Open
    <2>3. InForce = Passive /\ InForce' = ModeOf(device.settings)
      BY <1>9, <2>1, ActivatedApplies DEF InForce, Activated
    <2>4. ModeOf(device.settings) \in Wanted
      BY <2>1 DEF Wanted
    <2>5. QED
      BY <2>2, <2>3, <2>4 DEF Port!TakeEffect, Port!Next
  <1>10. ASSUME Deactivated PROVE Goal
    BY <1>10, DropImplements DEF Deactivated, InForce, Open, Port!Next
  <1> HIDE DEF Goal
  <1>11. Goal
    BY <1>1, <1>2, <1>3, <1>4, <1>5, <1>6, <1>7, <1>8, <1>9, <1>10 DEF EthNext
  <1>12. QED
    BY <1>11 DEF Goal

-----------------------------------------------------------------------------
\* The invariant is inductive.
LEMMA EthInductive == EthSpec => []EthInv
  <1>1. ASSUME EthInv, EthNext PROVE EthInv'
    BY <1>1, EthTypeNext, AskedNext, ProfileNext, UpNext, AloneNext, QuietNext DEF EthInv
  <1>2. ASSUME EthInv, UNCHANGED ethVars PROVE EthInv'
    BY <1>2 DEF EthInv, ethVars, EthTypeOK, AskedFits, ProfileThere, UpIsDue, AloneKept, QuietKept,
                Open, Own
  <1>3. QED
    BY <1>1, <1>2, EthInvInit, PTL DEF EthSpec

(* The test port keeps the promise of TestPort, for any number of           *)
(* overlapping requests of eth0_mode.py, of commands that fail or time out  *)
(* and of activations that end late: passive first, only whole modes that   *)
(* somebody asked for, and from one mode to the next through passive.       *)
THEOREM PortKeepsPromise == EthSpec => PortSpec
  <1>1. ASSUME EthInit PROVE Port!Init
    <2>1. device = None /\ \A q \in Setter : ~Open(q)
      BY <1>1 DEF EthInit, Open
    <2>2. profile # None => ModeOf(profile) = "dhcp"
      BY <1>1 DEF EthInit, ModeOf
    <2>3. Wanted \subseteq {"dhcp"}
      BY <2>1, <2>2 DEF Wanted
    <2>4. InForce = Passive
      BY <2>1 DEF InForce
    <2>5. QED
      BY <2>3, <2>4 DEF Port!Init
  <1>2. UNCHANGED ethVars => UNCHANGED Port!portVars
    BY DEF ethVars, Port!portVars, Wanted, InForce, Open
  <1>3. EthInv /\ [EthNext]_ethVars => [Port!Next]_(Port!portVars)
    BY <1>2, EthImplements
  <1>4. QED
    BY <1>1, <1>3, EthInductive, PTL DEF EthSpec, PortSpec, Port!Spec

(* "eth0 set to ... mode" (eth0_mode.py:224): a request that met no other   *)
(* one and answers ok has its mode in force at that moment, unless nmcli    *)
(* refused the address, which the code does not look at.                    *)
THEOREM OkIsApplied == ASSUME Refused = {} PROVE EthSpec => OkMeansApplied
  <1> DEFINE Ok(r) == Open(r) /\ ~Open(r)' /\ alone[r] /\ answer'[r] = "ok" => InForce' = asked[r]
             Good == \A r \in Setter : Ok(r)
  <1>1. ASSUME EthInv, EthNext PROVE Good
    <2> SUFFICES ASSUME NEW r \in Setter, Open(r), ~Open(r)', alone[r], answer'[r] = "ok"
                 PROVE  InForce' = asked[r]
      OBVIOUS
    <2> USE <1>1 DEF EthInv, EthTypeOK
    <2>1. Disconnect(r) \/ UpReturns(r)
      <3> USE DEF Open, Step, Answered
      <3>1. \A q \in Setter, m \in Mode \cup {Passive} : ~Ask(q, m)
        BY DEF Ask
      <3>2. \A q \in Setter : ~Show(q) /\ ~Add(q) /\ ~Modify(q) /\ ~Up(q)
        BY DEF Show, Add, Modify, Up
      <3>3. \A q \in Setter \ {r} : ~Disconnect(q) /\ ~UpReturns(q)
        BY DEF Disconnect, UpReturns
      <3>4. ~ReadDevice /\ ~ReadMethod /\ ~Activated /\ ~Deactivated
        BY DEF ReadDevice, ReadMethod, Activated, Deactivated
      <3>5. QED
        BY <3>1, <3>2, <3>3, <3>4 DEF EthNext
    <2>2. CASE Disconnect(r)
      BY <2>2 DEF Disconnect, Answered, InForce, AskedFits
    <2>3. CASE UpReturns(r)
      <3>1. pc[r] = "await" /\ Own(r) /\ device.active /\ UNCHANGED device
        BY <2>3 DEF UpReturns, Answered, UpAnswer
      <3>2. device.settings = Settings(asked[r]) /\ asked[r] \in Mode
        BY <3>1 DEF AloneKept, AskedFits
      <3>3. QED
        BY <3>1, <3>2, ModeOfSettings DEF InForce, Own
    <2>4. QED
      BY <2>1, <2>2, <2>3
  <1>2. EthInv /\ [EthNext]_ethVars => [Good]_ethVars
    BY <1>1
  <1>3. QED
    BY <1>2, EthInductive, PTL DEF EthSpec, OkMeansApplied

(* get_mode() takes the method from the profile: without a mode change in   *)
(* between it tells what NetworkManager applies, whatever requests did      *)
(* before, unless the last `connection up` was refused (eth0_mode.py,       *)
(* get_mode()).                                                             *)
THEOREM ReportIsInForce == EthSpec => ReportedInForce
  <1> DEFINE Right == look = "method" /\ look' = None /\ quiet /\ quiet' /\ ~rejected
                        => device # None /\ report' = Kind(ModeOf(device.settings))
  <1>1. ASSUME EthInv, EthNext PROVE Right
    <2> SUFFICES ASSUME look = "method", look' = None, quiet, quiet', ~rejected
                 PROVE  device # None /\ report' = Kind(ModeOf(device.settings))
      OBVIOUS
    <2> USE <1>1
    <2>1. /\ device # None /\ \A r \in Setter : pc[r] = "idle"
          /\ device.settings = profile /\ profile \in Whole
      BY DEF EthInv, EthTypeOK, QuietKept, UpIsDue, ProfileThere, Open
    <2>2. ReadMethod
      <3>1. look # look'
        BY PortAssumption
      <3>2. \A r \in Setter : ~Disconnect(r) /\ ~Show(r) /\ ~Add(r) /\ ~Modify(r) /\ ~Up(r) /\ ~UpReturns(r)
        BY <2>1 DEF Disconnect, Show, Add, Modify, Up, UpReturns
      <3>3. (\A r \in Setter, m \in Mode \cup {Passive} : ~Ask(r, m)) /\ ~Activated /\ ~Deactivated
        BY <3>1 DEF Ask, Activated, Deactivated
      <3>4. ~ReadDevice
        BY <3>1 DEF ReadDevice
      <3>5. QED
        BY <3>2, <3>3, <3>4 DEF EthNext
    <2>3. report' = ReportedMethod
      BY <2>2 DEF ReadMethod
    <2>4. PICK m \in Mode : profile = Settings(m)
      BY <2>1 DEF Whole
    <2>5. QED
      BY <2>1, <2>3, <2>4, ModeOfSettings, PortAssumption DEF ReportedMethod, Kind, Settings, Mode
  <1>2. EthInv /\ [EthNext]_ethVars => [Right]_ethVars
    BY <1>1
  <1>3. QED
    BY <1>2, EthInductive, PTL DEF EthSpec, ReportedInForce

-----------------------------------------------------------------------------
(* wlan0.  The assumptions are those of the model-checked instance: the     *)
(* scripts of the monitor and of a request keep apart, one request switches *)
(* at a time, and the two `ip addr` commands do what they are for.          *)
OneSwitchAtATime == Apart /\ \A q, r \in Request : q = r
AddressCommandsWork == {"add address", "delete address"} \cap Fallible = {}

\* The monitor runs ap-up.sh only, and none of it during a request's ap-down.sh.
ScriptsApart ==
    /\ at["monitor"] \in UpScript \cup {"check"}
    /\ at["monitor"] \in UpScript => \A r \in Request : at[r] \notin DownScript

\* What a request knows of hostapd between two of its commands.
HostapdKnown ==
    \A r \in Request : /\ at[r] \in {"manage", "delete address"} => ~hostapd
                       /\ at[r] = "restart" => hostapd

\* Where an access point runs or starts without an address, somebody adds it next.
AddressDue ==
    /\ ~address
    /\ hostapd \/ \E p \in Party : at[p] = "start hostapd"
    => \E p \in Party : at[p] = "add address"

WifiInv == TypeOK /\ ScriptsApart /\ HostapdKnown /\ AddressDue

\* The counters stay within their bounds.
LEMMA CountsBounded ==
  ASSUME WifiInv
  PROVE  /\ Check => down' \in 0 .. Threshold - 1
         /\ \A p \in Party : Fails(p) \/ Restart(p) => failures' \in 0 .. MaxFailures
  <1>1. /\ down \in 0 .. Threshold - 1 /\ failures \in 0 .. MaxFailures
        /\ Threshold \in Nat \ {0} /\ MaxFailures \in Nat
    <2>1. down \in 0 .. Threshold - 1 /\ failures \in 0 .. MaxFailures
      BY DEF WifiInv, TypeOK
    <2>2. Threshold \in Nat \ {0} /\ MaxFailures \in Nat
      BY WifiAssumption
    <2>3. QED
      BY <2>1, <2>2
  <1>2. Check => down' = 0 \/ (down' = down + 1 /\ down + 1 < Threshold)
    BY DEF Check
  <1>3. \A p \in Party : Fails(p) \/ Restart(p) =>
            failures' = failures \/ (failures' = failures + 1 /\ failures < MaxFailures)
    BY DEF Fails, Restart
  <1>4. Check => down' \in 0 .. Threshold - 1
    BY <1>1, <1>2
  <1>5. \A p \in Party : Fails(p) \/ Restart(p) => failures' \in 0 .. MaxFailures
    BY <1>1, <1>3
  <1>6. QED
    BY <1>4, <1>5

\* Every command leaves its party at a place it knows.
LEMMA WifiTypeNext == ASSUME WifiInv, OneSwitchAtATime, AddressCommandsWork, Next PROVE TypeOK'
  <1> USE WifiAssumption DEF WifiInv, OneSwitchAtATime, AddressCommandsWork, TypeOK, Party, UpScript, DownScript, Goto, radio
  <1>1. ASSUME NEW p \in Party, at[p] = "unmanage", Unmanage(p), UNCHANGED <<inRange, down, op, failures>> PROVE TypeOK'
    BY <1>1 DEF Unmanage
  <1>2. ASSUME NEW p \in Party, at[p] = "flush", Flush(p), UNCHANGED <<inRange, down, op, failures>> PROVE TypeOK'
    BY <1>2 DEF Flush
  <1>3. ASSUME NEW p \in Party, at[p] = "add address", AddAddress(p), UNCHANGED <<inRange, down, op, failures>> PROVE TypeOK'
    BY <1>3 DEF AddAddress, AfterUp
  <1>4. ASSUME NEW p \in Party, at[p] = "start hostapd", StartHostapd(p), UNCHANGED <<inRange, down, op, failures>> PROVE TypeOK'
    BY <1>4 DEF StartHostapd
  <1>5. ASSUME NEW p \in Party, at[p] = "start dnsmasq", StartDnsmasq(p), UNCHANGED <<inRange, down, op, failures>> PROVE TypeOK'
    BY <1>5 DEF StartDnsmasq, AfterUp
  <1>6. ASSUME NEW p \in Party, at[p] = "stop dnsmasq", StopDnsmasq(p), UNCHANGED <<inRange, down, op, failures>> PROVE TypeOK'
    BY <1>6 DEF StopDnsmasq
  <1>7. ASSUME NEW p \in Party, at[p] = "stop hostapd", StopHostapd(p), UNCHANGED <<inRange, down, op, failures>> PROVE TypeOK'
    BY <1>7 DEF StopHostapd
  <1>8. ASSUME NEW p \in Party, at[p] = "manage", Manage(p), UNCHANGED <<inRange, down, op, failures>> PROVE TypeOK'
    BY <1>8 DEF Manage
  <1>9. ASSUME NEW p \in Party, at[p] = "delete address", DeleteAddress(p), UNCHANGED <<inRange, down, op, failures>> PROVE TypeOK'
    BY <1>9 DEF DeleteAddress, AfterDown
  <1>10. ASSUME NEW p \in Party, Fails(p) PROVE TypeOK'
    <2>1. failures' \in 0 .. MaxFailures
      BY <1>10, CountsBounded
    <2>2. at' \in [Party -> UpScript \cup DownScript
                        \cup {"check", "idle", "look", "restart", "up connection", "wait"}]
      BY <1>10 DEF Fails, AfterUp
    <2>3. QED
      BY <1>10, <2>1, <2>2 DEF Fails
  <1>11. ASSUME Check PROVE TypeOK'
    <2>1. down' \in 0 .. Threshold - 1
      BY <1>11, CountsBounded
    <2>2. at' \in [Party -> UpScript \cup DownScript
                        \cup {"check", "idle", "look", "restart", "up connection", "wait"}]
      BY <1>11 DEF Check
    <2>3. QED
      BY <1>11, <2>1, <2>2 DEF Check
  <1>12. ASSUME NEW r \in Request, AddKnown(r) PROVE TypeOK'
    BY <1>12 DEF AddKnown, Accept
  <1>13. ASSUME NEW r \in Request, RetryKnown(r) PROVE TypeOK'
    BY <1>13 DEF RetryKnown, Accept
  <1>14. ASSUME NEW r \in Request, SetConfig(r) PROVE TypeOK'
    BY <1>14 DEF SetConfig, Accept
  <1>15. ASSUME NEW r \in Request, Look(r) PROVE TypeOK'
    BY <1>15 DEF Look
  <1>16. ASSUME NEW r \in Request, Restart(r) PROVE TypeOK'
    <2>1. failures' \in 0 .. MaxFailures
      BY <1>16, CountsBounded
    <2>2. QED
      BY <1>16, <2>1 DEF Restart
  <1>17. ASSUME NEW r \in Request, UpConnection(r) PROVE TypeOK'
    BY <1>17 DEF UpConnection
  <1>18. ASSUME NEW r \in Request, Wait(r) PROVE TypeOK'
    BY <1>18 DEF Wait
  <1>19. ASSUME NEW r \in Request, Connect(r) PROVE TypeOK'
    BY <1>19 DEF Connect
  <1>20. ASSUME NEW r \in Request, Forget(r) PROVE TypeOK'
    BY <1>20 DEF Forget
  <1>21. ASSUME AutoConnect PROVE TypeOK'
    BY <1>21 DEF AutoConnect
  <1>22. ASSUME Move PROVE TypeOK'
    BY <1>22 DEF Move
  <1> HIDE DEF WifiInv, OneSwitchAtATime, AddressCommandsWork, TypeOK, Party, UpScript, DownScript, Goto, radio
  <1>23. QED
    BY <1>1, <1>2, <1>3, <1>4, <1>5, <1>6, <1>7, <1>8, <1>9, <1>10, <1>11, <1>12, <1>13, <1>14, <1>15, <1>16, <1>17, <1>18, <1>19, <1>20, <1>21, <1>22
       DEF Next, Command

\* The monitor and a request that switches back keep apart.
LEMMA ApartNext == ASSUME WifiInv, OneSwitchAtATime, AddressCommandsWork, Next PROVE ScriptsApart'
  <1> USE WifiAssumption DEF WifiInv, OneSwitchAtATime, AddressCommandsWork, TypeOK, Party, UpScript, DownScript, Goto, radio, ScriptsApart
  <1>1. ASSUME NEW p \in Party, at[p] = "unmanage", Unmanage(p), UNCHANGED <<inRange, down, op, failures>> PROVE ScriptsApart'
    BY <1>1 DEF Unmanage
  <1>2. ASSUME NEW p \in Party, at[p] = "flush", Flush(p), UNCHANGED <<inRange, down, op, failures>> PROVE ScriptsApart'
    BY <1>2 DEF Flush
  <1>3. ASSUME NEW p \in Party, at[p] = "add address", AddAddress(p), UNCHANGED <<inRange, down, op, failures>> PROVE ScriptsApart'
    BY <1>3 DEF AddAddress, AfterUp
  <1>4. ASSUME NEW p \in Party, at[p] = "start hostapd", StartHostapd(p), UNCHANGED <<inRange, down, op, failures>> PROVE ScriptsApart'
    BY <1>4 DEF StartHostapd
  <1>5. ASSUME NEW p \in Party, at[p] = "start dnsmasq", StartDnsmasq(p), UNCHANGED <<inRange, down, op, failures>> PROVE ScriptsApart'
    BY <1>5 DEF StartDnsmasq, AfterUp
  <1>6. ASSUME NEW p \in Party, at[p] = "stop dnsmasq", StopDnsmasq(p), UNCHANGED <<inRange, down, op, failures>> PROVE ScriptsApart'
    BY <1>6 DEF StopDnsmasq
  <1>7. ASSUME NEW p \in Party, at[p] = "stop hostapd", StopHostapd(p), UNCHANGED <<inRange, down, op, failures>> PROVE ScriptsApart'
    BY <1>7 DEF StopHostapd
  <1>8. ASSUME NEW p \in Party, at[p] = "manage", Manage(p), UNCHANGED <<inRange, down, op, failures>> PROVE ScriptsApart'
    BY <1>8 DEF Manage
  <1>9. ASSUME NEW p \in Party, at[p] = "delete address", DeleteAddress(p), UNCHANGED <<inRange, down, op, failures>> PROVE ScriptsApart'
    BY <1>9 DEF DeleteAddress, AfterDown
  <1>10. ASSUME NEW p \in Party, Fails(p) PROVE ScriptsApart'
    BY <1>10 DEF Fails, AfterUp
  <1>11. ASSUME Check PROVE ScriptsApart'
    BY <1>11 DEF Check
  <1>12. ASSUME NEW r \in Request, AddKnown(r) PROVE ScriptsApart'
    BY <1>12 DEF AddKnown, Accept
  <1>13. ASSUME NEW r \in Request, RetryKnown(r) PROVE ScriptsApart'
    BY <1>13 DEF RetryKnown, Accept
  <1>14. ASSUME NEW r \in Request, SetConfig(r) PROVE ScriptsApart'
    BY <1>14 DEF SetConfig, Accept
  <1>15. ASSUME NEW r \in Request, Look(r) PROVE ScriptsApart'
    BY <1>15 DEF Look
  <1>16. ASSUME NEW r \in Request, Restart(r) PROVE ScriptsApart'
    BY <1>16 DEF Restart
  <1>17. ASSUME NEW r \in Request, UpConnection(r) PROVE ScriptsApart'
    BY <1>17 DEF UpConnection
  <1>18. ASSUME NEW r \in Request, Wait(r) PROVE ScriptsApart'
    BY <1>18 DEF Wait
  <1>19. ASSUME NEW r \in Request, Connect(r) PROVE ScriptsApart'
    BY <1>19 DEF Connect
  <1>20. ASSUME NEW r \in Request, Forget(r) PROVE ScriptsApart'
    BY <1>20 DEF Forget
  <1>21. ASSUME AutoConnect PROVE ScriptsApart'
    BY <1>21 DEF AutoConnect
  <1>22. ASSUME Move PROVE ScriptsApart'
    BY <1>22 DEF Move
  <1> HIDE DEF WifiInv, OneSwitchAtATime, AddressCommandsWork, TypeOK, Party, UpScript, DownScript, Goto, radio, ScriptsApart
  <1>23. QED
    BY <1>1, <1>2, <1>3, <1>4, <1>5, <1>6, <1>7, <1>8, <1>9, <1>10, <1>11, <1>12, <1>13, <1>14, <1>15, <1>16, <1>17, <1>18, <1>19, <1>20, <1>21, <1>22
       DEF Next, Command

\* Only ap-down.sh stops hostapd.
LEMMA HostapdNext == ASSUME WifiInv, OneSwitchAtATime, AddressCommandsWork, Next PROVE HostapdKnown'
  <1> USE WifiAssumption DEF WifiInv, OneSwitchAtATime, AddressCommandsWork, TypeOK, Party, UpScript, DownScript, Goto, radio, HostapdKnown, ScriptsApart
  <1>1. ASSUME NEW p \in Party, at[p] = "unmanage", Unmanage(p), UNCHANGED <<inRange, down, op, failures>> PROVE HostapdKnown'
    BY <1>1 DEF Unmanage
  <1>2. ASSUME NEW p \in Party, at[p] = "flush", Flush(p), UNCHANGED <<inRange, down, op, failures>> PROVE HostapdKnown'
    BY <1>2 DEF Flush
  <1>3. ASSUME NEW p \in Party, at[p] = "add address", AddAddress(p), UNCHANGED <<inRange, down, op, failures>> PROVE HostapdKnown'
    BY <1>3 DEF AddAddress, AfterUp
  <1>4. ASSUME NEW p \in Party, at[p] = "start hostapd", StartHostapd(p), UNCHANGED <<inRange, down, op, failures>> PROVE HostapdKnown'
    BY <1>4 DEF StartHostapd
  <1>5. ASSUME NEW p \in Party, at[p] = "start dnsmasq", StartDnsmasq(p), UNCHANGED <<inRange, down, op, failures>> PROVE HostapdKnown'
    BY <1>5 DEF StartDnsmasq, AfterUp
  <1>6. ASSUME NEW p \in Party, at[p] = "stop dnsmasq", StopDnsmasq(p), UNCHANGED <<inRange, down, op, failures>> PROVE HostapdKnown'
    BY <1>6 DEF StopDnsmasq
  <1>7. ASSUME NEW p \in Party, at[p] = "stop hostapd", StopHostapd(p), UNCHANGED <<inRange, down, op, failures>> PROVE HostapdKnown'
    BY <1>7 DEF StopHostapd
  <1>8. ASSUME NEW p \in Party, at[p] = "manage", Manage(p), UNCHANGED <<inRange, down, op, failures>> PROVE HostapdKnown'
    BY <1>8 DEF Manage
  <1>9. ASSUME NEW p \in Party, at[p] = "delete address", DeleteAddress(p), UNCHANGED <<inRange, down, op, failures>> PROVE HostapdKnown'
    BY <1>9 DEF DeleteAddress, AfterDown
  <1>10. ASSUME NEW p \in Party, Fails(p) PROVE HostapdKnown'
    BY <1>10 DEF Fails, AfterUp
  <1>11. ASSUME Check PROVE HostapdKnown'
    BY <1>11 DEF Check
  <1>12. ASSUME NEW r \in Request, AddKnown(r) PROVE HostapdKnown'
    BY <1>12 DEF AddKnown, Accept
  <1>13. ASSUME NEW r \in Request, RetryKnown(r) PROVE HostapdKnown'
    BY <1>13 DEF RetryKnown, Accept
  <1>14. ASSUME NEW r \in Request, SetConfig(r) PROVE HostapdKnown'
    BY <1>14 DEF SetConfig, Accept
  <1>15. ASSUME NEW r \in Request, Look(r) PROVE HostapdKnown'
    BY <1>15 DEF Look
  <1>16. ASSUME NEW r \in Request, Restart(r) PROVE HostapdKnown'
    BY <1>16 DEF Restart
  <1>17. ASSUME NEW r \in Request, UpConnection(r) PROVE HostapdKnown'
    BY <1>17 DEF UpConnection
  <1>18. ASSUME NEW r \in Request, Wait(r) PROVE HostapdKnown'
    BY <1>18 DEF Wait
  <1>19. ASSUME NEW r \in Request, Connect(r) PROVE HostapdKnown'
    BY <1>19 DEF Connect
  <1>20. ASSUME NEW r \in Request, Forget(r) PROVE HostapdKnown'
    BY <1>20 DEF Forget
  <1>21. ASSUME AutoConnect PROVE HostapdKnown'
    BY <1>21 DEF AutoConnect
  <1>22. ASSUME Move PROVE HostapdKnown'
    BY <1>22 DEF Move
  <1> HIDE DEF WifiInv, OneSwitchAtATime, AddressCommandsWork, TypeOK, Party, UpScript, DownScript, Goto, radio, HostapdKnown, ScriptsApart
  <1>23. QED
    BY <1>1, <1>2, <1>3, <1>4, <1>5, <1>6, <1>7, <1>8, <1>9, <1>10, <1>11, <1>12, <1>13, <1>14, <1>15, <1>16, <1>17, <1>18, <1>19, <1>20, <1>21, <1>22
       DEF Next, Command

\* The address is taken away only before it is added, or without hostapd.
LEMMA AddressNext == ASSUME WifiInv, OneSwitchAtATime, AddressCommandsWork, Next PROVE AddressDue'
  <1> USE WifiAssumption DEF WifiInv, OneSwitchAtATime, AddressCommandsWork, TypeOK, Party, UpScript, DownScript, Goto, radio, AddressDue, HostapdKnown, ScriptsApart
  <1>1. ASSUME NEW p \in Party, at[p] = "unmanage", Unmanage(p), UNCHANGED <<inRange, down, op, failures>> PROVE AddressDue'
    BY <1>1 DEF Unmanage
  <1>2. ASSUME NEW p \in Party, at[p] = "flush", Flush(p), UNCHANGED <<inRange, down, op, failures>> PROVE AddressDue'
    BY <1>2 DEF Flush
  <1>3. ASSUME NEW p \in Party, at[p] = "add address", AddAddress(p), UNCHANGED <<inRange, down, op, failures>> PROVE AddressDue'
    BY <1>3 DEF AddAddress, AfterUp
  <1>4. ASSUME NEW p \in Party, at[p] = "start hostapd", StartHostapd(p), UNCHANGED <<inRange, down, op, failures>> PROVE AddressDue'
    BY <1>4 DEF StartHostapd
  <1>5. ASSUME NEW p \in Party, at[p] = "start dnsmasq", StartDnsmasq(p), UNCHANGED <<inRange, down, op, failures>> PROVE AddressDue'
    BY <1>5 DEF StartDnsmasq, AfterUp
  <1>6. ASSUME NEW p \in Party, at[p] = "stop dnsmasq", StopDnsmasq(p), UNCHANGED <<inRange, down, op, failures>> PROVE AddressDue'
    BY <1>6 DEF StopDnsmasq
  <1>7. ASSUME NEW p \in Party, at[p] = "stop hostapd", StopHostapd(p), UNCHANGED <<inRange, down, op, failures>> PROVE AddressDue'
    BY <1>7 DEF StopHostapd
  <1>8. ASSUME NEW p \in Party, at[p] = "manage", Manage(p), UNCHANGED <<inRange, down, op, failures>> PROVE AddressDue'
    BY <1>8 DEF Manage
  <1>9. ASSUME NEW p \in Party, at[p] = "delete address", DeleteAddress(p), UNCHANGED <<inRange, down, op, failures>> PROVE AddressDue'
    BY <1>9 DEF DeleteAddress, AfterDown
  <1>10. ASSUME NEW p \in Party, Fails(p) PROVE AddressDue'
    BY <1>10 DEF Fails, AfterUp
  <1>11. ASSUME Check PROVE AddressDue'
    BY <1>11 DEF Check
  <1>12. ASSUME NEW r \in Request, AddKnown(r) PROVE AddressDue'
    BY <1>12 DEF AddKnown, Accept
  <1>13. ASSUME NEW r \in Request, RetryKnown(r) PROVE AddressDue'
    BY <1>13 DEF RetryKnown, Accept
  <1>14. ASSUME NEW r \in Request, SetConfig(r) PROVE AddressDue'
    BY <1>14 DEF SetConfig, Accept
  <1>15. ASSUME NEW r \in Request, Look(r) PROVE AddressDue'
    BY <1>15 DEF Look
  <1>16. ASSUME NEW r \in Request, Restart(r) PROVE AddressDue'
    BY <1>16 DEF Restart
  <1>17. ASSUME NEW r \in Request, UpConnection(r) PROVE AddressDue'
    BY <1>17 DEF UpConnection
  <1>18. ASSUME NEW r \in Request, Wait(r) PROVE AddressDue'
    BY <1>18 DEF Wait
  <1>19. ASSUME NEW r \in Request, Connect(r) PROVE AddressDue'
    BY <1>19 DEF Connect
  <1>20. ASSUME NEW r \in Request, Forget(r) PROVE AddressDue'
    BY <1>20 DEF Forget
  <1>21. ASSUME AutoConnect PROVE AddressDue'
    BY <1>21 DEF AutoConnect
  <1>22. ASSUME Move PROVE AddressDue'
    BY <1>22 DEF Move
  <1> HIDE DEF WifiInv, OneSwitchAtATime, AddressCommandsWork, TypeOK, Party, UpScript, DownScript, Goto, radio, AddressDue, HostapdKnown, ScriptsApart
  <1>23. QED
    BY <1>1, <1>2, <1>3, <1>4, <1>5, <1>6, <1>7, <1>8, <1>9, <1>10, <1>11, <1>12, <1>13, <1>14, <1>15, <1>16, <1>17, <1>18, <1>19, <1>20, <1>21, <1>22
       DEF Next, Command

\* wlan0 starts as a client, with nobody switching it.
LEMMA WifiInvInit == Init => WifiInv
  <1> SUFFICES ASSUME Init PROVE WifiInv
    OBVIOUS
  <1>1. "monitor" \in Party /\ at["monitor"] = "check" /\ \A r \in Request : at[r] = "idle"
    BY WifiAssumption DEF Init, Party
  <1>2. TypeOK
    <2>1. Threshold \in Nat \ {0} /\ MaxFailures \in Nat
      BY WifiAssumption
    <2>2. down \in 0 .. Threshold - 1 /\ failures \in 0 .. MaxFailures
      BY <2>1 DEF Init
    <2>3. at \in [Party -> {"check", "idle"}]
      BY DEF Init
    <2>4. QED
      BY <2>2, <2>3 DEF Init, TypeOK
  <1>3. ScriptsApart /\ HostapdKnown
    BY <1>1 DEF ScriptsApart, HostapdKnown, UpScript
  <1>4. AddressDue
    BY <1>1 DEF Init, AddressDue, Party
  <1>5. QED
    BY <1>2, <1>3, <1>4 DEF WifiInv

(* When no script and no request is under way, an active hostapd has its    *)
(* address, whatever else failed half way before and however the monitor's  *)
(* ap-up.sh overlapped the waiting and the restoring of a request:          *)
(* is_active() and the monitor, which look at hostapd only, never take an   *)
(* access point without address for a working one (lanpi-ap-up.sh,          *)
(* lanpi-wifi-fallback.sh).  As the network run shows, both hypotheses are  *)
(* needed.                                                                  *)
THEOREM SettledAddress ==
  ASSUME OneSwitchAtATime, AddressCommandsWork
  PROVE  WifiSpec => []SettledApHasAddress
  <1>1. ASSUME WifiInv, Next PROVE WifiInv'
    BY <1>1, WifiTypeNext, ApartNext, HostapdNext, AddressNext DEF WifiInv
  <1>2. ASSUME WifiInv, UNCHANGED wifiVars PROVE WifiInv'
    BY <1>2 DEF WifiInv, wifiVars, radio, TypeOK, ScriptsApart, HostapdKnown, AddressDue
  <1>3. WifiInv => SettledApHasAddress
    BY DEF WifiInv, AddressDue, SettledApHasAddress, Settled, Party
  <1>4. QED
    BY <1>1, <1>2, <1>3, WifiInvInit, PTL DEF WifiSpec
=============================================================================
