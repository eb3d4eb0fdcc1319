------------------------------ MODULE S7Client ------------------------------
(***************************************************************************)
(* backend/tools/s7_diag.py: one call of identify() or of read_tag().      *)
(* Both open a connection with one of two TSAPs, set up the communication, *)
(* and then read two identification lists or one variable.                 *)
(*                                                                         *)
(* What a PLC may do in place of an answer: reset or time out (OSError),   *)
(* close the connection or send a frame of no length (no frame), or send   *)
(* something else.  Refused arguments and an eth0 without address take no  *)
(* step.                                                                   *)
(***************************************************************************)
EXTENDS Naturals

VARIABLES
    s7,        \* the locals of the call: pc, tag, attempt, raised, connected, result
    sockets,   \* those that are open, by the attempt that opened them
    confirmed  \* history: the PLC confirmed a connection

s7Vars == <<s7, sockets, confirmed>>

Size == [BIT |-> 1, BYTE |-> 1, WORD |-> 2, REAL |-> 4]   \* _S7_TYPE_SIZES
Tag == DOMAIN Size       \* of a tag only the type: its address is not kept
Identify == "identify"

S7Init ==
    /\ s7 = [pc |-> "idle", tag |-> Identify, attempt |-> 0, raised |-> FALSE,
             connected |-> FALSE, result |-> "none"]
    /\ sockets = {} /\ confirmed = FALSE

S7At(label) == s7.pc = label

\* A return: the finally clause closes the connection.
S7Return(result, connected) ==
    /\ s7' = [s7 EXCEPT !.pc = "done", !.result = result, !.connected = connected]
    /\ sockets' = {}

-----------------------------------------------------------------------------
(* _open_and_negotiate_cotp *)

BeginS7(tag) ==
    /\ S7At("idle")
    /\ s7' = [s7 EXCEPT !.pc = "attempt", !.tag = tag]
    /\ UNCHANGED <<sockets, confirmed>>

\* A fresh socket for the next TSAP.
OpenSocket ==
    /\ S7At("attempt") /\ s7.attempt < 2
    /\ s7' = [s7 EXCEPT !.pc = "negotiate", !.attempt = @ + 1]
    /\ sockets' = sockets \cup {s7.attempt + 1}
    /\ UNCHANGED confirmed

Confirmed ==
    /\ S7At("negotiate")
    /\ s7' = [s7 EXCEPT !.pc = "setup"]
    /\ confirmed' = TRUE
    /\ UNCHANGED sockets

AfterOSError_Raise == [s7 EXCEPT !.pc = "done", !.result = "failed"]
\* "must still let the next TSAP get tried"
AfterOSError == [s7 EXCEPT !.pc = "attempt", !.raised = TRUE]

\* An OSError is kept and raised later, an answer that does not confirm is not.
NotConfirmed ==
    /\ S7At("negotiate")
    /\ s7' \in {AfterOSError, [s7 EXCEPT !.pc = "attempt"]}
    /\ sockets' = sockets \ {s7.attempt}
    /\ UNCHANGED confirmed

\* Both TSAPs failed.
GiveUp ==
    /\ S7At("attempt") /\ s7.attempt = 2
    /\ S7Return(IF s7.raised THEN "failed" ELSE "not confirmed", FALSE)
    /\ UNCHANGED confirmed

-----------------------------------------------------------------------------
(* The rest of identify() and read_tag(). *)

\* An OSError once connected: identify() reports that as not connected.
Broken ==
    /\ s7.pc \in {"setup", "module", "component", "read"}
    /\ S7Return("failed", FALSE)
    /\ UNCHANGED confirmed

Setup ==
    /\ S7At("setup")
    /\ \/ S7Return("no setup", TRUE)
       \/ /\ s7' = [s7 EXCEPT !.pc = IF s7.tag = Identify THEN "module" ELSE "read"]
          /\ UNCHANGED sockets
    /\ UNCHANGED confirmed

\* Fields or a message why not; no frame at all is no failure of the call.
ReadModule ==
    /\ S7At("module")
    /\ s7' = [s7 EXCEPT !.pc = "component"]
    /\ UNCHANGED <<sockets, confirmed>>

ReadComponent ==
    /\ S7At("component")
    /\ S7Return("ok", TRUE)
    /\ UNCHANGED confirmed

\* A PLC answers with no frame, an error in one of the places for it, or data:
\* as many bytes as were asked for, or another number.
Frames(type) ==
    {[kind |-> k, length |-> 0] :
        k \in {"no frame", "foreign", "other type", "PDU error", "short", "refused"}}
    \cup {[kind |-> "data", length |-> n] : n \in 0..Size[type] + 1}

\* _parse_read_var_response: data in full length, or a message why not.
ParseReadVar(frame, expected) ==
    IF frame.kind = "data" /\ frame.length >= expected THEN "ok" ELSE "no value"

\* The answer is looked at after the connection was closed.
ReadVar ==
    /\ S7At("read")
    /\ \E frame \in Frames(s7.tag) : S7Return(ParseReadVar(frame, Size[s7.tag]), TRUE)
    /\ UNCHANGED confirmed

S7Thread ==
    \/ OpenSocket \/ Confirmed \/ NotConfirmed \/ GiveUp \/ Broken
    \/ Setup \/ ReadModule \/ ReadComponent \/ ReadVar

S7Next == (\E tag \in Tag \cup {Identify} : BeginS7(tag)) \/ S7Thread
S7Spec == S7Init /\ [][S7Next]_s7Vars

-----------------------------------------------------------------------------
(* A call never holds two connections and leaves none behind; it gives up   *)
(* only after both TSAPs, also when the PLC answers the first with a reset  *)
(* (s7_diag.py:309), and says connected only of a PLC that confirmed.       *)
S7Verdict ==
    /\ \A a, b \in sockets : a = b
    /\ S7At("done") =>
          /\ sockets = {}
          /\ ~confirmed => s7.attempt = 2 /\ s7.result \in {"failed", "not confirmed"}
          /\ s7.connected => confirmed
=============================================================================
