---------------------------- MODULE ProfinetScan ----------------------------
(***************************************************************************)
(* backend/tools/profinet_scan.py: one DCP Identify request to all, and    *)
(* until the deadline every response read from a raw socket, the devices   *)
(* kept by MAC address.                                                    *)
(*                                                                         *)
(* A frame is a sequence of blocks: a header of four bytes, `length` bytes *)
(* of data, and one more where that is odd.  Offsets count from the first  *)
(* block.  Of the contents a block has only which field it carries.        *)
(***************************************************************************)
EXTENDS Naturals, Sequences, SequencesExt, FiniteSetsExt

CONSTANTS Station,   \* MAC addresses
          Response   \* frames that come in

\* Bytes a block must have to be read; a name may be of any length.
MinLength == [name |-> 0, id |-> 6, ip |-> 14]
Field == DOMAIN MinLength
BlockType == [field : Field, length : Nat]

ASSUME ResponseAssumption ==
    \A f \in Response :
        /\ f.mac \in Station /\ f.identify \in BOOLEAN   \* an Identify response, or another PROFINET frame
        /\ f.data_len \in Nat /\ f.size \in Nat          \* DCPDataLength; what came of the frame
        /\ f.blocks \in Seq(BlockType)

VARIABLES
    scan,      \* where scan() is: idle, turn, receive, done, raised
    expired,   \* the deadline has passed
    devices,   \* of each MAC the device listed: <<>> or its fields
    heard      \* history: of each MAC the responses, or rather the last one

profinetVars == <<scan, expired, devices, heard>>

ProfinetInit ==
    /\ scan = "idle" /\ expired = FALSE
    /\ devices = [m \in Station |-> <<>>]
    /\ heard = [m \in Station |-> <<>>]

-----------------------------------------------------------------------------
(* The frame as a device lays it out. *)

BlockBytes(b) == 4 + b.length + (b.length % 2)
StartOf(f) ==
    LET start[i \in 1..(Len(f.blocks) + 1)] ==
            IF i = 1 THEN 0 ELSE start[i - 1] + BlockBytes(f.blocks[i - 1])
    IN  start
FrameEnd(f) == Min({f.data_len, f.size})

\* _parse_response: the loop over the blocks, by offset.  Where no block starts
\* (it has lost its place) it reads something else, and nothing of the device.
Following_NoPad(o, length) == o + 4 + length
Following(o, length) == o + 4 + length + (length % 2)

Read(f) ==
    LET start == StartOf(f)
        Step(acc, i) ==
            IF start[i] = acc.at /\ acc.at + 4 <= FrameEnd(f)
                 /\ acc.at + 4 + f.blocks[i].length <= f.size
            THEN [at |-> Following(acc.at, f.blocks[i].length), read |-> acc.read \cup {i}]
            ELSE acc
    IN  FoldLeft(Step, [at |-> 0, read |-> {}], [i \in DOMAIN f.blocks |-> i]).read

\* _parse_device_block, _parse_ip_block: a later block of a field replaces it.
Fields(f, blocks) ==
    LET usable(field) == {i \in blocks : /\ f.blocks[i].field = field
                                         /\ f.blocks[i].length >= MinLength[field]}
    IN  [field \in Field |-> IF usable(field) = {} THEN <<>> ELSE <<Max(usable(field))>>]

ParseResponse(f) == IF f.identify THEN Fields(f, Read(f)) ELSE <<>>

-----------------------------------------------------------------------------
\* The socket, and the request; without them there is no scan.
BeginScan ==
    /\ scan = "idle"
    /\ scan' \in {"turn", "done", "raised"}
    /\ UNCHANGED <<expired, devices, heard>>

\* The deadline is looked at in every turn, whatever came in.
Turn ==
    /\ scan = "turn"
    /\ scan' = IF expired THEN "done" ELSE "receive"
    /\ UNCHANGED <<expired, devices, heard>>

ReceiveFrame(f) ==
    /\ scan = "receive"
    /\ scan' = "turn"
    /\ \/ ParseResponse(f) = <<>> /\ UNCHANGED <<devices, heard>>
       \/ /\ ParseResponse(f) # <<>>
          /\ devices' = [devices EXCEPT ![f.mac] = ParseResponse(f)]
          /\ heard' = [heard EXCEPT ![f.mac] = <<f>>]
    /\ UNCHANGED expired

\* A quarter of a second without a frame.
Silence ==
    /\ scan = "receive"
    /\ scan' = "turn"
    /\ UNCHANGED <<expired, devices, heard>>

\* recvfrom() raises when eth0 goes down: nobody catches it.
PortDown ==
    /\ scan = "receive"
    /\ scan' = "raised"
    /\ UNCHANGED <<expired, devices, heard>>

DeadlinePasses ==
    /\ scan \in {"turn", "receive"} /\ ~expired
    /\ expired' = TRUE
    /\ UNCHANGED <<scan, devices, heard>>

ProfinetThread == Turn \/ Silence \/ PortDown \/ \E f \in Response : ReceiveFrame(f)
ProfinetNext == BeginScan \/ ProfinetThread \/ DeadlinePasses

ProfinetSpec == ProfinetInit /\ [][ProfinetNext]_profinetVars

-----------------------------------------------------------------------------
\* The blocks that are there as a whole, and begin within the length announced.
Whole(f) ==
    {i \in DOMAIN f.blocks :
        /\ StartOf(f)[i] + 4 <= FrameEnd(f)
        /\ StartOf(f)[i] + 4 + f.blocks[i].length <= f.size}

(* A device is listed once, with the fields of its last response: all that  *)
(* came whole, also after blocks of odd length and in a frame that was cut  *)
(* (profinet_scan.py:276-289), and none that did not come.                  *)
ListedAsSent ==
    \A m \in Station :
        devices[m] = IF heard[m] = <<>> THEN <<>>
                     ELSE Fields(heard[m][1], Whole(heard[m][1]))
=============================================================================
