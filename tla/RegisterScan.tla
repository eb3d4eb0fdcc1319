---------------------------- MODULE RegisterScan ----------------------------
(***************************************************************************)
(* backend/tools/modbus_register_scan.py: which addresses of a range can   *)
(* be read, by block reads that are bisected where one fails.              *)
(*                                                                         *)
(* The recursion of _probe is a stack: todo[r] holds the blocks of the     *)
(* calls still to be made, leftmost first (None before there is a thread), *)
(* found[r] the segments returned so far.  A segment's `readable` and      *)
(* `message` are one field, outcome.                                       *)
(***************************************************************************)
EXTENDS ToolJob, Integers, Sequences, SequencesExt, FiniteSetsExt

CONSTANTS
    StartAddress, EndAddress,  \* the range asked for
    MaxQuantity,               \* _MAX_QUANTITY of the function code
    Devices,                   \* the devices: which addresses each one has
    Failures                   \* {"timeout"}, or {} for a link that never fails

Addresses == StartAddress..EndAddress

ASSUME RangeAssumption ==
    /\ StartAddress \in Nat /\ EndAddress \in Nat /\ StartAddress <= EndAddress
    /\ MaxQuantity \in Nat \ {0}
    /\ Devices \subseteq [Addresses -> BOOLEAN]
    /\ Failures \subseteq {"timeout"}

VARIABLES
    device,              \* the device at the other end
    todo, found,         \* the thread's stack and results
    segments, progress,  \* _state
    requests             \* history: reads sent by the latest scan

scanVars == <<device, todo, found, segments, progress, requests>>
allVars == <<toolVars, scanVars>>

Total == EndAddress - StartAddress + 1
Quantity(b) == b[2] - b[1] + 1
Segment(b, outcome) == [start |-> b[1], end |-> b[2], outcome |-> outcome]
Readable(outcome) == outcome = "readable"

\* A block too large for one read is cut into as many full reads as fit.
Chunks(b) ==
    [i \in 1..((Quantity(b) + MaxQuantity - 1) \div MaxQuantity) |->
        <<b[1] + (i - 1) * MaxQuantity, Min({b[1] + i * MaxQuantity - 1, b[2]})>>]

Halves_Overlap(b) ==
    LET mid == b[1] + Quantity(b) \div 2
    IN  <<<<b[1], mid>>, <<mid, b[2]>>>>
Halves(b) ==
    LET mid == b[1] + Quantity(b) \div 2
    IN  <<<<b[1], mid - 1>>, <<mid, b[2]>>>>

\* modbus.read: a device refuses a block that touches an address it does not
\* have; a read may fail to get an answer.
Answers(b) ==
    {IF \A a \in b[1]..b[2] : device[a] THEN "readable" ELSE "exception"} \cup Failures

-----------------------------------------------------------------------------
(* _merge_segments *)

SameRow_ReadableOnly(last, seg) ==
    seg.start = last.end + 1 /\ Readable(seg.outcome) = Readable(last.outcome)
SameRow(last, seg) ==
    seg.start = last.end + 1 /\ seg.outcome = last.outcome

Extend(merged, seg) ==
    IF merged # <<>> /\ SameRow(Last(merged), seg)
    THEN Append(Front(merged), [Last(merged) EXCEPT !.end = seg.end])
    ELSE Append(merged, seg)

\* sorted by "start", segments with the same start staying in their order
Rank(segs, i) ==
    Cardinality({j \in DOMAIN segs : \/ segs[j].start < segs[i].start
                                     \/ segs[j].start = segs[i].start /\ j <= i})
Ordered(segs) ==
    [k \in DOMAIN segs |-> segs[CHOOSE i \in DOMAIN segs : Rank(segs, i) = k]]

MergeSegments(segs) == FoldLeft(Extend, <<>>, Ordered(segs))

-----------------------------------------------------------------------------
ScanInit ==
    /\ Init
    /\ device \in Devices
    /\ todo = [r \in Run |-> None]
    /\ found = [r \in Run |-> <<>>]
    /\ segments = <<>> /\ progress = 0
    /\ requests = 0

Start(r) ==
    /\ StartThread(r)
    /\ segments' = <<>> /\ progress' = 0 /\ requests' = 0
    /\ todo' = [todo EXCEPT ![r] = <<<<StartAddress, EndAddress>>>>]
    /\ UNCHANGED <<device, found>>

Stop == StopThread /\ UNCHANGED scanVars

Block(r) == Head(todo[r])

\* A call of _probe returns one segment, or is replaced by the calls it makes.
Return(r, outcome) ==
    /\ found' = [found EXCEPT ![r] = Append(@, Segment(Block(r), outcome))]
    /\ todo' = [todo EXCEPT ![r] = Tail(@)]
Recurse(r, blocks) ==
    /\ todo' = [todo EXCEPT ![r] = blocks \o Tail(@)]
    /\ UNCHANGED found

\* A call of _probe up to its modbus.read: the look at scan_id, the chunks.
Probe(r) ==
    /\ pc[r] = "read" /\ todo[r] # <<>>
    /\ \/ /\ ~Current(r)
          /\ Return(r, "stopped")
          /\ UNCHANGED <<toolVars, requests>>
       \/ /\ Current(r) /\ Quantity(Block(r)) > MaxQuantity
          /\ Recurse(r, Chunks(Block(r)))
          /\ UNCHANGED <<toolVars, requests>>
       \/ /\ Quantity(Block(r)) <= MaxQuantity
          /\ Proceed(r)
          /\ requests' = requests + 1
          /\ UNCHANGED <<todo, found>>
    /\ UNCHANGED <<device, segments, progress>>

\* _bump_progress
Bump_Unguarded(r) ==
    /\ progress' = progress + Quantity(Block(r))
    /\ Report(r, IF Current(r) THEN shown \cup {r} ELSE shown)
Bump(r) ==
    \/ /\ Current(r)
       /\ progress' = progress + Quantity(Block(r))
       /\ Report(r, shown \cup {r})
    \/ ~Current(r) /\ Report(r, shown) /\ UNCHANGED progress

\* The rest of _probe, once the answer is there: only a Modbus exception for
\* more than one address is bisected.
Answer(r) ==
    /\ pc[r] = "await"
    /\ \E a \in Answers(Block(r)) :
          IF a = "exception" /\ Quantity(Block(r)) > 1
          THEN Recurse(r, Halves(Block(r))) /\ Report(r, shown) /\ UNCHANGED progress
          ELSE Return(r, a) /\ Bump(r)
    /\ UNCHANGED <<device, segments, requests>>

\* The end of _run_scan.
Publish(r) ==
    \/ Current(r) /\ End(r, {shown \cup {r}}) /\ segments' = MergeSegments(found[r])
    \/ ~Current(r) /\ Leave(r) /\ UNCHANGED segments

ScanEnd(r) ==
    /\ pc[r] = "read" /\ todo[r] = <<>>
    /\ Publish(r)
    /\ found' = [found EXCEPT ![r] = <<>>]
    /\ UNCHANGED <<device, todo, progress, requests>>

Thread(r) == Probe(r) \/ Answer(r) \/ ScanEnd(r)

ScanNext == (\E r \in Run : Start(r) \/ Thread(r)) \/ Stop
ScanSpec == ScanInit /\ [][ScanNext]_allVars /\ \A r \in Run : WF_allVars(Thread(r))

-----------------------------------------------------------------------------
Tiles(spans) ==
    /\ spans # <<>>
    /\ spans[1].start = StartAddress /\ Last(spans).end = EndAddress
    /\ \A i \in DOMAIN spans : spans[i].start <= spans[i].end
    /\ \A i \in 1..(Len(spans) - 1) : spans[i + 1].start = spans[i].end + 1

Pending(r) == [i \in DOMAIN todo[r] |-> Segment(todo[r][i], "pending")]

\* Chunking, bisecting and stopping never lose an address nor look at one twice:
\* what has been found and what is still to be probed tile the range.
CoveredOnce ==
    \A r \in Run : Working(r) /\ todo[r] # None => Tiles(found[r] \o Pending(r))

\* The progress shown is what the current scan has covered, though a superseded
\* one may get its answers later; a scan that has ended has covered it all.
ProgressExact ==
    LET covered == UNION {seg.start..seg.end : seg \in ToSet(found[latest])}
    IN  /\ running => progress = Cardinality(covered)
        /\ segments # <<>> => progress = Total

\* A published result says of every address once whether the device has it (or
\* that nobody answered), each row is as long as it can be, and no part of it
\* comes from a scan that was stopped.
ResultExact ==
    segments # <<>> =>
        /\ Tiles(segments)
        /\ \A i \in 1..(Len(segments) - 1) :
              segments[i].outcome # segments[i + 1].outcome
        /\ \A seg \in ToSet(segments) :
              /\ seg.outcome # "stopped"
              /\ \A a \in seg.start..seg.end :
                    /\ seg.outcome = "readable" => device[a]
                    /\ seg.outcome = "exception" => ~device[a]

\* "A device with mostly-readable or mostly-unreadable space gets scanned in
\* O(log n) requests instead of O(n)" (modbus_register_scan.py:7): where the
\* whole range is alike, fewer reads than one per register.
FewerThanOnePerRegister ==
    (\A a, b \in Addresses : device[a] = device[b])
        => requests <= Total
=============================================================================
