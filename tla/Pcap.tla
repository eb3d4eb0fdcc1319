-------------------------------- MODULE Pcap --------------------------------
(***************************************************************************)
(* backend/capture/pcap.py: the on-demand capture on the test port.        *)
(*                                                                         *)
(* Every s \in Session is one start() call and, once that call has         *)
(* committed, the _session_loop thread it launches: the call and the loop  *)
(* never run at the same time, so one program counter pc[s] serves both.   *)
(* Steps of different sessions, of stop(), of delete_capture(), of the     *)
(* tcpdump processes and of the clock interleave freely, except where the  *)
(* code holds _lock.  A block under _lock is one action; the exception is  *)
(* process.wait() under _lock, which keeps `lock` taken across steps.      *)
(*                                                                         *)
(* _state: filename and part are those of `process`, a pair <<s, part>>;   *)
(* started_at is set and cleared in the same blocks as running.  A start() *)
(* refused by its argument checks, status() and a stop() with nothing to   *)
(* stop change no state and are stuttering steps.                          *)
(***************************************************************************)
EXTENDS Integers, Sequences, FiniteSets, SequencesExt, FiniteSetsExt

CONSTANTS
    Session,      \* start() calls (and their session loops)
    None,         \* Python's None; also "_lock is free"
    Durations,    \* inputs: "none" (until stopped), "pending" (a duration given)
    Gaps,         \* inputs: whole seconds between two starts (0: the same second)
    MaxPart,      \* bound: parts (files) per session
    MaxStarts,    \* bound: start() calls in progress at the same time
    MaxDeletes,   \* bound: delete_capture() calls
    OldFiles,     \* captures already in CAPTURE_DIR when the backend starts
    OldSize,      \* their size, each
    RotateBytes,  \* _ROTATE_BYTES, in size units
    MaxTotal,     \* _MAX_TOTAL_BYTES, in size units
    Burst,        \* most a tcpdump writes between two polls of its loop
    MaxSize       \* bound: growth of one file

ASSUME SessionAssumption == None \notin Session
ASSUME BoundAssumption ==
    /\ Durations \subseteq {"none", "pending"}
    /\ Gaps \subseteq Nat
    /\ MaxPart \in Nat \ {0}
    /\ MaxStarts \in Nat \ {0}
    /\ MaxDeletes \in Nat
    /\ OldSize \in Nat
    /\ RotateBytes \in Nat \ {0}
    /\ MaxTotal \in Nat
    /\ Burst \in Nat
    /\ MaxSize \in Nat

Part == 1..MaxPart
Process == Session \X Part      \* a tcpdump: the one session s spawned for part k
Inode == Process \cup OldFiles  \* a file, named after the tcpdump that created it

VARIABLES
    \* _state
    running, process, session_id, stop_requested,
    \* _lock
    lock,
    \* locals of start() and of _session_loop, per session
    pc, id, part, deadline, finishing, snap, todo, total,
    \* the tcpdump processes
    proc, late,
    \* the clock (whole seconds) and the directory
    now, stamp, dir, size, out, deletes

state == <<running, process, session_id, stop_requested>>
locals == <<id, part, deadline, finishing>>
scan == <<snap, todo, total>>
files == <<now, stamp, dir, size, out, deletes>>
vars == <<state, lock, pc, locals, scan, proc, late, files>>

-----------------------------------------------------------------------------
(* tcpdump processes and signals. *)

Alive(p) == proc[p] \in {"live", "term"}

\* send_signal(SIGTERM): nothing happens to a process that has exited.
Terminate(p) == [proc EXCEPT ![p] = IF @ = "live" THEN "term" ELSE @]

\* The tcpdump that the thread of s holds in its variable `process`.
Own(s) == <<s, part[s]>>

(* The directory, in the order of mtime.  Two files may bear the same name: *)
(* the name of a part is the second its start() ran in and its number.      *)

Name(i) == IF i \in OldFiles THEN i ELSE <<stamp[i[1]], i[2]>>
Listed == {Name(i) : i \in ToSet(dir)}
At(name) == {i \in ToSet(dir) : Name(i) = name}
SizeOf(i) == size[i]
Total(inodes) == MapThenSumSet(SizeOf, inodes)
Drop(name) == SelectSeq(dir, LAMBDA i : Name(i) # name)

\* A tcpdump opens its -w file: a new file, or the file of that name truncated.
Open(s, k, second) ==
    LET same == {i \in ToSet(dir) : Name(i) = <<second, k>>}
        i == IF same = {} THEN <<s, k>> ELSE CHOOSE j \in same : TRUE
    IN  /\ dir' = Append(SelectSeq(dir, LAMBDA j : j # i), i)
        /\ size' = [size EXCEPT ![i] = 0]
        /\ out' = [out EXCEPT ![s] = i]

Pruning == {"glob", "sort", "unlink"}
Starting(s) == \/ pc[s] \in {"spawn", "settle"}
               \/ pc[s] \in Pruning /\ part[s] = 0
Looping(s) == \/ pc[s] \in {"poll", "reap", "finish",
                            "respawn", "rotate", "reapLocked"}
              \/ pc[s] \in Pruning /\ part[s] > 0
Goto(s, label) == pc' = [pc EXCEPT ![s] = label]
Current_Always(s) == TRUE
Current(s) == id[s] = session_id

-----------------------------------------------------------------------------
Init ==
    /\ running = FALSE /\ process = None /\ session_id = 0
    /\ stop_requested = FALSE /\ lock = None
    /\ pc = [s \in Session |-> "idle"]
    /\ id = [s \in Session |-> 0]
    /\ part = [s \in Session |-> 0]
    /\ deadline = [s \in Session |-> "none"]
    /\ finishing = [s \in Session |-> FALSE]
    /\ snap = [s \in Session |-> {}]
    /\ todo = [s \in Session |-> <<>>]
    /\ total = [s \in Session |-> 0]
    /\ proc = [p \in Process |-> "none"]
    /\ late = [s \in Session |-> 0]
    /\ now = 1
    /\ stamp = [s \in Session |-> 0]
    /\ dir = SetToSeq(OldFiles)
    /\ size = [i \in Inode |-> IF i \in OldFiles THEN OldSize ELSE 0]
    /\ out = [s \in Session |-> None]
    /\ deletes = 0

-----------------------------------------------------------------------------
(* start() *)

NewId_NotBumped == session_id
NewId == session_id + 1

\* The first block under _lock: terminate the running capture, compute the
\* new session id (without storing it), with or without a duration.
Begin(s) ==
    /\ pc[s] = "idle" /\ lock = None
    /\ Cardinality({t \in Session : Starting(t)}) < MaxStarts
    /\ proc' = IF process # None /\ running THEN Terminate(process) ELSE proc
    /\ id' = [id EXCEPT ![s] = NewId]
    /\ \E d \in Durations : deadline' = [deadline EXCEPT ![s] = d]
    /\ Goto(s, "glob")
    /\ UNCHANGED <<state, lock, part, finishing, scan, late, files>>

\* The second in the file name is read and the first tcpdump is spawned.
Spawn(s) ==
    /\ pc[s] = "spawn"
    /\ \E g \in Gaps : now' = now + g
    /\ stamp' = [stamp EXCEPT ![s] = now']
    /\ \/ \* _spawn returned None
          /\ Goto(s, "done")
          /\ UNCHANGED <<part, proc, dir, size, out>>
       \/ \* bad filter or interface: tcpdump exits before it opens its file
          /\ part' = [part EXCEPT ![s] = 1]
          /\ proc' = [proc EXCEPT ![<<s, 1>>] = "dead"]
          /\ Goto(s, "settle")
          /\ UNCHANGED <<dir, size, out>>
       \/ /\ part' = [part EXCEPT ![s] = 1]
          /\ proc' = [proc EXCEPT ![<<s, 1>>] = "live"]
          /\ Open(s, 1, now')
          /\ Goto(s, "settle")
    /\ UNCHANGED <<state, lock, id, deadline, finishing, scan, late, deletes>>

\* After the 0.3 s sleep: tcpdump is gone and start() reports the error, ...
Refused(s) ==
    /\ pc[s] = "settle"
    /\ ~Alive(Own(s))
    /\ Goto(s, "done")
    /\ UNCHANGED <<state, lock, locals, scan, proc, late, files>>

\* ... or the session is committed under _lock and its loop is launched.
Commit(s) ==
    /\ pc[s] = "settle" /\ lock = None
    /\ Alive(Own(s))
    /\ running' = TRUE
    /\ process' = Own(s)
    /\ session_id' = id[s]
    /\ stop_requested' = FALSE
    /\ Goto(s, "poll")
    /\ UNCHANGED <<lock, locals, scan, proc, late, files>>

-----------------------------------------------------------------------------
(* _prune_oldest(protect=None), as start() and the loop call it *)

OverCap_Doubled(s) == total[s] > 2 * MaxTotal
OverCap(s) == total[s] > MaxTotal

\* sorted(..., key=st_mtime): dir is kept in the order of mtime.
Oldest_Last(seq) == Reverse(seq)
OldestFirst(seq) == seq

Pruned(s) == Goto(s, IF part[s] = 0 THEN "spawn" ELSE "finish")

Glob(s) ==
    /\ pc[s] = "glob"
    /\ snap' = [snap EXCEPT ![s] = Listed]
    /\ Goto(s, "sort")
    /\ UNCHANGED <<state, lock, locals, todo, total, proc, late, files>>

\* sorted(..., key=stat) gives up when a name has vanished since the glob.
Sort(s) ==
    /\ pc[s] = "sort"
    /\ snap' = [snap EXCEPT ![s] = {}]
    /\ IF snap[s] \subseteq Listed
       THEN LET found == OldestFirst(SelectSeq(dir, LAMBDA i : Name(i) \in snap[s]))
            IN  /\ todo' = [todo EXCEPT ![s] = [j \in DOMAIN found |-> Name(found[j])]]
                /\ total' = [total EXCEPT ![s] = Total(ToSet(found))]
                /\ Goto(s, "unlink")
       ELSE Pruned(s) /\ UNCHANGED <<todo, total>>
    /\ UNCHANGED <<state, lock, locals, proc, late, files>>

\* One round of the loop over the sorted names; a name that is gone raises
\* OSError and leaves `total` as it was.
Unlink(s) ==
    /\ pc[s] = "unlink"
    /\ todo[s] # <<>> /\ OverCap(s)
    /\ LET name == Head(todo[s])
       IN  /\ dir' = Drop(name)
           /\ total' = [total EXCEPT ![s] = @ - Total(At(name))]
    /\ todo' = [todo EXCEPT ![s] = Tail(@)]
    /\ UNCHANGED <<state, lock, pc, locals, snap, proc, late,
                   now, stamp, size, out, deletes>>

PruneEnd(s) ==
    /\ pc[s] = "unlink"
    /\ todo[s] = <<>> \/ ~OverCap(s)
    /\ todo' = [todo EXCEPT ![s] = <<>>]
    /\ total' = [total EXCEPT ![s] = 0]
    /\ Pruned(s)
    /\ UNCHANGED <<state, lock, locals, snap, proc, late, files>>

-----------------------------------------------------------------------------
(* _session_loop() *)

Abandon_Forgets(s) ==
    /\ ~Current(s)
    /\ Goto(s, "done")
    /\ UNCHANGED <<state, lock, proc>>

\* Superseded, seen under _lock: terminate the own tcpdump, then wait for it
\* with _lock held.
Abandon(s) ==
    /\ ~Current(s)
    /\ proc' = Terminate(Own(s))
    /\ lock' = s
    /\ Goto(s, "reapLocked")
    /\ UNCHANGED state

Exited(s) == ~Alive(Own(s))
TimedOut_FirstPart(s) == deadline[s] = "passed" /\ part[s] = 1
TimedOut(s) == deadline[s] = "passed"
\* path.stat(): FALSE when the name is gone.
Oversize(s) == \E i \in At(<<stamp[s], part[s]>>) : size[i] >= RotateBytes

Ends_IgnoresStop(s) == TimedOut(s) \/ Exited(s)
Ends(s) == stop_requested \/ TimedOut(s) \/ Exited(s)

\* One look, once a second.  _stop_requested is read under _lock and the rest
\* right after it; a stop() in between only shows at the next look, so reading
\* all of it at once loses no outcome.
Poll(s) ==
    /\ pc[s] = "poll" /\ lock = None
    /\ \/ Abandon(s) /\ UNCHANGED <<finishing, late>>
       \/ /\ Current(s)
          /\ Ends(s) \/ Oversize(s)
          /\ finishing' = [finishing EXCEPT ![s] = Ends(s)]
          /\ proc' = Terminate(Own(s))
          /\ Goto(s, "reap")
          /\ UNCHANGED <<state, lock, late>>
       \/ /\ Current(s)
          /\ ~(Ends(s) \/ Oversize(s))
          /\ late' = [late EXCEPT ![s] = 0]
          /\ UNCHANGED <<state, lock, pc, finishing, proc>>
    /\ UNCHANGED <<id, part, deadline, scan, files>>

ReapLocked(s) ==
    /\ pc[s] = "reapLocked"
    /\ ~Alive(Own(s))
    /\ lock' = None
    /\ Goto(s, "done")
    /\ UNCHANGED <<state, locals, scan, proc, late, files>>

Reap(s) ==
    /\ pc[s] = "reap"
    /\ ~Alive(Own(s))
    /\ Goto(s, "glob")
    /\ UNCHANGED <<state, lock, locals, scan, proc, late, files>>

ClearState_KeepsRunning ==
    /\ process' = None
    /\ UNCHANGED <<running, session_id, stop_requested>>
ClearState ==
    /\ running' = FALSE
    /\ process' = None
    /\ UNCHANGED <<session_id, stop_requested>>

\* After the prune, under _lock: leave, finish the session, or rotate.
Finish(s) ==
    /\ pc[s] = "finish" /\ lock = None
    /\ \/ ~Current(s) /\ Goto(s, "done") /\ UNCHANGED state
       \/ Current(s) /\ finishing[s] /\ Goto(s, "done") /\ ClearState
       \/ Current(s) /\ ~finishing[s] /\ Goto(s, "respawn") /\ UNCHANGED state
    /\ finishing' = [finishing EXCEPT ![s] = FALSE]
    /\ UNCHANGED <<lock, id, part, deadline, scan, proc, late, files>>

\* The next part is spawned outside _lock; it may fail (process is None).
Respawn(s) ==
    /\ pc[s] = "respawn"
    /\ part[s] < MaxPart
    /\ part' = [part EXCEPT ![s] = @ + 1]
    /\ LET k == part[s] + 1
       IN  \/ UNCHANGED <<proc, dir, size, out>>
           \/ /\ proc' = [proc EXCEPT ![<<s, k>>] = "live"]
              /\ Open(s, k, stamp[s])
    /\ late' = [late EXCEPT ![s] = 0]
    /\ Goto(s, "rotate")
    /\ UNCHANGED <<state, lock, id, deadline, finishing, scan,
                   now, stamp, deletes>>

\* The second block under _lock of a rotation.
Rotate(s) ==
    /\ pc[s] = "rotate" /\ lock = None
    /\ LET spawned == proc[Own(s)] # "none"
       IN  \/ spawned /\ Abandon(s)
           \/ /\ ~spawned /\ ~Current(s)
              /\ Goto(s, "done")
              /\ UNCHANGED <<state, lock, proc>>
           \/ /\ ~spawned /\ Current(s)
              /\ ClearState
              /\ Goto(s, "done")
              /\ UNCHANGED <<lock, proc>>
           \/ /\ spawned /\ Current(s)
              /\ process' = Own(s)
              /\ Goto(s, "poll")
              /\ UNCHANGED <<running, session_id, stop_requested, lock, proc>>
    /\ UNCHANGED <<id, part, deadline, finishing, scan, late, files>>

-----------------------------------------------------------------------------
(* stop() and delete_capture() *)

Stop ==
    /\ lock = None
    /\ process # None /\ running
    /\ stop_requested' = TRUE
    /\ proc' = Terminate(process)
    /\ UNCHANGED <<running, process, session_id, lock, pc, locals, scan, late, files>>

Delete(name) ==
    /\ deletes < MaxDeletes
    /\ name \in Listed
    /\ dir' = Drop(name)
    /\ deletes' = deletes + 1
    /\ UNCHANGED <<state, lock, pc, locals, scan, proc, late, now, stamp, size, out>>

-----------------------------------------------------------------------------
(* The environment: tcpdump processes and the monotonic clock *)

\* A live tcpdump appends to the file it has open (-U: packet by packet).  Its
\* loop looks once a second, so it writes at most Burst between two looks; the
\* last part a session may have stays below the rotation size.
Write(s) ==
    /\ part[s] > 0 /\ proc[Own(s)] = "live"
    /\ late[s] < Burst
    /\ LET i == out[s]
       IN  /\ size[i] < MaxSize
           /\ part[s] = MaxPart => size[i] + 1 < RotateBytes
           /\ size' = [size EXCEPT ![i] = @ + 1]
           /\ dir' = IF i \in ToSet(dir) THEN Append(SelectSeq(dir, LAMBDA j : j # i), i)
                                         ELSE dir
    /\ late' = [late EXCEPT ![s] = @ + 1]
    /\ UNCHANGED <<state, lock, pc, locals, scan, proc, now, stamp, out, deletes>>

\* A tcpdump that got SIGTERM closes its file and exits, ...
Exit(p) ==
    /\ proc[p] = "term"
    /\ proc' = [proc EXCEPT ![p] = "dead"]
    /\ UNCHANGED <<state, lock, pc, locals, scan, late, files>>

\* ... and one may exit on its own (interface gone, disk full).
Crash(p) ==
    /\ proc[p] = "live"
    /\ proc' = [proc EXCEPT ![p] = "dead"]
    /\ UNCHANGED <<state, lock, pc, locals, scan, late, files>>

DeadlinePasses(s) ==
    /\ Looping(s) /\ deadline[s] = "pending"
    /\ deadline' = [deadline EXCEPT ![s] = "passed"]
    /\ UNCHANGED <<state, lock, pc, id, part, finishing, scan, proc, late, files>>

-----------------------------------------------------------------------------
\* The steps that the thread of s takes by itself once start() is called.
Thread(s) ==
    \/ Spawn(s) \/ Refused(s) \/ Commit(s)
    \/ Glob(s) \/ Sort(s) \/ Unlink(s) \/ PruneEnd(s)
    \/ Poll(s) \/ ReapLocked(s) \/ Reap(s)
    \/ Finish(s) \/ Respawn(s) \/ Rotate(s)

Next ==
    \/ \E s \in Session : Begin(s) \/ Thread(s) \/ Write(s) \/ DeadlinePasses(s)
    \/ \E p \in Process : Exit(p) \/ Crash(p)
    \/ Stop
    \/ \E name \in Listed : Delete(name)

Spec == Init /\ [][Next]_vars

\* Every thread keeps running, a terminated tcpdump exits, time passes.  No
\* fairness on user requests, on traffic or on a tcpdump that dies by itself.
Fairness ==
    /\ \A s \in Session : WF_vars(Thread(s)) /\ WF_vars(DeadlinePasses(s))
    /\ \A p \in Process : WF_vars(Exit(p))

FairSpec == Spec /\ Fairness

-----------------------------------------------------------------------------
PCs == {"idle", "glob", "sort", "unlink", "spawn", "settle", "poll",
        "reap", "finish", "respawn", "rotate", "reapLocked", "done"}

\* The part of the type invariant that the control flow needs.
ControlTypeOK ==
    /\ running \in BOOLEAN
    /\ process \in Process \cup {None}
    /\ session_id \in Nat
    /\ stop_requested \in BOOLEAN
    /\ lock \in Session \cup {None}
    /\ pc \in [Session -> PCs]
    /\ id \in [Session -> Nat]
    /\ part \in [Session -> 0..MaxPart]
    /\ deadline \in [Session -> {"none", "pending", "passed"}]
    /\ finishing \in [Session -> BOOLEAN]
    /\ proc \in [Process -> {"none", "live", "term", "dead"}]

\* Types of everything the capture service keeps.
TypeOK ==
    /\ ControlTypeOK
    /\ late \in [Session -> 0..Burst]
    /\ now \in Nat /\ deletes \in 0..MaxDeletes
    /\ stamp \in [Session -> Nat]
    /\ size \in [Inode -> Nat]
    /\ out \in [Session -> Inode \cup {None}]
    /\ dir \in Seq(Inode) /\ IsInjective(dir)
    /\ total \in [Session -> Nat]

\* Every tcpdump that is still running is the current one of a thread that will
\* look at it again: no path through start() or _session_loop returns, or goes
\* on to the next part, and leaves a tcpdump behind.
Supervising == {"settle", "poll", "reap", "rotate", "reapLocked"}
NoOrphanTcpdump ==
    \A p \in Process : Alive(p) => p = Own(p[1]) /\ pc[p[1]] \in Supervising

\* status() never claims a capture that nobody is running: while `running` is
\* set there is a session loop that holds the stored session id, so the flag is
\* cleared by the end of that loop or taken over by a newer session.
RunningHasLoop ==
    running => \E s \in Session : Looping(s) /\ Current(s)

\* At most one session loop takes itself for the current one: "a superseded
\* session's thread exits cleanly" (pcap.py:64).
OneCurrentSession ==
    \A s, t \in Session :
        Looping(s) /\ Looping(t) /\ Current(s) /\ Current(t) => s = t

\* A session loop that would go on capturing is the one status() shows and
\* stop() reaches: the flag is set and `process` is a tcpdump of this session.
NoHiddenCapture ==
    \A s \in Session :
        Looping(s) /\ Current(s) => running /\ process \in {s} \X Part

\* A stop() is not lost, whatever it races with (a rotation whose old tcpdump
\* has already exited, the end of the duration, another start()).
StopCompletes ==
    running /\ stop_requested ~> ~running \/ ~stop_requested

\* A superseded session loop ends, although it waits for its tcpdump with
\* _lock held.
SupersededEnds ==
    \A s \in Session : Looping(s) /\ id[s] < session_id ~> pc[s] = "done"

\* A capture that was given a duration ends by itself, over all its rotations.
TimedCaptureEnds ==
    \A s \in Session : Looping(s) /\ deadline[s] # "none" ~> pc[s] = "done"

-----------------------------------------------------------------------------
(* Storage *)

\* Files a tcpdump holds open: their bytes are on the SD card even when their
\* name is gone.
Held == {out[s] : s \in {t \in Session : part[t] > 0 /\ Alive(Own(t)) /\ out[t] # None}}

\* A file is rotated at the first look that finds it too big.
MaxFile == RotateBytes - 1 + Burst

\* "Never deletes the file a capture is actively writing to right now"
\* (pcap.py:31): no unlink of a prune hits the file of a live tcpdump, although
\* no caller passes `protect`.  It is the newest, and a prune stops before it
\* unless most of what it has summed up vanishes meanwhile (pcap.py:114).
ActiveFileNotPruned ==
    [][\A s, t \in Session :
         Unlink(s) /\ part[t] > 0 /\ proc[Own(t)] = "live"
            => (out[t] \in ToSet(dir) => out[t] \in ToSet(dir'))]_vars

\* What the captures occupy on the SD card is bounded by the total cap and two
\* files, the one being written and the one of a session it superseded ("can't
\* silently fill the SD card", README.md), although a prune is skipped when it
\* meets another one and a superseded loop leaves without pruning.
DiskBounded == Total(ToSet(dir) \cup Held) <= MaxTotal + 2 * MaxFile
=============================================================================
