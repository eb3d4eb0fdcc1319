# LanPI in TLA+

TLA+ models of LanPI, a Raspberry Pi network diagnostics device: a Python
backend (FastAPI) that runs captures, scans and passive listeners on the test
port `eth0`, a few shell scripts that keep the management Wi-Fi reachable, and a
web frontend. The modules follow the source under `src/`; `PROJECT.json` maps
every definition to the lines it models.

Contents: [inventory](#inventory) · [modules](#modules) · [runs](#runs) ·
[findings](#findings) · [proofs](#proofs) · [limits](#limits) · [plan](#plan)

## Inventory

Every API request runs in a thread of FastAPI's pool, so any two operations of a
component may run at the same time. A component protects its module-level
`_state` with one `_lock`, but most operations do their slow part (spawning,
sleeping, waiting, a network read) outside it. That is where the hard behaviours
are.

| Component | State | Operations | Interacts with | Hard behaviours | What makes it correct |
|---|---|---|---|---|---|
| Packet capture, `capture/pcap.py` | `_state`, capture directory, tcpdump children | `start`, `stop`, `delete_capture`, session loop (rotate, prune) | tcpdump, SD card | loop, requests and two pruners interleave; wait with `_lock` held; rotation races with stop and start | no tcpdump without supervision, honest `running`, one current session, stops not lost, disk use bounded, active file never pruned |
| Dispatcher, `capture/dispatcher.py` | handlers, `_started`, `_health` | `register_handler`, `start_listener`, capture loop, fan-out | tcpdump, seven consumers | concurrent starts, handler raising, tcpdump dying anywhere | one tcpdump, each packet once to each consumer, loss reported and retried |
| Ping, MTR, port scan, IP scan, `tools/*.py` | `_state`, child process | `start`, `stop`, reader thread | child process | a newer start supersedes a reader that still has output | only the latest run is shown, `running` belongs to it, interrupted readers end |
| Modbus polling and unit scan | `_state` | `start`, `stop`, worker thread | Modbus client | an answer arrives after stop or restart | as above |
| Modbus register scan | `_state`, recursion of `_probe` | `start`, `stop`, bisection, merge | Modbus client | supersession inside the recursion, odd blocks | every address once, exact rows, exact progress, termination |
| LLDP, CDP, MNDP tables | `_neighbors` | packet handler, `get_neighbors` | dispatcher | cap, ageing by wall clock, broken TLVs | a fresh neighbor is listed, with what its last packet said |
| IP conflict, DHCP monitor, traffic statistics, Modbus traffic | dictionaries with caps | packet handler, read, `reset` | dispatcher | caps, expiry, reset against recording, reused transaction ids | no phantom and no masked entry, counters consistent |
| Link status and history, `network/link.py`, `link_history.py` | deque, last snapshot | poll loop, `reset` | `ip`, `ethtool` | a sample is two commands outside the lock; either may fail | a state of the link that lasts becomes the last event |
| Test port mode, `network/eth0_mode.py` | NetworkManager profile | `set_passive`, `set_dhcp`, `set_static`, `get_mode` | nmcli, NetworkManager | several commands without a lock, an ignored result, a command given up while its effect goes on | one whole mode in force, "ok" means applied, the report is what is applied |
| Wi-Fi and fallback AP, `network/wifi.py`, `network/ap.py`, `system/*.sh` | wlan0, hostapd, dnsmasq | `add_known`, `retry_known`, `set_config`, monitor | NetworkManager, systemd | monitor and requests switch one radio without a lock, steps fail | the device stays reachable |
| Modbus client, `tools/modbus.py` | shared transaction counter, one connection per call | `read`, `read_device_identification` | devices | repeated and late answers, a device that never stops announcing more | the answer belongs to the request, every object is collected, the call ends |
| S7 diagnostics, `tools/s7_diag.py` | one connection per attempt | `identify`, `read_tag` | PLCs | resets in place of refusals, answers missing at any point | both TSAPs tried, every socket closed on every way out |
| PROFINET scan, `tools/profinet_scan.py` | devices by MAC | `scan` | raw socket | cut frames, odd lengths, steady traffic until a deadline | each device once, with the fields that came whole; the scan ends |
| Pages that follow a job, `frontend/*.js` | timer, what is shown | poll, start, stop, reload | HTTP API | polls, starts and stops or their answers are lost | a page learns of the end of the job it shows |
| API routes, rest of the frontend, shell helpers, one-shot tools | none or presentation | pass on | | | |

`PROJECT.json` lists under `hazards` what in this code a test would hardly reach,
with the property that covers it.

## Modules

| Module | Models |
|---|---|
| `Pcap` | `capture/pcap.py` |
| `PcapProofs` | theorems about `Pcap` |
| `Job` | the abstract promise of a background tool: one run at a time, only its results, ended once |
| `ToolJob` | what the background tools share: `_state`, supersession key, child process, thread |
| `PortScanner`, `IpScanner`, `Mtr`, `Ping`, `ModbusPoll`, `ModbusUnitScan` | the tools, each an extension of `ToolJob` |
| `RegisterScan` | `tools/modbus_register_scan.py`, an extension of `ToolJob` with the bisection |
| `ToolProofs` | theorems about these seven and `Job` |
| `ModbusClient`, `S7Client`, `ProfinetScan` | `tools/modbus.py`, `tools/s7_diag.py`, `tools/profinet_scan.py`: one call and the device at the other end |
| `ClientProofs` | theorems about these three |
| `StatusPage` | how the pages of `frontend/` follow a background job over a network that loses and reorders requests |
| `MCTools` | all of `tools/` and the page in one model; they share nothing, so a behaviour is that of one of them |
| `Dispatcher` | `capture/dispatcher.py` and the `start_listener()` of its consumers |
| `DispatcherProofs` | theorems about `Dispatcher` |
| `Listener` | what the consumers share: a packet and the time its handler read, the wall clock |
| `Neighbors`, `IpConflict`, `DhcpMonitor`, `TrafficStats`, `ModbusTraffic` | the consumers: `discovery/lldp.py`, `cdp.py`, `mndp.py` (one module, three parsers) and `capture/*.py`, each an extension of `Listener` |
| `MCTrackers` | the consumers in one model; they share no table, so a behaviour is that of one |
| `ModbusTrafficProofs`, `TrackerProofs` | theorems about the consumers |
| `WifiFallback` | `network/wifi.py`, `network/ap.py`, `system/lanpi-wifi-fallback.sh` and the two switch scripts |
| `TestPort` | the abstract promise of the test port: one whole mode at a time, which somebody asked for |
| `Eth0Mode` | `network/eth0_mode.py` command by command, with NetworkManager; implements `TestPort` |
| `LinkHistory` | `network/link_history.py` and the sampling of `network/link.py` |
| `NetworkProofs` | theorems about `Eth0Mode`, `TestPort` and `WifiFallback` |
| `MCNetwork` | `network/` in one model; the parts share nothing, so a behaviour is that of one of them |
| `FoldTheorems` | what the proofs need of recursion over finite sets and sequences: induction, sums, folds |

**Conventions.** A block under `_lock` is one action. What the code does between
two blocks is a step of its own, so requests, threads, children and the clock
interleave there. Refused arguments and reads (`status()`, `list_captures()`)
change nothing and are stuttering steps. An operator with an underscore in its
name (`NewId_NotBumped`) is a plausible bug in the operator it stands before; no
specification uses it, and replacing the operator by it makes the named
property fail.

**`Pcap`.** A session `s` is a `start()` call and the loop it launches; `pc[s]`
runs through `glob sort unlink spawn settle` (the call), `poll reap glob sort
unlink finish respawn rotate` (the loop) and `reapLocked` (waiting for a
superseded tcpdump with `_lock` taken). A tcpdump is a pair of session and part,
so `filename`, `part` and `process` of `_state` are one variable. Files are
inodes in a directory kept in the order of mtime; their names are the second and
the part number, so two starts in one second share a name, and a file whose name
is gone stays on the card as long as a tcpdump has it open. Sizes are small
units. One poll is one action: `_stop_requested` is read under `_lock` and the
rest right after it, and a stop between the two shows at the next poll.

**`ToolJob` and the tools.** Results are abstracted to the runs they come from
(`shown`), which is all the properties tell apart. The tools differ in the key
that tells a superseded reader (`scan_id`, `session_id` or the host), in whether
results appear line by line or at the end, and in what `stop()` does. A thread
between two looks at the key is in `await`: it parses a line or waits for an
answer there. `JobSpec` says that each tool implements `Job` (the mapping is the
identity on `latest`, `running` and `shown`; the rest is hidden).

**`RegisterScan`.** The recursion of `_probe` is an explicit stack of blocks. A
segment's `readable` and `message` are one field. The device refuses a block
that touches an address it lacks; a read may time out. `Ordered` is the stable
sort by start address, by the rank of each segment.

**`Dispatcher`.** Callers run a consumer's `start_listener()` in three steps
(own flag, dispatcher, handler). The capture loop is a thread per caller that
launched one, so that a second loop would show. Packets are numbered as read;
`got[c]` records what a consumer was handed.

**`Listener` and the consumers.** A handler parses a packet and reads the time
(`Receive`), then stores it under `_lock` (`Handle...`). Reads and `reset()` may
run in between. The tables are what the code has, dictionaries: partial functions
from the keys they hold. Where the order of the keys decides which entry is
evicted, an entry also has its place (`since`, the packet that brought its key). A
packet is what its handler distinguishes: TLVs that are whole, cut off, too short
or not understood; a claim; a reply with or without server identifier; a frame
with its ethertype, destination and ports; a Modbus request, response or
exception. `heard`, `claims`, `replies` and `counted` are histories the
properties compare the tables with; no action reads them.

**`WifiFallback`.** Every command of a script is a step of the party that runs
it, and any of them may fail, which ends the script (`set -e`). `at[p]` is the
command a party is at. `AddAddress` leaves the script when the address is there
already, as `ip addr add` does. A `Restart` of hostapd after `set_config()` may
fail too, which leaves it stopped. NetworkManager connects a managed wlan0 to a
network in range by itself.

**`Eth0Mode`.** A request is a sequence of nmcli commands, each one a step;
`profile` is the stored connection, `device` the copy of it that NetworkManager
applies, begun by `connection up` and active some time later. An `up` may be
refused at once: then the profile is rewritten and the device is not (`rejected`
is the history of that). A request whose nmcli is given up after 20 s leaves its
activation behind. The refinement mapping
to `TestPort` is `inForce` (the mode of an active device) and `wanted` (the modes
of open requests, of the profile and of the device). `PortSpec` then says that
interleaved requests cannot mix their settings: what comes into force is DHCP
without a leftover address, or one of the addresses asked for. Every `modify`
writes all settings, and that is what makes it true. `alone` and `quiet` are
histories of what happened during a request or a `get_mode()`.

**`LinkHistory`.** A sample is made of `ip` and `ethtool`, with the link, a failed
command and `reset()` in between. The history may hold states that never were (a
torn sample, a failed command); the property says that it recovers.

**`ModbusClient`.** `wire` holds the answers on their way; the device may answer
any request of the connection, again and in any order, and need not keep to the
protocol. Payloads are what the call distinguishes: values, an exception, a part
of the identification with its more-follows and next-object-id, or unusable.
Other calls take transaction ids at any time. `astray` and `plain` are histories.

**`S7Client`.** `pc` follows the telegrams; at each one the PLC may answer,
answer something else, close or raise an `OSError`. `sockets` are the open ones.
Of a tag the model keeps the type, which gives the length of its value, and not
the address.

**`ProfinetScan`.** Frames are sequences of blocks with their lengths, so that
offsets, padding and cuts are computed and the contents are only the kind of
field. The reference `Whole` says which blocks of a frame are there, from the
layout; the loop finds them by offset.

**`StatusPage`.** A request, its service and the arrival of its answer are three
steps. The requests on their way are a bag: the backend serves them and their
answers arrive in any order. `Lose` drops a request or its answer; after
`StopWaiting` the page has given up on a request that is served all the same.
Three kinds of page differ in what sets and clears the poll timer. The job is
abstract (`active`).

## Runs

All runs are exhaustive for their bounds. Deadlock is not checked where the
system may come to rest: all sessions, runs, packets or requests of the bound are
used up, or there is no tcpdump binary.

| Run | Bounds | Shows |
|---|---|---|
| `pcap_safety` | 2 sessions of 2 parts, one `start()` in progress at a time, same or next second, 1 deletion | `NoOrphanTcpdump`, `RunningHasLoop`, `NoHiddenCapture` |
| `pcap_liveness` | the same without deletion | `StopCompletes`, `SupersededEnds`, `TimedCaptureEnds` |
| `pcap_storage` | 4 old files at the cap, rotation at size 2, 2 sessions of 2 parts in different seconds | `DiskBounded`, `ActiveFileNotPruned` |
| `pcap_overlap` | 2 overlapping `start()` calls | violates `OneCurrentSession` |
| `pcap_delete_active` | 1 session, 1 deletion | violates `DiskBounded` |
| `tools` | 6 tools with 3 runs each and different hosts; 2 register scans of 4 addresses, reads of at most 3, two patchy devices, timeouts; an identification of 3 objects in at most 3 requests, 2 answers on the wire, 1 foreign transaction id, ids modulo 5; tags of 4 types; 2 PROFINET devices, 14 frames; 3 requests of the page on their way | `RunningIsLatest`, `JobSpec`, `CoveredOnce`, `ProgressExact`, `ResultExact`, `AnswersExact`, `S7Verdict`, `ListedAsSent`, `ThreadsEnd`, `PageFollows` |
| `ping_same_host` | ping, 2 runs, one host | violates `OnlyLatestShown` |
| `dispatch` | 3 callers, 2 consumers, 3 packets | `SingleCapture`, `EveryPacketOnce`, `ListeningIsRegistered`, `LossHandled` |
| `register_cost` | 1 scan of 8 addresses, a device that refuses all of them, no timeouts | violates `FewerThanOnePerRegister` |
| `trackers` | 7 listeners, 4 packets, 4 MACs, clock 0 to 2, set back once, caps of 1 or 2, times of 1 | `NeighborsBounded`, `FreshNeighborListed`, `FieldsOfLastPacket`, `ConflictsExact`, `AlarmExact`, `TalkersExact`, `WindowExact`, `PendingTracked`, `RequestsAccounted`, `ResponseTimesInTime` |
| `network` | wlan0: the monitor with its real threshold of 5 checks, 1 request thread with any operations, 3 failing commands. eth0: 2 request threads with any modes, 2 addresses. Link: 2 speeds, 2 events kept, 2 failing commands | `SettledApHasAddress`, `WifiStaysReachable`, `WifiFallbackTakesOver`, `PortSpec`, `OkMeansApplied`, `ReportedInForce`, `HistoryFollowsLink` |
| `eth0_bad_address` | eth0, one of the addresses is refused by nmcli | violates `OkMeansApplied` |

The types of the state are written down as `TypeOK` (or `...TypeOK`) in the
modules; no run is spent on them.

**Why the bounds are enough.** Two sessions give every pair of old and new
capture, and two parts a rotation on either side; the superseded loop can be in
any of its states when the new session commits. Each file may outgrow the
rotation size between two polls (`Burst`), which is what the disk bound depends
on. Three runs of a tool let a second superseded reader meet a third start. Four
addresses with reads of three give a chunk boundary, an odd and an even split.
Three callers for two consumers give two callers for the same one. Four packets
fill every table of the trackers past its cap, with one packet to spare; with
times of 1 and a clock up to 2 an entry can be fresh, at the limit and stale. The
network run has no bound on time or on the number of requests; three failures let
both scripts of one switch and the monitor's repair fail, and two request threads
let every command of one mode change fall between two of the other. Two answers
on the wire are a repeated one and the one awaited; three objects in three
requests reach the cap on requests with an identification that still is complete,
and ids modulo five wrap. The frames have odd lengths before and after the field
in question, a field twice, and cuts inside a header, inside a block and behind
the announced length. Three requests on their way let a click and the
answers to two polls meet, with the job ending between the two services and the
later answer coming first.

**Fairness.** Weak fairness on every thread's own steps (the interpreter keeps
scheduling threads and `_lock` is always released, except while a superseded
tcpdump is being waited for) and on the exit of a signalled child. Time passes,
so a deadline does. None on requests, on traffic, on a child that dies by itself
or on tcpdump staying up. In `WifiFallback` the monitor's loop, the commands of a
script and the steps of an accepted request are weakly fair (each has a timeout);
users, failures, networks and NetworkManager's reconnecting are not. The calls of
the clients go on because their sockets have a timeout, and the deadline of a
PROFINET scan passes. A page's timers fire again and again, polls and clicks
are served, each has its end for the page, and not every answer to a poll is lost
(strong fairness on `Tick`, `Refresh` and `PollsArrive`: an interval fires however
often clicks fill the line, and an outage ends). No order is assumed. Clicks, reloads and the end of a job are not fair.

**Assumptions of the storage run.** `DiskBounded` is the cap plus two files: the
one being written and the one of the session it superseded; a single prune may
be skipped when it meets another one. The bound needs that no active file is
deleted (`pcap_delete_active` shows why). `ActiveFileNotPruned` needs starts in
different seconds: with two starts in one second the file of the old session is
taken over by the new tcpdump, and a prune of the old loop can reach it by its
old place in the list. It also needs that little vanishes under a prune: a name
that somebody else removed raises `OSError`, `total` stays too high by its size
(`pcap.py:110-118`) and the prune goes on to newer files, since no caller passes
`protect`. Once what vanished is as large as the cap less the file being written,
the live file is reached. With the real sizes that takes some 900 MB removed by
requests or by other superseded loops during one prune; in the small sizes of the
run one deletion is enough, so the run has none (`MaxDeletes = 0`), and its two
prunes cannot take that much from each other.

**Assumptions of the trackers run.** `FreshNeighborListed`, `ConflictsExact` and
`WindowExact` are stated for a clock that is not set back: afterwards an entry
from the future looks fresh for longer, and the rate window keeps what stands
behind it. The run does set the clock back, and `NeighborsBounded` and
`ResponseTimesInTime` say what still holds then. A transaction id that is reused
before its answer replaces the awaited request, which is then counted neither as
answered nor as missing; `RequestsAccounted` therefore bounds a sum. CDP packets
with an empty version string raise in the parser and leave the table alone.

**Assumptions of the network run.** `Apart`: `ap-down.sh` of a request and
`ap-up.sh` of the monitor do not overlap. The first takes about two seconds, the
second starts after 25 s without an access point, so only a command that hangs
for that long brings them together. The interleaving of the monitor's `ap-up.sh`
with the waiting and the restoring of a request is unrestricted. With
`Apart = FALSE`, or with two requests that switch at the same time, TLC finds a
state with hostapd active and no address, which neither `is_active()` nor the
monitor tells from a working access point. `ip addr add` fails only because the
address is there (`Fallible` leaves it out): any other failure of it while hostapd
already runs leaves the same state. `OkMeansApplied` is stated for requests that
meet no other one, and the run for addresses nmcli accepts (`Refused = {}`);
`eth0_bad_address` shows why. A `connection modify` that fails for another reason
(no sudo, a timeout) would have the same effect and is left out. `ReportedInForce`
is stated for a `get_mode()` without a mode change or a failed command in between,
and unless the last `connection up` was refused: then the report follows the
rewritten profile and the device keeps the old settings, until the next `up`.

**Assumptions of the tools run.** `PageFollows` is about a Modbus page only while
its timer is set, for there are two ways to show a job without one. The answer to
a start is lost, and a poll shows the job (`frontend/modbus.js:412`). Or two polls
were on their way when the job ended, and the answer "running" arrives behind the
one that cleared the timer: it redraws the page, and nothing but `start` and the
load of the page sets the timer again (lines 375-378, 474-477, 561-564). Such a page
shows the job until it is reloaded. The pages of `frontend/app.js` recover: an
answer "running" sets their timer again, and the capture page loads everything
every five seconds besides.

## Findings

- **Overlapping captures share a session id** (`pcap_overlap`): the id is
  computed in one locked block of `start()` and stored in a later one, with a
  spawn and a 0.3 s sleep in between. Both loops then believe they are current;
  the older one is hidden from `status()` and `stop()`.
- **Deleting the active capture** (`pcap_delete_active`): the loop watches the
  name, which is gone; an untimed capture no longer rotates and its nameless file
  can fill the card.
- **Ping restarted for the same host** (`ping_same_host`): supersession is
  recognised by the host, so the old reader counts its late lines for, and ends,
  the new session. MTR has the same test.
- **Cost of a register scan** (`register_cost`): a range that is refused
  throughout costs 2n-1 reads, not O(log n).
- **A static address that nmcli refuses** (`eth0_bad_address`): `set_static()`
  only looks for a `/`; the failed `modify` is not noticed, `up` brings the
  earlier settings into force and the answer is "eth0 set to static mode".

Met while modelling, without a run of their own: `_open_and_negotiate_cotp` is
documented to re-raise only "if every attempt failed at the connection level"
(`s7_diag.py:311`) but does so if any attempt did and none was confirmed;
`identify()` reports `connected: False` for a timeout after the connection was
confirmed; `read()` of the Modbus client accepts more or fewer values than it
asked for; `recvfrom()` and `send()` of the PROFINET scan may raise when `eth0`
goes down and nobody catches it; `read_tag()` checks only that `byte_offset` is not
negative (`s7_diag.py:438`), so that from byte 2^21 on the three-byte address wraps
(line 160) and another tag is read; a Modbus page that gets a late "running" keeps
showing a job that has ended, and `get_mode()` after a refused `connection up`
reports a mode that is not in force (see the assumptions of both runs);
`README.md:175` describes `never-default`, which
the code replaced by a route metric.

## Proofs

Eight modules hold theorems; each but `FoldTheorems` extends the modules it is about,
and all are checked by TLAPS to the last leaf. All theorems hold for every value of the constants that
satisfies the named `ASSUME`s of the modules: bounds and times are naturals, caps
that must be positive are, `None` is no proper value. What goes beyond that is
named below. A theorem's inductive invariant is a conjunction of named parts, with
a lemma per part (or per group of parts) and a step per action.

**`PcapProofs`**, for any number of sessions, parts and overlapping `start()` calls:
`ControlTypes` (the control part of `TypeOK`), `TcpdumpSupervised`
(`Spec => []NoOrphanTcpdump`), `RunningAnswered` (`[]RunningHasLoop`); with one
`start()` in progress at a time (`MaxStarts = 1`) also `SerialCaptureVisible`
(`[]NoHiddenCapture`), and `pcap_overlap` shows that the restriction cannot be
dropped. The inductive invariant `IInv` adds two facts. `PartMatchesPc` ties the
program counter to the part number; without it a thread about to look at its
tcpdump might have none. `LockHolder` says that `_lock` stays taken only for the
thread that waits for its superseded tcpdump, and that this thread is not current;
without it a commit could make a thread current that is on its way out, and
`running` would lose the loop that answers for it. `SerialCaptureVisible` needs
`FreshIds`: the id of the start in progress is above all others and no two loops
share one.

**`ToolProofs`**, for each of the six tools and any number of runs: `ToolsTyped`,
`RunningAgrees` (`[]RunningIsLatest`) and `ToolsKeepPromise`, the refinement
`ToolSpec(t) => JobSpec`. Every step of every tool is shown to be one of the
disjuncts of `ToolStep`, so that the invariant is shown to be kept once. It says
that a thread whose key is the current one belongs to the latest run and that run
is running (`OwnsState`), and that a running latest run has such a thread
(`RunningWorks`). A superseded thread can never become current again because the
key of a new run is fresh: for a counter, all keys are at most its value
(`CounterInv`); for ping and MTR, whose key is the host, this is the hypothesis
`DistinctHosts`, and `ping_same_host` shows what happens without it.

The register scan has the same two theorems (`RegisterScanRunning`,
`RegisterScanKeepsPromise`) and three of its own, for any range, chunk size, device
and failures: `RangeIsCoveredOnce` (`ScanSpec => []CoveredOnce`), `ProgressIsExact`
(`[]ProgressExact`), `ResultIsExact` (`[]ResultExact`). The invariant `ScanInv` says
of every thread that what it has found tiles the range up to the first block it
still has to probe and those blocks tile the rest (`ThreadTiles`), and that each
segment is `Truthful` about the device. `ChunksTile` and `HalvesTile` show that
chunking and halving keep that. Progress is then the distance from the start of the
range to that block (`Position`), which needs that only the current thread bumps it.
`MergeExact` takes a whole scan through `_merge_segments`: after each segment the
rows tile what was merged so far, and the last one ends where the next segment
starts (`RowsUpTo`).

**`DispatcherProofs`**, for any callers, consumers and packets: `DispatcherTyped`,
`OneCapture` (`[]SingleCapture`), `PacketsOnce` (`[]EveryPacketOnce`). There is one
loop, and only after `_started` is set (`OneLoop`); a consumer is being started by
one caller at most, which has not registered it yet (`StartedOnce`), so no handler
is there twice (`RegisteredOnce`); what is still to be called is the rest of the
copy of the handlers made for this packet (`PendingCopy`), and what a consumer got
is without a gap up to the present packet or, if it is still to be called, to the
one before (`Delivered`).

**`NetworkProofs`**, for any number of requests and addresses: `PortKeepsPromise`
(`EthSpec => PortSpec`, the refinement of `TestPort`), `OkIsApplied` (the action
property `OkMeansApplied`, if `Refused = {}`; `eth0_bad_address` shows why),
`ReportIsInForce` (`ReportedInForce`). The invariant says that profile and device
always hold the settings of a whole mode; that a profile differing from what is
applied is about to be brought up, unless the last `up` was refused (`UpIsDue`),
without which the report could name a mode that never comes; and that what a request wrote is still there as long as
no other one met it (`AloneKept`). `SettledAddress` (`WifiSpec =>
[]SettledApHasAddress`) has the two hypotheses of the network run,
`OneSwitchAtATime` and `AddressCommandsWork`, and otherwise any number of failing
commands. Its core is `AddressDue`: where an access point runs or is about to
start without an address, a party is at the command that adds it.

**`ClientProofs`**: `S7VerdictHolds` (`[]S7Verdict`), `AnswersAreExact`
(`ModbusClientSpec => []AnswersExact`, for any number of objects up to the bound on
requests and fewer ids taken during a call than the modulus). That an accepted
answer belongs to the latest request needs an order on ids that wrap around:
`IdsFresh` orders the requests of a call by the age of their ids, the number of ids
taken since. Completeness of an identification needs `ObjectsSoFar`: the objects
collected are those below the next one asked for, and every request brought at
least one, which is why the loop's bound is never what ends it.
`DevicesAreListedAsSent` (`ProfinetSpec => []ListedAsSent`) is about frames of any
number of blocks, of any lengths, cut anywhere. `ReadUpTo` says of the loop by offset
that after n blocks it is at the start of the next one and has read them all, or it
is at the first that did not come whole and has read those before it. With
`StartsIncrease` it never takes another block for one, and with `CutStaysCut` there
is nothing behind a cut that it should have read.

**`ModbusTrafficProofs`**, for any connections, ids, operations, timeout, cap and
course of the clock: `AwaitedIsTracked` (`[]PendingTracked`), `TimesAreInTime`
(`[]ResponseTimesInTime`), `RequestsAreAccounted` (`[]RequestsAccounted`). `TimeInv` and `PendingInv` order three times, those of an
awaited request, of the packet being handled and the clock, as long as the clock
was not set back; without the middle one a packet that was captured before a
`get_stats()` could yield a negative time. `RelationshipsInv` bounds the recorded
minimum and maximum, also before the first time is recorded. The lemmas on
`CountMissing`, `Unanswered` and `Timed` say what an expiry and a new time
preserve; both handlers cite them. The counters add up by `Balanced`: the awaited
requests are no more than the `Debt`, the sum over the relationships of requests less
those answered and missing. An answer lowers both sides by one at most, an expiry by as
many as expired, a new request raises the debt whether or not it replaces an awaited
one, and `reset()` empties both.

**`TrackerProofs`**, for any caps, times, packets and delays of a handler:

- `NeighborsAreBounded` (`[]NeighborsBounded`), whatever the clock does. The bound
  is not inductive: `RoomLeft` adds that a table at its bound holds an entry as old
  as anything that can still be stored (so the next entry is not the oldest, and
  one goes), and that a packet whose time is ahead of a clock set back since finds
  room for one more. `StoreHasEffect` states once what storing and evicting do.
- `FreshNeighborsAreListed` (`[]FreshNeighborListed`): entries have the time their
  MAC was last heard, and no reader or packet is ahead of the clock (`InOrder`), so
  a purge removes only what is stale now; an eviction leaves `_MAX_NEIGHBORS`
  entries that were heard no earlier.
- `NeighborsShowLastPacket` (`[]FieldsOfLastPacket`), for any TLVs in any order.
  `ReadSoFar` says what a parser's loop holds after n TLVs: the error that ended it,
  or for each field what the last of them that counts and carries it says, and
  whether one of them ended the loop. A packet is handled only if its parser did not
  raise (`Parsed`), and the row it gives is all that is kept of its MAC (`StoreShows`).
- `ConflictsAreExact` (`[]ConflictsExact`): the table holds recorded claims only
  (`EntriesFit`) and all the live ones (`LiveListed`); a handler that prunes with
  the time of an old packet removes no claim that is live now.
- `AlarmIsExact` (`[]AlarmExact`): the table holds all servers that answered or is
  full (`ServersFit`).
- `TalkersAreExact` (`[]TalkersExact`): a row counts the frames of its MAC, which
  needs that a MAC without a row, while there is room, has sent nothing (`RowsFit`),
  and that nothing was recorded before eth0's address was looked up.
- `WindowIsExact` (`[]WindowExact`): the window is the tail of what was recorded,
  and `popleft()` drops only what is too old at any later time (`TrimShows`).

`FreshNeighborListed`, `ConflictsExact` and `WindowExact` are about a clock that is
not set back; the proofs cover the steps after a setback too.

**`FoldTheorems`.** `RequestsAccounted`, `ResultExact`, `FieldsOfLastPacket` and
`ListedAsSent` are about folds over tables and sequences. The induction theorems of
the library take an operator as a parameter, which the installed provers cannot
instantiate; here a property is the set of the numbers, or of the finite sets, that
have it (`NatInductive`, `FiniteInductive`, from the well-foundedness of `<`).
`SetRecursion` and `SeqRecursion` show that a function defined by taking away one
element at a time exists, which is what the folds of the community modules are.
From these follow what a sum does when one entry changes (`SumUpdate`, `SumAdd`), that
counting by key loses nothing (`TallyCounts`), and that `FoldLeft` takes the elements
one by one from the left; each fold of the model has a lemma that unfolds it
(`MergeUnfolds`, `ParseUnfolds`, `ReadUnfolds`), and an invariant on its prefixes.

Only model-checked: liveness, fairness and `ENABLED` are outside the prover's reach,
which is all of `StopCompletes`, `SupersededEnds`, `TimedCaptureEnds`, `ThreadsEnd`,
`PageFollows`, `ListeningIsRegistered`, `LossHandled`, `WifiStaysReachable`,
`WifiFallbackTakesOver` and `HistoryFollowsLink`. Of the safety properties two are
left: `ActiveFileNotPruned` does not hold for all values of the constants (see the
assumptions of the storage run), and how far `DiskBounded` does with more than two
sessions, each of which may skip a prune when it meets another one, is open: TLC
finds no violation with three sessions of one part, and an invariant would have to
relate the lists of any number of prunes to the directory.

## Limits

Not modelled: the text of commands and of their output, packet parsing below the
level of TLVs, blocks, ports and header fields, HTTP, the frontend but for its
polling, and everything `PROJECT.json` lists as `not_modelled`: the one-shot tools
(TCP test, ARP scan, system information) and the shell helpers keep no state, the
API routes pass their arguments on, the decoding of Modbus registers is arithmetic
on a payload, a device template is a file of registers that are read one after
the other by `read()`, and the decoding of Siemens station names is string
rewriting behind a checksum. A tcpdump
that ignores SIGTERM for ever is not considered; one that outlives the
dispatcher's two-second wait is dropped from the state because nobody reads its
pipe. `Pcap` lets file sizes grow in small units up to `MaxSize` and keeps the
last part of a session below the rotation size, so that every rotation stays
within `MaxPart`. Wall-clock steps are modelled for the listeners only. A script
that runs into the 20 s timeout of its request, and one killed in a command, are
not modelled. That dnsmasq may fail to start is, but nothing looks at it
afterwards: such an access point keeps its address and serves no DHCP.

## Plan

Done, in this order: the models of capture, the background tools, the register
scan and the dispatcher (the concurrent core of the backend), the dispatcher's
consumers, the Wi-Fi fallback, the test port, the link history, the clients of
industrial devices and the pages that follow a job; then the theorems above. Left is
`DiskBounded` for any number of sessions: a bound in terms of the prunes under way,
and the invariant on the directory and their lists that it takes.
