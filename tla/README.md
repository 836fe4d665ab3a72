# PRISM in TLA+

PRISM watches the traffic of a SCADA network, scores it in sliding windows and,
when the risk stays high, engages a write-lock in the PLC with a Modbus write to
a reserved "safety coil". The repository holds PRISM itself (`src/PRISM`), a
simulated plant and its operator's clients (`src/PRISM_simulator`) and the
deployment that puts them together (`src/docker-compose.yml`). This directory
holds models of that code, the TLC runs that check them and the TLAPS proofs
about them. Paths below are relative to `src/`.

## Inventory

| Component | State | Operations | Interacts with |
| --- | --- | --- | --- |
| `PcapCapture` (`PRISM/src/capture/pcap.cpp`) | `handle_`, `active_`, libpcap's ring and break flag | open, `nextPacket`, `stop`, destroy | called by the packet loop and by the signal watcher, two threads |
| Packet loops, signal watcher (`PRISM/src/main.cpp`) | `running`, `drained`, the reused `packet`, `record`, `window` | poll loop, drain loop, fallback loop, shutdown | calls every other part of PRISM |
| Parsers, classifier (`PRISM/src/parser/`) | none (`FlowTable` is constructed, never called) | `classify_protocol`, three `parse` | packet in, record out |
| `WindowManager` (`PRISM/src/window/window_manager.cpp`) | deque of records, next emit time, last time | `addRecord` | record in, sometimes a window out |
| `FeatureExtractor`, detectors (`PRISM/src/feature`, `PRISM/src/detection`) | none | `compute`, `score` | window in, two scores out |
| `RiskModel` (`PRISM/src/risk/risk_model.cpp`) | `isOn_` | `evaluate` | scores in, decision out |
| `EnforcementEngine` (`PRISM/src/enforcement/enforcer.cpp`) | `locked_` | `apply`, `sendSafetyCoil` | decision in; a TCP connection to the PLC per attempt |
| Modbus PLC (`PRISM_simulator/proto/modbus/server.cpp`) | `write_locked`, the accepted connection, the kernel's queue | accept, read, answer, close | PRISM's signals and the clients' requests share its queue |
| Modbus client (`.../modbus/client.cpp`) | one connection | connect, send, recv, exit | started by the HMI API or by hand |
| DNP3 and IEC104 servers and clients | one connection | accept, read, echo, close | traffic PRISM sees, no lock |
| HMI and plant API (`PRISM_simulator/api/main.go`) | goroutines, child processes, started servers | three request handlers, `/health`, start of the servers | starts servers and clients, never waits for them |
| Deployment (`docker-compose.yml`) | containers | restart on exit | PRISM and the PLC restart separately and lose their state |

Hard to test, and what the models are for:

- two copies of one fact: PRISM's `locked_` and the PLC's `write_locked`, kept
  together by an unacknowledged 12-byte write through a queue that other clients
  share, while either program may die and come back;
- two threads and one libpcap handle, whose calls are made outside the mutex, and
  a detached thread that works on `main`'s stack while `main` returns;
- boundaries in time: records on both ends of a window, records in one instant,
  records out of order, idle gaps, and a deque that is pruned as windows pass;
- hysteresis: what is reported depends on the whole history of scores;
- two programs that read one frame with two decoders and two lists of write
  functions, neither of which knows the other;
- processes nobody waits for: the API answers 202 and leaves goroutines behind whose
  clients may overtake each other, meet a server that has died, or not start;
- numbers tuned by hand in four files (windows, weights, slopes, thresholds) that
  only together decide which traffic is an attack.

What makes each part correct:

- `WindowManager`: an emitted window holds exactly the accepted records of its
  interval, no accepted record falls between two windows, the deque holds what
  the next window needs and nothing older, and all of it is the same as a window
  sliding over the whole stream;
- `RiskModel` and `EnforcementEngine`: an escalation follows its cause and ends with
  it; one signal per life of the process; failed attempts are repeated until one
  succeeds;
- PLC: a release is never refused by the lock, a write that connects after the
  signal never gets through, every client is served;
- the two together: flag and lock agree until an operator's release or the death
  of the PLC;
- capture and shutdown: a signal ends the process whatever the loop was doing,
  the watcher is done with the capture before it is closed, the loop is broken
  once and at most one packet is delivered after `stop`;
- parsers: a record says what the client sent, a write exactly when the PLC's lock
  would refuse it or it addresses the safety coil, which the PLC never refuses, and a
  request exactly on its way to the server;
- API: every accepted command comes to an end, in order when it is paced; a dead
  server comes back with its container and not before;
- features, detectors, risk: a share of writes is reported whatever surrounds it,
  an escalation has a cause, ordinary traffic ends it.

## Modules

`WindowManager` models `addRecord`. A call takes one of three steps:
`RejectRecord` (line 14), `BufferRecord` (13-24 and 48) or `EmitWindow` (13-46).
Records are numbered in the order of acceptance, so `buffer` is a set and the
deque's order is the numbers' order; `Prune` drops the records older than the
oldest needed one *from the front only*, as the loop of lines 41-43 does.
`stream` is a history variable: every record accepted. `SlidingWindow` is what
the component promises, with the whole stream and no deque: `WindowOf` the
interval of the stream, one window per record at or past the next end.
`MCWindowManager` gives `Timestamps` and `Arrivals`, the records' numbers, as
intervals.

`RiskModel` models `evaluate` in percentages: `NextOn` is the hysteresis of lines
31-35, `Decision` the levels. `Enforcer` models `apply`; a high decision with the
flag down leaves the loop at `"connect"`, then at `"write"`, because two of the
PLC's and the clients' steps may come between the socket calls. `ModbusLock` is
what the PLC decides about a request, shared by every module that has a PLC:
`IsBlocked` the order of the two tests of `server.cpp:54` and `:66`, `LockAfter` the
effect of the safety coil. `ModbusServer` extends it to `start_server` and, as
external actions, the sockets in front of it: a bounded queue of established
connections, one unread request per connection, and peers that close or die.
`RiskModel`, `Enforcer` and `ModbusServer` are instantiated by `SafetyLock`, which adds
the clients of `run_client`, crashes of either program, and PRISM's restart:

| Action of `SafetyLock` | Code |
| --- | --- |
| `EvaluateAndApply` | `main.cpp:181-184`, up to the first socket call |
| `SignalConnects`, `SignalRefused` | `enforcer.cpp:48-60` |
| `SignalWritten`, `SignalReset`, `SignalLost` | `enforcer.cpp:74-76`: written; refused by a reset connection; accepted by the local kernel for a server that has died |
| `PrismCrash` | the process ends and is started again, with `isOn_` and `locked_` false |
| `ClientConnects`, `ClientSends`, `ClientExits` | `client.cpp:34-85` |
| `PlcServesCoil`, `PlcStep` | `server.cpp:38-79` |
| `PlcCrash`, `PlcRestart` | the server ends; `start_server` again |

History variables: `engagements` (signals written), `late` (clients connected after PRISM's signal connection) and
`undone` (the lock was released, or the PLC died, since the signal connected).

`WriteLock` is what PRISM and the PLC promise together: an escalation is signalled
once, a signal under way takes effect once, the lock engages by nothing else and
ends by a release or the death of the PLC. `SafetyLock` implements it
(`ImplementsWriteLock`): the abstract `threat` is `isOn_`, `signalled` is `locked_`, `pending` the
engage frames written and not yet read on connections that live.

`PcapCapture` models the capture: one step per block under `handle_mtx_`, one per
libpcap call. `CaptureShutdown` models the two loops and the watcher around it;
`selectable` chooses between the poll loop and the fallback loop once at start.
A packet in hand ends its turn in one of five ways, told apart by what becomes of
`drained` and by how long it takes:

| Action of `CaptureShutdown` | Code |
| --- | --- |
| `HandleCounted` | `main.cpp:155-159, 170-173`: another port, or a record that fills no window |
| `HandleUncounted` | `main.cpp:166-168, 175`: a record of no kind, an empty window |
| `HandleScored`, `EnforceEnds` | `main.cpp:177-224`: a window is scored, `apply` may block in `connect` |
| `HandleFallback` | `main.cpp:237-252`: the fallback loop, which counts nothing |

`SimulatorFrames` holds the frame builders and decoders of the simulator,
`ProtocolParsers` the classifier and the three parsers of PRISM, both as operators
over sequences of bytes. `MonitoredPlant` puts them on the two ends of a wire: the
clients and the three servers append each segment to `wire`, PRISM parses it at
any later time. It instantiates `ModbusLock` twice, for the PLC as it is and for a
locked one, with which `WriteViewsAgree` compares PRISM's idea of a write.

| Action of `MonitoredPlant` | Code |
| --- | --- |
| `Connect`, `Send`, `Exit` | `make_client_socket` and `run_client` of the three `client.cpp` |
| `Accept`, `ServeEcho` | the loops of `dnp3/server.cpp:54-78` and `iec104/server.cpp:47-63` |
| `Accept`, `ServeModbus` | the loop of `modbus/server.cpp:38-79` |
| `Dies` | a client process is killed or its connection reset |
| `DropClosed` | `modbus/server.cpp:45`, `dnp3/server.cpp:70`, `iec104/server.cpp:61`: `read` returned no byte |
| `Monitor` | `main.cpp:153-168`: next packet, classify, parse, skip |

`served` is a history variable: what the servers made of each request they read.

`RiskScores` is the arithmetic from a window to two probabilities: the features
the detectors read, `HalfSpaceTrees::score`, `BurstDetector::score` and the
sigmoid. Scores are integers in thousandths; `Percent` keeps of the sigmoid its
order against the thresholds of 40, 50 and 70 percent, which is all `evaluate`
looks at. `DetectionPipeline` runs it in the drain loop: it instantiates
`WindowManager` for `addRecord`, `RiskModel` for `evaluate`, and takes its packets
from a *script*, a sequence of phases that repeat one command with a set of
possible delays, as the demo and the handlers of the HMI API do. The PLC at the other end of
the wire is there with its lock (`ModbusLock`), because a locked PLC answers a write
with nine bytes that PRISM does not record: an attack on it leaves half the records,
and records are what makes windows end.

| Action of `DetectionPipeline` | Code |
| --- | --- |
| `Request` | `api/main.go:76-95`, `modbus/server.cpp:53-75`: a client is started after a delay; its exchange, an echo or an exception, reaches the ring; a request on the safety coil changes the lock |
| `NextPhase` | `exec_demo.sh:37-63`: the next scenario, after a pause |
| `SignalArrives` | `enforcer.cpp:26-38`: after a High decision PRISM's signal may engage the PLC's lock, at any time or never (which signals do is `SafetyLock`'s question) |
| `SkipPacket` | `main.cpp:168`: a packet that leaves no record |
| `BufferRecord` | `main.cpp:172-173`: `addRecord` returns false |
| `EvaluateWindow` | `main.cpp:172-184`: a window, its features, two scores, the decision |

`alarms` is a history variable: the phases in which a decision was High. PRISM's
own signal goes to 127.0.0.1, the simulator's network namespace that it shares, while
it captures `eth0`: it leaves no record.

`HmiApi` models the two containers that run `api/main.go`, the plant's with its
three servers and the HMI's with the goroutines and client processes its requests
leave behind. `RequestHandler` and `GenerateHandler` give the commands and the pause
of each handler; a process is named by its request and the command's place in it.
`age` counts how long a process has been under way before it connected, which is
what decides whether commands can overtake each other.

| Action of `HmiApi` | Code |
| --- | --- |
| `StartServer`, `StartServerFails` | `main.go:134-157`: `cmd.Start` of one server; an error is logged |
| `ListenAndServe` | `main.go:169-177`: the API and `/health` answer |
| `ServerListens`, `ServerEnds`, `Serve` | `start_server` of the three `server.cpp`: listen; bind fails or the process dies; one connection served |
| `PlantDies`, `PlantRestarts`, `HmiDies` | `docker-compose.yml:29` `unless-stopped`, `:43` `"no"` |
| `HandleRequest` | `main.go:76-132`: the goroutine is started, 202 |
| `StartProcess`, `StartProcessFails` | `main.go:55-74` and the loop of the goroutine: `c.Start`, then the jittered pause |
| `Connects`, `ConnectFails` | `make_client_socket` and `run_client` of the clients |
| `Tick` | time |

The `MC` modules only give constants their values: `MCMonitoredPlant` the
commands, `MCDetectionPipeline` the scripts and the table of logarithms,
`MCHmiApi` the servers' queues. The `Proofs` modules hold theorems and no part of
the model.

## Runs

| Run | Question | Bounds |
| --- | --- | --- |
| `window_manager` | does the pruned deque do what the sliding window promises | five records over 15 instants, windows of 10, step 2: three windows and more, idle gaps longer than a step, records on both ends of a window, in one instant and out of order |
| `safety_lock` | safety of the lock across PRISM, PLC and clients | two clients with every kind of request but the engage frame (read, write, release, other coil value, a register write at its address), scores on both sides of every threshold, two crashes, a queue of two; clients are symmetric |
| `safety_lock_live` | does the signal take effect, does an escalation end in a lock, is every client served | two clients, one crash, no symmetry |
| `lock_desync` | violated, see Findings | one client, no crash |
| `capture_shutdown` | shutdown, in every interleaving | a ring of two packets, three counted packets per drain, both loops |
| `monitored_plant` | does PRISM record what the plant was sent, and how much of it | two clients, three sessions, eight commands: diagnostics, both kinds of write, engage, release, IEC104 with a type and with 0, DNP3, with integers that are narrowed; clients may die before or after they write; clients are symmetric |
| `hmi_api` | what becomes of an accepted request, and what a restart of the plant repairs | one request to any handler: one command, two, or the fixed four; two places in the process table, a queue of one, pauses with and without room for the jitter, two faults among servers and containers |
| `dnp3_unseen` | violated, see Findings | one client, one session |
| `detection_pipeline` | when does PRISM escalate and when does it let go, is it silent before the flood, is the flood reported, do its windows catch up | scenarios 1 to 3 of `exec_demo.sh` with its sleeps and jitter on the reads, without its reset, the last prompt answered at once or after 35 s; then writes that the lock may refuse, reads with more jitter, and reads after a silence of 7 s: windows of 5 s every 1 s as in `main.cpp:61` |
| `reset_alarm` | violated, see Findings | the same scenarios from the reset on, every prompt answered at once |
| `idle_flood` | violated, see Findings | the demo's release, scenarios 1 to 3 with their counts and delays, one minute at a prompt |
| `polling_alarm` | violated, see Findings | five reads two seconds apart |

Why the bounds are enough: the window properties relate a record to at most two
consecutive windows, and five records reach three; the proofs below need none of
these bounds. The lock's properties relate one signal, the request before it and
the request behind it in the queue: two clients and a queue of two make all three
meet, two crashes let PRISM and the PLC each die once or either twice. In the
shutdown a packet is read, another is waiting, and the count reaches its limit.
In `hmi_api` the four commands of `/api/generate` meet a table of two and a queue of
one, so that a command fails to start and another has to wait for its connection;
two faults let a server and a container die, or the plant die again while it
restarts. Tick, jitter and pauses keep the code's proportions (1.0 s, 0.5 s and
0.1 s) only in their order. In `monitored_plant` three sessions let an engage, a refused write and a release
follow each other while another client's segments come between. In
`detection_pipeline` windows with reads only, mixed and with writes only all occur, and
what follows the flood is longer than a window. No window of these scripts holds more
records than the table of logarithms has entries, 102: two for each request of 0.1 s in
5 s (`FitsTable`, which `MCDetectionPipeline` assumes of the script `DemoInTime` and TLC
evaluates). The long pause before the flood is nearly the longest that the windows make
up for: the flood's 20 requests leave 40 records, which end 40 windows of a step, and
37.9 s of silence and 2 s of flood take 39.9 s; `CatchesUpUnlocked` allows 38.0 s, and with
38.2 s `WindowsCatchUp` fails.

`detection_pipeline` leaves the demo's reset out, which `exec_demo.sh:32` allows to
fail (`|| true`) and a fresh PLC does not need: with it PRISM goes High before the
flood (`reset_alarm`). The lock comes at the very end of the flood or after it, when
it is reported, at any time from then on; `DemoAssumption` says that every phase but
the flood catches up even when the PLC refuses its writes.

`CHECK_DEADLOCK FALSE` is set where the behaviour ends by design: the stream of
`WindowManager` is bounded by `MaxRecords` of `MCWindowManager`, the process of `CaptureShutdown`
exits, the sessions of `MonitoredPlant` are bounded by `MaxSessions`, and the
scripts of `DetectionPipeline` end.

### Fairness

`safety_lock_live`: while an escalation lasts PRISM goes on evaluating windows
(weak fairness of an evaluation that keeps `isOn_`, so that nothing obliges the
scores to fall), each of its socket calls, the PLC's thread and each started client run. Crashes
and new clients owe nothing. The restart of the PLC owes nothing either: the API
starts the servers once (`PRISM_simulator/api/main.go:134-161`) and only the
container is restarted. `EscalationEngages` therefore has a premise: from some
time on the PLC is up and its queue has a free place. `listen(fd, 1)` makes the
second half necessary; without it other peers can starve PRISM for ever.
`ClientsServed` assumes that a connected peer either writes or dies; a peer that
stays connected and silent stops the PLC, whose `read` has no timeout.

`hmi_api`: Docker restarts the plant, goroutines, processes and servers run, time
goes on. No fault and no request is owed. Nothing obliges a process to connect while
its server's queue is full; `Serve` makes room.

`capture_shutdown`: the two threads run, and a `connect` inside `apply` ends by the
kernel's timeout at the latest. The read timeout of libpcap is not
assumed (it starts with the first packet), nor is `poll` assumed to fail; that a
quiet interface still lets PRISM stop is the work of `pcap_breakloop`.

## Findings

- `idle_flood`: `addRecord` emits at most one window per record and advances by
  one step (`window_manager.cpp:37`). After an idle gap the windows trail the
  records and catch up one step per record: after a minute at one of the demo's
  prompts, the forty records of its flood end forty windows of the idle minute and
  the flood is never scored, although `exec_demo.sh:56` says "PRISM should detect
  this" and `PRISM/docs/heuristics.md:8` "a sliding update every second". The theorem
  `CatchesUp` says how long a pause may be: with the requests that follow it, no more
  than two steps a request.
- `polling_alarm`: the burst score grows with the variance of the gaps between
  records, and a request and its echo followed by two seconds of silence have a
  large one: `PRISM/docs/testing.md:11`'s read-only loop "that stays below the risk
  threshold" is reported High and engages the lock. `RegularReadsClear` and
  `EscalationHasCause` say where the boundary is: no escalation by reads whose
  silences stay under 1.5 s, none without a write or a silence of 1.8 s. The theorem
  `PollingStaysBelow` proves the guide's claim for reads at most 1.7 s apart.
- `lock_desync`: `locked_` is never cleared. Attack, signal, calm, operator's
  release, new attack: PRISM reports "Write-lock active (already engaged)", sends
  nothing, and the PLC accepts writes. `docs/theory.md:139` promises the signal
  once per attack engagement, `exec_demo.sh:30` resets the coil so that the
  demo can be run again, and `test_cli.py:233-235` releases it and expects PRISM
  to lock again.
- `dnp3_unseen`: the DNP3 parser rejects fewer than 13 bytes
  (`dnp3_parser.cpp:19`) and reads the function at byte 12; the simulator's frames
  have 12 bytes and the function at byte 6. PRISM records nothing of DNP3, where
  `PRISM_simulator/README.md:148` says "FC exposed to PRISM parser". The theorem
  `DNP3NeverSeen` proves it for every function.
- `reset_alarm`: the demo resets the safety coil before its baseline
  (`exec_demo.sh:32`), with an FC5 that PRISM sees on `eth0` and records, with its echo,
  as a write. In the first window they are two of ten records: a write ratio of 0.2, a
  function concentration of 0.8 and the entropy of two addresses come to a score of
  about 14.9, a probability of 0.73, High, and the write-lock, where `exec_demo.sh:40`
  says "this should NOT trigger an alert" and `docs/quickstart.md:39` "baseline, no
  alert expected". In `detection_pipeline`, without the reset, `CalmBeforeFlood` holds.

Noted without a run:

- `docs/theory.md:97-108` lets High, and with it the write-lock, begin above a probability
  of 0.8 and has 0.5 to 0.8 as Medium; the code escalates from 0.7 on, lets go at 0.5 and
  has Medium from 0.4 on (`risk_model.cpp:42`, `:57`, `:58`). The models follow the code: what
  the properties call High is what the code calls High, which for 0.7 to 0.8 is what
  the document calls Medium. It also describes a weighted combination of the two
  scores where `evaluate` takes their maximum.
- `docs/theory.md:139` promises a signal per attack engagement; `AtMostOneSignal` is what
  the code keeps, one per life of the process, and `lock_desync` shows the difference.
- After a poll error `main` leaves the loop by itself and closes the capture while the
  detached watcher may still be waiting for a signal: one that arrives then makes it
  use a capture that is gone. `WatcherBeforeDestruction` says what holds without a
  poll error. No line of the documents promises more, so there is no finding to
  quote one against.
- IEC104: the parser takes the object address from bytes 9 to 11 and stores 16 bits of
  it (`iec104_parser.cpp:33`); the client writes a station address at byte 9 and the
  object 16 behind it. The theorem `IEC104AddressShifted` proves that every request and
  echo is recorded with the address 4097, where `iec104/client.cpp:78` has a "fixed test
  addr for PRISM" and `PRISM/docs/proto.md:83` "9-11 | IOA".
- `docs/theory.md:39` classifies packets by destination port; `proto_classifier.cpp` takes
  either port, without which no echo would be recorded.
- `PRISM/docs/proto.md:46` has `isWrite` for every Modbus function from 5 on, the code
  lists four (the mutant `ModbusWrite_FromFive` is caught by `WriteViewsAgree` and
  `CalmBeforeFlood`).
- `test_cli.py:195` and `docs/quickstart.md:120` reset the coil with `./scada-sim`, which
  is not in the working directory of the image; the demo's `scada-sim` is found.

## Proofs

All proofs are for every value of the constants under the named assumptions of
the modules: a step no longer than a window, natural timestamps and
record numbers (`WindowManager`, where `DetectionPipeline` instantiates it with all
of `Nat`); a script that is a sequence of phases, and again the sizes of window
and step (`DetectionPipeline`), over a superadditive table of logarithms
(`RiskScores`); clients distinct from signals, requests that are frames,
percentages and natural bounds (`SafetyLock`); natural bounds (`CaptureShutdown`);
commands that are records of a protocol and integers (`MonitoredPlant`); counts,
delays and limits that are integers, with a largest count (`HmiApi`); `None` is none
of the values it stands beside. `Refinement` and some theorems of
`DetectionPipelineProofs` have a hypothesis of their own, named below.

`WindowManagerProofs`. The invariants checked by TLC are not inductive alone. The
inductive invariant adds to them that the deque is a subset of the stream in
order of time, that the next end is within the stream's reach, and how `lastTime`
bounds every record. The key lemma is `PruneIsFilter`: because acceptance keeps
time monotone, pruning from the front is the same as filtering by time, which
makes `buffer` exactly the part of the stream the next window can need
(`BufferExact`). `WindowsComplete`, `NoneSkipped` and the refinement
`Implementation` follow from it, step by step.

`SafetyLockProofs`. `TypeCorrect` comes first and every other proof cites it.
`OneSignal` needs that the flag counts the signals and that no signal is under
way while it is up. `LockIsTracked` is inductive with typing: a signal in flight
stays connected and unread through every step but its own, and its own raises
the lock. `ReleaseIsNeverBlocked` carries, per client, that
what is unread on its connection is its own request.

`WriteLockProofs` proves `ImplementsWriteLock` (`Refinement`) for clients that do not
write the engage frame themselves, as in the run `safety_lock`: a client that does
locks the PLC without an escalation, which the abstract lock rules out. The other
theorems about `SafetyLock` hold for such clients too. Needed beside typing: a signal's connection is new
until PRISM connects it and holds the frame from then on (`SignalsSent`), and no
client's connection holds it (`ClientsDoNotForge`). Every step of `SafetyLock` is
then matched with a step of the abstract lock or a stutter; serving the signal is
the abstract engagement, a crash of the PLC empties `pending`.

The same module proves `LateWritesBlocked` (`LateWritesAreBlocked`), without that
assumption. The argument is
about positions: no connection is in the queue twice (`QueuedOnce`), a client that
has not connected is not in it (`NewAreAway`), PRISM's signals are served in the
order they were sent even across its crashes (`SignalsInOrder`), the running PRISM's
signal is ahead in the queue or has taken effect (`LockHolds`), and a late client
that waits is behind it (`LateWait`). When the server reaches the late client, the
lock is on.

`CaptureShutdownProofs`. One inductive invariant relates the two threads to the
capture's fields: main holds the handle until it closes it (`MainOwnsHandle`), the
watcher clears `running` last and main leaves for that or for an error
(`WatcherStopsFirst`, `LeavesForCause`), only the thread that cleared `active` goes
on to break the loop (`OneBreaker`), no read begins after the packet that followed
the stop (`OneMorePacket`), and there is room in the drain for the packet in hand
(`RoomInDrain`). `TypeOK` and the three safety properties follow, for every ring and
every drain limit.

`ParserProofs`, for every function, address and value: a Modbus request or echo
of the simulator is recorded with its function and address, as a write exactly
for the four functions on the PLC's list and as a request exactly towards the
server (`ModbusFrameSeen`); a refusal leaves no record (`ExceptionUnseen`), nor
does any DNP3 frame (`DNP3NeverSeen`); every IEC104 frame is recorded with an
address nobody sent (`IEC104AddressShifted`). The argument is by computation on the
frame: its length decides the early return, its bytes the fields.

`MonitoredPlantProofs` puts those lemmas on the wire. What a server has not read is
the frame of its client's command (`FramesUnread`), every segment on the wire is empty, that
frame or an exception (`HonestWire`), so that every record PRISM makes says what
the command said (`RecordsAgree`). `WriteViewsAgree` follows for every command line,
narrowed or not: function and address are the PLC's, and the record is a write exactly
when the frame, as the PLC decodes it (`CommandDecoded`), is one that a locked PLC
refuses or addresses the safety coil. The second half is no refinement of words: on the
safety coil, engage, release or neither, PRISM records a write that no PLC refuses. `ParseTyped` shows of any bytes at all that a record fits its
fields. `EvidenceIsLeft` counts: the records of a command and its segments that will
leave one are together twice the answered requests, less the refused, plus the
frames no server has read (`Counted`). A server takes one step for each only
because a connection waits once and at the server of its protocol (`AtServer`);
with the wire empty and every client gone, `EvidenceLeft` remains.

`HmiApiProofs`. Typing rests on the names of the processes (`Named`). `TableFull` says
that the process table, once full, never empties, from which
`NoProcessAfterFailure` follows; `StartsOnce`, that a server is started once in the
life of its container, which gives `DownUntilRestart`. `InOrderWhenPaced` needs three
invariants more: the queues hold each waiting process once and at its server
(`Queues`); while a process of a paced request has not connected, its age and
the goroutine's remaining sleep together exceed the latency, so that a later
command exists only once the earlier one is overdue (`Pace`); and of two
that wait at one server the earlier is ahead (`Order`).

`DetectionPipelineProofs` is about the whole way from a packet to a decision, for
every script. `FeedsWindowManager` shows that the variables of the window manager
inside the loop run through a behaviour of `WindowManager` itself, so that its
theorems are taken over instead of proved again (`WindowsOfTraffic`, `WindowsExact`).
The inductive invariant `Inv` adds the loop's own state (`Loop`) and that the records
handed to `addRecord` are numbered and stamped as they were parsed (`Handed`); typing
needs of the parsers that whatever comes off a wire is a record (`ParserProofs`).

What is said of a window's scores is proved of every finite set of records:

- a sum over a window is the value of a function on its subsets that is defined
  step by step (`Totals`); facts about it are shown by induction over the subsets,
  with a set as the induction hypothesis (`SubsetInduction`);
- the gaps of a window telescope, and for gaps of at most `k` the sum of the squares
  is at most `k` times the sum of the gaps (`SumsBounded`), which bounds the
  variance by `k^2 / 4` (`SpreadBounded`) and with it the burst score
  (`BurstBounded`): under 1.8 s it stays below 60 percent, under 1.5 s below the
  level that keeps an escalation alive;
- the logarithms are superadditive (`VLogAssumption`), so the entropy of the
  addresses is never negative (`AddressBitsNatural`) and takes nothing away from the
  writes' share of the score (`HstOfWrites`); without writes that score is low
  (`HstOfReads`).

`WritesEscalate`, `ReadsClear` and `EscalationCaused` are then a computation with
`evaluate`, in every state of the hysteresis. `PollingStaysBelow` is the part of
`PRISM/docs/testing.md:11` that does hold: reads with at most 1.7 s from one to the
next (`Polling`, a condition on the script) are never decided High. It needs beside
`Inv` that all parsed records are reads (`OnlyReads`) and that successive records are
close (`ShortSilences`), and that an emitted window is a cut of the traffic and thus
has no longer gaps than it (`WindowGaps`).

These four assume `[]WindowsInTable`: no window has more records than `VLog`, the
table of `v log v` that stands for `std::log2`, has entries. `VLog` is a constant:
the theorems hold for a table of any length that grows faster than linearly
(`VLogAssumption`, which TLC evaluates for the table of the runs). Beyond its end the
model says nothing of a score, and TLC would stop with an error. `WindowsFit` proves the
hypothesis from the script: if requests are at least `d` apart (`Spaced`), a window
holds no more than `2 * (windowSize \div d + 1)` records (`MostRecords`), and a table of
that length is enough (`FitsTable`). `VerdictsOfSpacedScripts` and
`SpacedPollingStaysBelow` restate the four for such scripts. The invariant is `Apart`:
every record comes `d` after all but the one before it, because an exchange leaves at most
two records in one instant and the next exchange is `d` later. It needs that the packets
in the ring are the last ones of the current exchange, echoed or refused, of which the
first leaves no record (`Ring`), and that records are numbered without a gap (`Numbered`). From it,
`k` requests take `k` times `d` (`Strides`), so that the numbers of a window's records lie
close together (`SpanBounded`).

`CatchesUp` is about `window_manager.cpp:37`, one window per record. What a request leaves
depends on the PLC's lock: two records, or one when it is a write that the locked PLC
refuses (`RecordsOfExchange`, `Yield`). The invariant `OnTime` follows how far the next
window is behind within a phase: by the pause and the requests so far, less one step
for each record of them, as long as it is behind at all; what is still to come of the
exchange under way is read off the packets in the ring (`ToCome`, `Behind`). A record that
is not late leaves no window due, a record that is moves the next window on by a step;
when every phase takes no more than a step for each record it leaves at the least
(`KeepsUp(k, TRUE)`), nothing is left of the delay at its end (`PhaseThrough`), whenever
the lock engages. Writes 1.5 s apart are no such phase: PRISM reports them, the PLC
locks, and from then on each brings one step and takes one and a half.
`CatchesUpUnlocked` is the weaker premise, two steps a request (`KeepsUp(k, FALSE)`), for
behaviours in which the lock stays open. The premise is a condition on each phase
alone: a phase that does not make up for its pause hands its delay on, and `idle_flood`
is such a script.

`FloodIsDetected` proves `FloodDetected` for a class of scripts (`DetectableFlood`): they
keep up with the windows until the flood is over and do not engage the lock themselves;
the flood's requests are writes, from `least` to `most` apart (`DenseFlood`); and before
the flood and during it there was enough traffic for a first window (`WarmsUp`). Of the
behaviour it asks `[]CalmBeforeFlood`: a signal sent before the flood would make the PLC
refuse it, and half of its records with it. As long as nothing has been reported the
lock is open (`StaysUnlocked`), so that `OnTime` holds as for an open PLC
(`Unreported`); the first High decision from then on is in the flood (`NewAlarms`), and
no lock it brings takes the report back (`Reported`). At the end of an unreported flood
no window would be due (`PhaseThrough`), so the last one ended at most a step before the
last record (`LastWindow`). It holds the records of the flood but those of its `late` last
requests, which took a step, and reaches `scored` requests further back
(`LastWindowHolds`, from `Apart` and its counterpart `Close`); what it holds of earlier
traffic is bounded by `SpanBounded`. Three in ten are therefore writes of the flood
(`LastWindowHeavy`), and a window of which that is true was reported when it was evaluated
(`Judged`, with `WritesEscalate`). The invariant `FloodInv` carries these facts through the
flood for the records after those it found (`SeenBefore`). A flood shorter than a step may
leave all its records to a window that never comes, hence `late * least >= stepSize`.
`FloodOfSpacedScripts` is the same without `[]WindowsInTable`. `DemoAssumption` of
`MCDetectionPipeline`, which TLC evaluates in the runs, says with all the numbers that the
hypotheses on the script hold of `DemoInTime`, the demo without its reset and in the
model's tenths of a second: the demo's 50 ms with their jitter of 100 ms are rounded to
one tenth. Whether that flood would also be reported from the demo's reset on is not
claimed: there the premise `[]CalmBeforeFlood` fails (`reset_alarm`); `KeepsUp(k, TRUE)`
holds of that script too, so that its windows catch up whatever is locked.

Only model-checked: `EscalationEngages` (which concludes PRISM's flag; that the lock is
engaged takes `SignalTakesEffect` as well), `SignalTakesEffect` and `ClientsServed` of
`SafetyLock`, `SignalStops`, `EveryCommandEnds` and `RestartHeals`: liveness is out of the
prover's reach. `WindowsCatchUp` and `FloodDetected` are proved for classes of scripts,
as they must be: `idle_flood` is a script for which both fail. `CalmBeforeFlood` is checked
of one script and refuted of another; it depends on every number of the scores.

## Abstractions

- Scores are percentages; the sigmoid is monotone, so only the order against the
  three thresholds matters. `EvaluateAndApply` takes any two scores.
- Every peer writes one 12-byte request; a shorter one, decoded as zeros, is not
  modelled. An exception reply keeps the request it answers.
- TCP is the operating system's. `socket` failing is folded into `connect`
  failing; `connect` times out only while the queue is full; a bind that fails
  after a restart and PRISM's stale network namespace are not modelled.
- `steady_clock` does not go back, so out-of-order records do not come from
  PRISM's own capture; `addRecord` handles them and the model lets them come.
- `sigwait` succeeds. `pcap_breakloop` ends a blocked read (libpcap 1.10).
- `MonitoredPlant` leaves the death of servers and the bounded queue to `SafetyLock`
  and `HmiApi`; the end of a connection is a segment without payload and is left
  out, as it leaves no record. `write` with the length -1 (`iec104/server.cpp:61`)
  fails in the kernel and sends nothing. A segment
  is captured once and in order, and PRISM never falls so far behind that the ring
  overflows.
- `DetectionPipeline` counts time in tenths of a second; a request, its echo and
  PRISM's reading of both happen within one tenth. Features that only reach log
  lines (`protoDom`, `density`, `meanIA`) are left out. PRISM's signal may engage the
  lock at any time after a High decision, or never; the death of the PLC, which would
  open it, is `SafetyLock`'s. Scores are rounded down
  to thousandths. `parse` of IEC104 takes an echo for a request (its cause byte
  is the request's), as in the code.
- `HmiApi`: the installed binary is found (`main.go:24-41`), port 8080 is free, a
  request body that does not decode is one with its fields missing, `c.Start` fails
  only for want of a process. A tick is about half a second and a process connects in
  the tick it is started in, unless the queue is full.
- Logging and the layout of alert lines are left out.

## Not modelled

- `AlertDispatcher` (`main.cpp:67`) is constructed and never used, `FlowTable`
  (`modbus_parser.cpp:6`) is constructed and never called, `utils/logger.cpp` and
  `src/simulator`, an older copy of the simulator, are not compiled, `types.cpp` is
  empty: the program has no behaviour that depends on them.
- Wording and layout of log lines (`viz_utils.cpp`, the labels of `main.cpp:69-106`).
- The demo scripts are sequences of requests; what they expect is used as a
  requirement in the findings.
- Usage errors of the command line (`cli.cpp:39-57`) and arguments `stoi` rejects,
  which end the process before it opens a socket.

## Plan

Done: the window, the lock and the abstract lock it implements, the capture with
every way a packet ends its turn, the parsers and the wire with peers that die, the
scores and the pipeline with its window manager, the API; proofs of every safety
property but `CalmBeforeFlood`, of `WindowsCatchUp` and `FloodDetected` for classes of
scripts. What remains:

1. A weaker premise for `CatchesUp`: it holds of each phase by itself, while a later
   phase may also make up for what an earlier one left.
2. A class of scripts that keeps `CalmBeforeFlood`, as `PollingStaysBelow` is one for
   reads: a bound on the writes in a window before the flood.
3. Short requests, which `decode_mbap_pdu` turns into zeros, should a peer be added
   that writes them.
