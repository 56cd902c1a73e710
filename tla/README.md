# A TLA+ model of nssh

nssh keeps reverse SSH tunnels open. A background daemon, one per user, runs one
worker per tunnel; a worker dials the server over TCP or QUIC, declares its TCP
and UDP ports there and forwards what arrives to a local service; command-line
calls start, stop, list and take over tunnels through a Unix socket. This
directory models the parts of that program in which several goroutines or
processes meet, checks them with TLC on small instances, and proves the most
important invariants with TLAPS for every value of the constants.

`PROJECT.json` lists every run, its properties, a mutant for each property, the
source lines every definition stands for, the findings and the hazards. Paths
below are relative to `src/`.

## Inventory

| Component | State | Operations | Interacts through | Hard behaviour |
|---|---|---|---|---|
| Supervisor (`daemon/daemon.go`, `worker.go`) | map key → WorkerInfo, `cmdChan` (20 closures), `idleStartTime`, status and counters per worker | start, stop, restart, stop-all, register, list, takeover, stop-daemon, 30 s tick, exit | closures run by `processLoop`; contexts and DoneChan of workers; callback in a shared `*Config` | a handler looks a worker up, waits, then deletes by key; the tick spawns goroutines; `processLoop` sending to itself |
| Session (`base_tunnel/tunnel.go`, `transport.go`, `stats.go`) | connection, what was negotiated and declared, heartbeat retries, statistics | dial (with transport cache), handshake, negotiate, open data plane, declare TCP/UDP, heartbeat, self-check, teardown, retry | SSH requests with timeouts, `connErr` channel, contexts | silent servers, timeouts racing answers, goroutines of an old attempt beside the new one |
| Fragmentation (`base_tunnel/udp_proxy.go`) | next `frag_id`, reassembly slots | cut, add, time out, sweep | frames over SSH channels or QUIC datagrams | loss, duplication, reordering, wrap of ids, limits |
| UDP proxy (`udp_proxy.go`, `udp_datagram.go`) | flow table, sockets, ages and keepalive counts | read loops, pumps, cleanup, keepalives, closing | `sync.Map`, `sync.Once`, contexts | many goroutines at one flow id; creation racing the final clean-up |
| Singleton (`daemon/transport_unix.go`, `platform_unix.go`, `base_core/daemon_check*.go`, `main.go`) | socket file, PID file | start server, exit, start / stop-daemon / takeover commands | the file system, connect(2), signals | stat-dial-remove-bind races, crashes that leave files, a slow exit beside a new start |
| TCP forwarding (`handler.go`, `compress.go`) | two copying goroutines and a shared `sync.Once` per connection, frame buffers | copy, half-close, close, forced close | SSH channels or QUIC streams on one side, a TCP connection with linger 0 on the other | half-close and reset order, a Read or Write that no close wakes, a frame cut in two |
| Opening connections (`tunnel.go`, `data_plane.go`) | a goroutine and a dialled socket per connection | DATA_OPEN or a channel request, dial, open a stream, header, DATA_ERROR | the control channel; the server's own timeout | nested timeouts, many connections at once, error paths that own a socket |
| CLI and configuration (`main.go`, `base_core/config.go`) | flags, environment, the lists a command works through | start, stop, restart, restart-all, takeover, printed commands | requests to the daemon | lists and Configs that are stale when used, settings lost on the way |
| Logger, Windows variants, system information | – | formatting, printing, platform calls | – | – |

What makes the components correct: no worker that the map has lost; a stop that
stays a stop; requests that are answered; a tunnel shown online only while it is
declared; no connection or goroutine left behind by an attempt; every wait that
ends; datagrams delivered whole or not at all with bounded memory; one local
socket per flow, all of them closed in the end; a forwarded connection that loses
nothing and passes ends on; one reachable daemon; a tunnel that runs with the
settings given for it and comes back from whatever restarts it.

## Modules

| Module | Models | State and actions |
|---|---|---|
| `Daemon` | the supervisor | `workers` is the map, `cmdChan` the queue of closures, `loop` where `processLoop` is inside a long closure, `info` the WorkerInfo objects with the pc of their `runWorker`, `callback` the pointer in each Config, `gor` the request goroutines. One action per handler step between two blocking points, one per closure, one per stage of the tick, and the abstract worker |
| `Tunnel` | one worker as `Daemon` uses it | phases conn, up, back, done with the status and the cancellation |
| `Session` | `runWorker` around `ConnectAndTunnel`, `dialTransport` | `pc` follows the set-up, the heartbeat loop and the retry; `sess[a]` is the connection and the goroutines of attempt `a` |
| `Reassembly` | `writeDatagram`, the network of the datagram mode, `udpReassembler` | a datagram is a number and a size; a frame names its datagram, index and count |
| `UdpFlows` | `runUDPProxy`, read loops, `getOrCreateFlow`, `remove`, `pump`, cleanup and keepalives | `table` is the `sync.Map`, `obj` every flow ever dialled, `rd` the read loops, `main` the proxy |
| `Singleton` | daemon start and exit, the socket and PID files, the commands | `proc` is the step of each daemon process, `hung` those whose `processLoop` no longer takes commands, `cli` the step of each command and whose answer it waits for; a socket file is named by the process that bound it |
| `Pipe` | what a forwarded connection promises its two ends | units sent and received, ends said and seen, faults |
| `Channel` | `handleChannel`, the compressing writer, and what `CloseWrite`, linger 0 and `Close` do | `copyIn` and `copyOut` are the two goroutines, `handler` the function that waits for them; the buffers hold units, the tunnel frames; the visitor and the service are the environment |
| `DataPlane` | the forwarder of `setupTCPForward` and `tunnelDataPlane`, composed with `Channel` | `opener` is the goroutine of each connection, `sock` the sockets it owns, `asked` and `age` the server's view; `main` names the connection whose bytes are followed |
| `Settings` | the way of a tunnel's settings through flags, environment, CMD_START, worker and export; restart, restart-all, tick and takeover as sequences of requests | `worker` is the daemon's map, `hands` the goroutines that are going to start a tunnel with a Config they hold, `term` the terminals; the rest is history |
| `MCDaemon`, `MCSession`, `MCSingleton`, `MCSettings` | – | symmetry sets, bounds, configurations and command lines for TLC |
| `DaemonProofs`, `SessionProofs`, `ReassemblyProofs`, `UdpFlowsProofs`, `DataPlaneProofs`, `PipeProofs`, `SingletonProofs`, `SettingsProofs` | – | theorems |

`Session` implements `Tunnel` (`ImplementsTunnel`, refinement mapping `Phase`
from the pc); the worker actions of `Daemon` are those of `Tunnel` together with
what they do to the shared Config and the status fields. `Channel` implements
`Pipe` (`ImplementsPipe`, instance `Service`); `DataPlane` extends `Channel` and
hands it a connection. `Settings` takes each request of `Daemon` as one step,
except where a request pauses: `Daemon` has what happens inside a request,
`Settings` what several requests do to each other.

Abstractions worth knowing:

* Time. In `Daemon` the gaps the tick measures are inputs of the tick: a guard
  that compares a gap may go either way once the time it starts from is set. In
  `Session` a timeout may fire whenever the answer is outstanding, also when the
  server is merely slow, and a request without a timeout waits as long as the
  server is silent. In `UdpFlows` the age of `lastSeen` has three values. In
  `Reassembly` a slot is in time or expired.
* `Reassembly` follows one flow. Slots are keyed by flow, but all flows share the
  limit on slots (`udp_proxy.go:213`): what other flows do to this one is that the
  limit is reached earlier, and a limit of one slot shows what happens then.
* `Reassembly` assumes that 2^16 fragmented datagrams take longer than a frame
  lives in the network and than a slot's timeout of 300 ms (`FragIDRetired`).
  Without it a wrap of `frag_id` could mix two datagrams; the code has no other
  protection.
* In `Singleton`, `overlap = FALSE` says that two processes are not both between
  their first look at the files and their PID file, or between unlink and exit,
  and that a takeover has no start beside it. This is the assumption under which the guard of `StartServer` works;
  `SingletonRace` shows what happens without it. `listener.Close` of Go unlinks
  the path before it closes the descriptor, and `Stop` removes the path once
  more afterwards: these are three steps. `SendCommand` has no deadline: whoever
  needs a turn of `processLoop` waits until the answer comes or the daemon dies. A
  daemon may begin to hang at any moment (`Hang`), for the reasons `Daemon` has;
  CMD_STOP_DAEMON and signals do without `processLoop`.
* In `UdpFlows`, `remove` (delete, close, inside a `sync.Once`) is one step: the
  window between the two, in which a flow is out of the table and its socket not yet
  closed, is not modelled. The
  server may use any channel for a flow: its promise to use `flow_id % N` is not
  checked by the code.
* In `Channel` a unit is what one Read returns and goes out as one block. A Read of
  more than 64 KiB would be two blocks (`compress.go:98`); each is then a unit. Streams and channels differ:
  closing a stream cancels a pending Read, closing an SSH channel does not, and
  a Write that waits for the other side's window learns of a local close from
  that side only. `Pipe` has one exception from "nothing is lost": once both ends
  have said their end the service may get a reset instead of the tail, because
  the last close is made with linger 0.
* In `DataPlane` time is counted in seconds for streams only. A request and its
  answer take at most `Latency` on their way together, whose sum with the dial's
  timeout is assumed to be less than the server's (`data_plane.go:33-37` makes the
  gap for that; a slower network would break it). The scheduling of goroutines takes
  no time, and a dial returns within its timeout. The header of a stream is written
  without a deadline, so nothing is assumed of that write while the tunnel is up.
* In `Settings` a tunnel is its process key and a target stands for the local
  host and port; hosts are of four sorts, as the two validators tell them apart.
  The ports' ranges and the spelling of numbers are left out.

## Runs

Passing runs:

| Run | Instance | Shows |
|---|---|---|
| `DaemonRequests` | 3 requests, 2 keys, channel of 2, no tick | stop is answered after the worker's end, restart never overlaps the worker it stopped, replaced workers are cancelled |
| `DaemonSupervise` | 2 requests (start, register, takeover), 2 ticks with lifetime restarts, panics, signals | until something deletes by key no live worker leaves the map |
| `DaemonLive` | 2 requests, one tick, channel of one slot, workers that may hang while connecting | every request is answered, no cancelled entry stays, an accepted start runs, except when the daemon exits, `processLoop` blocks on its own full channel, or a worker that is waited for never comes back from connecting; an accepted start does not wait for the worker it replaces |
| `Session` | two attempts for TCP with compression and for both protocols over TCP, one attempt for both protocols over the transport the cache chooses and for UDP over QUIC | online only when all is declared, the two ends agree on the framing, nothing left behind, statistics, refinement of `Tunnel`; silence is detected, goroutines end; the set-up and a cancelled worker end unless the server stays silent in one of the three requests without a timeout |
| `ReassemblyNet` | 3 datagrams of up to 3 fragments or too many of them, one flow, 2 ids, limit of 1 slot | delivered datagrams are whole and unmixed, the limit holds, nothing is lost without a reason |
| `UdpFlows` | 2 read loops, one flow id created twice, both modes, limit of 2 keepalives | entries are live, one socket per flow, sockets closed when the channels end; cancellation stops the loops, idle flows are reclaimed |
| `Singleton` | 2 terminals that start, stop and take over; 2 processes, 2 commands and a crash or hanging daemon with overlap, 3 processes, 3 commands and 2 crashes or hanging daemons without | without overlap one daemon, which can be reached and which a stop brings to its end even when it hangs; with and without, a command waits for ever only for a hanging daemon that lives on |
| `Forwarding` | 2 connections over channels or streams beside each other, or one followed through `handleChannel` with 2 units in, 1 out, buffers of 1, compression on, dial 2 s, server 4 s, latency 1 s | the connection is a `Pipe`; ends are passed on; cancellation ends handler and goroutines; a dial answers before the server's timeout; no socket is left open; openers end, unless the header's write hangs |
| `Settings` | 2 terminals, 2 tunnels, 9 command lines (3 that pass the checks), 2 starts and 3 other orders | every setting of a tunnel is that of one command or the fallback of a field that is lost on its way, the printed command means the same tunnel, a tunnel that was not stopped comes back |

Violations, each about a sentence of the repository that the code does not keep
(quoted under `findings`):

| Run | What happens |
|---|---|
| `DaemonOrphan` | stop deletes the entry of a worker that replaced the one it stopped |
| `SingletonRace` | two daemons start together and both serve |
| `SettingsPassed` | a tunnel started with compression runs in the daemon without |

The models have further traces that differ from what a comment or the help text
says. They have no run of their own; `hazards` names the lines of most:

* `Daemon`: the callback in a Config shared by an old and a new worker marks the
  new one online when the old one's tunnel comes up; a revival queued by the tick
  is installed after a stop was answered; the idle exit drops a start that was
  answered with success and is still queued; with a full channel `processLoop`
  waits in `TickStopWorker` for room only it can make, or there for a worker that
  hangs (`LoopDeadlocked` and `LoopWaitsFor`: `DaemonLive` reaches both, with one
  slot where the code has 20). A stop of a worker that hangs while it connects is
  never answered.
* `Session`: the streak of rejections survives an established tunnel. The UDP
  declaration and the opening of the UDP channels and of the data plane have no
  timeout: a server that goes silent there holds the set-up until the connection
  breaks, cancelled or not (`Unanswered`, the exception in `SetupEnds` and
  `CancelEnds`; leaving out any one of the three makes them fail).
* `Channel`: a service that ended its stream first and is still sent data gets a
  reset at the end (the exception in `Pipe`).
* `Settings`: a restart that began before a start and ends after it brings the
  old settings back (`overtaken`, the one case in which `FromOneCommand` accepts an
  earlier command); a revival or a lifetime restart brings back a
  stopped tunnel, and the latter does not wait for a busy one to be idle, because
  nothing ever adds to the byte count it looks at; a takeover keeps only host,
  target and password of a tunnel, loses those started after its list was made,
  and counts as migrated what no daemon answered for (`missed`); the printed command leaves out `--proto tcp`, and its empty
  password swallows the next flag (the exceptions in `RerunKeeps`).
* `Reassembly`: timed-out slots count against the limit until the next sweep;
  fragment sizes up to 256 reach the `frag_cnt` check that is called unreachable.
* `UdpFlows`: a read loop with a datagram in hand creates a flow after `closeAll`
  went by on cancellation (hence the `~ctxDone` in `DoneReclaims`); forwarding
  for the local service does not refresh `lastSeen`.
* `Singleton`: stop-daemon reports success before the old process has removed
  its files; the PID fallback can meet a left-over file; a start or a takeover waits for ever
  for a daemon whose `processLoop` hangs; a takeover beside a start
  removes the new daemon's socket.

Bounds. Two keys and three requests are enough for every pair of handlers to
meet on a key and for a third to come in between; two attempts for the leftovers
of one to meet the next, and one for the configurations that differ from these only
in their set-up; a channel of one slot for a sender to find it full; two frag_ids with three datagrams for an id to be used
again; two creations of one flow for a late `remove` to meet its successor; two
crashes and three processes for a start on top of the leftovers of another. Two
units in one direction with buffers of one are enough for a writer to block while
another unit waits behind it; the response needs only one, whose raw frame already
fills the buffer twice. Connections meet while they are opened and never in
`handleChannel`, so `Forwarding` follows two openers or one connection to its end.
Two starts and three other orders are enough for a command in the pause of a
restart in the course of a restart-all or a takeover. `CHECK_DEADLOCK FALSE`
stands where the system may stop: the daemon exits, a worker ends after cancellation, or the bound on attempts, datagrams,
dials or commands is used up.

Fairness. Goroutines and processes that can go on do (weak fairness of each, as
the Go scheduler and the operating system give it); timers fire; `select` picks
at random among its ready cases, so a context that stays done is not passed over
for ever (strong fairness of `ShutDown \/ ConnectionOver`, `Quit` and
`SweeperEnds`); a server that is up answers, and answers our close of a channel.
Nothing is assumed of requests, cancellation, signals, crashes, or of a server
that closes or goes silent. In `Daemon` a cancelled worker whose tunnel is up returns, as `Session` shows
(`CancelEnds`), and one that is still connecting need not, because three requests of
the set-up have no timeout. In `Singleton` a daemon may hang for ever. In `DataPlane` neither end has to send, read or close:
the write of a header need not return while the tunnel is up (`HeaderWaits`),
`EndsPropagate` assumes only that the side that is to learn of the end reads, and
a lost connection is cancelled and a cancelled one closed, as `Session` shows. In
`Settings` goroutines, terminals and a new daemon go on.

The type invariants of `UdpFlows`, `DataPlane`, `Singleton` and `Settings` say what
the variables hold; what they say beyond types is in the runs' other properties, so
the runs leave them out.

## Proofs

`DaemonProofs`, for any sets of clients and keys, any capacity and any number of
ticks:

* `TypeCorrect`: `Spec => []TypeOK`. `TypeOK` alone is not inductive, because
  installing a worker copies names out of queued closures and goroutine records;
  `TypeInv` adds that a goroutine that is about to install or act holds an
  allocated worker or Config, and that the loop inside a tick has a key.
* `ReplacementCancels`: the action property `ReplacedIsCancelled`.
* `OnlyDeletionOrphans`: `NoOrphan`, for instances with fewer ticks than
  `MaxOfflineCount` (`FewTicks`), after which the tick itself deletes by key. Up to
  the first stop, restart, stop-all or lifetime restart, `OrphanInv` holds: a map
  entry has its own key, no goroutine and no closure is on its way to delete, tick
  numbers and offline counters are ordered, and only the filed worker of a key is
  uncancelled. `DeletionInv` adds that a goroutine has one operation in its life
  (`GorSteps`), so that a deletion that has begun stays visible. Together with
  `DaemonOrphan` the theorem says that deletion by key is the only cause of orphans.
* `StopWaits` (`StopMeansDone`) and `RestartWaits` (`RestartNeverOverlaps`), for
  all operations. What a goroutine has stopped is in its own record, but that it
  is done before the answer or the new worker depends on the order in which
  closures and goroutines run. `HandlerInv` therefore describes the record of a
  request at each of its steps (`Shapes`, `HitsDone`), says that no goroutine
  calls `startWorker` twice for a key and that the worker it is going to start
  does not exist yet (`Fresh`), that the tick spawns a goroutine it has not
  spawned before (`SpawnFresh`, `TicksOrdered`), that the sender of a queued closure
  is where that closure expects it (`QueueFits`), and that no two queued
  installations are for the same goroutine and key (`NoClash`).
  The assumption `ApartAssumption` says that a request's goroutine is none of
  those the ticks spawn.

`SessionProofs`, for any number of attempts and any configuration:

* `SessionTypeCorrect`, `NothingLeftBehind` (`ReturnedMeansClosed`) and
  `OnlineMeansDeclared` (`OnlineIsDeclared`). The inductive invariant `Inv` says
  for each pc what the current session may look like (`CurOK`), that past
  sessions are closed (`Past`) and that future ones are untouched (`Future`).
* `WorkerImplementsTunnel`: every behaviour of `Session` is one of `Tunnel`
  under `Phase`: the initial states map to initial states and each action to an
  abstract one or to a stuttering step.
* `EstablishedFramesAgree` (`FramingAgrees`). An attempt is established several
  steps after the negotiation of compression, and a negotiation that times out may
  leave the server compressing; `FramingInv` says that the two ends differ only
  where the connection is closed and the attempt has not been established, so that
  the set-up cannot reach the end.
* `StatsFollowSession` (`StatsFollow`): the statistics are written by the
  goroutine that waits for the connection, so `CurShows` ties them to it and to
  the place of the attempt.

`ReassemblyProofs`, for every set of flows, every fragment size, any number of
`frag_id`s and every limit:

* `SlotsStayBounded` (`SlotsBounded`). The inductive invariant adds that the slots
  in use are finitely many, without which their number means nothing.
* `DatagramsStayWhole` (`Integrity`). A slot does not know which datagram it is
  for: the invariant says that at most one datagram under way claims a `frag_id`
  (`KeysApart`) and that a slot holds pieces of that one only, as many bytes as
  these pieces have (`ClaimsFit`). Here `FragIDRetired` is used, the assumption
  on the environment above.
* `OnlyFaultsLose` (`NoNeedlessLoss`). `Accounted` says where each piece of a
  datagram is that nothing has spoiled: in the network, in the slot, or in what
  was delivered. The lemma `ByteLimitIsFar` shows that the limit on the bytes of
  a slot is never what drops a fragment of `writeDatagram`.
* `TypesHold` (`TypeOK`).

`UdpFlowsProofs`, for any flow ids, data channels and numbers of sockets:

* `TableHoldsLiveSockets` (`EntriesLive`), `FlowsHaveOneSocket`
  (`OneSocketPerFlow`) and `StopReclaims` (`DoneReclaims`). The code deletes by
  flow id, and whether that hits the right entry depends on what a goroutine holds
  between two steps. The invariant says of each read loop which flow it holds and
  whether it was stored yet (`ReadersOK`), that two of them never hold the same
  new one (`Owned`), that the victim of the cleanup was in the table once, and what
  is left when the read loops have ended (`EndOK`).

`DataPlaneProofs`, for any number of connections, any sizes of the buffers and any
timeouts of which the dial's, with the latency added, is the shorter:

* `SocketsClosed` (`NoSocketLeak`). It is not inductive: a handler that was forced
  returns later without closing anything, so `LeakInv` adds that it has closed both
  ends by then.
* `DialBeatsTimeout` (`TimeoutIsNotDial`). `TimeInv` adds what the server's clock
  says at each step of the opener: it is within the latency while a request waits in the
  queue, and within the latency and the dial's limit while the service is dialled.

`PipeProofs`, for any buffers, any number of units and of other connections, with
and without compression:

* `ConnectionIsPipe` (`ImplementsPipe`): every behaviour of `DataPlane` is one of
  `Pipe`. `PipeInv` says that the units one end sent and the other has not got are
  in the buffers between them unless something failed (`Counted`), that a
  goroutine that ended without a failure had seen the end of its side (`EndSeen`),
  that frames are headers followed by their payloads (`Framed`), that the sockets
  are closed only after both goroutines or a failure (`ClosedLate`), and that
  nothing has happened before a connection is opened (`Unopened`).

`SingletonProofs`, for any number of processes, commands, crashes and terminals:

* `OneDaemonServes` (`OneDaemonApart`) and `ServingDaemonIsReachable`
  (`ServingIsReachable`). Where the steps of two daemons do not overlap, the
  invariant says who the socket file belongs to at each step of a daemon
  (`SockHeld`, `SockLeft`, `DeadSock`) and the PID file (`PidHeld`), that one
  process at a time is at the files (`OneTouches`), and that a takeover that has
  stopped its daemon finds no other one that started meanwhile (`Alone`,
  `NobodyStarts`, `TargetOnly`). Without `~overlap` both are false (`SingletonRace`).

`SettingsProofs`, for any tunnels, terminals, command lines and numbers of commands:

* `TunnelsRunFromOneCommand` (`FromOneCommand`). The property speaks of the daemon's
  map and names, for each way into it, the fields that are lost there (`Lost`) and
  what stands in for them (`Fallback`); the other fields must all come from one
  command. Settings also wait in goroutines that are going to start a tunnel and in
  the list of a takeover, so the inductive invariant says of each of these places
  that what it holds is left of a command given for that tunnel, and of the last one
  where no later start has overtaken it. `StartLeaves` shows what CMD_START leaves
  of any command line, `TakeoverFallsBack` and `TakeoverKeeps` what a takeover does.
* `PrintedCommandStartsSame` (`RerunKeeps`). The printed command gives the protocol
  back only in its normalized form, so `ProtosNormal` says that the protocol of
  every worker and of every Config a goroutine holds is normalized; `CommandKeeps`
  shows that the command keeps the settings of such a Config.

The assumptions are the named `ASSUME`s of the modules, which TLC evaluates in
every run. Every safety property of the passing runs is stated by a theorem.
Only model-checked: the properties under fairness (`RequestsAnswered`,
`NoZombieEntry`, `AcceptedStartRuns`, `CancelEnds`, `SetupEnds`,
`SilentIsDetected`, `NoGoroutineLeak`, `CancelStops`, `IdleFlowsReclaimed`,
`EndsPropagate`, `CancelEndsCopies`, `OpenersEnd`, `CommandsEnd`,
`StoppedDaemonExits`, `ComesBack`),
which the prover does not reach.

## Not modelled

* Foreground mode (`runForeground`, `runClient`): the loop of `runWorker` once
  more, in the process of the terminal.
* Monitor reports, `list`, `log`, `get`, system information: they read state and
  format it. Of `get` only the printed command is modelled, because it is meant
  to be run again.
* The logger: formatting and rotation. Its shipping to Loki is never switched on.
* Encoding of requests and frames, and what deflate computes.
* Windows: the named pipe and process calls behind the same interfaces.
* The NSSH_UDP_* numbers: they size buffers and timeouts, and the daemon's
  workers do not get them.
* Senders that meet the closed `cmdChan` at exit: the process ends in the same
  call.

## Plan

Every safety property the runs check is proved. Left:

* `OnlyDeletionOrphans` without `FewTicks`: the tick's own removal leaves no trace
  in the state once its deletion is done, so the property first needs a way to say
  that none has begun.
* What the proofs pass through and no run states, as properties with runs and
  theorems of their own: that the byte count of a slot is that of its pieces
  (`ClaimsFit`), and that no two goroutines install the same worker (`Fresh`).
