------------------------------ MODULE Session ------------------------------
(***************************************************************************)
(* One worker: runWorker's retry loop (daemon/daemon.go) around            *)
(* ConnectAndTunnel (base_tunnel/tunnel.go), with the goroutines every     *)
(* attempt starts: the one that waits for the SSH connection to end, the   *)
(* TCP forwarder, the UDP proxy and the data plane.                        *)
(*                                                                         *)
(* The server.  A connection is "up" while the server answers, "silent"    *)
(* once it does not (half open, or a stuck server: nobody closes it), and  *)
(* "closed" once either side closed it.  A timeout may also fire while the *)
(* connection is up: the answer was slow.                                  *)
(***************************************************************************)
EXTENDS Integers, FiniteSets

CONSTANTS
  MaxAttempts,   \* bound: calls of ConnectAndTunnel
  Configs,       \* the workers' Configs
  Retried        \* bound: the Configs for which there is more than one call

ASSUME SessionAssumption ==
  /\ MaxAttempts \in Nat \ {0}
  /\ Configs \subseteq [Proto: {"tcp", "udp", "both"}, Transport: {"tcp", "quic", "auto"},
                        Compress: BOOLEAN]

VARIABLES
  config,    \* the worker's Config
  ctxDone,   \* the worker's context is cancelled
  pc,        \* where the worker's goroutine is
  att,       \* number of the current attempt
  sess,      \* per attempt: connection, goroutines, what was agreed
  cache,     \* transportCache entry of the server, which all its workers share
  status,    \* worker.Status
  stats,     \* statsManager's ConnectionStatus
  err,       \* what the last ConnectAndTunnel returned
  streak,    \* worker.BindRejectStreak
  retry,     \* failed keepalives of this heartbeat
  ping       \* UDP self-check: failures so far, disabled

vars == <<config, ctxDone, pc, att, sess, cache, status, stats, err, streak,
          retry, ping>>
worker == <<att, cache, status, stats, err, streak, retry, ping>>

-----------------------------------------------------------------------------
(* Types *)

SetupPc == {"key", "dial", "handshake", "compress", "dataPlane", "tcp", "udp",
            "udpOpen", "established"}
LoopPc == {"loop", "keepalive", "ping", "connErr"}
Pc == SetupPc \cup LoopPc \cup {"return", "backoff", "done"}

Attempts == 1..MaxAttempts
Goroutine == {"none", "run", "done"}

SessionInfo ==
  [conn: {"none", "up", "silent", "closed"}, mode: {"none", "tcp", "quic"},
   wait: {"none", "wait", "cancel", "done"},  \* the client.Wait() goroutine
   connErr: {"empty", "full"},                \* the channel of capacity 1
   cancel: BOOLEAN,                           \* connCancel was called
   fwd: Goroutine, proxy: Goroutine, dp: Goroutine,
   declared: SUBSET {"tcp", "udp"},           \* accepted by the server
   established: BOOLEAN,                      \* the callback ran
   compress: BOOLEAN, srvCompress: BOOLEAN]   \* framing here and at the server

TypeOK ==
  /\ config \in Configs
  /\ ctxDone \in BOOLEAN
  /\ pc \in Pc
  /\ att \in Attempts
  /\ sess \in [Attempts -> SessionInfo]
  /\ cache \in {"none", "tcp", "quic"}
  /\ status \in {"offline", "online"}
  /\ stats \in {"offline", "online"}
  /\ err \in {"none", "nil", "rejected", "error"}
  /\ streak \in Nat
  /\ retry \in 0..2
  /\ ping \in [failures: 0..1, disabled: BOOLEAN]

NoSession ==
  [conn |-> "none", mode |-> "none", wait |-> "none", connErr |-> "empty",
   cancel |-> FALSE, fwd |-> "none", proxy |-> "none", dp |-> "none",
   declared |-> {}, established |-> FALSE, compress |-> FALSE,
   srvCompress |-> FALSE]

NoPing == [failures |-> 0, disabled |-> FALSE]

Init ==
  /\ config \in Configs
  /\ ctxDone = FALSE
  /\ pc = "key" /\ att = 1
  /\ sess = [a \in Attempts |-> NoSession]
  /\ cache = "none"
  /\ status = "offline" /\ stats = "offline" /\ err = "none"
  /\ streak = 0 /\ retry = 0
  /\ ping = NoPing

-----------------------------------------------------------------------------
(* Helpers *)

Cur == sess[att]
At(p) == pc = p
Goto(p) == pc' = p
ConnCtxDone(a) == sess[a].cancel \/ ctxDone
Required == IF config.Proto = "both" THEN {"tcp", "udp"} ELSE {config.Proto}

\* The connection and all that lives on it is closed: client.Close().
Closed(s) == [s EXCEPT !.conn = IF s.conn = "none" THEN "none" ELSE "closed"]
Update(s) == sess' = [sess EXCEPT ![att] = s]

\* Mutant: the caller forgets to close the connection.
SetupFailedNoClose(e) ==
  /\ stats' = "offline" /\ err' = e
  /\ Goto("return")
  /\ UNCHANGED <<config, ctxDone, att, sess, cache, status, streak, retry, ping>>

\* ConnectAndTunnel returns e before the tunnel stands: RecordFailure, and the
\* connection, if any, is closed.
SetupFailed(e) ==
  /\ Update(Closed(Cur))
  /\ stats' = "offline" /\ err' = e
  /\ Goto("return")
  /\ UNCHANGED <<config, ctxDone, att, cache, status, streak, retry, ping>>

\* A set-up step succeeded and leaves the attempt as s.
SetupStep(p, s) ==
  /\ Update(s) /\ Goto(p)
  /\ UNCHANGED <<config, ctxDone, worker>>

-----------------------------------------------------------------------------
(* The set-up of ConnectAndTunnel *)

\* The private key file is read and parsed.
ReadKey == At("key") /\ (SetupStep("dial", Cur) \/ SetupFailed("error"))

\* dialTransport in mode auto looks at the cache; expired: retryQUICAt is over.
Probes(expired) ==
  config.Transport = "auto" /\ (cache = "none" \/ (cache = "tcp" /\ expired))
TriesQuic(expired) ==
  config.Transport = "quic" \/ Probes(expired)
    \/ (config.Transport = "auto" /\ cache = "quic")

\* quic, tcp: whether a dial over that transport would succeed now.
DialMode(quic, tcp, expired) ==
  IF TriesQuic(expired) /\ quic THEN "quic"
  ELSE IF config.Transport # "quic" /\ tcp THEN "tcp" ELSE "none"

Dial(quic, tcp, expired) ==
  LET mode == DialMode(quic, tcp, expired) IN
  /\ At("dial")
  /\ cache' = IF Probes(expired) THEN (IF quic THEN "quic" ELSE "tcp") ELSE cache
  /\ IF mode = "none"
       THEN /\ Goto("return") /\ err' = "error" /\ stats' = "offline"
            /\ UNCHANGED sess
       ELSE /\ Update([Cur EXCEPT !.conn = "up", !.mode = mode])
            /\ Goto("handshake")
            /\ UNCHANGED <<err, stats>>
  /\ UNCHANGED <<config, ctxDone, att, status, streak, retry, ping>>

DeclarePc == IF config.Proto = "udp" THEN "udp" ELSE "tcp"
DataPlanePc == IF Cur.mode = "quic" THEN "dataPlane" ELSE DeclarePc

\* ssh.NewClientConn under its deadline; then RecordConnection and the goroutine
\* that waits for the connection to end.
Handshake ==
  /\ At("handshake")
  /\ \/ SetupFailed("error")
     \/ /\ Cur.conn = "up"
        /\ stats' = "online"
        /\ Update([Cur EXCEPT !.wait = "wait"])
        /\ Goto(IF config.Compress THEN "compress" ELSE DataPlanePc)
        /\ UNCHANGED <<config, ctxDone, att, cache, status, err, streak, retry, ping>>

\* The server's answer decides; an error of the connection counts as a refusal,
\* though the server may have enabled compression.
Negotiate(ok) ==
  /\ At("compress")
  /\ \/ Cur.conn = "up"
        /\ SetupStep(DataPlanePc, [Cur EXCEPT !.compress = ok, !.srvCompress = ok])
     \/ Cur.conn = "closed"
        /\ SetupStep(DataPlanePc, [Cur EXCEPT !.srvCompress = ok])

\* Mutant: a timeout counts as a refusal as well.
NegotiateTimeoutRaw ==
  /\ At("compress")
  /\ \E ok \in BOOLEAN : SetupStep(DataPlanePc, [Cur EXCEPT !.srvCompress = ok])

NegotiateTimeout == At("compress") /\ SetupFailed("error")

\* OpenChannel for the data plane: no timeout, so a silent server blocks it.
OpenDataPlane ==
  /\ At("dataPlane")
  /\ \/ Cur.conn = "up" /\ SetupStep(DeclarePc, [Cur EXCEPT !.dp = "run"])
     \/ Cur.conn # "silent" /\ SetupStep(DeclarePc, Cur)

\* Mutant: a dual-stack tunnel counts as established with TCP alone.
AfterTcpOnly == "established"

\* Where a tunnel goes once its TCP port is declared.
AfterTcp == IF config.Proto = "both" THEN "udp" ELSE "established"

\* Mutant: tcpip-forward without its timeout.
DeclareTcpNoTimeout ==
  /\ At("tcp")
  /\ \/ Cur.conn = "up"
        /\ SetupStep(AfterTcp, [Cur EXCEPT !.declared = @ \cup {"tcp"}, !.fwd = "run"])
     \/ Cur.conn # "silent" /\ SetupFailed("error")

\* setupTCPForward: tcpip-forward under a 15 s timeout; the forwarder starts.
DeclareTcp ==
  /\ At("tcp")
  /\ \/ Cur.conn = "up"
        /\ SetupStep(AfterTcp, [Cur EXCEPT !.declared = @ \cup {"tcp"}, !.fwd = "run"])
     \/ Cur.conn = "up" /\ SetupFailed("rejected")
     \/ SetupFailed("error")

\* setupUDPForward: udp-forward@nssh without a timeout.  Datagram mode needs QUIC
\* and opens no channels.  "error": malformed reply, or the connection is gone.
DeclareUdp(datagram) ==
  /\ At("udp")
  /\ \/ /\ Cur.conn = "up" /\ (datagram => Cur.mode = "quic")
        /\ IF datagram
             THEN SetupStep("established",
                            [Cur EXCEPT !.declared = @ \cup {"udp"}, !.proxy = "run"])
             ELSE SetupStep("udpOpen", [Cur EXCEPT !.declared = @ \cup {"udp"}])
     \/ Cur.conn = "up" /\ SetupFailed("rejected")
     \/ Cur.conn # "silent" /\ SetupFailed("error")

\* The data channels, one OpenChannel after the other, without a timeout either.
OpenUdpChannels ==
  /\ At("udpOpen")
  /\ \/ Cur.conn = "up" /\ SetupStep("established", [Cur EXCEPT !.proxy = "run"])
     \/ Cur.conn # "silent" /\ SetupFailed("error")

\* config.OnTunnelEstablished() marks the worker online.
OnTunnelEstablished ==
  /\ At("established")
  /\ Update([Cur EXCEPT !.established = TRUE])
  /\ status' = "online"
  /\ Goto("loop")
  /\ UNCHANGED <<config, ctxDone, att, cache, stats, err, streak, retry, ping>>

-----------------------------------------------------------------------------
(* The main loop of ConnectAndTunnel *)

\* Mutant: the connection is left open.
DisconnectNoClose(e) ==
  /\ Update([Cur EXCEPT !.cancel = TRUE])
  /\ stats' = "offline" /\ err' = e
  /\ Goto("return")
  /\ retry' = 0 /\ ping' = NoPing   \* locals of ConnectAndTunnel
  /\ UNCHANGED <<config, ctxDone, att, cache, status, streak>>

\* Mutant: RecordDisconnection is forgotten.
DisconnectUnrecorded(e) ==
  /\ Update([Closed(Cur) EXCEPT !.cancel = TRUE])
  /\ err' = e
  /\ Goto("return")
  /\ retry' = 0 /\ ping' = NoPing
  /\ UNCHANGED <<config, ctxDone, att, cache, status, stats, streak>>

\* connCancel, client.Close, transportConn.Close, RecordDisconnection, return e.
Disconnect(e) ==
  /\ Update([Closed(Cur) EXCEPT !.cancel = TRUE])
  /\ stats' = "offline" /\ err' = e
  /\ Goto("return")
  /\ retry' = 0 /\ ping' = NoPing   \* locals of ConnectAndTunnel
  /\ UNCHANGED <<config, ctxDone, att, cache, status, streak>>

ShutDown == At("loop") /\ ctxDone /\ Disconnect("nil")

\* connCtx is done: close, then wait for the error the waiting goroutine sends.
ConnectionOver ==
  /\ At("loop") /\ ConnCtxDone(att)
  /\ Update(Closed(Cur))
  /\ stats' = "offline"
  /\ Goto("connErr")
  /\ UNCHANGED <<config, ctxDone, att, cache, status, err, streak, retry, ping>>

ReceiveConnErr ==
  /\ At("connErr") /\ Cur.connErr = "full"
  /\ Update([Cur EXCEPT !.connErr = "empty"])
  /\ err' = "error"
  /\ ping' = NoPing
  /\ Goto("return")
  /\ UNCHANGED <<config, ctxDone, att, cache, status, stats, streak, retry>>

\* The 60 s heartbeat: up to three keepalives.
Heartbeat ==
  /\ At("loop")
  /\ Goto("keepalive")
  /\ UNCHANGED <<config, ctxDone, sess, worker>>

KeepaliveAnswered ==
  /\ At("keepalive") /\ Cur.conn = "up"
  /\ Goto(IF ping.disabled THEN "loop" ELSE "ping")
  /\ retry' = 0
  /\ UNCHANGED <<config, ctxDone, att, sess, cache, status, stats, err, streak, ping>>

\* Mutant: without its timeout a keepalive only fails with the connection.
KeepaliveFailsWithoutTimeout ==
  /\ At("keepalive") /\ Cur.conn = "closed"
  /\ Disconnect("error")

\* Mutant: one retry too many.
KeepaliveFailsOnceMore ==
  /\ At("keepalive")
  /\ IF retry < 3
       THEN /\ retry' = retry + 1
            /\ UNCHANGED <<config, ctxDone, pc, att, sess, cache, status, stats,
                           err, streak, ping>>
       ELSE Disconnect("error")

\* Timeout or error; the third in a row ends the connection.
KeepaliveFails ==
  /\ At("keepalive")
  /\ IF retry < 2
       THEN /\ retry' = retry + 1
            /\ UNCHANGED <<config, ctxDone, pc, att, sess, cache, status, stats,
                           err, streak, ping>>
       ELSE Disconnect("error")

\* parseUDPPingReply: an unhealthy shared entry matters to UDP tunnels only and is
\* looked at before the configuration flags.
PingPasses(healthy, unknown, changed) ==
  /\ healthy \/ config.Proto = "tcp"
  /\ unknown \/ ~changed

PingAnswered(healthy, unknown, changed) ==
  /\ At("ping") /\ Cur.conn = "up" /\ PingPasses(healthy, unknown, changed)
  /\ ping' = [ping EXCEPT !.failures = 0]
  /\ Goto("loop")
  /\ UNCHANGED <<config, ctxDone, att, sess, cache, status, stats, err, streak, retry>>

\* An old server refuses the request: the self-check is switched off.
PingUnsupported ==
  /\ At("ping") /\ Cur.conn = "up"
  /\ ping' = [ping EXCEPT !.disabled = TRUE]
  /\ Goto("loop")
  /\ UNCHANGED <<config, ctxDone, att, sess, cache, status, stats, err, streak, retry>>

\* A bad reply, an error or a timeout; the second in a row ends the connection.
PingFails ==
  /\ At("ping")
  /\ IF ping.failures = 0
       THEN /\ ping' = [ping EXCEPT !.failures = 1]
            /\ Goto("loop")
            /\ UNCHANGED <<config, ctxDone, att, sess, cache, status, stats, err,
                           streak, retry>>
       ELSE Disconnect("error")

-----------------------------------------------------------------------------
(* The goroutines of an attempt *)

\* Mutant: client.Wait()'s error is not sent.
WaitReturnsSilently(a) ==
  /\ sess[a].wait = "wait" /\ sess[a].conn = "closed"
  /\ sess' = [sess EXCEPT ![a] = [@ EXCEPT !.wait = "cancel"]]
  /\ UNCHANGED <<config, ctxDone, pc, worker>>

\* client.Wait() returned: the error goes to connErr unless that is full.
WaitReturns(a) ==
  /\ sess[a].wait = "wait" /\ sess[a].conn = "closed"
  /\ sess' = [sess EXCEPT ![a] = [@ EXCEPT !.wait = "cancel", !.connErr = "full"]]
  /\ UNCHANGED <<config, ctxDone, pc, worker>>

WaitCancels(a) ==
  /\ sess[a].wait = "cancel"
  /\ sess' = [sess EXCEPT ![a] = [@ EXCEPT !.wait = "done", !.cancel = TRUE]]
  /\ UNCHANGED <<config, ctxDone, pc, worker>>

\* The forwarder ends with connCtx or when the channel of requests is closed.
ForwarderEnds(a) ==
  /\ sess[a].fwd = "run" /\ (ConnCtxDone(a) \/ sess[a].conn = "closed")
  /\ sess' = [sess EXCEPT ![a] = [@ EXCEPT !.fwd = "done"]]
  /\ UNCHANGED <<config, ctxDone, pc, worker>>

\* runUDPProxy ends with connCtx or with its last data channel.
ProxyEnds(a) ==
  /\ sess[a].proxy = "run" /\ (ConnCtxDone(a) \/ sess[a].conn = "closed")
  /\ sess' = [sess EXCEPT ![a] = [@ EXCEPT !.proxy = "done"]]
  /\ UNCHANGED <<config, ctxDone, pc, worker>>

\* The data plane reads its control channel and knows no context.
DataPlaneEnds(a) ==
  /\ sess[a].dp = "run" /\ sess[a].conn = "closed"
  /\ sess' = [sess EXCEPT ![a] = [@ EXCEPT !.dp = "done"]]
  /\ UNCHANGED <<config, ctxDone, pc, worker>>

-----------------------------------------------------------------------------
(* The tail of runWorker's loop *)

\* The streak grows on a rejection and is reset by a nil error only.
NextStreak ==
  CASE err = "rejected" -> streak + 1
    [] err = "nil" -> 0
    [] OTHER -> streak

\* Mutant: the status is left as it was.
WorkerTailKeepsStatus ==
  /\ At("return")
  /\ IF ctxDone THEN Goto("done") /\ UNCHANGED streak
                ELSE Goto("backoff") /\ streak' = NextStreak
  /\ UNCHANGED <<config, ctxDone, att, sess, cache, status, stats, err, retry, ping>>

WorkerTail ==
  /\ At("return")
  /\ status' = "offline"
  /\ IF ctxDone THEN Goto("done") /\ UNCHANGED streak
                ELSE Goto("backoff") /\ streak' = NextStreak
  /\ UNCHANGED <<config, ctxDone, att, sess, cache, stats, err, retry, ping>>

Reconnect ==
  /\ At("backoff") /\ att < MaxAttempts /\ config \in Retried
  /\ att' = att + 1
  /\ err' = "none"
  /\ Goto("key")
  /\ UNCHANGED <<config, ctxDone, sess, cache, status, stats, streak, retry, ping>>

Quit ==
  /\ At("backoff") /\ ctxDone
  /\ Goto("done")
  /\ UNCHANGED <<config, ctxDone, sess, worker>>

-----------------------------------------------------------------------------
(* The environment *)

CancelFunc ==
  /\ ~ctxDone /\ pc # "done"
  /\ ctxDone' = TRUE
  /\ UNCHANGED <<config, pc, sess, worker>>

\* Another worker of the same server stores what its own probe found.  It matters
\* to the next dial only.
OtherWorkerProbes ==
  /\ At("key") /\ config.Transport = "auto"
  /\ cache' \in {"tcp", "quic"}
  /\ UNCHANGED <<config, ctxDone, pc, att, sess, status, stats, err, streak, retry, ping>>

GoesSilent(a) ==
  /\ sess[a].conn = "up"
  /\ sess' = [sess EXCEPT ![a] = [@ EXCEPT !.conn = "silent"]]
  /\ UNCHANGED <<config, ctxDone, pc, worker>>

ServerCloses(a) ==
  /\ sess[a].conn \in {"up", "silent"}
  /\ sess' = [sess EXCEPT ![a] = [@ EXCEPT !.conn = "closed"]]
  /\ UNCHANGED <<config, ctxDone, pc, worker>>

\* The server closes the UDP data channels or the control channel alone.
ServerClosesUdp(a) ==
  /\ sess[a].conn = "up" /\ sess[a].proxy = "run"
  /\ sess' = [sess EXCEPT ![a] = [@ EXCEPT !.proxy = "done"]]
  /\ UNCHANGED <<config, ctxDone, pc, worker>>

ServerClosesDataPlane(a) ==
  /\ sess[a].conn = "up" /\ sess[a].dp = "run"
  /\ sess' = [sess EXCEPT ![a] = [@ EXCEPT !.dp = "done"]]
  /\ UNCHANGED <<config, ctxDone, pc, worker>>

-----------------------------------------------------------------------------
Setup ==
  \/ ReadKey
  \/ \E quic, tcp, expired \in BOOLEAN : Dial(quic, tcp, expired)
  \/ Handshake
  \/ \E ok \in BOOLEAN : Negotiate(ok)
  \/ NegotiateTimeout
  \/ OpenDataPlane
  \/ DeclareTcp
  \/ \E datagram \in BOOLEAN : DeclareUdp(datagram)
  \/ OpenUdpChannels
  \/ OnTunnelEstablished

MainLoop ==
  \/ ShutDown
  \/ ConnectionOver
  \/ ReceiveConnErr
  \/ Heartbeat
  \/ KeepaliveAnswered
  \/ KeepaliveFails
  \/ \E healthy, unknown, changed \in BOOLEAN : PingAnswered(healthy, unknown, changed)
  \/ PingUnsupported
  \/ PingFails

WorkerStep == Setup \/ MainLoop \/ WorkerTail \/ Reconnect \/ Quit

GoroutineStep(a) ==
  \/ WaitReturns(a)
  \/ WaitCancels(a)
  \/ ForwarderEnds(a)
  \/ ProxyEnds(a)
  \/ DataPlaneEnds(a)

Environment ==
  \/ CancelFunc
  \/ OtherWorkerProbes
  \/ \E a \in Attempts : \/ GoesSilent(a)
                         \/ ServerCloses(a)
                         \/ ServerClosesUdp(a)
                         \/ ServerClosesDataPlane(a)

Next == WorkerStep \/ (\E a \in Attempts : GoroutineStep(a)) \/ Environment

Spec == Init /\ [][Next]_vars

(* Fairness: the Go scheduler runs every goroutine that can go on, timers fire, *)
(* a server that is up answers, and select, which picks at random among its     *)
(* ready cases, does not pass over a context that stays done for ever.  Nothing *)
(* is assumed of cancellation or of a server's closing.                         *)
Fairness ==
  /\ WF_vars(WorkerStep)
  /\ SF_vars(ShutDown \/ ConnectionOver)
  /\ SF_vars(Quit)
  /\ \A a \in Attempts : WF_vars(GoroutineStep(a))

FairSpec == Spec /\ Fairness

-----------------------------------------------------------------------------
(* Properties *)

\* The attempt is over: ConnectAndTunnel has returned from it.
Over(a) == a < att \/ (a = att /\ pc \in {"return", "backoff", "done"})

\* Whatever way ConnectAndTunnel returns, it leaves no connection behind: a new
\* attempt never competes with an old session for the remote port.
ReturnedMeansClosed ==
  \A a \in Attempts : Over(a) => sess[a].conn \in {"none", "closed"}

\* The worker shows online only while it is in an attempt whose every declaration
\* the server accepted: both of them for a dual-stack tunnel.
OnlineIsDeclared ==
  status = "online" =>
    Cur.declared = Required /\ Cur.established /\ pc \in LoopPc \cup {"return"}

\* The two ends agree on the framing of the response direction in every tunnel
\* that is established (otherwise the data is garbled).
FramingAgrees ==
  \A a \in Attempts : sess[a].established => sess[a].compress = sess[a].srvCompress

\* The statistics show a connection only while an attempt has one to lose.
StatsFollow ==
  stats = "online" => Cur.wait # "none" /\ ~Over(att)

\* A request that is awaited without a timeout and without a look at a context, of
\* a server that does not answer and does not close (tunnel.go:357, udp_proxy.go:295,
\* udp_proxy.go:362).
Unanswered == pc \in {"dataPlane", "udp", "udpOpen"} /\ Cur.conn = "silent"

\* The set-up ends: "otherwise the reconnect thread hangs in the set-up for ever",
\* as tunnel.go:64-65 says of tcpip-forward, whose timeout this is about.  It is true
\* of every step but the three that have none.
SetupEnds == pc \in SetupPc ~> (pc \notin SetupPc \/ []Unanswered)

\* An established connection whose server went silent is torn down.
SilentIsDetected ==
  \A a \in Attempts :
    sess[a].established /\ sess[a].conn = "silent" ~> sess[a].conn = "closed"

\* The goroutines of an attempt that is over end.
NoGoroutineLeak ==
  \A a \in Attempts :
    Over(a) /\ sess[a].wait # "none" ~>
      sess[a].wait = "done" /\ "run" \notin {sess[a].fwd, sess[a].proxy, sess[a].dp}

\* A cancelled worker comes to its end, which stopWorker waits for, from wherever
\* cancellation finds it; cancelling does not get it out of a request that is
\* awaited without a timeout.
CancelEnds == ctxDone ~> (pc = "done" \/ []Unanswered)

\* The worker as the daemon sees it.
Phase ==
  CASE pc \in SetupPc -> "conn"
    [] pc \in LoopPc -> "up"
    [] pc = "return" -> IF Cur.established THEN "up" ELSE "conn"
    [] pc = "backoff" -> "back"
    [] pc = "done" -> "done"

T == INSTANCE Tunnel WITH phase <- Phase, cancelled <- ctxDone

\* The detailed worker implements the abstract one the daemon is modelled with.
ImplementsTunnel == T!TSpec
=============================================================================
