------------------------------ MODULE Settings ------------------------------
(***************************************************************************)
(* What a tunnel runs with: the way of its settings from the command line   *)
(* (main.go, base_core/config.go) through CMD_START into a worker           *)
(* (daemon/daemon.go), and the commands that stop and start tunnels again   *)
(* from what the daemon or a terminal remembers: restart, restart-all, the  *)
(* tick and takeover.  Several terminals give commands at the same time.    *)
(*                                                                         *)
(* A tunnel is its process key (user, server, ports).  Daemon has the       *)
(* closures inside one request; here a request takes effect at once, but    *)
(* for the pauses in which another terminal can come between.               *)
(***************************************************************************)
EXTENDS Naturals, FiniteSets

CONSTANTS
  Tunnels,
  Clis,       \* terminals
  Lines,      \* command lines that start a tunnel
  Unset,      \* an environment variable that is not set
  None,
  MaxStarts,  \* bound: tunnels started from a command line
  MaxOrders   \* bound: stops, restarts, restart-alls, takeovers, ticks

VARIABLES
  up,        \* the daemon answers
  worker,    \* the daemon's map: what each tunnel runs with
  hands,     \* goroutines of the daemon that are going to start a tunnel
  term,      \* what each terminal is doing
  starts, orders,
  accepted, latest, \* history: what was asked for each tunnel, and at last
  overtaken, \* history: tunnels given a new start while an older one was pending
  wanted,    \* history: tunnels started and not stopped
  missed     \* history: tunnels a takeover did not bring back

hist == <<accepted, latest, overtaken, wanted, missed>>
vars == <<up, worker, hands, term, starts, orders, hist>>

-----------------------------------------------------------------------------
(* Settings *)

DefaultDelay == 30
DefaultLifetime == 172800

\* What is neither "udp" nor "both" is "tcp", the empty string too.
NormalizeProto(p) == IF p \in {"udp", "both"} THEN p ELSE "tcp"
NormalizeTransport(t) == IF t \in {"tcp", "quic"} THEN t ELSE "auto"

\* main sets NSSH_PROTO and the others from the flags (not empty) unless set:
\* the environment wins.
Effective(line, name) ==
  IF line.env[name] # Unset THEN line.env[name] ELSE line.flag[name]

\* For the password, the identity and the delay a flag wins.
FlagOrEnv(line, name, given, default) ==
  IF given THEN line.flag[name] ELSE IF line.env[name] # Unset THEN line.env[name] ELSE default

LoadConfig(line) ==
  [host |-> line.host, target |-> line.target,
   password |-> FlagOrEnv(line, "password", line.flag.password # "", ""),
   identity |-> FlagOrEnv(line, "identity", line.flag.identity # "", ""),
   delay |-> FlagOrEnv(line, "delay", line.flag.delay > 0, DefaultDelay),
   lifetime |-> line.flag.lifetime,
   proto |-> NormalizeProto(Effective(line, "proto")),
   transport |-> Effective(line, "transport"),
   compress |-> Effective(line, "compress")]

\* parsePositionalArgs: the server's port may be in user@host:port or in -p.
PortConflict(line) == line.ports = {"host:port", "-p"}

\* A host is an IPv4 address, an IPv6 address, a name with a dot or one without.
IsValidDomain(host) == host = "domain"
ValidateConfig(config) == config.host = "ipv4" \/ IsValidDomain(config.host)

\* The fields of CMD_START, which do not tell about compression, and all that a
\* command line settles.
Carried == {"host", "target", "password", "identity", "delay", "lifetime", "proto", "transport"}
Fields == Carried \cup {"compress"}

\* What somebody asks for who gives these settings: a delay that is none is the
\* default, a transport that is none is "auto".
Asked(config) ==
  [f \in Fields |-> CASE f = "delay" /\ config.delay <= 0 -> DefaultDelay
                     [] f = "transport" -> NormalizeTransport(config.transport)
                     [] OTHER -> config[f]]

\* Mutant: as before the protocol was sent along.
BuildStartParamsOld(config) == [f \in Carried |-> IF f = "proto" THEN "" ELSE config[f]]

\* The parameters of CMD_START: nothing about compression.
BuildStartParams(config) == [f \in Carried |-> config[f]]

\* What the daemon makes of them.
ConfigFromStartParams(params) ==
  [host |-> params.host, target |-> params.target, password |-> params.password, identity |-> params.identity,
   delay |-> IF params.delay <= 0 THEN DefaultDelay ELSE params.delay,
   lifetime |-> params.lifetime,
   proto |-> NormalizeProto(params.proto),
   transport |-> NormalizeTransport(params.transport),
   compress |-> FALSE]

\* The daemon checks what it was sent once more.
DaemonValidates(config) == config.host = "ipv4" \/ IsValidDomain(config.host)

\* The takeover's export, and the Config it makes of an exported tunnel.
ExportOf(config) ==
  [host |-> config.host, target |-> config.target, password |-> config.password,
   identity |-> config.identity]
MigratedConfig(exported) ==
  [host |-> exported.host, target |-> exported.target, password |-> exported.password, identity |-> "",
   delay |-> 0, lifetime |-> 0, proto |-> "", transport |-> ""]

NoEnv == [proto |-> Unset, transport |-> Unset, compress |-> Unset, password |-> Unset,
          identity |-> Unset, delay |-> Unset]

\* Mutant: the protocol is left to the default.
CommandOfShort(config) ==
  [host |-> config.host, ports |-> {"-p"}, target |-> config.target, env |-> NoEnv,
   flag |-> [password |-> config.password, identity |-> config.identity,
             delay |-> DefaultDelay, lifetime |-> DefaultLifetime,
             proto |-> "both", transport |-> "auto", compress |-> TRUE]]

\* formatCommandResponse, read as a command line: what is not printed has the
\* default of its flag, and "tcp" is not printed.
CommandOf(config) ==
  [host |-> config.host, ports |-> {"-p"}, target |-> config.target, env |-> NoEnv,
   flag |-> [password |-> config.password, identity |-> config.identity,
             delay |-> DefaultDelay, lifetime |-> DefaultLifetime,
             proto |-> IF config.proto \in {"udp", "both"} THEN config.proto ELSE "both",
             transport |-> "auto", compress |-> TRUE]]

-----------------------------------------------------------------------------
Configs ==
  [host: {"ipv4", "domain"}, target: {line.target : line \in Lines}, password: STRING, identity: STRING,
   delay: Nat \ {0}, lifetime: Nat, proto: {"tcp", "udp", "both"},
   transport: {"auto", "quic", "tcp"}, compress: BOOLEAN]

Steps == {"idle", "pause", "all", "allpause", "confirm", "migrate"}
Idle == [pc |-> "idle", list |-> {}, export |-> <<>>]

TypeOK ==
  /\ up \in BOOLEAN
  /\ \A k \in Tunnels : worker[k] = None \/ (worker[k].config \in Configs
                                            /\ worker[k].from \in {"start", "takeover"})
  /\ \A h \in hands : h.tunnel \in Tunnels /\ h.config \in Configs
                      /\ h.by \in Clis \cup {"tick"}
  /\ \A c \in Clis : term[c].pc \in Steps /\ term[c].list \subseteq Tunnels
  /\ \A c \in Clis, h \in hands : h.by = c => term[c].pc \in {"pause", "allpause"}
  /\ starts \in 0..MaxStarts /\ orders \in 0..MaxOrders
  /\ wanted \subseteq Tunnels /\ missed \subseteq Tunnels /\ overtaken \subseteq Tunnels

Init ==
  /\ up = TRUE
  /\ worker = [k \in Tunnels |-> None]
  /\ hands = {}
  /\ term = [c \in Clis |-> Idle]
  /\ starts = 0 /\ orders = 0
  /\ accepted = [k \in Tunnels |-> {}] /\ latest = [k \in Tunnels |-> None]
  /\ overtaken = {} /\ wanted = {} /\ missed = {}

Running(k) == worker[k] # None
Order == orders < MaxOrders /\ orders' = orders + 1
Go(c, pc) == term' = [term EXCEPT ![c].pc = pc]

\* startWorker: the entry is replaced.
StartWorker(k, config, from) ==
  worker' = [worker EXCEPT ![k] = [config |-> config, from |-> from]]

-----------------------------------------------------------------------------
(* Start and stop *)

\* main, sendStartCommand and handleStartTransport.
Start(c, k, line) ==
  /\ up /\ term[c].pc = "idle" /\ starts < MaxStarts /\ starts' = starts + 1
  /\ ~PortConflict(line) /\ ValidateConfig(LoadConfig(line))
  /\ LET config == ConfigFromStartParams(BuildStartParams(LoadConfig(line)))
         asked == Asked(LoadConfig(line))
     IN  /\ DaemonValidates(config)
         /\ StartWorker(k, config, "start")
         /\ accepted' = [accepted EXCEPT ![k] = @ \cup {asked}]
         /\ latest' = [latest EXCEPT ![k] = asked]
  /\ overtaken' = IF \E h \in hands : h.tunnel = k THEN overtaken \cup {k} ELSE overtaken \ {k}
  /\ wanted' = wanted \cup {k} /\ missed' = missed \ {k}
  /\ UNCHANGED <<up, hands, term, orders>>

\* handleStopTransport for one tunnel, handleStopAllTransport for all there are.
Stop(c, S) ==
  /\ up /\ term[c].pc = "idle" /\ Order /\ S # {} /\ \A k \in S : Running(k)
  /\ worker' = [k \in Tunnels |-> IF k \in S THEN None ELSE worker[k]]
  /\ wanted' = wanted \ S
  /\ UNCHANGED <<up, hands, term, starts, accepted, latest, overtaken, missed>>

StopOne(c, k) == Stop(c, {k})
StopAll(c) == Stop(c, {k \in Tunnels : Running(k)})

-----------------------------------------------------------------------------
(* Restart *)

\* performAction "restart": stop, and hold the worker's Config for a second.
Restarting(k, by) ==
  /\ Running(k)
  /\ worker' = [worker EXCEPT ![k] = None]
  /\ hands' = hands \cup {[tunnel |-> k, config |-> worker[k].config,
                           from |-> worker[k].from, by |-> by]}

Restart(c, k) ==
  /\ up /\ term[c].pc = "idle" /\ Order
  /\ Restarting(k, c) /\ Go(c, "pause")
  /\ UNCHANGED <<up, starts, hist>>

\* CheckWorkerLifetime says yes; bytes are never counted, so use does not help.
LifetimeOver(k) ==
  /\ up /\ Running(k) /\ worker[k].config.lifetime > 0 /\ Order
  /\ Restarting(k, "tick")
  /\ UNCHANGED <<up, term, starts, hist>>

\* The tick takes the worker for lost or stuck: go startWorker(p.Config).
Revive(k) ==
  /\ up /\ Running(k) /\ Order
  /\ hands' = hands \cup {[tunnel |-> k, config |-> worker[k].config,
                           from |-> worker[k].from, by |-> "tick"]}
  /\ UNCHANGED <<up, worker, term, starts, hist>>

\* Mutant: starts only what is still in the map.
HandStartsIfThere(h) ==
  /\ h \in hands /\ hands' = hands \ {h}
  /\ IF Running(h.tunnel) THEN StartWorker(h.tunnel, h.config, h.from) ELSE UNCHANGED worker
  /\ IF h.by \in Clis THEN Go(h.by, IF term[h.by].pc = "allpause" THEN "all" ELSE "idle")
     ELSE UNCHANGED term
  /\ UNCHANGED <<up, starts, orders, hist>>

\* startWorker(config), with what was read before the pause.
HandStarts(h) ==
  /\ h \in hands /\ hands' = hands \ {h}
  /\ StartWorker(h.tunnel, h.config, h.from)
  /\ IF h.by \in Clis THEN Go(h.by, IF term[h.by].pc = "allpause" THEN "all" ELSE "idle")
     ELSE UNCHANGED term
  /\ UNCHANGED <<up, starts, orders, hist>>

\* restartAllProcesses: the list, then one restart after the other by id.
RestartAll(c) ==
  /\ up /\ term[c].pc = "idle" /\ Order
  /\ \E k \in Tunnels : Running(k)
  /\ term' = [term EXCEPT ![c].pc = "all", ![c].list = {k \in Tunnels : Running(k)}]
  /\ UNCHANGED <<up, worker, hands, starts, hist>>

\* "worker not found", or nobody answers: a failure, and on to the next.
RestartNext(c, k) ==
  /\ term[c].pc = "all" /\ k \in term[c].list
  /\ term' = [term EXCEPT ![c].list = @ \ {k},
                          ![c].pc = IF up /\ Running(k) THEN "allpause" ELSE "all"]
  /\ IF up /\ Running(k) THEN Restarting(k, c) ELSE UNCHANGED <<worker, hands>>
  /\ UNCHANGED <<up, starts, orders, hist>>

RestartAllDone(c) ==
  /\ term[c].pc = "all" /\ term[c].list = {} /\ Go(c, "idle")
  /\ UNCHANGED <<up, worker, hands, starts, orders, hist>>

\* The daemon died in the pause: SendCommand returns an error.
Broken(c) ==
  /\ term[c].pc \in {"pause", "allpause"} /\ \A h \in hands : h.by # c
  /\ Go(c, IF term[c].pc = "allpause" THEN "all" ELSE "idle")
  /\ UNCHANGED <<up, worker, hands, starts, orders, hist>>

-----------------------------------------------------------------------------
(* Takeover; one at a time, what two do to the socket is in Singleton *)

\* handleTakeoverExport, and then the operator is asked.
Export(c) ==
  /\ up /\ term[c].pc = "idle" /\ Order
  /\ \A o \in Clis : term[o].pc \notin {"confirm", "migrate"}
  /\ LET S == {k \in Tunnels : Running(k)}
     IN  term' = [term EXCEPT ![c] = [pc |-> "confirm", list |-> S,
                    export |-> [k \in S |-> ExportOf(worker[k].config)]]]
  /\ UNCHANGED <<up, worker, hands, starts, hist>>

Declined(c) ==
  /\ term[c].pc = "confirm" /\ term' = [term EXCEPT ![c] = Idle]
  /\ UNCHANGED <<up, worker, hands, starts, orders, hist>>

\* The daemon is killed with all its tunnels, those started since the export too.
Kill(c) ==
  /\ term[c].pc = "confirm" /\ Go(c, "migrate")
  /\ up' = FALSE /\ worker' = [k \in Tunnels |-> None] /\ hands' = {}
  /\ missed' = missed \cup (wanted \ term[c].list)
  /\ UNCHANGED <<starts, orders, accepted, latest, overtaken, wanted>>

\* The next daemon gets to its socket, in the takeover's two seconds or later.
DaemonComesUp ==
  /\ ~up /\ up' = TRUE
  /\ UNCHANGED <<worker, hands, term, starts, orders, hist>>

\* sendStartCommand for each; counted as migrated whatever the answer was.
Migrate(c, k) ==
  /\ term[c].pc = "migrate" /\ k \in term[c].list
  /\ term' = [term EXCEPT ![c].list = @ \ {k}]
  /\ IF up
     THEN /\ StartWorker(k, ConfigFromStartParams(MigratedConfig(term[c].export[k])), "takeover")
          /\ wanted' = wanted \cup {k} /\ missed' = missed \ {k}
     ELSE missed' = missed \cup {k} /\ UNCHANGED <<worker, wanted>>
  /\ UNCHANGED <<up, hands, starts, orders, accepted, latest, overtaken>>

MigrateDone(c) ==
  /\ term[c].pc = "migrate" /\ term[c].list = {} /\ term' = [term EXCEPT ![c] = Idle]
  /\ UNCHANGED <<up, worker, hands, starts, orders, hist>>

-----------------------------------------------------------------------------
Progress(c) ==
  \/ RestartAllDone(c) \/ Broken(c) \/ MigrateDone(c)
  \/ \E k \in Tunnels : RestartNext(c, k) \/ Migrate(c, k)

Next ==
  \/ \E c \in Clis :
       \/ \E k \in Tunnels : \E line \in Lines : Start(c, k, line)
       \/ \E k \in Tunnels : StopOne(c, k) \/ Restart(c, k)
       \/ StopAll(c) \/ RestartAll(c) \/ Export(c) \/ Declined(c) \/ Kill(c)
       \/ Progress(c)
  \/ \E k \in Tunnels : LifetimeOver(k) \/ Revive(k)
  \/ \E h \in hands : HandStarts(h)
  \/ DaemonComesUp

Spec == Init /\ [][Next]_vars

\* Terminals and goroutines go on; nobody has to give a command or to confirm.
FairSpec ==
  /\ Spec
  /\ WF_vars(\E h \in hands : HandStarts(h))
  /\ WF_vars(DaemonComesUp)
  /\ \A c \in Clis : WF_vars(Progress(c))

-----------------------------------------------------------------------------
(* Properties *)

\* What a worker runs with when nobody tells the daemon, and the fields of which
\* nobody does: CMD_START has no compression (daemon.go:549), the takeover's export
\* but the host, the target and the password (main.go:1277).
Fallback ==
  [identity |-> "", delay |-> DefaultDelay, lifetime |-> 0, proto |-> "tcp",
   transport |-> "auto", compress |-> FALSE]
Lost(from) == IF from = "takeover" THEN DOMAIN Fallback ELSE Fields \ Carried

\* config is what is left of these settings on its way into a worker.
LeftOf(asked, config, from) ==
  \A f \in Fields : config[f] = IF f \in Lost(from) THEN Fallback[f] ELSE asked[f]

\* Each setting of a running tunnel is that of one and the same command given for
\* this tunnel, or the fallback of a field that its way loses: nothing is mixed with
\* another tunnel's, another command's or an earlier Config, however restarts, the
\* tick and takeovers pass it on.  But for tunnels a takeover brought, the command
\* is the last one, unless it was given while an older start of the tunnel was under
\* way, which then may win (daemon.go:308, daemon.go:395, main.go:1277).
FromOneCommand ==
  \A k \in Tunnels : Running(k) =>
    \E asked \in accepted[k] :
      /\ LeftOf(asked, worker[k].config, worker[k].from)
      /\ worker[k].from # "takeover" /\ k \notin overtaken => asked = latest[k]

\* "NSSH_TRANSPORT / NSSH_PROTO / NSSH_COMPRESS are passed on to the daemon and its
\* workers" (main.go:97): a tunnel runs with the transport, protocol and compression
\* of a command given for it.
PassedThrough ==
  \A k \in Tunnels : Running(k) =>
    \E asked \in accepted[k] :
      \A f \in {"transport", "proto", "compress"} : worker[k].config[f] = asked[f]

\* The command that --list <user> prints starts the tunnel that is running, as far
\* as it can: a tunnel without a password or for TCP only is not among those
\* (daemon.go:889-903).
RerunKeeps ==
  \A k \in Tunnels : Running(k) =>
    LET config == worker[k].config
        again == LoadConfig(CommandOf(config))
    IN  config.password # "" /\ config.proto # "tcp" =>
          \A f \in {"host", "target", "password", "identity", "proto"} : again[f] = config[f]

\* A tunnel that was started and not stopped comes back from every restart,
\* restart-all, revival and takeover, whatever else happens meanwhile; only a
\* takeover may lose one, which was not running when it made its list or was sent
\* to a daemon that did not answer yet (daemon.go:305, main.go:1092, main.go:1250).
ComesBack ==
  \A k \in Tunnels :
    (k \in wanted /\ ~Running(k)) ~> (Running(k) \/ k \notin wanted \/ k \in missed)
=============================================================================
