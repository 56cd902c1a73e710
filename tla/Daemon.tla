------------------------------- MODULE Daemon -------------------------------
(***************************************************************************)
(* The tunnel supervisor of daemon/daemon.go.                              *)
(*                                                                         *)
(* processLoop is an actor: it alone touches the map d.workers, by running *)
(* the closures other goroutines send through cmdChan.  Everything else is *)
(* concurrent with it: one goroutine per CLI request, one per worker       *)
(* (runWorker), the 30 s ticker and the goroutines the tick spawns.        *)
(*                                                                         *)
(* Identities.  A goroutine that calls startWorker (or registers a client) *)
(* does so at most once per key, so the WorkerInfo it makes is <<g, key>>. *)
(* A *Config made by goroutine g for a key is named <<g, key>> as well: a  *)
(* restarted worker shares the Config pointer of the worker it replaces.   *)
(* The goroutine spawned by tick n for key k is <<n, k>>.                  *)
(*                                                                         *)
(* Time.  The gaps the tick measures (1 min without heartbeat, 2 min       *)
(* without progress, lifetime, 10 min idle) are inputs of the tick: each   *)
(* guard that compares a gap may go either way once the time it starts     *)
(* from has been set.                                                      *)
(***************************************************************************)
EXTENDS Integers, Sequences, FiniteSets

CONSTANTS
  Keys,            \* process keys: generateProcessKey(user, server, port, remote)
  Clients,         \* goroutines serving one CLI request each
  MaxTicks,        \* bound: ticks of the 30 s ticker
  ChanCap,         \* capacity of cmdChan (20 in NewDaemon)
  MaxInFlight,     \* bound: CLI requests being served at once
  MaxOfflineCount, \* offline ticks after which the worker is removed
  Ops,             \* the operations this instance exercises
  None             \* nil

OpNames == {"start", "stop", "restart", "stopAll", "register", "list",
            "takeoverStop", "stopDaemon", "signal", "lifetime", "panic"}

ASSUME BoundsAssumption ==
  /\ MaxTicks \in Nat
  /\ ChanCap \in Nat \ {0}
  /\ MaxInFlight \in Nat \ {0}
  /\ MaxOfflineCount \in Nat \ {0}
  /\ Ops \subseteq OpNames

Spawned == (1..MaxTicks) \X Keys
Goroutines == Clients \cup Spawned
Workers == Goroutines \X Keys          \* also the names of Config pointers
KeyOf(w) == w[2]

\* A request's goroutine is none of those the ticks spawn.
ASSUME ApartAssumption == Clients \cap Spawned = {}

ASSUME NoneAssumption == None \notin Workers /\ None \notin Keys

VARIABLES
  workers,    \* d.workers: [Keys -> Workers \cup {None}], nil entry = absent
  cmdChan,    \* d.cmdChan: the queued closures
  loop,       \* where processLoop is: between closures, or inside a long one
  info,       \* the WorkerInfo objects with the pc of their runWorker
  callback,   \* config.OnTunnelEstablished: the worker the closure captured
  gor,        \* request handlers and spawned goroutines
  ticks,      \* ticks sent so far
  idleStart,  \* d.idleStartTime is set
  alive       \* the process has not exited

vars == <<workers, cmdChan, loop, info, callback, gor, ticks, idleStart, alive>>

-----------------------------------------------------------------------------
(* Types *)

\* none: not allocated; ext: a registered entry, which has no goroutine, no
\* CancelFunc, no DoneChan and no Config; born: goroutine spawned, not yet run;
\* conn, up: inside ConnectAndTunnel before and after the declarations were
\* accepted; back: waiting ReconnectDelay; done: DoneChan closed.
WorkerPc == {"none", "ext", "born", "conn", "up", "back", "done"}

WorkerInfo ==
  [pc: WorkerPc, cancelled: BOOLEAN,
   status: {"offline", "online", "crashed", "migrating"},
   ReconnectNeeded: BOOLEAN, Config: Workers \cup {None},
   OfflineCount: Nat,
   checked: BOOLEAN,    \* LastCheckTime is set
   retried: BOOLEAN]    \* the current connection attempt is not the first

\* How a target spec names its workers; the status a registration reports.
Args == {"", "user", "server", "all", "online", "offline"}

Closure ==
  [op: {"cancelOld", "install", "lookup", "delete", "register",
        "takeoverStop", "list", "tick"},
   g: Goroutines \cup {None}, keys: SUBSET Keys,
   cfg: Workers \cup {None}, arg: Args, n: 0..MaxTicks]

Loop == [pc: {"idle", "tick", "stopWorker", "migrating"}, todo: SUBSET Keys,
         key: Keys \cup {None}, n: 0..MaxTicks]

Goroutine ==
  [op: OpNames \cup {"none", "startWorker"},
   pc: {"idle", "wait", "got", "next", "join", "install", "send", "delete", "done"},
   arg: Args, keys: SUBSET Keys, todo: SUBSET Workers,
   cur: Workers \cup {None}, hit: SUBSET Workers, ans: {"none", "ok", "err"}]

TypeOK ==
  /\ workers \in [Keys -> Workers \cup {None}]
  /\ cmdChan \in Seq(Closure)
  /\ Len(cmdChan) <= ChanCap
  /\ loop \in Loop
  /\ info \in [Workers -> WorkerInfo]
  /\ callback \in [Workers -> Workers \cup {None}]
  /\ gor \in [Goroutines -> Goroutine]
  /\ ticks \in 0..MaxTicks
  /\ idleStart \in BOOLEAN
  /\ alive \in BOOLEAN

-----------------------------------------------------------------------------
(* Helpers *)

NoInfo == [pc |-> "none", cancelled |-> FALSE, status |-> "offline",
           ReconnectNeeded |-> FALSE, Config |-> None,
           OfflineCount |-> 0, checked |-> FALSE, retried |-> FALSE]

NoGoroutine == [op |-> "none", pc |-> "idle", arg |-> "", keys |-> {},
                todo |-> {}, cur |-> None, hit |-> {}, ans |-> "none"]

IdleLoop == [pc |-> "idle", todo |-> {}, key |-> None, n |-> 0]

Running == {"born", "conn", "up", "back"}      \* a runWorker goroutine exists
Live(w) == info[w].pc \in Running /\ ~info[w].cancelled

Mapped == {workers[k] : k \in Keys} \ {None}
Existing(k) == {workers[k]} \ {None}
Present == {k \in Keys : workers[k] # None}

\* CancelFunc of every worker of W that has one.
CancelFunc(W) ==
  [w \in Workers |->
     IF w \in W /\ info[w].pc # "ext"
       THEN [info[w] EXCEPT !.cancelled = TRUE] ELSE info[w]]

Finished(w) == info[w].pc \in {"done", "ext"}

\* Mutant: stopWorker does not wait for the worker.
DoneChanIgnored(w) == TRUE

\* <-worker.DoneChan returns; a registered entry has no DoneChan to wait for.
DoneChanClosed(w) == Finished(w)

\* Mutant: an unbounded queue instead of a channel.
SendUnbounded(c) == cmdChan' = Append(cmdChan, c)

\* d.cmdChan <- c: blocks while the channel is full.
Send(c) == Len(cmdChan) < ChanCap /\ cmdChan' = Append(cmdChan, c)

Cmd(op, g, keys, cfg, arg, n) ==
  [op |-> op, g |-> g, keys |-> keys, cfg |-> cfg, arg |-> arg, n |-> n]

\* Keys a delete closure removes (stopWorker: one; stop-all: the snapshot's).
DeletedKeys(W) == {KeyOf(w) : w \in W}

Many(S) == \E x, y \in S : x # y

-----------------------------------------------------------------------------
Init ==
  /\ workers = [k \in Keys |-> None]
  /\ cmdChan = <<>>
  /\ loop = IdleLoop
  /\ info = [w \in Workers |-> NoInfo]
  /\ callback = [w \in Workers |-> None]
  /\ gor = [g \in Goroutines |-> NoGoroutine]
  /\ ticks = 0
  /\ idleStart = FALSE
  /\ alive = TRUE

-----------------------------------------------------------------------------
(* CLI requests: the first send of each handler *)

At(g, pc) == alive /\ gor[g].pc = pc

InFlight == {g \in Clients : gor[g].pc \notin {"idle", "done"}}

Accept(g, op) ==
  /\ alive /\ op \in Ops
  /\ g \in Clients
  /\ gor[g].pc = "idle"
  /\ Cardinality(InFlight) < MaxInFlight

Serve(g, op, pc, arg, keys, ans) ==
  gor' = [gor EXCEPT ![g] = [NoGoroutine EXCEPT !.op = op, !.pc = pc,
                               !.arg = arg, !.keys = keys, !.ans = ans]]

\* handleStartTransport, validateConfig failed.
StartInvalid(g, k) ==
  /\ Accept(g, "start")
  /\ Serve(g, "start", "done", "", {k}, "err")
  /\ UNCHANGED <<workers, cmdChan, loop, info, callback, ticks, idleStart, alive>>

\* handleStartTransport up to the wait for the old process.
Start(g, k) ==
  /\ Accept(g, "start")
  /\ Send(Cmd("cancelOld", g, {k}, None, "", 0))
  /\ Serve(g, "start", "wait", "", {k}, "none")
  /\ UNCHANGED <<workers, loop, info, callback, ticks, idleStart, alive>>

\* The rest of handleStartTransport: startWorker only queues the installation.
StartSend(g) ==
  /\ gor[g].op = "start" /\ At(g, "got")
  /\ \E k \in gor[g].keys : Send(Cmd("install", g, {k}, <<g, k>>, "", 0))
  /\ gor' = [gor EXCEPT ![g] = [@ EXCEPT !.pc = "done", !.ans = "ok"]]
  /\ UNCHANGED <<workers, loop, info, callback, ticks, idleStart, alive>>

\* handleProcessAction and handleAllProcessesAction up to the wait for the
\* matching workers; keys are those the target spec matches, mode tells
\* "user", "user@server..." and "user@all" apart.
Action(g, op, mode, keys) ==
  /\ op \in {"stop", "restart"}
  /\ Accept(g, op)
  /\ Send(Cmd("lookup", g, keys, None, "", 0))
  /\ Serve(g, op, "wait", mode, keys, "none")
  /\ UNCHANGED <<workers, loop, info, callback, ticks, idleStart, alive>>

StopAll(g) ==
  /\ Accept(g, "stopAll")
  /\ Send(Cmd("lookup", g, Keys, None, "", 0))
  /\ Serve(g, "stopAll", "wait", "", Keys, "none")
  /\ UNCHANGED <<workers, loop, info, callback, ticks, idleStart, alive>>

\* handleRegisterTransport does not wait for its closure.
Register(g, k, status) ==
  /\ Accept(g, "register")
  /\ Send(Cmd("register", g, {k}, None, status, 0))
  /\ Serve(g, "register", "done", status, {k}, "ok")
  /\ UNCHANGED <<workers, loop, info, callback, ticks, idleStart, alive>>

\* Commands that read the map: list, get-command, log, takeover export.
List(g) ==
  /\ Accept(g, "list")
  /\ Send(Cmd("list", g, {}, None, "", 0))
  /\ Serve(g, "list", "wait", "", {}, "none")
  /\ UNCHANGED <<workers, loop, info, callback, ticks, idleStart, alive>>

TakeoverStop(g) ==
  /\ Accept(g, "takeoverStop")
  /\ Send(Cmd("takeoverStop", g, {}, None, "", 0))
  /\ Serve(g, "takeoverStop", "done", "", {}, "ok")
  /\ UNCHANGED <<workers, loop, info, callback, ticks, idleStart, alive>>

\* handleStopDaemonTransport answers; the process exits 200 ms later.
StopDaemon(g) ==
  /\ Accept(g, "stopDaemon")
  /\ Serve(g, "stopDaemon", "send", "", {}, "ok")
  /\ UNCHANGED <<workers, cmdChan, loop, info, callback, ticks, idleStart, alive>>

-----------------------------------------------------------------------------
(* Handlers after the lookup *)

\* No worker matches, or "user" matches several.
Refuse(g) ==
  /\ gor[g].op \in {"stop", "restart", "stopAll"} /\ At(g, "got")
  /\ gor[g].todo = {} \/ (gor[g].arg = "user" /\ Many(gor[g].todo))
  /\ gor' = [gor EXCEPT ![g] = [@ EXCEPT !.pc = "done", !.ans = "err"]]
  /\ UNCHANGED <<workers, cmdChan, loop, info, callback, ticks, idleStart, alive>>

\* Mutant: stopWorker waits for a worker it never cancelled.
PerformActionNoCancel(g, w) ==
  /\ gor[g].op \in {"stop", "restart"}
  /\ \/ At(g, "got") /\ ~(gor[g].arg = "user" /\ Many(gor[g].todo))
     \/ At(g, "next")
  /\ w \in gor[g].todo
  /\ gor' = [gor EXCEPT ![g] = [@ EXCEPT !.pc = "join", !.cur = w,
               !.hit = gor[g].hit \cup {w},
               !.todo = IF gor[g].arg = "all" THEN gor[g].todo \ {w} ELSE {}]]
  /\ UNCHANGED <<workers, cmdChan, loop, info, callback, ticks, idleStart, alive>>

\* performAction on the next worker; stopWorker cancels it.  "user@server"
\* with several matches acts on processes[0], which map order decides.
PerformAction(g, w) ==
  /\ gor[g].op \in {"stop", "restart"}
  /\ \/ At(g, "got") /\ ~(gor[g].arg = "user" /\ Many(gor[g].todo))
     \/ At(g, "next")
  /\ w \in gor[g].todo
  /\ info' = CancelFunc({w})
  /\ gor' = [gor EXCEPT ![g] = [@ EXCEPT !.pc = "join", !.cur = w,
               !.hit = gor[g].hit \cup {w},
               !.todo = IF gor[g].arg = "all" THEN gor[g].todo \ {w} ELSE {}]]
  /\ UNCHANGED <<workers, cmdChan, loop, callback, ticks, idleStart, alive>>

\* What the handler does after an action on one worker: the next one, or the reply.
NextPc(g) == IF gor[g].todo = {} THEN "done" ELSE "next"
NextAns(g) == IF gor[g].todo = {} THEN "ok" ELSE "none"

\* The rest of stopWorker: wait for DoneChan, then queue the deletion of the key.
StopWorker(g) ==
  /\ At(g, "join")
  /\ DoneChanClosed(gor[g].cur)
  /\ Send(Cmd("delete", g, DeletedKeys({gor[g].cur}), None, "", 0))
  /\ gor' = IF gor[g].op = "stop"
              THEN [gor EXCEPT ![g] = [@ EXCEPT !.pc = NextPc(g), !.ans = NextAns(g)]]
              ELSE [gor EXCEPT ![g] = [@ EXCEPT !.pc = "install"]]
  /\ UNCHANGED <<workers, loop, info, callback, ticks, idleStart, alive>>

\* The Config performAction("restart") starts from: the old worker's pointer,
\* or a new one for a registered entry.
RestartConfig(g, w) ==
  IF info[w].Config # None THEN info[w].Config ELSE <<g, KeyOf(w)>>

\* performAction("restart") after the 1 s sleep.
RestartSend(g) ==
  /\ At(g, "install")
  /\ Send(Cmd("install", g, {KeyOf(gor[g].cur)},
              RestartConfig(g, gor[g].cur), "", 0))
  /\ gor' = [gor EXCEPT ![g] = [@ EXCEPT !.pc = NextPc(g), !.ans = NextAns(g)]]
  /\ UNCHANGED <<workers, loop, info, callback, ticks, idleStart, alive>>

\* handleStopAllTransport cancels the snapshot, waits for nobody...
StopAllCancel(g) ==
  /\ gor[g].op = "stopAll" /\ At(g, "got") /\ gor[g].todo # {}
  /\ info' = CancelFunc(gor[g].todo)
  /\ gor' = [gor EXCEPT ![g] = [@ EXCEPT !.pc = "delete", !.hit = gor[g].todo]]
  /\ UNCHANGED <<workers, cmdChan, loop, callback, ticks, idleStart, alive>>

\* Mutant: stop-all leaves the cancelled workers in the map.
StopAllNoDelete(g) ==
  /\ gor[g].op = "stopAll" /\ At(g, "delete")
  /\ gor' = [gor EXCEPT ![g] = [@ EXCEPT !.pc = "done", !.ans = "ok"]]
  /\ UNCHANGED <<workers, cmdChan, loop, info, callback, ticks, idleStart, alive>>

\* ... and queues the deletion of the snapshot's keys.
StopAllSend(g) ==
  /\ gor[g].op = "stopAll" /\ At(g, "delete")
  /\ Send(Cmd("delete", g, DeletedKeys(gor[g].hit), None, "", 0))
  /\ gor' = [gor EXCEPT ![g] = [@ EXCEPT !.pc = "done", !.ans = "ok"]]
  /\ UNCHANGED <<workers, loop, info, callback, ticks, idleStart, alive>>

\* go d.startWorker(p.Config), spawned by a tick.
SpawnedStart(g) ==
  /\ gor[g].op = "startWorker" /\ At(g, "send")
  /\ Send(Cmd("install", g, gor[g].keys, gor[g].cur, "", 0))
  /\ gor' = [gor EXCEPT ![g] = [@ EXCEPT !.pc = "done"]]
  /\ UNCHANGED <<workers, loop, info, callback, ticks, idleStart, alive>>

-----------------------------------------------------------------------------
(* processLoop: one closure at a time *)

LoopAt(pc) == alive /\ loop.pc = pc
LoopTakes(op) == LoopAt("idle") /\ cmdChan # <<>> /\ Head(cmdChan).op = op
Cur == Head(cmdChan)
Pop == cmdChan' = Tail(cmdChan)

LoopCancelOld ==
  /\ LoopTakes("cancelOld") /\ Pop
  /\ info' = CancelFunc(UNION {Existing(k) : k \in Cur.keys})
  /\ gor' = [gor EXCEPT ![Cur.g] = [@ EXCEPT !.pc = "got"]]
  /\ UNCHANGED <<workers, loop, callback, ticks, idleStart, alive>>

NewWorker(cfg) == [NoInfo EXCEPT !.pc = "born", !.Config = cfg]

\* Mutant: the existing worker is overwritten, not cancelled.
InstallOver(c, k) ==
  /\ info' = [info EXCEPT ![<<c.g, k>>] = NewWorker(c.cfg)]
  /\ workers' = [workers EXCEPT ![k] = <<c.g, k>>]
  /\ idleStart' = FALSE

\* Mutant: a key that is taken is left alone.
InstallUnlessPresent(c, k) ==
  IF workers[k] = None
    THEN /\ info' = [info EXCEPT ![<<c.g, k>>] = NewWorker(c.cfg)]
         /\ workers' = [workers EXCEPT ![k] = <<c.g, k>>]
         /\ idleStart' = FALSE
    ELSE UNCHANGED <<info, workers, idleStart>>

\* The closure of startWorker.  info is indexed by the config's key: the key the
\* closure was queued for.
Install(c, k) ==
  /\ info' = [CancelFunc(Existing(k)) EXCEPT ![<<c.g, k>>] = NewWorker(c.cfg)]
  /\ workers' = [workers EXCEPT ![k] = <<c.g, k>>]
  /\ idleStart' = FALSE

LoopInstall ==
  /\ LoopTakes("install") /\ Pop
  /\ \E k \in Cur.keys : Install(Cur, k)
  /\ UNCHANGED <<loop, callback, gor, ticks, alive>>

LoopLookup ==
  /\ LoopTakes("lookup") /\ Pop
  /\ gor' = [gor EXCEPT ![Cur.g] = [@ EXCEPT !.pc = "got",
               !.todo = UNION {Existing(k) : k \in Cur.keys}]]
  /\ UNCHANGED <<workers, loop, info, callback, ticks, idleStart, alive>>

LoopDelete ==
  /\ LoopTakes("delete") /\ Pop
  /\ workers' = [k \in Keys |-> IF k \in Cur.keys THEN None ELSE workers[k]]
  /\ idleStart' = (idleStart \/ Present \subseteq Cur.keys)
  /\ UNCHANGED <<loop, info, callback, gor, ticks, alive>>

\* A heartbeat for a known key overwrites the status; an unknown key gets an entry.
LoopRegister ==
  /\ LoopTakes("register") /\ Pop
  /\ \E k \in Cur.keys :
       IF workers[k] # None
         THEN /\ info' = [info EXCEPT ![workers[k]] = [@ EXCEPT !.status = Cur.arg]]
              /\ UNCHANGED workers
         ELSE /\ info' = [info EXCEPT ![<<Cur.g, k>>] =
                            [NoInfo EXCEPT !.pc = "ext", !.status = Cur.arg]]
              /\ workers' = [workers EXCEPT ![k] = <<Cur.g, k>>]
  /\ UNCHANGED <<loop, callback, gor, ticks, idleStart, alive>>

LoopList ==
  /\ LoopTakes("list") /\ Pop
  /\ gor' = [gor EXCEPT ![Cur.g] = [@ EXCEPT !.pc = "done", !.ans = "ok"]]
  /\ UNCHANGED <<workers, loop, info, callback, ticks, idleStart, alive>>

\* handleTakeoverStop's closure before its 5 s sleep...
LoopTakeoverMark ==
  /\ LoopTakes("takeoverStop") /\ Pop
  /\ info' = [w \in Workers |->
                IF w \in Mapped
                  THEN [info[w] EXCEPT !.ReconnectNeeded = FALSE,
                                       !.status = "migrating"]
                  ELSE info[w]]
  /\ loop' = [loop EXCEPT !.pc = "migrating"]
  /\ UNCHANGED <<workers, callback, gor, ticks, idleStart, alive>>

\* Mutant: the map is emptied without cancelling.
TakeoverSweepNoCancel ==
  /\ LoopAt("migrating")
  /\ workers' = [k \in Keys |-> None]
  /\ loop' = [loop EXCEPT !.pc = "idle"]
  /\ UNCHANGED <<cmdChan, info, callback, gor, ticks, idleStart, alive>>

\* ... and after it.  idleStartTime is left alone.
LoopTakeoverSweep ==
  /\ LoopAt("migrating")
  /\ info' = CancelFunc(Mapped)
  /\ workers' = [k \in Keys |-> None]
  /\ loop' = [loop EXCEPT !.pc = "idle"]
  /\ UNCHANGED <<cmdChan, callback, gor, ticks, idleStart, alive>>

-----------------------------------------------------------------------------
(* The 30 s tick *)

TickSend ==
  /\ alive /\ ticks < MaxTicks
  /\ Send(Cmd("tick", None, {}, None, "", ticks + 1))
  /\ ticks' = ticks + 1
  /\ UNCHANGED <<workers, loop, info, callback, gor, idleStart, alive>>

LoopTick ==
  /\ LoopTakes("tick") /\ Pop
  /\ loop' = [pc |-> "tick", todo |-> Present, key |-> None, n |-> Cur.n]
  /\ UNCHANGED <<workers, info, callback, gor, ticks, idleStart, alive>>

InTick(k) == LoopAt("tick") /\ k \in loop.todo
TickDone(k) == loop' = [loop EXCEPT !.todo = @ \ {k}]

NeedsReconnect(w) ==
  info[w].status = "offline" /\ info[w].ReconnectNeeded /\ info[w].Config # None

\* LastRegisterTime and LastConnectTime are set when runWorker starts.  (A tick that
\* finds LastConnectTime zero sets it too; a goroutine that has not begun to run
\* two minutes later is left out.)
TimesSet(w) == info[w].pc # "born"

\* The heartbeat goroutine lives as long as one connection attempt, or until the
\* worker is cancelled, and beats 30 s into the attempt: a first attempt that is not
\* cancelled never misses a minute, later ones may.
HeartbeatMayLapse(w) ==
  \/ info[w].pc \in {"ext", "back", "done"}
  \/ info[w].retried
  \/ info[w].cancelled

\* go d.startWorker(p.Config)
GoStartWorker(k) ==
  gor' = [gor EXCEPT ![<<loop.n, k>>] =
            [NoGoroutine EXCEPT !.op = "startWorker", !.pc = "send",
               !.keys = {k}, !.cur = info[workers[k]].Config]]

TickReconnect(k) ==
  /\ InTick(k) /\ NeedsReconnect(workers[k])
  /\ info' = [info EXCEPT ![workers[k]] = [@ EXCEPT !.ReconnectNeeded = FALSE]]
  /\ GoStartWorker(k)
  /\ TickDone(k)
  /\ UNCHANGED <<workers, cmdChan, callback, ticks, idleStart, alive>>

\* No connect attempt ended for noProgressRestartTimeout.
TickNoProgress(k) ==
  /\ InTick(k) /\ ~NeedsReconnect(workers[k])
  /\ info[workers[k]].status # "online"
  /\ info[workers[k]].Config # None
  /\ TimesSet(workers[k])
  /\ GoStartWorker(k)
  /\ TickDone(k)
  /\ UNCHANGED <<workers, cmdChan, info, callback, ticks, idleStart, alive>>

\* No heartbeat for a minute: offline, and after MaxOfflineCount such ticks the
\* worker is stopped from inside the loop.
TickNoHeartbeat(k) ==
  LET w == workers[k]
      remove == info[w].OfflineCount + 1 >= MaxOfflineCount
  IN
  /\ InTick(k) /\ ~NeedsReconnect(w) /\ TimesSet(w) /\ HeartbeatMayLapse(w)
  /\ info' = [info EXCEPT ![w] = [@ EXCEPT !.status = "offline",
                !.ReconnectNeeded = TRUE,
                !.OfflineCount = info[w].OfflineCount + 1,
                !.cancelled = info[w].cancelled \/ (remove /\ info[w].pc # "ext")]]
  /\ loop' = [loop EXCEPT !.todo = @ \ {k},
                !.pc = IF remove THEN "stopWorker" ELSE @,
                !.key = IF remove THEN k ELSE @]
  /\ UNCHANGED <<workers, cmdChan, callback, gor, ticks, idleStart, alive>>

\* stopWorker inside processLoop: waits for DoneChan, then for room in the very
\* channel this goroutine drains.
TickStopWorker ==
  /\ LoopAt("stopWorker")
  /\ DoneChanClosed(workers[loop.key])
  /\ Send(Cmd("delete", None, {loop.key}, None, "", 0))
  /\ loop' = [loop EXCEPT !.pc = "tick", !.key = None]
  /\ UNCHANGED <<workers, info, callback, gor, ticks, idleStart, alive>>

\* CheckWorkerLifetime gets past its early returns; expired: MaxLifetime is over.
LifetimeOver(w, expired) ==
  /\ expired /\ "lifetime" \in Ops /\ TimesSet(w)
  /\ info[w].status = "online" /\ info[w].Config # None

\* A fresh heartbeat (or none yet): reset the offline count, check the lifetime.
\* No code path adds transferred bytes, so from the second check on the worker
\* counts as idle.
TickHealthy(k, expired) ==
  LET w == workers[k]
      check == LifetimeOver(w, expired)
  IN
  /\ InTick(k) /\ ~NeedsReconnect(w)
  /\ info' = [info EXCEPT ![w] = [@ EXCEPT
       !.OfflineCount = IF TimesSet(w) /\ info[w].status = "online" THEN 0
                        ELSE info[w].OfflineCount,
       !.checked = info[w].checked \/ check]]
  /\ IF check /\ info[w].checked
       THEN gor' = [gor EXCEPT ![<<loop.n, k>>] =
                      [NoGoroutine EXCEPT !.op = "restart", !.pc = "next",
                         !.keys = {k}, !.todo = {w}]]
       ELSE UNCHANGED gor
  /\ TickDone(k)
  /\ UNCHANGED <<workers, cmdChan, callback, ticks, idleStart, alive>>

\* The end of the tick: idle bookkeeping, and the exit after 10 idle minutes.
TickEnd ==
  /\ LoopAt("tick") /\ loop.todo = {}
  /\ loop' = [loop EXCEPT !.pc = "idle"]
  /\ \/ /\ idleStart' = (Present = {})
        /\ UNCHANGED alive
     \/ /\ Present = {} /\ idleStart
        /\ alive' = FALSE
        /\ UNCHANGED idleStart
  /\ UNCHANGED <<workers, cmdChan, info, callback, gor, ticks>>

-----------------------------------------------------------------------------
(* runWorker, one goroutine per worker *)

WorkerAt(w, pcs) == alive /\ info[w].pc \in pcs

\* The head of runWorker: it points the Config's callback at this worker.
WorkerRun(w) ==
  /\ WorkerAt(w, {"born"})
  /\ info' = [info EXCEPT ![w] = [@ EXCEPT !.pc = "conn", !.status = "offline"]]
  /\ callback' = [callback EXCEPT ![info[w].Config] = w]
  /\ UNCHANGED <<workers, cmdChan, loop, gor, ticks, idleStart, alive>>

\* The worker config.OnTunnelEstablished() marks online.
Established(w) == callback[info[w].Config]

\* ConnectAndTunnel has every declaration accepted.  Cancellation is not
\* looked at before its main loop.
WorkerEstablished(w) ==
  /\ WorkerAt(w, {"conn"})
  /\ info' = [v \in Workers |->
                [info[v] EXCEPT
                   !.pc = IF v = w THEN "up" ELSE info[v].pc,
                   !.status = IF v = Established(w) THEN "online" ELSE info[v].status]]
  /\ UNCHANGED <<workers, cmdChan, loop, callback, gor, ticks, idleStart, alive>>

\* ConnectAndTunnel returns: cancelled, refused, failed or disconnected.
WorkerReturn(w) ==
  /\ WorkerAt(w, {"conn", "up"})
  /\ info' = [info EXCEPT ![w] = [@ EXCEPT !.status = "offline", !.retried = FALSE,
                !.pc = IF info[w].cancelled THEN "done" ELSE "back"]]
  /\ UNCHANGED <<workers, cmdChan, loop, callback, gor, ticks, idleStart, alive>>

\* The reconnect delay is over; select may prefer it to a ready ctx.Done.
WorkerRetry(w) ==
  /\ WorkerAt(w, {"back"})
  /\ info' = [info EXCEPT ![w] = [@ EXCEPT !.pc = "conn", !.retried = TRUE]]
  /\ UNCHANGED <<workers, cmdChan, loop, callback, gor, ticks, idleStart, alive>>

WorkerQuit(w) ==
  /\ WorkerAt(w, {"back"}) /\ info[w].cancelled
  /\ info' = [info EXCEPT ![w] = [@ EXCEPT !.pc = "done"]]
  /\ UNCHANGED <<workers, cmdChan, loop, callback, gor, ticks, idleStart, alive>>

\* recover() in runWorker.
WorkerPanic(w) ==
  /\ "panic" \in Ops
  /\ WorkerAt(w, {"conn", "up"})
  /\ info' = [info EXCEPT ![w] = [@ EXCEPT !.status = "crashed", !.retried = FALSE,
                                            !.pc = "done"]]
  /\ UNCHANGED <<workers, cmdChan, loop, callback, gor, ticks, idleStart, alive>>

-----------------------------------------------------------------------------
\* SIGTERM, SIGINT, the agent's death; or 200 ms after --stop-daemon.  The
\* worker goroutines end with the process.
Exit ==
  /\ alive
  /\ \/ "signal" \in Ops
     \/ \E g \in Clients : gor[g].op = "stopDaemon" /\ gor[g].pc = "send"
  /\ alive' = FALSE
  /\ UNCHANGED <<workers, cmdChan, loop, info, callback, gor, ticks, idleStart>>

Request(g) ==
  \/ \E k \in Keys : StartInvalid(g, k) \/ Start(g, k)
  \/ \E op \in {"stop", "restart"}, mode \in {"user", "server", "all"},
        keys \in SUBSET Keys \ {{}} : Action(g, op, mode, keys)
  \/ StopAll(g)
  \/ \E k \in Keys, status \in {"online", "offline"} : Register(g, k, status)
  \/ List(g)
  \/ TakeoverStop(g)
  \/ StopDaemon(g)

HandlerStep(g) ==
  \/ StartSend(g)
  \/ Refuse(g)
  \/ \E w \in Workers : PerformAction(g, w)
  \/ StopWorker(g)
  \/ RestartSend(g)
  \/ StopAllCancel(g)
  \/ StopAllSend(g)
  \/ SpawnedStart(g)

TickStep ==
  \/ \E k \in Keys : \/ TickReconnect(k)
                     \/ TickNoProgress(k)
                     \/ TickNoHeartbeat(k)
                     \/ \E expired \in BOOLEAN : TickHealthy(k, expired)
  \/ TickStopWorker
  \/ TickEnd

LoopStep ==
  \/ LoopCancelOld
  \/ LoopInstall
  \/ LoopLookup
  \/ LoopDelete
  \/ LoopRegister
  \/ LoopList
  \/ LoopTakeoverMark
  \/ LoopTakeoverSweep
  \/ LoopTick
  \/ TickStep

WorkerStep(w) ==
  \/ WorkerRun(w)
  \/ WorkerEstablished(w)
  \/ WorkerReturn(w)
  \/ WorkerRetry(w)
  \/ WorkerQuit(w)
  \/ WorkerPanic(w)

Next ==
  \/ \E g \in Clients : Request(g)
  \/ \E g \in Goroutines : HandlerStep(g)
  \/ LoopStep
  \/ TickSend
  \/ \E w \in Workers : WorkerStep(w)
  \/ Exit

Spec == Init /\ [][Next]_vars

-----------------------------------------------------------------------------
(* Fairness: the Go scheduler runs every runnable goroutine, select does not *)
(* starve a ready case, and the main loop of an established tunnel looks at  *)
(* ctx.Done.  Nothing is assumed of the ticker, of clients or of the remote  *)
(* server.  In particular a worker may stay in "conn" for ever, cancelled or *)
(* not: udp-forward and the channel of the data plane are awaited without a  *)
(* timeout and without a look at ctx.                                        *)

WorkerGoesOn(w) ==
  \/ WorkerRun(w)
  \/ /\ info[w].cancelled
     /\ WorkerQuit(w) \/ (info[w].pc = "up" /\ WorkerReturn(w))

Fairness ==
  /\ WF_vars(LoopStep)
  /\ \A g \in Goroutines : WF_vars(HandlerStep(g))
  /\ \A w \in Workers : WF_vars(WorkerGoesOn(w))

FairSpec == Spec /\ Fairness

-----------------------------------------------------------------------------
(* Properties *)

\* No goroutine, closure or handler is on its way to change the map.
Quiescent ==
  /\ alive /\ cmdChan = <<>> /\ loop.pc = "idle"
  /\ \A g \in Goroutines : gor[g].pc \in {"idle", "done"}

\* stop answered with success means that runWorker of every worker it chose has
\* returned (stopWorker waits for DoneChan before it replies).
StopMeansDone ==
  \A g \in Goroutines :
    gor[g].op \in {"stop", "restart"} /\ gor[g].ans = "ok" =>
      /\ gor[g].hit # {}
      /\ \A w \in gor[g].hit : Finished(w)

\* A restart never runs the new worker while the one it stopped still holds its
\* SSH session (and with it the remote port), unlike start, which overlaps them.
RestartNeverOverlaps ==
  \A g \in Goroutines : \A w \in gor[g].hit :
    /\ gor[g].op = "restart"
    /\ info[<<g, KeyOf(w)>>].pc # "none"
    => Finished(w)

\* An entry is only ever overwritten after its CancelFunc was called: startWorker
\* cancels whatever it finds under the key at the moment it installs.
ReplacedIsCancelled ==
  [][\A k \in Keys :
       workers[k] # None /\ workers'[k] # None /\ workers'[k] # workers[k] =>
         info'[workers[k]].cancelled \/ info'[workers[k]].pc = "ext"]_vars

\* No stop, restart, lifetime restart or stop-all has begun.
NoDeletions == \A g \in Goroutines : gor[g].op \notin {"stop", "restart", "stopAll"}

\* As long as nothing has begun that deletes by key, every worker that still wants
\* to run is the one filed under its key, hence visible to list, stop and the tick;
\* so there is at most one per key, whatever starts, registrations, takeovers and
\* restarts of the tick interleave.
NoOrphan ==
  alive /\ NoDeletions => \A w \in Workers : Live(w) => workers[KeyOf(w)] = w

\* --list shows every running tunnel once nothing is under way.
ListShowsRunning ==
  Quiescent => \A w \in Workers : Live(w) /\ info[w].pc = "up" => w \in Mapped

\* The worker is inside ConnectAndTunnel before its declarations were accepted.
Connecting(w) == info[w].pc = "conn"

\* stopWorker, called by the tick inside processLoop, waits for w.
LoopWaitsFor(w) == loop.pc = "stopWorker" /\ workers[loop.key] = w

\* The tick's stopWorker sends into the full channel only processLoop drains.
LoopDeadlocked ==
  /\ loop.pc = "stopWorker" /\ DoneChanClosed(workers[loop.key])
  /\ Len(cmdChan) = ChanCap

\* A request waits for ever for only three reasons: the daemon exits, processLoop
\* blocks on its own full channel, or the worker the handler itself or processLoop
\* waits for (<-DoneChan in stopWorker) never comes back from connecting.  No other
\* order of requests, ticks, cancellations and a full channel loses an answer.
RequestsAnswered ==
  \A g \in Clients :
    gor[g].pc \notin {"idle", "done"} ~>
      \/ gor[g].pc = "done"
      \/ ~alive \/ LoopDeadlocked
      \/ \E w \in Workers :
           [](Connecting(w) /\ (LoopWaitsFor(w) \/ (gor[g].pc = "join" /\ gor[g].cur = w)))

\* An entry whose worker was cancelled does not stay in the map: whoever cancels
\* goes on to replace or delete it, so --list does not show a dead tunnel for ever,
\* unless that worker never comes back from connecting or processLoop is stuck.
NoZombieEntry ==
  \A w \in Workers :
    w \in Mapped /\ info[w].cancelled ~>
      \/ w \notin Mapped
      \/ ~alive \/ LoopDeadlocked
      \/ \E v \in Workers : [](Connecting(v) /\ (v = w \/ LoopWaitsFor(v)))

\* A start that was answered with success runs a worker, unless the daemon exits
\* or processLoop is stuck: a start never waits for the worker it replaces, so it
\* gets through even when that one hangs while connecting.
AcceptedStartRuns ==
  \A g \in Clients : \A k \in Keys :
    gor[g].op = "start" /\ gor[g].ans = "ok" /\ gor[g].keys = {k} ~>
      \/ info[<<g, k>>].pc # "none"
      \/ ~alive \/ LoopDeadlocked
      \/ \E v \in Workers : [](Connecting(v) /\ LoopWaitsFor(v))
=============================================================================
