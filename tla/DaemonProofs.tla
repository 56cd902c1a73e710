---------------------------- MODULE DaemonProofs ----------------------------
(* Theorems about Daemon, for every number of clients, keys and ticks. *)
EXTENDS Daemon, TLAPS, SequenceTheorems

-----------------------------------------------------------------------------
(* Type correctness.  TypeOK is not inductive: a nil goroutine in an install *)
(* closure would file a worker that does not exist, so the payload of every  *)
(* queued closure and of every handler has to be tracked.                    *)

ClosureOK(c) ==
  /\ c.op \in {"install", "register"} => c.g \in Goroutines
  /\ c.op = "install" => c.cfg \in Workers
  /\ c.op = "register" => c.arg \in {"online", "offline"}

QueueOK == \A i \in 1..Len(cmdChan) : ClosureOK(cmdChan[i])

HandlersOK ==
  \A g \in Goroutines :
    /\ gor[g].pc \in {"join", "install"} => gor[g].cur \in Workers
    /\ gor[g].op = "startWorker" /\ gor[g].pc = "send" => gor[g].cur \in Workers

LoopOK ==
  /\ loop.pc = "stopWorker" => loop.key \in Keys
  /\ loop.pc \in {"tick", "stopWorker"} => \A k \in loop.todo : workers[k] # None

TypeInv == TypeOK /\ QueueOK /\ HandlersOK /\ LoopOK

\* d.cmdChan <- c keeps the queue well formed and within its capacity.
LEMMA SendOK ==
  ASSUME cmdChan \in Seq(Closure), QueueOK, ChanCap \in Nat,
         NEW c \in Closure, ClosureOK(c), Send(c)
  PROVE  /\ cmdChan' \in Seq(Closure)
         /\ Len(cmdChan') <= ChanCap
         /\ QueueOK'
  BY DEF Send, QueueOK

LEMMA ZeroTick == 0 \in 0..MaxTicks
  BY BoundsAssumption

ClosureOps == {"cancelOld", "install", "lookup", "delete",
               "register", "takeoverStop", "list", "tick"}

LEMMA CmdType ==
  ASSUME NEW op \in ClosureOps, NEW g \in Goroutines \cup {None},
         NEW keys \in SUBSET Keys, NEW cfg \in Workers \cup {None},
         NEW arg \in Args, NEW n \in 0..MaxTicks
  PROVE  Cmd(op, g, keys, cfg, arg, n) \in Closure
  BY DEF Cmd, Closure, ClosureOps

\* d.cmdChan <- Cmd(...) of an operation whose payload nobody dereferences.
LEMMA SendPlain ==
  ASSUME TypeInv, NEW op \in ClosureOps \ {"install", "register"},
         NEW g \in Goroutines \cup {None},
         NEW keys \in SUBSET Keys, NEW n \in 0..MaxTicks,
         Send(Cmd(op, g, keys, None, "", n))
  PROVE  cmdChan' \in Seq(Closure) /\ Len(cmdChan') <= ChanCap /\ QueueOK'
<1>1. Cmd(op, g, keys, None, "", n) \in Closure
  BY CmdType DEF ClosureOps, Args
<1>2. ClosureOK(Cmd(op, g, keys, None, "", n))
  BY DEF ClosureOK, Cmd
<1> QED BY <1>1, <1>2, SendOK, BoundsAssumption DEF TypeInv, TypeOK

\* d.cmdChan <- the installation of a worker of g.
LEMMA SendInstall ==
  ASSUME TypeInv, NEW g \in Goroutines, NEW keys \in SUBSET Keys,
         NEW cfg \in Workers, Send(Cmd("install", g, keys, cfg, "", 0))
  PROVE  cmdChan' \in Seq(Closure) /\ Len(cmdChan') <= ChanCap /\ QueueOK'
<1>1. Cmd("install", g, keys, cfg, "", 0) \in Closure
  BY CmdType, ZeroTick DEF ClosureOps, Args
<1>2. ClosureOK(Cmd("install", g, keys, cfg, "", 0))
  BY DEF ClosureOK, Cmd
<1> QED BY <1>1, <1>2, SendOK, BoundsAssumption DEF TypeInv, TypeOK

\* Taking the head of the queue leaves a well-formed queue; the head is a closure.
LEMMA PopOK ==
  ASSUME cmdChan \in Seq(Closure), QueueOK, Len(cmdChan) <= ChanCap, ChanCap \in Nat,
         cmdChan # <<>>, Pop
  PROVE  /\ cmdChan' \in Seq(Closure)
         /\ Len(cmdChan') <= ChanCap
         /\ QueueOK'
         /\ Cur \in Closure /\ ClosureOK(Cur)
  BY DEF Pop, Cur, QueueOK

\* CancelFunc only touches the flag of workers.
LEMMA CancelFuncType ==
  ASSUME info \in [Workers -> WorkerInfo], NEW W
  PROVE  CancelFunc(W) \in [Workers -> WorkerInfo]
  BY DEF CancelFunc, WorkerInfo

\* A goroutine may move to any well-formed state that names its worker.
LEMMA GorUpdate ==
  ASSUME TypeInv, NEW g, NEW r \in Goroutine,
         r.pc \in {"join", "install"} => r.cur \in Workers,
         r.op = "startWorker" /\ r.pc = "send" => r.cur \in Workers,
         gor' = [gor EXCEPT ![g] = r]
  PROVE  gor' \in [Goroutines -> Goroutine] /\ HandlersOK'
  BY DEF TypeInv, TypeOK, HandlersOK

\* processLoop answers a goroutine: it goes on at a pc that needs no worker.
LEMMA GorReply ==
  ASSUME TypeInv, NEW g, NEW r,
         g \in Goroutines => r \in Goroutine /\ r.pc \in {"got", "done"},
         gor' = [gor EXCEPT ![g] = r]
  PROVE  gor' \in [Goroutines -> Goroutine] /\ HandlersOK'
<1>1. CASE g \in Goroutines
  BY <1>1, GorUpdate
<1>2. CASE g \notin Goroutines
  BY <1>2 DEF TypeInv, TypeOK, HandlersOK
<1> QED BY <1>1, <1>2

LEMMA GorFields ==
  ASSUME NEW t \in Goroutine, NEW T \in SUBSET Workers
  PROVE  /\ [t EXCEPT !.pc = "got"] \in Goroutine /\ [t EXCEPT !.pc = "got"].pc = "got"
         /\ [t EXCEPT !.pc = "got", !.todo = T] \in Goroutine
         /\ [t EXCEPT !.pc = "got", !.todo = T].pc = "got"
         /\ [t EXCEPT !.pc = "done", !.ans = "ok"] \in Goroutine
         /\ [t EXCEPT !.pc = "done", !.ans = "ok"].pc = "done"
  BY DEF Goroutine

\* The same for a WorkerInfo.
LEMMA InfoUpdate ==
  ASSUME TypeInv, NEW w, NEW r, w \in Workers => r \in WorkerInfo,
         info' = [info EXCEPT ![w] = r]
  PROVE  info' \in [Workers -> WorkerInfo]
  BY DEF TypeInv, TypeOK

LEMMA InitType == Init => TypeInv
<1> SUFFICES ASSUME Init PROVE TypeInv
  OBVIOUS
<1>1. NoInfo \in WorkerInfo
  BY DEF NoInfo, WorkerInfo, WorkerPc
<1>2. NoGoroutine \in Goroutine
  BY DEF NoGoroutine, Goroutine, OpNames, Args
<1>3. IdleLoop \in Loop
  BY BoundsAssumption DEF IdleLoop, Loop
<1>4. cmdChan \in Seq(Closure) /\ Len(cmdChan) <= ChanCap
  BY BoundsAssumption DEF Init
<1>5. TypeOK
  BY <1>1, <1>2, <1>3, <1>4, ZeroTick DEF Init, TypeOK
<1>6. QueueOK
  BY DEF Init, QueueOK
<1>7. HandlersOK
  BY DEF Init, HandlersOK, NoGoroutine
<1>8. LoopOK
  BY DEF Init, LoopOK, IdleLoop
<1> QED BY <1>5, <1>6, <1>7, <1>8 DEF TypeInv

\* The CLI requests.
LEMMA RequestType ==
  ASSUME TypeInv, NEW g \in Clients, Request(g)
  PROVE  TypeInv'
<1>g. g \in Goroutines
  BY DEF Goroutines
<1>s. ASSUME NEW op \in OpNames, NEW pc \in {"wait", "done", "send"}, op # "startWorker",
             NEW arg \in Args, NEW keys \in SUBSET Keys,
             NEW ans \in {"none", "ok", "err"}, Serve(g, op, pc, arg, keys, ans)
      PROVE  gor' \in [Goroutines -> Goroutine] /\ HandlersOK'
  <2>1. [NoGoroutine EXCEPT !.op = op, !.pc = pc, !.arg = arg, !.keys = keys, !.ans = ans]
          \in Goroutine
    BY DEF NoGoroutine, Goroutine
  <2> QED BY <2>1, <1>g, <1>s
          DEF TypeInv, TypeOK, HandlersOK, Serve, Goroutine, NoGoroutine
<1>1. ASSUME NEW k \in Keys, StartInvalid(g, k) PROVE TypeInv'
  <2>1. gor' \in [Goroutines -> Goroutine] /\ HandlersOK'
    BY <1>s, <1>1 DEF StartInvalid, OpNames, Args
  <2> QED BY <2>1, <1>1 DEF StartInvalid, TypeInv, TypeOK, QueueOK, LoopOK
<1>2. ASSUME NEW k \in Keys, Start(g, k) PROVE TypeInv'
  <2>1. gor' \in [Goroutines -> Goroutine] /\ HandlersOK'
    BY <1>s, <1>2 DEF Start, OpNames, Args
  <2>2. cmdChan' \in Seq(Closure) /\ Len(cmdChan') <= ChanCap /\ QueueOK'
    BY <1>g, <1>2, SendPlain, ZeroTick DEF Start, ClosureOps
  <2> QED BY <2>1, <2>2, <1>2 DEF Start, TypeInv, TypeOK, LoopOK
<1>3. ASSUME NEW op \in {"stop", "restart"}, NEW mode \in {"user", "server", "all"},
             NEW keys \in SUBSET Keys, Action(g, op, mode, keys) PROVE TypeInv'
  <2>1. gor' \in [Goroutines -> Goroutine] /\ HandlersOK'
    BY <1>s, <1>3 DEF Action, OpNames, Args
  <2>2. cmdChan' \in Seq(Closure) /\ Len(cmdChan') <= ChanCap /\ QueueOK'
    BY <1>g, <1>3, SendPlain, ZeroTick DEF Action, ClosureOps
  <2> QED BY <2>1, <2>2, <1>3 DEF Action, TypeInv, TypeOK, LoopOK
<1>4. ASSUME StopAll(g) PROVE TypeInv'
  <2>1. gor' \in [Goroutines -> Goroutine] /\ HandlersOK'
    BY <1>s, <1>4 DEF StopAll, OpNames, Args
  <2>2. cmdChan' \in Seq(Closure) /\ Len(cmdChan') <= ChanCap /\ QueueOK'
    BY <1>g, <1>4, SendPlain, ZeroTick DEF StopAll, ClosureOps
  <2> QED BY <2>1, <2>2, <1>4 DEF StopAll, TypeInv, TypeOK, LoopOK
<1>5. ASSUME NEW k \in Keys, NEW status \in {"online", "offline"}, Register(g, k, status) PROVE TypeInv'
  <2>1. gor' \in [Goroutines -> Goroutine] /\ HandlersOK'
    BY <1>s, <1>5 DEF Register, OpNames, Args
  <2>c. Cmd("register", g, {k}, None, status, 0) \in Closure
    BY <1>g, CmdType, ZeroTick DEF ClosureOps, Args
  <2>d. ClosureOK(Cmd("register", g, {k}, None, status, 0))
    BY <1>g DEF ClosureOK, Cmd
  <2>2. cmdChan' \in Seq(Closure) /\ Len(cmdChan') <= ChanCap /\ QueueOK'
    BY <2>c, <2>d, <1>5, SendOK, BoundsAssumption DEF Register, TypeInv, TypeOK
  <2> QED BY <2>1, <2>2, <1>5 DEF Register, TypeInv, TypeOK, LoopOK
<1>6. ASSUME List(g) PROVE TypeInv'
  <2>1. gor' \in [Goroutines -> Goroutine] /\ HandlersOK'
    BY <1>s, <1>6 DEF List, OpNames, Args
  <2>2. cmdChan' \in Seq(Closure) /\ Len(cmdChan') <= ChanCap /\ QueueOK'
    BY <1>g, <1>6, SendPlain, ZeroTick DEF List, ClosureOps
  <2> QED BY <2>1, <2>2, <1>6 DEF List, TypeInv, TypeOK, LoopOK
<1>7. ASSUME TakeoverStop(g) PROVE TypeInv'
  <2>1. gor' \in [Goroutines -> Goroutine] /\ HandlersOK'
    BY <1>s, <1>7 DEF TakeoverStop, OpNames, Args
  <2>2. cmdChan' \in Seq(Closure) /\ Len(cmdChan') <= ChanCap /\ QueueOK'
    BY <1>g, <1>7, SendPlain, ZeroTick DEF TakeoverStop, ClosureOps
  <2> QED BY <2>1, <2>2, <1>7 DEF TakeoverStop, TypeInv, TypeOK, LoopOK
<1>8. ASSUME StopDaemon(g) PROVE TypeInv'
  <2>1. gor' \in [Goroutines -> Goroutine] /\ HandlersOK'
    BY <1>s, <1>8 DEF StopDaemon, OpNames, Args
  <2> QED BY <2>1, <1>8 DEF StopDaemon, TypeInv, TypeOK, QueueOK, LoopOK
<1> QED BY <1>1, <1>2, <1>3, <1>4, <1>5, <1>6, <1>7, <1>8 DEF Request

\* The handlers after their first send, and the goroutines the tick spawned.
LEMMA HandlerType ==
  ASSUME TypeInv, NEW g \in Goroutines, HandlerStep(g)
  PROVE  TypeInv'
<1> USE DEF At
<1>k. ASSUME NEW w \in Workers PROVE KeyOf(w) \in Keys
  BY DEF Workers, KeyOf
<1>t. gor[g] \in Goroutine
  BY DEF TypeInv, TypeOK
\* A step of g that moves to a pc which needs no worker.
<1>u. ASSUME NEW pc \in {"next", "done"}, NEW ans \in {"none", "ok", "err"},
             gor' = [gor EXCEPT ![g] = [gor[g] EXCEPT !.pc = pc, !.ans = ans]]
      PROVE  gor' \in [Goroutines -> Goroutine] /\ HandlersOK'
  <2>1. [gor[g] EXCEPT !.pc = pc, !.ans = ans] \in Goroutine
    BY <1>t DEF Goroutine
  <2>2. [gor[g] EXCEPT !.pc = pc, !.ans = ans].pc = pc
    BY <1>t DEF Goroutine
  <2> QED BY <2>1, <2>2, <1>u, GorUpdate
<1>n. NextPc(g) \in {"next", "done"} /\ NextAns(g) \in {"none", "ok", "err"}
  BY DEF NextPc, NextAns
<1>1. CASE StartSend(g)
  <2>1. PICK k \in gor[g].keys : Send(Cmd("install", g, {k}, <<g, k>>, "", 0))
    BY <1>1 DEF StartSend
  <2>2. k \in Keys /\ <<g, k>> \in Workers
    BY <2>1, <1>t DEF Goroutine, Workers
  <2>3. cmdChan' \in Seq(Closure) /\ Len(cmdChan') <= ChanCap /\ QueueOK'
    BY <2>1, <2>2, SendInstall
  <2>4. gor' \in [Goroutines -> Goroutine] /\ HandlersOK'
    BY <1>1, <1>u DEF StartSend
  <2> QED BY <2>3, <2>4, <1>1 DEF StartSend, TypeInv, TypeOK, LoopOK
<1>2. CASE Refuse(g)
  <2>1. gor' \in [Goroutines -> Goroutine] /\ HandlersOK'
    BY <1>2, <1>u DEF Refuse
  <2> QED BY <2>1, <1>2 DEF Refuse, TypeInv, TypeOK, LoopOK, QueueOK
<1>3. ASSUME NEW w \in Workers, PerformAction(g, w) PROVE TypeInv'
  <2> DEFINE r == [gor[g] EXCEPT !.pc = "join", !.cur = w, !.hit = gor[g].hit \cup {w},
                     !.todo = IF gor[g].arg = "all" THEN gor[g].todo \ {w} ELSE {}]
  <2>1. r \in Goroutine /\ r.pc = "join" /\ r.cur = w
    BY <1>t, <1>3 DEF Goroutine
  <2>2. gor' = [gor EXCEPT ![g] = r]
    BY <1>3 DEF PerformAction
  <2> HIDE DEF r
  <2>3. gor' \in [Goroutines -> Goroutine] /\ HandlersOK'
    BY <2>1, <2>2, GorUpdate
  <2>4. info' \in [Workers -> WorkerInfo]
    BY <1>3, CancelFuncType DEF PerformAction, TypeInv, TypeOK
  <2> QED BY <2>3, <2>4, <1>3 DEF PerformAction, TypeInv, TypeOK, LoopOK, QueueOK
<1>4. CASE StopWorker(g)
  <2>1. gor[g].cur \in Workers
    BY <1>4 DEF StopWorker, TypeInv, HandlersOK
  <2>2. DeletedKeys({gor[g].cur}) \in SUBSET Keys
    BY <2>1, <1>k DEF DeletedKeys
  <2>3. cmdChan' \in Seq(Closure) /\ Len(cmdChan') <= ChanCap /\ QueueOK'
    BY <2>2, <1>4, SendPlain, ZeroTick DEF StopWorker, ClosureOps
  <2>4. [gor[g] EXCEPT !.pc = "install"] \in Goroutine
        /\ [gor[g] EXCEPT !.pc = "install"].cur = gor[g].cur
        /\ [gor[g] EXCEPT !.pc = "install"].pc = "install"
    BY <1>t DEF Goroutine
  <2>5. gor' \in [Goroutines -> Goroutine] /\ HandlersOK'
    BY <2>1, <2>4, <1>4, <1>u, <1>n, GorUpdate DEF StopWorker
  <2> QED BY <2>3, <2>5, <1>4 DEF StopWorker, TypeInv, TypeOK, LoopOK
<1>5. CASE RestartSend(g)
  <2>1. gor[g].cur \in Workers
    BY <1>5 DEF RestartSend, TypeInv, HandlersOK
  <2>2. RestartConfig(g, gor[g].cur) \in Workers
    BY <2>1, <1>k DEF RestartConfig, TypeInv, TypeOK, WorkerInfo, Workers
  <2>3. {KeyOf(gor[g].cur)} \in SUBSET Keys
    BY <2>1, <1>k
  <2>4. cmdChan' \in Seq(Closure) /\ Len(cmdChan') <= ChanCap /\ QueueOK'
    BY <2>2, <2>3, <1>5, SendInstall DEF RestartSend
  <2>5. gor' \in [Goroutines -> Goroutine] /\ HandlersOK'
    BY <1>5, <1>u, <1>n DEF RestartSend
  <2> QED BY <2>4, <2>5, <1>5 DEF RestartSend, TypeInv, TypeOK, LoopOK
<1>6. CASE StopAllCancel(g)
  <2> DEFINE r == [gor[g] EXCEPT !.pc = "delete", !.hit = gor[g].todo]
  <2>1. r \in Goroutine /\ r.pc = "delete"
    BY <1>t DEF Goroutine
  <2>2. gor' = [gor EXCEPT ![g] = r]
    BY <1>6 DEF StopAllCancel
  <2> HIDE DEF r
  <2>3. gor' \in [Goroutines -> Goroutine] /\ HandlersOK'
    BY <2>1, <2>2, GorUpdate
  <2>4. info' \in [Workers -> WorkerInfo]
    BY <1>6, CancelFuncType DEF StopAllCancel, TypeInv, TypeOK
  <2> QED BY <2>3, <2>4, <1>6 DEF StopAllCancel, TypeInv, TypeOK, LoopOK, QueueOK
<1>7. CASE StopAllSend(g)
  <2>1. gor[g].hit \subseteq Workers
    BY <1>t DEF Goroutine
  <2>2. DeletedKeys(gor[g].hit) \in SUBSET Keys
    BY <2>1, <1>k DEF DeletedKeys
  <2>3. cmdChan' \in Seq(Closure) /\ Len(cmdChan') <= ChanCap /\ QueueOK'
    BY <2>2, <1>7, SendPlain, ZeroTick DEF StopAllSend, ClosureOps
  <2>4. gor' \in [Goroutines -> Goroutine] /\ HandlersOK'
    BY <1>7, <1>u DEF StopAllSend
  <2> QED BY <2>3, <2>4, <1>7 DEF StopAllSend, TypeInv, TypeOK, LoopOK
<1>8. CASE SpawnedStart(g)
  <2>1. gor[g].cur \in Workers /\ gor[g].keys \in SUBSET Keys
    BY <1>8, <1>t DEF SpawnedStart, TypeInv, HandlersOK, Goroutine
  <2>2. cmdChan' \in Seq(Closure) /\ Len(cmdChan') <= ChanCap /\ QueueOK'
    BY <2>1, <1>8, SendInstall DEF SpawnedStart
  <2>3. [gor[g] EXCEPT !.pc = "done"] \in Goroutine
        /\ [gor[g] EXCEPT !.pc = "done"].pc = "done"
    BY <1>t DEF Goroutine
  <2>4. gor' \in [Goroutines -> Goroutine] /\ HandlersOK'
    BY <2>3, <1>8, GorUpdate DEF SpawnedStart
  <2> QED BY <2>2, <2>4, <1>8 DEF SpawnedStart, TypeInv, TypeOK, LoopOK
<1> QED
  BY <1>1, <1>2, <1>3, <1>4, <1>5, <1>6, <1>7, <1>8 DEF HandlerStep

\* runWorker.
LEMMA WorkerType ==
  ASSUME TypeInv, NEW w \in Workers, WorkerStep(w)
  PROVE  TypeInv'
<1> USE DEF WorkerAt
<1>t. info[w] \in WorkerInfo
  BY DEF TypeInv, TypeOK
<1>u. ASSUME NEW pc \in WorkerPc, NEW st \in {"offline", "online", "crashed", "migrating"}
      PROVE  /\ [info[w] EXCEPT !.pc = pc, !.status = st] \in WorkerInfo
             /\ [info[w] EXCEPT !.status = st, !.pc = pc] \in WorkerInfo
             /\ [info[w] EXCEPT !.status = st, !.retried = FALSE, !.pc = pc] \in WorkerInfo
             /\ [info[w] EXCEPT !.pc = pc, !.retried = TRUE] \in WorkerInfo
             /\ [info[w] EXCEPT !.pc = pc] \in WorkerInfo
  BY <1>t DEF WorkerInfo
<1>o. UNCHANGED <<workers, cmdChan, loop, gor, ticks, idleStart, alive>>
  BY DEF WorkerStep, WorkerRun, WorkerEstablished, WorkerReturn, WorkerRetry,
         WorkerQuit, WorkerPanic
<1>c. callback' \in [Workers -> Workers \cup {None}]
  BY DEF WorkerStep, WorkerRun, WorkerEstablished, WorkerReturn, WorkerRetry,
         WorkerQuit, WorkerPanic, TypeInv, TypeOK
<1>i. info' \in [Workers -> WorkerInfo]
  <2>1. CASE WorkerRun(w)
    BY <2>1, <1>u, InfoUpdate DEF WorkerRun, WorkerPc
  <2>2. CASE WorkerEstablished(w)
    <3>1. ASSUME NEW v \in Workers, NEW pc \in WorkerPc,
                 NEW st \in {"offline", "online", "crashed", "migrating"}
          PROVE  [info[v] EXCEPT !.pc = pc, !.status = st] \in WorkerInfo
      BY DEF TypeInv, TypeOK, WorkerInfo
    <3>2. ASSUME NEW v \in Workers
          PROVE  /\ (IF v = w THEN "up" ELSE info[v].pc) \in WorkerPc
                 /\ (IF v = Established(w) THEN "online" ELSE info[v].status)
                      \in {"offline", "online", "crashed", "migrating"}
      BY DEF TypeInv, TypeOK, WorkerInfo, WorkerPc
    <3> QED BY <3>1, <3>2, <2>2 DEF WorkerEstablished
  <2>3. CASE WorkerReturn(w)
    BY <2>3, <1>u, InfoUpdate DEF WorkerReturn, WorkerPc
  <2>4. CASE WorkerRetry(w)
    BY <2>4, <1>u, InfoUpdate DEF WorkerRetry, WorkerPc
  <2>5. CASE WorkerQuit(w)
    BY <2>5, <1>u, InfoUpdate DEF WorkerQuit, WorkerPc
  <2>6. CASE WorkerPanic(w)
    BY <2>6, <1>u, InfoUpdate DEF WorkerPanic, WorkerPc
  <2> QED BY <2>1, <2>2, <2>3, <2>4, <2>5, <2>6 DEF WorkerStep
<1> QED
  BY <1>o, <1>c, <1>i DEF TypeInv, TypeOK, QueueOK, HandlersOK, LoopOK

\* The closures processLoop runs, the tick excepted.
LEMMA LoopType ==
  ASSUME TypeInv,
         \/ LoopCancelOld \/ LoopInstall \/ LoopLookup \/ LoopDelete
         \/ LoopRegister \/ LoopList \/ LoopTakeoverMark \/ LoopTakeoverSweep
         \/ LoopTick
  PROVE  TypeInv'
<1> USE DEF LoopTakes, LoopAt
<1>i. info \in [Workers -> WorkerInfo] /\ workers \in [Keys -> Workers \cup {None}]
      /\ loop \in Loop
  BY DEF TypeInv, TypeOK
<1>p. ASSUME cmdChan # <<>>, Pop
      PROVE  /\ cmdChan' \in Seq(Closure) /\ Len(cmdChan') <= ChanCap /\ QueueOK'
             /\ Cur \in Closure /\ ClosureOK(Cur)
  BY <1>p, PopOK, BoundsAssumption DEF TypeInv, TypeOK
<1>x. ASSUME NEW K \in SUBSET Keys
      PROVE  UNION {Existing(k) : k \in K} \in SUBSET Workers
  BY <1>i DEF Existing
<1>1. CASE LoopCancelOld
  <2>1. Cur \in Closure /\ QueueOK' /\ cmdChan' \in Seq(Closure) /\ Len(cmdChan') <= ChanCap
    BY <1>1, <1>p DEF LoopCancelOld
  <2>2. info' \in [Workers -> WorkerInfo]
    BY <1>1, <1>i, CancelFuncType DEF LoopCancelOld
  <2>3. Cur.g \in Goroutines => gor[Cur.g] \in Goroutine
    BY DEF TypeInv, TypeOK
  <2>4. gor' \in [Goroutines -> Goroutine] /\ HandlersOK'
    BY <2>3, <1>1, GorFields, GorReply DEF LoopCancelOld
  <2> QED BY <2>1, <2>2, <2>4, <1>1 DEF LoopCancelOld, TypeInv, TypeOK, LoopOK
<1>2. CASE LoopInstall
  <2>1. /\ Cur \in Closure /\ ClosureOK(Cur)
        /\ QueueOK' /\ cmdChan' \in Seq(Closure) /\ Len(cmdChan') <= ChanCap
    BY <1>2, <1>p DEF LoopInstall
  <2>2. PICK k \in Cur.keys : Install(Cur, k)
    BY <1>2 DEF LoopInstall
  <2>3. k \in Keys /\ <<Cur.g, k>> \in Workers /\ Cur.cfg \in Workers
    BY <1>2, <2>1, <2>2 DEF LoopInstall, Cur, Closure, ClosureOK, Workers
  <2>4. NewWorker(Cur.cfg) \in WorkerInfo
    BY <2>3 DEF NewWorker, NoInfo, WorkerInfo, WorkerPc
  <2>5. info' \in [Workers -> WorkerInfo]
    BY <2>2, <2>4, <1>i, CancelFuncType DEF Install
  <2>6. workers' \in [Keys -> Workers \cup {None}] /\ idleStart' \in BOOLEAN
    BY <2>2, <2>3, <1>i DEF Install
  <2> QED BY <2>1, <2>5, <2>6, <1>2 DEF LoopInstall, TypeInv, TypeOK, LoopOK, HandlersOK
<1>3. CASE LoopLookup
  <2>1. Cur \in Closure /\ QueueOK' /\ cmdChan' \in Seq(Closure) /\ Len(cmdChan') <= ChanCap
    BY <1>3, <1>p DEF LoopLookup
  <2>2. UNION {Existing(k) : k \in Cur.keys} \in SUBSET Workers
    BY <2>1, <1>x DEF Closure
  <2>3. Cur.g \in Goroutines => gor[Cur.g] \in Goroutine
    BY DEF TypeInv, TypeOK
  <2> DEFINE T == UNION {Existing(k) : k \in Cur.keys}
  <2>4. gor' = [gor EXCEPT ![Cur.g] = [gor[Cur.g] EXCEPT !.pc = "got", !.todo = T]]
    BY <1>3 DEF LoopLookup
  <2>5. T \in SUBSET Workers
    BY <2>2
  <2> HIDE DEF T
  <2>6. gor' \in [Goroutines -> Goroutine] /\ HandlersOK'
    BY <2>3, <2>4, <2>5, GorFields, GorReply
  <2> QED BY <2>1, <2>6, <1>3 DEF LoopLookup, TypeInv, TypeOK, LoopOK
<1>4. CASE LoopDelete
  <2>1. QueueOK' /\ cmdChan' \in Seq(Closure) /\ Len(cmdChan') <= ChanCap
    BY <1>4, <1>p DEF LoopDelete
  <2>2. workers' \in [Keys -> Workers \cup {None}]
    BY <1>4, <1>i DEF LoopDelete
  <2>3. idleStart' \in BOOLEAN
    BY <1>4 DEF LoopDelete
  <2> QED BY <2>1, <2>2, <2>3, <1>4 DEF LoopDelete, TypeInv, TypeOK, LoopOK, HandlersOK
<1>5. CASE LoopRegister
  <2>1. /\ Cur \in Closure /\ ClosureOK(Cur)
        /\ QueueOK' /\ cmdChan' \in Seq(Closure) /\ Len(cmdChan') <= ChanCap
    BY <1>5, <1>p DEF LoopRegister
  <2>2. Cur.g \in Goroutines /\ Cur.arg \in {"online", "offline"} /\ Cur.keys \subseteq Keys
    BY <1>5, <2>1 DEF LoopRegister, Cur, Closure, ClosureOK
  <2>3. [NoInfo EXCEPT !.pc = "ext", !.status = Cur.arg] \in WorkerInfo
    BY <2>2 DEF NoInfo, WorkerInfo, WorkerPc
  <2>4. \A w \in Workers : [info[w] EXCEPT !.status = Cur.arg] \in WorkerInfo
    BY <2>2, <1>i DEF WorkerInfo
  <2>5. \A k \in Cur.keys : <<Cur.g, k>> \in Workers
    BY <2>2 DEF Workers
  <2>6. info' \in [Workers -> WorkerInfo]
    BY <2>3, <2>4, <1>5, <1>i DEF LoopRegister
  <2>7. workers' \in [Keys -> Workers \cup {None}]
    BY <2>2, <2>5, <1>5, <1>i DEF LoopRegister
  <2> QED BY <2>1, <2>6, <2>7, <1>5 DEF LoopRegister, TypeInv, TypeOK, LoopOK, HandlersOK
<1>6. CASE LoopList
  <2>1. Cur \in Closure /\ QueueOK' /\ cmdChan' \in Seq(Closure) /\ Len(cmdChan') <= ChanCap
    BY <1>6, <1>p DEF LoopList
  <2>2. gor' \in [Goroutines -> Goroutine] /\ HandlersOK'
    <3>1. Cur.g \in Goroutines => gor[Cur.g] \in Goroutine
      BY DEF TypeInv, TypeOK
    <3> QED BY <3>1, <1>6, GorFields, GorReply DEF LoopList
  <2> QED BY <2>1, <2>2, <1>6 DEF LoopList, TypeInv, TypeOK, LoopOK
<1>7. CASE LoopTakeoverMark
  <2>1. QueueOK' /\ cmdChan' \in Seq(Closure) /\ Len(cmdChan') <= ChanCap
    BY <1>7, <1>p DEF LoopTakeoverMark
  <2>2. \A w \in Workers :
          [info[w] EXCEPT !.ReconnectNeeded = FALSE, !.status = "migrating"] \in WorkerInfo
    BY <1>i DEF WorkerInfo
  <2>3. info' \in [Workers -> WorkerInfo]
    BY <2>2, <1>7, <1>i DEF LoopTakeoverMark
  <2>4. loop' \in Loop /\ LoopOK'
    BY <1>7, <1>i DEF LoopTakeoverMark, Loop, LoopOK
  <2> QED BY <2>1, <2>3, <2>4, <1>7 DEF LoopTakeoverMark, TypeInv, TypeOK, HandlersOK
<1>8. CASE LoopTakeoverSweep
  <2>1. info' \in [Workers -> WorkerInfo]
    BY <1>8, <1>i, CancelFuncType DEF LoopTakeoverSweep
  <2>2. loop' \in Loop /\ LoopOK'
    BY <1>8, <1>i DEF LoopTakeoverSweep, Loop, LoopOK
  <2>3. workers' \in [Keys -> Workers \cup {None}]
    BY <1>8 DEF LoopTakeoverSweep
  <2> QED BY <2>1, <2>2, <2>3, <1>8 DEF LoopTakeoverSweep, TypeInv, TypeOK, HandlersOK, QueueOK
<1>9. CASE LoopTick
  <2>1. Cur \in Closure /\ QueueOK' /\ cmdChan' \in Seq(Closure) /\ Len(cmdChan') <= ChanCap
    BY <1>9, <1>p DEF LoopTick
  <2>2. loop' \in Loop /\ LoopOK'
    BY <2>1, <1>9 DEF LoopTick, Loop, LoopOK, Closure, Present
  <2> QED BY <2>1, <2>2, <1>9 DEF LoopTick, TypeInv, TypeOK, HandlersOK
<1> QED
  BY <1>1, <1>2, <1>3, <1>4, <1>5, <1>6, <1>7, <1>8, <1>9

\* The tick.
LEMMA TickType ==
  ASSUME TypeInv, TickStep
  PROVE  TypeInv'
<1> USE DEF LoopAt, InTick
<1>i. /\ info \in [Workers -> WorkerInfo] /\ workers \in [Keys -> Workers \cup {None}]
      /\ loop \in Loop /\ loop.todo \subseteq Keys
  BY DEF TypeInv, TypeOK, Loop
<1>w. ASSUME NEW k \in Keys, InTick(k)
      PROVE  workers[k] \in Workers /\ info[workers[k]] \in WorkerInfo
  BY <1>w, <1>i DEF TypeInv, LoopOK
<1>d. ASSUME NEW k \in Keys, InTick(k), TickDone(k), UNCHANGED workers
      PROVE  loop' \in Loop /\ LoopOK'
  BY <1>d, <1>i DEF TickDone, Loop, TypeInv, LoopOK
<1>s. ASSUME NEW k \in Keys, InTick(k), GoStartWorker(k), info[workers[k]].Config # None
      PROVE  gor' \in [Goroutines -> Goroutine] /\ HandlersOK'
  <2> DEFINE c == info[workers[k]].Config
             r == [NoGoroutine EXCEPT !.op = "startWorker", !.pc = "send",
                     !.keys = {k}, !.cur = c]
  <2>1. c \in Workers
    BY <1>w, <1>s DEF WorkerInfo
  <2>2. gor' = [gor EXCEPT ![<<loop.n, k>>] = r]
    BY <1>s DEF GoStartWorker
  <2> HIDE DEF c
  <2>3. r \in Goroutine /\ r.pc = "send" /\ r.cur = c
    BY <2>1 DEF NoGoroutine, Goroutine, Args
  <2> HIDE DEF r
  <2> QED BY <2>1, <2>2, <2>3, GorUpdate
<1>1. ASSUME NEW k \in Keys, TickReconnect(k) PROVE TypeInv'
  <2>1. info[workers[k]].Config # None
    BY <1>1 DEF TickReconnect, NeedsReconnect
  <2>2. gor' \in [Goroutines -> Goroutine] /\ HandlersOK'
    BY <2>1, <1>1, <1>s DEF TickReconnect
  <2>3. [info[workers[k]] EXCEPT !.ReconnectNeeded = FALSE] \in WorkerInfo
    BY <1>w, <1>1 DEF TickReconnect, WorkerInfo
  <2>4. info' \in [Workers -> WorkerInfo]
    BY <2>3, <1>1, InfoUpdate DEF TickReconnect
  <2>5. loop' \in Loop /\ LoopOK'
    BY <1>1, <1>d DEF TickReconnect
  <2> QED BY <2>2, <2>4, <2>5, <1>1 DEF TickReconnect, TypeInv, TypeOK, QueueOK
<1>2. ASSUME NEW k \in Keys, TickNoProgress(k) PROVE TypeInv'
  <2>1. gor' \in [Goroutines -> Goroutine] /\ HandlersOK'
    BY <1>2, <1>s DEF TickNoProgress
  <2>2. loop' \in Loop /\ LoopOK'
    BY <1>2, <1>d DEF TickNoProgress
  <2> QED BY <2>1, <2>2, <1>2 DEF TickNoProgress, TypeInv, TypeOK, QueueOK
<1>3. ASSUME NEW k \in Keys, TickNoHeartbeat(k) PROVE TypeInv'
  <2>1. InTick(k) /\ workers[k] \in Workers /\ info[workers[k]] \in WorkerInfo
    BY <1>w, <1>3 DEF TickNoHeartbeat
  <2>2. ASSUME NEW n \in Nat, NEW b \in BOOLEAN
        PROVE  [info[workers[k]] EXCEPT !.status = "offline", !.ReconnectNeeded = TRUE,
                  !.OfflineCount = n, !.cancelled = b] \in WorkerInfo
    BY <2>1 DEF WorkerInfo
  <2> DEFINE n == info[workers[k]].OfflineCount + 1
             b == info[workers[k]].cancelled
                    \/ (n >= MaxOfflineCount /\ info[workers[k]].pc # "ext")
             r == [info[workers[k]] EXCEPT !.status = "offline", !.ReconnectNeeded = TRUE,
                     !.OfflineCount = n, !.cancelled = b]
  <2>n. n \in Nat
    BY <2>1 DEF WorkerInfo
  <2>r. r \in WorkerInfo
    BY <2>2, <2>n
  <2>e. info' = [info EXCEPT ![workers[k]] = r]
    BY <1>3 DEF TickNoHeartbeat
  <2> HIDE DEF r
  <2>3. info' \in [Workers -> WorkerInfo]
    BY <2>r, <2>e, InfoUpdate
  <2>4. loop' \in Loop
    BY <1>3, <1>i DEF TickNoHeartbeat, Loop
  <2>5. LoopOK'
    BY <1>3, <1>i, <2>1 DEF TickNoHeartbeat, LoopOK, TypeInv, Loop
  <2> QED BY <2>3, <2>4, <2>5, <1>3 DEF TickNoHeartbeat, TypeInv, TypeOK, QueueOK, HandlersOK
<1>4. ASSUME NEW k \in Keys, NEW expired \in BOOLEAN, TickHealthy(k, expired) PROVE TypeInv'
  <2>1. InTick(k) /\ workers[k] \in Workers /\ info[workers[k]] \in WorkerInfo
    BY <1>w, <1>4 DEF TickHealthy
  <2>2. ASSUME NEW n \in Nat, NEW b \in BOOLEAN
        PROVE  [info[workers[k]] EXCEPT !.OfflineCount = n, !.checked = b] \in WorkerInfo
    BY <2>1 DEF WorkerInfo
  <2>n. info[workers[k]].OfflineCount \in Nat
    BY <2>1 DEF WorkerInfo
  <2>3. info' \in [Workers -> WorkerInfo]
    <3> DEFINE n == IF TimesSet(workers[k]) /\ info[workers[k]].status = "online"
                      THEN 0 ELSE info[workers[k]].OfflineCount
               b == info[workers[k]].checked
                      \/ LifetimeOver(workers[k], expired)
               s == [info[workers[k]] EXCEPT !.OfflineCount = n, !.checked = b]
    <3>1. n \in Nat /\ b \in BOOLEAN
      BY <2>n
    <3>2. info' = [info EXCEPT ![workers[k]] = s]
      BY <1>4 DEF TickHealthy
    <3> HIDE DEF n, b
    <3>3. s \in WorkerInfo
      BY <2>2, <3>1
    <3> HIDE DEF s
    <3> QED BY <3>2, <3>3, InfoUpdate
  <2> DEFINE r == [NoGoroutine EXCEPT !.op = "restart", !.pc = "next",
                     !.keys = {k}, !.todo = {workers[k]}]
  <2>4. r \in Goroutine /\ r.pc = "next"
    BY <2>1 DEF NoGoroutine, Goroutine, Args, OpNames
  <2>5. gor' = [gor EXCEPT ![<<loop.n, k>>] = r] \/ gor' = gor
    BY <1>4 DEF TickHealthy
  <2> HIDE DEF r
  <2>6. gor' \in [Goroutines -> Goroutine] /\ HandlersOK'
    <3>1. CASE gor' = [gor EXCEPT ![<<loop.n, k>>] = r]
      BY <3>1, <2>4, GorUpdate
    <3>2. CASE gor' = gor
      BY <3>2 DEF TypeInv, TypeOK, HandlersOK
    <3> QED BY <3>1, <3>2, <2>5
  <2>7. loop' \in Loop /\ LoopOK'
    BY <1>4, <1>d DEF TickHealthy
  <2> QED BY <2>3, <2>6, <2>7, <1>4 DEF TickHealthy, TypeInv, TypeOK, QueueOK
<1>5. CASE TickStopWorker
  <2>1. {loop.key} \in SUBSET Keys
    BY <1>5 DEF TickStopWorker, TypeInv, LoopOK
  <2>2. cmdChan' \in Seq(Closure) /\ Len(cmdChan') <= ChanCap /\ QueueOK'
    BY <2>1, <1>5, SendPlain, ZeroTick DEF TickStopWorker, ClosureOps
  <2>3. loop' \in Loop /\ LoopOK'
    BY <1>5, <1>i DEF TickStopWorker, Loop, TypeInv, LoopOK
  <2> QED BY <2>2, <2>3, <1>5 DEF TickStopWorker, TypeInv, TypeOK, HandlersOK
<1>6. CASE TickEnd
  <2>1. loop' \in Loop /\ LoopOK'
    BY <1>6, <1>i DEF TickEnd, Loop, TypeInv, LoopOK
  <2>2. idleStart' \in BOOLEAN /\ alive' \in BOOLEAN
    BY <1>6 DEF TickEnd, TypeInv, TypeOK
  <2> QED BY <2>1, <2>2, <1>6 DEF TickEnd, TypeInv, TypeOK, HandlersOK, QueueOK
<1> QED BY <1>1, <1>2, <1>3, <1>4, <1>5, <1>6 DEF TickStep

LEMMA NextType == TypeInv /\ [Next]_vars => TypeInv'
<1> SUFFICES ASSUME TypeInv, [Next]_vars PROVE TypeInv'
  OBVIOUS
<1>1. CASE \E g \in Clients : Request(g)
  BY <1>1, RequestType
<1>2. CASE \E g \in Goroutines : HandlerStep(g)
  BY <1>2, HandlerType
<1>3. CASE LoopStep
  BY <1>3, LoopType, TickType DEF LoopStep
<1>4. CASE TickSend
  <2>0. ticks \in 0..MaxTicks /\ ticks < MaxTicks
    BY <1>4 DEF TickSend, TypeInv, TypeOK
  <2>1. ticks + 1 \in 0..MaxTicks
    BY <2>0, BoundsAssumption
  <2>2. cmdChan' \in Seq(Closure) /\ Len(cmdChan') <= ChanCap /\ QueueOK'
    BY <2>1, <1>4, SendPlain DEF TickSend, ClosureOps
  <2> QED BY <2>1, <2>2, <1>4 DEF TickSend, TypeInv, TypeOK, HandlersOK, LoopOK
<1>5. CASE \E w \in Workers : WorkerStep(w)
  BY <1>5, WorkerType
<1>6. CASE Exit
  BY <1>6 DEF Exit, TypeInv, TypeOK, QueueOK, HandlersOK, LoopOK
<1>7. CASE UNCHANGED vars
  BY <1>7 DEF vars, TypeInv, TypeOK, QueueOK, HandlersOK, LoopOK
<1> QED BY <1>1, <1>2, <1>3, <1>4, <1>5, <1>6, <1>7 DEF Next

\* Every state of the daemon is well typed; in particular cmdChan never holds more
\* than its capacity and every install closure names an allocated worker.
THEOREM TypeCorrect == Spec => []TypeOK
<1>1. Spec => []TypeInv
  BY InitType, NextType, PTL DEF Spec
<1>2. TypeInv => TypeOK
  BY DEF TypeInv
<1> QED BY <1>1, <1>2, PTL

-----------------------------------------------------------------------------
(* Replacement *)

\* Only four closures change the map.
LEMMA WorkersFrame ==
  ASSUME [Next]_vars
  PROVE  \/ LoopInstall \/ LoopDelete \/ LoopRegister \/ LoopTakeoverSweep
         \/ UNCHANGED workers
<1>1. CASE \E g \in Clients : Request(g)
  BY <1>1 DEF Request, StartInvalid, Start, Action, StopAll, Register, List,
              TakeoverStop, StopDaemon
<1>2. CASE \E g \in Goroutines : HandlerStep(g)
  BY <1>2 DEF HandlerStep, StartSend, Refuse, PerformAction, StopWorker, RestartSend,
              StopAllCancel, StopAllSend, SpawnedStart
<1>3. CASE LoopStep
  BY <1>3 DEF LoopStep, TickStep, LoopCancelOld, LoopLookup, LoopList, LoopTakeoverMark,
              LoopTick, TickReconnect, TickNoProgress, TickNoHeartbeat, TickHealthy,
              TickStopWorker, TickEnd
<1>4. CASE TickSend \/ Exit \/ UNCHANGED vars
  BY <1>4 DEF TickSend, Exit, vars
<1>5. CASE \E w \in Workers : WorkerStep(w)
  BY <1>5 DEF WorkerStep, WorkerRun, WorkerEstablished, WorkerReturn, WorkerRetry,
              WorkerQuit, WorkerPanic
<1> QED BY <1>1, <1>2, <1>3, <1>4, <1>5 DEF Next

\* startWorker's closure never overwrites an entry it did not cancel, whatever
\* happened to the key since the request was accepted.
THEOREM ReplacementCancels == Spec => ReplacedIsCancelled
<1> DEFINE P == \A k \in Keys :
       workers[k] # None /\ workers'[k] # None /\ workers'[k] # workers[k] =>
         info'[workers[k]].cancelled \/ info'[workers[k]].pc = "ext"
<1>1. ASSUME TypeInv, [Next]_vars PROVE P
  <2> SUFFICES ASSUME NEW k \in Keys, workers[k] # None, workers'[k] # None,
                      workers'[k] # workers[k]
               PROVE  info'[workers[k]].cancelled \/ info'[workers[k]].pc = "ext"
    OBVIOUS
  <2>0. /\ workers \in [Keys -> Workers \cup {None}] /\ workers[k] \in Workers
        /\ info \in [Workers -> WorkerInfo]
    BY <1>1 DEF TypeInv, TypeOK
  <2>1. CASE LoopInstall
    <3>1. PICK j \in Cur.keys : Install(Cur, j)
      BY <2>1 DEF LoopInstall
    <3>2. workers' = [workers EXCEPT ![j] = <<Cur.g, j>>]
      BY <3>1 DEF Install
    <3>3. j = k /\ workers[k] # <<Cur.g, j>>
      BY <3>2, <2>0
    <3>4. info'[workers[k]] = CancelFunc(Existing(k))[workers[k]]
      BY <3>1, <3>3, <2>0 DEF Install, CancelFunc
    <3>5. CancelFunc(Existing(k))[workers[k]].cancelled
            \/ CancelFunc(Existing(k))[workers[k]].pc = "ext"
      BY <2>0 DEF CancelFunc, Existing, WorkerInfo
    <3> QED BY <3>4, <3>5
  <2>2. CASE LoopDelete
    BY <2>2, <2>0 DEF LoopDelete
  <2>3. CASE LoopRegister
    BY <2>3, <2>0 DEF LoopRegister
  <2>4. CASE LoopTakeoverSweep
    BY <2>4 DEF LoopTakeoverSweep
  <2> QED BY <2>1, <2>2, <2>3, <2>4, <1>1, WorkersFrame
<1>2. Spec => []TypeInv
  BY InitType, NextType, PTL DEF Spec
<1> QED BY <1>1, <1>2, PTL DEF Spec, ReplacedIsCancelled

-----------------------------------------------------------------------------
(* No orphan without deletion by key.  Every deletion names a key, not the   *)
(* worker that was looked up under it; the theorem at the end of the module  *)
(* says that this is the only way to lose a running worker.  The tick        *)
(* deletes too, after MaxOfflineCount ticks: the counters are bounded by the *)
(* number of ticks.                                                          *)

FewTicks == MaxTicks < MaxOfflineCount

MapKeys == \A k \in Keys : workers[k] # None => KeyOf(workers[k]) = k

QueueClean == \A i \in 1..Len(cmdChan) : cmdChan[i].op # "delete"

GorClean ==
  \A g \in Goroutines :
    /\ gor[g].op \notin {"stop", "restart", "stopAll"}
    /\ gor[g].pc \notin {"join", "install"}

NoDeleter == QueueClean /\ GorClean /\ loop.pc # "stopWorker"

TicksOrdered ==
  /\ loop.n <= ticks
  /\ \A i \in 1..Len(cmdChan) :
       cmdChan[i].op = "tick" => loop.n < cmdChan[i].n /\ cmdChan[i].n <= ticks
  /\ \A i, j \in 1..Len(cmdChan) :
       i < j /\ cmdChan[i].op = "tick" /\ cmdChan[j].op = "tick" =>
         cmdChan[i].n < cmdChan[j].n

CountsBounded ==
  /\ \A w \in Workers : info[w].OfflineCount <= loop.n
  /\ loop.pc = "tick" => \A k \in loop.todo : info[workers[k]].OfflineCount < loop.n

Orphans == \A w \in Workers : Live(w) => workers[KeyOf(w)] = w

OrphanInv == TypeInv /\ MapKeys /\ NoDeleter /\ TicksOrdered /\ CountsBounded /\ Orphans

LEMMA InitOrphan == Init => OrphanInv
<1> SUFFICES ASSUME Init PROVE OrphanInv
  OBVIOUS
<1>1. MapKeys
  BY DEF Init, MapKeys
<1>2. NoDeleter
  <2>1. QueueClean
    BY DEF Init, QueueClean
  <2>2. GorClean
    BY DEF Init, GorClean, NoGoroutine
  <2>3. loop.pc # "stopWorker"
    BY DEF Init, IdleLoop
  <2> QED BY <2>1, <2>2, <2>3 DEF NoDeleter
<1>3. TicksOrdered
  BY DEF Init, TicksOrdered, IdleLoop
<1>4. CountsBounded
  BY DEF Init, CountsBounded, IdleLoop, NoInfo
<1>5. Orphans
  BY DEF Init, Orphans, Live, Running, NoInfo
<1> QED BY <1>1, <1>2, <1>3, <1>4, <1>5, InitType DEF OrphanInv

\* Every step keeps the map filed by key.
LEMMA MapKeysStep ==
  ASSUME TypeInv, MapKeys, [Next]_vars
  PROVE  MapKeys'
<1>0. workers \in [Keys -> Workers \cup {None}]
  BY DEF TypeInv, TypeOK
<1>1. CASE LoopInstall
  BY <1>0, <1>1 DEF LoopInstall, Install, MapKeys, KeyOf
<1>2. CASE LoopDelete
  BY <1>0, <1>2 DEF LoopDelete, MapKeys
<1>3. CASE LoopRegister
  BY <1>0, <1>3 DEF LoopRegister, MapKeys, KeyOf
<1>4. CASE LoopTakeoverSweep
  BY <1>4 DEF LoopTakeoverSweep, MapKeys
<1>5. CASE UNCHANGED workers
  BY <1>5 DEF MapKeys
<1> QED BY <1>1, <1>2, <1>3, <1>4, <1>5, WorkersFrame

\* What a send and a receive do to the two queue invariants.
LEMMA SendQueue ==
  ASSUME cmdChan \in Seq(Closure), NEW c \in Closure, Send(c), c.op \notin {"delete", "tick"},
         UNCHANGED <<loop, ticks>>
  PROVE  /\ QueueClean => QueueClean'
         /\ TicksOrdered => TicksOrdered'
<1>1. cmdChan' = Append(cmdChan, c)
  BY DEF Send
<1>2. /\ Len(cmdChan') = Len(cmdChan) + 1 /\ Len(cmdChan) \in Nat
      /\ \A i \in 1..Len(cmdChan) : cmdChan'[i] = cmdChan[i]
      /\ cmdChan'[Len(cmdChan) + 1] = c
  BY <1>1
<1>3. \A i \in 1..Len(cmdChan') : i \in 1..Len(cmdChan) \/ i = Len(cmdChan) + 1
  BY <1>2
<1> QED BY <1>2, <1>3 DEF TicksOrdered, QueueClean

LEMMA PopQueue ==
  ASSUME cmdChan \in Seq(Closure), cmdChan # <<>>, Pop
  PROVE  /\ QueueClean => QueueClean' /\ Cur.op # "delete"
         /\ TicksOrdered /\ UNCHANGED <<loop, ticks>> => TicksOrdered'
         /\ TicksOrdered /\ Cur.op = "tick" =>
              /\ loop.n < Cur.n /\ Cur.n <= ticks
              /\ \A i \in 1..Len(cmdChan') :
                   cmdChan'[i].op = "tick" => Cur.n < cmdChan'[i].n /\ cmdChan'[i].n <= ticks
              /\ \A i, j \in 1..Len(cmdChan') :
                   i < j /\ cmdChan'[i].op = "tick" /\ cmdChan'[j].op = "tick" =>
                     cmdChan'[i].n < cmdChan'[j].n
<1>1. /\ Len(cmdChan') = Len(cmdChan) - 1 /\ Len(cmdChan) \in Nat /\ Len(cmdChan) >= 1
      /\ \A i \in 1..Len(cmdChan') : cmdChan'[i] = cmdChan[i + 1] /\ i + 1 \in 1..Len(cmdChan)
      /\ Cur = cmdChan[1]
  BY DEF Pop, Cur
<1>2. \A i \in 1..Len(cmdChan') : i \in Int /\ 1 < i + 1
  OBVIOUS
<1>3. 1 \in 1..Len(cmdChan)
  BY <1>1
<1>4. \A i, j \in 1..Len(cmdChan') : i < j => i + 1 < j + 1
  BY <1>1
<1> QED BY <1>1, <1>2, <1>3, <1>4 DEF TicksOrdered, QueueClean

\* A goroutine moves to a state from which it deletes nothing.
LEMMA GorCleanUpdate ==
  ASSUME TypeInv, GorClean, NEW g, NEW r, gor' = [gor EXCEPT ![g] = r],
         g \in Goroutines => /\ r.op \notin {"stop", "restart", "stopAll"}
                             /\ r.pc \notin {"join", "install"}
  PROVE  GorClean'
  BY DEF TypeInv, TypeOK, GorClean

\* The part of the invariant that depends on the workers, when the map stays.
LEMMA OrphanFrame ==
  ASSUME CountsBounded, Orphans, UNCHANGED workers, loop'.n = loop.n,
         loop'.pc = "tick" => loop.pc = "tick" /\ loop'.todo \subseteq loop.todo,
         loop'.pc = "tick" => \A k \in loop'.todo : workers[k] \in Workers,
         \A w \in Workers : /\ info'[w].OfflineCount = info[w].OfflineCount
                            /\ info'[w].pc \in Running => info[w].pc \in Running
                            /\ info[w].cancelled => info'[w].cancelled
  PROVE  CountsBounded' /\ Orphans'
<1>1. CountsBounded'
  BY DEF CountsBounded
<1>2. Orphans'
  BY DEF Orphans, Live
<1> QED BY <1>1, <1>2

LEMMA RequestOrphan ==
  ASSUME OrphanInv, NEW g \in Clients, Request(g), NoDeletions'
  PROVE  NoDeleter' /\ TicksOrdered' /\ CountsBounded' /\ Orphans'
<1>u. UNCHANGED <<workers, loop, info, ticks>>
  BY DEF Request, StartInvalid, Start, Action, StopAll, Register, List,
              TakeoverStop, StopDaemon
<1>f. CountsBounded' /\ Orphans'
  BY <1>u DEF OrphanInv, CountsBounded, Orphans, Live
<1>g. g \in Goroutines
  BY DEF Goroutines
<1>o. ASSUME NEW op \in {"stop", "restart", "stopAll"}, NEW arg, NEW keys,
             Serve(g, op, "wait", arg, keys, "none")
      PROVE  FALSE
  <2> DEFINE r == [NoGoroutine EXCEPT !.op = op, !.pc = "wait", !.arg = arg, !.keys = keys,
                                      !.ans = "none"]
  <2>1. r.op = op
    BY DEF NoGoroutine
  <2>2. gor' = [gor EXCEPT ![g] = r]
    BY <1>o DEF Serve
  <2> HIDE DEF r
  <2> QED BY <2>1, <2>2, <1>g, <1>o DEF NoDeletions, OrphanInv, TypeInv, TypeOK
<1>s. ASSUME NEW op \in OpNames, NEW pc \in {"wait", "done", "send"}, NEW arg, NEW keys,
             NEW ans, op \notin {"stop", "restart", "stopAll"}, Serve(g, op, pc, arg, keys, ans)
      PROVE  GorClean'
  <2> DEFINE r == [NoGoroutine EXCEPT !.op = op, !.pc = pc, !.arg = arg, !.keys = keys, !.ans = ans]
  <2>1. r.op = op /\ r.pc = pc
    BY DEF NoGoroutine
  <2>2. gor' = [gor EXCEPT ![g] = r]
    BY <1>s DEF Serve
  <2> HIDE DEF r
  <2> QED BY <2>1, <2>2, <1>s, GorCleanUpdate DEF OrphanInv, NoDeleter
<1>q. ASSUME NEW op \in ClosureOps \ {"delete", "tick"}, NEW keys \in SUBSET Keys,
             NEW arg \in Args, Send(Cmd(op, g, keys, None, arg, 0))
      PROVE  QueueClean' /\ TicksOrdered'
  <2>1. Cmd(op, g, keys, None, arg, 0) \in Closure
    BY <1>g, CmdType, ZeroTick
  <2>2. Cmd(op, g, keys, None, arg, 0).op = op
    BY DEF Cmd
  <2> QED BY <1>q, <1>u, <2>1, <2>2, SendQueue DEF OrphanInv, NoDeleter, TypeInv, TypeOK
<1>n. ASSUME UNCHANGED cmdChan PROVE QueueClean' /\ TicksOrdered'
  BY <1>n, <1>u DEF OrphanInv, NoDeleter, QueueClean, TicksOrdered
<1>m. QueueClean' /\ TicksOrdered' /\ GorClean'
  <2>1. ASSUME NEW k \in Keys, StartInvalid(g, k) PROVE QueueClean' /\ TicksOrdered' /\ GorClean'
    BY <2>1, <1>s, <1>n DEF StartInvalid, OpNames
  <2>2. ASSUME NEW k \in Keys, Start(g, k) PROVE QueueClean' /\ TicksOrdered' /\ GorClean'
    BY <2>2, <1>s, <1>q DEF Start, OpNames, ClosureOps, Args
  <2>3. ASSUME NEW op \in {"stop", "restart"}, NEW mode, NEW keys, Action(g, op, mode, keys) PROVE FALSE
    BY <2>3, <1>o DEF Action, Accept
  <2>4. ASSUME StopAll(g) PROVE FALSE
    BY <2>4, <1>o DEF StopAll, Accept
  <2>5. ASSUME NEW k \in Keys, NEW status \in {"online", "offline"}, Register(g, k, status)
        PROVE  QueueClean' /\ TicksOrdered' /\ GorClean'
    BY <2>5, <1>s, <1>q DEF Register, OpNames, ClosureOps, Args
  <2>6. ASSUME List(g) PROVE QueueClean' /\ TicksOrdered' /\ GorClean'
    BY <2>6, <1>s, <1>q DEF List, OpNames, ClosureOps, Args
  <2>7. ASSUME TakeoverStop(g) PROVE QueueClean' /\ TicksOrdered' /\ GorClean'
    BY <2>7, <1>s, <1>q DEF TakeoverStop, OpNames, ClosureOps, Args
  <2>8. ASSUME StopDaemon(g) PROVE QueueClean' /\ TicksOrdered' /\ GorClean'
    BY <2>8, <1>s, <1>n DEF StopDaemon, OpNames
  <2> QED BY <2>1, <2>2, <2>3, <2>4, <2>5, <2>6, <2>7, <2>8 DEF Request
<1> QED BY <1>f, <1>m, <1>u DEF NoDeleter, OrphanInv

LEMMA HandlerOrphan ==
  ASSUME OrphanInv, NEW g \in Goroutines, HandlerStep(g)
  PROVE  NoDeleter' /\ TicksOrdered' /\ CountsBounded' /\ Orphans'
<1>c. gor[g].op \notin {"stop", "restart", "stopAll"} /\ gor[g].pc \notin {"join", "install"}
  BY DEF OrphanInv, NoDeleter, GorClean
<1>t. gor[g] \in Goroutine
  BY DEF OrphanInv, TypeInv, TypeOK
<1>1. StartSend(g) \/ SpawnedStart(g)
  BY <1>c DEF HandlerStep, Refuse, PerformAction, StopWorker, RestartSend, At,
              StopAllCancel, StopAllSend
<1>u. UNCHANGED <<workers, loop, info, ticks>>
  BY <1>1 DEF StartSend, SpawnedStart
<1>f. CountsBounded' /\ Orphans'
  BY <1>u DEF OrphanInv, CountsBounded, Orphans, Live
<1>q. ASSUME NEW keys \in SUBSET Keys, NEW cfg \in Workers,
             Send(Cmd("install", g, keys, cfg, "", 0))
      PROVE  QueueClean' /\ TicksOrdered'
  <2>1. Cmd("install", g, keys, cfg, "", 0) \in Closure
    BY CmdType, ZeroTick DEF ClosureOps, Args
  <2>2. Cmd("install", g, keys, cfg, "", 0).op = "install"
    BY DEF Cmd
  <2> QED BY <1>q, <1>u, <2>1, <2>2, SendQueue DEF OrphanInv, NoDeleter, TypeInv, TypeOK
<1>2. CASE StartSend(g)
  <2>1. PICK k \in gor[g].keys : Send(Cmd("install", g, {k}, <<g, k>>, "", 0))
    BY <1>2 DEF StartSend
  <2>2. {k} \in SUBSET Keys /\ <<g, k>> \in Workers
    BY <2>1, <1>t DEF Goroutine, Workers
  <2>3. QueueClean' /\ TicksOrdered'
    BY <2>1, <2>2, <1>q
  <2> DEFINE r == [gor[g] EXCEPT !.pc = "done", !.ans = "ok"]
  <2>4. r.op = gor[g].op /\ r.pc = "done"
    BY <1>t DEF Goroutine
  <2>5. gor' = [gor EXCEPT ![g] = r]
    BY <1>2 DEF StartSend
  <2> HIDE DEF r
  <2>6. GorClean'
    BY <2>4, <2>5, <1>c, GorCleanUpdate DEF OrphanInv, NoDeleter
  <2> QED BY <2>3, <2>6, <1>f, <1>u DEF NoDeleter, OrphanInv
<1>3. CASE SpawnedStart(g)
  <2>1. gor[g].cur \in Workers /\ gor[g].keys \in SUBSET Keys
    BY <1>3, <1>t DEF SpawnedStart, At, OrphanInv, TypeInv, HandlersOK, Goroutine
  <2>3. QueueClean' /\ TicksOrdered'
    BY <2>1, <1>3, <1>q DEF SpawnedStart
  <2> DEFINE r == [gor[g] EXCEPT !.pc = "done"]
  <2>4. r.op = gor[g].op /\ r.pc = "done"
    BY <1>t DEF Goroutine
  <2>5. gor' = [gor EXCEPT ![g] = r]
    BY <1>3 DEF SpawnedStart
  <2> HIDE DEF r
  <2>6. GorClean'
    BY <2>4, <2>5, <1>c, GorCleanUpdate DEF OrphanInv, NoDeleter
  <2> QED BY <2>3, <2>6, <1>f, <1>u DEF NoDeleter, OrphanInv
<1> QED BY <1>1, <1>2, <1>3

LEMMA WorkerOrphan ==
  ASSUME OrphanInv, NEW w \in Workers, WorkerStep(w)
  PROVE  NoDeleter' /\ TicksOrdered' /\ CountsBounded' /\ Orphans'
<1> USE DEF WorkerAt
<1>o. UNCHANGED <<workers, cmdChan, loop, gor, ticks>>
  BY DEF WorkerStep, WorkerRun, WorkerEstablished, WorkerReturn, WorkerRetry,
         WorkerQuit, WorkerPanic
<1>t. info \in [Workers -> WorkerInfo]
  BY DEF OrphanInv, TypeInv, TypeOK
<1>i. \A v \in Workers : /\ info'[v].OfflineCount = info[v].OfflineCount
                         /\ info'[v].pc \in Running => info[v].pc \in Running
                         /\ info[v].cancelled => info'[v].cancelled
  <2>1. CASE WorkerRun(w)
    BY <2>1, <1>t DEF WorkerRun, WorkerInfo, Running
  <2>2. CASE WorkerEstablished(w)
    BY <2>2, <1>t DEF WorkerEstablished, WorkerInfo, Running
  <2>3. CASE WorkerReturn(w)
    BY <2>3, <1>t DEF WorkerReturn, WorkerInfo, Running
  <2>4. CASE WorkerRetry(w)
    BY <2>4, <1>t DEF WorkerRetry, WorkerInfo, Running
  <2>5. CASE WorkerQuit(w)
    BY <2>5, <1>t DEF WorkerQuit, WorkerInfo, Running
  <2>6. CASE WorkerPanic(w)
    BY <2>6, <1>t DEF WorkerPanic, WorkerInfo, Running
  <2> QED BY <2>1, <2>2, <2>3, <2>4, <2>5, <2>6 DEF WorkerStep
<1>f. loop.pc = "tick" => \A k \in loop.todo : workers[k] \in Workers
  BY DEF OrphanInv, TypeInv, TypeOK, LoopOK, Loop
<1>1. CountsBounded' /\ Orphans'
  BY <1>o, <1>i, <1>f, OrphanFrame DEF OrphanInv
<1>2. NoDeleter' /\ TicksOrdered'
  BY <1>o DEF OrphanInv, NoDeleter, QueueClean, GorClean, TicksOrdered
<1> QED BY <1>1, <1>2

\* The closures: only an installation adds a live worker, and it files it.
LEMMA LoopOrphan ==
  ASSUME OrphanInv,
         \/ LoopCancelOld \/ LoopInstall \/ LoopLookup \/ LoopDelete
         \/ LoopRegister \/ LoopList \/ LoopTakeoverMark \/ LoopTakeoverSweep
         \/ LoopTick
  PROVE  NoDeleter' /\ TicksOrdered' /\ CountsBounded' /\ Orphans'
<1> USE DEF LoopTakes, LoopAt
<1>t. /\ info \in [Workers -> WorkerInfo] /\ workers \in [Keys -> Workers \cup {None}]
      /\ loop \in Loop /\ cmdChan \in Seq(Closure) /\ gor \in [Goroutines -> Goroutine]
  BY DEF OrphanInv, TypeInv, TypeOK
<1>k. ASSUME NEW w \in Workers PROVE KeyOf(w) \in Keys
  BY DEF KeyOf, Workers
<1>q. ASSUME cmdChan # <<>>, Pop
      PROVE  /\ QueueClean' /\ Cur.op # "delete" /\ Cur \in Closure /\ ClosureOK(Cur)
             /\ UNCHANGED <<loop, ticks>> => TicksOrdered'
  BY <1>q, <1>t, PopQueue, PopOK, BoundsAssumption DEF OrphanInv, NoDeleter, TypeInv, TypeOK
<1>g. ASSUME NEW g \in Goroutines \cup {None}, NEW r, gor' = [gor EXCEPT ![g] = r],
             g \in Goroutines => r.op = gor[g].op /\ r.pc \in {"got", "done"}
      PROVE  GorClean'
  BY <1>g, GorCleanUpdate DEF OrphanInv, NoDeleter, GorClean
<1>x. ASSUME UNCHANGED gor PROVE GorClean'
  BY <1>x DEF OrphanInv, NoDeleter, GorClean
<1>c. ASSUME NEW W
      PROVE  \A w \in Workers :
               /\ CancelFunc(W)[w].OfflineCount = info[w].OfflineCount
               /\ CancelFunc(W)[w].pc = info[w].pc
               /\ info[w].cancelled => CancelFunc(W)[w].cancelled
               /\ w \in W /\ info[w].pc \in Running => CancelFunc(W)[w].cancelled
  BY <1>t DEF CancelFunc, WorkerInfo, Running
<1>1. CASE LoopCancelOld
  <2>1. QueueClean' /\ TicksOrdered' /\ Cur \in Closure
    BY <1>1, <1>q DEF LoopCancelOld
  <2>2. GorClean'
    <3> DEFINE r == [gor[Cur.g] EXCEPT !.pc = "got"]
    <3>1. Cur.g \in Goroutines => r.op = gor[Cur.g].op /\ r.pc = "got"
      BY <1>t DEF Goroutine
    <3>2. gor' = [gor EXCEPT ![Cur.g] = r] /\ Cur.g \in Goroutines \cup {None}
      BY <1>1, <2>1 DEF LoopCancelOld, Closure
    <3> HIDE DEF r
    <3> QED BY <3>1, <3>2, <1>g
  <2>3. CountsBounded' /\ Orphans'
    BY <1>1, <1>c, OrphanFrame DEF LoopCancelOld, OrphanInv
  <2> QED BY <2>1, <2>2, <2>3, <1>1 DEF LoopCancelOld, NoDeleter
<1>2. CASE LoopInstall
  <2>1. QueueClean' /\ TicksOrdered' /\ Cur \in Closure /\ ClosureOK(Cur)
    BY <1>2, <1>q DEF LoopInstall
  <2>2. PICK k \in Cur.keys : Install(Cur, k)
    BY <1>2 DEF LoopInstall
  <2>3. k \in Keys /\ <<Cur.g, k>> \in Workers /\ KeyOf(<<Cur.g, k>>) = k
    BY <1>2, <2>1, <2>2 DEF LoopInstall, Cur, Closure, ClosureOK, Workers, KeyOf
  <2>4. /\ info' = [CancelFunc(Existing(k)) EXCEPT ![<<Cur.g, k>>] = NewWorker(Cur.cfg)]
        /\ workers' = [workers EXCEPT ![k] = <<Cur.g, k>>]
    BY <2>2 DEF Install
  <2>5. NewWorker(Cur.cfg).OfflineCount = 0
    BY DEF NewWorker, NoInfo
  <2>6. loop' = loop /\ loop.pc = "idle" /\ loop.n >= 0
    BY <1>2, <1>t, BoundsAssumption DEF LoopInstall, Loop
  <2>d. CancelFunc(Existing(k)) = [w \in Workers |-> CancelFunc(Existing(k))[w]]
    BY DEF CancelFunc
  <2>e. info'[<<Cur.g, k>>] = NewWorker(Cur.cfg)
        /\ \A w \in Workers : w # <<Cur.g, k>> => info'[w] = CancelFunc(Existing(k))[w]
    BY <2>d, <2>4, <2>3
  <2>7. CountsBounded'
    BY <2>e, <2>5, <2>6, <1>c DEF CountsBounded, OrphanInv
  <2>8. Orphans'
    <3> SUFFICES ASSUME NEW w \in Workers, info'[w].pc \in Running, ~info'[w].cancelled
                 PROVE  workers'[KeyOf(w)] = w
      BY DEF Orphans, Live
    <3>1. CASE w = <<Cur.g, k>>
      BY <3>1, <2>3, <2>4, <1>t
    <3>2. CASE w # <<Cur.g, k>>
      <4>1. Live(w) /\ w \notin Existing(k)
        BY <3>2, <2>e, <1>c DEF Live
      <4>2. workers[KeyOf(w)] = w
        BY <4>1 DEF OrphanInv, Orphans
      <4>3. KeyOf(w) # k
        BY <4>1, <4>2, NoneAssumption DEF Existing
      <4> QED BY <4>2, <4>3, <2>4, <1>k, <1>t
    <3> QED BY <3>1, <3>2
  <2> QED BY <2>1, <2>6, <2>7, <2>8, <1>x, <1>2 DEF LoopInstall, NoDeleter
<1>3. CASE LoopLookup
  <2>1. QueueClean' /\ TicksOrdered' /\ Cur \in Closure
    BY <1>3, <1>q DEF LoopLookup
  <2>2. GorClean'
    <3> DEFINE T == UNION {Existing(k) : k \in Cur.keys}
               r == [gor[Cur.g] EXCEPT !.pc = "got", !.todo = T]
    <3>2. gor' = [gor EXCEPT ![Cur.g] = r] /\ Cur.g \in Goroutines \cup {None}
      BY <1>3, <2>1 DEF LoopLookup, Closure
    <3> HIDE DEF T
    <3>1. Cur.g \in Goroutines => r.op = gor[Cur.g].op /\ r.pc = "got"
      BY <1>t DEF Goroutine
    <3> HIDE DEF r
    <3> QED BY <3>1, <3>2, <1>g
  <2>3. CountsBounded' /\ Orphans'
    BY <1>3 DEF LoopLookup, OrphanInv, CountsBounded, Orphans, Live
  <2> QED BY <2>1, <2>2, <2>3, <1>3 DEF LoopLookup, NoDeleter
<1>4. CASE LoopDelete
  BY <1>4, <1>q DEF LoopDelete, Cur
<1>5. CASE LoopRegister
  <2>1. QueueClean' /\ TicksOrdered' /\ Cur \in Closure /\ ClosureOK(Cur)
    BY <1>5, <1>q DEF LoopRegister
  <2>g. Cur.g \in Goroutines /\ Cur.keys \subseteq Keys
    BY <1>5, <2>1 DEF LoopRegister, Cur, Closure, ClosureOK
  <2>6. loop' = loop /\ loop.pc = "idle" /\ loop.n >= 0
    BY <1>5, <1>t, BoundsAssumption DEF LoopRegister, Loop
  <2>2. PICK k \in Cur.keys :
          IF workers[k] # None
            THEN /\ info' = [info EXCEPT ![workers[k]] = [info[workers[k]] EXCEPT !.status = Cur.arg]]
                 /\ UNCHANGED workers
            ELSE /\ info' = [info EXCEPT ![<<Cur.g, k>>] =
                               [NoInfo EXCEPT !.pc = "ext", !.status = Cur.arg]]
                 /\ workers' = [workers EXCEPT ![k] = <<Cur.g, k>>]
    BY <1>5 DEF LoopRegister
  <2>3. CASE workers[k] # None
    <3>1. \A w \in Workers : /\ info'[w].OfflineCount = info[w].OfflineCount
                             /\ info'[w].pc = info[w].pc
                             /\ info'[w].cancelled = info[w].cancelled
      BY <2>3, <2>2, <1>t DEF WorkerInfo
    <3>2. CountsBounded' /\ Orphans'
      BY <3>1, <2>2, <2>3, <2>6, OrphanFrame DEF OrphanInv
    <3> QED BY <3>2, <2>1, <2>6, <1>x, <1>5 DEF LoopRegister, NoDeleter
  <2>4. CASE workers[k] = None
    <3> DEFINE r == [NoInfo EXCEPT !.pc = "ext", !.status = Cur.arg]
    <3>1. r.OfflineCount = 0 /\ r.pc = "ext"
      BY DEF NoInfo
    <3>2. info' = [info EXCEPT ![<<Cur.g, k>>] = r] /\ workers' = [workers EXCEPT ![k] = <<Cur.g, k>>]
      BY <2>2, <2>4
    <3> HIDE DEF r
    <3>3. <<Cur.g, k>> \in Workers /\ k \in Keys
      BY <2>g DEF Workers
    <3>4. CountsBounded'
      BY <3>1, <3>2, <3>3, <2>6, <1>t DEF CountsBounded, OrphanInv
    <3>5. Orphans'
      <4> SUFFICES ASSUME NEW w \in Workers, info'[w].pc \in Running, ~info'[w].cancelled
                   PROVE  workers'[KeyOf(w)] = w
        BY DEF Orphans, Live
      <4>1. w # <<Cur.g, k>> /\ info'[w] = info[w]
        BY <3>1, <3>2, <3>3, <1>t DEF Running
      <4>2. workers[KeyOf(w)] = w
        BY <4>1 DEF OrphanInv, Orphans, Live
      <4>3. KeyOf(w) # k
        BY <4>2, <2>4, NoneAssumption
      <4> QED BY <4>2, <4>3, <3>2, <1>k, <1>t
    <3> QED BY <3>4, <3>5, <2>1, <2>6, <1>x, <1>5 DEF LoopRegister, NoDeleter
  <2> QED BY <2>3, <2>4
<1>6. CASE LoopList
  <2>1. QueueClean' /\ TicksOrdered' /\ Cur \in Closure
    BY <1>6, <1>q DEF LoopList
  <2>2. GorClean'
    <3> DEFINE r == [gor[Cur.g] EXCEPT !.pc = "done", !.ans = "ok"]
    <3>1. Cur.g \in Goroutines => r.op = gor[Cur.g].op /\ r.pc = "done"
      BY <1>t DEF Goroutine
    <3>2. gor' = [gor EXCEPT ![Cur.g] = r] /\ Cur.g \in Goroutines \cup {None}
      BY <1>6, <2>1 DEF LoopList, Closure
    <3> HIDE DEF r
    <3> QED BY <3>1, <3>2, <1>g
  <2>3. CountsBounded' /\ Orphans'
    BY <1>6 DEF LoopList, OrphanInv, CountsBounded, Orphans, Live
  <2> QED BY <2>1, <2>2, <2>3, <1>6 DEF LoopList, NoDeleter
<1>7. CASE LoopTakeoverMark
  <2>1. QueueClean'
    BY <1>7, <1>q DEF LoopTakeoverMark
  <2>l. loop'.n = loop.n /\ loop'.pc = "migrating"
    BY <1>7, <1>t DEF LoopTakeoverMark, Loop
  <2>2. TicksOrdered'
    <3>1. TicksOrdered /\ ticks' = ticks /\ cmdChan # <<>> /\ Pop
      BY <1>7 DEF LoopTakeoverMark, OrphanInv
    <3>2. /\ Len(cmdChan') = Len(cmdChan) - 1 /\ Len(cmdChan) \in Nat
          /\ \A i \in 1..Len(cmdChan') : cmdChan'[i] = cmdChan[i + 1] /\ i + 1 \in 1..Len(cmdChan)
          /\ \A i, j \in 1..Len(cmdChan') : i < j => i + 1 < j + 1
      BY <3>1, <1>t DEF Pop
    <3> QED BY <3>1, <3>2, <2>l DEF TicksOrdered
  <2>3. \A w \in Workers : /\ info'[w].OfflineCount = info[w].OfflineCount
                           /\ info'[w].pc = info[w].pc
                           /\ info'[w].cancelled = info[w].cancelled
    BY <1>7, <1>t DEF LoopTakeoverMark, WorkerInfo
  <2>4. CountsBounded' /\ Orphans'
    BY <2>3, <2>l, <1>7, OrphanFrame DEF LoopTakeoverMark, OrphanInv
  <2> QED BY <2>1, <2>2, <2>4, <2>l, <1>x, <1>7 DEF LoopTakeoverMark, NoDeleter
<1>8. CASE LoopTakeoverSweep
  <2>l. loop'.n = loop.n /\ loop'.pc = "idle"
    BY <1>8, <1>t DEF LoopTakeoverSweep, Loop
  <2>1. TicksOrdered' /\ QueueClean'
    BY <1>8, <2>l DEF LoopTakeoverSweep, OrphanInv, NoDeleter, TicksOrdered, QueueClean
  <2>2. info' = CancelFunc(Mapped)
    BY <1>8 DEF LoopTakeoverSweep
  <2>3. CountsBounded'
    BY <2>2, <2>l, <1>c DEF CountsBounded, OrphanInv
  <2>4. Orphans'
    <3> SUFFICES ASSUME NEW w \in Workers, info'[w].pc \in Running, ~info'[w].cancelled
                 PROVE  FALSE
      BY DEF Orphans, Live
    <3>1. Live(w) /\ w \notin Mapped
      BY <2>2, <1>c DEF Live
    <3>2. workers[KeyOf(w)] = w
      BY <3>1 DEF OrphanInv, Orphans
    <3> QED BY <3>1, <3>2, <1>k, NoneAssumption DEF Mapped
  <2> QED BY <2>1, <2>3, <2>4, <2>l, <1>x, <1>8 DEF LoopTakeoverSweep, NoDeleter
<1>9. CASE LoopTick
  <2>1. QueueClean'
    BY <1>9, <1>q DEF LoopTick
  <2>l. loop'.n = Cur.n /\ loop'.pc = "tick" /\ loop'.todo = Present
    BY <1>9 DEF LoopTick
  <2>c. /\ loop.n < Cur.n /\ Cur.n <= ticks
        /\ \A i \in 1..Len(cmdChan') :
             cmdChan'[i].op = "tick" => Cur.n < cmdChan'[i].n /\ cmdChan'[i].n <= ticks
        /\ \A i, j \in 1..Len(cmdChan') :
             i < j /\ cmdChan'[i].op = "tick" /\ cmdChan'[j].op = "tick" =>
               cmdChan'[i].n < cmdChan'[j].n
    BY <1>9, <1>t, PopQueue DEF LoopTick, Cur, OrphanInv
  <2>2. TicksOrdered'
    BY <2>l, <2>c, <1>9 DEF TicksOrdered, LoopTick
  <2>n. loop.n \in Nat /\ Cur.n \in Nat
    BY <1>9, <1>t, <1>q, BoundsAssumption DEF LoopTick, Loop, Closure
  <2>3. \A w \in Workers : info[w].OfflineCount <= loop.n /\ info[w].OfflineCount \in Nat
    BY <1>t DEF OrphanInv, CountsBounded, WorkerInfo
  <2>4. \A w \in Workers : info[w].OfflineCount < Cur.n
    BY <2>3, <2>n, <2>c
  <2>5. \A k \in Present : workers[k] \in Workers
    BY <1>t DEF Present
  <2>6. CountsBounded'
    BY <2>4, <2>3, <2>5, <2>l, <2>n, <1>9 DEF CountsBounded, LoopTick
  <2>7. Orphans'
    BY <1>9 DEF LoopTick, OrphanInv, Orphans, Live
  <2> QED BY <2>1, <2>2, <2>6, <2>7, <2>l, <1>x, <1>9 DEF LoopTick, NoDeleter
<1> QED
  BY <1>1, <1>2, <1>3, <1>4, <1>5, <1>6, <1>7, <1>8, <1>9

\* The tick: before MaxOfflineCount ticks it never stops a worker.
LEMMA TickOrphan ==
  ASSUME FewTicks, OrphanInv, TickStep, NoDeletions'
  PROVE  NoDeleter' /\ TicksOrdered' /\ CountsBounded' /\ Orphans'
<1> USE DEF LoopAt, InTick
<1>t. /\ info \in [Workers -> WorkerInfo] /\ workers \in [Keys -> Workers \cup {None}]
      /\ loop \in Loop /\ loop.todo \subseteq Keys /\ loop.n \in Nat
      /\ loop.n <= ticks /\ ticks \in Nat /\ ticks <= MaxTicks
  BY BoundsAssumption DEF OrphanInv, TypeInv, TypeOK, Loop, TicksOrdered
<1>w. ASSUME NEW k \in Keys, InTick(k)
      PROVE  workers[k] \in Workers /\ info[workers[k]] \in WorkerInfo
  BY <1>w, <1>t DEF OrphanInv, TypeInv, LoopOK
<1>v. loop.pc = "tick" => \A k \in loop.todo : workers[k] \in Workers
  BY <1>t DEF OrphanInv, TypeInv, LoopOK
<1>q. ASSUME UNCHANGED <<cmdChan, ticks>>, loop'.n = loop.n
      PROVE  QueueClean' /\ TicksOrdered'
  BY <1>q DEF OrphanInv, NoDeleter, QueueClean, TicksOrdered
<1>x. ASSUME UNCHANGED gor PROVE GorClean'
  BY <1>x DEF OrphanInv, NoDeleter, GorClean
<1>d. ASSUME NEW k \in Keys, InTick(k), TickDone(k)
      PROVE  loop'.n = loop.n /\ loop'.pc = "tick" /\ loop'.todo = loop.todo \ {k}
  BY <1>d, <1>t DEF TickDone, Loop
<1>s. ASSUME NEW k \in Keys, GoStartWorker(k) PROVE GorClean'
  <2> DEFINE c == info[workers[k]].Config
             r == [NoGoroutine EXCEPT !.op = "startWorker", !.pc = "send",
                     !.keys = {k}, !.cur = c]
  <2>1. gor' = [gor EXCEPT ![<<loop.n, k>>] = r]
    BY <1>s DEF GoStartWorker
  <2> HIDE DEF c
  <2>2. r.op = "startWorker" /\ r.pc = "send"
    BY DEF NoGoroutine
  <2> HIDE DEF r
  <2> QED BY <2>1, <2>2, GorCleanUpdate DEF OrphanInv, NoDeleter
<1>f. ASSUME UNCHANGED workers, loop'.n = loop.n, loop'.todo \subseteq loop.todo, loop.pc = "tick",
             \A w \in Workers : /\ info'[w].OfflineCount = info[w].OfflineCount
                                /\ info'[w].pc = info[w].pc
                                /\ info'[w].cancelled = info[w].cancelled
      PROVE  CountsBounded' /\ Orphans'
  BY <1>f, <1>v, OrphanFrame DEF OrphanInv
<1>1. ASSUME NEW k \in Keys, TickReconnect(k)
      PROVE  NoDeleter' /\ TicksOrdered' /\ CountsBounded' /\ Orphans'
  <2>1. InTick(k) /\ TickDone(k) /\ GoStartWorker(k) /\ UNCHANGED <<workers, cmdChan, ticks>>
    BY <1>1 DEF TickReconnect
  <2>2. \A w \in Workers : /\ info'[w].OfflineCount = info[w].OfflineCount
                           /\ info'[w].pc = info[w].pc
                           /\ info'[w].cancelled = info[w].cancelled
    BY <1>1, <1>t DEF TickReconnect, WorkerInfo
  <2> QED BY <2>1, <2>2, <1>d, <1>f, <1>q, <1>s DEF NoDeleter
<1>2. ASSUME NEW k \in Keys, TickNoProgress(k)
      PROVE  NoDeleter' /\ TicksOrdered' /\ CountsBounded' /\ Orphans'
  <2>1. InTick(k) /\ TickDone(k) /\ GoStartWorker(k) /\ UNCHANGED <<workers, cmdChan, info, ticks>>
    BY <1>2 DEF TickNoProgress
  <2> QED BY <2>1, <1>d, <1>f, <1>q, <1>s DEF NoDeleter
<1>3. ASSUME NEW k \in Keys, TickNoHeartbeat(k)
      PROVE  NoDeleter' /\ TicksOrdered' /\ CountsBounded' /\ Orphans'
  <2> DEFINE n == info[workers[k]].OfflineCount + 1
  <2>1. InTick(k) /\ workers[k] \in Workers /\ info[workers[k]] \in WorkerInfo
    BY <1>3, <1>w DEF TickNoHeartbeat
  <2>2. info[workers[k]].OfflineCount \in Nat /\ info[workers[k]].OfflineCount < loop.n
    BY <2>1 DEF OrphanInv, CountsBounded, WorkerInfo
  <2>3. n <= loop.n /\ n \in Nat /\ ~(n >= MaxOfflineCount)
    BY <2>2, <1>t, BoundsAssumption DEF FewTicks
  <2>4. loop'.n = loop.n /\ loop'.pc = "tick" /\ loop'.todo = loop.todo \ {k}
    BY <1>3, <2>3, <2>1, <1>t DEF TickNoHeartbeat, Loop
  <2> DEFINE b == info[workers[k]].cancelled
                    \/ (n >= MaxOfflineCount /\ info[workers[k]].pc # "ext")
             r == [info[workers[k]] EXCEPT !.status = "offline", !.ReconnectNeeded = TRUE,
                     !.OfflineCount = n, !.cancelled = b]
  <2>5. info' = [info EXCEPT ![workers[k]] = r]
    BY <1>3 DEF TickNoHeartbeat
  <2>b. b = info[workers[k]].cancelled
    BY <2>3, <2>1 DEF WorkerInfo
  <2> HIDE DEF n, b
  <2>6. r.OfflineCount = n /\ r.pc = info[workers[k]].pc /\ r.cancelled = b
    BY <2>1 DEF WorkerInfo
  <2> HIDE DEF r
  <2>7. /\ info'[workers[k]] = r
        /\ \A w \in Workers : w # workers[k] => info'[w] = info[w]
    BY <2>5, <2>1, <1>t
  <2>u. UNCHANGED <<workers, cmdChan, gor, ticks>>
    BY <1>3 DEF TickNoHeartbeat
  <2>8. Orphans'
    BY <2>7, <2>6, <2>b, <2>u DEF Orphans, Live, OrphanInv
  <2>9. CountsBounded'
    <3>1. \A w \in Workers : info'[w].OfflineCount <= loop.n
      BY <2>7, <2>6, <2>3 DEF CountsBounded, OrphanInv
    <3>2. ASSUME NEW j \in loop'.todo PROVE info'[workers[j]].OfflineCount < loop.n
      <4>1. j \in loop.todo /\ j # k /\ j \in Keys /\ workers[j] \in Workers
        BY <3>2, <2>4, <1>v, <1>t, <2>1
      <4>2. workers[j] # workers[k]
        BY <4>1, <2>1, NoneAssumption DEF OrphanInv, MapKeys
      <4> QED BY <4>1, <4>2, <2>7, <2>1 DEF OrphanInv, CountsBounded
    <3> QED BY <3>1, <3>2, <2>4, <2>u DEF CountsBounded
  <2> QED BY <2>8, <2>9, <2>4, <2>u, <1>q, <1>x DEF NoDeleter
<1>4. ASSUME NEW k \in Keys, NEW expired \in BOOLEAN, TickHealthy(k, expired)
      PROVE  NoDeleter' /\ TicksOrdered' /\ CountsBounded' /\ Orphans'
  <2>1. InTick(k) /\ workers[k] \in Workers /\ info[workers[k]] \in WorkerInfo
    BY <1>4, <1>w DEF TickHealthy
  <2>2. UNCHANGED <<workers, cmdChan, ticks>> /\ TickDone(k)
    BY <1>4 DEF TickHealthy
  <2> DEFINE lr == [NoGoroutine EXCEPT !.op = "restart", !.pc = "next",
                      !.keys = {k}, !.todo = {workers[k]}]
  <2>3. lr.op = "restart"
    BY DEF NoGoroutine
  <2>g. <<loop.n, k>> \in Goroutines
    <3>1. info[workers[k]].OfflineCount \in Nat /\ info[workers[k]].OfflineCount < loop.n
      BY <2>1 DEF OrphanInv, CountsBounded, WorkerInfo
    <3>2. loop.n \in 1..MaxTicks
      BY <3>1, <1>t, BoundsAssumption
    <3> QED BY <3>2 DEF Goroutines, Spawned
  <2>4. UNCHANGED gor
    <3>1. gor' = [gor EXCEPT ![<<loop.n, k>>] = lr] \/ UNCHANGED gor
      BY <1>4 DEF TickHealthy
    <3> HIDE DEF lr
    <3>2. gor' # [gor EXCEPT ![<<loop.n, k>>] = lr]
      BY <2>3, <2>g DEF NoDeletions, OrphanInv, TypeInv, TypeOK
    <3> QED BY <3>1, <3>2
  <2> DEFINE n == IF TimesSet(workers[k]) /\ info[workers[k]].status = "online"
                    THEN 0 ELSE info[workers[k]].OfflineCount
             b == info[workers[k]].checked
                    \/ LifetimeOver(workers[k], expired)
             r == [info[workers[k]] EXCEPT !.OfflineCount = n, !.checked = b]
  <2>5. info' = [info EXCEPT ![workers[k]] = r]
    BY <1>4 DEF TickHealthy
  <2>6. n \in Nat /\ n <= info[workers[k]].OfflineCount
    BY <2>1 DEF WorkerInfo
  <2> HIDE DEF n, b
  <2>7. r.OfflineCount = n /\ r.pc = info[workers[k]].pc
        /\ r.cancelled = info[workers[k]].cancelled
    BY <2>1 DEF WorkerInfo
  <2> HIDE DEF r
  <2>8. /\ info'[workers[k]] = r
        /\ \A w \in Workers : w # workers[k] => info'[w] = info[w]
    BY <2>5, <2>1, <1>t
  <2>9. \A w \in Workers : info'[w].OfflineCount <= info[w].OfflineCount
                           /\ info[w].OfflineCount \in Nat /\ info'[w].OfflineCount \in Nat
    BY <2>8, <2>7, <2>6, <1>t DEF WorkerInfo
  <2>10. loop'.n = loop.n /\ loop'.pc = "tick" /\ loop'.todo = loop.todo \ {k}
    BY <2>1, <2>2, <1>d
  <2>11. Orphans'
    BY <2>8, <2>7, <2>2 DEF Orphans, Live, OrphanInv
  <2>12. CountsBounded'
    <3>1. \A w \in Workers : info[w].OfflineCount <= loop.n
      BY DEF OrphanInv, CountsBounded
    <3>2. \A j \in loop.todo : info[workers[j]].OfflineCount < loop.n /\ workers[j] \in Workers
      BY <2>1, <1>v DEF OrphanInv, CountsBounded
    <3>3. \A w \in Workers : info'[w].OfflineCount <= loop.n
      BY <3>1, <2>9, <1>t
    <3>4. \A j \in loop.todo : info'[workers[j]].OfflineCount < loop.n
      BY <3>2, <2>9, <1>t
    <3> QED BY <3>3, <3>4, <2>10, <2>2 DEF CountsBounded
  <2> QED BY <2>11, <2>12, <2>10, <2>2, <2>4, <1>q, <1>x DEF NoDeleter
<1>5. CASE TickStopWorker
  BY <1>5 DEF TickStopWorker, OrphanInv, NoDeleter
<1>6. CASE TickEnd
  <2>1. loop'.n = loop.n /\ loop'.pc = "idle"
    BY <1>6, <1>t DEF TickEnd, Loop
  <2>2. UNCHANGED <<workers, cmdChan, info, gor, ticks>>
    BY <1>6 DEF TickEnd
  <2>3. CountsBounded' /\ Orphans'
    BY <2>1, <2>2 DEF CountsBounded, Orphans, Live, OrphanInv
  <2> QED BY <2>1, <2>2, <2>3, <1>q, <1>x DEF NoDeleter
<1> QED BY <1>1, <1>2, <1>3, <1>4, <1>5, <1>6 DEF TickStep

LEMMA NextOrphan == FewTicks /\ OrphanInv /\ [Next]_vars /\ NoDeletions' => OrphanInv'
<1> SUFFICES ASSUME FewTicks, OrphanInv, [Next]_vars, NoDeletions' PROVE OrphanInv'
  OBVIOUS
<1>0. TypeInv' /\ MapKeys'
  BY NextType, MapKeysStep DEF OrphanInv
<1> DEFINE Rest == NoDeleter /\ TicksOrdered /\ CountsBounded /\ Orphans
<1>r. Rest' => OrphanInv'
  BY <1>0 DEF OrphanInv
<1>1. CASE \E g \in Clients : Request(g)
  BY <1>1, <1>r, RequestOrphan
<1>2. CASE \E g \in Goroutines : HandlerStep(g)
  BY <1>2, <1>r, HandlerOrphan
<1>3. CASE LoopStep
  BY <1>3, <1>r, LoopOrphan, TickOrphan DEF LoopStep
<1>4. CASE TickSend
  <2>u. UNCHANGED <<workers, loop, info, gor>> /\ ticks' = ticks + 1
        /\ ticks \in Nat /\ cmdChan \in Seq(Closure)
    <3>1. ticks \in 0..MaxTicks /\ cmdChan \in Seq(Closure)
      BY DEF OrphanInv, TypeInv, TypeOK
    <3>2. UNCHANGED <<workers, loop, info, gor>> /\ ticks' = ticks + 1
      BY <1>4 DEF TickSend
    <3> QED BY <3>1, <3>2, BoundsAssumption
  <2>1. CountsBounded' /\ Orphans'
    BY <2>u DEF CountsBounded, Orphans, Live, OrphanInv
  <2> DEFINE c == Cmd("tick", None, {}, None, "", ticks + 1)
  <2>2. c.op = "tick" /\ c.n = ticks + 1
    BY DEF Cmd
  <2>3. cmdChan' = Append(cmdChan, c)
    BY <1>4 DEF TickSend, Send
  <2> HIDE DEF c
  <2>4. /\ Len(cmdChan') = Len(cmdChan) + 1 /\ Len(cmdChan) \in Nat
        /\ \A i \in 1..Len(cmdChan) : cmdChan'[i] = cmdChan[i]
        /\ cmdChan'[Len(cmdChan) + 1] = c
    BY <2>3, <2>u
  <2>5. \A i \in 1..Len(cmdChan') : i \in 1..Len(cmdChan) \/ i = Len(cmdChan) + 1
    BY <2>4
  <2>6. QueueClean'
    BY <2>2, <2>4, <2>5 DEF QueueClean, OrphanInv, NoDeleter
  <2>n. loop.n \in Nat /\ \A i \in 1..Len(cmdChan) : cmdChan[i].n \in Nat
    <3>1. loop.n \in 0..MaxTicks
      BY DEF OrphanInv, TypeInv, TypeOK, Loop
    <3>2. \A i \in 1..Len(cmdChan) : cmdChan[i] \in Closure
      BY <2>u
    <3>3. \A d \in Closure : d.n \in 0..MaxTicks
      BY DEF Closure
    <3> QED BY <3>1, <3>2, <3>3, BoundsAssumption
  <2>t. TicksOrdered
    BY DEF OrphanInv
  <2>7. TicksOrdered'
    <3>1. loop'.n <= ticks'
      BY <2>u, <2>n, <2>t DEF TicksOrdered
    <3>2. ASSUME NEW i \in 1..Len(cmdChan'), cmdChan'[i].op = "tick"
          PROVE  loop'.n < cmdChan'[i].n /\ cmdChan'[i].n <= ticks'
      BY <3>2, <2>u, <2>n, <2>t, <2>2, <2>4, <2>5 DEF TicksOrdered
    <3>3. ASSUME NEW i \in 1..Len(cmdChan'), NEW m \in 1..Len(cmdChan'), i < m,
                 cmdChan'[i].op = "tick", cmdChan'[m].op = "tick"
          PROVE  cmdChan'[i].n < cmdChan'[m].n
      <4>1. i \in 1..Len(cmdChan)
        BY <3>3, <2>4
      <4>2. cmdChan'[i] = cmdChan[i] /\ cmdChan[i].n <= ticks
        BY <4>1, <3>3, <2>4, <2>t DEF TicksOrdered
      <4>3. CASE m \in 1..Len(cmdChan)
        BY <4>1, <4>3, <3>3, <2>4, <2>t DEF TicksOrdered
      <4>4. CASE m = Len(cmdChan) + 1
        BY <4>1, <4>2, <4>4, <2>2, <2>4, <2>n, <2>u
      <4> QED BY <4>3, <4>4, <2>5
    <3> QED BY <3>1, <3>2, <3>3 DEF TicksOrdered
  <2>8. GorClean'
    BY <2>u DEF GorClean, OrphanInv, NoDeleter
  <2> QED BY <2>1, <2>6, <2>7, <2>8, <2>u, <1>0 DEF OrphanInv, NoDeleter
<1>5. CASE \E w \in Workers : WorkerStep(w)
  BY <1>5, <1>r, WorkerOrphan
<1>6. CASE Exit \/ UNCHANGED vars
  <2>1. UNCHANGED <<workers, cmdChan, loop, info, gor, ticks>>
    BY <1>6 DEF Exit, vars
  <2>2. CountsBounded' /\ Orphans'
    BY <2>1 DEF CountsBounded, Orphans, Live, OrphanInv
  <2>3. NoDeleter' /\ TicksOrdered'
    BY <2>1 DEF OrphanInv, NoDeleter, QueueClean, GorClean, TicksOrdered
  <2> QED BY <2>2, <2>3, <1>0 DEF OrphanInv
<1> QED BY <1>1, <1>2, <1>3, <1>4, <1>5, <1>6 DEF Next

-----------------------------------------------------------------------------
(* Stop and restart.  A worker that has returned stays so: its WorkerInfo      *)
(* could only come back to life if it were installed again.  A WorkerInfo is   *)
(* named by the goroutine that makes it and the key, so this is the claim that *)
(* no goroutine calls startWorker twice for a key, which needs an account of   *)
(* what every handler has ahead of it, of the closures it has queued and of    *)
(* the one it waits for.                                                       *)

\* A goroutine in state r may still install a worker under k.
Ahead(r, k) ==
  \/ r.pc \in {"idle", "wait"}
  \/ r.op = "start" /\ r.pc = "got" /\ k \in r.keys
  \/ r.op = "startWorker" /\ r.pc = "send" /\ k \in r.keys
  \/ r.op \in {"stop", "restart"} /\ r.pc \in {"got", "next", "join", "install"}
       /\ k \in DeletedKeys(r.todo)
  \/ r.pc \in {"join", "install"} /\ k = KeyOf(r.cur)

Fresh ==
  \A g \in Goroutines : \A k \in Keys : Ahead(gor[g], k) => info[<<g, k>>].pc = "none"

\* A handler acts on one worker per key and answers after the last.
Shape(r) ==
  /\ r.pc \in {"idle", "wait", "got"} => r.hit = {} /\ r.ans = "none"
  /\ r.pc \in {"next", "join"} => r.op \in {"stop", "restart"}
  /\ r.pc = "install" => r.op = "restart"
  /\ r.pc \in {"join", "install"} => r.cur \in r.hit /\ KeyOf(r.cur) \notin DeletedKeys(r.todo)
  /\ \A v, w \in r.todo : KeyOf(v) = KeyOf(w) => v = w
  /\ r.op \in {"stop", "restart"} /\ r.ans = "ok" => r.pc = "done" /\ r.hit # {}

Shapes == \A g \in Goroutines : Shape(gor[g])

\* The workers it has acted on have returned, but for the one it waits for.
HitDone(r, I) ==
  r.op \in {"stop", "restart"} =>
    \A w \in r.hit : I[w].pc \in {"done", "ext"} \/ (r.pc = "join" /\ w = r.cur)

HitsDone == \A g \in Goroutines : HitDone(gor[g], info)

\* The goroutines of later ticks, and of keys this tick has yet to look at.
SpawnFresh ==
  /\ loop.pc \in {"tick", "stopWorker"} => loop.n > 0
  /\ \A n \in 1..MaxTicks : \A k \in Keys :
       n > loop.n \/ (n = loop.n /\ loop.pc \in {"tick", "stopWorker"} /\ k \in loop.todo)
         => gor[<<n, k>>].pc = "idle"

\* Closures whose sender waits for a reply.
Awaited == {"cancelOld", "lookup", "list"}

\* What a queued closure says of its sender and of the workers it will install.
Fits(c, G, I) ==
  /\ c.op \in Awaited => c.g \in Goroutines /\ G[c.g].pc = "wait"
  /\ c.op = "cancelOld" => G[c.g].op = "start"
  /\ c.op = "lookup" => G[c.g].op \in {"stop", "restart", "stopAll"}
  /\ c.op = "list" => G[c.g].op = "list"
  /\ c.op = "register" => G[c.g].op = "register" /\ G[c.g].pc = "done"
  /\ c.op = "install" =>
       /\ G[c.g].op \in {"start", "restart", "startWorker"} /\ G[c.g].pc # "idle"
       /\ \A k \in c.keys : ~Ahead(G[c.g], k) /\ I[<<c.g, k>>].pc = "none"

Clash(c, d) ==
  /\ c.g = d.g
  /\ \/ c.op \in Awaited /\ d.op \in Awaited
     \/ c.op = "install" /\ d.op = "install" /\ c.keys \cap d.keys # {}

QueueFits == \A i \in 1..Len(cmdChan) : Fits(cmdChan[i], gor, info)
NoClash == \A i, j \in 1..Len(cmdChan) : i < j => ~Clash(cmdChan[i], cmdChan[j])

HandlerInv ==
  /\ TypeInv /\ MapKeys /\ TicksOrdered
  /\ SpawnFresh /\ Shapes /\ HitsDone /\ Fresh /\ QueueFits /\ NoClash

LEMMA HandlerInvImplies == HandlerInv => StopMeansDone /\ RestartNeverOverlaps
<1> SUFFICES ASSUME HandlerInv PROVE StopMeansDone /\ RestartNeverOverlaps
  OBVIOUS
<1>1. StopMeansDone
  BY DEF HandlerInv, Shapes, Shape, HitsDone, HitDone, StopMeansDone, Finished
<1>2. RestartNeverOverlaps
  <2> SUFFICES ASSUME NEW g \in Goroutines, NEW w \in gor[g].hit, gor[g].op = "restart",
                      info[<<g, KeyOf(w)>>].pc # "none", ~Finished(w)
               PROVE  FALSE
    BY DEF RestartNeverOverlaps
  <2>1. gor[g].pc = "join" /\ w = gor[g].cur
    BY DEF HandlerInv, HitsDone, HitDone, Finished
  <2>2. KeyOf(w) \in Keys
    BY DEF HandlerInv, TypeInv, TypeOK, Goroutine, Workers, KeyOf
  <2> QED BY <2>1, <2>2 DEF HandlerInv, Fresh, Ahead
<1> QED BY <1>1, <1>2

LEMMA InitHandler == Init => HandlerInv
<1> SUFFICES ASSUME Init PROVE HandlerInv
  OBVIOUS
<1>1. \A g \in Goroutines : gor[g] = NoGoroutine
  BY DEF Init
<1>2. MapKeys /\ TicksOrdered
  BY InitOrphan DEF OrphanInv
<1>n. /\ NoGoroutine.pc = "idle" /\ NoGoroutine.op = "none" /\ NoGoroutine.ans = "none"
      /\ NoGoroutine.hit = {} /\ NoGoroutine.todo = {}
  BY DEF NoGoroutine
<1>3. SpawnFresh
  <2>1. \A n \in 1..MaxTicks : \A k \in Keys : <<n, k>> \in Goroutines
    BY DEF Goroutines, Spawned
  <2> QED BY <1>1, <1>n, <2>1 DEF SpawnFresh, Init, IdleLoop
<1>4. Shapes /\ HitsDone
  <2>1. Shape(NoGoroutine) /\ HitDone(NoGoroutine, info)
    BY <1>n DEF Shape, HitDone
  <2> QED BY <1>1, <2>1 DEF Shapes, HitsDone
<1>5. Fresh
  <2>1. \A g \in Goroutines : \A k \in Keys : <<g, k>> \in Workers
    BY DEF Workers
  <2> QED BY <2>1 DEF Init, Fresh, NoInfo
<1>6. QueueFits /\ NoClash
  BY DEF Init, QueueFits, NoClash
<1> QED BY <1>2, <1>3, <1>4, <1>5, <1>6, InitType DEF HandlerInv

\* Ticks are sent and run in order.
LEMMA TicksStep ==
  ASSUME TypeInv, TicksOrdered, [Next]_vars
  PROVE  TicksOrdered'
<1>t. /\ cmdChan \in Seq(Closure) /\ loop \in Loop /\ loop.n \in Nat /\ ticks \in Nat
  BY BoundsAssumption DEF TypeInv, TypeOK, Loop
<1>s. ASSUME NEW c, Send(c), c.op # "tick", ticks' = ticks, loop'.n = loop.n
      PROVE  TicksOrdered'
  <2>1. /\ Len(cmdChan') = Len(cmdChan) + 1 /\ Len(cmdChan) \in Nat
        /\ \A i \in 1..Len(cmdChan) : cmdChan'[i] = cmdChan[i]
        /\ cmdChan'[Len(cmdChan) + 1] = c
    BY <1>s, <1>t DEF Send
  <2>2. \A i \in 1..Len(cmdChan') : i \in 1..Len(cmdChan) \/ i = Len(cmdChan) + 1
    BY <2>1
  <2> QED BY <1>s, <2>1, <2>2 DEF TicksOrdered
<1>p. ASSUME cmdChan # <<>>, Pop, ticks' = ticks, loop'.n = loop.n
      PROVE  TicksOrdered'
  <2>1. /\ Len(cmdChan') = Len(cmdChan) - 1 /\ Len(cmdChan) \in Nat
        /\ \A i \in 1..Len(cmdChan') : cmdChan'[i] = cmdChan[i + 1] /\ i + 1 \in 1..Len(cmdChan)
    BY <1>p, <1>t DEF Pop
  <2>2. \A i, j \in 1..Len(cmdChan') : i < j => i + 1 < j + 1
    BY <2>1
  <2> QED BY <1>p, <2>1, <2>2 DEF TicksOrdered
<1>u. ASSUME UNCHANGED <<cmdChan, ticks>>, loop'.n = loop.n PROVE TicksOrdered'
  BY <1>u DEF TicksOrdered
<1>1. CASE \E g \in Clients : Request(g)
  BY <1>1, <1>s, <1>u DEF Request, StartInvalid, Start, Action, StopAll, Register, List,
              TakeoverStop, StopDaemon, Cmd
<1>2. CASE \E g \in Goroutines : HandlerStep(g)
  BY <1>2, <1>s, <1>u DEF HandlerStep, StartSend, Refuse, PerformAction, StopWorker,
              RestartSend, StopAllCancel, StopAllSend, SpawnedStart, Cmd
<1>3. CASE LoopStep
  <2>1. CASE LoopCancelOld \/ LoopInstall \/ LoopLookup \/ LoopDelete \/ LoopRegister \/ LoopList
    BY <2>1, <1>p DEF LoopCancelOld, LoopInstall, LoopLookup, LoopDelete, LoopRegister,
                      LoopList, LoopTakes
  <2>2. CASE LoopTakeoverMark
    BY <2>2, <1>p, <1>t DEF LoopTakeoverMark, LoopTakes, Loop
  <2>3. CASE LoopTakeoverSweep \/ TickEnd
    BY <2>3, <1>u, <1>t DEF LoopTakeoverSweep, TickEnd, Loop
  <2>4. CASE LoopTick
    <3>1. cmdChan # <<>> /\ Pop /\ Cur.op = "tick" /\ loop'.n = Cur.n /\ ticks' = ticks
      BY <2>4 DEF LoopTick, LoopTakes, Cur
    <3> QED BY <3>1, <1>t, PopQueue DEF TicksOrdered
  <2>5. CASE TickStopWorker
    BY <2>5, <1>s, <1>t DEF TickStopWorker, Loop, Cmd
  <2>6. CASE \E k \in Keys : TickReconnect(k) \/ TickNoProgress(k) \/ TickNoHeartbeat(k)
                             \/ \E expired \in BOOLEAN : TickHealthy(k, expired)
    BY <2>6, <1>u, <1>t DEF TickReconnect, TickNoProgress, TickNoHeartbeat, TickHealthy,
                            TickDone, Loop
  <2> QED BY <1>3, <2>1, <2>2, <2>3, <2>4, <2>5, <2>6 DEF LoopStep, TickStep
<1>4. CASE TickSend
  <2> DEFINE c == Cmd("tick", None, {}, None, "", ticks + 1)
  <2>0. Send(c) /\ ticks' = ticks + 1 /\ loop' = loop
    BY <1>4 DEF TickSend
  <2>1. c.n = ticks + 1
    BY DEF Cmd
  <2> HIDE DEF c
  <2>2. /\ Len(cmdChan') = Len(cmdChan) + 1 /\ Len(cmdChan) \in Nat
        /\ \A i \in 1..Len(cmdChan) : cmdChan'[i] = cmdChan[i] /\ cmdChan[i] \in Closure
        /\ cmdChan'[Len(cmdChan) + 1] = c
    BY <2>0, <1>t DEF Send
  <2>3. \A i \in 1..Len(cmdChan') : i \in 1..Len(cmdChan) \/ i = Len(cmdChan) + 1
    BY <2>2
  <2>4. \A i \in 1..Len(cmdChan) : cmdChan[i].n \in Nat
    BY <2>2, BoundsAssumption DEF Closure
  <2> QED BY <1>t, <2>0, <2>1, <2>2, <2>3, <2>4 DEF TicksOrdered
<1>5. CASE \E w \in Workers : WorkerStep(w)
  BY <1>5, <1>u DEF WorkerStep, WorkerRun, WorkerEstablished, WorkerReturn, WorkerRetry,
                    WorkerQuit, WorkerPanic
<1>6. CASE Exit \/ UNCHANGED vars
  BY <1>6, <1>u DEF Exit, vars
<1> QED BY <1>1, <1>2, <1>3, <1>4, <1>5, <1>6 DEF Next

\* Nothing is allocated, and what has returned stays so.
InfoSame ==
  \A w \in Workers : /\ info'[w].pc = "none" <=> info[w].pc = "none"
                     /\ info[w].pc \in {"done", "ext"} => info'[w].pc \in {"done", "ext"}

\* From state r a goroutine goes to s: it takes on nothing new.
Moves(r, s) ==
  /\ r.pc # "idle" => s.op = r.op /\ s.pc # "idle"
  /\ r.pc = "done" => s.pc = "done"
  /\ \A k \in Keys : Ahead(s, k) => Ahead(r, k)

LEMMA WorkerNamed == \A g \in Goroutines : \A k \in Keys : <<g, k>> \in Workers
  BY DEF Workers

\* CancelFunc leaves every worker where it is.
LEMMA CancelKeepsPc ==
  ASSUME info \in [Workers -> WorkerInfo], NEW W, NEW w \in Workers
  PROVE  CancelFunc(W)[w].pc = info[w].pc
  BY DEF CancelFunc, WorkerInfo

\* Only two closures allocate a WorkerInfo.
LEMMA InfoKept ==
  ASSUME TypeInv, [Next]_vars, ~LoopInstall, ~LoopRegister
  PROVE  InfoSame
<1>i. info \in [Workers -> WorkerInfo]
  BY DEF TypeInv, TypeOK
<1>u. ASSUME UNCHANGED info PROVE InfoSame
  BY <1>u DEF InfoSame
<1>c. ASSUME NEW W, info' = CancelFunc(W) PROVE InfoSame
  BY <1>c, <1>i, CancelKeepsPc DEF InfoSame
<1>p. ASSUME \A w \in Workers : info'[w].pc = info[w].pc PROVE InfoSame
  BY <1>p DEF InfoSame
<1>e. ASSUME NEW w \in Workers, NEW r, info' = [info EXCEPT ![w] = r], r.pc # "none",
             info[w].pc \notin {"none", "done", "ext"}
      PROVE  InfoSame
  BY <1>e, <1>i DEF InfoSame
<1>1. CASE \E g \in Clients : Request(g)
  BY <1>1, <1>u DEF Request, StartInvalid, Start, Action, StopAll, Register, List,
              TakeoverStop, StopDaemon
<1>2. CASE \E g \in Goroutines : HandlerStep(g)
  BY <1>2, <1>u, <1>c DEF HandlerStep, StartSend, Refuse, PerformAction, StopWorker,
              RestartSend, StopAllCancel, StopAllSend, SpawnedStart
<1>3. CASE LoopStep
  <2>1. CASE LoopCancelOld \/ LoopTakeoverSweep
    BY <2>1, <1>c DEF LoopCancelOld, LoopTakeoverSweep
  <2>2. CASE LoopLookup \/ LoopDelete \/ LoopList \/ LoopTick \/ TickStopWorker \/ TickEnd
    BY <2>2, <1>u DEF LoopLookup, LoopDelete, LoopList, LoopTick, TickStopWorker, TickEnd
  <2>3. CASE LoopTakeoverMark
    <3>1. \A w \in Workers : info'[w].pc = info[w].pc
      BY <2>3, <1>i DEF LoopTakeoverMark, WorkerInfo
    <3> QED BY <3>1, <1>p
  <2>4. ASSUME NEW k \in Keys, TickReconnect(k) PROVE InfoSame
    <3>1. \A w \in Workers : info'[w].pc = info[w].pc
      BY <2>4, <1>i DEF TickReconnect, WorkerInfo
    <3> QED BY <3>1, <1>p
  <2>5. ASSUME NEW k \in Keys, TickNoProgress(k) PROVE InfoSame
    BY <2>5, <1>u DEF TickNoProgress
  <2>6. ASSUME NEW k \in Keys, TickNoHeartbeat(k) PROVE InfoSame
    <3>1. \A w \in Workers : info'[w].pc = info[w].pc
      BY <2>6, <1>i DEF TickNoHeartbeat, WorkerInfo
    <3> QED BY <3>1, <1>p
  <2>7. ASSUME NEW k \in Keys, NEW expired \in BOOLEAN, TickHealthy(k, expired) PROVE InfoSame
    <3>1. \A w \in Workers : info'[w].pc = info[w].pc
      BY <2>7, <1>i DEF TickHealthy, WorkerInfo
    <3> QED BY <3>1, <1>p
  <2> QED BY <1>3, <2>1, <2>2, <2>3, <2>4, <2>5, <2>6, <2>7 DEF LoopStep, TickStep
<1>4. CASE TickSend \/ Exit \/ UNCHANGED vars
  BY <1>4, <1>u DEF TickSend, Exit, vars
<1>5. ASSUME NEW w \in Workers, WorkerStep(w) PROVE InfoSame
  <2> USE DEF WorkerAt
  <2>0. info[w] \in WorkerInfo
    BY <1>i
  <2>1. CASE WorkerRun(w)
    <3>1. [info[w] EXCEPT !.pc = "conn", !.status = "offline"].pc = "conn"
      BY <2>0 DEF WorkerInfo
    <3> QED BY <2>1, <3>1, <1>e DEF WorkerRun
  <2>2. CASE WorkerEstablished(w)
    <3>1. \A v \in Workers : info'[v].pc = IF v = w THEN "up" ELSE info[v].pc
      BY <2>2, <1>i DEF WorkerEstablished, WorkerInfo
    <3>2. info[w].pc = "conn"
      BY <2>2 DEF WorkerEstablished
    <3> QED BY <3>1, <3>2 DEF InfoSame
  <2>3. CASE WorkerReturn(w)
    <3> DEFINE p == IF info[w].cancelled THEN "done" ELSE "back"
    <3>1. [info[w] EXCEPT !.status = "offline", !.retried = FALSE, !.pc = p].pc # "none"
      BY <2>0 DEF WorkerInfo
    <3> QED BY <2>3, <3>1, <1>e DEF WorkerReturn
  <2>4. CASE WorkerRetry(w)
    <3>1. [info[w] EXCEPT !.pc = "conn", !.retried = TRUE].pc = "conn"
      BY <2>0 DEF WorkerInfo
    <3> QED BY <2>4, <3>1, <1>e DEF WorkerRetry
  <2>5. CASE WorkerQuit(w)
    <3>1. [info[w] EXCEPT !.pc = "done"].pc = "done"
      BY <2>0 DEF WorkerInfo
    <3> QED BY <2>5, <3>1, <1>e DEF WorkerQuit
  <2>6. CASE WorkerPanic(w)
    <3>1. [info[w] EXCEPT !.status = "crashed", !.retried = FALSE, !.pc = "done"].pc = "done"
      BY <2>0 DEF WorkerInfo
    <3> QED BY <2>6, <3>1, <1>e DEF WorkerPanic
  <2> QED BY <1>5, <2>1, <2>2, <2>3, <2>4, <2>5, <2>6 DEF WorkerStep
<1> QED BY <1>1, <1>2, <1>3, <1>4, <1>5 DEF Next

(* The queue. *)

LEMMA QueueSend ==
  ASSUME cmdChan \in Seq(Closure), NEW c, Send(c), NoClash,
         \A i \in 1..Len(cmdChan) : Fits(cmdChan[i], gor', info') /\ ~Clash(cmdChan[i], c),
         Fits(c, gor', info')
  PROVE  QueueFits' /\ NoClash'
<1>1. /\ Len(cmdChan') = Len(cmdChan) + 1 /\ Len(cmdChan) \in Nat
      /\ \A i \in 1..Len(cmdChan) : cmdChan'[i] = cmdChan[i]
      /\ cmdChan'[Len(cmdChan) + 1] = c
  BY DEF Send
<1>2. \A i \in 1..Len(cmdChan') : i \in 1..Len(cmdChan) \/ i = Len(cmdChan) + 1
  BY <1>1
<1>3. QueueFits'
  BY <1>1, <1>2 DEF QueueFits
<1>4. NoClash'
  BY <1>1, <1>2 DEF NoClash
<1> QED BY <1>3, <1>4

LEMMA QueuePop ==
  ASSUME cmdChan \in Seq(Closure), cmdChan # <<>>, Pop, NoClash,
         \A i \in 2..Len(cmdChan) : Fits(cmdChan[i], gor', info')
  PROVE  QueueFits' /\ NoClash'
<1>1. /\ Len(cmdChan') = Len(cmdChan) - 1 /\ Len(cmdChan) \in Nat
      /\ \A i \in 1..Len(cmdChan') : cmdChan'[i] = cmdChan[i + 1] /\ i + 1 \in 2..Len(cmdChan)
                                     /\ i + 1 \in 1..Len(cmdChan)
  BY DEF Pop
<1>2. \A i, j \in 1..Len(cmdChan') : i < j => i + 1 < j + 1
  BY <1>1
<1>3. QueueFits'
  BY <1>1 DEF QueueFits
<1>4. NoClash'
  BY <1>1, <1>2 DEF NoClash
<1> QED BY <1>3, <1>4

\* The closure at the head, and those behind it.
LEMMA HeadFacts ==
  ASSUME HandlerInv, cmdChan # <<>>
  PROVE  /\ Cur \in Closure /\ ClosureOK(Cur) /\ Fits(Cur, gor, info)
         /\ \A i \in 2..Len(cmdChan) : i \in 1..Len(cmdChan) /\ ~Clash(Cur, cmdChan[i])
<1>1. cmdChan \in Seq(Closure) /\ QueueOK /\ QueueFits /\ NoClash
  BY DEF HandlerInv, TypeInv, TypeOK
<1>2. Cur = cmdChan[1] /\ 1 \in 1..Len(cmdChan) /\ Len(cmdChan) \in Nat
  BY <1>1 DEF Cur
<1>3. \A i \in 2..Len(cmdChan) : i \in 1..Len(cmdChan) /\ 1 < i
  BY <1>2
<1> QED BY <1>1, <1>2, <1>3 DEF QueueOK, QueueFits, NoClash

LEMMA FitsKept ==
  ASSUME HandlerInv, InfoSame, NEW c \in Closure, ClosureOK(c), Fits(c, gor, info),
         c.g \in Goroutines => Moves(gor[c.g], gor'[c.g]),
         c.op \in Awaited => gor'[c.g].pc = "wait"
  PROVE  Fits(c, gor', info')
<1>1. c.keys \subseteq Keys
  BY DEF Closure
<1>2. CASE c.op \in Awaited
  BY <1>2 DEF Fits, Moves, Awaited
<1>3. CASE c.op = "register"
  BY <1>3 DEF Fits, Moves, Awaited, ClosureOK
<1>4. CASE c.op = "install"
  <2>1. c.g \in Goroutines
    BY <1>4 DEF ClosureOK
  <2>2. \A k \in c.keys : ~Ahead(gor'[c.g], k) /\ info'[<<c.g, k>>].pc = "none"
    BY <1>1, <1>4, <2>1, WorkerNamed DEF Fits, Moves, InfoSame
  <2> QED BY <1>4, <2>1, <2>2 DEF Fits, Moves, Awaited
<1> QED BY <1>2, <1>3, <1>4 DEF Fits, Awaited

\* One goroutine moves from gor[g] to s.
LEMMA OneMoves ==
  ASSUME HandlerInv, InfoSame, NEW g \in Goroutines, NEW s, gor' = [gor EXCEPT ![g] = s],
         Moves(gor[g], s), Shape(s), HitDone(s, info')
  PROVE  /\ Shapes' /\ HitsDone' /\ Fresh'
         /\ \A i \in 1..Len(cmdChan) :
              (gor[g].pc = "wait" => ~(cmdChan[i].op \in Awaited /\ cmdChan[i].g = g))
                => Fits(cmdChan[i], gor', info')
<1>0. gor \in [Goroutines -> Goroutine]
  BY DEF HandlerInv, TypeInv, TypeOK
<1>1. gor'[g] = s /\ \A h \in Goroutines : h # g => gor'[h] = gor[h]
  BY <1>0
<1>2. \A h \in Goroutines : Moves(gor[h], gor'[h])
  BY <1>1 DEF Moves
<1>3. Shapes'
  BY <1>1 DEF HandlerInv, Shapes
<1>4. ASSUME NEW h \in Goroutines, h # g PROVE HitDone(gor[h], info')
  <2>1. HitDone(gor[h], info) /\ gor[h].hit \subseteq Workers
    BY <1>0 DEF HandlerInv, HitsDone, Goroutine
  <2> QED BY <2>1 DEF HitDone, InfoSame
<1>5. HitsDone'
  BY <1>1, <1>4 DEF HitsDone
<1>6. Fresh'
  BY <1>2, WorkerNamed DEF HandlerInv, Fresh, Moves, InfoSame
<1>7. ASSUME NEW i \in 1..Len(cmdChan),
             gor[g].pc = "wait" => ~(cmdChan[i].op \in Awaited /\ cmdChan[i].g = g)
      PROVE  Fits(cmdChan[i], gor', info')
  <2>1. cmdChan[i] \in Closure /\ ClosureOK(cmdChan[i]) /\ Fits(cmdChan[i], gor, info)
    BY DEF HandlerInv, TypeInv, TypeOK, QueueOK, QueueFits
  <2>2. cmdChan[i].op \in Awaited => gor'[cmdChan[i].g].pc = "wait"
    BY <1>1, <1>7, <2>1 DEF Fits
  <2> QED BY <1>2, <2>1, <2>2, FitsKept
<1> QED BY <1>3, <1>5, <1>6, <1>7

\* No goroutine moves.
LEMMA NoneMoves ==
  ASSUME HandlerInv, InfoSame, UNCHANGED gor
  PROVE  /\ Shapes' /\ HitsDone' /\ Fresh'
         /\ \A i \in 1..Len(cmdChan) : Fits(cmdChan[i], gor', info')
<1>0. gor \in [Goroutines -> Goroutine]
  BY DEF HandlerInv, TypeInv, TypeOK
<1>1. Shapes'
  BY DEF HandlerInv, Shapes
<1>2. ASSUME NEW h \in Goroutines PROVE HitDone(gor[h], info')
  <2>1. HitDone(gor[h], info) /\ gor[h].hit \subseteq Workers
    BY <1>0 DEF HandlerInv, HitsDone, Goroutine
  <2> QED BY <2>1 DEF HitDone, InfoSame
<1>3. HitsDone'
  BY <1>2 DEF HitsDone
<1>4. Fresh'
  BY WorkerNamed DEF HandlerInv, Fresh, InfoSame
<1>5. ASSUME NEW i \in 1..Len(cmdChan) PROVE Fits(cmdChan[i], gor', info')
  <2>1. cmdChan[i] \in Closure /\ ClosureOK(cmdChan[i]) /\ Fits(cmdChan[i], gor, info)
    BY DEF HandlerInv, TypeInv, TypeOK, QueueOK, QueueFits
  <2>2. cmdChan[i].op \in Awaited => gor'[cmdChan[i].g].pc = "wait"
    BY <2>1 DEF Fits
  <2> QED BY <2>1, <2>2, FitsKept DEF Moves
<1> QED BY <1>1, <1>3, <1>4, <1>5

\* The parts put together.
LEMMA HandlerTogether ==
  ASSUME HandlerInv, [Next]_vars, SpawnFresh', Shapes', HitsDone', Fresh', QueueFits', NoClash'
  PROVE  HandlerInv'
<1>1. TypeInv' /\ MapKeys' /\ TicksOrdered'
  BY NextType, MapKeysStep, TicksStep DEF HandlerInv
<1> QED BY <1>1 DEF HandlerInv

LEMMA SpawnKept ==
  ASSUME HandlerInv, loop'.n = loop.n,
         loop'.pc \in {"tick", "stopWorker"} =>
           loop.pc \in {"tick", "stopWorker"} /\ loop'.todo \subseteq loop.todo,
         \A g \in Spawned : gor[g].pc = "idle" => gor'[g].pc = "idle"
  PROVE  SpawnFresh'
<1>1. \A n \in 1..MaxTicks : \A k \in Keys : <<n, k>> \in Spawned
  BY DEF Spawned
<1> QED BY <1>1 DEF HandlerInv, SpawnFresh

LEMMA RequestHandler ==
  ASSUME HandlerInv, [Next]_vars, NEW g \in Clients, Request(g)
  PROVE  HandlerInv'
<1>0. /\ g \in Goroutines /\ g \notin Spawned /\ gor[g] \in Goroutine
      /\ gor \in [Goroutines -> Goroutine] /\ cmdChan \in Seq(Closure)
  BY ApartAssumption DEF Goroutines, HandlerInv, TypeInv, TypeOK
<1>1. gor[g].pc = "idle" /\ UNCHANGED <<loop, info>>
  BY DEF Request, Accept, StartInvalid, Start, Action, StopAll, Register, List,
         TakeoverStop, StopDaemon
<1>2. InfoSame
  BY <1>1 DEF InfoSame
\* The handler's first state is harmless ...
<1>3. ASSUME NEW op, NEW pc \in {"wait", "done", "send"}, NEW arg, NEW keys, NEW ans,
             Serve(g, op, pc, arg, keys, ans), ans = "ok" => op \notin {"stop", "restart"},
             pc = "wait" => ans = "none", pc = "send" => op = "stopDaemon"
      PROVE  /\ SpawnFresh' /\ Shapes' /\ HitsDone' /\ Fresh'
             /\ \A i \in 1..Len(cmdChan) : Fits(cmdChan[i], gor', info')
             /\ gor'[g].op = op /\ gor'[g].pc = pc
  <2> DEFINE s == [NoGoroutine EXCEPT !.op = op, !.pc = pc, !.arg = arg,
                                      !.keys = keys, !.ans = ans]
  <2>1. s.op = op /\ s.pc = pc /\ s.ans = ans /\ s.hit = {} /\ s.todo = {}
    BY DEF NoGoroutine
  <2>2. gor' = [gor EXCEPT ![g] = s]
    BY <1>3 DEF Serve
  <2> HIDE DEF s
  <2>3. Moves(gor[g], s) /\ Shape(s) /\ HitDone(s, info')
    BY <1>1, <1>3, <2>1 DEF Moves, Ahead, Shape, HitDone
  <2>4. \A h \in Spawned : gor'[h] = gor[h]
    BY <1>0, <2>2
  <2>5. SpawnFresh'
    BY <1>1, <2>4, SpawnKept
  <2>6. gor'[g] = s
    BY <1>0, <2>2
  <2> QED BY <1>0, <1>1, <1>2, <2>1, <2>2, <2>3, <2>5, <2>6, OneMoves
\* ... and so is the closure it sends: g has sent none before.
<1>4. ASSUME NEW i \in 1..Len(cmdChan) PROVE ~(cmdChan[i].op \in Awaited /\ cmdChan[i].g = g)
  BY <1>1 DEF HandlerInv, QueueFits, Fits
<1>5. ASSUME NEW c, c.op # "install", c.g = g, Fits(c, gor', info'), Send(c),
             \A i \in 1..Len(cmdChan) : Fits(cmdChan[i], gor', info')
      PROVE  QueueFits' /\ NoClash'
  <2>1. \A i \in 1..Len(cmdChan) : ~Clash(cmdChan[i], c)
    BY <1>4, <1>5 DEF Clash
  <2> QED BY <1>0, <1>5, <2>1, QueueSend DEF HandlerInv
<1>6. ASSUME UNCHANGED cmdChan, \A i \in 1..Len(cmdChan) : Fits(cmdChan[i], gor', info')
      PROVE  QueueFits' /\ NoClash'
  BY <1>6 DEF HandlerInv, QueueFits, NoClash
<1>7. ASSUME NEW k \in Keys, StartInvalid(g, k) PROVE HandlerInv'
  BY <1>3, <1>6, <1>7, HandlerTogether DEF StartInvalid
<1>8. ASSUME NEW k \in Keys, Start(g, k) PROVE HandlerInv'
  <2> DEFINE c == Cmd("cancelOld", g, {k}, None, "", 0)
  <2>1. Send(c) /\ Serve(g, "start", "wait", "", {k}, "none")
    BY <1>8 DEF Start
  <2>2. c.op = "cancelOld" /\ c.g = g
    BY DEF Cmd
  <2> HIDE DEF c
  <2>3. Fits(c, gor', info')
    BY <1>0, <1>3, <2>1, <2>2 DEF Fits
  <2> QED BY <1>3, <1>5, <2>1, <2>2, <2>3, HandlerTogether
<1>9. ASSUME NEW op \in {"stop", "restart"}, NEW mode \in {"user", "server", "all"},
             NEW keys \in SUBSET Keys, Action(g, op, mode, keys) PROVE HandlerInv'
  <2> DEFINE c == Cmd("lookup", g, keys, None, "", 0)
  <2>1. Send(c) /\ Serve(g, op, "wait", mode, keys, "none")
    BY <1>9 DEF Action
  <2>2. c.op = "lookup" /\ c.g = g
    BY DEF Cmd
  <2> HIDE DEF c
  <2>3. Fits(c, gor', info')
    BY <1>0, <1>3, <2>1, <2>2 DEF Fits
  <2> QED BY <1>3, <1>5, <2>1, <2>2, <2>3, HandlerTogether
<1>10. ASSUME StopAll(g) PROVE HandlerInv'
  <2> DEFINE c == Cmd("lookup", g, Keys, None, "", 0)
  <2>1. Send(c) /\ Serve(g, "stopAll", "wait", "", Keys, "none")
    BY <1>10 DEF StopAll
  <2>2. c.op = "lookup" /\ c.g = g
    BY DEF Cmd
  <2> HIDE DEF c
  <2>3. Fits(c, gor', info')
    BY <1>0, <1>3, <2>1, <2>2 DEF Fits
  <2> QED BY <1>3, <1>5, <2>1, <2>2, <2>3, HandlerTogether
<1>11. ASSUME NEW k \in Keys, NEW status, Register(g, k, status) PROVE HandlerInv'
  <2> DEFINE c == Cmd("register", g, {k}, None, status, 0)
  <2>1. Send(c) /\ Serve(g, "register", "done", status, {k}, "ok")
    BY <1>11 DEF Register
  <2>2. c.op = "register" /\ c.g = g
    BY DEF Cmd
  <2> HIDE DEF c
  <2>3. Fits(c, gor', info')
    BY <1>3, <2>1, <2>2 DEF Fits, Awaited
  <2> QED BY <1>3, <1>5, <2>1, <2>2, <2>3, HandlerTogether
<1>12. ASSUME List(g) PROVE HandlerInv'
  <2> DEFINE c == Cmd("list", g, {}, None, "", 0)
  <2>1. Send(c) /\ Serve(g, "list", "wait", "", {}, "none")
    BY <1>12 DEF List
  <2>2. c.op = "list" /\ c.g = g
    BY DEF Cmd
  <2> HIDE DEF c
  <2>3. Fits(c, gor', info')
    BY <1>0, <1>3, <2>1, <2>2 DEF Fits
  <2> QED BY <1>3, <1>5, <2>1, <2>2, <2>3, HandlerTogether
<1>13. ASSUME TakeoverStop(g) PROVE HandlerInv'
  <2> DEFINE c == Cmd("takeoverStop", g, {}, None, "", 0)
  <2>1. Send(c) /\ Serve(g, "takeoverStop", "done", "", {}, "ok")
    BY <1>13 DEF TakeoverStop
  <2>2. c.op = "takeoverStop" /\ c.g = g
    BY DEF Cmd
  <2> HIDE DEF c
  <2>3. Fits(c, gor', info')
    BY <2>2 DEF Fits, Awaited
  <2> QED BY <1>3, <1>5, <2>1, <2>2, <2>3, HandlerTogether
<1>14. ASSUME StopDaemon(g) PROVE HandlerInv'
  BY <1>3, <1>6, <1>14, HandlerTogether DEF StopDaemon
<1> QED BY <1>7, <1>8, <1>9, <1>10, <1>11, <1>12, <1>13, <1>14 DEF Request

LEMMA HandlerHandler ==
  ASSUME HandlerInv, [Next]_vars, NEW g \in Goroutines, HandlerStep(g), InfoSame
  PROVE  HandlerInv'
<1> USE DEF At
<1>0. /\ gor[g] \in Goroutine /\ gor \in [Goroutines -> Goroutine] /\ cmdChan \in Seq(Closure)
      /\ Shape(gor[g]) /\ HitDone(gor[g], info) /\ gor[g].hit \subseteq Workers
      /\ gor[g].todo \subseteq Workers /\ gor[g].keys \subseteq Keys
  BY DEF HandlerInv, TypeInv, TypeOK, Shapes, HitsDone, Goroutine
<1>1. gor[g].pc \notin {"idle", "wait"} /\ UNCHANGED loop
  BY DEF HandlerStep, StartSend, Refuse, PerformAction, StopWorker, RestartSend,
         StopAllCancel, StopAllSend, SpawnedStart
<1>h. HitDone(gor[g], info')
  BY <1>0 DEF HitDone, InfoSame
<1>k. \A w \in Workers : KeyOf(w) \in Keys
  BY DEF Workers, KeyOf
<1>2. ASSUME NEW s, gor' = [gor EXCEPT ![g] = s], Moves(gor[g], s), Shape(s),
             HitDone(s, info')
      PROVE  /\ SpawnFresh' /\ Shapes' /\ HitsDone' /\ Fresh' /\ gor'[g] = s
             /\ \A i \in 1..Len(cmdChan) : Fits(cmdChan[i], gor', info')
  <2>1. \A h \in Spawned : gor[h].pc = "idle" => gor'[h].pc = "idle"
    BY <1>0, <1>1, <1>2 DEF Goroutines
  <2>2. SpawnFresh'
    BY <1>1, <2>1, SpawnKept
  <2> QED BY <1>0, <1>1, <1>2, <2>2, OneMoves
<1>3. ASSUME UNCHANGED cmdChan, \A i \in 1..Len(cmdChan) : Fits(cmdChan[i], gor', info')
      PROVE  QueueFits' /\ NoClash'
  BY <1>3 DEF HandlerInv, QueueFits, NoClash
<1>4. ASSUME NEW c, Send(c), c.op = "delete",
             \A i \in 1..Len(cmdChan) : Fits(cmdChan[i], gor', info')
      PROVE  QueueFits' /\ NoClash'
  <2>1. Fits(c, gor', info') /\ \A i \in 1..Len(cmdChan) : ~Clash(cmdChan[i], c)
    BY <1>4 DEF Fits, Clash, Awaited
  <2> QED BY <1>0, <1>4, <2>1, QueueSend DEF HandlerInv
\* A call of startWorker for keys that were ahead and are so no longer.
<1>5. ASSUME NEW c, Send(c), c.op = "install", c.g = g, c.keys \subseteq Keys,
             \A k \in c.keys : Ahead(gor[g], k) /\ ~Ahead(gor'[g], k),
             gor'[g].op \in {"start", "restart", "startWorker"}, gor'[g].pc # "idle",
             \A i \in 1..Len(cmdChan) : Fits(cmdChan[i], gor', info')
      PROVE  QueueFits' /\ NoClash'
  <2>1. \A k \in c.keys : info[<<g, k>>].pc = "none"
    BY <1>5 DEF HandlerInv, Fresh
  <2>2. \A k \in c.keys : info'[<<g, k>>].pc = "none"
    BY <1>5, <2>1, WorkerNamed DEF InfoSame
  <2>3. Fits(c, gor', info')
    BY <1>5, <2>2 DEF Fits, Awaited
  <2>4. ASSUME NEW i \in 1..Len(cmdChan) PROVE ~Clash(cmdChan[i], c)
    <3>1. Fits(cmdChan[i], gor, info)
      BY DEF HandlerInv, QueueFits
    <3> QED BY <1>5, <3>1 DEF Clash, Fits, Awaited
  <2> QED BY <1>0, <1>5, <2>3, <2>4, QueueSend DEF HandlerInv
<1>6. CASE StartSend(g)
  <2> DEFINE s == [gor[g] EXCEPT !.pc = "done", !.ans = "ok"]
  <2>1. gor[g].op = "start" /\ gor[g].pc = "got" /\ gor' = [gor EXCEPT ![g] = s]
    BY <1>6 DEF StartSend
  <2>2. s.op = "start" /\ s.pc = "done" /\ s.todo = gor[g].todo
    BY <1>0, <2>1 DEF Goroutine
  <2> HIDE DEF s
  <2>3. Moves(gor[g], s) /\ Shape(s) /\ HitDone(s, info')
    BY <1>0, <2>1, <2>2 DEF Moves, Ahead, Shape, HitDone
  <2>4. PICK k \in gor[g].keys : Send(Cmd("install", g, {k}, <<g, k>>, "", 0))
    BY <1>6 DEF StartSend
  <2> DEFINE c == Cmd("install", g, {k}, <<g, k>>, "", 0)
  <2>5. c.op = "install" /\ c.g = g /\ c.keys = {k} /\ Send(c)
    BY <2>4 DEF Cmd
  <2> HIDE DEF c
  <2>6. Ahead(gor[g], k) /\ ~Ahead(s, k)
    BY <2>1, <2>2 DEF Ahead
  <2> QED BY <1>0, <1>2, <1>5, <2>1, <2>2, <2>3, <2>5, <2>6, HandlerTogether
<1>7. CASE Refuse(g)
  <2> DEFINE s == [gor[g] EXCEPT !.pc = "done", !.ans = "err"]
  <2>1. gor[g].pc = "got" /\ gor' = [gor EXCEPT ![g] = s] /\ UNCHANGED cmdChan
    BY <1>7 DEF Refuse
  <2>2. s.op = gor[g].op /\ s.pc = "done" /\ s.ans = "err" /\ s.todo = gor[g].todo
        /\ s.hit = gor[g].hit
    BY <1>0 DEF Goroutine
  <2> HIDE DEF s
  <2>3. Moves(gor[g], s) /\ Shape(s) /\ HitDone(s, info')
    BY <1>0, <2>1, <2>2 DEF Moves, Ahead, Shape, HitDone
  <2> QED BY <1>2, <1>3, <2>1, <2>3, HandlerTogether
<1>8. ASSUME NEW w \in Workers, PerformAction(g, w) PROVE HandlerInv'
  <2> DEFINE T == IF gor[g].arg = "all" THEN gor[g].todo \ {w} ELSE {}
             s == [gor[g] EXCEPT !.pc = "join", !.cur = w, !.hit = gor[g].hit \cup {w},
                     !.todo = T]
  <2>1. /\ gor[g].op \in {"stop", "restart"} /\ gor[g].pc \in {"got", "next"}
        /\ w \in gor[g].todo /\ gor' = [gor EXCEPT ![g] = s] /\ UNCHANGED cmdChan
    BY <1>8 DEF PerformAction
  <2>2. s.op = gor[g].op /\ s.pc = "join" /\ s.ans = gor[g].ans /\ s.todo = T
        /\ s.hit = gor[g].hit \cup {w} /\ s.cur = w
    BY <1>0 DEF Goroutine
  <2>3. T \subseteq gor[g].todo /\ w \notin T
    OBVIOUS
  <2> HIDE DEF s, T
  <2>4. gor[g].ans # "ok"
    BY <1>0, <2>1 DEF Shape
  <2>5. KeyOf(w) \notin DeletedKeys(T)
    BY <1>0, <2>1, <2>3 DEF Shape, DeletedKeys
  <2>6. Moves(gor[g], s)
    BY <2>1, <2>2, <2>3 DEF Moves, Ahead, DeletedKeys
  <2>7. Shape(s)
    BY <1>0, <2>1, <2>2, <2>3, <2>4, <2>5 DEF Shape
  <2>8. HitDone(s, info')
    BY <1>h, <2>1, <2>2 DEF HitDone
  <2> QED BY <1>2, <1>3, <2>1, <2>6, <2>7, <2>8, HandlerTogether
\* g goes to p with answer a once the worker it waited for has returned.
<1>9. ASSUME gor[g].pc \in {"join", "install"}, NEW s,
             s.op = gor[g].op, s.todo = gor[g].todo, s.hit = gor[g].hit, s.cur = gor[g].cur,
             \/ s.pc = "install" /\ s.ans = gor[g].ans /\ gor[g].op = "restart"
             \/ s.pc = NextPc(g) /\ s.ans = NextAns(g),
             gor[g].pc = "join" => Finished(gor[g].cur)
      PROVE  Moves(gor[g], s) /\ Shape(s) /\ HitDone(s, info')
  <2>1. \/ s.pc = "install" /\ s.ans = gor[g].ans /\ gor[g].op = "restart"
        \/ s.pc = "done" /\ s.ans = "ok"
        \/ s.pc = "next" /\ s.ans = "none"
    BY <1>9 DEF NextPc, NextAns
  <2>2. gor[g].op \in {"stop", "restart"} /\ gor[g].cur \in gor[g].hit
        /\ KeyOf(gor[g].cur) \notin DeletedKeys(gor[g].todo) /\ gor[g].ans # "ok"
    BY <1>0, <1>9 DEF Shape
  <2>3. Moves(gor[g], s)
    BY <1>9, <2>1, <2>2 DEF Moves, Ahead
  <2>4. Shape(s)
    BY <1>0, <1>9, <2>1, <2>2 DEF Shape
  <2>5. \A w \in gor[g].hit : info[w].pc \in {"done", "ext"}
    BY <1>0, <1>9, <2>2 DEF HitDone, Finished
  <2>6. HitDone(s, info')
    BY <1>0, <1>9, <2>5 DEF HitDone, InfoSame
  <2> QED BY <2>3, <2>4, <2>6
<1>10. CASE StopWorker(g)
  <2>1. /\ gor[g].pc = "join" /\ Finished(gor[g].cur)
        /\ Send(Cmd("delete", g, DeletedKeys({gor[g].cur}), None, "", 0))
    BY <1>10 DEF StopWorker, DoneChanClosed
  <2>2. Cmd("delete", g, DeletedKeys({gor[g].cur}), None, "", 0).op = "delete"
    BY DEF Cmd
  <2>3. CASE gor[g].op = "stop"
    <3> DEFINE s == [gor[g] EXCEPT !.pc = NextPc(g), !.ans = NextAns(g)]
    <3>1. gor' = [gor EXCEPT ![g] = s]
      BY <1>10, <2>3 DEF StopWorker
    <3>2. /\ s.op = gor[g].op /\ s.todo = gor[g].todo /\ s.hit = gor[g].hit
          /\ s.cur = gor[g].cur /\ s.pc = NextPc(g) /\ s.ans = NextAns(g)
      BY <1>0 DEF Goroutine
    <3> HIDE DEF s
    <3> QED BY <1>2, <1>4, <1>9, <2>1, <2>2, <3>1, <3>2, HandlerTogether
  <2>4. CASE gor[g].op # "stop"
    <3> DEFINE s == [gor[g] EXCEPT !.pc = "install"]
    <3>1. gor' = [gor EXCEPT ![g] = s]
      BY <1>10, <2>4 DEF StopWorker
    <3>2. /\ s.op = gor[g].op /\ s.todo = gor[g].todo /\ s.hit = gor[g].hit
          /\ s.cur = gor[g].cur /\ s.pc = "install" /\ s.ans = gor[g].ans
      BY <1>0 DEF Goroutine
    <3>3. gor[g].op = "restart"
      BY <1>0, <2>1, <2>4 DEF Shape
    <3> HIDE DEF s
    <3> QED BY <1>2, <1>4, <1>9, <2>1, <2>2, <3>1, <3>2, <3>3, HandlerTogether
  <2> QED BY <2>3, <2>4
<1>11. CASE RestartSend(g)
  <2> DEFINE s == [gor[g] EXCEPT !.pc = NextPc(g), !.ans = NextAns(g)]
             k == KeyOf(gor[g].cur)
             c == Cmd("install", g, {k}, RestartConfig(g, gor[g].cur), "", 0)
  <2>1. gor[g].pc = "install" /\ gor' = [gor EXCEPT ![g] = s] /\ Send(c)
    BY <1>11 DEF RestartSend
  <2>2. /\ s.op = gor[g].op /\ s.todo = gor[g].todo /\ s.hit = gor[g].hit
        /\ s.cur = gor[g].cur /\ s.pc = NextPc(g) /\ s.ans = NextAns(g)
    BY <1>0 DEF Goroutine
  <2>3. c.op = "install" /\ c.g = g /\ c.keys = {k}
    BY DEF Cmd
  <2> HIDE DEF s, c
  <2>4. Moves(gor[g], s) /\ Shape(s) /\ HitDone(s, info')
    BY <1>9, <2>1, <2>2
  <2>5. gor[g].op = "restart" /\ k \notin DeletedKeys(gor[g].todo) /\ gor[g].cur \in gor[g].hit
    BY <1>0, <2>1 DEF Shape
  <2>6. k \in Keys
    BY <1>0, <1>k, <2>5
  <2>7. s.pc \in {"next", "done"}
    BY <2>2 DEF NextPc
  <2>8. Ahead(gor[g], k) /\ ~Ahead(s, k)
    BY <2>1, <2>2, <2>5, <2>7 DEF Ahead
  <2> HIDE DEF k
  <2> QED BY <1>2, <1>5, <2>1, <2>2, <2>3, <2>4, <2>5, <2>6, <2>7, <2>8, HandlerTogether
<1>12. CASE StopAllCancel(g)
  <2> DEFINE s == [gor[g] EXCEPT !.pc = "delete", !.hit = gor[g].todo]
  <2>1. gor[g].op = "stopAll" /\ gor' = [gor EXCEPT ![g] = s] /\ UNCHANGED cmdChan
        /\ gor[g].pc = "got"
    BY <1>12 DEF StopAllCancel
  <2>2. s.op = gor[g].op /\ s.pc = "delete" /\ s.todo = gor[g].todo
    BY <1>0 DEF Goroutine
  <2> HIDE DEF s
  <2>3. Moves(gor[g], s) /\ Shape(s) /\ HitDone(s, info')
    BY <1>0, <2>1, <2>2 DEF Moves, Ahead, Shape, HitDone
  <2> QED BY <1>2, <1>3, <2>1, <2>3, HandlerTogether
<1>13. CASE StopAllSend(g)
  <2> DEFINE s == [gor[g] EXCEPT !.pc = "done", !.ans = "ok"]
             c == Cmd("delete", g, DeletedKeys(gor[g].hit), None, "", 0)
  <2>1. gor[g].op = "stopAll" /\ gor' = [gor EXCEPT ![g] = s] /\ Send(c)
        /\ gor[g].pc = "delete"
    BY <1>13 DEF StopAllSend
  <2>2. s.op = gor[g].op /\ s.pc = "done" /\ s.todo = gor[g].todo
    BY <1>0 DEF Goroutine
  <2>3. c.op = "delete"
    BY DEF Cmd
  <2> HIDE DEF s, c
  <2>4. Moves(gor[g], s) /\ Shape(s) /\ HitDone(s, info')
    BY <1>0, <2>1, <2>2 DEF Moves, Ahead, Shape, HitDone
  <2> QED BY <1>2, <1>4, <2>1, <2>3, <2>4, HandlerTogether
<1>14. CASE SpawnedStart(g)
  <2> DEFINE s == [gor[g] EXCEPT !.pc = "done"]
             c == Cmd("install", g, gor[g].keys, gor[g].cur, "", 0)
  <2>1. gor[g].op = "startWorker" /\ gor' = [gor EXCEPT ![g] = s] /\ Send(c)
        /\ gor[g].pc = "send"
    BY <1>14 DEF SpawnedStart
  <2>2. s.op = gor[g].op /\ s.pc = "done" /\ s.todo = gor[g].todo
    BY <1>0 DEF Goroutine
  <2>3. c.op = "install" /\ c.g = g /\ c.keys = gor[g].keys
    BY DEF Cmd
  <2> HIDE DEF s, c
  <2>4. Moves(gor[g], s) /\ Shape(s) /\ HitDone(s, info')
    BY <1>0, <2>1, <2>2 DEF Moves, Ahead, Shape, HitDone
  <2>5. \A k \in c.keys : Ahead(gor[g], k) /\ ~Ahead(s, k)
    BY <2>1, <2>2, <2>3 DEF Ahead
  <2> QED BY <1>0, <1>2, <1>5, <2>1, <2>2, <2>3, <2>4, <2>5, HandlerTogether
<1> QED
  BY <1>6, <1>7, <1>8, <1>10, <1>11, <1>12, <1>13, <1>14 DEF HandlerStep

\* The closures of processLoop that allocate nothing.
LEMMA LoopHandler ==
  ASSUME HandlerInv, [Next]_vars, InfoSame,
         \/ LoopCancelOld \/ LoopLookup \/ LoopDelete \/ LoopList
         \/ LoopTakeoverMark \/ LoopTakeoverSweep \/ LoopTick
  PROVE  HandlerInv'
<1> USE DEF LoopTakes, LoopAt
<1>0. /\ gor \in [Goroutines -> Goroutine] /\ cmdChan \in Seq(Closure) /\ loop \in Loop
      /\ workers \in [Keys -> Workers \cup {None}] /\ NoClash /\ loop.n \in Nat
  BY BoundsAssumption DEF HandlerInv, TypeInv, TypeOK, Loop
\* The loop replies to the goroutine that waits for the closure.
<1>1. ASSUME cmdChan # <<>>, Pop, Cur.op \in Awaited, NEW s,
             gor' = [gor EXCEPT ![Cur.g] = s], UNCHANGED loop,
             Moves(gor[Cur.g], s), Shape(s), HitDone(s, info')
      PROVE  HandlerInv'
  <2>1. Cur.g \in Goroutines /\ gor[Cur.g].pc = "wait"
    BY <1>1, HeadFacts DEF Fits
  <2>2. \A i \in 2..Len(cmdChan) : ~(cmdChan[i].op \in Awaited /\ cmdChan[i].g = Cur.g)
    BY <1>1, HeadFacts DEF Clash
  <2>3. /\ Shapes' /\ HitsDone' /\ Fresh'
        /\ \A i \in 2..Len(cmdChan) : Fits(cmdChan[i], gor', info')
    BY <1>1, <2>1, <2>2, HeadFacts, OneMoves
  <2>4. QueueFits' /\ NoClash'
    BY <1>0, <1>1, <2>3, QueuePop
  <2>5. \A h \in Spawned : gor[h].pc = "idle" => gor'[h].pc = "idle"
    BY <1>0, <1>1, <2>1 DEF Goroutines
  <2>6. SpawnFresh'
    BY <1>1, <2>5, SpawnKept
  <2> QED BY <2>3, <2>4, <2>6, HandlerTogether
<1>2. ASSUME cmdChan # <<>>, Cur.op \in Awaited
      PROVE  /\ gor[Cur.g] \in Goroutine /\ gor[Cur.g].pc = "wait" /\ Shape(gor[Cur.g])
             /\ Fits(Cur, gor, info)
  BY <1>0, <1>2, HeadFacts DEF Fits, HandlerInv, Shapes
<1>3. CASE LoopCancelOld
  <2> DEFINE s == [gor[Cur.g] EXCEPT !.pc = "got"]
  <2>1. cmdChan # <<>> /\ Pop /\ Cur.op = "cancelOld" /\ gor' = [gor EXCEPT ![Cur.g] = s]
        /\ UNCHANGED loop
    BY <1>3 DEF LoopCancelOld, Cur
  <2>2. Cur.op \in Awaited
    BY <2>1 DEF Awaited
  <2>3. s.op = gor[Cur.g].op /\ s.pc = "got" /\ s.todo = gor[Cur.g].todo
        /\ s.hit = gor[Cur.g].hit /\ s.ans = gor[Cur.g].ans
    BY <1>2, <2>1, <2>2 DEF Goroutine
  <2> HIDE DEF s
  <2>4. Moves(gor[Cur.g], s) /\ Shape(s) /\ HitDone(s, info')
    BY <1>2, <2>1, <2>2, <2>3 DEF Moves, Ahead, Shape, HitDone
  <2> QED BY <1>1, <2>1, <2>2, <2>4
<1>4. CASE LoopLookup
  <2> DEFINE T == UNION {Existing(k) : k \in Cur.keys}
             s == [gor[Cur.g] EXCEPT !.pc = "got", !.todo = T]
  <2>1. cmdChan # <<>> /\ Pop /\ Cur.op = "lookup" /\ gor' = [gor EXCEPT ![Cur.g] = s]
        /\ UNCHANGED loop
    BY <1>4 DEF LoopLookup, Cur
  <2>2. Cur.op \in Awaited
    BY <2>1 DEF Awaited
  <2>3. s.op = gor[Cur.g].op /\ s.pc = "got" /\ s.todo = T
        /\ s.hit = gor[Cur.g].hit /\ s.ans = gor[Cur.g].ans
    BY <1>2, <2>1, <2>2 DEF Goroutine
  <2>4. \A v, w \in T : KeyOf(v) = KeyOf(w) => v = w
    <3>1. Cur.keys \subseteq Keys
      BY <2>1, HeadFacts DEF Closure
    <3>2. \A v \in T : KeyOf(v) \in Keys /\ v = workers[KeyOf(v)]
      BY <3>1 DEF Existing, HandlerInv, MapKeys
    <3> QED BY <3>2
  <2> HIDE DEF s, T
  <2>5. Moves(gor[Cur.g], s) /\ Shape(s) /\ HitDone(s, info')
    BY <1>2, <2>1, <2>2, <2>3, <2>4 DEF Moves, Ahead, Shape, HitDone
  <2> QED BY <1>1, <2>1, <2>2, <2>5
<1>5. CASE LoopList
  <2> DEFINE s == [gor[Cur.g] EXCEPT !.pc = "done", !.ans = "ok"]
  <2>1. cmdChan # <<>> /\ Pop /\ Cur.op = "list" /\ gor' = [gor EXCEPT ![Cur.g] = s]
        /\ UNCHANGED loop
    BY <1>5 DEF LoopList, Cur
  <2>2. Cur.op \in Awaited
    BY <2>1 DEF Awaited
  <2>3. s.op = gor[Cur.g].op /\ s.pc = "done" /\ s.todo = gor[Cur.g].todo /\ s.op = "list"
    BY <1>2, <2>1, <2>2 DEF Goroutine, Fits
  <2> HIDE DEF s
  <2>4. Moves(gor[Cur.g], s) /\ Shape(s) /\ HitDone(s, info')
    BY <1>2, <2>1, <2>2, <2>3 DEF Moves, Ahead, Shape, HitDone
  <2> QED BY <1>1, <2>1, <2>2, <2>4
<1>6. ASSUME UNCHANGED gor, SpawnFresh', (cmdChan # <<>> /\ Pop) \/ UNCHANGED cmdChan
      PROVE  HandlerInv'
  <2>1. /\ Shapes' /\ HitsDone' /\ Fresh'
        /\ \A i \in 1..Len(cmdChan) : Fits(cmdChan[i], gor', info')
    BY <1>6, NoneMoves
  <2>2. QueueFits' /\ NoClash'
    <3>1. CASE cmdChan # <<>> /\ Pop
      BY <1>0, <2>1, <3>1, HeadFacts, QueuePop
    <3>2. CASE UNCHANGED cmdChan
      BY <1>0, <2>1, <3>2 DEF QueueFits, NoClash
    <3> QED BY <1>6, <3>1, <3>2
  <2> QED BY <1>6, <2>1, <2>2, HandlerTogether
<1>7. CASE LoopDelete \/ LoopTakeoverMark \/ LoopTakeoverSweep
  <2>1. UNCHANGED gor /\ ((cmdChan # <<>> /\ Pop) \/ UNCHANGED cmdChan)
    BY <1>7 DEF LoopDelete, LoopTakeoverMark, LoopTakeoverSweep
  <2>2. loop'.n = loop.n /\ (loop' = loop \/ loop'.pc \in {"idle", "migrating"})
    BY <1>0, <1>7 DEF LoopDelete, LoopTakeoverMark, LoopTakeoverSweep, Loop
  <2>3. SpawnFresh'
    BY <2>1, <2>2, SpawnKept
  <2> QED BY <1>6, <2>1, <2>3
<1>8. CASE LoopTick
  <2>1. cmdChan # <<>> /\ Pop /\ Cur.op = "tick" /\ UNCHANGED gor /\ loop'.n = Cur.n
    BY <1>8 DEF LoopTick, Cur
  <2>2. loop.n < Cur.n /\ Cur.n \in Nat
    BY <1>0, <2>1, HeadFacts, PopQueue, BoundsAssumption DEF HandlerInv, Closure
  <2>3. \A n \in 1..MaxTicks : n > Cur.n \/ n = Cur.n => n > loop.n
    BY <1>0, <2>2
  <2>4. SpawnFresh'
    BY <1>0, <2>1, <2>2, <2>3 DEF HandlerInv, SpawnFresh
  <2> QED BY <1>6, <2>1, <2>4
<1> QED BY <1>3, <1>4, <1>5, <1>7, <1>8

\* startWorker's closure: no one else may install the worker it allocates.
LEMMA InstallHandler ==
  ASSUME HandlerInv, [Next]_vars, LoopInstall
  PROVE  HandlerInv'
<1>0. /\ gor \in [Goroutines -> Goroutine] /\ cmdChan \in Seq(Closure) /\ QueueOK /\ NoClash
      /\ info \in [Workers -> WorkerInfo]
  BY DEF HandlerInv, TypeInv, TypeOK
<1>1. cmdChan # <<>> /\ Pop /\ Cur.op = "install" /\ UNCHANGED <<loop, gor>>
  BY DEF LoopInstall, LoopTakes, Cur
<1>2. PICK k \in Cur.keys : Install(Cur, k)
  BY DEF LoopInstall
<1> DEFINE w == <<Cur.g, k>>
<1>3. /\ Cur.g \in Goroutines /\ k \in Keys /\ w \in Workers
      /\ ~Ahead(gor[Cur.g], k) /\ info[w].pc = "none"
  BY <1>1, <1>2, HeadFacts, WorkerNamed DEF ClosureOK, Closure, Fits
<1>4. \A v \in Workers : v # w => info'[v].pc = info[v].pc
  BY <1>0, <1>2, CancelKeepsPc DEF Install, CancelFunc
<1>5. Shapes'
  BY <1>1 DEF HandlerInv, Shapes
<1>6. HitsDone'
  <2> SUFFICES ASSUME NEW g \in Goroutines, gor[g].op \in {"stop", "restart"},
                      NEW v \in gor[g].hit
               PROVE  info'[v].pc \in {"done", "ext"} \/ (gor[g].pc = "join" /\ v = gor[g].cur)
    BY <1>1 DEF HitsDone, HitDone
  <2>1. v \in Workers
    BY <1>0 DEF Goroutine
  <2> QED BY <1>3, <1>4, <2>1 DEF HandlerInv, HitsDone, HitDone
<1>7. Fresh'
  <2> SUFFICES ASSUME NEW g \in Goroutines, NEW j \in Keys, Ahead(gor[g], j)
               PROVE  info'[<<g, j>>].pc = "none"
    BY <1>1 DEF Fresh
  <2>1. <<g, j>> \in Workers /\ <<g, j>> # w
    BY <1>3, WorkerNamed
  <2> HIDE DEF w
  <2> QED BY <1>4, <2>1 DEF HandlerInv, Fresh
<1>8. ASSUME NEW i \in 2..Len(cmdChan) PROVE Fits(cmdChan[i], gor', info')
  <2> DEFINE c == cmdChan[i]
  <2>1. /\ i \in 1..Len(cmdChan) /\ ~Clash(Cur, c) /\ Fits(c, gor, info)
        /\ c \in Closure /\ ClosureOK(c)
    BY <1>0, <1>1, HeadFacts DEF HandlerInv, QueueFits, QueueOK
  <2> HIDE DEF c
  <2>2. ASSUME c.op = "install", NEW j \in c.keys PROVE info'[<<c.g, j>>].pc = "none"
    <3>1. <<c.g, j>> \in Workers /\ info[<<c.g, j>>].pc = "none"
      BY <2>1, <2>2, WorkerNamed DEF Closure, ClosureOK, Fits
    <3>2. <<c.g, j>> # w
      BY <1>1, <1>2, <2>1, <2>2 DEF Clash
    <3> HIDE DEF w
    <3> QED BY <1>4, <3>1, <3>2
  <2>3. Fits(c, gor', info')
    BY <1>1, <2>1, <2>2 DEF Fits
  <2> QED BY <2>3 DEF c
<1>9. QueueFits' /\ NoClash'
  BY <1>0, <1>1, <1>8, QueuePop
<1>10. SpawnFresh'
  BY <1>1, SpawnKept
<1> QED BY <1>5, <1>6, <1>7, <1>9, <1>10, HandlerTogether

\* A registration makes an entry without a goroutine, or touches a status.
LEMMA RegisterHandler ==
  ASSUME HandlerInv, [Next]_vars, LoopRegister
  PROVE  HandlerInv'
<1>0. /\ gor \in [Goroutines -> Goroutine] /\ cmdChan \in Seq(Closure) /\ QueueOK /\ NoClash
      /\ info \in [Workers -> WorkerInfo] /\ workers \in [Keys -> Workers \cup {None}]
  BY DEF HandlerInv, TypeInv, TypeOK
<1>1. cmdChan # <<>> /\ Pop /\ Cur.op = "register" /\ UNCHANGED <<loop, gor>>
  BY DEF LoopRegister, LoopTakes, Cur
<1>2. /\ Cur.g \in Goroutines /\ Cur.keys \subseteq Keys
      /\ gor[Cur.g].op = "register" /\ gor[Cur.g].pc = "done"
  BY <1>1, HeadFacts DEF ClosureOK, Closure, Fits
<1>3. SpawnFresh'
  BY <1>1, SpawnKept
<1>4. PICK k \in Cur.keys :
        \/ /\ workers[k] # None
           /\ info' = [info EXCEPT ![workers[k]] = [@ EXCEPT !.status = Cur.arg]]
        \/ info' = [info EXCEPT ![<<Cur.g, k>>] = [NoInfo EXCEPT !.pc = "ext", !.status = Cur.arg]]
  BY DEF LoopRegister
<1>5. CASE workers[k] # None
           /\ info' = [info EXCEPT ![workers[k]] = [@ EXCEPT !.status = Cur.arg]]
  <2>1. \A v \in Workers : info'[v].pc = info[v].pc
    BY <1>0, <1>5 DEF WorkerInfo
  <2>2. InfoSame
    BY <2>1 DEF InfoSame
  <2>3. /\ Shapes' /\ HitsDone' /\ Fresh'
        /\ \A i \in 1..Len(cmdChan) : Fits(cmdChan[i], gor', info')
    BY <1>1, <2>2, NoneMoves
  <2>4. QueueFits' /\ NoClash'
    BY <1>0, <1>1, <2>3, HeadFacts, QueuePop
  <2> QED BY <1>3, <2>3, <2>4, HandlerTogether
<1>6. CASE info' = [info EXCEPT ![<<Cur.g, k>>] = [NoInfo EXCEPT !.pc = "ext", !.status = Cur.arg]]
  <2> DEFINE w == <<Cur.g, k>>
  <2>1. [NoInfo EXCEPT !.pc = "ext", !.status = Cur.arg].pc = "ext"
    BY DEF NoInfo
  <2>2. w \in Workers
    BY <1>2, WorkerNamed
  <2>3. info'[w].pc = "ext" /\ \A v \in Workers : v # w => info'[v].pc = info[v].pc
    BY <1>0, <1>6, <2>1, <2>2
  <2>4. Shapes'
    BY <1>1 DEF HandlerInv, Shapes
  <2>5. HitsDone'
    <3> SUFFICES ASSUME NEW g \in Goroutines, gor[g].op \in {"stop", "restart"},
                        NEW v \in gor[g].hit
                 PROVE  info'[v].pc \in {"done", "ext"} \/ (gor[g].pc = "join" /\ v = gor[g].cur)
      BY <1>1 DEF HitsDone, HitDone
    <3>1. v \in Workers
      BY <1>0 DEF Goroutine
    <3> HIDE DEF w
    <3> QED BY <2>3, <3>1 DEF HandlerInv, HitsDone, HitDone
  <2>6. \A g \in Goroutines : \A j \in Keys : g # Cur.g => <<g, j>> \in Workers /\ <<g, j>> # w
    BY WorkerNamed
  <2>7. Fresh'
    <3> SUFFICES ASSUME NEW g \in Goroutines, NEW j \in Keys, Ahead(gor[g], j)
                 PROVE  info'[<<g, j>>].pc = "none"
      BY <1>1 DEF Fresh
    <3>1. g # Cur.g
      BY <1>2 DEF Ahead
    <3> HIDE DEF w
    <3> QED BY <2>3, <2>6, <3>1 DEF HandlerInv, Fresh
  <2>8. ASSUME NEW i \in 2..Len(cmdChan) PROVE Fits(cmdChan[i], gor', info')
    <3> DEFINE c == cmdChan[i]
    <3>1. /\ i \in 1..Len(cmdChan) /\ Fits(c, gor, info) /\ c \in Closure /\ ClosureOK(c)
      BY <1>0, <1>1, HeadFacts DEF HandlerInv, QueueFits, QueueOK
    <3> HIDE DEF c
    <3>2. ASSUME c.op = "install", NEW j \in c.keys PROVE info'[<<c.g, j>>].pc = "none"
      <4>1. c.g \in Goroutines /\ j \in Keys /\ c.g # Cur.g /\ info[<<c.g, j>>].pc = "none"
        BY <1>2, <3>1, <3>2 DEF Closure, ClosureOK, Fits
      <4> HIDE DEF w
      <4> QED BY <2>3, <2>6, <4>1
    <3>3. Fits(c, gor', info')
      BY <1>1, <3>1, <3>2 DEF Fits
    <3> QED BY <3>3 DEF c
  <2>9. QueueFits' /\ NoClash'
    BY <1>0, <1>1, <2>8, QueuePop
  <2> QED BY <1>3, <2>4, <2>5, <2>7, <2>9, HandlerTogether
<1> QED BY <1>4, <1>5, <1>6

\* The tick.
LEMMA TickHandler ==
  ASSUME HandlerInv, [Next]_vars, InfoSame, TickStep
  PROVE  HandlerInv'
<1> USE DEF LoopAt, InTick
<1>0. /\ gor \in [Goroutines -> Goroutine] /\ cmdChan \in Seq(Closure) /\ loop \in Loop
      /\ loop.n \in 0..MaxTicks /\ loop.n \in Nat /\ loop.todo \subseteq Keys /\ NoClash
      /\ workers \in [Keys -> Workers \cup {None}]
  BY BoundsAssumption DEF HandlerInv, TypeInv, TypeOK, Loop
<1>1. ASSUME UNCHANGED cmdChan, \A i \in 1..Len(cmdChan) : Fits(cmdChan[i], gor', info')
      PROVE  QueueFits' /\ NoClash'
  BY <1>0, <1>1 DEF QueueFits, NoClash
\* The tick spawns a goroutine: it is the first under its name.
<1>2. ASSUME NEW k \in Keys, InTick(k), TickDone(k), UNCHANGED cmdChan, NEW s,
             gor' = [gor EXCEPT ![<<loop.n, k>>] = s], Shape(s), s.hit = {}
      PROVE  HandlerInv'
  <2> DEFINE g == <<loop.n, k>>
  <2>1. loop.n \in 1..MaxTicks
    BY <1>0, <1>2 DEF HandlerInv, SpawnFresh
  <2>2. g \in Goroutines
    BY <2>1 DEF Goroutines, Spawned
  <2>3. gor[g].pc = "idle"
    BY <1>2, <2>1 DEF HandlerInv, SpawnFresh
  <2>4. Moves(gor[g], s) /\ HitDone(s, info')
    BY <1>2, <2>3 DEF Moves, Ahead, HitDone
  <2>5. /\ Shapes' /\ HitsDone' /\ Fresh'
        /\ \A i \in 1..Len(cmdChan) : Fits(cmdChan[i], gor', info')
    BY <1>2, <2>2, <2>3, <2>4, OneMoves
  <2>6. loop'.n = loop.n /\ loop'.pc = "tick" /\ loop'.todo = loop.todo \ {k}
    BY <1>0, <1>2 DEF TickDone, Loop
  <2>7. \A n \in 1..MaxTicks : \A j \in Keys :
          <<n, j>> # g => <<n, j>> \in Goroutines /\ gor'[<<n, j>>] = gor[<<n, j>>]
    BY <1>0, <1>2 DEF Goroutines, Spawned
  <2>8. SpawnFresh'
    <3> SUFFICES ASSUME NEW n \in 1..MaxTicks, NEW j \in Keys,
                        n > loop.n \/ (n = loop.n /\ j \in loop.todo \ {k})
                 PROVE  gor'[<<n, j>>].pc = "idle"
      BY <1>0, <2>1, <2>6 DEF SpawnFresh
    <3>1. <<n, j>> # g
      BY <1>0
    <3>2. gor[<<n, j>>].pc = "idle"
      BY <1>2 DEF HandlerInv, SpawnFresh
    <3> QED BY <2>7, <3>1, <3>2
  <2> QED BY <1>1, <1>2, <2>5, <2>8, HandlerTogether
<1>3. ASSUME UNCHANGED gor, loop'.n = loop.n, loop'.todo \subseteq loop.todo,
             loop.pc \in {"tick", "stopWorker"}
      PROVE  /\ SpawnFresh' /\ Shapes' /\ HitsDone' /\ Fresh'
             /\ \A i \in 1..Len(cmdChan) : Fits(cmdChan[i], gor', info')
  <2>1. SpawnFresh'
    BY <1>3, SpawnKept
  <2> QED BY <1>3, <2>1, NoneMoves
<1>4. ASSUME NEW k \in Keys, TickReconnect(k) \/ TickNoProgress(k) PROVE HandlerInv'
  <2> DEFINE s == [NoGoroutine EXCEPT !.op = "startWorker", !.pc = "send",
                     !.keys = {k}, !.cur = info[workers[k]].Config]
  <2>1. InTick(k) /\ TickDone(k) /\ UNCHANGED cmdChan /\ gor' = [gor EXCEPT ![<<loop.n, k>>] = s]
    BY <1>4 DEF TickReconnect, TickNoProgress, GoStartWorker
  <2>2. s.op = "startWorker" /\ s.pc = "send" /\ s.todo = {} /\ s.hit = {}
    BY DEF NoGoroutine
  <2> HIDE DEF s
  <2>3. Shape(s)
    BY <2>2 DEF Shape
  <2> QED BY <1>2, <2>1, <2>2, <2>3
<1>5. ASSUME NEW k \in Keys, TickNoHeartbeat(k) PROVE HandlerInv'
  <2>1. loop'.n = loop.n /\ loop'.todo \subseteq loop.todo
    BY <1>0, <1>5 DEF TickNoHeartbeat, Loop
  <2>2. UNCHANGED <<gor, cmdChan>> /\ loop.pc = "tick"
    BY <1>5 DEF TickNoHeartbeat
  <2> QED BY <1>1, <1>3, <2>1, <2>2, HandlerTogether
<1>6. ASSUME NEW k \in Keys, NEW expired \in BOOLEAN, TickHealthy(k, expired) PROVE HandlerInv'
  <2> DEFINE s == [NoGoroutine EXCEPT !.op = "restart", !.pc = "next",
                     !.keys = {k}, !.todo = {workers[k]}]
  <2>1. InTick(k) /\ TickDone(k) /\ UNCHANGED cmdChan
        /\ (gor' = [gor EXCEPT ![<<loop.n, k>>] = s] \/ UNCHANGED gor)
    BY <1>6 DEF TickHealthy
  <2>2. s.op = "restart" /\ s.pc = "next" /\ s.todo = {workers[k]} /\ s.hit = {}
        /\ s.ans = "none"
    BY DEF NoGoroutine
  <2> HIDE DEF s
  <2>3. Shape(s)
    BY <2>2 DEF Shape
  <2>4. CASE UNCHANGED gor
    <3>1. loop'.n = loop.n /\ loop'.todo \subseteq loop.todo
      BY <1>0, <2>1 DEF TickDone, Loop
    <3> QED BY <1>1, <1>3, <2>1, <2>4, <3>1, HandlerTogether
  <2> QED BY <1>2, <2>1, <2>2, <2>3, <2>4
<1>7. CASE TickStopWorker
  <2> DEFINE c == Cmd("delete", None, {loop.key}, None, "", 0)
  <2>1. Send(c) /\ UNCHANGED gor /\ loop.pc = "stopWorker"
    BY <1>7 DEF TickStopWorker
  <2>2. loop'.n = loop.n /\ loop'.todo \subseteq loop.todo
    BY <1>0, <1>7 DEF TickStopWorker, Loop
  <2>3. c.op = "delete"
    BY DEF Cmd
  <2> HIDE DEF c
  <2>4. Fits(c, gor', info') /\ \A i \in 1..Len(cmdChan) : ~Clash(cmdChan[i], c)
    BY <2>3 DEF Fits, Clash, Awaited
  <2>5. /\ SpawnFresh' /\ Shapes' /\ HitsDone' /\ Fresh'
        /\ \A i \in 1..Len(cmdChan) : Fits(cmdChan[i], gor', info')
    BY <1>3, <2>1, <2>2
  <2>6. QueueFits' /\ NoClash'
    BY <1>0, <2>1, <2>4, <2>5, QueueSend
  <2> QED BY <2>5, <2>6, HandlerTogether
<1>8. CASE TickEnd
  <2>1. loop'.n = loop.n /\ loop'.todo \subseteq loop.todo
    BY <1>0, <1>8 DEF TickEnd, Loop
  <2> QED BY <1>1, <1>3, <1>8, <2>1, HandlerTogether DEF TickEnd
<1> QED BY <1>4, <1>5, <1>6, <1>7, <1>8 DEF TickStep

LEMMA NextHandler == HandlerInv /\ [Next]_vars => HandlerInv'
<1> SUFFICES ASSUME HandlerInv, [Next]_vars PROVE HandlerInv'
  OBVIOUS
<1>0. cmdChan \in Seq(Closure) /\ NoClash /\ TypeInv
  BY DEF HandlerInv, TypeInv, TypeOK
<1>1. CASE LoopInstall \/ LoopRegister
  BY <1>1, InstallHandler, RegisterHandler
<1>2. CASE ~LoopInstall /\ ~LoopRegister
  <2>0. InfoSame
    BY <1>0, <1>2, InfoKept
  <2>1. CASE \E g \in Clients : Request(g)
    BY <2>1, RequestHandler
  <2>2. CASE \E g \in Goroutines : HandlerStep(g)
    BY <2>0, <2>2, HandlerHandler
  <2>3. CASE LoopStep
    BY <1>2, <2>0, <2>3, LoopHandler, TickHandler DEF LoopStep
  <2>4. ASSUME UNCHANGED <<gor, loop>>
        PROVE  /\ SpawnFresh' /\ Shapes' /\ HitsDone' /\ Fresh'
               /\ \A i \in 1..Len(cmdChan) : Fits(cmdChan[i], gor', info')
    BY <2>0, <2>4, NoneMoves, SpawnKept
  <2>5. CASE TickSend
    <3> DEFINE c == Cmd("tick", None, {}, None, "", ticks + 1)
    <3>1. Send(c) /\ UNCHANGED <<gor, loop>>
      BY <2>5 DEF TickSend
    <3>2. c.op = "tick"
      BY DEF Cmd
    <3> HIDE DEF c
    <3>3. Fits(c, gor', info') /\ \A i \in 1..Len(cmdChan) : ~Clash(cmdChan[i], c)
      BY <3>2 DEF Fits, Clash, Awaited
    <3>4. QueueFits' /\ NoClash'
      BY <1>0, <2>4, <3>1, <3>3, QueueSend
    <3> QED BY <2>4, <3>1, <3>4, HandlerTogether
  <2>6. CASE (\E w \in Workers : WorkerStep(w)) \/ Exit \/ UNCHANGED vars
    <3>1. UNCHANGED <<gor, loop, cmdChan>>
      BY <2>6 DEF WorkerStep, WorkerRun, WorkerEstablished, WorkerReturn, WorkerRetry,
                  WorkerQuit, WorkerPanic, Exit, vars
    <3>2. QueueFits' /\ NoClash'
      BY <1>0, <2>4, <3>1 DEF QueueFits, NoClash
    <3> QED BY <2>4, <3>1, <3>2, HandlerTogether
  <2> QED BY <2>1, <2>2, <2>3, <2>5, <2>6 DEF Next
<1> QED BY <1>1, <1>2

LEMMA HandlerHolds == Spec => []HandlerInv
  BY InitHandler, NextHandler, PTL DEF Spec

\* A stop or restart that answers with success has waited for every worker it
\* chose: runWorker of each has returned, and none of them comes back to life,
\* whatever other requests, ticks and takeovers run at the same time.
THEOREM StopWaits == Spec => []StopMeansDone
  BY HandlerInvImplies, HandlerHolds, PTL

\* The worker a restart starts never overlaps the one it stopped, and so never
\* competes with it for the remote port; this holds for the lifetime restarts of
\* the tick as well.
THEOREM RestartWaits == Spec => []RestartNeverOverlaps
  BY HandlerInvImplies, HandlerHolds, PTL

-----------------------------------------------------------------------------
(* No orphan without deletion by key, continued.  OrphanInv holds until the    *)
(* first stop, restart, stop-all or lifetime restart begins.  A goroutine has  *)
(* one operation, so none of these can have begun and be forgotten: the step   *)
(* that ends in a state without them started in one.                           *)

IdleNone == \A g \in Goroutines : gor[g].pc = "idle" => gor[g].op = "none"

\* Only an idle goroutine gets an operation, and none becomes idle again.
OneOperation(r, s) == s # r => s.pc # "idle" /\ (r.pc = "idle" \/ s.op = r.op)

LEMMA GorSteps ==
  ASSUME HandlerInv, [Next]_vars, NEW h \in Goroutines
  PROVE  OneOperation(gor[h], gor'[h])
<1>t. gor \in [Goroutines -> Goroutine] /\ gor[h] \in Goroutine
  BY DEF HandlerInv, TypeInv, TypeOK
<1>u. ASSUME UNCHANGED gor PROVE OneOperation(gor[h], gor'[h])
  BY <1>u DEF OneOperation
<1>e. ASSUME NEW g, NEW r, gor' = [gor EXCEPT ![g] = r],
             g = h => r.pc # "idle" /\ (gor[h].pc = "idle" \/ r.op = gor[h].op)
      PROVE  OneOperation(gor[h], gor'[h])
  BY <1>e, <1>t DEF OneOperation
<1>1. ASSUME NEW g \in Clients, Request(g) PROVE OneOperation(gor[h], gor'[h])
  <2>1. gor[g].pc = "idle"
    BY <1>1 DEF Request, StartInvalid, Start, Action, StopAll, Register, List,
                TakeoverStop, StopDaemon, Accept
  <2>2. ASSUME NEW op, NEW pc \in {"wait", "done", "send"}, NEW arg, NEW keys, NEW ans,
               Serve(g, op, pc, arg, keys, ans)
        PROVE  OneOperation(gor[h], gor'[h])
    <3> DEFINE r == [NoGoroutine EXCEPT !.op = op, !.pc = pc, !.arg = arg, !.keys = keys,
                                        !.ans = ans]
    <3>1. r.pc = pc
      BY DEF NoGoroutine
    <3>2. gor' = [gor EXCEPT ![g] = r]
      BY <2>2 DEF Serve
    <3> HIDE DEF r
    <3> QED BY <3>1, <3>2, <2>1, <1>e
  <2> QED BY <1>1, <2>2 DEF Request, StartInvalid, Start, Action, StopAll, Register, List,
                            TakeoverStop, StopDaemon
<1>2. ASSUME NEW g \in Goroutines, HandlerStep(g) PROVE OneOperation(gor[h], gor'[h])
  <2>1. CASE StartSend(g) \/ Refuse(g) \/ StopAllSend(g) \/ SpawnedStart(g)
    <3>1. CASE StartSend(g)
      BY <3>1, <1>t DEF StartSend, Goroutine, OneOperation
    <3>2. CASE Refuse(g)
      BY <3>2, <1>t DEF Refuse, Goroutine, OneOperation
    <3>3. CASE StopAllSend(g)
      BY <3>3, <1>t DEF StopAllSend, Goroutine, OneOperation
    <3>4. CASE SpawnedStart(g)
      BY <3>4, <1>t DEF SpawnedStart, Goroutine, OneOperation
    <3> QED BY <2>1, <3>1, <3>2, <3>3, <3>4
  <2>2. CASE \E w \in Workers : PerformAction(g, w)
    BY <2>2, <1>t DEF PerformAction, Goroutine, OneOperation
  <2>3. CASE StopWorker(g) \/ RestartSend(g)
    <3>1. CASE StopWorker(g) /\ gor[g].op = "stop"
      BY <3>1, <1>t DEF StopWorker, NextPc, Goroutine, OneOperation
    <3>2. CASE StopWorker(g) /\ gor[g].op # "stop"
      BY <3>2, <1>t DEF StopWorker, Goroutine, OneOperation
    <3>3. CASE RestartSend(g)
      BY <3>3, <1>t DEF RestartSend, NextPc, Goroutine, OneOperation
    <3> QED BY <2>3, <3>1, <3>2, <3>3
  <2>4. CASE StopAllCancel(g)
    BY <2>4, <1>t DEF StopAllCancel, Goroutine, OneOperation
  <2> QED BY <1>2, <2>1, <2>2, <2>3, <2>4 DEF HandlerStep
<1>3. CASE LoopStep
  <2>1. CASE LoopCancelOld \/ LoopLookup \/ LoopList
    <3>1. CASE LoopCancelOld
      BY <3>1, <1>t DEF LoopCancelOld, Goroutine, OneOperation
    <3>2. CASE LoopLookup
      BY <3>2, <1>t DEF LoopLookup, Goroutine, OneOperation
    <3>3. CASE LoopList
      BY <3>3, <1>t DEF LoopList, Goroutine, OneOperation
    <3> QED BY <2>1, <3>1, <3>2, <3>3
  <2>2. CASE LoopInstall \/ LoopDelete \/ LoopRegister \/ LoopTakeoverMark
             \/ LoopTakeoverSweep \/ LoopTick \/ TickStopWorker \/ TickEnd
    BY <2>2, <1>u DEF LoopInstall, LoopDelete, LoopRegister, LoopTakeoverMark,
                      LoopTakeoverSweep, LoopTick, TickStopWorker, TickEnd
  <2>3. ASSUME NEW k \in Keys, InTick(k) PROVE <<loop.n, k>> = h => gor[h].pc = "idle"
    <3>1. loop.n \in 1..MaxTicks /\ loop.pc = "tick" /\ k \in loop.todo
      BY <2>3, BoundsAssumption
         DEF InTick, LoopAt, HandlerInv, SpawnFresh, TypeInv, TypeOK, Loop
    <3> QED BY <3>1 DEF HandlerInv, SpawnFresh
  <2>4. ASSUME NEW k \in Keys, InTick(k), GoStartWorker(k) PROVE OneOperation(gor[h], gor'[h])
    <3> DEFINE c == info[workers[k]].Config
               r == [NoGoroutine EXCEPT !.op = "startWorker", !.pc = "send",
                       !.keys = {k}, !.cur = c]
    <3>1. gor' = [gor EXCEPT ![<<loop.n, k>>] = r]
      BY <2>4 DEF GoStartWorker
    <3> HIDE DEF c
    <3>2. r.pc = "send"
      BY DEF NoGoroutine
    <3> HIDE DEF r
    <3> QED BY <3>1, <3>2, <2>3, <2>4, <1>e
  <2>5. ASSUME NEW k \in Keys, TickReconnect(k) \/ TickNoProgress(k) \/ TickNoHeartbeat(k)
        PROVE  OneOperation(gor[h], gor'[h])
    BY <2>5, <2>4, <1>u DEF TickReconnect, TickNoProgress, TickNoHeartbeat
  <2>6. ASSUME NEW k \in Keys, NEW expired \in BOOLEAN, TickHealthy(k, expired)
        PROVE  OneOperation(gor[h], gor'[h])
    <3> DEFINE r == [NoGoroutine EXCEPT !.op = "restart", !.pc = "next",
                       !.keys = {k}, !.todo = {workers[k]}]
    <3>1. InTick(k) /\ (gor' = [gor EXCEPT ![<<loop.n, k>>] = r] \/ UNCHANGED gor)
      BY <2>6 DEF TickHealthy
    <3>2. r.pc = "next"
      BY DEF NoGoroutine
    <3> HIDE DEF r
    <3> QED BY <3>1, <3>2, <2>3, <1>e, <1>u
  <2> QED BY <1>3, <2>1, <2>2, <2>5, <2>6 DEF LoopStep, TickStep
<1>4. CASE TickSend \/ Exit \/ UNCHANGED vars
  BY <1>4, <1>u DEF TickSend, Exit, vars
<1>5. CASE \E w \in Workers : WorkerStep(w)
  BY <1>5, <1>u DEF WorkerStep, WorkerRun, WorkerEstablished, WorkerReturn, WorkerRetry,
                    WorkerQuit, WorkerPanic
<1> QED BY <1>1, <1>2, <1>3, <1>4, <1>5 DEF Next

DeletionInv == HandlerInv /\ IdleNone /\ (NoDeletions => OrphanInv)

LEMMA DeletionStep == FewTicks /\ DeletionInv /\ [Next]_vars => DeletionInv'
<1> SUFFICES ASSUME FewTicks, DeletionInv, [Next]_vars PROVE DeletionInv'
  OBVIOUS
<1>1. HandlerInv'
  BY NextHandler DEF DeletionInv
<1>2. \A h \in Goroutines : OneOperation(gor[h], gor'[h])
  BY GorSteps DEF DeletionInv
<1>3. IdleNone'
  BY <1>2 DEF DeletionInv, IdleNone, OneOperation
<1>4. NoDeletions' => NoDeletions
  BY <1>2 DEF DeletionInv, IdleNone, OneOperation, NoDeletions
<1>5. NoDeletions' => OrphanInv'
  BY <1>4, NextOrphan DEF DeletionInv
<1> QED BY <1>1, <1>3, <1>5 DEF DeletionInv

\* As long as no stop, restart, stop-all or lifetime restart has begun and the tick
\* has not run MaxOfflineCount times, no interleaving of starts, registrations,
\* takeovers and tick restarts loses a running worker: deletion by key is the only
\* cause of orphans.  That many ticks are excluded because the tick then deletes by
\* key itself (daemon.go:436).
THEOREM OnlyDeletionOrphans == FewTicks => (Spec => []NoOrphan)
<1> SUFFICES ASSUME FewTicks PROVE Spec => []NoOrphan
  OBVIOUS
<1>1. Init => DeletionInv
  <2>1. Init => IdleNone
    <3>1. NoGoroutine.op = "none"
      BY DEF NoGoroutine
    <3> QED BY <3>1 DEF Init, IdleNone
  <2> QED BY <2>1, InitHandler, InitOrphan DEF DeletionInv
<1>2. DeletionInv /\ [Next]_vars => DeletionInv'
  BY DeletionStep
<1>3. DeletionInv => NoOrphan
  BY DEF DeletionInv, OrphanInv, Orphans, NoOrphan
<1> QED BY <1>1, <1>2, <1>3, PTL DEF Spec
=============================================================================
