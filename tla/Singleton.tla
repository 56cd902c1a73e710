----------------------------- MODULE Singleton -----------------------------
(***************************************************************************)
(* One daemon per user: the control socket and the PID file, the daemon    *)
(* processes that fight for them, and the commands that start, stop and    *)
(* take over a daemon (daemon/transport_unix.go, daemon/platform_unix.go,  *)
(* base_core/daemon_check*.go, main.go).  Every process runs on its own;   *)
(* the file system and connect(2) are all they share.                      *)
(*                                                                         *)
(* The socket file is named by the process that bound it: after its death  *)
(* the file is a dead socket.                                              *)
(***************************************************************************)
EXTENDS Integers, FiniteSets

CONSTANTS
  Limits,       \* bound: processes spawned, commands and crashes in all, with and
                \* without overlap
  None,         \* no file, no process
  Clis,         \* terminals, each runs one command after the other
  Kinds,        \* the commands they run
  Overlaps      \* the values of overlap

ASSUME SingletonAssumption ==
  /\ Limits \in [BOOLEAN -> [procs: Nat, commands: Nat, crashes: Nat]]
  /\ \A o \in BOOLEAN : None \notin 1..Limits[o].procs
  /\ Kinds \subseteq {"start", "stop", "takeover"}
  /\ Overlaps \subseteq BOOLEAN

VARIABLES
  sock,     \* the file at SocketPath
  pidFile,
  proc,     \* where each daemon process is
  cli,      \* where each command is and whom it talks to
  commands, \* commands begun
  crashes,  \* daemons that crashed or hang
  hung,     \* daemons whose processLoop no longer takes commands
  overlap   \* may two daemons be between their first look at the files and the PID
            \* file, or between unlink and exit, at the same time?  Never changes.

vars == <<sock, pidFile, proc, cli, commands, crashes, hung, overlap>>

-----------------------------------------------------------------------------
Procs == UNION {1..Limits[o].procs : o \in Overlaps}  \* in the order in which they are spawned
Starting == {"inner", "stat", "dial", "remove", "bind", "listen", "writepid"}
Exiting == {"stopping", "unlink", "close", "removeagain", "rmpid", "idlerm"}
Steps == {"none", "serve", "dead"} \cup Starting \cup Exiting
CliSteps == {"idle", "check", "spawn", "sleep", "send", "stop", "wait",
             "answer", "export", "list", "kill", "remove", "recheck"}

TypeOK ==
  /\ sock \in Procs \cup {None} /\ pidFile \in Procs \cup {None}
  /\ proc \in [Procs -> Steps]
  /\ cli \in [Clis -> [pc: CliSteps, kind: Kinds \cup {"none"},
                       target: Procs \cup {None}]]
  /\ \A c \in Clis : cli[c].pc \in {"answer", "wait", "list", "kill"} => cli[c].target \in Procs
  /\ hung \subseteq Procs
  /\ commands \in 0..Limits[overlap].commands
  /\ crashes \in 0..Limits[overlap].crashes /\ overlap \in Overlaps

NoCommand == [pc |-> "idle", kind |-> "none", target |-> None]

Init ==
  /\ sock = None /\ pidFile = None
  /\ proc = [p \in Procs |-> "none"]
  /\ cli = [c \in Clis |-> NoCommand]
  /\ commands = 0
  /\ crashes = 0 /\ hung = {} /\ overlap \in Overlaps

\* listen(2) was called and the process has not closed the listener.
Listening(p) ==
  proc[p] \in {"writepid", "serve", "stopping", "unlink", "close", "idlerm"}

\* net.Dial("unix", SocketPath) succeeds: CheckDaemonStatus says running.
Dialable == sock # None /\ Listening(sock)

\* The steps in which a process touches the files.
Critical == {"dial", "remove", "bind", "listen", "writepid", "unlink", "close",
             "removeagain", "rmpid", "idlerm"}

\* Environment: without overlap these steps of two processes do not mix, and a
\* takeover has no other command and no starting daemon beside it.
MayTouch(p) == overlap \/ \A q \in Procs \ {p} : proc[q] \notin Critical

MayBegin(kind) ==
  \/ overlap
  \/ IF kind = "takeover"
     THEN (\A o \in Clis : cli[o].pc = "idle") /\ (\A p \in Procs : proc[p] \notin Starting)
     ELSE \A o \in Clis : cli[o].kind = "takeover" => cli[o].pc = "idle"

Go(p, step) == proc' = [proc EXCEPT ![p] = step]
files == <<sock, pidFile>>
others == <<cli, commands, crashes, hung, overlap>>

-----------------------------------------------------------------------------
(* A daemon process starts: runDaemonInner, StartServer, writePIDFile *)

\* IsDaemonRunning.
InnerCheck(p) ==
  /\ proc[p] = "inner"
  /\ Go(p, IF Dialable THEN "dead" ELSE "stat")
  /\ UNCHANGED <<files, others>>

Stat(p) ==
  /\ proc[p] = "stat" /\ MayTouch(p)
  /\ Go(p, IF sock = None THEN "bind" ELSE "dial")
  /\ UNCHANGED <<files, others>>

\* Mutant: the existing file is always taken for dead.
GuardDialNot(p) ==
  /\ proc[p] = "dial"
  /\ Go(p, "remove")
  /\ UNCHANGED <<files, others>>

\* Somebody answers: give up.  Nobody does: a dead socket.
GuardDial(p) ==
  /\ proc[p] = "dial"
  /\ Go(p, IF Dialable THEN "dead" ELSE "remove")
  /\ UNCHANGED <<files, others>>

RemoveDead(p) ==
  /\ proc[p] = "remove"
  /\ sock' = None
  /\ Go(p, "bind")
  /\ UNCHANGED <<pidFile, others>>

\* bind(2) creates the file; EADDRINUSE if there is one.
Bind(p) ==
  /\ proc[p] = "bind"
  /\ IF sock = None THEN sock' = p /\ Go(p, "listen")
     ELSE UNCHANGED sock /\ Go(p, "dead")
  /\ UNCHANGED <<pidFile, others>>

Listen(p) ==
  /\ proc[p] = "listen"
  /\ Go(p, "writepid")
  /\ UNCHANGED <<files, others>>

\* Mutant: no PID file.
WritePIDFileNot(p) ==
  /\ proc[p] = "writepid"
  /\ Go(p, "serve")
  /\ UNCHANGED <<files, others>>

WritePIDFile(p) ==
  /\ proc[p] = "writepid"
  /\ pidFile' = p
  /\ Go(p, "serve")
  /\ UNCHANGED <<sock, others>>

-----------------------------------------------------------------------------
(* A daemon process ends *)

\* SIGTERM from outside, waiting in sigChan.
Signal(p) ==
  /\ proc[p] = "serve"
  /\ Go(p, "stopping")
  /\ UNCHANGED <<files, others>>

\* No clients for ten minutes, or the agent died: the listener is not closed.
IdleExit(p) ==
  /\ proc[p] = "serve" /\ MayTouch(p)
  /\ Go(p, "idlerm")
  /\ UNCHANGED <<files, others>>

\* Run takes the signal; or handleStopDaemonTransport, 200 ms after its answer.
BeginStop(p) ==
  /\ proc[p] = "stopping" /\ MayTouch(p)
  /\ Go(p, "unlink")
  /\ UNCHANGED <<files, others>>

\* Stop: listener.Close unlinks the path, then closes the descriptor, and
\* os.Remove takes away what is at the path by then.
Unlink(p) ==
  /\ proc[p] = "unlink"
  /\ sock' = None
  /\ Go(p, "close")
  /\ UNCHANGED <<pidFile, others>>

Close(p) ==
  /\ proc[p] = "close"
  /\ Go(p, "removeagain")
  /\ UNCHANGED <<files, others>>

RemoveAgain(p) ==
  /\ proc[p] = "removeagain"
  /\ sock' = None
  /\ Go(p, "rmpid")
  /\ UNCHANGED <<pidFile, others>>

RemovePIDFile(p) ==
  /\ proc[p] \in {"rmpid", "idlerm"}
  /\ pidFile' = None
  /\ Go(p, "dead")
  /\ UNCHANGED <<sock, others>>

\* kill -9, out of memory, power.
Crash(p) ==
  /\ crashes < Limits[overlap].crashes
  /\ proc[p] \in Starting \cup Exiting \cup {"serve"}
  /\ Go(p, "dead")
  /\ crashes' = crashes + 1
  /\ UNCHANGED <<files, cli, commands, hung, overlap>>

\* processLoop waits for ever: for a worker that does not end, or for room in its
\* own channel (RequestsAnswered in Daemon).  The listener, the signals and
\* CMD_STOP_DAEMON do without it.
Hang(p) ==
  /\ crashes < Limits[overlap].crashes
  /\ proc[p] = "serve" /\ p \notin hung
  /\ hung' = hung \cup {p}
  /\ crashes' = crashes + 1
  /\ UNCHANGED <<files, proc, cli, commands, overlap>>

-----------------------------------------------------------------------------
(* Commands *)

Step(c, pc) == cli' = [cli EXCEPT ![c].pc = pc]
End(c) == cli' = [cli EXCEPT ![c] = NoCommand]

Begin(c, kind) ==
  /\ cli[c].pc = "idle" /\ commands < Limits[overlap].commands /\ MayBegin(kind)
  /\ commands' = commands + 1
  /\ cli' = [cli EXCEPT ![c] = [NoCommand EXCEPT !.pc = "check", !.kind = kind]]
  /\ UNCHANGED <<files, proc, crashes, hung, overlap>>

\* IsDaemonRunning, the first thing every command does.
Check(c) ==
  /\ cli[c].pc = "check"
  /\ CASE cli[c].kind = "start"    -> Step(c, IF Dialable THEN "send" ELSE "spawn")
       [] cli[c].kind = "stop"     -> IF Dialable THEN Step(c, "stop") ELSE End(c)
       [] cli[c].kind = "takeover" -> IF Dialable THEN Step(c, "export") ELSE End(c)
  /\ UNCHANGED <<files, proc, commands, crashes, hung, overlap>>

\* startDaemonBackground looks again, then starts a process.
Spawn(c) ==
  /\ cli[c].pc = "spawn"
  /\ \/ Dialable /\ UNCHANGED proc
     \/ /\ ~Dialable
        /\ \E p \in 1..Limits[overlap].procs :
             (\A q \in Procs : proc[q] = "none" <=> q >= p) /\ Go(p, "inner")
     \/ (\A p \in 1..Limits[overlap].procs : proc[p] # "none") /\ UNCHANGED proc
  /\ Step(c, "sleep")
  /\ UNCHANGED <<files, commands, crashes, hung, overlap>>

\* The poll for the new daemon (or the fixed sleep) ends, ready or not.
Wake(c) ==
  /\ cli[c].pc = "sleep"
  /\ Step(c, "send")
  /\ UNCHANGED <<files, proc, commands, crashes, hung, overlap>>

\* sendStartCommand, to whoever can be dialled now.
SendStart(c) ==
  /\ cli[c].pc = "send"
  /\ IF Dialable THEN cli' = [cli EXCEPT ![c].pc = "answer", ![c].target = sock] ELSE End(c)
  /\ UNCHANGED <<files, proc, commands, crashes, hung, overlap>>

\* Mutant: only an answer ends the wait, not the end of the connection.
HearsAnswerOnly(c) == proc[cli[c].target] # "dead" /\ cli[c].target \notin hung

\* SendCommand reads until the newline of the answer, which takes a turn of
\* processLoop, or until the daemon's death closes the connection.  It has no deadline.
Hears(c) == cli[c].target \notin hung \/ proc[cli[c].target] = "dead"

Answered(c) ==
  /\ cli[c].pc = "answer" /\ Hears(c)
  /\ End(c)
  /\ UNCHANGED <<files, proc, commands, crashes, hung, overlap>>

\* Mutant: CMD_STOP_DAEMON takes a turn of processLoop, as most commands do.
SendStopByLoop(c) ==
  /\ cli[c].pc = "stop" /\ Dialable /\ sock \notin hung
  /\ proc' = IF proc[sock] \in {"serve", "writepid"}
             THEN [proc EXCEPT ![sock] = "stopping"] ELSE proc
  /\ pidFile' = IF proc[sock] = "writepid" THEN sock ELSE pidFile
  /\ cli' = [cli EXCEPT ![c].pc = "wait", ![c].target = sock]
  /\ UNCHANGED <<sock, commands, crashes, hung, overlap>>

\* CMD_STOP_DAEMON, answered without processLoop 200 ms before the daemon goes: time enough for a
\* daemon that has just begun to listen to write its PID file.
SendStop(c) ==
  /\ cli[c].pc = "stop" /\ Dialable
  /\ proc' = IF proc[sock] \in {"serve", "writepid"}
             THEN [proc EXCEPT ![sock] = "stopping"] ELSE proc
  /\ pidFile' = IF proc[sock] = "writepid" THEN sock ELSE pidFile
  /\ cli' = [cli EXCEPT ![c].pc = "wait", ![c].target = sock]
  /\ UNCHANGED <<sock, commands, crashes, hung, overlap>>

\* It cannot be reached any more: SIGTERM by the PID file (a dead process cannot
\* be signalled, unless its PID was given to another one).
StopByPid(c) ==
  /\ cli[c].pc = "stop" /\ ~Dialable
  /\ IF pidFile # None /\ proc[pidFile] \notin {"none", "dead"}
     THEN /\ cli' = [cli EXCEPT ![c].pc = "wait", ![c].target = pidFile]
          /\ IF proc[pidFile] = "serve" THEN Go(pidFile, "stopping") ELSE UNCHANGED proc
     ELSE End(c) /\ UNCHANGED proc
  /\ UNCHANGED <<files, commands, crashes, hung, overlap>>

\* waitDaemonGone: the socket cannot be dialled, or 5 s are over.
WaitGone(c) ==
  /\ cli[c].pc = "wait"
  /\ End(c)
  /\ UNCHANGED <<files, proc, commands, crashes, hung, overlap>>

\* handleTakeover asks for the daemon's PID and tunnels...
Export(c) ==
  /\ cli[c].pc = "export"
  /\ IF Dialable THEN cli' = [cli EXCEPT ![c].pc = "list", ![c].target = sock] ELSE End(c)
  /\ UNCHANGED <<files, proc, commands, crashes, hung, overlap>>

\* ... and has them, or the connection broke; the operator may say no.
Exported(c) ==
  /\ cli[c].pc = "list" /\ Hears(c)
  /\ (proc[cli[c].target] # "dead" /\ Step(c, "kill")) \/ End(c)
  /\ UNCHANGED <<files, proc, commands, crashes, hung, overlap>>

Kill(c) ==
  /\ cli[c].pc = "kill"
  /\ Go(cli[c].target, "dead")
  /\ Step(c, "remove")
  /\ UNCHANGED <<files, commands, crashes, hung, overlap>>

\* 500 ms later the socket file goes, whoever it is by then.
TakeoverRemove(c) ==
  /\ cli[c].pc = "remove"
  /\ sock' = None
  /\ Step(c, "recheck")
  /\ UNCHANGED <<pidFile, proc, commands, crashes, hung, overlap>>

Recheck(c) ==
  /\ cli[c].pc = "recheck"
  /\ Step(c, IF Dialable THEN "send" ELSE "spawn")
  /\ UNCHANGED <<files, proc, commands, crashes, hung, overlap>>

-----------------------------------------------------------------------------
Process(p) ==
  \/ InnerCheck(p)
  \/ Stat(p)
  \/ GuardDial(p)
  \/ RemoveDead(p)
  \/ Bind(p)
  \/ Listen(p)
  \/ WritePIDFile(p)
  \/ BeginStop(p)
  \/ Unlink(p)
  \/ Close(p)
  \/ RemoveAgain(p)
  \/ RemovePIDFile(p)

Command(c) ==
  \/ Check(c)
  \/ Spawn(c)
  \/ Wake(c)
  \/ SendStart(c)
  \/ Answered(c)
  \/ SendStop(c)
  \/ StopByPid(c)
  \/ WaitGone(c)
  \/ Export(c)
  \/ Exported(c)
  \/ Kill(c)
  \/ TakeoverRemove(c)
  \/ Recheck(c)

Next ==
  \/ \E p \in Procs : Process(p) \/ Signal(p) \/ IdleExit(p) \/ Crash(p) \/ Hang(p)
  \/ \E c \in Clis : Command(c) \/ \E kind \in Kinds : Begin(c, kind)

Spec == Init /\ [][Next]_vars

\* The operating system runs every process; nobody has to begin a command,
\* signal or crash.
LiveSpec ==
  /\ Spec
  /\ \A p \in Procs : WF_vars(Process(p))
  /\ \A c \in Clis : WF_vars(Command(c))

-----------------------------------------------------------------------------
(* Properties *)

\* "单例守卫（修复双 daemon）" (transport_unix.go:28): at most one daemon serves,
\* or two of them would run the same tunnels against each other.
OneDaemon ==
  \A p, q \in Procs : proc[p] = "serve" /\ proc[q] = "serve" => p = q

\* Apart from that race the guard works, through crashes and takeovers.
OneDaemonApart == ~overlap => OneDaemon

\* A daemon that serves can be reached by its commands: the socket and the PID
\* file are its own (transport_unix.go:33, platform_unix.go:19).
ServingIsReachable ==
  ~overlap => \A p \in Procs : proc[p] = "serve" => sock = p /\ pidFile = p

\* A command waits for ever only for a daemon that lives on and whose processLoop
\* hangs: a daemon that exits, crashes, is stopped or taken over by another terminal
\* releases the commands that wait for its answer.
CommandsEnd ==
  \A c \in Clis :
    cli[c].pc # "idle" ~>
      \/ cli[c].pc = "idle"
      \/ [](cli[c].pc \in {"answer", "list"} /\ cli[c].target \in hung)

\* "确保升级时旧 daemon 一定能退出" (main.go:707): the daemon a --stop-daemon finds
\* behind the socket exits, also when its processLoop hangs, and even if it is told
\* by its PID file because the socket is gone by then.
StoppedDaemonExits ==
  \A p \in Procs :
    /\ ~overlap /\ sock = p /\ Listening(p)
    /\ \E c \in Clis : cli[c].pc = "stop"
    ~> proc[p] = "dead"
=============================================================================
