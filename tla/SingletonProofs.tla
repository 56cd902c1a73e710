-------------------------- MODULE SingletonProofs ---------------------------
(***************************************************************************)
(* Proofs about Singleton, for any number of processes, commands, crashes  *)
(* and terminals: where the steps of two daemons do not mix, one daemon    *)
(* serves at most, and the socket and the PID file are its own.            *)
(*                                                                         *)
(* The invariant says who the socket file belongs to at each step of a     *)
(* daemon, and what a takeover may rely on between its look at the daemon  *)
(* and the moment it removes the file.                                     *)
(***************************************************************************)
EXTENDS Singleton, TLAPS

CliType == [pc: CliSteps, kind: Kinds \cup {"none"}, target: Procs \cup {None}]
TakeoverSteps == {"export", "list", "kill", "remove", "recheck"}
\* The steps in which a command knows the daemon it talks to.
Talking == {"answer", "wait", "list", "kill"}

Types ==
  /\ sock \in Procs \cup {None} /\ pidFile \in Procs \cup {None}
  /\ proc \in [Procs -> Steps]
  /\ cli \in [Clis -> CliType]
  /\ overlap \in Overlaps
  /\ \A c \in Clis : /\ cli[c].pc \in Talking => cli[c].target \in Procs
                     /\ cli[c].pc \in TakeoverSteps => cli[c].kind = "takeover"
                     /\ cli[c].pc = "check" => cli[c].kind \in Kinds

\* The steps in which the file at the path is the process's own.
Up == {"serve", "stopping", "unlink", "idlerm"}
Held == {"listen", "writepid"} \cup Up
\* The steps after it has unlinked it.
Left == {"close", "removeagain", "rmpid"}
Serving == {"serve", "stopping"}

OneTouches == \A p, q \in Procs : proc[p] \in Critical /\ proc[q] \in Critical => p = q
SockHeld == \A p \in Procs : proc[p] \in Held => sock = p
SockLeft == \A p \in Procs : proc[p] \in Left => sock = None
\* The socket that is going to be removed is dead.
DeadSock == \A p, q \in Procs : proc[p] = "remove" => proc[q] \notin Serving
PidHeld == \A p \in Procs : proc[p] \in Serving => pidFile = p

\* A takeover is alone, ...
Takes(c) == cli[c].kind = "takeover" /\ cli[c].pc # "idle"
Alone == \A c, o \in Clis : Takes(c) /\ o # c => cli[o].pc = "idle"
\* ... nobody starts until it does, ...
NobodyStarts ==
  \A c \in Clis : Takes(c) /\ cli[c].pc \in TakeoverSteps \cup {"check"} =>
    \A p \in Procs : proc[p] \notin Starting
\* ... its target is the only daemon, and gone when the file is removed.
TargetOnly ==
  \A c \in Clis, p \in Procs :
    /\ cli[c].pc \in {"list", "kill"} /\ p # cli[c].target => proc[p] \notin Up
    /\ cli[c].pc = "remove" => proc[p] \notin Up

Files == OneTouches /\ SockHeld /\ SockLeft /\ DeadSock /\ PidHeld
Takeovers == Alone /\ NobodyStarts /\ TargetOnly
Apart == Files /\ Takeovers

Inv == Types /\ (~overlap => Apart)

-----------------------------------------------------------------------------
LEMMA ProcsFacts ==
  None \notin Procs /\ \A o \in Overlaps : 1..Limits[o].procs \subseteq Procs
BY SingletonAssumption DEF Procs

LEMMA InvInit == Init => Inv
<1> SUFFICES ASSUME Init PROVE Inv
  OBVIOUS
<1>1. cli \in [Clis -> CliType] /\ \A c \in Clis : cli[c].pc = "idle"
  BY DEF Init, NoCommand, CliType, CliSteps
<1>2. proc \in [Procs -> Steps] /\ \A p \in Procs : proc[p] = "none"
  BY DEF Init, Steps
<1>3. Types
  BY <1>1, <1>2 DEF Init, Types, TakeoverSteps, Talking
<1>4. Files
  BY <1>2 DEF Files, OneTouches, SockHeld, SockLeft, DeadSock, PidHeld, Critical, Held, Left, Up,
              Serving
<1>5. Takeovers
  BY <1>1 DEF Takeovers, Alone, NobodyStarts, TargetOnly, Takes
<1> QED
  BY <1>3, <1>4, <1>5 DEF Inv, Apart

LEMMA InvImplies == Inv => OneDaemonApart /\ ServingIsReachable
BY DEF Inv, Apart, Files, SockHeld, PidHeld, OneDaemonApart, OneDaemon, ServingIsReachable,
       Held, Up, Serving

-----------------------------------------------------------------------------
(* A daemon process takes a step *)

\* What makes a step of process p fit in with the others, ...
FitsFiles(p, step) ==
  /\ step \in Critical => proc[p] \in Critical \/ MayTouch(p)
  /\ step \in Held => sock' = p
  /\ step \in Left => sock' = None
  /\ step = "remove" => \A q \in Procs : q # p => proc[q] \notin Serving
  /\ step \in Serving => pidFile' = p /\ (proc[p] \in Serving \cup Critical)
  /\ \A q \in Procs : q # p =>
       /\ proc[q] \in Held => sock' = sock
       /\ proc[q] \in Left => sock' = None
       /\ proc[q] \in Serving => pidFile' = pidFile

\* ... and with takeovers.
Fits(p, step) ==
  /\ FitsFiles(p, step)
  /\ step \in Starting => proc[p] \in Starting
  /\ step \in Up => proc[p] \in Up \cup Starting

LEMMA FilesFit ==
  ASSUME Inv, ~overlap, NEW p \in Procs, NEW step \in Steps, Go(p, step), FitsFiles(p, step)
  PROVE  Files'
<1>1. proc'[p] = step /\ \A q \in Procs : q # p => proc'[q] = proc[q]
  BY DEF Go, Inv, Types
<1>2. Files
  BY DEF Inv, Apart
<1>3. OneTouches'
  BY <1>1, <1>2 DEF Files, OneTouches, FitsFiles, MayTouch
<1>4. SockHeld' /\ SockLeft'
  BY <1>1, <1>2 DEF Files, SockHeld, SockLeft, FitsFiles
<1>5. PidHeld'
  BY <1>1, <1>2 DEF Files, PidHeld, FitsFiles
<1>6. DeadSock'
  BY <1>1, <1>2 DEF Files, DeadSock, OneTouches, FitsFiles, Critical, Serving
<1> QED
  BY <1>3, <1>4, <1>5, <1>6 DEF Files

LEMMA FitsTakeovers ==
  ASSUME Inv, ~overlap, NEW p \in Procs, NEW step \in Steps, Go(p, step), Fits(p, step),
         UNCHANGED cli
  PROVE  Takeovers'
<1>1. proc'[p] = step /\ \A q \in Procs : q # p => proc'[q] = proc[q]
  BY DEF Go, Inv, Types
<1>2. Takeovers /\ Types
  BY DEF Inv, Apart
<1>3. Alone'
  BY <1>2 DEF Takeovers, Alone, Takes
<1>4. NobodyStarts'
  BY <1>1, <1>2 DEF Takeovers, NobodyStarts, Takes, Fits
<1>5. \A c \in Clis : cli[c].pc \in {"list", "kill", "remove"} => proc[p] \notin Starting
  BY <1>2 DEF Takeovers, NobodyStarts, Takes, Types, TakeoverSteps
<1>6. TargetOnly'
  BY <1>1, <1>2, <1>5 DEF Takeovers, TargetOnly, Fits
<1> QED
  BY <1>3, <1>4, <1>6 DEF Takeovers

LEMMA ProcTypes ==
  ASSUME Inv, NEW p \in Procs, NEW step \in Steps, Go(p, step), UNCHANGED <<cli, overlap>>,
         sock' \in Procs \cup {None}, pidFile' \in Procs \cup {None}
  PROVE  Types'
BY DEF Inv, Types, Go

LEMMA StepInv ==
  ASSUME Inv, NEW p \in Procs, NEW step \in Steps, Go(p, step), UNCHANGED <<cli, overlap>>,
         sock' \in Procs \cup {None}, pidFile' \in Procs \cup {None},
         ~overlap => Fits(p, step)
  PROVE  Inv'
BY ProcTypes, FilesFit, FitsTakeovers DEF Inv, Apart, Fits

\* What a step of p that leaves the files alone still has to respect.
Quiet(p, step) ==
  /\ step \in Critical => proc[p] \in Critical \/ MayTouch(p)
  /\ step \in Held => sock = p
  /\ step \in Left => sock = None
  /\ step = "remove" => \A q \in Procs : q # p => proc[q] \notin Serving
  /\ step \in Serving => pidFile = p /\ (proc[p] \in Serving \cup Critical)
  /\ step \in Starting => proc[p] \in Starting
  /\ step \in Up => proc[p] \in Up \cup Starting

LEMMA QuietInv ==
  ASSUME Inv, NEW p \in Procs, UNCHANGED <<files, cli, overlap>>,
         \E step \in Steps : Go(p, step) /\ (~overlap => Quiet(p, step))
  PROVE  Inv'
<1>1. PICK step \in Steps : Go(p, step) /\ (~overlap => Quiet(p, step))
  OBVIOUS
<1>2. /\ sock' = sock /\ pidFile' = pidFile
      /\ sock \in Procs \cup {None} /\ pidFile \in Procs \cup {None}
  BY DEF files, Inv, Types
<1>3. ~overlap => Fits(p, step)
  BY <1>1, <1>2 DEF Fits, FitsFiles, Quiet, Inv, Apart, Files, SockLeft
<1> QED
  BY <1>1, <1>2, <1>3, StepInv

LEMMA DyingInv ==
  ASSUME Inv, NEW p \in Procs, Go(p, "dead"), UNCHANGED <<files, cli, overlap>>
  PROVE  Inv'
<1>1. "dead" \in Steps /\ Quiet(p, "dead")
  BY DEF Quiet, Steps, Critical, Held, Left, Up, Serving, Starting
<1> QED
  BY <1>1, QuietInv

\* The steps that leave the files alone.
LEMMA LookingInv ==
  ASSUME Inv, NEW p \in Procs,
         \/ InnerCheck(p) \/ Stat(p) \/ GuardDial(p) \/ Listen(p) \/ Close(p)
         \/ Signal(p) \/ IdleExit(p) \/ BeginStop(p) \/ Crash(p)
  PROVE  Inv'
<1> USE DEF Critical, Held, Left, Up, Serving, Starting, Exiting, Steps
<1>1. UNCHANGED <<files, cli, overlap>>
  BY DEF InnerCheck, Stat, GuardDial, Listen, Close, Signal, IdleExit, BeginStop, Crash, others
<1>2. CASE Go(p, "dead")
  BY <1>1, <1>2, DyingInv
<1>3. CASE InnerCheck(p) /\ Go(p, "stat")
  BY <1>1, <1>3, QuietInv DEF InnerCheck, Quiet
<1>4. CASE Stat(p)
  <2>1. PICK step \in {"bind", "dial"} : Go(p, step)
    BY <1>4 DEF Stat
  <2>2. Quiet(p, step)
    BY <1>4, <2>1 DEF Stat, Quiet
  <2> QED
    BY <1>1, <2>1, <2>2, QuietInv
\* Nobody answers at the socket, so nobody serves: it would be at its own socket.
<1>5. CASE GuardDial(p) /\ Go(p, "remove")
  <2>1. ~overlap => \A q \in Procs : proc[q] \notin Serving
    <3>1. ~Dialable
      BY <1>5 DEF GuardDial, Go, Inv, Types
    <3> QED
      BY <3>1, ProcsFacts DEF Dialable, Listening, Inv, Apart, Files, SockHeld
  <2>2. ~overlap => Quiet(p, "remove")
    BY <1>5, <2>1 DEF GuardDial, Quiet
  <2> QED
    BY <1>1, <1>5, <2>2, QuietInv
<1>6. CASE Listen(p)
  <2>1. ~overlap => Quiet(p, "writepid")
    BY <1>6 DEF Listen, Quiet, Inv, Apart, Files, SockHeld
  <2> QED
    BY <1>1, <1>6, <2>1, QuietInv DEF Listen
<1>7. CASE Close(p)
  <2>1. ~overlap => Quiet(p, "removeagain")
    BY <1>7 DEF Close, Quiet, Inv, Apart, Files, SockLeft
  <2> QED
    BY <1>1, <1>7, <2>1, QuietInv DEF Close
<1>8. CASE Signal(p)
  <2>1. ~overlap => Quiet(p, "stopping")
    BY <1>8 DEF Signal, Quiet, Inv, Apart, Files, SockHeld, PidHeld
  <2> QED
    BY <1>1, <1>8, <2>1, QuietInv DEF Signal
<1>9. CASE IdleExit(p)
  <2>1. ~overlap => Quiet(p, "idlerm")
    BY <1>9 DEF IdleExit, Quiet, Inv, Apart, Files, SockHeld
  <2> QED
    BY <1>1, <1>9, <2>1, QuietInv DEF IdleExit
<1>10. CASE BeginStop(p)
  <2>1. ~overlap => Quiet(p, "unlink")
    BY <1>10 DEF BeginStop, Quiet, Inv, Apart, Files, SockHeld
  <2> QED
    BY <1>1, <1>10, <2>1, QuietInv DEF BeginStop
<1> QED
  BY <1>2, <1>3, <1>4, <1>5, <1>6, <1>7, <1>8, <1>9, <1>10 DEF InnerCheck, GuardDial, Crash

\* The steps that create, write or remove a file.
LEMMA TouchingInv ==
  ASSUME Inv, NEW p \in Procs,
         \/ RemoveDead(p) \/ Bind(p) \/ WritePIDFile(p) \/ Unlink(p) \/ RemoveAgain(p)
         \/ RemovePIDFile(p)
  PROVE  Inv'
<1> USE DEF Critical, Held, Left, Up, Serving, Starting, Exiting, Steps
<1>1. UNCHANGED <<cli, overlap>> /\ sock \in Procs \cup {None} /\ pidFile \in Procs \cup {None}
  BY DEF RemoveDead, Bind, WritePIDFile, Unlink, RemoveAgain, RemovePIDFile, others, Inv, Types
<1> USE DEF Fits, FitsFiles, Inv, Apart, Files
<1>2. CASE RemoveDead(p)
  <2>1. ~overlap => Fits(p, "bind")
    BY <1>2, ProcsFacts DEF RemoveDead, OneTouches, SockHeld, DeadSock
  <2> QED
    BY <1>1, <1>2, <2>1, StepInv DEF RemoveDead
<1>3. CASE Bind(p) /\ sock = None
  <2>1. ~overlap => Fits(p, "listen")
    BY <1>3, ProcsFacts DEF Bind, OneTouches, SockHeld
  <2> QED
    BY <1>1, <1>3, <2>1, StepInv DEF Bind
<1>4. CASE Bind(p) /\ sock # None
  BY <1>1, <1>4, DyingInv DEF Bind, files
<1>5. CASE WritePIDFile(p)
  <2>1. ~overlap => Fits(p, "serve")
    BY <1>5 DEF WritePIDFile, SockHeld, SockLeft
  <2> QED
    BY <1>1, <1>5, <2>1, StepInv DEF WritePIDFile
<1>6. CASE Unlink(p)
  <2>1. ~overlap => Fits(p, "close")
    BY <1>6 DEF Unlink, SockHeld
  <2> QED
    BY <1>1, <1>6, <2>1, StepInv DEF Unlink
<1>7. CASE RemoveAgain(p)
  <2>1. ~overlap => Fits(p, "rmpid")
    BY <1>7, ProcsFacts DEF RemoveAgain, SockHeld, SockLeft
  <2> QED
    BY <1>1, <1>7, <2>1, StepInv DEF RemoveAgain
<1>8. CASE RemovePIDFile(p)
  <2>1. ~overlap => Fits(p, "dead")
    BY <1>8, ProcsFacts DEF RemovePIDFile, SockHeld, SockLeft
  <2> QED
    BY <1>1, <1>8, <2>1, StepInv DEF RemovePIDFile
<1> QED
  BY <1>2, <1>3, <1>4, <1>5, <1>6, <1>7, <1>8

-----------------------------------------------------------------------------
(* A command takes a step *)

\* What the record of a command must be.
CliOK(new) ==
  /\ new \in CliType
  /\ new.pc \in Talking => new.target \in Procs
  /\ new.pc \in TakeoverSteps => new.kind = "takeover"
  /\ new.pc = "check" => new.kind \in Kinds

LEMMA CliTypes ==
  ASSUME Inv, NEW c \in Clis, NEW new, cli' = [cli EXCEPT ![c] = new], CliOK(new),
         UNCHANGED overlap, proc' \in [Procs -> Steps],
         sock' \in Procs \cup {None}, pidFile' \in Procs \cup {None}
  PROVE  Types'
BY DEF Inv, Types, CliOK

\* While one command runs no other one is a takeover, or it is alone itself.
LEMMA OnlyMe ==
  ASSUME Inv, ~overlap, NEW c \in Clis, NEW new, cli[c].pc # "idle",
         cli' = [cli EXCEPT ![c] = new], CliOK(new), new.pc # "check",
         new.pc # "idle" => new.kind = cli[c].kind,
         new.pc \in TakeoverSteps => \A p \in Procs : proc'[p] \notin Starting,
         new.pc \in {"list", "kill"} => \A p \in Procs : p # new.target => proc'[p] \notin Up,
         new.pc = "remove" => \A p \in Procs : proc'[p] \notin Up
  PROVE  Takeovers'
<1>1. cli'[c] = new /\ \A o \in Clis : o # c => cli'[o] = cli[o]
  BY DEF Inv, Types
<1>2. Alone /\ Types
  BY DEF Inv, Apart, Takeovers
<1>3. \A o \in Clis : o # c => ~Takes(o)
  BY <1>2 DEF Alone
<1>4. \A o \in Clis : o # c => cli[o].pc \notin TakeoverSteps
  BY <1>2, <1>3 DEF Takes, Types, TakeoverSteps
<1>5. Alone'
  BY <1>1, <1>2, <1>3 DEF Alone, Takes
<1>6. NobodyStarts'
  BY <1>1, <1>3 DEF NobodyStarts, Takes
<1>7. TargetOnly'
  BY <1>1, <1>4 DEF TargetOnly, TakeoverSteps
<1> QED
  BY <1>5, <1>6, <1>7 DEF Takeovers

LEMMA FilesStay == ASSUME Inv, ~overlap, UNCHANGED <<files, proc>> PROVE Files'
BY DEF Inv, Apart, Files, OneTouches, SockHeld, SockLeft, DeadSock, PidHeld, files

\* A step of a command that changes nothing but itself.
LEMMA CliOnlyInv ==
  ASSUME Inv, NEW c \in Clis, NEW new, cli[c].pc # "idle",
         cli' = [cli EXCEPT ![c] = new], CliOK(new), new.pc # "check",
         UNCHANGED <<files, proc, overlap>>,
         new.pc # "idle" => new.kind = cli[c].kind,
         ~overlap =>
           /\ new.pc \in TakeoverSteps => \A p \in Procs : proc[p] \notin Starting
           /\ new.pc \in {"list", "kill"} => \A p \in Procs : p # new.target => proc[p] \notin Up
           /\ new.pc = "remove" => \A p \in Procs : proc[p] \notin Up
  PROVE  Inv'
<1>1. Types'
  BY CliTypes DEF Inv, Types, files
<1>2. ~overlap => Files' /\ Takeovers'
  BY FilesStay, OnlyMe
<1> QED
  BY <1>1, <1>2 DEF Inv, Apart

LEMMA NoCommandOK == CliOK(NoCommand) /\ NoCommand.pc = "idle"
BY DEF CliOK, NoCommand, CliType, CliSteps, TakeoverSteps, Talking

LEMMA StepOK ==
  ASSUME Inv, NEW c \in Clis, NEW pc \in CliSteps \ Talking,
         pc \in TakeoverSteps => cli[c].kind = "takeover",
         pc = "check" => cli[c].kind \in Kinds
  PROVE  LET new == [cli[c] EXCEPT !.pc = pc]
         IN  CliOK(new) /\ new.pc = pc /\ new.kind = cli[c].kind
<1>1. cli[c] \in CliType
  BY DEF Inv, Types
<1> QED
  BY <1>1 DEF CliOK, CliType

\* A command ends, or goes on to a step that asks nothing of the daemons.
LEMMA EndInv ==
  ASSUME Inv, NEW c \in Clis, cli[c].pc # "idle", End(c), UNCHANGED <<files, proc, overlap>>
  PROVE  Inv'
<1>1. NoCommand.pc \notin TakeoverSteps
  BY NoCommandOK DEF TakeoverSteps
<1> QED
  BY <1>1, NoCommandOK, CliOnlyInv DEF End, TakeoverSteps

LEMMA GoOnInv ==
  ASSUME Inv, NEW c \in Clis, cli[c].pc # "idle", UNCHANGED <<files, proc, overlap>>,
         NEW pc \in {"spawn", "sleep", "send", "stop"}, Step(c, pc)
  PROVE  Inv'
<1> DEFINE new == [cli[c] EXCEPT !.pc = pc]
<1>1. CliOK(new) /\ new.pc = pc /\ new.kind = cli[c].kind
  BY StepOK DEF CliSteps, TakeoverSteps, Talking
<1>2. cli' = [cli EXCEPT ![c] = new]
  BY DEF Step
<1> HIDE DEF new
<1> QED
  BY <1>1, <1>2, CliOnlyInv DEF TakeoverSteps

LEMMA BeginInv ==
  ASSUME Inv, NEW c \in Clis, NEW kind \in Kinds, Begin(c, kind)
  PROVE  Inv'
<1> DEFINE new == [NoCommand EXCEPT !.pc = "check", !.kind = kind]
<1>1. new \in CliType /\ new.pc = "check" /\ new.kind = kind
  BY NoCommandOK DEF CliOK, CliType, CliSteps
<1>2. cli' = [cli EXCEPT ![c] = new] /\ UNCHANGED <<files, proc, overlap>>
  BY DEF Begin
<1> HIDE DEF new
<1>3. CliOK(new)
  BY <1>1 DEF CliOK, TakeoverSteps, Talking
<1>4. Types'
  BY <1>2, <1>3, CliTypes DEF Inv, Types, files
<1>5. cli'[c] = new /\ \A o \in Clis : o # c => cli'[o] = cli[o]
  BY <1>2 DEF Inv, Types
<1>6. CASE ~overlap
  <2>1. MayBegin(kind) /\ Alone /\ NobodyStarts /\ TargetOnly
    BY <1>6 DEF Begin, Inv, Apart, Takeovers
  <2>2. Alone'
    BY <1>1, <1>5, <1>6, <2>1 DEF Alone, Takes, MayBegin
  <2>3. NobodyStarts'
    BY <1>1, <1>2, <1>5, <1>6, <2>1 DEF NobodyStarts, Takes, MayBegin
  <2>4. TargetOnly'
    BY <1>1, <1>2, <1>5, <2>1 DEF TargetOnly
  <2> QED
    BY <1>2, <1>4, <1>6, <2>2, <2>3, <2>4, FilesStay DEF Inv, Apart, Takeovers
<1> QED
  BY <1>2, <1>4, <1>6 DEF Inv

\* A takeover comes to a step of its own with the daemons as they are.
LEMMA TakeoverStepInv ==
  ASSUME Inv, NEW c \in Clis, Takes(c), cli[c].pc \in TakeoverSteps \cup {"check"},
         UNCHANGED <<files, proc, overlap>>, NEW new, cli' = [cli EXCEPT ![c] = new],
         CliOK(new), new.pc \in {"export", "list", "kill", "recheck"}, new.kind = cli[c].kind,
         new.pc \in {"list", "kill"} /\ ~overlap => \A p \in Procs : p # new.target => proc[p] \notin Up
  PROVE  Inv'
<1>1. ~overlap => \A p \in Procs : proc[p] \notin Starting
  BY DEF Inv, Apart, Takeovers, NobodyStarts
<1> QED
  BY <1>1, CliOnlyInv DEF Takes

LEMMA CheckInv ==
  ASSUME Inv, NEW c \in Clis, Check(c)
  PROVE  Inv'
<1>1. /\ cli[c].pc = "check" /\ UNCHANGED <<files, proc, overlap>>
      /\ cli[c].kind \in {"start", "stop", "takeover"}
  BY SingletonAssumption DEF Check, Inv, Types
<1>2. CASE \E pc \in {"spawn", "send", "stop"} : Step(c, pc)
  BY <1>1, <1>2, GoOnInv
<1>3. CASE End(c)
  BY <1>1, <1>3, EndInv
<1>4. CASE cli[c].kind = "takeover" /\ Step(c, "export")
  <2> DEFINE new == [cli[c] EXCEPT !.pc = "export"]
  <2>1. CliOK(new) /\ new.pc = "export" /\ new.kind = cli[c].kind
    BY <1>4, StepOK DEF CliSteps, TakeoverSteps, Talking
  <2>2. cli' = [cli EXCEPT ![c] = new]
    BY <1>4 DEF Step
  <2> HIDE DEF new
  <2> QED
    BY <1>1, <1>4, <2>1, <2>2, TakeoverStepInv DEF Takes
<1> QED
  BY <1>1, <1>2, <1>3, <1>4 DEF Check

LEMMA SpawnInv ==
  ASSUME Inv, NEW c \in Clis, Spawn(c)
  PROVE  Inv'
<1>1. cli[c].pc = "spawn" /\ UNCHANGED <<files, overlap>> /\ Step(c, "sleep")
  BY DEF Spawn
<1>2. CASE UNCHANGED proc
  BY <1>1, <1>2, GoOnInv
<1>3. ASSUME NEW p \in 1..Limits[overlap].procs, proc[p] = "none", Go(p, "inner")
      PROVE  Inv'
  <2> DEFINE new == [cli[c] EXCEPT !.pc = "sleep"]
  <2>1. CliOK(new) /\ new.pc = "sleep" /\ new.kind = cli[c].kind
    BY StepOK DEF CliSteps, TakeoverSteps, Talking
  <2>2. cli' = [cli EXCEPT ![c] = new]
    BY <1>1 DEF Step
  <2> HIDE DEF new
  <2>3. p \in Procs /\ "inner" \in Steps
    BY ProcsFacts DEF Inv, Types, Steps, Starting
  <2>4. Types'
    BY <1>1, <1>3, <2>1, <2>2, <2>3, CliTypes DEF Go, Inv, Types, files
  <2>5. ~overlap => FitsFiles(p, "inner")
    BY <1>1 DEF FitsFiles, files, Inv, Apart, Files, SockLeft, Critical, Held, Left, Serving, Up
  <2>6. ~overlap => Takeovers'
    BY <1>1, <2>1, <2>2, OnlyMe DEF TakeoverSteps
  <2> QED
    BY <1>1, <1>3, <2>3, <2>4, <2>5, <2>6, FilesFit DEF Inv, Apart, files
<1>4. CASE \E p \in 1..Limits[overlap].procs :
             (\A q \in Procs : proc[q] = "none" <=> q >= p) /\ Go(p, "inner")
  <2>1. PICK p \in 1..Limits[overlap].procs :
          (\A q \in Procs : proc[q] = "none" <=> q >= p) /\ Go(p, "inner")
    BY <1>4
  <2>2. p \in Procs /\ p >= p
    BY ProcsFacts DEF Inv, Types
  <2>3. proc[p] = "none"
    BY <2>1, <2>2
  <2> QED
    BY <1>3, <2>1, <2>3
<1> QED
  BY <1>2, <1>4 DEF Spawn

\* A daemon is told to stop; a starting one writes its PID file first.
LEMMA StoppedFits ==
  ASSUME Inv, ~overlap, NEW p \in Procs, UNCHANGED sock,
         \/ proc[p] = "serve" /\ pidFile' = pidFile
         \/ proc[p] = "writepid" /\ pidFile' = p
  PROVE  FitsFiles(p, "stopping")
BY DEF FitsFiles, Inv, Apart, Files, SockHeld, SockLeft, PidHeld, Critical, Held, Left, Serving, Up

\* What is left of a stop once the daemon has been told.
LEMMA TellInv ==
  ASSUME Inv, NEW c \in Clis, cli[c].pc = "stop", NEW p \in Procs,
         cli' = [cli EXCEPT ![c].pc = "wait", ![c].target = p], UNCHANGED <<sock, overlap>>,
         \/ UNCHANGED <<proc, pidFile>>
         \/ /\ Go(p, "stopping")
            /\ \/ proc[p] = "serve" /\ pidFile' = pidFile
               \/ proc[p] = "writepid" /\ pidFile' = p
  PROVE  Inv'
<1> DEFINE new == [cli[c] EXCEPT !.pc = "wait", !.target = p]
<1>1. cli[c] \in CliType
  BY DEF Inv, Types
<1>2. new \in CliType /\ new.pc = "wait" /\ new.target = p /\ new.kind = cli[c].kind
  BY <1>1 DEF CliType, CliSteps
<1>3. cli' = [cli EXCEPT ![c] = new]
  OBVIOUS
<1> HIDE DEF new
<1>4. CliOK(new)
  BY <1>2 DEF CliOK, TakeoverSteps
<1>5. ~overlap => Takeovers'
  BY <1>2, <1>3, <1>4, OnlyMe DEF TakeoverSteps
<1>6. "stopping" \in Steps
  BY DEF Steps, Exiting
<1>7. ~overlap => Files'
  BY <1>6, StoppedFits, FilesFit, FilesStay DEF files
<1>8. proc' \in [Procs -> Steps]
  BY <1>6 DEF Inv, Types, Go
<1>9. sock' \in Procs \cup {None} /\ pidFile' \in Procs \cup {None}
  BY DEF Inv, Types
<1>10. Types'
  BY <1>3, <1>4, <1>8, <1>9, CliTypes
<1> QED
  BY <1>5, <1>7, <1>10 DEF Inv, Apart

LEMMA StopInv ==
  ASSUME Inv, NEW c \in Clis, SendStop(c) \/ StopByPid(c)
  PROVE  Inv'
<1>1. cli[c].pc = "stop" /\ UNCHANGED <<sock, overlap>>
  BY DEF SendStop, StopByPid, files
<1>2. CASE SendStop(c)
  <2>1. sock \in Procs
    BY <1>2 DEF SendStop, Dialable, Inv, Types
  <2>2. CASE proc[sock] \in {"serve", "writepid"}
    BY <1>1, <1>2, <2>1, <2>2, TellInv DEF SendStop, Go
  <2>3. CASE proc[sock] \notin {"serve", "writepid"}
    BY <1>1, <1>2, <2>1, <2>3, TellInv DEF SendStop
  <2> QED
    BY <2>2, <2>3
<1>3. CASE StopByPid(c) /\ End(c) /\ UNCHANGED proc
  BY <1>1, <1>3, EndInv DEF StopByPid
<1>4. CASE StopByPid(c) /\ pidFile # None /\ proc[pidFile] \notin {"none", "dead"}
  <2>1. pidFile \in Procs
    BY <1>4 DEF Inv, Types
  <2> QED
    BY <1>1, <1>4, <2>1, TellInv DEF StopByPid, files
<1> QED
  BY <1>2, <1>3, <1>4 DEF StopByPid

\* A start command has found its daemon.
LEMMA SendStartInv ==
  ASSUME Inv, NEW c \in Clis, SendStart(c)
  PROVE  Inv'
<1>1. cli[c].pc = "send" /\ UNCHANGED <<files, proc, overlap>>
  BY DEF SendStart
<1>2. CASE End(c)
  BY <1>1, <1>2, EndInv
<1>3. CASE Dialable /\ cli' = [cli EXCEPT ![c].pc = "answer", ![c].target = sock]
  <2> DEFINE new == [cli[c] EXCEPT !.pc = "answer", !.target = sock]
  <2>1. cli[c] \in CliType /\ sock \in Procs
    BY <1>3 DEF Inv, Types, Dialable
  <2>2. new \in CliType /\ new.pc = "answer" /\ new.target = sock /\ new.kind = cli[c].kind
    BY <2>1 DEF CliType, CliSteps
  <2>3. cli' = [cli EXCEPT ![c] = new]
    BY <1>3
  <2> HIDE DEF new
  <2>4. CliOK(new)
    BY <2>1, <2>2 DEF CliOK, TakeoverSteps
  <2> QED
    BY <1>1, <2>2, <2>3, <2>4, CliOnlyInv DEF TakeoverSteps
<1> QED
  BY <1>2, <1>3 DEF SendStart

LEMMA ExportInv ==
  ASSUME Inv, NEW c \in Clis, Export(c)
  PROVE  Inv'
<1>1. cli[c].pc = "export" /\ UNCHANGED <<files, proc, overlap>> /\ Takes(c)
  BY DEF Export, Takes, Inv, Types, TakeoverSteps
<1>2. CASE End(c)
  BY <1>1, <1>2, EndInv
<1>3. CASE Dialable /\ cli' = [cli EXCEPT ![c].pc = "list", ![c].target = sock]
  <2> DEFINE new == [cli[c] EXCEPT !.pc = "list", !.target = sock]
  <2>1. cli[c] \in CliType /\ sock \in Procs
    BY <1>3 DEF Inv, Types, Dialable
  <2>2. new \in CliType /\ new.pc = "list" /\ new.target = sock /\ new.kind = cli[c].kind
    BY <2>1 DEF CliType, CliSteps
  <2>3. cli' = [cli EXCEPT ![c] = new]
    BY <1>3
  <2> HIDE DEF new
  <2>4. CliOK(new)
    BY <1>1, <2>1, <2>2 DEF CliOK, TakeoverSteps, Takes
  <2>5. ~overlap => \A p \in Procs : p # new.target => proc[p] \notin Up
    BY <2>2 DEF Inv, Apart, Files, SockHeld, Held
  <2> QED
    BY <1>1, <2>2, <2>3, <2>4, <2>5, TakeoverStepInv DEF TakeoverSteps
<1> QED
  BY <1>2, <1>3 DEF Export

\* The daemon that answered a takeover is still the only one there is.
LEMMA ExportedInv ==
  ASSUME Inv, NEW c \in Clis, Exported(c)
  PROVE  Inv'
<1>1. cli[c].pc = "list" /\ UNCHANGED <<files, proc, overlap>> /\ Takes(c)
  BY DEF Exported, Takes, Inv, Types, TakeoverSteps
<1>2. CASE End(c)
  BY <1>1, <1>2, EndInv
<1>3. CASE Step(c, "kill")
  <2> DEFINE new == [cli[c] EXCEPT !.pc = "kill"]
  <2>1. cli[c] \in CliType /\ cli[c].target \in Procs
    BY <1>1 DEF Inv, Types, Talking
  <2>2. /\ new \in CliType /\ new.pc = "kill" /\ new.target = cli[c].target
        /\ new.kind = cli[c].kind
    BY <2>1 DEF CliType, CliSteps
  <2>3. cli' = [cli EXCEPT ![c] = new]
    BY <1>3 DEF Step
  <2> HIDE DEF new
  <2>4. CliOK(new)
    BY <1>1, <2>1, <2>2 DEF CliOK, TakeoverSteps, Takes
  <2>5. ~overlap => \A p \in Procs : p # new.target => proc[p] \notin Up
    BY <1>1, <2>2 DEF Inv, Apart, Takeovers, TargetOnly
  <2> QED
    BY <1>1, <2>2, <2>3, <2>4, <2>5, TakeoverStepInv DEF TakeoverSteps
<1> QED
  BY <1>2, <1>3 DEF Exported

LEMMA KillInv ==
  ASSUME Inv, NEW c \in Clis, Kill(c)
  PROVE  Inv'
<1> DEFINE new == [cli[c] EXCEPT !.pc = "remove"]
<1>1. /\ cli[c].pc = "kill" /\ UNCHANGED <<files, overlap>> /\ cli[c].target \in Procs
      /\ cli[c].kind = "takeover"
  BY DEF Kill, Inv, Types, TakeoverSteps, Talking
<1>2. PICK p \in Procs : p = cli[c].target
  BY <1>1
<1>3. Go(p, "dead") /\ "dead" \in Steps
  BY <1>2 DEF Kill, Steps
<1>4. proc'[p] = "dead" /\ \A q \in Procs : q # p => proc'[q] = proc[q]
  BY <1>3 DEF Go, Inv, Types
<1>5. CliOK(new) /\ new.pc = "remove" /\ new.kind = cli[c].kind
  BY <1>1, StepOK DEF CliSteps, TakeoverSteps, Talking
<1>6. cli' = [cli EXCEPT ![c] = new]
  BY DEF Kill, Step
<1> HIDE DEF new
<1>7. Types'
  BY <1>1, <1>3, <1>5, <1>6, CliTypes DEF Go, Inv, Types, files
<1>8. ~overlap => FitsFiles(p, "dead")
  BY <1>1 DEF FitsFiles, files, Inv, Apart, Files, SockLeft, Critical, Held, Left, Serving, Up
<1>9. ~overlap => \A q \in Procs : proc'[q] \notin Up
  BY <1>1, <1>2, <1>4 DEF Inv, Apart, Takeovers, TargetOnly, Up
<1>10. ~overlap => \A q \in Procs : proc'[q] \notin Starting
  BY <1>1, <1>4 DEF Inv, Apart, Takeovers, NobodyStarts, Takes, TakeoverSteps, Starting
<1>11. ~overlap => Takeovers'
  BY <1>1, <1>5, <1>6, <1>9, <1>10, OnlyMe
<1> QED
  BY <1>1, <1>3, <1>7, <1>8, <1>11, FilesFit DEF Inv, Apart

LEMMA TakeoverRemoveInv ==
  ASSUME Inv, NEW c \in Clis, TakeoverRemove(c)
  PROVE  Inv'
<1> DEFINE new == [cli[c] EXCEPT !.pc = "recheck"]
<1>1. /\ cli[c].pc = "remove" /\ UNCHANGED <<pidFile, proc, overlap>> /\ sock' = None
      /\ cli[c].kind = "takeover"
  BY DEF TakeoverRemove, Inv, Types, TakeoverSteps
<1>2. CliOK(new) /\ new.pc = "recheck" /\ new.kind = cli[c].kind
  BY <1>1, StepOK DEF CliSteps, TakeoverSteps, Talking
<1>3. cli' = [cli EXCEPT ![c] = new]
  BY DEF TakeoverRemove, Step
<1> HIDE DEF new
<1>4. Types'
  BY <1>1, <1>2, <1>3, CliTypes DEF Inv, Types
<1>5. ~overlap => \A q \in Procs : proc[q] \notin Starting
  BY <1>1 DEF Inv, Apart, Takeovers, NobodyStarts, Takes, TakeoverSteps
<1>6. ~overlap => \A q \in Procs : proc[q] \notin Up
  BY <1>1 DEF Inv, Apart, Takeovers, TargetOnly
<1>7. ~overlap => Takeovers'
  BY <1>1, <1>2, <1>3, <1>5, OnlyMe DEF TakeoverSteps
<1>8. ~overlap => Files'
  BY <1>1, <1>5, <1>6 DEF Inv, Apart, Files, OneTouches, SockHeld, SockLeft, DeadSock, PidHeld,
                          Held, Starting
<1> QED
  BY <1>1, <1>4, <1>7, <1>8 DEF Inv, Apart

LEMMA CommandInv ==
  ASSUME Inv, NEW c \in Clis, Command(c)
  PROVE  Inv'
<1>1. CASE Wake(c) \/ Recheck(c)
  <2>1. PICK pc \in {"send", "spawn"} : Step(c, pc)
    BY <1>1 DEF Wake, Recheck
  <2> QED
    BY <1>1, <2>1, GoOnInv DEF Wake, Recheck
<1>2. CASE Answered(c) \/ WaitGone(c)
  BY <1>2, EndInv DEF Answered, WaitGone
<1> QED
  BY <1>1, <1>2, CheckInv, SpawnInv, SendStartInv, StopInv, ExportInv, ExportedInv, KillInv,
     TakeoverRemoveInv DEF Command

\* Nothing the invariant speaks of changes: processLoop hangs, or nothing happens.
LEMMA StutterInv == ASSUME Inv, UNCHANGED <<files, proc, cli, overlap>> PROVE Inv'
<1>1. Types'
  BY DEF Inv, Types, files
<1>2. ~overlap => Takeovers'
  BY <1>1 DEF Inv, Apart, Takeovers, Alone, NobodyStarts, TargetOnly, Takes
<1> QED
  BY <1>1, <1>2, FilesStay DEF Inv, Apart

LEMMA NextInv == Inv /\ [Next]_vars => Inv'
<1> SUFFICES ASSUME Inv, [Next]_vars PROVE Inv'
  OBVIOUS
<1>1. ASSUME NEW p \in Procs, Process(p) \/ Signal(p) \/ IdleExit(p) \/ Crash(p) \/ Hang(p)
      PROVE  Inv'
  BY <1>1, LookingInv, TouchingInv, StutterInv DEF Process, Hang
<1>2. ASSUME NEW c \in Clis, Command(c) \/ \E kind \in Kinds : Begin(c, kind)
      PROVE  Inv'
  BY <1>2, CommandInv, BeginInv
<1>3. CASE UNCHANGED vars
  BY <1>3, StutterInv DEF vars, files
<1> QED
  BY <1>1, <1>2, <1>3 DEF Next

-----------------------------------------------------------------------------
(* The theorems *)

\* Where no two daemons are at the files at the same time, one serves at most:
\* the guard of StartServer works through any number of crashes, stops, idle exits
\* and takeovers (transport_unix.go:28).
THEOREM OneDaemonServes == Spec => []OneDaemonApart
<1>1. Inv => OneDaemonApart
  BY InvImplies
<1> QED
  BY <1>1, InvInit, NextInv, PTL DEF Spec

\* There, the socket and the PID file are always those of the daemon that serves:
\* neither an exiting daemon nor a takeover removes another one's files
\* (transport_unix.go:33, platform_unix.go:19, main.go:1259).
THEOREM ServingDaemonIsReachable == Spec => []ServingIsReachable
<1>1. Inv => ServingIsReachable
  BY InvImplies
<1> QED
  BY <1>1, InvInit, NextInv, PTL DEF Spec
=============================================================================
