----------------------------- MODULE DataPlane ------------------------------
(***************************************************************************)
(* How visitors' connections are opened: the forwarded-tcpip channels of    *)
(* setupTCPForward (base_tunnel/tunnel.go) and the QUIC data plane          *)
(* (base_tunnel/data_plane.go), in which the server asks with DATA_OPEN and *)
(* gets a stream with the connection's id or a DATA_ERROR.  At most one     *)
(* connection, main, is then followed through handleChannel (Channel).      *)
(***************************************************************************)
EXTENDS Channel, FiniteSets

CONSTANTS
  Conns,          \* connections of visitors
  Main, NoConn,
  Vias,           \* how they may come: "channel", "stream"
  DialTimeout,    \* dataPlaneLocalDialTimeout
  ServerTimeout,  \* dataPlaneOpenTimeout of the server
  Latency         \* what a request and its answer take on their way, at most

ASSUME DataPlaneAssumption ==
  /\ Main \in Conns /\ NoConn \notin Conns /\ Vias \subseteq {"channel", "stream"}
  /\ DialTimeout \in Nat /\ ServerTimeout \in Nat /\ Latency \in Nat
  /\ Latency + DialTimeout < ServerTimeout

VARIABLES
  main,     \* the connection whose bytes are followed, then the only one; or NoConn
  opener,   \* the goroutine of each connection
  via,      \* how each connection comes
  sock,     \* connections with a dialled localConn not yet given to handleChannel
  asked,    \* what the server knows of each connection
  age,      \* time since the server asked
  control   \* the control channel of the data plane is open

plane == <<main, opener, via, sock, asked, age, control>>
vars == <<cvars, plane>>

-----------------------------------------------------------------------------
OpenerSteps == {"idle", "queued", "dial", "open", "header", "piping", "ended"}
Answers == {"none", "waiting", "answered", "timeout"}

TypeOK ==
  /\ ChannelTypeOK
  /\ main \in {Main, NoConn}
  /\ opener \in [Conns -> OpenerSteps]
  /\ via \in [Conns -> {"channel", "stream"}]
  /\ sock \subseteq Conns
  /\ asked \in [Conns -> Answers]
  /\ age \in [Conns -> 0..ServerTimeout]
  /\ control \in BOOLEAN

Init ==
  /\ ChannelInit
  /\ main \in {Main, NoConn}
  /\ opener = [c \in Conns |-> "idle"]
  /\ via = [c \in Conns |-> "channel"]
  /\ sock = {}
  /\ asked = [c \in Conns |-> "none"]
  /\ age = [c \in Conns |-> 0]
  /\ control = TRUE

Go(c, step) == opener' = [opener EXCEPT ![c] = step]
\* The server hears of c only while it waits, and its clock stops.
Answer(c, a) ==
  /\ asked' = [asked EXCEPT ![c] = IF @ = "waiting" THEN a ELSE @]
  /\ age' = [age EXCEPT ![c] = 0]

-----------------------------------------------------------------------------
(* The server asks *)

Ask(c, v) ==
  /\ opener[c] = "idle" /\ main \in {c, NoConn} /\ sshUp /\ (v = "stream" => control)
  /\ Go(c, "queued")
  /\ via' = [via EXCEPT ![c] = v]
  /\ asked' = [asked EXCEPT ![c] = "waiting"]
  /\ UNCHANGED <<cvars, main, sock, age, control>>

\* It waits dataPlaneOpenTimeout for a stream or an error.
GiveUp(c) ==
  /\ via[c] = "stream" /\ asked[c] = "waiting" /\ age[c] = ServerTimeout
  /\ Answer(c, "timeout")
  /\ UNCHANGED <<cvars, main, opener, via, sock, control>>

-----------------------------------------------------------------------------
(* Opening *)

\* Mutant: the loop dials itself, one connection after the other.
OneByOne(c) ==
  /\ opener[c] = "queued" /\ \A o \in Conns : opener[o] # "dial"
  /\ IF via[c] = "stream" THEN control ELSE ~ctxDone /\ sshUp

\* The loop is there to take the request: run until the control channel ends,
\* the forwarder until connCtx does or the requests end.
Taken(c) ==
  /\ opener[c] = "queued"
  /\ IF via[c] = "stream" THEN control ELSE ~ctxDone /\ sshUp

\* Every request gets a goroutine of its own, which dials the service first.
Dispatch(c) ==
  /\ Taken(c)
  /\ Go(c, "dial")
  /\ UNCHANGED <<cvars, main, via, sock, asked, age, control>>

Dialled(c) ==
  /\ opener[c] = "dial"
  /\ Go(c, "open")
  /\ sock' = sock \cup {c}
  /\ UNCHANGED <<cvars, main, via, asked, age, control>>

\* sendError, or Reject: it reaches the server while there is a connection; if the
\* write fails dp.close closes the control channel.
Report(c) ==
  /\ control' = (control /\ (via[c] = "stream" => sshUp))
  /\ IF sshUp /\ (via[c] = "stream" => control) THEN Answer(c, "answered")
     ELSE UNCHANGED <<asked, age>>

\* Refused, or net.DialTimeout's time is over.
DialFails(c) ==
  /\ opener[c] = "dial"
  /\ Go(c, "ended")
  /\ Report(c)
  /\ UNCHANGED <<cvars, main, via, sock>>

\* Mutant: the stream is opened without a limit of its own and never given up.
OpenFailsNever(c) ==
  /\ opener[c] = "open" /\ via[c] = "channel" /\ ~sshUp
  /\ Go(c, "ended") /\ sock' = sock \ {c} /\ Report(c)
  /\ UNCHANGED <<cvars, main, via>>

\* OpenStreamSync fails: five seconds without a free stream, connCtx or the
\* connection is gone; newCh.Accept fails only for the latter.
OpenFails(c) ==
  /\ opener[c] = "open" /\ (via[c] = "channel" => ~sshUp)
  /\ Go(c, "ended") /\ sock' = sock \ {c} /\ Report(c)
  /\ UNCHANGED <<cvars, main, via>>

\* handleChannel takes over both connections.  A server that has given up closes
\* the late stream.
Hand(c, k) ==
  /\ Go(c, "piping")
  /\ sock' = sock \ {c}
  /\ Answer(c, "answered")
  /\ IF c = main
     THEN /\ handler' = "wait" /\ kind' = k /\ open' = {"local", "ch"}
          /\ remote' = IF asked[c] = "timeout"
                       THEN [remote EXCEPT !.gone = TRUE, !.fin = TRUE, !.end = "cut"]
                       ELSE remote
     ELSE UNCHANGED <<handler, kind, open, remote>>
  /\ UNCHANGED <<sshUp, ctxDone, copyIn, copyOut, once, sent, got, chIn, sockOut,
                 sockIn, chOut, half, app, main, via, control>>

\* newCh.Accept.
Accepted(c) ==
  /\ opener[c] = "open" /\ via[c] = "channel" /\ sshUp
  /\ Hand(c, "channel")

\* OpenStreamSync.
StreamOpened(c) ==
  /\ opener[c] = "open" /\ via[c] = "stream" /\ sshUp /\ ~ctxDone
  /\ Go(c, "header")
  /\ UNCHANGED <<cvars, main, via, sock, asked, age, control>>

HeaderWritten(c) ==
  /\ opener[c] = "header" /\ sshUp
  /\ Hand(c, "stream")

\* Mutant: localConn stays open.
HeaderFailsLeaks(c) ==
  /\ opener[c] = "header" /\ ~sshUp
  /\ Go(c, "ended") /\ Report(c)
  /\ UNCHANGED <<cvars, main, via, sock>>

HeaderFails(c) ==
  /\ opener[c] = "header" /\ ~sshUp
  /\ Go(c, "ended") /\ sock' = sock \ {c} /\ Report(c)
  /\ UNCHANGED <<cvars, main, via>>

\* readDataOpenFrame fails: a frame of another type, or the channel is gone.  Of
\* interest while a connection is being opened.
ControlEnds ==
  /\ control /\ control' = FALSE
  /\ \E c \in Conns : opener[c] \in {"queued", "dial", "open", "header"}
  /\ UNCHANGED <<cvars, main, opener, via, sock, asked, age>>

\* Time passes; a request is taken once it has arrived and a dial gives up when its
\* time is over.
Tick ==
  /\ \E c \in Conns : asked[c] = "waiting" /\ via[c] = "stream" /\ age[c] < ServerTimeout
  /\ \A c \in Conns :
       via[c] = "stream" =>
         /\ ~(Taken(c) /\ age[c] >= Latency)
         /\ ~(opener[c] = "dial" /\ age[c] >= Latency + DialTimeout)
  /\ age' = [c \in Conns |-> IF asked[c] = "waiting" /\ via[c] = "stream"
                                /\ age[c] < ServerTimeout
                             THEN age[c] + 1 ELSE age[c]]
  /\ UNCHANGED <<cvars, main, opener, via, sock, asked, control>>

-----------------------------------------------------------------------------
Opening(c) ==
  \/ Dispatch(c)
  \/ Dialled(c)
  \/ DialFails(c)
  \/ OpenFails(c)
  \/ Accepted(c)
  \/ StreamOpened(c)
  \/ HeaderFails(c)

Opener(c) == Opening(c) \/ HeaderWritten(c)

Next ==
  \/ \E c \in Conns : Opener(c) \/ GiveUp(c) \/ \E v \in Vias : Ask(c, v)
  \/ ControlEnds
  \/ Tick
  \/ ChannelNext /\ UNCHANGED plane

Spec == Init /\ [][Next]_vars

\* Goroutines run; dialling and opening end by their timeouts; a lost tunnel is
\* cancelled and a cancelled one is closed (module Session).  Neither end has to
\* send, read or close, and the header of a stream, which is written without a
\* deadline, may wait for the server as long as the tunnel stands.
FairSpec ==
  /\ Spec
  /\ \A c \in Conns : WF_vars(Opening(c))
  /\ WF_vars((ReadIn \/ WriteIn) /\ UNCHANGED plane)
  /\ WF_vars((ReadOut \/ WriteOut \/ WritePayload) /\ UNCHANGED plane)
  /\ WF_vars(Handler /\ UNCHANGED plane)
  /\ WF_vars(~sshUp /\ CtxDone /\ UNCHANGED plane)
  /\ WF_vars(ctxDone /\ SshDown /\ UNCHANGED plane)

-----------------------------------------------------------------------------
(* Properties *)

\* The two goroutines, the shared Once, half closes, linger 0 and the frames of
\* compress.go together are a pipe: nothing is lost, added or ended early unless
\* something failed, or both ends were through (handler.go:15, compress.go:96).
ImplementsPipe == Service!PSpec

\* "拨号失败应赶在服务端超时前回告" (data_plane.go:36): when the server gives up, the
\* connection is not one whose service is still being dialled, however many others
\* are being dialled at the same time, as long as requests and answers travel in
\* less than what the two timeouts leave between them (data_plane.go:38).
TimeoutIsNotDial ==
  \A c \in Conns : asked[c] = "timeout" /\ control => opener[c] \notin {"queued", "dial"}

\* Every dialled connection to the service is closed on every way out of the
\* opener and of handleChannel (data_plane.go:160-193, tunnel.go:155-193).
NoSocketLeak ==
  /\ \A c \in sock : opener[c] \in {"open", "header"}
  /\ handler = "returned" => open = {}

AppKeepsReading == WF_vars((AppReads \/ AppReadsEnd) /\ UNCHANGED plane)
RemoteKeepsReading == WF_vars((RemoteReads \/ RemoteReadsEnd) /\ UNCHANGED plane)

\* The end of one side reaches the other if that other side reads, whether or not
\* the first one reads itself: nobody waits for more of what has ended.
EndsPropagate ==
  /\ AppKeepsReading => ((handler = "wait" /\ remote.fin) ~> app.end # "none")
  /\ RemoteKeepsReading => ((handler = "wait" /\ app.fin) ~> remote.end # "none")

\* A cancelled tunnel leaves no handler and no goroutine behind, although a Read
\* or Write may hang in the SSH connection past the five seconds.
CancelEndsCopies ==
  (ctxDone /\ handler # "off") ~> (handler = "returned" /\ copyIn = "done" /\ copyOut = "done")

\* The header of the stream waits for a server that does not take it, in a tunnel
\* that is neither lost nor cancelled (data_plane.go:185 has no deadline).
HeaderWaits(c) == opener[c] = "header" /\ sshUp /\ ~ctxDone

\* Every request the client has taken ends in a running handler or is given up; the
\* only place where it can wait for ever is the header of its stream.
OpenersEnd ==
  \A c \in Conns : opener[c] = "dial" ~> (opener[c] \in {"piping", "ended"} \/ []HeaderWaits(c))
=============================================================================
