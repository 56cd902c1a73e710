-------------------------- MODULE DataPlaneProofs --------------------------
(***************************************************************************)
(* Proofs about DataPlane, for every set of connections, every size of the *)
(* buffers and every timeout: no socket to the local service is left open, *)
(* and the server never gives up on a connection that is being dialled.    *)
(*                                                                         *)
(* NoSocketLeak is not inductive: a forced handler returns later without   *)
(* closing anything, so what it has closed before is part of the invariant. *)
(***************************************************************************)
EXTENDS DataPlane, TLAPS

Owners == {"open", "header"}

\* The sockets belong to openers that are past the dial, and a handler that was
\* forced or has returned has closed its two ends.
LeakInv ==
  /\ opener \in [Conns -> OpenerSteps]
  /\ sock \subseteq Conns
  /\ \A c \in sock : opener[c] \in Owners
  /\ handler \in {"forced", "returned"} => open = {}

LEMMA LeakInit == Init => LeakInv
BY DEF Init, ChannelInit, LeakInv, OpenerSteps

LEMMA LeakImplies == LeakInv => NoSocketLeak
BY DEF LeakInv, NoSocketLeak, Owners

\* An opener that takes or keeps its socket, or gives it away.
LEMMA OpenerMoves ==
  ASSUME LeakInv, NEW c \in Conns, NEW step \in OpenerSteps, Go(c, step),
         \/ sock' = sock \ {c}
         \/ sock' = sock \cup {c} /\ step \in Owners
         \/ sock' = sock /\ (c \in sock => step \in Owners)
  PROVE  /\ opener' \in [Conns -> OpenerSteps]
         /\ sock' \subseteq Conns
         /\ \A o \in sock' : opener'[o] \in Owners
BY DEF LeakInv, Go

LEMMA OpenerKeepsInv ==
  ASSUME LeakInv, NEW c \in Conns, Opener(c)
  PROVE  LeakInv'
<1>1. CASE Dispatch(c)
  <2>1. c \notin sock
    BY <1>1 DEF Dispatch, Taken, LeakInv, Owners
  <2>2. Go(c, "dial") /\ sock' = sock /\ UNCHANGED <<handler, open>>
    BY <1>1 DEF Dispatch, cvars, chan
  <2> QED
    BY <2>1, <2>2, OpenerMoves DEF LeakInv, OpenerSteps
<1>2. CASE Dialled(c)
  <2>1. Go(c, "open") /\ sock' = sock \cup {c} /\ UNCHANGED <<handler, open>>
    BY <1>2 DEF Dialled, cvars, chan
  <2> QED
    BY <2>1, OpenerMoves DEF LeakInv, OpenerSteps, Owners
<1>3. CASE DialFails(c)
  <2>1. c \notin sock
    BY <1>3 DEF DialFails, LeakInv, Owners
  <2>2. Go(c, "ended") /\ sock' = sock /\ UNCHANGED <<handler, open>>
    BY <1>3 DEF DialFails, cvars, chan
  <2> QED
    BY <2>1, <2>2, OpenerMoves DEF LeakInv, OpenerSteps
<1>4. CASE OpenFails(c) \/ HeaderFails(c)
  <2>1. Go(c, "ended") /\ sock' = sock \ {c} /\ UNCHANGED <<handler, open>>
    BY <1>4 DEF OpenFails, HeaderFails, cvars, chan
  <2> QED
    BY <2>1, OpenerMoves DEF LeakInv, OpenerSteps
<1>5. CASE StreamOpened(c)
  <2>1. Go(c, "header") /\ sock' = sock /\ UNCHANGED <<handler, open>>
    BY <1>5 DEF StreamOpened, cvars, chan
  <2> QED
    BY <2>1, OpenerMoves DEF LeakInv, OpenerSteps, Owners
<1>6. ASSUME NEW k, Hand(c, k)
      PROVE  LeakInv'
  <2>1. Go(c, "piping") /\ sock' = sock \ {c}
    BY <1>6 DEF Hand
  <2>2. handler' = "wait" \/ UNCHANGED <<handler, open>>
    BY <1>6 DEF Hand
  <2> QED
    BY <2>1, <2>2, OpenerMoves DEF LeakInv, OpenerSteps
<1> QED
  BY <1>1, <1>2, <1>3, <1>4, <1>5, <1>6 DEF Opener, Opening, Accepted, HeaderWritten

\* The copying goroutines, the two ends and the tunnel leave the handler and what
\* it has open alone; the handler closes before it returns.
LEMMA ChannelKeepsInv ==
  ASSUME LeakInv, ChannelNext, UNCHANGED plane
  PROVE  LeakInv'
<1>1. UNCHANGED <<opener, sock>>
  BY DEF plane
<1>2. CASE Handler
  <2>1. CASE HandlerDone \/ HandlerCancelled
    BY <1>1, <2>1 DEF HandlerDone, HandlerCancelled, LeakInv
  <2>2. CASE HandlerTimeout
    BY <1>1, <2>2 DEF HandlerTimeout, LeakInv
  <2> QED
    BY <1>2, <2>1, <2>2 DEF Handler
<1>3. CASE ~Handler
  <2>1. Goroutines => UNCHANGED <<handler, open>>
    BY DEF Goroutines, ReadIn, WriteIn, ReadOut, WriteOut, WritePayload
  <2>2. Readers => UNCHANGED <<handler, open>>
    BY DEF Readers, AppReads, AppReadsEnd, RemoteReads, RemoteReadsEnd
  <2>3. Environment => UNCHANGED <<handler, open>>
    BY DEF Environment, AppSend, AppChanges, RemoteSend, RemoteChanges, SshDown, CtxDone,
       chan
  <2> QED
    BY <1>1, <1>3, <2>1, <2>2, <2>3 DEF ChannelNext, LeakInv
<1> QED
  BY <1>2, <1>3

LEMMA NextKeepsInv == ASSUME LeakInv, [Next]_vars PROVE LeakInv'
<1>1. ASSUME NEW c \in Conns, Opener(c) PROVE LeakInv'
  BY <1>1, OpenerKeepsInv
<1>2. ASSUME NEW c \in Conns, NEW v \in Vias, Ask(c, v) PROVE LeakInv'
  <2>1. c \notin sock
    BY <1>2 DEF Ask, LeakInv, Owners
  <2>2. Go(c, "queued") /\ sock' = sock /\ UNCHANGED <<handler, open>>
    BY <1>2 DEF Ask, cvars, chan
  <2> QED
    BY <2>1, <2>2, OpenerMoves DEF LeakInv, OpenerSteps
<1>3. ASSUME NEW c \in Conns, GiveUp(c) PROVE LeakInv'
  BY <1>3 DEF GiveUp, LeakInv, cvars, chan
<1>4. CASE ControlEnds \/ Tick
  BY <1>4 DEF ControlEnds, Tick, LeakInv, cvars, chan
<1>5. CASE ChannelNext /\ UNCHANGED plane
  BY <1>5, ChannelKeepsInv
<1>6. CASE UNCHANGED vars
  BY <1>6 DEF vars, plane, cvars, chan, LeakInv
<1> QED
  BY <1>1, <1>2, <1>3, <1>4, <1>5, <1>6 DEF Next

\* openDataStream, setupTCPForward and handleChannel close every connection to the
\* service on each of their ways out, for any number of connections.
THEOREM SocketsClosed == Spec => []NoSocketLeak
<1>1. LeakInv /\ [Next]_vars => LeakInv'
  BY NextKeepsInv
<1> QED
  BY LeakInit, LeakImplies, <1>1, PTL DEF Spec

-----------------------------------------------------------------------------
(* The timeouts *)

PlaneType ==
  /\ opener \in [Conns -> OpenerSteps] /\ via \in [Conns -> {"channel", "stream"}]
  /\ asked \in [Conns -> Answers] /\ age \in [Conns -> Nat]
  /\ control \in BOOLEAN

\* What the server's clock says of connection c: the request is taken as soon as it
\* has arrived, and while the service is dialled the clock is within the dial's own
\* limit and what the request and its answer take on their way.
Clock(c) ==
  /\ opener[c] = "idle" => asked[c] = "none" /\ age[c] = 0
  /\ via[c] = "channel" => age[c] = 0
  /\ opener[c] = "queued" /\ control => age[c] <= Latency
  /\ opener[c] = "dial" => age[c] <= Latency + DialTimeout
  /\ asked[c] = "timeout" /\ control => opener[c] \notin {"queued", "dial"}

TimeInv == PlaneType /\ \A c \in Conns : Clock(c)

LEMMA TimeInit == Init => TimeInv
BY DataPlaneAssumption DEF Init, TimeInv, PlaneType, Clock, OpenerSteps, Answers

LEMMA TimeImplies == TimeInv => TimeoutIsNotDial
BY DEF TimeInv, Clock, TimeoutIsNotDial

\* An answer stops the clock.
LEMMA AnswerFacts ==
  ASSUME TimeInv, NEW c \in Conns, NEW a \in Answers, Answer(c, a)
  PROVE  /\ asked' \in [Conns -> Answers] /\ age' \in [Conns -> Nat]
         /\ age'[c] = 0 /\ asked'[c] = (IF asked[c] = "waiting" THEN a ELSE asked[c])
         /\ \A o \in Conns \ {c} : asked'[o] = asked[o] /\ age'[o] = age[o]
BY DEF TimeInv, PlaneType, Answer

\* sendError and Reject: an answer, or none because there is nobody to hear it.
LEMMA ReportFacts ==
  ASSUME TimeInv, NEW c \in Conns, Report(c)
  PROVE  /\ asked' \in [Conns -> Answers] /\ age' \in [Conns -> Nat]
         /\ control' \in BOOLEAN /\ (control' => control)
         /\ age'[c] = 0 \/ age'[c] = age[c]
         /\ \A o \in Conns \ {c} : asked'[o] = asked[o] /\ age'[o] = age[o]
<1>1. control' \in BOOLEAN /\ (control' => control)
  BY DEF Report, TimeInv, PlaneType
<1>2. CASE Answer(c, "answered")
  BY <1>1, <1>2, AnswerFacts DEF Answers
<1>3. CASE UNCHANGED <<asked, age>>
  BY <1>1, <1>3 DEF TimeInv, PlaneType
<1> QED
  BY <1>2, <1>3 DEF Report

\* An opener beyond the dial leaves only the clock of a channel to look at.
LEMMA BeyondDial ==
  ASSUME TimeInv, NEW c \in Conns, NEW step \in {"open", "header", "piping", "ended"},
         Go(c, step), UNCHANGED via,
         asked' \in [Conns -> Answers], age' \in [Conns -> Nat],
         control' \in BOOLEAN, control' => control,
         age'[c] = 0 \/ age'[c] = age[c],
         \A o \in Conns \ {c} : asked'[o] = asked[o] /\ age'[o] = age[o]
  PROVE  TimeInv'
<1>1. PlaneType'
  BY DEF TimeInv, PlaneType, Go, OpenerSteps
<1>2. opener'[c] = step /\ \A o \in Conns \ {c} : opener'[o] = opener[o]
  BY DEF TimeInv, PlaneType, Go
<1>3. Clock(c)'
  BY <1>2 DEF TimeInv, Clock
<1>4. ASSUME NEW o \in Conns \ {c} PROVE Clock(o)'
  BY <1>2, <1>4 DEF TimeInv, Clock
<1> QED
  BY <1>1, <1>3, <1>4 DEF TimeInv

LEMMA OpenerKeepsTime ==
  ASSUME TimeInv, NEW c \in Conns, Opener(c)
  PROVE  TimeInv'
<1>1. CASE Dispatch(c)
  <2>1. Go(c, "dial") /\ UNCHANGED <<via, asked, age, control>>
    BY <1>1 DEF Dispatch
  <2>2. PlaneType'
    BY <2>1 DEF TimeInv, PlaneType, Go, OpenerSteps
  <2>3. opener'[c] = "dial" /\ \A o \in Conns \ {c} : opener'[o] = opener[o]
    BY <2>1 DEF TimeInv, PlaneType, Go
  <2>4. age[c] \in Nat /\ age[c] <= Latency /\ ~(asked[c] = "timeout" /\ control)
    BY <1>1, DataPlaneAssumption DEF Dispatch, Taken, TimeInv, PlaneType, Clock
  <2>5. Clock(c)'
    BY <2>1, <2>3, <2>4, DataPlaneAssumption DEF TimeInv, Clock
  <2>6. ASSUME NEW o \in Conns \ {c} PROVE Clock(o)'
    BY <2>1, <2>3, <2>6 DEF TimeInv, Clock
  <2> QED
    BY <2>2, <2>5, <2>6 DEF TimeInv
<1>2. ASSUME NEW step \in {"open", "header"}, Go(c, step), UNCHANGED <<via, asked, age, control>>
      PROVE  TimeInv'
  <2>1. asked' \in [Conns -> Answers] /\ age' \in [Conns -> Nat] /\ control' \in BOOLEAN
    BY <1>2 DEF TimeInv, PlaneType
  <2> QED
    BY <1>2, <2>1, BeyondDial
<1>3. CASE Go(c, "ended") /\ Report(c) /\ UNCHANGED via
  BY <1>3, ReportFacts, BeyondDial
<1>4. ASSUME NEW k, Hand(c, k) PROVE TimeInv'
  <2>1. Go(c, "piping") /\ Answer(c, "answered") /\ UNCHANGED <<via, control>>
    BY <1>4 DEF Hand
  <2>2. control' \in BOOLEAN
    BY <2>1 DEF TimeInv, PlaneType
  <2> QED
    BY <2>1, <2>2, AnswerFacts, BeyondDial DEF Answers
<1> QED
  BY <1>1, <1>2, <1>3, <1>4 DEF Opener, Opening, Dialled, DialFails, OpenFails, Accepted,
     StreamOpened, HeaderWritten, HeaderFails

\* A second passes for nobody who is taken or dialled too long.
LEMMA TickKeepsTime == ASSUME TimeInv, Tick PROVE TimeInv'
<1>1. UNCHANGED <<opener, via, asked, control>>
  BY DEF Tick
<1>2. \A c \in Conns :
        age'[c] = IF asked[c] = "waiting" /\ via[c] = "stream" /\ age[c] < ServerTimeout
                  THEN age[c] + 1 ELSE age[c]
  BY DEF Tick
<1>3. PlaneType'
  <2>1. age' \in [Conns -> Nat]
    BY DEF Tick, TimeInv, PlaneType
  <2> QED
    BY <1>1, <2>1 DEF TimeInv, PlaneType
<1>4. ASSUME NEW c \in Conns PROVE Clock(c)'
  <2>1. Clock(c) /\ age[c] \in Nat
    BY DEF TimeInv, PlaneType
  <2>2. CASE age'[c] = age[c]
    BY <1>1, <2>1, <2>2 DEF Clock
  <2>3. CASE age'[c] # age[c]
    <3>1. asked[c] = "waiting" /\ via[c] = "stream" /\ age'[c] = age[c] + 1
      BY <1>2, <2>3
    <3>2. /\ ~(Taken(c) /\ age[c] >= Latency)
          /\ ~(opener[c] = "dial" /\ age[c] >= Latency + DialTimeout)
      BY <3>1 DEF Tick
    <3>3. opener[c] = "queued" /\ control => age'[c] <= Latency
      BY <2>1, <3>1, <3>2, DataPlaneAssumption DEF Taken
    <3>4. opener[c] = "dial" => age'[c] <= Latency + DialTimeout
      BY <2>1, <3>1, <3>2, DataPlaneAssumption
    <3> QED
      BY <1>1, <2>1, <3>1, <3>3, <3>4 DEF Clock
  <2> QED
    BY <2>2, <2>3
<1> QED
  BY <1>3, <1>4 DEF TimeInv

LEMMA NextKeepsTime == ASSUME TimeInv, [Next]_vars PROVE TimeInv'
<1>1. ASSUME NEW c \in Conns, Opener(c) PROVE TimeInv'
  BY <1>1, OpenerKeepsTime
<1>2. ASSUME NEW c \in Conns, NEW v \in Vias, Ask(c, v) PROVE TimeInv'
  <2>1. v \in {"channel", "stream"}
    BY DataPlaneAssumption
  <2>2. PlaneType'
    BY <1>2, <2>1 DEF Ask, Go, TimeInv, PlaneType, OpenerSteps, Answers
  <2>3. /\ opener'[c] = "queued" /\ asked'[c] = "waiting" /\ age'[c] = 0
        /\ control' = control
        /\ \A o \in Conns \ {c} : /\ opener'[o] = opener[o] /\ via'[o] = via[o]
                                  /\ asked'[o] = asked[o] /\ age'[o] = age[o]
    BY <1>2 DEF Ask, Go, TimeInv, PlaneType, Clock
  <2>4. Clock(c)'
    BY <2>3, DataPlaneAssumption DEF Clock
  <2>5. ASSUME NEW o \in Conns \ {c} PROVE Clock(o)'
    BY <2>3, <2>5 DEF TimeInv, Clock
  <2> QED
    BY <2>2, <2>4, <2>5 DEF TimeInv
<1>3. ASSUME NEW c \in Conns, GiveUp(c) PROVE TimeInv'
  <2>1. Answer(c, "timeout") /\ UNCHANGED <<opener, via, control>>
    BY <1>3 DEF GiveUp
  <2>2. ~(opener[c] = "queued" /\ control) /\ opener[c] # "dial" /\ opener[c] # "idle"
    BY <1>3, DataPlaneAssumption DEF GiveUp, TimeInv, PlaneType, Clock
  <2>3. PlaneType'
    BY <2>1, AnswerFacts DEF TimeInv, PlaneType, Answers
  <2>4. age'[c] = 0 /\ \A o \in Conns \ {c} : asked'[o] = asked[o] /\ age'[o] = age[o]
    BY <2>1, AnswerFacts DEF Answers
  <2>5. Clock(c)'
    BY <2>1, <2>2, <2>4 DEF Clock
  <2>6. ASSUME NEW o \in Conns \ {c} PROVE Clock(o)'
    BY <2>1, <2>4, <2>6 DEF TimeInv, Clock
  <2> QED
    BY <2>3, <2>5, <2>6 DEF TimeInv
<1>4. CASE ControlEnds
  BY <1>4 DEF ControlEnds, TimeInv, PlaneType, Clock
<1>5. CASE Tick
  BY <1>5, TickKeepsTime
<1>6. CASE UNCHANGED plane
  BY <1>6 DEF plane, TimeInv, PlaneType, Clock
<1> QED
  BY <1>1, <1>2, <1>3, <1>4, <1>5, <1>6 DEF Next, vars

\* The two seconds of net.DialTimeout end before the server's wait
\* (data_plane.go:33-38): whatever the two limits, as long as requests and answers
\* travel in less than what lies between them, and however many connections are
\* opened at once.
THEOREM DialBeatsTimeout == Spec => []TimeoutIsNotDial
<1>1. TimeInv /\ [Next]_vars => TimeInv'
  BY NextKeepsTime
<1> QED
  BY TimeInit, TimeImplies, <1>1, PTL DEF Spec
=============================================================================
