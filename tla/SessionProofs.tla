--------------------------- MODULE SessionProofs ---------------------------
(***************************************************************************)
(* Proofs about Session, for every bound on the attempts and every set of  *)
(* configurations: type correctness, no connection left behind, online     *)
(* only when declared, ends that agree on the framing, statistics that     *)
(* follow the session, and the refinement of Tunnel.                       *)
(*                                                                         *)
(* The inductive invariant describes the attempts that are over, the one   *)
(* under way (by the place p its goroutine is at) and the ones to come.    *)
(***************************************************************************)
EXTENDS Session, TLAPS

\* What the current attempt s looks like at place p, with the worker's status st.
CurOK(p, s, st) ==
  /\ p \in {"key", "dial"} => s.conn = "none"
  /\ p \in {"connErr", "return", "backoff", "done"} => s.conn \in {"none", "closed"}
  /\ p \in SetupPc => ~s.established
  /\ p \in SetupPc \ {"udp", "udpOpen", "established"} => s.declared = {}
  /\ p = "tcp" => config.Proto # "udp"
  /\ p = "udp" => s.declared \cup {"udp"} = Required
  /\ p \in {"udpOpen", "established"} => s.declared = Required
  /\ p \in LoopPc => s.declared = Required /\ s.established
  /\ st = "online" =>
       p \in LoopPc \cup {"return"} /\ s.declared = Required /\ s.established

Past == \A a \in Attempts : a < att => sess[a].conn \in {"none", "closed"}

Future ==
  \A a \in Attempts : a > att =>
    sess[a].conn = "none" /\ sess[a].declared = {} /\ ~sess[a].established

\* The types of everything but the attempts.
TypeRest ==
  /\ config \in Configs
  /\ ctxDone \in BOOLEAN
  /\ pc \in Pc
  /\ att \in Attempts
  /\ cache \in {"none", "tcp", "quic"}
  /\ status \in {"offline", "online"}
  /\ stats \in {"offline", "online"}
  /\ err \in {"none", "nil", "rejected", "error"}
  /\ streak \in Nat
  /\ retry \in 0..2
  /\ ping \in [failures: 0..1, disabled: BOOLEAN]

Inv ==
  /\ TypeRest
  /\ sess \in [Attempts -> SessionInfo]
  /\ Past
  /\ CurOK(pc, sess[att], status)
  /\ Future

LEMMA InvImplies == Inv => TypeOK /\ ReturnedMeansClosed /\ OnlineIsDeclared
<1> SUFFICES ASSUME Inv PROVE TypeOK /\ ReturnedMeansClosed /\ OnlineIsDeclared
  OBVIOUS
<1>1. TypeOK
  BY DEF Inv, TypeRest, TypeOK
<1>2. ReturnedMeansClosed
  BY DEF Inv, Past, CurOK, ReturnedMeansClosed, Over
<1>3. OnlineIsDeclared
  BY DEF Inv, CurOK, OnlineIsDeclared, Cur
<1> QED
  BY <1>1, <1>2, <1>3

LEMMA InitInv == Init => Inv
<1> SUFFICES ASSUME Init PROVE Inv
  OBVIOUS
<1> USE SessionAssumption
<1>1. NoSession \in SessionInfo
  BY DEF NoSession, SessionInfo, Goroutine
<1>2. sess \in [Attempts -> SessionInfo]
  BY <1>1 DEF Init
<1>3. TypeRest
  <2>1. ping \in [failures: 0..1, disabled: BOOLEAN]
    BY DEF Init, NoPing
  <2>2. att \in Attempts /\ retry \in 0..2 /\ streak \in Nat
    BY DEF Init, Attempts
  <2> QED
    BY <2>1, <2>2 DEF Init, TypeRest, Pc, SetupPc
<1>4. att = 1 /\ att \in Attempts /\ pc = "key" /\ status = "offline"
  BY DEF Init, Attempts
<1>5. \A a \in Attempts : sess[a] = NoSession
  BY DEF Init
<1>6. Past
  BY <1>5 DEF Past, NoSession
<1>7. Future
  BY <1>5 DEF Future, NoSession
<1>8. CurOK(pc, sess[att], status)
  BY <1>4, <1>5 DEF CurOK, NoSession, SetupPc, LoopPc
<1> QED
  BY <1>2, <1>3, <1>6, <1>7, <1>8 DEF Inv

(* What the invariant says of the current attempt. *)
LEMMA CurFacts ==
  ASSUME Inv
  PROVE  /\ att \in Attempts
         /\ sess \in [Attempts -> SessionInfo]
         /\ Cur = sess[att]
         /\ Cur \in SessionInfo
         /\ CurOK(pc, Cur, status)
BY DEF Inv, TypeRest, Cur

LEMMA ProtoFact == ASSUME Inv PROVE config.Proto \in {"tcp", "udp", "both"}
BY SessionAssumption DEF Inv, TypeRest

(* The worker's own steps replace the current attempt by some s and go somewhere. *)
LEMMA CurStep ==
  ASSUME Inv, NEW s \in SessionInfo, Update(s), att' = att, config' = config,
         TypeRest', CurOK(pc', s, status')
  PROVE  Inv'
<1> USE CurFacts
<1>1. sess' \in [Attempts -> SessionInfo] /\ sess'[att] = s
  BY DEF Update
<1>2. \A a \in Attempts : a # att => sess'[a] = sess[a]
  BY DEF Update
<1>3. Past'
  BY <1>2 DEF Inv, Past, TypeRest, Attempts
<1>4. Future'
  BY <1>2 DEF Inv, Future, TypeRest, Attempts
<1>5. CurOK(pc', sess'[att'], status') /\ Required' = Required
  BY <1>1 DEF Required
<1>6. CurOK(pc, sess[att], status)'
  BY <1>5 DEF CurOK
<1> QED
  BY <1>1, <1>3, <1>4, <1>6 DEF Inv

(* ... or leave it alone. *)
LEMMA CurSame ==
  ASSUME Inv, sess' = sess, att' = att, config' = config, TypeRest',
         CurOK(pc', Cur, status')
  PROVE  Inv'
<1>1. Update(Cur)
  BY CurFacts DEF Update
<1> QED
  BY <1>1, CurFacts, CurStep

(* The other goroutines and the server end things; they declare nothing. *)
LEMMA OtherStep ==
  ASSUME Inv, NEW a \in Attempts, NEW s \in SessionInfo,
         sess' = [sess EXCEPT ![a] = s],
         UNCHANGED <<config, ctxDone, pc, worker>>,
         s.declared = sess[a].declared, s.established = sess[a].established,
         \/ s.conn = sess[a].conn
         \/ sess[a].conn \in {"up", "silent"} /\ s.conn \in {"up", "silent", "closed"}
  PROVE  Inv'
<1> USE CurFacts
<1>1. sess' \in [Attempts -> SessionInfo]
  OBVIOUS
<1>2. TypeRest' /\ att' = att /\ pc' = pc /\ status' = status /\ Required' = Required
  BY DEF Inv, TypeRest, worker, Required
<1>3. \A b \in Attempts : sess'[b].declared = sess[b].declared
                          /\ sess'[b].established = sess[b].established
  OBVIOUS
<1>4. \A b \in Attempts : sess[b].conn \in {"none", "closed"} => sess'[b].conn = sess[b].conn
  OBVIOUS
<1>5. Past'
  BY <1>2, <1>4 DEF Inv, Past
<1>6. Future'
  BY <1>2, <1>3, <1>4 DEF Inv, Future
<1>7. CurOK(pc, sess'[att], status)
  BY <1>3, <1>4 DEF CurOK
<1>8. CurOK(pc, sess[att], status)'
  BY <1>2, <1>7 DEF CurOK
<1> QED
  BY <1>1, <1>2, <1>5, <1>6, <1>8 DEF Inv

(* The ways ConnectAndTunnel returns close the connection. *)
LEMMA ClosedFacts ==
  ASSUME NEW s \in SessionInfo
  PROVE  /\ Closed(s) \in SessionInfo
         /\ Closed(s).conn \in {"none", "closed"}
         /\ Closed(s).declared = s.declared
         /\ Closed(s).established = s.established
BY DEF Closed, SessionInfo

LEMMA CancelFacts ==
  ASSUME NEW s \in SessionInfo
  PROVE  LET c == [s EXCEPT !.cancel = TRUE] IN
         /\ c \in SessionInfo
         /\ c.conn = s.conn /\ c.declared = s.declared /\ c.established = s.established
BY DEF SessionInfo

LEMMA SetupFailedInv ==
  ASSUME Inv, NEW e \in {"error", "rejected"}, SetupFailed(e), pc \in SetupPc
  PROVE  Inv'
<1> USE CurFacts
<1>1. TypeRest' /\ att' = att /\ config' = config
  BY DEF SetupFailed, Goto, Inv, TypeRest, Pc
<1>2. CurOK(pc', Closed(Cur), status')
  BY ClosedFacts DEF SetupFailed, Goto, CurOK, SetupPc, LoopPc
<1> QED
  BY <1>1, <1>2, CurStep, ClosedFacts DEF SetupFailed

LEMMA SetupStepInv ==
  ASSUME Inv, NEW p \in Pc, NEW s \in SessionInfo, SetupStep(p, s),
         CurOK(p, s, status)
  PROVE  Inv'
<1>1. TypeRest' /\ att' = att /\ config' = config
  BY DEF SetupStep, Goto, Inv, TypeRest, worker
<1>2. CurOK(pc', s, status')
  BY DEF SetupStep, Goto, worker, CurOK
<1> QED
  BY <1>1, <1>2, CurStep DEF SetupStep

LEMMA DisconnectInv ==
  ASSUME Inv, NEW e \in {"nil", "error"}, Disconnect(e), pc \in LoopPc
  PROVE  Inv'
<1> DEFINE s == [Closed(Cur) EXCEPT !.cancel = TRUE]
<1> USE CurFacts
<1>1. TypeRest' /\ att' = att /\ config' = config
  BY DEF Disconnect, Goto, Inv, TypeRest, Pc, NoPing
<1>2. s \in SessionInfo /\ s.conn = Closed(Cur).conn
      /\ s.declared = Cur.declared /\ s.established = Cur.established
  BY ClosedFacts, CancelFacts
<1>3. CurOK(pc', s, status')
  BY <1>2, ClosedFacts DEF Disconnect, Goto, CurOK, SetupPc, LoopPc
<1>4. Update(s)
  BY DEF Disconnect
<1> HIDE DEF s
<1> QED
  BY <1>1, <1>2, <1>3, <1>4, CurStep

(* The set-up, one step after the other. *)

LEMMA ReadKeyInv == ASSUME Inv, ReadKey PROVE Inv'
<1> USE CurFacts DEF ReadKey, At
<1>1. CASE SetupStep("dial", Cur)
  BY <1>1, SetupStepInv DEF CurOK, Pc, SetupPc, LoopPc
<1>2. CASE SetupFailed("error")
  BY <1>2, SetupFailedInv DEF SetupPc
<1> QED
  BY <1>1, <1>2

LEMMA DialInv ==
  ASSUME Inv, NEW quic \in BOOLEAN, NEW tcp \in BOOLEAN, NEW expired \in BOOLEAN,
         Dial(quic, tcp, expired)
  PROVE  Inv'
<1> DEFINE mode == DialMode(quic, tcp, expired)
           s == [Cur EXCEPT !.conn = "up", !.mode = mode]
<1> USE CurFacts DEF Dial, At, Goto
<1>1. mode \in {"none", "tcp", "quic"}
  BY DEF DialMode
<1>2. cache' \in {"none", "tcp", "quic"}
  BY DEF Inv, TypeRest
<1>3. CASE mode = "none"
  <2>1. TypeRest'
    BY <1>2, <1>3 DEF Inv, TypeRest, Pc
  <2>2. CurOK(pc', Cur, status')
    BY <1>3 DEF CurOK, SetupPc, LoopPc
  <2> QED
    BY <1>3, <2>1, <2>2, CurSame
<1>4. CASE mode # "none"
  <2>1. TypeRest'
    BY <1>2, <1>4 DEF Inv, TypeRest, Pc, SetupPc
  <2>2. s \in SessionInfo
    BY <1>1 DEF SessionInfo
  <2>3. CurOK(pc', s, status')
    BY <1>4 DEF CurOK, SetupPc, LoopPc, SessionInfo
  <2> QED
    BY <1>4, <2>1, <2>2, <2>3, CurStep
<1> QED
  BY <1>3, <1>4

LEMMA PlaceFacts ==
  ASSUME Inv
  PROVE  /\ DeclarePc \in {"tcp", "udp"}
         /\ DataPlanePc \in {"dataPlane", "tcp", "udp"}
         /\ "tcp" \in {DeclarePc, DataPlanePc} => config.Proto # "udp"
         /\ DeclarePc = "udp" => Required = {"udp"}
         /\ DataPlanePc = "udp" => Required = {"udp"}
BY ProtoFact DEF DeclarePc, DataPlanePc, Required

LEMMA HandshakeInv == ASSUME Inv, Handshake PROVE Inv'
<1> DEFINE s == [Cur EXCEPT !.wait = "wait"]
           p == IF config.Compress THEN "compress" ELSE DataPlanePc
<1> USE CurFacts DEF Handshake, At
<1>1. CASE SetupFailed("error")
  BY <1>1, SetupFailedInv DEF SetupPc
<1>2. CASE stats' = "online" /\ Update(s) /\ Goto(p)
           /\ UNCHANGED <<config, ctxDone, att, cache, status, err, streak, retry, ping>>
  <2>1. /\ p \in {"compress", "dataPlane", "tcp", "udp"}
        /\ p = "udp" => Required = {"udp"}
        /\ p = "tcp" => config.Proto # "udp"
    BY PlaceFacts
  <2>2. TypeRest'
    BY <1>2, <2>1 DEF Inv, TypeRest, Pc, SetupPc, Goto
  <2>3. s \in SessionInfo
    BY DEF SessionInfo
  <2>4. CurOK(pc', s, status')
    BY <1>2, <2>1 DEF CurOK, SetupPc, LoopPc, SessionInfo, Goto
  <2> QED
    BY <1>2, <2>2, <2>3, <2>4, CurStep
<1> QED
  BY <1>1, <1>2

LEMMA NegotiateInv == ASSUME Inv, NEW ok \in BOOLEAN, Negotiate(ok) PROVE Inv'
<1> DEFINE s == [Cur EXCEPT !.compress = ok, !.srvCompress = ok]
           t == [Cur EXCEPT !.srvCompress = ok]
<1> USE CurFacts DEF Negotiate, At
<1>1. s \in SessionInfo /\ t \in SessionInfo
  BY DEF SessionInfo
<1>2. CurOK(DataPlanePc, s, status) /\ CurOK(DataPlanePc, t, status)
  BY PlaceFacts DEF CurOK, SetupPc, LoopPc, SessionInfo
<1>3. DataPlanePc \in Pc
  BY PlaceFacts DEF Pc, SetupPc
<1> QED
  BY <1>1, <1>2, <1>3, SetupStepInv

LEMMA NegotiateTimeoutInv == ASSUME Inv, NegotiateTimeout PROVE Inv'
BY SetupFailedInv DEF NegotiateTimeout, At, SetupPc

LEMMA OpenDataPlaneInv == ASSUME Inv, OpenDataPlane PROVE Inv'
<1> DEFINE s == [Cur EXCEPT !.dp = "run"]
<1> USE CurFacts DEF OpenDataPlane, At
<1>1. s \in SessionInfo
  BY DEF SessionInfo, Goroutine
<1>2. CurOK(DeclarePc, s, status) /\ CurOK(DeclarePc, Cur, status)
  BY PlaceFacts DEF CurOK, SetupPc, LoopPc, SessionInfo
<1>3. DeclarePc \in Pc
  BY PlaceFacts DEF Pc, SetupPc
<1> QED
  BY <1>1, <1>2, <1>3, SetupStepInv

LEMMA DeclareTcpInv == ASSUME Inv, DeclareTcp PROVE Inv'
<1> DEFINE s == [Cur EXCEPT !.declared = @ \cup {"tcp"}, !.fwd = "run"]
<1> USE CurFacts DEF At
<1>1. CASE SetupStep(AfterTcp, s)
  <2>1. s \in SessionInfo
    BY DEF SessionInfo, Goroutine
  <2>2. Cur.declared = {} /\ s.declared = {"tcp"} /\ s.established = Cur.established
        /\ s.conn = Cur.conn /\ ~Cur.established /\ status # "online"
    BY DEF DeclareTcp, CurOK, SetupPc, LoopPc, SessionInfo
  <2>3. \/ AfterTcp = "udp" /\ Required = {"tcp", "udp"}
        \/ AfterTcp = "established" /\ Required = {"tcp"}
    BY ProtoFact DEF DeclareTcp, CurOK, AfterTcp, Required
  <2>4. CurOK(AfterTcp, s, status)
    BY <2>2, <2>3 DEF CurOK, SetupPc, LoopPc
  <2> QED
    BY <1>1, <2>1, <2>3, <2>4, SetupStepInv DEF Pc, SetupPc
<1>2. CASE SetupFailed("rejected") \/ SetupFailed("error")
  BY <1>2, SetupFailedInv DEF SetupPc, DeclareTcp
<1> QED
  BY <1>1, <1>2 DEF DeclareTcp

LEMMA DeclareUdpInv ==
  ASSUME Inv, NEW datagram \in BOOLEAN, DeclareUdp(datagram)
  PROVE  Inv'
<1> DEFINE s == [Cur EXCEPT !.declared = @ \cup {"udp"}, !.proxy = "run"]
           t == [Cur EXCEPT !.declared = @ \cup {"udp"}]
<1> USE CurFacts DEF At
<1>1. s \in SessionInfo /\ t \in SessionInfo
  BY DEF SessionInfo, Goroutine
<1>2. CASE SetupStep("established", s)
  <2>1. CurOK("established", s, status)
    BY DEF DeclareUdp, CurOK, SetupPc, LoopPc, SessionInfo
  <2> QED
    BY <1>1, <1>2, <2>1, SetupStepInv DEF Pc, SetupPc
<1>3. CASE SetupStep("udpOpen", t)
  <2>1. CurOK("udpOpen", t, status)
    BY DEF DeclareUdp, CurOK, SetupPc, LoopPc, SessionInfo
  <2> QED
    BY <1>1, <1>3, <2>1, SetupStepInv DEF Pc, SetupPc
<1>4. CASE SetupFailed("rejected") \/ SetupFailed("error")
  BY <1>4, SetupFailedInv DEF SetupPc, DeclareUdp
<1> QED
  BY <1>2, <1>3, <1>4 DEF DeclareUdp

LEMMA OpenUdpChannelsInv == ASSUME Inv, OpenUdpChannels PROVE Inv'
<1> DEFINE s == [Cur EXCEPT !.proxy = "run"]
<1> USE CurFacts DEF At
<1>1. CASE SetupStep("established", s)
  <2>1. s \in SessionInfo
    BY DEF SessionInfo, Goroutine
  <2>2. CurOK("established", s, status)
    BY DEF OpenUdpChannels, CurOK, SetupPc, LoopPc, SessionInfo
  <2> QED
    BY <1>1, <2>1, <2>2, SetupStepInv DEF Pc, SetupPc
<1>2. CASE SetupFailed("error")
  BY <1>2, SetupFailedInv DEF SetupPc, OpenUdpChannels
<1> QED
  BY <1>1, <1>2 DEF OpenUdpChannels

LEMMA OnTunnelEstablishedInv == ASSUME Inv, OnTunnelEstablished PROVE Inv'
<1> DEFINE s == [Cur EXCEPT !.established = TRUE]
<1> USE CurFacts DEF OnTunnelEstablished, At, Goto
<1>1. s \in SessionInfo
  BY DEF SessionInfo
<1>2. TypeRest'
  BY DEF Inv, TypeRest, Pc, LoopPc
<1>3. CurOK(pc', s, status')
  BY DEF CurOK, SetupPc, LoopPc, SessionInfo
<1> QED
  BY <1>1, <1>2, <1>3, CurStep

(* The main loop. *)

LEMMA ConnectionOverInv == ASSUME Inv, ConnectionOver PROVE Inv'
<1> USE CurFacts DEF ConnectionOver, At, Goto
<1>1. TypeRest'
  BY DEF Inv, TypeRest, Pc, LoopPc
<1>2. CurOK(pc', Closed(Cur), status')
  BY ClosedFacts DEF CurOK, SetupPc, LoopPc
<1> QED
  BY <1>1, <1>2, ClosedFacts, CurStep

(* connErr is only reached with the connection closed. *)
LEMMA ReceiveConnErrInv == ASSUME Inv, ReceiveConnErr PROVE Inv'
<1> DEFINE s == [Cur EXCEPT !.connErr = "empty"]
<1> USE CurFacts DEF ReceiveConnErr, At, Goto
<1>1. s \in SessionInfo
  BY DEF SessionInfo
<1>2. TypeRest'
  BY DEF Inv, TypeRest, Pc, NoPing
<1>3. CurOK(pc', s, status')
  BY DEF CurOK, SetupPc, LoopPc, SessionInfo
<1> QED
  BY <1>1, <1>2, <1>3, CurStep

LEMMA MainLoopInv == ASSUME Inv, MainLoop PROVE Inv'
<1> USE CurFacts DEF At, Goto
<1>1. CASE ShutDown
  BY <1>1, DisconnectInv DEF ShutDown, LoopPc
<1>2. CASE ConnectionOver
  BY <1>2, ConnectionOverInv
<1>3. CASE ReceiveConnErr
  BY <1>3, ReceiveConnErrInv
<1>4. CASE Heartbeat
  <2>1. TypeRest' /\ CurOK(pc', Cur, status')
    BY <1>4 DEF Heartbeat, worker, Inv, TypeRest, Pc, LoopPc, SetupPc, CurOK
  <2> QED
    BY <1>4, <2>1, CurSame DEF Heartbeat, worker
<1>5. CASE KeepaliveAnswered
  <2>1. TypeRest' /\ CurOK(pc', Cur, status')
    BY <1>5 DEF KeepaliveAnswered, Inv, TypeRest, Pc, LoopPc, SetupPc, CurOK
  <2> QED
    BY <1>5, <2>1, CurSame DEF KeepaliveAnswered
<1>6. CASE KeepaliveFails
  <2>1. CASE retry < 2
    <3>1. TypeRest'
      BY <1>6, <2>1 DEF KeepaliveFails, Inv, TypeRest
    <3>2. CurOK(pc', Cur, status')
      BY <1>6, <2>1 DEF KeepaliveFails, CurOK
    <3> QED
      BY <1>6, <2>1, <3>1, <3>2, CurSame DEF KeepaliveFails
  <2>2. CASE ~(retry < 2)
    BY <1>6, <2>2, DisconnectInv DEF KeepaliveFails, LoopPc
  <2> QED
    BY <2>1, <2>2
<1>7. CASE \E h, u, c \in BOOLEAN : PingAnswered(h, u, c)
  <2>1. TypeRest' /\ CurOK(pc', Cur, status')
    BY <1>7 DEF PingAnswered, Inv, TypeRest, Pc, LoopPc, SetupPc, CurOK
  <2> QED
    BY <1>7, <2>1, CurSame DEF PingAnswered
<1>8. CASE PingUnsupported
  <2>1. TypeRest' /\ CurOK(pc', Cur, status')
    BY <1>8 DEF PingUnsupported, Inv, TypeRest, Pc, LoopPc, SetupPc, CurOK
  <2> QED
    BY <1>8, <2>1, CurSame DEF PingUnsupported
<1>9. CASE PingFails
  <2>1. CASE ping.failures = 0
    <3>1. TypeRest' /\ CurOK(pc', Cur, status')
      BY <1>9, <2>1 DEF PingFails, Inv, TypeRest, Pc, LoopPc, SetupPc, CurOK
    <3> QED
      BY <1>9, <2>1, <3>1, CurSame DEF PingFails
  <2>2. CASE ping.failures # 0
    BY <1>9, <2>2, DisconnectInv DEF PingFails, LoopPc
  <2> QED
    BY <2>1, <2>2
<1> QED
  BY <1>1, <1>2, <1>3, <1>4, <1>5, <1>6, <1>7, <1>8, <1>9 DEF MainLoop

(* The tail of runWorker's loop. *)

LEMMA WorkerTailInv == ASSUME Inv, WorkerTail PROVE Inv'
<1> USE CurFacts DEF WorkerTail, At, Goto
<1>1. streak' \in Nat /\ pc' \in {"done", "backoff"} /\ status' = "offline"
  BY DEF NextStreak, Inv, TypeRest
<1>2. TypeRest'
  BY <1>1 DEF Inv, TypeRest, Pc
<1>3. CurOK(pc', Cur, status')
  BY <1>1 DEF CurOK, SetupPc, LoopPc
<1> QED
  BY <1>2, <1>3, CurSame

LEMMA ReconnectInv == ASSUME Inv, Reconnect PROVE Inv'
<1> USE CurFacts DEF Reconnect, At, Goto
<1>1. att' \in Attempts /\ att' = att + 1 /\ att \in Nat
  BY SessionAssumption DEF Attempts
<1>2. TypeRest'
  BY <1>1 DEF Inv, TypeRest, Pc, SetupPc
<1>3. Past'
  <2>1. \A a \in Attempts : a < att' => a < att \/ a = att
    BY <1>1 DEF Attempts
  <2>2. sess[att].conn \in {"none", "closed"}
    BY DEF CurOK
  <2> QED
    BY <2>1, <2>2 DEF Inv, Past
<1>4. Future'
  <2>1. \A a \in Attempts : a > att' => a > att
    BY <1>1 DEF Attempts
  <2> QED
    BY <2>1 DEF Inv, Future
<1>5. CurOK(pc, sess[att], status)'
  <2>1. /\ sess[att'].conn = "none" /\ sess[att'].declared = {}
        /\ ~sess[att'].established /\ status # "online"
    BY <1>1 DEF Inv, Future, CurOK, LoopPc
  <2> QED
    BY <2>1 DEF CurOK, SetupPc, LoopPc
<1> QED
  BY <1>2, <1>3, <1>4, <1>5 DEF Inv

LEMMA QuitInv == ASSUME Inv, Quit PROVE Inv'
<1> USE CurFacts DEF Quit, At, Goto, worker
<1>1. TypeRest'
  BY DEF Inv, TypeRest, Pc
<1>2. CurOK(pc', Cur, status')
  BY DEF CurOK, SetupPc, LoopPc
<1> QED
  BY <1>1, <1>2, CurSame

LEMMA WorkerStepInv == ASSUME Inv, WorkerStep PROVE Inv'
BY ReadKeyInv, DialInv, HandshakeInv, NegotiateInv, NegotiateTimeoutInv,
   OpenDataPlaneInv, DeclareTcpInv, DeclareUdpInv, OpenUdpChannelsInv,
   OnTunnelEstablishedInv, MainLoopInv, WorkerTailInv, ReconnectInv, QuitInv
   DEF WorkerStep, Setup

(* The other goroutines and the environment. *)

LEMMA GoroutineStepInv == ASSUME Inv, NEW a \in Attempts, GoroutineStep(a) PROVE Inv'
<1> DEFINE old == sess[a]
<1>0. old \in SessionInfo
  BY CurFacts
<1>1. CASE WaitReturns(a)
  <2> DEFINE s == [old EXCEPT !.wait = "cancel", !.connErr = "full"]
  <2>1. s \in SessionInfo /\ s.conn = old.conn /\ s.declared = old.declared
        /\ s.established = old.established
    BY <1>0 DEF SessionInfo
  <2> QED
    BY <1>1, <2>1, OtherStep DEF WaitReturns
<1>2. CASE WaitCancels(a)
  <2> DEFINE s == [old EXCEPT !.wait = "done", !.cancel = TRUE]
  <2>1. s \in SessionInfo /\ s.conn = old.conn /\ s.declared = old.declared
        /\ s.established = old.established
    BY <1>0 DEF SessionInfo
  <2> QED
    BY <1>2, <2>1, OtherStep DEF WaitCancels
<1>3. CASE ForwarderEnds(a)
  <2> DEFINE s == [old EXCEPT !.fwd = "done"]
  <2>1. s \in SessionInfo /\ s.conn = old.conn /\ s.declared = old.declared
        /\ s.established = old.established
    BY <1>0 DEF SessionInfo, Goroutine
  <2> QED
    BY <1>3, <2>1, OtherStep DEF ForwarderEnds
<1>4. CASE ProxyEnds(a)
  <2> DEFINE s == [old EXCEPT !.proxy = "done"]
  <2>1. s \in SessionInfo /\ s.conn = old.conn /\ s.declared = old.declared
        /\ s.established = old.established
    BY <1>0 DEF SessionInfo, Goroutine
  <2> QED
    BY <1>4, <2>1, OtherStep DEF ProxyEnds
<1>5. CASE DataPlaneEnds(a)
  <2> DEFINE s == [old EXCEPT !.dp = "done"]
  <2>1. s \in SessionInfo /\ s.conn = old.conn /\ s.declared = old.declared
        /\ s.established = old.established
    BY <1>0 DEF SessionInfo, Goroutine
  <2> QED
    BY <1>5, <2>1, OtherStep DEF DataPlaneEnds
<1> QED
  BY <1>1, <1>2, <1>3, <1>4, <1>5 DEF GoroutineStep

LEMMA EnvironmentInv == ASSUME Inv, Environment PROVE Inv'
<1>1. CASE CancelFunc
  <2>1. TypeRest' /\ CurOK(pc', Cur, status')
    BY <1>1, CurFacts DEF CancelFunc, worker, Inv, TypeRest, CurOK
  <2> QED
    BY <1>1, <2>1, CurSame DEF CancelFunc, worker
<1>2. ASSUME NEW a \in Attempts,
             \/ GoesSilent(a) \/ ServerCloses(a)
             \/ ServerClosesUdp(a) \/ ServerClosesDataPlane(a)
      PROVE  Inv'
  <2> DEFINE old == sess[a]
  <2>0. old \in SessionInfo
    BY CurFacts
  <2>1. CASE GoesSilent(a)
    <3> DEFINE s == [old EXCEPT !.conn = "silent"]
    <3>1. s \in SessionInfo /\ s.conn = "silent" /\ s.declared = old.declared
          /\ s.established = old.established
      BY <2>0 DEF SessionInfo
    <3> QED
      BY <2>1, <3>1, OtherStep DEF GoesSilent
  <2>2. CASE ServerCloses(a)
    <3> DEFINE s == [old EXCEPT !.conn = "closed"]
    <3>1. s \in SessionInfo /\ s.conn = "closed" /\ s.declared = old.declared
          /\ s.established = old.established
      BY <2>0 DEF SessionInfo
    <3> QED
      BY <2>2, <3>1, OtherStep DEF ServerCloses
  <2>3. CASE ServerClosesUdp(a)
    <3> DEFINE s == [old EXCEPT !.proxy = "done"]
    <3>1. s \in SessionInfo /\ s.conn = old.conn /\ s.declared = old.declared
          /\ s.established = old.established
      BY <2>0 DEF SessionInfo, Goroutine
    <3> QED
      BY <2>3, <3>1, OtherStep DEF ServerClosesUdp
  <2>4. CASE ServerClosesDataPlane(a)
    <3> DEFINE s == [old EXCEPT !.dp = "done"]
    <3>1. s \in SessionInfo /\ s.conn = old.conn /\ s.declared = old.declared
          /\ s.established = old.established
      BY <2>0 DEF SessionInfo, Goroutine
    <3> QED
      BY <2>4, <3>1, OtherStep DEF ServerClosesDataPlane
  <2> QED
    BY <1>2, <2>1, <2>2, <2>3, <2>4
<1>3. CASE OtherWorkerProbes
  <2>1. TypeRest' /\ CurOK(pc', Cur, status')
    BY <1>3, CurFacts DEF OtherWorkerProbes, Inv, TypeRest, CurOK
  <2> QED
    BY <1>3, <2>1, CurSame DEF OtherWorkerProbes
<1> QED
  BY <1>1, <1>2, <1>3 DEF Environment

LEMMA StutterInv == ASSUME Inv, UNCHANGED vars PROVE Inv'
<1>1. TypeRest' /\ CurOK(pc', Cur, status')
  BY CurFacts DEF vars, Inv, TypeRest, CurOK
<1> QED
  BY <1>1, CurSame DEF vars

\* The inductive invariant of runWorker and ConnectAndTunnel.
THEOREM InvHolds == Spec => []Inv
<1>1. Inv /\ [Next]_vars => Inv'
  BY WorkerStepInv, GoroutineStepInv, EnvironmentInv, StutterInv DEF Next
<1> QED
  BY <1>1, InitInv, PTL DEF Spec

\* Type correctness of the worker and its attempts, however many there are.
THEOREM SessionTypeCorrect == Spec => []TypeOK
BY InvHolds, InvImplies, PTL

\* Whatever way ConnectAndTunnel returns (refused, timed out, disconnected,
\* cancelled), the attempt's connection is closed.
THEOREM NothingLeftBehind == Spec => []ReturnedMeansClosed
BY InvHolds, InvImplies, PTL

\* The worker is never shown online before every declaration of its protocol was
\* accepted, nor after runWorker has seen ConnectAndTunnel return.
THEOREM OnlineMeansDeclared == Spec => []OnlineIsDeclared
BY InvHolds, InvImplies, PTL

(* The refinement.  Steps inside the set-up or the main loop are stutters of   *)
(* Tunnel; four kinds of steps are not.                                        *)

LEMMA SetupPhase == ASSUME Inv, pc \in SetupPc PROVE Phase = "conn"
BY DEF Phase, SetupPc, LoopPc

LEMMA LoopPhase == ASSUME Inv, pc \in LoopPc PROVE Phase = "up"
BY DEF Phase, SetupPc, LoopPc

LEMMA PhaseKept ==
  ASSUME Inv, Inv', UNCHANGED <<pc, att, ctxDone, status>>,
         sess'[att].established = sess[att].established
  PROVE  UNCHANGED T!tvars
BY CurFacts DEF Phase, Cur, T!tvars, SetupPc, LoopPc

LEMMA SetupStays ==
  ASSUME Inv, pc \in SetupPc, UNCHANGED <<att, ctxDone, status>>,
         pc' \in SetupPc \/ (pc' = "return" /\ ~sess'[att].established)
  PROVE  UNCHANGED T!tvars
<1>1. Phase = "conn"
  BY SetupPhase
<1>2. Phase' = "conn"
  BY DEF Phase, Cur, SetupPc, LoopPc
<1> QED
  BY <1>1, <1>2 DEF T!tvars

LEMMA LoopStays ==
  ASSUME Inv, pc \in LoopPc, UNCHANGED <<att, ctxDone, status>>,
         pc' \in LoopPc \/ (pc' = "return" /\ sess'[att].established)
  PROVE  UNCHANGED T!tvars
<1>1. Phase = "up"
  BY LoopPhase
<1>2. Phase' = "up"
  BY DEF Phase, Cur, SetupPc, LoopPc
<1> QED
  BY <1>1, <1>2 DEF T!tvars

LEMMA SetupFailedStays ==
  ASSUME Inv, NEW e, SetupFailed(e), pc \in SetupPc
  PROVE  UNCHANGED T!tvars
<1>1. sess'[att] = Closed(Cur) /\ ~Cur.established
  BY CurFacts DEF SetupFailed, Update, CurOK
<1>2. ~sess'[att].established
  BY <1>1, CurFacts, ClosedFacts
<1> QED
  BY <1>2, SetupStays DEF SetupFailed, Goto

LEMMA SetupStepStays ==
  ASSUME Inv, NEW p \in SetupPc, NEW s, SetupStep(p, s), pc \in SetupPc
  PROVE  UNCHANGED T!tvars
BY SetupStays DEF SetupStep, Goto, worker

LEMMA DisconnectStays ==
  ASSUME Inv, NEW e, Disconnect(e), pc \in LoopPc
  PROVE  UNCHANGED T!tvars
<1>1. Cur.established /\ sess'[att] = [Closed(Cur) EXCEPT !.cancel = TRUE]
  BY CurFacts DEF Disconnect, Update, CurOK
<1>2. sess'[att].established
  BY <1>1, CurFacts, ClosedFacts, CancelFacts
<1> QED
  BY <1>2, LoopStays DEF Disconnect, Goto

LEMMA SetupRefines == ASSUME Inv, Setup PROVE T!Establish \/ UNCHANGED T!tvars
<1> USE CurFacts DEF At
<1>1. CASE ReadKey
  BY <1>1, SetupStepStays, SetupFailedStays DEF ReadKey, SetupPc
<1>2. CASE \E quic, tcp, expired \in BOOLEAN : Dial(quic, tcp, expired)
  <2>1. PICK quic \in BOOLEAN, tcp \in BOOLEAN, expired \in BOOLEAN : Dial(quic, tcp, expired)
    BY <1>2
  <2>2. ~Cur.established
    BY <2>1 DEF Dial, CurOK, SetupPc
  <2>3. pc \in SetupPc /\ UNCHANGED <<att, ctxDone, status>>
    BY <2>1 DEF Dial, SetupPc
  <2>4. pc' = "handshake" \/ (pc' = "return" /\ sess' = sess)
    BY <2>1 DEF Dial, Goto
  <2> QED
    BY <2>2, <2>3, <2>4, SetupStays DEF SetupPc
<1>3. CASE Handshake
  <2>1. CASE SetupFailed("error")
    BY <1>3, <2>1, SetupFailedStays DEF Handshake, SetupPc
  <2>2. CASE ~SetupFailed("error")
    BY <1>3, <2>2, PlaceFacts, SetupStays DEF Handshake, SetupPc, Goto
  <2> QED
    BY <2>1, <2>2
<1>4. CASE \E ok \in BOOLEAN : Negotiate(ok)
  BY <1>4, SetupStepStays, PlaceFacts DEF Negotiate, SetupPc
<1>5. CASE NegotiateTimeout
  BY <1>5, SetupFailedStays DEF NegotiateTimeout, SetupPc
<1>6. CASE OpenDataPlane
  BY <1>6, SetupStepStays, PlaceFacts DEF OpenDataPlane, SetupPc
<1>7. CASE DeclareTcp
  BY <1>7, SetupStepStays, SetupFailedStays DEF DeclareTcp, AfterTcp, SetupPc
<1>8. CASE \E datagram \in BOOLEAN : DeclareUdp(datagram)
  BY <1>8, SetupStepStays, SetupFailedStays DEF DeclareUdp, SetupPc
<1>9. CASE OpenUdpChannels
  BY <1>9, SetupStepStays, SetupFailedStays DEF OpenUdpChannels, SetupPc
<1>10. CASE OnTunnelEstablished
  BY <1>10, SetupPhase DEF OnTunnelEstablished, Goto, Phase, SetupPc, LoopPc, T!Establish
<1> QED
  BY <1>1, <1>2, <1>3, <1>4, <1>5, <1>6, <1>7, <1>8, <1>9, <1>10 DEF Setup

LEMMA MainLoopRefines == ASSUME Inv, MainLoop PROVE UNCHANGED T!tvars
<1> USE CurFacts DEF At, Goto
<1>0. pc \in LoopPc => Cur.established
  BY DEF CurOK
<1>1. CASE ShutDown
  BY <1>1, DisconnectStays DEF ShutDown, LoopPc
<1>2. CASE ConnectionOver
  BY <1>2, LoopStays DEF ConnectionOver, LoopPc
<1>3. CASE ReceiveConnErr
  <2>1. sess'[att].established
    BY <1>0, <1>3 DEF ReceiveConnErr, Update, SessionInfo, LoopPc
  <2> QED
    BY <1>3, <2>1, LoopStays DEF ReceiveConnErr, LoopPc
<1>4. CASE Heartbeat
  BY <1>4, LoopStays DEF Heartbeat, LoopPc, worker
<1>5. CASE KeepaliveAnswered
  BY <1>5, LoopStays DEF KeepaliveAnswered, LoopPc
<1>6. CASE KeepaliveFails
  BY <1>6, LoopStays, DisconnectStays DEF KeepaliveFails, LoopPc
<1>7. CASE \E h, u, c \in BOOLEAN : PingAnswered(h, u, c)
  BY <1>7, LoopStays DEF PingAnswered, LoopPc
<1>8. CASE PingUnsupported
  BY <1>8, LoopStays DEF PingUnsupported, LoopPc
<1>9. CASE PingFails
  BY <1>9, LoopStays, DisconnectStays DEF PingFails, LoopPc
<1> QED
  BY <1>1, <1>2, <1>3, <1>4, <1>5, <1>6, <1>7, <1>8, <1>9 DEF MainLoop

LEMMA WorkerStepRefines == ASSUME Inv, WorkerStep PROVE [T!TNext]_(T!tvars)
<1> USE DEF At, Goto
<1>1. CASE WorkerTail
  <2>1. Phase \in {"conn", "up"}
    BY <1>1 DEF WorkerTail, Phase, SetupPc, LoopPc
  <2>2. Phase' = IF ctxDone THEN "done" ELSE "back"
    BY <1>1 DEF WorkerTail, Phase, SetupPc, LoopPc
  <2> QED
    BY <1>1, <2>1, <2>2 DEF WorkerTail, T!TNext, T!Return
<1>2. CASE Reconnect
  <2>1. Phase = "back" /\ Phase' = "conn"
    BY <1>2 DEF Reconnect, Phase, SetupPc, LoopPc
  <2> QED
    BY <1>2, <2>1 DEF Reconnect, T!TNext, T!Retry
<1>3. CASE Quit
  <2>1. Phase = "back" /\ Phase' = "done"
    BY <1>3 DEF Quit, Phase, SetupPc, LoopPc
  <2> QED
    BY <1>3, <2>1 DEF Quit, worker, T!TNext, T!Quit
<1> QED
  BY <1>1, <1>2, <1>3, SetupRefines, MainLoopRefines DEF WorkerStep, T!TNext

LEMMA OtherStepRefines ==
  ASSUME Inv, Inv', NEW a \in Attempts,
         GoroutineStep(a) \/ GoesSilent(a) \/ ServerCloses(a)
           \/ ServerClosesUdp(a) \/ ServerClosesDataPlane(a)
  PROVE  UNCHANGED T!tvars
<1>0. sess[a] \in SessionInfo
  BY CurFacts
<1>1. sess'[att].established = sess[att].established
  <2>0. CASE WaitReturns(a)
    BY <1>0, <2>0, CurFacts DEF WaitReturns, SessionInfo
  <2>1. CASE WaitCancels(a)
    BY <1>0, <2>1, CurFacts DEF WaitCancels, SessionInfo
  <2>2. CASE ForwarderEnds(a) \/ ProxyEnds(a) \/ DataPlaneEnds(a)
    BY <1>0, <2>2, CurFacts DEF ForwarderEnds, ProxyEnds, DataPlaneEnds, SessionInfo
  <2>3. CASE GoesSilent(a) \/ ServerCloses(a)
    BY <1>0, <2>3, CurFacts DEF GoesSilent, ServerCloses, SessionInfo
  <2>4. CASE ServerClosesUdp(a) \/ ServerClosesDataPlane(a)
    BY <1>0, <2>4, CurFacts DEF ServerClosesUdp, ServerClosesDataPlane, SessionInfo
  <2> QED
    BY <2>0, <2>1, <2>2, <2>3, <2>4 DEF GoroutineStep
<1>2. UNCHANGED <<pc, att, ctxDone, status>>
  BY DEF GoroutineStep, WaitReturns, WaitCancels, ForwarderEnds, ProxyEnds,
     DataPlaneEnds, GoesSilent, ServerCloses, ServerClosesUdp, ServerClosesDataPlane,
     worker
<1> QED
  BY <1>1, <1>2, PhaseKept

LEMMA CancelRefines == ASSUME Inv, Inv', CancelFunc PROVE T!Cancel
<1>1. Phase' = Phase
  BY DEF CancelFunc, worker, Phase, Cur, SetupPc, LoopPc
<1> QED
  BY <1>1 DEF CancelFunc, worker, T!Cancel

LEMMA OtherWorkerRefines == ASSUME Inv, Inv', OtherWorkerProbes PROVE UNCHANGED T!tvars
BY PhaseKept DEF OtherWorkerProbes

\* runWorker with ConnectAndTunnel, for any number of attempts, implements the
\* abstract worker the daemon's model is written with.
THEOREM WorkerImplementsTunnel == Spec => ImplementsTunnel
<1>1. Init => T!TInit
  <2> SUFFICES ASSUME Init PROVE T!TInit
    OBVIOUS
  <2>1. Phase = "conn"
    BY DEF Init, Phase, SetupPc, LoopPc
  <2>2. ctxDone = FALSE /\ status = "offline"
    BY DEF Init
  <2> QED
    BY <2>1, <2>2 DEF T!TInit
<1>2. Inv /\ Inv' /\ [Next]_vars => [T!TNext]_(T!tvars)
  <2> SUFFICES ASSUME Inv, Inv', [Next]_vars PROVE [T!TNext]_(T!tvars)
    OBVIOUS
  <2>1. CASE WorkerStep
    BY <2>1, WorkerStepRefines
  <2>2. CASE \E a \in Attempts : GoroutineStep(a)
    BY <2>2, OtherStepRefines
  <2>3. CASE Environment
    BY <2>3, OtherStepRefines, CancelRefines, OtherWorkerRefines DEF Environment, T!TNext
  <2>4. CASE UNCHANGED vars
    BY <2>4, PhaseKept DEF vars
  <2> QED
    BY <2>1, <2>2, <2>3, <2>4 DEF Next
<1> QED
  BY <1>1, <1>2, InvHolds, PTL DEF Spec, ImplementsTunnel, T!TSpec

-----------------------------------------------------------------------------
(* Framing and statistics.  The two ends may disagree on compression for a     *)
(* while: the connection broke during the negotiation, after the server's      *)
(* decision.  The set-up then goes on, but with a closed connection no         *)
(* declaration succeeds, so such an attempt never gets past "tcp" or "udp".    *)

Agree(s) == s.compress = s.srvCompress

\* What the current attempt s looks like at place p, with the statistics at st.
CurShows(p, s, st) ==
  /\ ~Agree(s) =>
       s.conn = "closed"
         /\ p \in {"dataPlane", "tcp", "udp", "return", "backoff", "done"}
  /\ s.established => Agree(s)
  /\ st = "online" =>
       s.wait # "none" /\ p \notin {"connErr", "return", "backoff", "done"}

FramingInv ==
  /\ CurShows(pc, sess[att], stats)
  /\ \A a \in Attempts : a < att /\ sess[a].established => Agree(sess[a])
  /\ \A a \in Attempts : a > att => Agree(sess[a])

LEMMA FramingInvImplies ==
  ASSUME Inv, FramingInv
  PROVE  FramingAgrees /\ StatsFollow
<1>1. FramingAgrees
  <2> SUFFICES ASSUME NEW a \in Attempts, sess[a].established
               PROVE  sess[a].compress = sess[a].srvCompress
    BY DEF FramingAgrees
  <2>1. a < att \/ a = att \/ a > att
    BY CurFacts DEF Attempts
  <2> QED
    BY <2>1 DEF FramingInv, CurShows, Agree
<1>2. StatsFollow
  BY CurFacts DEF FramingInv, CurShows, StatsFollow, Over, Cur, Attempts
<1> QED
  BY <1>1, <1>2

LEMMA FramingInit == Init => FramingInv
<1> SUFFICES ASSUME Init PROVE FramingInv
  OBVIOUS
<1>1. att \in Attempts /\ \A a \in Attempts : sess[a] = NoSession
  BY SessionAssumption DEF Init, Attempts
<1>2. NoSession.compress = NoSession.srvCompress /\ ~NoSession.established
  BY DEF NoSession
<1> QED
  BY <1>1, <1>2 DEF Init, FramingInv, CurShows, Agree

(* The worker's own steps, as in CurStep and CurSame. *)
LEMMA FramingCurStep ==
  ASSUME Inv, FramingInv, NEW s \in SessionInfo, Update(s), att' = att,
         CurShows(pc', s, stats')
  PROVE  FramingInv'
<1> USE CurFacts
<1>1. sess'[att] = s /\ \A a \in Attempts : a # att => sess'[a] = sess[a]
  BY DEF Update
<1>2. CurShows(pc', sess'[att'], stats')
  BY <1>1
<1>3. \A a \in Attempts : a < att \/ a > att => a # att
  BY DEF Attempts
<1> QED
  BY <1>1, <1>2, <1>3 DEF FramingInv, CurShows, Agree

LEMMA FramingCurSame ==
  ASSUME Inv, FramingInv, sess' = sess, att' = att, CurShows(pc', Cur, stats')
  PROVE  FramingInv'
<1>1. Update(Cur)
  BY CurFacts DEF Update
<1> QED
  BY <1>1, CurFacts, FramingCurStep

LEMMA FramingSetupFailed ==
  ASSUME Inv, FramingInv, NEW e, SetupFailed(e), pc \in SetupPc
  PROVE  FramingInv'
<1> DEFINE s == Closed(Cur)
<1> USE CurFacts
<1>1. s \in SessionInfo /\ s.established = Cur.established /\ (Agree(s) <=> Agree(Cur))
      /\ (Cur.conn = "closed" => s.conn = "closed")
  BY DEF Closed, SessionInfo, Agree
<1>2. pc' = "return" /\ stats' = "offline" /\ att' = att /\ Update(s)
  BY DEF SetupFailed, Goto
<1>3. CurShows(pc, Cur, stats)
  BY DEF FramingInv
<1>4. CurShows(pc', s, stats')
  BY <1>1, <1>2, <1>3 DEF CurShows
<1> HIDE DEF s
<1> QED
  BY <1>1, <1>2, <1>4, FramingCurStep

LEMMA FramingSetupStep ==
  ASSUME Inv, FramingInv, NEW p, NEW s \in SessionInfo, SetupStep(p, s),
         CurShows(p, s, stats)
  PROVE  FramingInv'
<1>1. pc' = p /\ stats' = stats /\ att' = att /\ Update(s)
  BY DEF SetupStep, Goto, worker
<1> QED
  BY <1>1, FramingCurStep

LEMMA FramingDisconnect ==
  ASSUME Inv, FramingInv, NEW e, Disconnect(e), pc \in LoopPc
  PROVE  FramingInv'
<1> DEFINE s == [Closed(Cur) EXCEPT !.cancel = TRUE]
<1> USE CurFacts
<1>1. s \in SessionInfo /\ s.established = Cur.established /\ (Agree(s) <=> Agree(Cur))
  BY DEF Closed, SessionInfo, Agree
<1>2. pc' = "return" /\ stats' = "offline" /\ att' = att /\ Update(s)
  BY DEF Disconnect, Goto
<1>3. CurShows(pc, Cur, stats)
  BY DEF FramingInv
<1>4. CurShows(pc', s, stats')
  BY <1>1, <1>2, <1>3 DEF CurShows, LoopPc
<1> HIDE DEF s
<1> QED
  BY <1>1, <1>2, <1>4, FramingCurStep

LEMMA FramingSetup == ASSUME Inv, FramingInv, Setup PROVE FramingInv'
<1> USE CurFacts DEF At
<1>0. CurShows(pc, Cur, stats)
  BY DEF FramingInv
<1>1. CASE ReadKey
  BY <1>0, <1>1, FramingSetupStep, FramingSetupFailed DEF ReadKey, CurShows, SetupPc
<1>2. ASSUME NEW quic \in BOOLEAN, NEW tcp \in BOOLEAN, NEW expired \in BOOLEAN,
             Dial(quic, tcp, expired)
      PROVE  FramingInv'
  <2> DEFINE mode == DialMode(quic, tcp, expired)
             s == [Cur EXCEPT !.conn = "up", !.mode = mode]
  <2>1. mode \in {"none", "tcp", "quic"}
    BY DEF DialMode
  <2>2. Agree(Cur) /\ pc = "dial" /\ att' = att
    BY <1>0, <1>2 DEF Dial, CurShows
  <2>3. CASE mode = "none"
    <3>1. pc' = "return" /\ stats' = "offline" /\ sess' = sess
      BY <1>2, <2>3 DEF Dial, Goto
    <3>2. CurShows(pc', Cur, stats')
      BY <2>2, <3>1 DEF CurShows
    <3> QED
      BY <2>2, <3>1, <3>2, FramingCurSame
  <2>4. CASE mode # "none"
    <3>1. pc' = "handshake" /\ stats' = stats /\ Update(s)
      BY <1>2, <2>4 DEF Dial, Goto
    <3>2. s \in SessionInfo /\ Agree(s) /\ s.wait = Cur.wait
      BY <2>1, <2>2 DEF SessionInfo, Agree
    <3>3. CurShows(pc', s, stats')
      BY <1>0, <2>2, <3>1, <3>2 DEF CurShows
    <3> HIDE DEF s
    <3> QED
      BY <2>2, <3>1, <3>2, <3>3, FramingCurStep
  <2> QED
    BY <2>3, <2>4
<1>3. CASE Handshake
  <2> DEFINE s == [Cur EXCEPT !.wait = "wait"]
             p == IF config.Compress THEN "compress" ELSE DataPlanePc
  <2>1. CASE SetupFailed("error")
    BY <1>3, <2>1, FramingSetupFailed DEF Handshake, SetupPc
  <2>2. CASE Update(s) /\ Goto(p) /\ att' = att
    <3>1. s \in SessionInfo /\ s.wait = "wait" /\ Agree(s)
      BY <1>0, <1>3 DEF SessionInfo, Agree, Handshake, CurShows
    <3>2. p \in {"compress", "dataPlane", "tcp", "udp"}
      BY PlaceFacts
    <3>3. CurShows(pc', s, stats')
      BY <2>2, <3>1, <3>2 DEF CurShows, Goto
    <3> HIDE DEF s
    <3> QED
      BY <2>2, <3>1, <3>3, FramingCurStep
  <2> QED
    BY <1>3, <2>1, <2>2 DEF Handshake
<1>4. ASSUME NEW ok \in BOOLEAN, Negotiate(ok) PROVE FramingInv'
  <2> DEFINE s == [Cur EXCEPT !.compress = ok, !.srvCompress = ok]
             t == [Cur EXCEPT !.srvCompress = ok]
  <2>1. s \in SessionInfo /\ t \in SessionInfo /\ Agree(s) /\ s.wait = Cur.wait
        /\ t.wait = Cur.wait /\ t.conn = Cur.conn /\ t.established = Cur.established
    BY DEF SessionInfo, Agree
  <2>2. ~Cur.established
    BY <1>4 DEF Negotiate, CurOK, SetupPc
  <2>3. DataPlanePc \in {"dataPlane", "tcp", "udp"}
    BY PlaceFacts
  <2>4. CASE SetupStep(DataPlanePc, s)
    <3>1. CurShows(DataPlanePc, s, stats)
      BY <1>0, <2>1, <2>3 DEF CurShows
    <3> HIDE DEF s
    <3> QED
      BY <2>1, <2>4, <3>1, FramingSetupStep
  <2>5. CASE Cur.conn = "closed" /\ SetupStep(DataPlanePc, t)
    <3>1. CurShows(DataPlanePc, t, stats)
      BY <1>0, <2>1, <2>2, <2>3, <2>5 DEF CurShows
    <3> HIDE DEF t
    <3> QED
      BY <2>1, <2>5, <3>1, FramingSetupStep
  <2> QED
    BY <1>4, <2>4, <2>5 DEF Negotiate
<1>5. CASE NegotiateTimeout
  BY <1>5, FramingSetupFailed DEF NegotiateTimeout, SetupPc
<1>6. CASE OpenDataPlane
  <2> DEFINE s == [Cur EXCEPT !.dp = "run"]
  <2>1. s \in SessionInfo /\ (Agree(s) <=> Agree(Cur)) /\ s.wait = Cur.wait
        /\ s.conn = Cur.conn /\ s.established = Cur.established
    BY DEF SessionInfo, Goroutine, Agree
  <2>2. DeclarePc \in {"tcp", "udp"}
    BY PlaceFacts
  <2>3. CurShows(DeclarePc, s, stats) /\ CurShows(DeclarePc, Cur, stats)
    BY <1>0, <2>1, <2>2 DEF CurShows
  <2> HIDE DEF s
  <2> QED
    BY <1>6, <2>1, <2>3, FramingSetupStep DEF OpenDataPlane, s
<1>7. CASE DeclareTcp
  <2> DEFINE s == [Cur EXCEPT !.declared = @ \cup {"tcp"}, !.fwd = "run"]
  <2>1. s \in SessionInfo /\ (Agree(s) <=> Agree(Cur)) /\ s.wait = Cur.wait
        /\ s.conn = Cur.conn /\ s.established = Cur.established
    BY DEF SessionInfo, Goroutine, Agree
  <2>2. AfterTcp \in {"udp", "established"}
    BY DEF AfterTcp
  <2>3. CASE Cur.conn = "up" /\ SetupStep(AfterTcp, s)
    <3>1. CurShows(AfterTcp, s, stats)
      BY <1>0, <2>1, <2>2, <2>3 DEF CurShows
    <3> HIDE DEF s
    <3> QED
      BY <2>1, <2>3, <3>1, FramingSetupStep
  <2>4. CASE SetupFailed("rejected") \/ SetupFailed("error")
    BY <1>7, <2>4, FramingSetupFailed DEF DeclareTcp, SetupPc
  <2> QED
    BY <1>7, <2>3, <2>4 DEF DeclareTcp
<1>8. ASSUME NEW datagram \in BOOLEAN, DeclareUdp(datagram) PROVE FramingInv'
  <2> DEFINE s == [Cur EXCEPT !.declared = @ \cup {"udp"}, !.proxy = "run"]
             t == [Cur EXCEPT !.declared = @ \cup {"udp"}]
  <2>1. s \in SessionInfo /\ (Agree(s) <=> Agree(Cur)) /\ s.wait = Cur.wait
        /\ s.conn = Cur.conn /\ s.established = Cur.established
    BY DEF SessionInfo, Goroutine, Agree
  <2>4. t \in SessionInfo /\ (Agree(t) <=> Agree(Cur)) /\ t.wait = Cur.wait
        /\ t.conn = Cur.conn /\ t.established = Cur.established
    BY DEF SessionInfo, Agree
  <2>2. CASE Cur.conn = "up" /\ (SetupStep("established", s) \/ SetupStep("udpOpen", t))
    <3>1. CurShows("established", s, stats) /\ CurShows("udpOpen", t, stats)
      BY <1>0, <2>1, <2>2, <2>4 DEF CurShows
    <3> HIDE DEF s, t
    <3> QED
      BY <2>1, <2>2, <2>4, <3>1, FramingSetupStep
  <2>3. CASE SetupFailed("rejected") \/ SetupFailed("error")
    BY <1>8, <2>3, FramingSetupFailed DEF DeclareUdp, SetupPc
  <2> QED
    BY <1>8, <2>2, <2>3 DEF DeclareUdp
<1>9. CASE OpenUdpChannels
  <2> DEFINE s == [Cur EXCEPT !.proxy = "run"]
  <2>1. s \in SessionInfo /\ (Agree(s) <=> Agree(Cur)) /\ s.wait = Cur.wait
        /\ s.conn = Cur.conn /\ s.established = Cur.established
    BY DEF SessionInfo, Goroutine, Agree
  <2>2. CASE Cur.conn = "up" /\ SetupStep("established", s)
    <3>1. CurShows("established", s, stats)
      BY <1>0, <2>1, <2>2 DEF CurShows
    <3> HIDE DEF s
    <3> QED
      BY <2>1, <2>2, <3>1, FramingSetupStep
  <2>3. CASE SetupFailed("error")
    BY <1>9, <2>3, FramingSetupFailed DEF OpenUdpChannels, SetupPc
  <2> QED
    BY <1>9, <2>2, <2>3 DEF OpenUdpChannels
<1>10. CASE OnTunnelEstablished
  <2> DEFINE s == [Cur EXCEPT !.established = TRUE]
  <2>1. s \in SessionInfo /\ (Agree(s) <=> Agree(Cur)) /\ s.wait = Cur.wait
    BY DEF SessionInfo, Agree
  <2>2. Agree(Cur) /\ Update(s) /\ pc' = "loop" /\ stats' = stats /\ att' = att
    BY <1>0, <1>10 DEF OnTunnelEstablished, CurShows, Goto
  <2>3. CurShows(pc', s, stats')
    BY <1>0, <2>1, <2>2 DEF CurShows
  <2> HIDE DEF s
  <2> QED
    BY <2>1, <2>2, <2>3, FramingCurStep
<1> QED
  BY <1>1, <1>2, <1>3, <1>4, <1>5, <1>6, <1>7, <1>8, <1>9, <1>10 DEF Setup

LEMMA FramingMainLoop == ASSUME Inv, FramingInv, MainLoop PROVE FramingInv'
<1> USE CurFacts DEF At
<1>0. CurShows(pc, Cur, stats)
  BY DEF FramingInv
<1>1. CASE \E e \in {"nil", "error"} : Disconnect(e) /\ pc \in LoopPc
  BY <1>1, FramingDisconnect
<1>2. CASE ConnectionOver
  <2>1. Closed(Cur) \in SessionInfo /\ Agree(Closed(Cur))
    BY <1>0, <1>2 DEF ConnectionOver, CurShows, Closed, SessionInfo, Agree
  <2>2. Update(Closed(Cur)) /\ pc' = "connErr" /\ stats' = "offline" /\ att' = att
    BY <1>2 DEF ConnectionOver, Goto
  <2>3. CurShows(pc', Closed(Cur), stats')
    BY <2>1, <2>2 DEF CurShows
  <2> QED
    BY <2>1, <2>2, <2>3, FramingCurStep
<1>3. CASE ReceiveConnErr
  <2> DEFINE s == [Cur EXCEPT !.connErr = "empty"]
  <2>1. s \in SessionInfo /\ Agree(s) /\ stats' # "online"
    BY <1>0, <1>3 DEF ReceiveConnErr, CurShows, SessionInfo, Agree
  <2>2. Update(s) /\ pc' = "return" /\ att' = att
    BY <1>3 DEF ReceiveConnErr, Goto
  <2>3. CurShows(pc', s, stats')
    BY <2>1, <2>2 DEF CurShows
  <2> HIDE DEF s
  <2> QED
    BY <2>1, <2>2, <2>3, FramingCurStep
<1>4. CASE /\ pc \in LoopPc \ {"connErr"} /\ pc' \in LoopPc \ {"connErr"}
           /\ UNCHANGED <<sess, att, stats>>
  <2>1. CurShows(pc', Cur, stats')
    BY <1>0, <1>4 DEF CurShows, LoopPc
  <2> QED
    BY <1>4, <2>1, FramingCurSame
<1>5. CASE ShutDown
  BY <1>1, <1>5 DEF ShutDown, LoopPc
<1>6. CASE Heartbeat \/ KeepaliveAnswered \/ PingUnsupported
           \/ (\E h, u, c \in BOOLEAN : PingAnswered(h, u, c))
  BY <1>4, <1>6 DEF Heartbeat, KeepaliveAnswered, PingUnsupported, PingAnswered,
                    Goto, worker, LoopPc
<1>7. CASE KeepaliveFails
  BY <1>1, <1>4, <1>7 DEF KeepaliveFails, LoopPc
<1>8. CASE PingFails
  BY <1>1, <1>4, <1>8 DEF PingFails, Goto, LoopPc
<1> QED
  BY <1>2, <1>3, <1>5, <1>6, <1>7, <1>8 DEF MainLoop

LEMMA FramingTail ==
  ASSUME Inv, FramingInv, WorkerTail \/ Reconnect \/ Quit
  PROVE  FramingInv'
<1> USE CurFacts DEF At, Goto
<1>0. CurShows(pc, Cur, stats)
  BY DEF FramingInv
<1>1. CASE WorkerTail \/ Quit
  <2>1. /\ pc \in {"return", "backoff"} /\ pc' \in {"backoff", "done"}
        /\ UNCHANGED <<sess, att, stats>>
    BY <1>1 DEF WorkerTail, Quit, worker
  <2>2. CurShows(pc', Cur, stats')
    BY <1>0, <2>1 DEF CurShows
  <2> QED
    BY <2>1, <2>2, FramingCurSame
<1>2. CASE Reconnect
  <2>1. att' \in Attempts /\ att' = att + 1 /\ att \in Nat
        /\ pc' = "key" /\ UNCHANGED <<sess, stats>> /\ stats # "online"
    BY <1>0, <1>2, SessionAssumption DEF Reconnect, Attempts, CurShows
  <2>2. Agree(sess[att']) /\ ~sess[att'].established
    BY <2>1 DEF FramingInv, Inv, Future
  <2>3. \A a \in Attempts : a < att' => a < att \/ a = att
    BY <2>1 DEF Attempts
  <2>4. \A a \in Attempts : a > att' => a > att
    BY <2>1 DEF Attempts
  <2> QED
    BY <1>0, <2>1, <2>2, <2>3, <2>4 DEF FramingInv, CurShows, Agree
<1> QED
  BY <1>1, <1>2

(* Other goroutines and the server change the framing of no attempt, undo no   *)
(* client.Wait and reopen no connection.                                       *)
LEMMA FramingOtherStep ==
  ASSUME Inv, FramingInv, NEW a \in Attempts, NEW s \in SessionInfo,
         sess' = [sess EXCEPT ![a] = s], UNCHANGED <<pc, att, stats>>,
         s.compress = sess[a].compress, s.srvCompress = sess[a].srvCompress,
         s.established = sess[a].established,
         sess[a].conn = "closed" => s.conn = "closed",
         sess[a].wait # "none" => s.wait # "none"
  PROVE  FramingInv'
<1> USE CurFacts
<1>1. \A b \in Attempts :
        /\ Agree(sess'[b]) <=> Agree(sess[b])
        /\ sess'[b].established = sess[b].established
        /\ sess[b].conn = "closed" => sess'[b].conn = "closed"
        /\ sess[b].wait # "none" => sess'[b].wait # "none"
  BY DEF Agree
<1>2. CurShows(pc', sess'[att'], stats')
  BY <1>1 DEF FramingInv, CurShows
<1> QED
  BY <1>1, <1>2 DEF FramingInv, CurShows, Agree

LEMMA FramingOthers ==
  ASSUME Inv, FramingInv, NEW a \in Attempts,
         \/ GoroutineStep(a) \/ GoesSilent(a) \/ ServerCloses(a)
         \/ ServerClosesUdp(a) \/ ServerClosesDataPlane(a)
  PROVE  FramingInv'
<1> DEFINE old == sess[a]
           Kept(s) == /\ s.compress = old.compress /\ s.srvCompress = old.srvCompress
                      /\ s.established = old.established
                      /\ old.conn = "closed" => s.conn = "closed"
                      /\ old.wait # "none" => s.wait # "none"
<1>0. old \in SessionInfo
  BY CurFacts
<1>1. \E s \in SessionInfo : sess' = [sess EXCEPT ![a] = s] /\ Kept(s)
  <2>1. CASE WaitReturns(a)
    <3> DEFINE s == [old EXCEPT !.wait = "cancel", !.connErr = "full"]
    <3>1. s \in SessionInfo /\ Kept(s)
      BY <1>0, <2>1 DEF WaitReturns, SessionInfo, Goroutine
    <3>2. sess' = [sess EXCEPT ![a] = s]
      BY <2>1 DEF WaitReturns
    <3> QED
      BY <3>1, <3>2
  <2>2. CASE WaitCancels(a)
    <3> DEFINE s == [old EXCEPT !.wait = "done", !.cancel = TRUE]
    <3>1. s \in SessionInfo /\ Kept(s)
      BY <1>0, <2>2 DEF WaitCancels, SessionInfo, Goroutine
    <3>2. sess' = [sess EXCEPT ![a] = s]
      BY <2>2 DEF WaitCancels
    <3> QED
      BY <3>1, <3>2
  <2>3. CASE ForwarderEnds(a)
    <3> DEFINE s == [old EXCEPT !.fwd = "done"]
    <3>1. s \in SessionInfo /\ Kept(s)
      BY <1>0, <2>3 DEF ForwarderEnds, SessionInfo, Goroutine
    <3>2. sess' = [sess EXCEPT ![a] = s]
      BY <2>3 DEF ForwarderEnds
    <3> QED
      BY <3>1, <3>2
  <2>4. CASE ProxyEnds(a) \/ ServerClosesUdp(a)
    <3> DEFINE s == [old EXCEPT !.proxy = "done"]
    <3>1. s \in SessionInfo /\ Kept(s)
      BY <1>0, <2>4 DEF ProxyEnds, ServerClosesUdp, SessionInfo, Goroutine
    <3>2. sess' = [sess EXCEPT ![a] = s]
      BY <2>4 DEF ProxyEnds, ServerClosesUdp
    <3> QED
      BY <3>1, <3>2
  <2>5. CASE DataPlaneEnds(a) \/ ServerClosesDataPlane(a)
    <3> DEFINE s == [old EXCEPT !.dp = "done"]
    <3>1. s \in SessionInfo /\ Kept(s)
      BY <1>0, <2>5 DEF DataPlaneEnds, ServerClosesDataPlane, SessionInfo, Goroutine
    <3>2. sess' = [sess EXCEPT ![a] = s]
      BY <2>5 DEF DataPlaneEnds, ServerClosesDataPlane
    <3> QED
      BY <3>1, <3>2
  <2>6. CASE GoesSilent(a)
    <3> DEFINE s == [old EXCEPT !.conn = "silent"]
    <3>1. s \in SessionInfo /\ Kept(s)
      BY <1>0, <2>6 DEF GoesSilent, SessionInfo, Goroutine
    <3>2. sess' = [sess EXCEPT ![a] = s]
      BY <2>6 DEF GoesSilent
    <3> QED
      BY <3>1, <3>2
  <2>7. CASE ServerCloses(a)
    <3> DEFINE s == [old EXCEPT !.conn = "closed"]
    <3>1. s \in SessionInfo /\ Kept(s)
      BY <1>0, <2>7 DEF ServerCloses, SessionInfo, Goroutine
    <3>2. sess' = [sess EXCEPT ![a] = s]
      BY <2>7 DEF ServerCloses
    <3> QED
      BY <3>1, <3>2
  <2> QED
    BY <2>1, <2>2, <2>3, <2>4, <2>5, <2>6, <2>7 DEF GoroutineStep
<1>2. UNCHANGED <<pc, att, stats>>
  BY DEF GoroutineStep, WaitReturns, WaitCancels, ForwarderEnds, ProxyEnds,
         DataPlaneEnds, GoesSilent, ServerCloses, ServerClosesUdp,
         ServerClosesDataPlane, worker
<1> QED
  BY <1>1, <1>2, FramingOtherStep

LEMMA FramingNext == ASSUME Inv, FramingInv, [Next]_vars PROVE FramingInv'
<1>1. CASE WorkerStep
  BY <1>1, FramingSetup, FramingMainLoop, FramingTail DEF WorkerStep
<1>2. CASE CancelFunc \/ OtherWorkerProbes \/ UNCHANGED vars
  <2>1. UNCHANGED <<pc, att, sess, stats>>
    BY <1>2 DEF CancelFunc, OtherWorkerProbes, vars, worker
  <2>2. CurShows(pc', Cur, stats')
    BY <2>1, CurFacts DEF FramingInv, CurShows
  <2> QED
    BY <2>1, <2>2, FramingCurSame
<1> QED
  BY <1>1, <1>2, FramingOthers DEF Next, Environment

LEMMA FramingHolds == Spec => []FramingInv
<1>1. Inv /\ FramingInv /\ [Next]_vars => FramingInv'
  BY FramingNext
<1> QED
  BY <1>1, FramingInit, InvHolds, PTL DEF Spec

\* In every tunnel that is established, client and server agree on compression,
\* wherever in the negotiation a connection broke or timed out.
THEOREM EstablishedFramesAgree == Spec => []FramingAgrees
<1>1. Inv /\ FramingInv => FramingAgrees
  BY FramingInvImplies
<1> QED
  BY <1>1, InvHolds, FramingHolds, PTL

\* The statistics show a connection only inside an attempt that shook hands, on
\* every path out of ConnectAndTunnel.
THEOREM StatsFollowSession == Spec => []StatsFollow
<1>1. Inv /\ FramingInv => StatsFollow
  BY FramingInvImplies
<1> QED
  BY <1>1, InvHolds, FramingHolds, PTL
=============================================================================
