----------------------------- MODULE PipeProofs -----------------------------
(***************************************************************************)
(* The forwarded connection implements Pipe: every step of DataPlane is a   *)
(* step of the pipe or leaves it alone, whatever the buffers, the bounds,   *)
(* the compression and the other connections.                               *)
(*                                                                         *)
(* The pipe has no goroutines and no buffers, so the invariant has to say   *)
(* where the units are that one end has sent and the other has not got yet, *)
(* that none is lost before something failed, that a goroutine which ended  *)
(* without a failure had seen the end of its side, and that the frames on   *)
(* the channel are headers followed by their payloads.                      *)
(***************************************************************************)
EXTENDS DataPlane, FiniteSetTheorems, SequenceTheorems, TLAPS

AppType == [fin: BOOLEAN, reset: BOOLEAN, end: Ends]
RemoteType == [fin: BOOLEAN, gone: BOOLEAN, end: Ends, partial: BOOLEAN]
Both == {"local", "ch"}

Types ==
  /\ sshUp \in BOOLEAN /\ ctxDone \in BOOLEAN
  /\ handler \in {"off", "wait", "forced", "returned"}
  /\ copyIn \in {"read", "write", "done"}
  /\ copyOut \in {"read", "write", "payload", "done"}
  /\ sent \in [Dirs -> Nat] /\ got \in [Dirs -> Nat]
  /\ chIn \in Nat /\ sockOut \in Nat /\ sockIn \in Nat
  /\ chOut \in Seq(Frames)
  /\ open \in {{}, Both}
  /\ app \in AppType /\ remote \in RemoteType
  /\ main \in {Main, NoConn} /\ opener \in [Conns -> OpenerSteps]

\* Before handleChannel runs nothing has been sent, read or closed; it is started
\* by the opener of the connection that is followed, once.
Unopened ==
  /\ main # NoConn /\ opener[main] # "piping" => handler = "off"
  /\ handler = "off" =>
       /\ copyIn = "read" /\ copyOut = "read" /\ half = {} /\ open = {}
       /\ sockOut = 0 /\ sent["in"] = 0 /\ sent["out"] = 0
       /\ app.end = "none" /\ ~app.fin /\ ~app.reset
       /\ remote.end = "none" /\ ~remote.fin /\ ~remote.gone

\* Only a cancelled handler closes under its goroutines.
ClosedLate ==
  /\ handler = "wait" => open = Both
  /\ handler \notin {"off", "wait"} => open = {}
  /\ handler = "forced" => ctxDone
  /\ Running /\ open = {} => ctxDone \/ (copyIn = "done" /\ copyOut = "done")

\* The frame before position n of the channel, or before its first one, is a header.
HeaderBefore(n) == IF n = 1 THEN remote.partial ELSE chOut[n - 1] = "header"

\* A payload follows its header and nothing else does; writeRawFrame is between the
\* two when it is about to write the payload.
Framed ==
  /\ \A n \in 1..Len(chOut) :
       /\ chOut[n] = "payload" <=> HeaderBefore(n)
       /\ chOut[n] = "plain" <=> ~Compress
  /\ remote.partial => Compress
  /\ copyOut = "payload" => Compress
  /\ copyOut # "done" \/ ~Faulty => (copyOut = "payload" <=> HeaderBefore(Len(chOut) + 1))

\* A goroutine that ended without a failure had seen the end of its side.
EndSeen ==
  /\ copyIn = "done" => Faulty \/ (remote.fin /\ chIn = 0)
  /\ copyOut = "done" => Faulty \/ (app.fin /\ sockIn = 0)
  /\ "local" \in half => copyIn = "done"
  /\ "ch" \in half => copyOut = "done"
  /\ app.end # "none" =>
       sockOut = 0 /\ (app.reset \/ "local" \notin open \/ copyIn = "done")

Units(frames) == Cardinality({n \in 1..Len(frames) : frames[n] # "header"})
HoldsIn == IF copyIn = "write" THEN 1 ELSE 0
HoldsOut == IF copyOut \in {"write", "payload"} THEN 1 ELSE 0

\* What was sent and not received is in the buffers and in the goroutines' hands;
\* without a failure all of it is.
Counted ==
  /\ got["in"] + sockOut + HoldsIn + chIn <= sent["in"]
  /\ got["out"] + Units(chOut) + HoldsOut + sockIn <= sent["out"]
  /\ ~Faulty /\ app.end = "none" => got["in"] + sockOut + HoldsIn + chIn = sent["in"]
  /\ ~Faulty => got["out"] + Units(chOut) + HoldsOut + sockIn = sent["out"]

PipeInv == Types /\ Unopened /\ ClosedLate /\ Framed /\ EndSeen /\ Counted

-----------------------------------------------------------------------------
(* Units on the channel *)

UnitsAt(frames) == {n \in 1..Len(frames) : frames[n] # "header"}

LEMMA UnitsFinite ==
  ASSUME NEW s \in Seq(Frames)
  PROVE  IsFiniteSet(UnitsAt(s)) /\ Units(s) = Cardinality(UnitsAt(s)) /\ Units(s) \in Nat
<1>1. Len(s) \in Nat /\ IsFiniteSet(1..Len(s))
  BY FS_Interval
<1>2. IsFiniteSet(UnitsAt(s)) /\ Units(s) = Cardinality(UnitsAt(s))
  BY <1>1, FS_Subset DEF UnitsAt, Units
<1> QED
  BY <1>2, FS_CardinalityType

LEMMA UnitsEmpty == Units(<<>>) = 0
<1>1. UnitsAt(<<>>) = {}
  BY DEF UnitsAt
<1> QED
  BY <1>1, FS_EmptySet DEF Units, UnitsAt

LEMMA UnitsAppend ==
  ASSUME NEW s \in Seq(Frames), NEW f \in Frames
  PROVE  Units(Append(s, f)) = Units(s) + (IF f = "header" THEN 0 ELSE 1)
<1> DEFINE t == Append(s, f)
<1>1. /\ t \in Seq(Frames) /\ Len(t) = Len(s) + 1 /\ t[Len(s) + 1] = f
      /\ \A n \in 1..Len(s) : t[n] = s[n]
      /\ Len(s) \in Nat
  BY AppendProperties
<1>2. IsFiniteSet(UnitsAt(s)) /\ Units(s) = Cardinality(UnitsAt(s)) /\ Units(s) \in Nat
  BY UnitsFinite
<1>3. Units(t) = Cardinality(UnitsAt(t))
  BY <1>1, UnitsFinite
<1> HIDE DEF t
<1>4. CASE f = "header"
  <2>1. UnitsAt(t) = UnitsAt(s)
    BY <1>1, <1>4 DEF UnitsAt
  <2> QED
    BY <1>2, <1>3, <1>4, <2>1 DEF t
<1>5. CASE f # "header"
  <2>1. UnitsAt(t) = UnitsAt(s) \cup {Len(s) + 1} /\ Len(s) + 1 \notin UnitsAt(s)
    BY <1>1, <1>5 DEF UnitsAt
  <2>2. Cardinality(UnitsAt(s) \cup {Len(s) + 1}) = Cardinality(UnitsAt(s)) + 1
    BY <1>2, <2>1, FS_AddElement
  <2> QED
    BY <1>2, <1>3, <1>5, <2>1, <2>2 DEF t
<1> QED
  BY <1>4, <1>5

\* Taking the first frame away moves the others up by one.
LEMMA UnitsTail ==
  ASSUME NEW s \in Seq(Frames), s # <<>>
  PROVE  Units(s) = Units(Tail(s)) + (IF Head(s) = "header" THEN 0 ELSE 1)
<1> DEFINE t == Tail(s)
           rest == UnitsAt(s) \ {1}
<1>1. /\ t \in Seq(Frames) /\ Len(t) = Len(s) - 1 /\ Len(s) \in Nat /\ Len(s) > 0
      /\ \A n \in 1..Len(t) : t[n] = s[n + 1]
      /\ Head(s) = s[1]
  BY HeadTailProperties
<1>2. /\ IsFiniteSet(UnitsAt(s)) /\ Units(s) = Cardinality(UnitsAt(s))
      /\ IsFiniteSet(UnitsAt(t)) /\ Units(t) = Cardinality(UnitsAt(t)) /\ Units(t) \in Nat
  BY <1>1, UnitsFinite
<1> HIDE DEF t
<1>3. Cardinality(rest) = Cardinality(UnitsAt(t))
  <2> DEFINE move == [n \in UnitsAt(t) |-> n + 1]
  <2>1. ASSUME NEW n \in UnitsAt(t) PROVE n + 1 \in rest
    BY <1>1 DEF UnitsAt
  <2>2. ASSUME NEW m \in rest PROVE m - 1 \in UnitsAt(t) /\ m = (m - 1) + 1
    BY <1>1 DEF UnitsAt
  <2>3. move \in [UnitsAt(t) -> rest]
    BY <2>1
  <2>4. move \in Injection(UnitsAt(t), rest)
    BY <2>3 DEF Injection, IsInjective, UnitsAt
  <2>5. move \in Surjection(UnitsAt(t), rest)
    BY <2>2, <2>3 DEF Surjection
  <2>6. ExistsBijection(UnitsAt(t), rest)
    BY <2>4, <2>5 DEF ExistsBijection, Bijection
  <2> QED
    BY <1>2, <2>6, FS_Bijection
<1>4. CASE s[1] = "header"
  <2>1. rest = UnitsAt(s)
    BY <1>4 DEF UnitsAt
  <2>2. Units(s) = Units(t)
    <3> HIDE DEF rest
    <3> QED
      BY <1>2, <1>3, <2>1
  <2> QED
    BY <1>1, <1>2, <1>4, <2>2 DEF t
<1>5. CASE s[1] # "header"
  <2>1. 1 \in UnitsAt(s)
    BY <1>1, <1>5 DEF UnitsAt
  <2>2. Cardinality(rest) = Cardinality(UnitsAt(s)) - 1
    BY <1>2, <2>1, FS_RemoveElement
  <2>3. Cardinality(UnitsAt(s)) \in Nat
    BY <1>2, FS_CardinalityType
  <2> QED
    BY <1>1, <1>2, <1>3, <1>5, <2>2, <2>3 DEF t
<1> QED
  BY <1>4, <1>5

-----------------------------------------------------------------------------
(* The two ends *)

LEMMA AppSet ==
  ASSUME NEW a \in AppType, NEW e \in Ends
  PROVE  /\ [a EXCEPT !.end = e] \in AppType
         /\ [a EXCEPT !.end = e].end = e
         /\ [a EXCEPT !.end = e].fin <=> a.fin
         /\ [a EXCEPT !.end = e].reset <=> a.reset
BY DEF AppType

LEMMA AppFin ==
  ASSUME NEW a \in AppType
  PROVE  /\ [a EXCEPT !.fin = TRUE] \in AppType
         /\ [a EXCEPT !.fin = TRUE].fin
         /\ [a EXCEPT !.fin = TRUE].end = a.end
         /\ [a EXCEPT !.fin = TRUE].reset <=> a.reset
BY DEF AppType

LEMMA AppReset ==
  ASSUME NEW a \in AppType, NEW e \in Ends
  PROVE  /\ [a EXCEPT !.reset = TRUE, !.end = e] \in AppType
         /\ [a EXCEPT !.reset = TRUE, !.end = e].end = e
         /\ [a EXCEPT !.reset = TRUE, !.end = e].fin <=> a.fin
         /\ [a EXCEPT !.reset = TRUE, !.end = e].reset
BY DEF AppType

LEMMA RemoteSet ==
  ASSUME NEW r \in RemoteType, NEW e \in Ends
  PROVE  /\ [r EXCEPT !.end = e] \in RemoteType
         /\ [r EXCEPT !.end = e].end = e
         /\ [r EXCEPT !.end = e].fin <=> r.fin
         /\ [r EXCEPT !.end = e].gone <=> r.gone
         /\ [r EXCEPT !.end = e].partial <=> r.partial
BY DEF RemoteType

LEMMA RemoteFin ==
  ASSUME NEW r \in RemoteType
  PROVE  /\ [r EXCEPT !.fin = TRUE] \in RemoteType
         /\ [r EXCEPT !.fin = TRUE].end = r.end
         /\ [r EXCEPT !.fin = TRUE].fin
         /\ [r EXCEPT !.fin = TRUE].gone <=> r.gone
         /\ [r EXCEPT !.fin = TRUE].partial <=> r.partial
BY DEF RemoteType

LEMMA RemoteGone ==
  ASSUME NEW r \in RemoteType, NEW e \in Ends
  PROVE  /\ [r EXCEPT !.gone = TRUE, !.fin = TRUE, !.end = e] \in RemoteType
         /\ [r EXCEPT !.gone = TRUE, !.fin = TRUE, !.end = e].end = e
         /\ [r EXCEPT !.gone = TRUE, !.fin = TRUE, !.end = e].fin
         /\ [r EXCEPT !.gone = TRUE, !.fin = TRUE, !.end = e].gone
         /\ [r EXCEPT !.gone = TRUE, !.fin = TRUE, !.end = e].partial <=> r.partial
BY DEF RemoteType

-----------------------------------------------------------------------------
(* Steps that the ends do not see *)

LEMMA PipeInvInit == Init => PipeInv
<1> SUFFICES ASSUME Init PROVE PipeInv
  OBVIOUS
<1>1. /\ app \in AppType /\ app.end = "none" /\ ~app.fin /\ ~app.reset
  BY DEF Init, ChannelInit, AppType, Ends
<1>2. /\ remote \in RemoteType /\ remote.end = "none" /\ ~remote.fin /\ ~remote.gone
      /\ ~remote.partial
  BY DEF Init, ChannelInit, RemoteType, Ends
<1>3. /\ chOut = <<>> /\ chOut \in Seq(Frames) /\ Len(chOut) = 0 /\ Units(chOut) = 0
  BY UnitsEmpty DEF Init, ChannelInit
<1>4. /\ sent \in [Dirs -> Nat] /\ got \in [Dirs -> Nat]
      /\ \A d \in Dirs : sent[d] = 0 /\ got[d] = 0
  BY DEF Init, ChannelInit
<1>5. Types
  BY <1>1, <1>2, <1>3, <1>4 DEF Init, ChannelInit, Types, OpenerSteps
<1>6. Unopened /\ ClosedLate
  BY <1>1, <1>2, <1>4 DEF Init, ChannelInit, Unopened, ClosedLate, Running, Dirs
<1>7. Framed
  BY <1>2, <1>3 DEF Init, ChannelInit, Framed, HeaderBefore
<1>8. EndSeen
  BY <1>1 DEF Init, ChannelInit, EndSeen
<1>9. Counted
  BY <1>3, <1>4 DEF Init, ChannelInit, Counted, HoldsIn, HoldsOut, Dirs
<1> QED
  BY <1>5, <1>6, <1>7, <1>8, <1>9 DEF PipeInv

\* A goroutine that still works has its connections, or the handler was cancelled.
LEMMA StillOpen ==
  ASSUME PipeInv, Running, copyIn # "done" \/ copyOut # "done", open # Both
  PROVE  Faulty
BY DEF PipeInv, Types, ClosedLate, Faulty

\* What every step of a goroutine leaves alone.
Inside ==
  /\ Running
  /\ UNCHANGED <<sshUp, ctxDone, handler, sent, got, open, app, remote, main, opener>>

LEMMA InsideKeeps ==
  ASSUME PipeInv, Inside,
         \/ copyIn # "done" /\ UNCHANGED copyOut
         \/ copyOut # "done" /\ UNCHANGED copyIn
  PROVE  /\ Unopened' /\ ClosedLate'
         /\ (Faulty' <=> Faulty) /\ (Running' <=> Running)
BY DEF PipeInv, Inside, Types, Unopened, ClosedLate, Faulty, Running

LEMMA ReadInInv ==
  ASSUME PipeInv, ReadIn, UNCHANGED plane
  PROVE  PipeInv' /\ Inside
<1>1. /\ Inside /\ copyIn = "read" /\ UNCHANGED <<copyOut, sockOut, sockIn, chOut>>
  BY DEF ReadIn, Up, plane, Inside
<1>2. \/ chIn > 0 /\ chIn' = chIn - 1 /\ copyIn' = "write" /\ UNCHANGED half
      \/ /\ ChAtEnd /\ copyIn' = "done" /\ UNCHANGED chIn
         /\ half' \subseteq half \cup {"local"}
  BY DEF ReadIn, FinishIn
<1>3. Types'
  BY <1>1, <1>2 DEF PipeInv, Types, Inside
<1>4. Unopened' /\ ClosedLate' /\ (Faulty' <=> Faulty)
  BY <1>1, InsideKeeps
<1>5. Framed'
  BY <1>1, <1>4 DEF PipeInv, Framed, HeaderBefore, Inside
<1>6. ChAtEnd => Faulty \/ (remote.fin /\ chIn = 0)
  BY <1>1, StillOpen DEF ChAtEnd, Faulty, Inside, Both
<1>7. EndSeen'
  BY <1>1, <1>2, <1>4, <1>6 DEF PipeInv, EndSeen, Inside
<1>8. Counted'
  <2>1. HoldsIn = 0 /\ HoldsOut' = HoldsOut
    BY <1>1 DEF HoldsIn, HoldsOut
  <2>2. (HoldsIn' = 1 /\ chIn' = chIn - 1) \/ (HoldsIn' = 0 /\ chIn' = chIn)
    BY <1>2 DEF HoldsIn
  <2>3. got["in"] \in Nat /\ sent["in"] \in Nat /\ sockOut \in Nat /\ chIn \in Nat /\ chIn' \in Nat
    BY <1>3 DEF PipeInv, Types, Dirs
  <2>4. got'["in"] + sockOut' + HoldsIn' + chIn' = got["in"] + sockOut + HoldsIn + chIn
    BY <1>1, <2>1, <2>2, <2>3 DEF Inside
  <2> QED
    BY <1>1, <1>4, <2>1, <2>4 DEF PipeInv, Counted, Inside
<1> QED
  BY <1>1, <1>3, <1>4, <1>5, <1>7, <1>8 DEF PipeInv

LEMMA WriteInInv ==
  ASSUME PipeInv, WriteIn, UNCHANGED plane
  PROVE  PipeInv' /\ Inside
<1>1. /\ Inside /\ copyIn = "write" /\ UNCHANGED <<copyOut, chIn, sockIn, chOut>>
  BY DEF WriteIn, Up, plane, Inside
<1>2. \/ /\ "local" \in open /\ ~app.reset /\ sockOut' = sockOut + 1 /\ copyIn' = "read"
         /\ UNCHANGED half
      \/ /\ "local" \notin open \/ app.reset
         /\ copyIn' = "done" /\ UNCHANGED sockOut /\ half' \subseteq half \cup {"local"}
  BY DEF WriteIn, FinishIn
<1>3. Types'
  BY <1>1, <1>2 DEF PipeInv, Types, Inside
<1>4. Unopened' /\ ClosedLate' /\ (Faulty' <=> Faulty)
  BY <1>1, InsideKeeps
<1>5. Framed'
  BY <1>1, <1>4 DEF PipeInv, Framed, HeaderBefore, Inside
<1>6. "local" \notin open \/ app.reset => Faulty
  BY <1>1, StillOpen DEF Faulty, Inside, Both
<1>7. EndSeen'
  BY <1>1, <1>2, <1>4, <1>6 DEF PipeInv, EndSeen, Inside
<1>8. Counted'
  <2>1. HoldsIn = 1 /\ HoldsIn' = 0 /\ HoldsOut' = HoldsOut
    BY <1>1, <1>2 DEF HoldsIn, HoldsOut
  <2>2. /\ got["in"] \in Nat /\ sent["in"] \in Nat /\ sockOut \in Nat /\ chIn \in Nat
    BY DEF PipeInv, Types, Dirs
  <2>3. /\ got["in"] + sockOut' + 0 + chIn <= got["in"] + sockOut + 1 + chIn
        /\ ~Faulty => got["in"] + sockOut' + 0 + chIn = got["in"] + sockOut + 1 + chIn
        /\ sockOut' \in Nat
    BY <1>2, <1>6, <2>2
  <2> QED
    BY <1>1, <1>4, <2>1, <2>2, <2>3 DEF PipeInv, Counted, Inside
<1> QED
  BY <1>1, <1>3, <1>4, <1>5, <1>7, <1>8 DEF PipeInv

LEMMA ReadOutInv ==
  ASSUME PipeInv, ReadOut, UNCHANGED plane
  PROVE  PipeInv' /\ Inside
<1>1. /\ Inside /\ copyOut = "read" /\ UNCHANGED <<copyIn, chIn, sockOut, chOut>>
  BY DEF ReadOut, Up, plane, Inside
<1>2. \/ sockIn > 0 /\ sockIn' = sockIn - 1 /\ copyOut' = "write" /\ UNCHANGED half
      \/ /\ "local" \notin open \/ (sockIn = 0 /\ (app.fin \/ app.reset))
         /\ copyOut' = "done" /\ UNCHANGED sockIn /\ half' \subseteq half \cup {"ch"}
  BY DEF ReadOut, FinishOut
<1>3. Types'
  BY <1>1, <1>2 DEF PipeInv, Types, Inside
<1>4. Unopened' /\ ClosedLate' /\ (Faulty' <=> Faulty)
  BY <1>1, InsideKeeps
<1>5. Framed'
  <2>1. \A n : HeaderBefore(n)' <=> HeaderBefore(n)
    BY <1>1 DEF HeaderBefore, Inside
  <2> QED
    BY <1>1, <1>2, <1>4, <2>1 DEF PipeInv, Framed, Inside
<1>6. "local" \notin open => Faulty
  BY <1>1, StillOpen DEF Inside, Both
<1>7. EndSeen'
  BY <1>1, <1>2, <1>4, <1>6 DEF PipeInv, EndSeen, Inside, Faulty
<1>8. Counted'
  <2>1. HoldsOut = 0 /\ HoldsIn' = HoldsIn
    BY <1>1 DEF HoldsIn, HoldsOut
  <2>2. (HoldsOut' = 1 /\ sockIn' = sockIn - 1) \/ (HoldsOut' = 0 /\ sockIn' = sockIn)
    BY <1>2 DEF HoldsOut
  <2>3. /\ got["out"] \in Nat /\ sockIn \in Nat /\ sockIn' \in Nat /\ Units(chOut) \in Nat
    BY <1>3, UnitsFinite DEF PipeInv, Types, Dirs
  <2>4. got["out"] + Units(chOut) + HoldsOut' + sockIn' = got["out"] + Units(chOut) + HoldsOut + sockIn
    BY <2>1, <2>2, <2>3
  <2> QED
    BY <1>1, <1>4, <2>1, <2>4 DEF PipeInv, Counted, Inside
<1> QED
  BY <1>1, <1>3, <1>4, <1>5, <1>7, <1>8 DEF PipeInv

\* One frame more at the end of the channel.
LEMMA AppendFramed ==
  ASSUME PipeInv, NEW f \in Frames, chOut' = Append(chOut, f), UNCHANGED remote,
         copyOut # "done",
         f = "payload" <=> copyOut = "payload",
         f = "plain" <=> ~Compress,
         copyOut' = IF f = "header" THEN "payload" ELSE "read"
  PROVE  Framed'
<1> DEFINE last == Len(chOut)
<1>1. chOut \in Seq(Frames) /\ Framed /\ Compress \in BOOLEAN
  BY ChannelAssumption DEF PipeInv, Types
<1>2. /\ last \in Nat /\ Len(chOut') = last + 1 /\ chOut'[last + 1] = f
      /\ \A n \in 1..last : chOut'[n] = chOut[n]
  BY <1>1, AppendProperties
<1>3. PICK len : len = last
  OBVIOUS
<1>4. ASSUME NEW n \in 1..(len + 1)
      PROVE  HeaderBefore(n)' <=> HeaderBefore(n)
  <2>1. CASE n = 1
    BY <2>1 DEF HeaderBefore
  <2>2. CASE n # 1
    <3>1. n - 1 \in 1..last
      BY <1>2, <1>3, <1>4, <2>2
    <3> QED
      BY <1>2, <2>2, <3>1 DEF HeaderBefore
  <2> QED
    BY <2>1, <2>2
<1>5. HeaderBefore(len + 1) <=> copyOut = "payload"
  BY <1>1, <1>3 DEF Framed
<1>6. HeaderBefore(len + 2)' <=> f = "header"
  <2>1. (len + 2) - 1 = len + 1 /\ len + 2 # 1
    BY <1>2, <1>3
  <2> QED
    BY <1>2, <1>3, <2>1 DEF HeaderBefore
<1>7. ASSUME NEW n \in 1..Len(chOut')
      PROVE  /\ chOut'[n] = "payload" <=> HeaderBefore(n)'
             /\ chOut'[n] = "plain" <=> ~Compress
  <2>1. n \in 1..(len + 1)
    BY <1>2, <1>3
  <2>2. CASE n = len + 1
    BY <1>2, <1>3, <1>4, <1>5, <2>1, <2>2
  <2>3. CASE n # len + 1
    <3>1. n \in 1..last
      BY <1>2, <1>3, <2>1, <2>3
    <3> QED
      BY <1>1, <1>2, <1>4, <2>1, <3>1 DEF Framed
  <2> QED
    BY <2>2, <2>3
<1>8. Len(chOut') + 1 = len + 2
  BY <1>2, <1>3
<1>9. HeaderBefore(Len(chOut) + 1)' <=> f = "header"
  BY <1>6, <1>8
<1>10. copyOut' = "payload" <=> f = "header"
  OBVIOUS
<1> QED
  BY <1>1, <1>7, <1>9, <1>10 DEF Framed

\* writeBlock and writeRawFrame: a frame goes out, or the write fails.
LEMMA FrameOutInv ==
  ASSUME PipeInv, Inside, copyOut \in {"write", "payload"},
         UNCHANGED <<copyIn, chIn, sockOut, sockIn>>,
         \/ /\ UNCHANGED half
            /\ \E f \in Frames :
                 /\ chOut' = Append(chOut, f)
                 /\ copyOut' = IF f = "header" THEN "payload" ELSE "read"
                 /\ f = "payload" <=> copyOut = "payload"
                 /\ f = "plain" <=> ~Compress
         \/ WriteFails /\ FinishOut /\ UNCHANGED chOut
  PROVE  PipeInv'
<1>1. Unopened' /\ ClosedLate' /\ (Faulty' <=> Faulty)
  BY InsideKeeps
<1>2. WriteFails => Faulty
  BY StillOpen DEF WriteFails, ChBroken, Faulty, Both, Inside
<1>3. /\ got["out"] \in Nat /\ sent["out"] \in Nat /\ sockIn \in Nat
      /\ chOut \in Seq(Frames) /\ Units(chOut) \in Nat /\ HoldsOut = 1 /\ HoldsIn' = HoldsIn
  BY UnitsFinite DEF PipeInv, Types, Dirs, HoldsOut, HoldsIn
<1>4. CASE WriteFails /\ FinishOut /\ UNCHANGED chOut
  <2>1. copyOut' = "done" /\ half' \subseteq half \cup {"ch"} /\ Faulty
    BY <1>2, <1>4 DEF FinishOut
  <2>2. Types'
    BY <1>4, <2>1 DEF PipeInv, Types, Inside
  <2>3. Framed'
    BY <1>1, <1>4, <2>1 DEF PipeInv, Framed, HeaderBefore, Inside
  <2>4. EndSeen'
    BY <1>1, <2>1 DEF PipeInv, EndSeen, Inside
  <2>5. HoldsOut' = 0
    BY <2>1 DEF HoldsOut
  <2>6. Counted'
    BY <1>1, <1>3, <1>4, <2>1, <2>5 DEF PipeInv, Counted, Inside
  <2> QED
    BY <1>1, <2>2, <2>3, <2>4, <2>6 DEF PipeInv
<1>5. ASSUME NEW f \in Frames, chOut' = Append(chOut, f), UNCHANGED half,
             copyOut' = IF f = "header" THEN "payload" ELSE "read",
             f = "payload" <=> copyOut = "payload",
             f = "plain" <=> ~Compress
      PROVE  PipeInv'
  <2>1. chOut' \in Seq(Frames)
    BY <1>3, <1>5, AppendProperties
  <2>2. Types'
    BY <1>5, <2>1 DEF PipeInv, Types, Inside
  <2>3. Framed'
    BY <1>5, AppendFramed DEF Inside
  <2>4. EndSeen'
    BY <1>1, <1>5 DEF PipeInv, EndSeen, Inside
  <2>5. Units(chOut') = Units(chOut) + (IF f = "header" THEN 0 ELSE 1)
    BY <1>3, <1>5, UnitsAppend
  <2>6. HoldsOut' = IF f = "header" THEN 1 ELSE 0
    BY <1>5 DEF HoldsOut
  <2>7. got["out"] + Units(chOut') + HoldsOut' + sockIn = got["out"] + Units(chOut) + HoldsOut + sockIn
    <3>1. \/ Units(chOut') = Units(chOut) /\ HoldsOut' = 1
          \/ Units(chOut') = Units(chOut) + 1 /\ HoldsOut' = 0
      BY <1>3, <2>5, <2>6
    <3> QED
      BY <1>3, <3>1
  <2>8. Counted'
    BY <1>1, <1>3, <2>7 DEF PipeInv, Counted, Inside
  <2> QED
    BY <1>1, <2>2, <2>3, <2>4, <2>8 DEF PipeInv
<1> QED
  BY <1>4, <1>5

LEMMA WriteOutInv ==
  ASSUME PipeInv, WriteOut \/ WritePayload, UNCHANGED plane
  PROVE  PipeInv' /\ Inside
<1>1. /\ Inside /\ UNCHANGED <<copyIn, chIn, sockOut, sockIn>>
      /\ copyOut \in {"write", "payload"}
  BY DEF WriteOut, WritePayload, Up, plane, Inside
<1>2. CASE WriteOut
  <2>1. FirstFrames \subseteq Frames
    BY DEF FirstFrames, Frames
  <2>2. \A f \in FirstFrames : f # "payload" /\ (f = "plain" <=> ~Compress)
    BY DEF FirstFrames
  <2> QED
    BY <1>1, <1>2, <2>1, <2>2, FrameOutInv DEF WriteOut
<1>3. CASE WritePayload
  <2>1. "payload" \in Frames /\ Compress
    BY <1>3 DEF Frames, WritePayload, PipeInv, Framed
  <2> QED
    BY <1>1, <1>3, <2>1, FrameOutInv DEF WritePayload
<1> QED
  BY <1>2, <1>3

-----------------------------------------------------------------------------
(* handleChannel *)

\* localConn.Close, as the ends see it.
LEMMA CloseLocalFacts ==
  ASSUME PipeInv, CloseLocal
  PROVE  /\ app' \in AppType /\ (app'.fin <=> app.fin) /\ (app'.reset <=> app.reset)
         /\ sockOut' = 0
         /\ app'.end = IF "local" \in open /\ app.end = "none" THEN "cut" ELSE app.end
<1> DEFINE e == IF "local" \in open /\ app.end = "none" THEN "cut" ELSE app.end
<1>1. app \in AppType /\ e \in Ends
  BY DEF PipeInv, Types, AppType, Ends
<1>2. app' = [app EXCEPT !.end = e] /\ sockOut' = 0
  BY DEF CloseLocal
<1> HIDE DEF e
<1>3. /\ app' \in AppType /\ (app'.fin <=> app.fin) /\ (app'.reset <=> app.reset)
      /\ app'.end = e
  BY <1>1, <1>2, AppSet
<1> QED
  BY <1>2, <1>3 DEF e

LEMMA HandlerClosesInv ==
  ASSUME PipeInv, HandlerDone \/ HandlerCancelled, UNCHANGED plane
  PROVE  PipeInv'
<1>1. /\ CloseLocal /\ open' = {} /\ handler \in {"wait", "forced"}
      /\ handler' = "returned" \/ (handler' = "forced" /\ ctxDone)
      /\ UNCHANGED <<sshUp, ctxDone, copyIn, copyOut, sent, got, chIn, sockIn, chOut,
                     half, remote, main, opener>>
      /\ ctxDone \/ (copyIn = "done" /\ copyOut = "done")
  BY DEF HandlerDone, HandlerCancelled, Up, plane
<1>2. /\ app' \in AppType /\ (app'.fin <=> app.fin) /\ (app'.reset <=> app.reset)
      /\ sockOut' = 0
      /\ app'.end = IF "local" \in open /\ app.end = "none" THEN "cut" ELSE app.end
  BY <1>1, CloseLocalFacts
<1>3. Faulty' <=> Faulty
  BY <1>1, <1>2 DEF Faulty
<1>4. Types'
  BY <1>1, <1>2 DEF PipeInv, Types
<1>5. Unopened' /\ ClosedLate'
  BY <1>1 DEF PipeInv, Unopened, ClosedLate, Running
<1>6. Framed'
  BY <1>1, <1>3 DEF PipeInv, Framed, HeaderBefore
<1>7. EndSeen'
  BY <1>1, <1>2, <1>3 DEF PipeInv, EndSeen
<1>8. app'.end = "none" => ctxDone
  BY <1>1, <1>2 DEF PipeInv, ClosedLate, Both, Running
<1>9. Counted'
  <2>1. /\ HoldsIn' = HoldsIn /\ HoldsOut' = HoldsOut /\ HoldsIn \in Nat
    BY <1>1 DEF HoldsIn, HoldsOut
  <2>2. /\ got["in"] \in Nat /\ sent["in"] \in Nat /\ sockOut \in Nat /\ chIn \in Nat
    BY DEF PipeInv, Types, Dirs
  <2>3. got["in"] + 0 + HoldsIn + chIn <= got["in"] + sockOut + HoldsIn + chIn
    BY <2>1, <2>2
  <2> QED
    BY <1>1, <1>2, <1>3, <1>8, <2>1, <2>2, <2>3 DEF PipeInv, Counted, Faulty
<1> QED
  BY <1>4, <1>5, <1>6, <1>7, <1>9 DEF PipeInv

LEMMA HandlerTimeoutInv ==
  ASSUME PipeInv, HandlerTimeout, UNCHANGED plane
  PROVE  PipeInv'
<1>1. /\ handler = "forced" /\ handler' = "returned"
      /\ UNCHANGED <<sshUp, ctxDone, copyIn, copyOut, sent, got, chIn, sockOut, sockIn, chOut,
                     half, open, app, remote, main, opener>>
  BY DEF HandlerTimeout, Up, plane
<1>2. (Faulty' <=> Faulty) /\ HoldsIn' = HoldsIn /\ HoldsOut' = HoldsOut
  BY <1>1 DEF Faulty, HoldsIn, HoldsOut
<1>3. Types' /\ Unopened' /\ ClosedLate'
  BY <1>1 DEF PipeInv, Types, Unopened, ClosedLate, Running
<1>4. Framed' /\ EndSeen' /\ Counted'
  BY <1>1, <1>2 DEF PipeInv, Framed, HeaderBefore, EndSeen, Counted
<1> QED
  BY <1>3, <1>4 DEF PipeInv

-----------------------------------------------------------------------------
(* The service *)

LEMMA AppSendInv ==
  ASSUME PipeInv, AppSend, UNCHANGED plane
  PROVE  PipeInv'
<1>1. /\ "local" \in open /\ ~app.fin /\ ~app.reset
      /\ sent' = [sent EXCEPT !["out"] = @ + 1] /\ sockIn' = sockIn + 1
      /\ UNCHANGED <<sshUp, ctxDone, handler, copyIn, copyOut, got, chIn, sockOut, chOut,
                     half, open, app, remote, main, opener>>
  BY DEF AppSend, Up, plane
<1>2. (Faulty' <=> Faulty) /\ HoldsIn' = HoldsIn /\ HoldsOut' = HoldsOut /\ HoldsOut \in Nat
  BY <1>1 DEF Faulty, HoldsIn, HoldsOut
<1>3. /\ sent' \in [Dirs -> Nat] /\ sent'["in"] = sent["in"] /\ sent'["out"] = sent["out"] + 1
      /\ sent["out"] \in Nat /\ got["out"] \in Nat /\ sockIn \in Nat
  BY <1>1 DEF PipeInv, Types, Dirs
<1>4. handler # "off"
  BY <1>1 DEF PipeInv, Unopened
<1>5. Types' /\ Unopened' /\ ClosedLate'
  BY <1>1, <1>3, <1>4 DEF PipeInv, Types, Unopened, ClosedLate, Running
<1>6. Framed' /\ EndSeen'
  BY <1>1, <1>2 DEF PipeInv, Framed, HeaderBefore, EndSeen
<1>7. Counted'
  <2>1. Units(chOut) \in Nat
    BY UnitsFinite DEF PipeInv, Types
  <2>2. got["out"] + Units(chOut) + HoldsOut + sockIn' = got["out"] + Units(chOut) + HoldsOut + sockIn + 1
    BY <1>1, <1>2, <1>3, <2>1
  <2>3. got["out"] + Units(chOut) + HoldsOut + sockIn \in Nat
    BY <1>2, <1>3, <2>1
  <2> QED
    BY <1>1, <1>2, <1>3, <2>2, <2>3 DEF PipeInv, Counted
<1> QED
  BY <1>5, <1>6, <1>7 DEF PipeInv

LEMMA AppReadsInv ==
  ASSUME PipeInv, AppReads, UNCHANGED plane
  PROVE  PipeInv'
<1>1. /\ sockOut > 0 /\ ~app.reset /\ sockOut' = sockOut - 1
      /\ got' = [got EXCEPT !["in"] = @ + 1]
      /\ UNCHANGED <<sshUp, ctxDone, handler, copyIn, copyOut, sent, chIn, sockIn, chOut,
                     half, open, app, remote, main, opener>>
  BY DEF AppReads, Up, plane
<1>2. (Faulty' <=> Faulty) /\ HoldsIn' = HoldsIn /\ HoldsOut' = HoldsOut /\ HoldsIn \in Nat
  BY <1>1 DEF Faulty, HoldsIn, HoldsOut
<1>3. /\ got' \in [Dirs -> Nat] /\ got'["out"] = got["out"] /\ got'["in"] = got["in"] + 1
      /\ got["in"] \in Nat /\ sockOut \in Nat /\ chIn \in Nat /\ sockOut' \in Nat
  BY <1>1 DEF PipeInv, Types, Dirs
<1>4. handler # "off" /\ app.end = "none"
  BY <1>1, <1>3 DEF PipeInv, Unopened, EndSeen
<1>5. Types' /\ Unopened' /\ ClosedLate'
  BY <1>1, <1>3, <1>4 DEF PipeInv, Types, Unopened, ClosedLate, Running
<1>6. Framed' /\ EndSeen'
  BY <1>1, <1>2, <1>4 DEF PipeInv, Framed, HeaderBefore, EndSeen
<1>7. Counted'
  <2>1. got'["in"] + sockOut' + HoldsIn + chIn = got["in"] + sockOut + HoldsIn + chIn
    BY <1>1, <1>2, <1>3
  <2> QED
    BY <1>1, <1>2, <1>3, <2>1 DEF PipeInv, Counted
<1> QED
  BY <1>5, <1>6, <1>7 DEF PipeInv

\* Steps that change what an end has seen or said, and no unit.
Outside ==
  UNCHANGED <<handler, copyIn, copyOut, sent, got, chIn, chOut, half, open, main, opener>>

LEMMA OutsideKeeps ==
  ASSUME PipeInv, Outside, handler # "off"
  PROVE  /\ Unopened' /\ HoldsIn' = HoldsIn /\ HoldsOut' = HoldsOut
         /\ HoldsIn \in Nat /\ HoldsOut \in Nat
         /\ got["in"] \in Nat /\ sent["in"] \in Nat /\ got["out"] \in Nat /\ sent["out"] \in Nat
         /\ chIn \in Nat /\ sockOut \in Nat /\ sockIn \in Nat /\ Units(chOut) \in Nat
         /\ Units(chOut)' = Units(chOut)
         /\ remote'.partial <=> remote.partial => \A n : HeaderBefore(n)' <=> HeaderBefore(n)
BY UnitsFinite DEF PipeInv, Outside, Types, Unopened, HoldsIn, HoldsOut, HeaderBefore, Dirs

LEMMA AppReadsEndInv ==
  ASSUME PipeInv, AppReadsEnd, UNCHANGED plane
  PROVE  PipeInv'
<1>1. /\ sockOut = 0 /\ "local" \in half /\ app.end = "none"
      /\ app' = [app EXCEPT !.end = "fin"]
      /\ Outside /\ UNCHANGED <<sshUp, ctxDone, sockOut, sockIn, remote>>
  BY DEF AppReadsEnd, Up, plane, Outside
<1>2. app' \in AppType /\ app'.end = "fin" /\ (app'.fin <=> app.fin) /\ (app'.reset <=> app.reset)
  <2>1. app \in AppType /\ "fin" \in Ends
    BY DEF PipeInv, Types, Ends
  <2> QED
    BY <1>1, <2>1, AppSet
<1>3. handler # "off" /\ copyIn = "done"
  BY <1>1 DEF PipeInv, Unopened, EndSeen
<1>4. Faulty' <=> Faulty
  BY <1>1, <1>2 DEF Faulty
<1>5. /\ Unopened' /\ HoldsIn' = HoldsIn /\ HoldsOut' = HoldsOut
      /\ \A n : HeaderBefore(n)' <=> HeaderBefore(n)
  BY <1>1, <1>3, OutsideKeeps
<1>6. Types' /\ ClosedLate'
  BY <1>1, <1>2 DEF PipeInv, Types, ClosedLate, Outside, Running
<1>7. Framed'
  BY <1>1, <1>4, <1>5 DEF PipeInv, Framed, Outside
<1>8. EndSeen' /\ Counted'
  BY <1>1, <1>2, <1>3, <1>4, <1>5 DEF PipeInv, EndSeen, Counted, Outside
<1> QED
  BY <1>5, <1>6, <1>7, <1>8 DEF PipeInv

\* Once something failed the counts are only bounds, and what was said is enough.
LEMMA FaultyInv ==
  ASSUME PipeInv, Outside, handler # "off", Faulty', ctxDone => ctxDone', Types',
         remote'.partial <=> remote.partial,
         sockOut' \in {0, sockOut}, sockIn' \in {0, sockIn},
         app'.end # "none" /\ app'.end # app.end => app'.reset /\ sockOut' = 0,
         app.reset => app'.reset, app.end # "none" => app'.end # "none",
         app'.end = app.end \/ app'.end # "none"
  PROVE  PipeInv'
<1>1. /\ Unopened' /\ HoldsIn' = HoldsIn /\ HoldsOut' = HoldsOut
      /\ HoldsIn \in Nat /\ HoldsOut \in Nat
      /\ got["in"] \in Nat /\ sent["in"] \in Nat /\ got["out"] \in Nat /\ sent["out"] \in Nat
      /\ chIn \in Nat /\ sockOut \in Nat /\ sockIn \in Nat /\ Units(chOut) \in Nat
      /\ \A n : HeaderBefore(n)' <=> HeaderBefore(n)
  BY OutsideKeeps
<1>2. ClosedLate'
  BY DEF PipeInv, Types, ClosedLate, Outside, Running
<1>3. Framed'
  <2>1. copyOut # "done" => (copyOut = "payload" <=> HeaderBefore(Len(chOut) + 1))
    BY DEF PipeInv, Framed
  <2> QED
    BY <1>1, <2>1 DEF PipeInv, Framed, Outside
<1>4. EndSeen'
  BY DEF PipeInv, EndSeen, Outside
<1>5. Counted'
  <2>1. /\ got["in"] + sockOut' + HoldsIn + chIn <= got["in"] + sockOut + HoldsIn + chIn
        /\ got["out"] + Units(chOut) + HoldsOut + sockIn'
             <= got["out"] + Units(chOut) + HoldsOut + sockIn
    BY <1>1
  <2>2. sockOut' \in Nat /\ sockIn' \in Nat
    BY <1>1
  <2> QED
    BY <1>1, <2>1, <2>2 DEF PipeInv, Counted, Outside
<1> QED
  BY <1>1, <1>2, <1>3, <1>4, <1>5 DEF PipeInv

\* An end says its end, or the visitor sees one.
LEMMA QuietInv ==
  ASSUME PipeInv, Outside, handler # "off", Types', Faulty' <=> Faulty, ctxDone => ctxDone',
         UNCHANGED <<sockOut, sockIn>>, app'.end = app.end, app'.reset <=> app.reset,
         app.fin => app'.fin, remote.fin => remote'.fin,
         remote'.partial <=> remote.partial
  PROVE  PipeInv'
<1>1. /\ Unopened' /\ HoldsIn' = HoldsIn /\ HoldsOut' = HoldsOut
      /\ \A n : HeaderBefore(n)' <=> HeaderBefore(n)
  BY OutsideKeeps
<1>2. ClosedLate'
  BY DEF PipeInv, Types, ClosedLate, Outside, Running
<1>3. Framed'
  BY <1>1 DEF PipeInv, Framed, Outside
<1>4. EndSeen' /\ Counted'
  BY <1>1 DEF PipeInv, EndSeen, Counted, Outside
<1> QED
  BY <1>1, <1>2, <1>3, <1>4 DEF PipeInv

LEMMA AppChangesInv ==
  ASSUME PipeInv, AppChanges, UNCHANGED plane
  PROVE  PipeInv'
<1>1. /\ "local" \in open /\ ~app.reset /\ Outside /\ UNCHANGED <<sshUp, ctxDone, remote>>
  BY DEF AppChanges, Up, plane, Outside
<1>2. handler # "off" /\ app \in AppType
  BY <1>1 DEF PipeInv, Types, Unopened
<1>3. CASE app' = [app EXCEPT !.fin = TRUE] /\ UNCHANGED <<sockIn, sockOut>>
  <2>1. app' \in AppType /\ app'.end = app.end /\ app'.fin /\ (app'.reset <=> app.reset)
    BY <1>2, <1>3, AppFin
  <2>2. Types' /\ (Faulty' <=> Faulty)
    BY <1>1, <1>3, <2>1 DEF PipeInv, Types, Outside, Faulty
  <2> QED
    BY <1>1, <1>2, <1>3, <2>1, <2>2, QuietInv
<1>4. CASE /\ app' = [app EXCEPT !.reset = TRUE, !.end = IF @ = "none" THEN "cut" ELSE @]
           /\ sockOut' = 0 /\ sockIn' \in {0, sockIn}
  <2> DEFINE e == IF app.end = "none" THEN "cut" ELSE app.end
  <2>1. e \in Ends /\ app' = [app EXCEPT !.reset = TRUE, !.end = e] /\ e # "none"
        /\ (app.end # "none" => e = app.end)
    BY <1>2, <1>4 DEF AppType, Ends
  <2> HIDE DEF e
  <2>2. app' \in AppType /\ app'.end = e /\ app'.reset
    BY <1>2, <2>1, AppReset
  <2>3. Types' /\ Faulty'
    BY <1>1, <1>4, <2>2 DEF PipeInv, Types, Outside, Faulty
  <2> QED
    BY <1>1, <1>2, <1>4, <2>1, <2>2, <2>3, FaultyInv
<1> QED
  BY <1>3, <1>4 DEF AppChanges

-----------------------------------------------------------------------------
(* The visitor *)

LEMMA RemoteSendInv ==
  ASSUME PipeInv, RemoteSend, UNCHANGED plane
  PROVE  PipeInv'
<1>1. /\ handler # "off" /\ ~remote.fin
      /\ sent' = [sent EXCEPT !["in"] = @ + 1] /\ chIn' = chIn + 1
      /\ UNCHANGED <<sshUp, ctxDone, handler, copyIn, copyOut, got, sockOut, sockIn, chOut,
                     half, open, app, remote, main, opener>>
  BY DEF RemoteSend, Visited, Up, plane
<1>2. (Faulty' <=> Faulty) /\ HoldsIn' = HoldsIn /\ HoldsOut' = HoldsOut /\ HoldsIn \in Nat
  BY <1>1 DEF Faulty, HoldsIn, HoldsOut
<1>3. /\ sent' \in [Dirs -> Nat] /\ sent'["out"] = sent["out"] /\ sent'["in"] = sent["in"] + 1
      /\ sent["in"] \in Nat /\ got["in"] \in Nat /\ chIn \in Nat /\ sockOut \in Nat
  BY <1>1 DEF PipeInv, Types, Dirs
<1>4. Types' /\ Unopened' /\ ClosedLate'
  BY <1>1, <1>3 DEF PipeInv, Types, Unopened, ClosedLate, Running
<1>5. Framed' /\ EndSeen'
  BY <1>1, <1>2 DEF PipeInv, Framed, HeaderBefore, EndSeen
<1>6. Counted'
  <2>1. /\ got["in"] + sockOut + HoldsIn + chIn' = got["in"] + sockOut + HoldsIn + chIn + 1
        /\ got["in"] + sockOut + HoldsIn + chIn \in Nat
    BY <1>1, <1>2, <1>3
  <2> QED
    BY <1>1, <1>2, <1>3, <2>1 DEF PipeInv, Counted
<1> QED
  BY <1>4, <1>5, <1>6 DEF PipeInv

\* The server understands every frame: a unit, or a header.
LEMMA RemoteReadsFacts ==
  ASSUME PipeInv, RemoteReads
  PROVE  /\ remote' \in RemoteType /\ remote'.end = remote.end
         /\ (remote'.fin <=> remote.fin) /\ (remote'.gone <=> remote.gone)
         /\ remote'.partial <=> Head(chOut) = "header"
         /\ got' = IF Head(chOut) = "header" THEN got ELSE [got EXCEPT !["out"] = @ + 1]
<1> DEFINE f == Head(chOut)
           unit == \/ f = "plain" /\ ~Compress
                   \/ f = "deflate" /\ ~remote.partial
                   \/ f = "payload" /\ remote.partial
           header == f = "header" /\ ~remote.partial
<1>1. /\ chOut # <<>>
      /\ got' = IF unit THEN [got EXCEPT !["out"] = @ + 1] ELSE got
      /\ remote' = [remote EXCEPT !.partial = header,
                                  !.end = IF unit \/ header THEN @ ELSE "cut"]
  BY DEF RemoteReads
<1>2. chOut \in Seq(Frames) /\ remote \in RemoteType /\ remote.end \in Ends
  BY DEF PipeInv, Types, RemoteType
<1>3. f \in Frames /\ f = chOut[1] /\ 1 \in 1..Len(chOut)
  BY <1>1, <1>2, HeadTailProperties
<1>4. (f = "payload" <=> remote.partial) /\ (f = "plain" <=> ~Compress)
  BY <1>3 DEF PipeInv, Framed, HeaderBefore
<1>5. (header <=> f = "header") /\ (unit <=> f # "header")
  <2>1. remote.partial => Compress
    BY DEF PipeInv, Framed
  <2> QED
    BY <1>3, <1>4, <2>1 DEF Frames
<1> HIDE DEF unit, f
<1>6. PICK p \in BOOLEAN : p <=> header
  OBVIOUS
<1>7. /\ remote' \in RemoteType /\ remote'.end = remote.end
      /\ (remote'.fin <=> remote.fin) /\ (remote'.gone <=> remote.gone)
      /\ remote'.partial <=> p
  <2>1. PICK e \in Ends : e = remote.end
    BY <1>2
  <2>2. remote' = [remote EXCEPT !.partial = p, !.end = e]
    BY <1>1, <1>5, <1>6, <2>1
  <2>3. /\ [remote EXCEPT !.partial = p, !.end = e] \in RemoteType
        /\ [remote EXCEPT !.partial = p, !.end = e].end = e
        /\ [remote EXCEPT !.partial = p, !.end = e].fin <=> remote.fin
        /\ [remote EXCEPT !.partial = p, !.end = e].gone <=> remote.gone
        /\ [remote EXCEPT !.partial = p, !.end = e].partial <=> p
    BY <1>2 DEF RemoteType
  <2> QED
    BY <2>1, <2>2, <2>3
<1> QED
  BY <1>1, <1>5, <1>6, <1>7 DEF f

LEMMA RemoteReadsInv ==
  ASSUME PipeInv, RemoteReads, UNCHANGED plane
  PROVE  PipeInv'
<1>1. /\ handler # "off" /\ chOut # <<>> /\ chOut' = Tail(chOut)
      /\ UNCHANGED <<sshUp, ctxDone, handler, copyIn, copyOut, sent, chIn, sockOut, sockIn,
                     half, open, app, main, opener>>
  BY DEF RemoteReads, Visited, Up, plane
<1>2. /\ remote' \in RemoteType /\ remote'.end = remote.end
      /\ (remote'.fin <=> remote.fin) /\ (remote'.gone <=> remote.gone)
      /\ remote'.partial <=> Head(chOut) = "header"
      /\ got' = IF Head(chOut) = "header" THEN got ELSE [got EXCEPT !["out"] = @ + 1]
  BY RemoteReadsFacts
<1>3. (Faulty' <=> Faulty) /\ HoldsIn' = HoldsIn /\ HoldsOut' = HoldsOut /\ HoldsOut \in Nat
  BY <1>1, <1>2 DEF Faulty, HoldsIn, HoldsOut
<1>4. /\ chOut \in Seq(Frames) /\ got \in [Dirs -> Nat] /\ sockIn \in Nat /\ sent["out"] \in Nat
      /\ got["out"] \in Nat
  BY DEF PipeInv, Types, Dirs
<1>5. /\ chOut' \in Seq(Frames) /\ Len(chOut') = Len(chOut) - 1 /\ Head(chOut) = chOut[1]
      /\ Len(chOut) \in Nat /\ Len(chOut) > 0
      /\ \A n \in 1..Len(chOut') : chOut'[n] = chOut[n + 1]
  BY <1>1, <1>4, HeadTailProperties
<1>6. got' \in [Dirs -> Nat] /\ got'["in"] = got["in"]
  BY <1>2, <1>4 DEF Dirs
<1>7. Types' /\ Unopened' /\ ClosedLate'
  BY <1>1, <1>2, <1>5, <1>6 DEF PipeInv, Types, Unopened, ClosedLate, Running
<1>8. Framed'
  <2>1. ASSUME NEW n \in 1..Len(chOut)
        PROVE  HeaderBefore(n)' <=> HeaderBefore(n + 1)
    <3>1. n \in Nat /\ n + 1 # 1 /\ (n + 1) - 1 = n
      BY <1>5
    <3>2. CASE n = 1
      BY <1>2, <1>5, <3>1, <3>2 DEF HeaderBefore
    <3>3. CASE n # 1
      <4>1. n - 1 \in 1..Len(chOut') /\ (n - 1) + 1 = n
        BY <1>5, <2>1, <3>1, <3>3
      <4> QED
        BY <1>5, <3>1, <3>3, <4>1 DEF HeaderBefore
    <3> QED
      BY <3>2, <3>3
  <2>2. ASSUME NEW n \in 1..Len(chOut')
        PROVE  /\ chOut'[n] = "payload" <=> HeaderBefore(n)'
               /\ chOut'[n] = "plain" <=> ~Compress
    <3>1. n \in 1..Len(chOut) /\ n + 1 \in 1..Len(chOut)
      BY <1>5, <2>2
    <3> QED
      BY <1>5, <2>1, <3>1 DEF PipeInv, Framed
  <2>3. HeaderBefore(Len(chOut) + 1)' <=> HeaderBefore(Len(chOut) + 1)
    <3>1. PICK len : len = Len(chOut)
      OBVIOUS
    <3>2. Len(chOut') + 1 = len /\ len \in 1..Len(chOut)
      BY <1>5, <3>1
    <3>3. HeaderBefore(len)' <=> HeaderBefore(len + 1)
      BY <2>1, <3>2
    <3> QED
      BY <3>1, <3>2, <3>3
  <2>4. remote'.partial => Compress
    <3>1. 1 \in 1..Len(chOut)
      BY <1>5
    <3> QED
      BY <1>2, <1>5, <3>1, ChannelAssumption DEF PipeInv, Framed
  <2> QED
    BY <1>1, <1>3, <2>2, <2>3, <2>4 DEF PipeInv, Framed
<1>9. EndSeen'
  BY <1>1, <1>2, <1>3 DEF PipeInv, EndSeen
<1>10. Counted'
  <2>1. Units(chOut) = Units(chOut') + (IF Head(chOut) = "header" THEN 0 ELSE 1)
    BY <1>1, <1>4, UnitsTail
  <2>2. Units(chOut') \in Nat
    BY <1>5, UnitsFinite
  <2>3. got'["out"] = got["out"] + (IF Head(chOut) = "header" THEN 0 ELSE 1)
    BY <1>2, <1>4 DEF Dirs
  <2>4. \/ Units(chOut) = Units(chOut') /\ got'["out"] = got["out"]
        \/ Units(chOut) = Units(chOut') + 1 /\ got'["out"] = got["out"] + 1
    BY <1>4, <2>1, <2>2, <2>3
  <2>5. got'["out"] + Units(chOut') + HoldsOut + sockIn = got["out"] + Units(chOut) + HoldsOut + sockIn
    <3>1. CASE Units(chOut) = Units(chOut') /\ got'["out"] = got["out"]
      BY <3>1
    <3>2. CASE Units(chOut) = Units(chOut') + 1 /\ got'["out"] = got["out"] + 1
      <4>1. (got["out"] + 1) + Units(chOut') = got["out"] + (Units(chOut') + 1)
        BY <1>4, <2>2
      <4> QED
        BY <3>2, <4>1
    <3> QED
      BY <2>4, <3>1, <3>2
  <2> QED
    BY <1>1, <1>2, <1>3, <1>6, <2>5 DEF PipeInv, Counted
<1> QED
  BY <1>7, <1>8, <1>9, <1>10 DEF PipeInv

LEMMA RemoteReadsEndInv ==
  ASSUME PipeInv, RemoteReadsEnd, UNCHANGED plane
  PROVE  PipeInv'
<1> DEFINE e == IF remote.partial THEN "cut" ELSE "fin"
<1>1. /\ handler # "off" /\ remote' = [remote EXCEPT !.end = e]
      /\ Outside /\ UNCHANGED <<sshUp, ctxDone, sockOut, sockIn, app>>
  BY DEF RemoteReadsEnd, Visited, Up, plane, Outside
<1>2. remote \in RemoteType /\ e \in Ends
  BY DEF PipeInv, Types, Ends
<1> HIDE DEF e
<1>3. /\ remote' \in RemoteType /\ (remote'.fin <=> remote.fin)
      /\ (remote'.gone <=> remote.gone) /\ (remote'.partial <=> remote.partial)
  BY <1>1, <1>2, RemoteSet
<1>4. Types' /\ (Faulty' <=> Faulty)
  BY <1>1, <1>3 DEF PipeInv, Types, Outside, Faulty
<1> QED
  BY <1>1, <1>3, <1>4, QuietInv

LEMMA RemoteChangesInv ==
  ASSUME PipeInv, RemoteChanges, UNCHANGED plane
  PROVE  PipeInv'
<1>1. /\ handler # "off" /\ Outside /\ UNCHANGED <<sshUp, ctxDone, sockOut, sockIn, app>>
  BY DEF RemoteChanges, Visited, Up, plane, Outside
<1>2. remote \in RemoteType
  BY DEF PipeInv, Types
<1>3. CASE remote' = [remote EXCEPT !.fin = TRUE]
  <2>1. /\ remote' \in RemoteType /\ remote'.fin
        /\ (remote'.gone <=> remote.gone) /\ (remote'.partial <=> remote.partial)
    BY <1>2, <1>3, RemoteFin
  <2>2. Types' /\ (Faulty' <=> Faulty)
    BY <1>1, <2>1 DEF PipeInv, Types, Outside, Faulty
  <2> QED
    BY <1>1, <2>1, <2>2, QuietInv
<1>4. CASE remote' = [remote EXCEPT !.gone = TRUE, !.fin = TRUE,
                                    !.end = IF @ = "none" THEN "cut" ELSE @]
  <2> DEFINE e == IF remote.end = "none" THEN "cut" ELSE remote.end
  <2>1. e \in Ends /\ remote' = [remote EXCEPT !.gone = TRUE, !.fin = TRUE, !.end = e]
    BY <1>2, <1>4 DEF RemoteType, Ends
  <2> HIDE DEF e
  <2>2. remote' \in RemoteType /\ remote'.gone /\ (remote'.partial <=> remote.partial)
    BY <1>2, <2>1, RemoteGone
  <2>3. Types' /\ Faulty'
    BY <1>1, <2>2 DEF PipeInv, Types, Outside, Faulty
  <2> QED
    BY <1>1, <2>2, <2>3, FaultyInv
<1> QED
  BY <1>3, <1>4 DEF RemoteChanges

-----------------------------------------------------------------------------
(* The tunnel and the openers *)

LEMMA SshDownFacts ==
  ASSUME PipeInv, SshDown
  PROVE  /\ remote' \in RemoteType /\ (remote'.fin <=> remote.fin)
         /\ (remote'.gone <=> remote.gone) /\ (remote'.partial <=> remote.partial)
         /\ remote'.end = IF handler # "off" /\ remote.end = "none" THEN "cut" ELSE remote.end
<1> DEFINE e == IF handler # "off" /\ remote.end = "none" THEN "cut" ELSE remote.end
<1>1. remote \in RemoteType /\ e \in Ends /\ remote' = [remote EXCEPT !.end = e]
  BY DEF PipeInv, Types, RemoteType, Ends, SshDown
<1> HIDE DEF e
<1>2. /\ remote' \in RemoteType /\ (remote'.fin <=> remote.fin) /\ remote'.end = e
      /\ (remote'.gone <=> remote.gone) /\ (remote'.partial <=> remote.partial)
  BY <1>1, RemoteSet
<1> QED
  BY <1>2 DEF e

\* Before the handler runs a lost or cancelled tunnel changes nothing of it.
LEMMA BeforeHandler ==
  ASSUME PipeInv, Outside, handler = "off", Types', UNCHANGED <<sockOut, sockIn, app>>,
         remote'.end = remote.end, remote'.fin <=> remote.fin,
         remote'.gone <=> remote.gone, remote'.partial <=> remote.partial, Faulty'
  PROVE  PipeInv'
<1>1. HoldsIn' = HoldsIn /\ HoldsOut' = HoldsOut
  BY DEF Outside, HoldsIn, HoldsOut
<1>2. \A n : HeaderBefore(n)' <=> HeaderBefore(n)
  BY DEF Outside, HeaderBefore
<1>3. Unopened' /\ ClosedLate'
  BY DEF PipeInv, Outside, Unopened, ClosedLate, Running
<1>4. Framed'
  <2>1. copyOut # "done" => (copyOut = "payload" <=> HeaderBefore(Len(chOut) + 1))
    BY DEF PipeInv, Framed
  <2> QED
    BY <1>2, <2>1 DEF PipeInv, Framed, Outside
<1>5. EndSeen' /\ Counted'
  BY <1>1 DEF PipeInv, EndSeen, Counted, Outside
<1> QED
  BY <1>3, <1>4, <1>5 DEF PipeInv

LEMMA TunnelEndsInv ==
  ASSUME PipeInv, SshDown \/ CtxDone, UNCHANGED plane
  PROVE  PipeInv'
<1>1. /\ Outside /\ UNCHANGED <<sockOut, sockIn, app>> /\ Faulty'
      /\ sshUp' \in BOOLEAN /\ ctxDone' \in BOOLEAN /\ (ctxDone => ctxDone')
  BY DEF SshDown, CtxDone, plane, Outside, chan, Faulty, PipeInv, Types
<1>2. /\ remote' \in RemoteType /\ (remote'.fin <=> remote.fin)
      /\ (remote'.gone <=> remote.gone) /\ (remote'.partial <=> remote.partial)
      /\ handler = "off" => remote'.end = remote.end
  <2>1. CASE SshDown
    BY <2>1, SshDownFacts
  <2>2. CASE CtxDone
    BY <2>2 DEF CtxDone, chan, PipeInv, Types
  <2> QED
    BY <2>1, <2>2
<1>3. Types'
  BY <1>1, <1>2 DEF PipeInv, Types, Outside
<1> QED
  BY <1>1, <1>2, <1>3, BeforeHandler, FaultyInv

\* An opener on its way to handleChannel.
LEMMA OpeningInv ==
  ASSUME PipeInv, UNCHANGED <<cvars, main>>,
         \/ UNCHANGED opener
         \/ \E c \in Conns, step \in OpenerSteps \ {"piping"} : opener[c] # "piping" /\ Go(c, step)
  PROVE  PipeInv'
<1>1. UNCHANGED <<sshUp, ctxDone, kind, handler, copyIn, copyOut, once, sent, got, chIn, sockOut,
                  sockIn, chOut, half, open, app, remote>>
  BY DEF cvars, chan
<1>2. /\ opener' \in [Conns -> OpenerSteps]
      /\ \A c \in Conns : opener'[c] # "piping" => opener[c] # "piping"
  BY DEF PipeInv, Types, Go
<1>3. main # NoConn => main \in Conns
  BY DataPlaneAssumption DEF PipeInv, Types
<1>4. Types' /\ Unopened' /\ ClosedLate'
  BY <1>1, <1>2, <1>3 DEF PipeInv, Types, Unopened, ClosedLate, Running
<1>5. (Faulty' <=> Faulty) /\ HoldsIn' = HoldsIn /\ HoldsOut' = HoldsOut
  BY <1>1 DEF Faulty, HoldsIn, HoldsOut
<1>6. Framed' /\ EndSeen' /\ Counted'
  BY <1>1, <1>5 DEF PipeInv, Framed, HeaderBefore, EndSeen, Counted
<1> QED
  BY <1>4, <1>6 DEF PipeInv

\* handleChannel begins, with a visitor that may have given up already.
LEMMA HandFacts ==
  ASSUME PipeInv, NEW c \in Conns, c = main, opener[c] # "piping", NEW k, Hand(c, k)
  PROVE  /\ remote' \in RemoteType /\ (remote'.partial <=> remote.partial)
         /\ remote.end = "none" /\ ~remote.fin
         /\ \/ UNCHANGED remote
            \/ remote'.gone /\ remote'.fin /\ remote'.end = "cut"
<1>1. remote \in RemoteType /\ "cut" \in Ends
  BY DEF PipeInv, Types, Ends
<1>2. remote.end = "none" /\ ~remote.fin
  BY DataPlaneAssumption DEF PipeInv, Unopened
<1>3. \/ remote' = [remote EXCEPT !.gone = TRUE, !.fin = TRUE, !.end = "cut"]
      \/ remote' = remote
  BY DEF Hand
<1>4. CASE remote' = [remote EXCEPT !.gone = TRUE, !.fin = TRUE, !.end = "cut"]
  <2>1. /\ remote' \in RemoteType /\ remote'.end = "cut" /\ remote'.fin /\ remote'.gone
        /\ remote'.partial <=> remote.partial
    BY <1>1, <1>4, RemoteGone
  <2> QED
    BY <1>2, <2>1
<1> QED
  BY <1>1, <1>2, <1>3, <1>4

LEMMA HandInv ==
  ASSUME PipeInv, NEW c \in Conns, opener[c] # "piping", NEW k, Hand(c, k)
  PROVE  PipeInv'
<1>1. /\ opener' = [opener EXCEPT ![c] = "piping"] /\ opener' \in [Conns -> OpenerSteps]
      /\ UNCHANGED <<sshUp, ctxDone, copyIn, copyOut, sent, got, chIn, sockOut,
                     sockIn, chOut, half, app, main>>
  BY DEF Hand, Go, PipeInv, Types, OpenerSteps
<1>2. HoldsIn' = HoldsIn /\ HoldsOut' = HoldsOut
  BY <1>1 DEF HoldsIn, HoldsOut
<1>3. main # NoConn => main \in Conns
  BY DataPlaneAssumption DEF PipeInv, Types
<1>4. CASE c = main
  <2>1. /\ handler' = "wait" /\ open' = Both
    BY <1>4 DEF Hand, Both
  <2>2. /\ remote' \in RemoteType /\ (remote'.partial <=> remote.partial)
        /\ UNCHANGED remote \/ (remote'.gone /\ remote'.fin)
    BY <1>4, HandFacts
  <2>3. /\ handler = "off" /\ half = {} /\ copyIn = "read" /\ copyOut = "read"
        /\ app.end = "none"
    BY <1>4, DataPlaneAssumption DEF PipeInv, Unopened
  <2>4. Types' /\ Unopened' /\ ClosedLate'
    <3>1. Types'
      BY <1>1, <2>1, <2>2 DEF PipeInv, Types
    <3>2. opener'[main] = "piping" /\ main' = main
      BY <1>1, <1>4 DEF PipeInv, Types
    <3>3. Unopened' /\ ClosedLate'
      BY <2>1, <3>2 DEF Unopened, ClosedLate, Both
    <3> QED
      BY <3>1, <3>3
  <2>5. Faulty' \/ (Faulty' <=> Faulty)
    BY <1>1, <2>2 DEF Faulty
  <2>6. \A n : HeaderBefore(n)' <=> HeaderBefore(n)
    BY <1>1, <2>2 DEF HeaderBefore
  <2>7. Framed'
    <3>1. copyOut = "payload" <=> HeaderBefore(Len(chOut) + 1)
      BY <2>3 DEF PipeInv, Framed
    <3> QED
      BY <1>1, <2>2, <2>6, <3>1 DEF PipeInv, Framed
  <2>8. EndSeen'
    BY <1>1, <2>3 DEF EndSeen
  <2>9. Counted'
    BY <1>1, <1>2, <2>5 DEF PipeInv, Counted
  <2> QED
    BY <2>4, <2>7, <2>8, <2>9 DEF PipeInv
<1>5. CASE c # main
  <2>1. UNCHANGED <<handler, open, remote>>
    BY <1>5 DEF Hand
  <2>2. Types' /\ Unopened' /\ ClosedLate'
    BY <1>1, <1>3, <1>5, <2>1 DEF PipeInv, Types, Unopened, ClosedLate, Running
  <2>3. Faulty' <=> Faulty
    BY <1>1, <2>1 DEF Faulty
  <2>4. Framed' /\ EndSeen' /\ Counted'
    BY <1>1, <1>2, <2>1, <2>3 DEF PipeInv, Framed, HeaderBefore, EndSeen, Counted
  <2> QED
    BY <2>2, <2>4 DEF PipeInv
<1> QED
  BY <1>4, <1>5

\* Every step of the program.
Hands == \E c \in Conns, k \in {"channel", "stream"} : opener[c] # "piping" /\ Hand(c, k)
Opens ==
  /\ UNCHANGED <<cvars, main>>
  /\ \/ UNCHANGED opener
     \/ \E c \in Conns, step \in OpenerSteps \ {"piping"} : opener[c] # "piping" /\ Go(c, step)

LEMMA StepKinds ==
  ASSUME [Next]_vars
  PROVE  Hands \/ Opens \/ (ChannelNext /\ UNCHANGED plane)
<1>1. {"queued", "dial", "open", "header", "ended"} \subseteq OpenerSteps \ {"piping"}
  BY DEF OpenerSteps
<1>2. ASSUME NEW c \in Conns, Opener(c) PROVE Hands \/ Opens
  <2>1. CASE Accepted(c) \/ HeaderWritten(c)
    BY <2>1 DEF Accepted, HeaderWritten, Hands
  <2>2. CASE ~(Accepted(c) \/ HeaderWritten(c))
    BY <1>1, <1>2, <2>2 DEF Opener, Opening, Dispatch, Taken, Dialled, DialFails, OpenFails, StreamOpened,
       HeaderFails, Opens
  <2> QED
    BY <2>1, <2>2
<1>3. ASSUME NEW c \in Conns, NEW v \in Vias, Ask(c, v) PROVE Opens
  BY <1>1, <1>3 DEF Ask, Opens
<1>4. ASSUME NEW c \in Conns, GiveUp(c) PROVE Opens
  BY <1>4 DEF GiveUp, Opens
<1>5. CASE ControlEnds \/ Tick \/ UNCHANGED vars
  BY <1>5 DEF ControlEnds, Tick, vars, plane, Opens
<1> QED
  BY <1>2, <1>3, <1>4, <1>5 DEF Next

LEMMA PipeInvNext ==
  ASSUME PipeInv, [Next]_vars
  PROVE  PipeInv'
<1>1. CASE Hands
  BY <1>1, HandInv DEF Hands
<1>2. CASE Opens
  BY <1>2, OpeningInv DEF Opens
<1>3. CASE ChannelNext /\ UNCHANGED plane
  <2>1. CASE Goroutines
    BY <1>3, <2>1, ReadInInv, WriteInInv, ReadOutInv, WriteOutInv DEF Goroutines
  <2>2. CASE Handler
    BY <1>3, <2>2, HandlerClosesInv, HandlerTimeoutInv DEF Handler
  <2>3. CASE Readers
    BY <1>3, <2>3, AppReadsInv, AppReadsEndInv, RemoteReadsInv, RemoteReadsEndInv DEF Readers
  <2>4. CASE Environment
    BY <1>3, <2>4, AppSendInv, AppChangesInv, RemoteSendInv, RemoteChangesInv, TunnelEndsInv
       DEF Environment
  <2> QED
    BY <1>3, <2>1, <2>2, <2>3, <2>4 DEF ChannelNext
<1> QED
  BY <1>1, <1>2, <1>3, StepKinds

-----------------------------------------------------------------------------
(* The refinement *)

Said == {d \in Dirs : IF d = "in" THEN remote.fin ELSE app.fin}
End == [d \in Dirs |-> IF d = "in" THEN app.end ELSE remote.end]

\* The steps of the pipe in terms of this module.
LEMMA PipeStutter ==
  ASSUME UNCHANGED <<sent, got, sshUp, ctxDone, app, remote>>
  PROVE  UNCHANGED Service!pipe
BY DEF Service!pipe, Faulty

LEMMA PipeInit == Init => Service!PInit
<1> SUFFICES ASSUME Init PROVE Service!PInit
  OBVIOUS
<1>1. PipeInv
  BY PipeInvInit
<1>2. app.end = "none" /\ ~app.fin /\ ~app.reset
  BY <1>1 DEF PipeInv, Unopened, Init, ChannelInit
<1>3. remote.end = "none" /\ ~remote.fin /\ ~remote.gone
  BY <1>1 DEF PipeInv, Unopened, Init, ChannelInit
<1>4. ~Faulty
  BY <1>2, <1>3 DEF Init, ChannelInit, Faulty
<1> QED
  BY <1>2, <1>3, <1>4 DEF Init, ChannelInit, Service!PInit, Service!Dirs, Dirs

\* Something failed, and it may have cut off one end or both.
LEMMA FaultStep ==
  ASSUME Faulty', UNCHANGED <<sent, got>>,
         app'.end = app.end \/ (app.end = "none" /\ app'.end = "cut"),
         remote'.end = remote.end \/ (remote.end = "none" /\ remote'.end = "cut"),
         app.fin => app'.fin, remote.fin => remote'.fin
  PROVE  Service!PNext
<1> DEFINE D == {d \in Dirs : End[d] = "none" /\ End'[d] # "none"}
<1>1. /\ \A d \in Dirs : End[d] = (IF d = "in" THEN app.end ELSE remote.end)
      /\ \A d \in Dirs : End'[d] = (IF d = "in" THEN app'.end ELSE remote'.end)
  BY DEF End
<1>2. D \in SUBSET {d \in Dirs : End[d] = "none"}
  OBVIOUS
<1>3. End' = [d \in Dirs |-> IF d \in D THEN "cut" ELSE End[d]]
  BY <1>1 DEF End
<1>4. Said' = Said \cup Said' /\ Said' \in SUBSET Dirs
  BY DEF Said
<1>5. Faulty' = TRUE
  BY DEF Faulty
<1>6. Service!Fault
  BY <1>2, <1>3, <1>4, <1>5 DEF Service!Fault, Service!Dirs, End, Said, Dirs
<1> QED
  BY <1>6 DEF Service!PNext

LEMMA SameFault ==
  ASSUME Types, Types', UNCHANGED <<sshUp, ctxDone>>, app'.reset <=> app.reset,
         remote'.gone <=> remote.gone
  PROVE  Faulty' = Faulty
BY DEF Faulty, Types

LEMMA AppSendStep ==
  ASSUME PipeInv, AppSend
  PROVE  Service!PNext
<1>1. /\ ~app.fin /\ sent' = [sent EXCEPT !["out"] = @ + 1]
      /\ UNCHANGED <<got, sshUp, ctxDone, app, remote>>
  BY DEF AppSend, Up
<1>2. Service!Send("out")
  BY <1>1 DEF Service!Send, Dirs, Faulty
<1> QED
  BY <1>2 DEF Service!PNext, Service!Dirs

LEMMA RemoteSendStep ==
  ASSUME PipeInv, RemoteSend
  PROVE  Service!PNext
<1>1. /\ ~remote.fin /\ sent' = [sent EXCEPT !["in"] = @ + 1]
      /\ UNCHANGED <<got, sshUp, ctxDone, app, remote>>
  BY DEF RemoteSend, Up
<1>2. Service!Send("in")
  BY <1>1 DEF Service!Send, Dirs, Faulty
<1> QED
  BY <1>2 DEF Service!PNext, Service!Dirs

\* A unit in the socket was sent and not received, and no end was seen before it.
LEMMA AppReadsStep ==
  ASSUME PipeInv, AppReads
  PROVE  Service!PNext
<1>1. /\ sockOut > 0 /\ ~app.reset /\ got' = [got EXCEPT !["in"] = @ + 1]
      /\ UNCHANGED <<sent, sshUp, ctxDone, app, remote>>
  BY DEF AppReads, Up
<1>2. app.end = "none"
  BY <1>1 DEF PipeInv, Types, EndSeen
<1>3. got["in"] < sent["in"]
  <2>1. /\ got["in"] \in Nat /\ sent["in"] \in Nat /\ sockOut \in Nat /\ chIn \in Nat
        /\ HoldsIn \in Nat
    BY DEF PipeInv, Types, Dirs, HoldsIn
  <2> QED
    BY <1>1, <2>1 DEF PipeInv, Counted
<1>4. Service!Deliver("in")
  BY <1>1, <1>2, <1>3 DEF Service!Deliver, Dirs, Faulty
<1> QED
  BY <1>4 DEF Service!PNext, Service!Dirs

\* The service sees the FIN after everything the visitor has sent, or after a fault.
LEMMA AppReadsEndStep ==
  ASSUME PipeInv, PipeInv', AppReadsEnd
  PROVE  Service!PNext
<1>1. /\ sockOut = 0 /\ "local" \in half /\ app.end = "none"
      /\ app' = [app EXCEPT !.end = "fin"] /\ UNCHANGED <<sent, got, sshUp, ctxDone, remote>>
  BY DEF AppReadsEnd, Up
<1>2. app'.end = "fin" /\ (app'.fin <=> app.fin) /\ (app'.reset <=> app.reset)
  <2>1. app \in AppType /\ "fin" \in Ends
    BY DEF PipeInv, Types, Ends
  <2> QED
    BY <1>1, <2>1, AppSet
<1>3. Faulty \/ (remote.fin /\ got["in"] = sent["in"])
  <2>1. copyIn = "done" /\ HoldsIn = 0
    BY <1>1 DEF PipeInv, EndSeen, HoldsIn
  <2>2. got["in"] \in Nat
    BY DEF PipeInv, Types, Dirs
  <2> QED
    BY <1>1, <2>1, <2>2 DEF PipeInv, EndSeen, Counted
<1>4. Faulty' = Faulty
  BY <1>1, <1>2, SameFault DEF PipeInv
<1>5. End["in"] = "none" /\ End' = [End EXCEPT !["in"] = "fin"]
  BY <1>1, <1>2 DEF End, Dirs
<1>6. Said' = Said /\ ("in" \in Said <=> remote.fin)
  BY <1>1, <1>2 DEF Said, Dirs
<1>7. Service!Finish("in")
  BY <1>1, <1>3, <1>4, <1>5, <1>6 DEF Service!Finish, Service!Complete, End, Said
<1> QED
  BY <1>7 DEF Service!PNext, Service!Dirs

\* A unit is delivered with its last frame; its header alone is nothing yet.
LEMMA RemoteReadsStep ==
  ASSUME PipeInv, PipeInv', RemoteReads
  PROVE  Service!PNext \/ UNCHANGED Service!pipe
<1>1. chOut # <<>> /\ remote.end = "none" /\ UNCHANGED <<sent, sshUp, ctxDone, app>>
  BY DEF RemoteReads, Up
<1>2. /\ remote'.end = remote.end
      /\ (remote'.fin <=> remote.fin) /\ (remote'.gone <=> remote.gone)
      /\ got' = IF Head(chOut) = "header" THEN got ELSE [got EXCEPT !["out"] = @ + 1]
  BY RemoteReadsFacts
<1>3. Faulty' = Faulty
  BY <1>1, <1>2, SameFault DEF PipeInv
<1>4. End' = End /\ Said' = Said /\ End["out"] = "none"
  BY <1>1, <1>2 DEF End, Said, Dirs
<1>5. CASE Head(chOut) = "header"
  BY <1>1, <1>2, <1>3, <1>4, <1>5 DEF Service!pipe, End, Said
<1>6. CASE Head(chOut) # "header"
  <2>1. got["out"] < sent["out"]
    <3>1. /\ got["out"] \in Nat /\ sent["out"] \in Nat /\ sockIn \in Nat /\ HoldsOut \in Nat
          /\ chOut \in Seq(Frames) /\ Tail(chOut) \in Seq(Frames)
      BY <1>1, HeadTailProperties DEF PipeInv, Types, Dirs, HoldsOut
    <3>2. Units(chOut) = Units(Tail(chOut)) + 1 /\ Units(Tail(chOut)) \in Nat
      BY <1>1, <1>6, <3>1, UnitsTail, UnitsFinite
    <3> QED
      BY <3>1, <3>2 DEF PipeInv, Counted
  <2>2. Service!Deliver("out")
    BY <1>1, <1>2, <1>3, <1>4, <1>6, <2>1 DEF Service!Deliver, End, Said
  <2> QED
    BY <2>2 DEF Service!PNext, Service!Dirs
<1> QED
  BY <1>5, <1>6

\* The visitor sees a clean end after everything the service has sent, or after a
\* fault; it never sees an end in the middle of a raw frame without one.
LEMMA RemoteReadsEndStep ==
  ASSUME PipeInv, PipeInv', RemoteReadsEnd
  PROVE  Service!PNext
<1> DEFINE e == IF remote.partial THEN "cut" ELSE "fin"
<1>1. /\ chOut = <<>> /\ remote.end = "none" /\ handler # "off"
      /\ "ch" \in half \/ "ch" \notin open
      /\ remote' = [remote EXCEPT !.end = e] /\ UNCHANGED <<sent, got, sshUp, ctxDone, app>>
  BY DEF RemoteReadsEnd, Visited, Up
<1>2. remote \in RemoteType /\ e \in Ends
  BY DEF PipeInv, Types, Ends
<1>3. /\ remote'.end = e /\ (remote'.fin <=> remote.fin) /\ (remote'.gone <=> remote.gone)
  <2> HIDE DEF e
  <2> QED
    BY <1>1, <1>2, RemoteSet
<1>4. Faulty' = Faulty
  BY <1>1, <1>3, SameFault DEF PipeInv
<1>5. Faulty \/ copyOut = "done"
  BY <1>1 DEF PipeInv, EndSeen, ClosedLate, Types, Both, Running, Faulty
<1>6. Faulty \/ (app.fin /\ got["out"] = sent["out"] /\ ~remote.partial)
  <2>1. SUFFICES ASSUME ~Faulty PROVE app.fin /\ got["out"] = sent["out"] /\ ~remote.partial
    OBVIOUS
  <2>2. copyOut = "done" /\ app.fin /\ sockIn = 0 /\ HoldsOut = 0
    BY <1>5, <2>1 DEF PipeInv, EndSeen, HoldsOut
  <2>3. Units(chOut) = 0 /\ got["out"] \in Nat
    BY <1>1, UnitsEmpty DEF PipeInv, Types, Dirs
  <2>4. got["out"] = sent["out"]
    BY <2>1, <2>2, <2>3 DEF PipeInv, Counted
  <2>5. ~HeaderBefore(Len(chOut) + 1)
    BY <2>1, <2>2 DEF PipeInv, Framed
  <2>6. Len(chOut) + 1 = 1
    BY <1>1
  <2> QED
    BY <2>2, <2>4, <2>5, <2>6 DEF HeaderBefore
<1>7. CASE remote.partial
  <2>1. Faulty' /\ remote'.end = "cut"
    BY <1>3, <1>4, <1>6, <1>7
  <2> QED
    BY <1>1, <1>3, <2>1, FaultStep
<1>8. CASE ~remote.partial
  <2>1. remote'.end = "fin"
    BY <1>3, <1>8
  <2>2. End["out"] = "none" /\ End' = [End EXCEPT !["out"] = "fin"]
    BY <1>1, <2>1 DEF End, Dirs
  <2>3. Said' = Said /\ ("out" \in Said <=> app.fin)
    BY <1>1, <1>3 DEF Said, Dirs
  <2>4. Service!Finish("out")
    BY <1>1, <1>4, <1>6, <2>2, <2>3 DEF Service!Finish, Service!Complete, End, Said
  <2> QED
    BY <2>4 DEF Service!PNext, Service!Dirs
<1> QED
  BY <1>7, <1>8

LEMMA AppChangesStep ==
  ASSUME PipeInv, PipeInv', AppChanges
  PROVE  Service!PNext
<1>1. ~app.reset /\ UNCHANGED <<sent, got, sshUp, ctxDone, remote>> /\ app \in AppType
  BY DEF AppChanges, Up, PipeInv, Types
<1>2. CASE app' = [app EXCEPT !.fin = TRUE]
  <2>1. app'.end = app.end /\ app'.fin /\ (app'.reset <=> app.reset)
    BY <1>1, <1>2, AppFin
  <2>2. Faulty' = Faulty
    BY <1>1, <2>1, SameFault DEF PipeInv
  <2>3. End' = End /\ Said' = Said \cup {"out"}
    BY <1>1, <2>1 DEF End, Said, Dirs
  <2>4. Service!SayEnd("out")
    BY <1>1, <2>2, <2>3 DEF Service!SayEnd, End, Said
  <2> QED
    BY <2>4 DEF Service!PNext, Service!Dirs
<1>3. CASE app' = [app EXCEPT !.reset = TRUE, !.end = IF @ = "none" THEN "cut" ELSE @]
  <2> DEFINE e == IF app.end = "none" THEN "cut" ELSE app.end
  <2>1. e \in Ends /\ app' = [app EXCEPT !.reset = TRUE, !.end = e]
    BY <1>1, <1>3 DEF AppType, Ends
  <2>2. app'.end = e /\ app'.reset /\ (app'.fin <=> app.fin)
    <3> HIDE DEF e
    <3> QED
      BY <1>1, <2>1, AppReset
  <2>3. Faulty'
    BY <2>2 DEF Faulty
  <2> QED
    BY <1>1, <2>2, <2>3, FaultStep
<1> QED
  BY <1>2, <1>3 DEF AppChanges

LEMMA RemoteChangesStep ==
  ASSUME PipeInv, PipeInv', RemoteChanges
  PROVE  Service!PNext
<1>1. UNCHANGED <<sent, got, sshUp, ctxDone, app>> /\ remote \in RemoteType
  BY DEF RemoteChanges, Up, PipeInv, Types
<1>2. CASE remote' = [remote EXCEPT !.fin = TRUE]
  <2>1. remote'.end = remote.end /\ remote'.fin /\ (remote'.gone <=> remote.gone)
    BY <1>1, <1>2, RemoteFin
  <2>2. Faulty' = Faulty
    BY <1>1, <2>1, SameFault DEF PipeInv
  <2>3. End' = End /\ Said' = Said \cup {"in"}
    BY <1>1, <2>1 DEF End, Said, Dirs
  <2>4. Service!SayEnd("in")
    BY <1>1, <2>2, <2>3 DEF Service!SayEnd, End, Said
  <2> QED
    BY <2>4 DEF Service!PNext, Service!Dirs
<1>3. CASE remote' = [remote EXCEPT !.gone = TRUE, !.fin = TRUE,
                                    !.end = IF @ = "none" THEN "cut" ELSE @]
  <2> DEFINE e == IF remote.end = "none" THEN "cut" ELSE remote.end
  <2>1. e \in Ends /\ remote' = [remote EXCEPT !.gone = TRUE, !.fin = TRUE, !.end = e]
    BY <1>1, <1>3 DEF RemoteType, Ends
  <2>2. remote'.end = e /\ remote'.gone /\ remote'.fin
    <3> HIDE DEF e
    <3> QED
      BY <1>1, <2>1, RemoteGone
  <2>3. Faulty'
    BY <2>2 DEF Faulty
  <2> QED
    BY <1>1, <2>2, <2>3, FaultStep
<1> QED
  BY <1>2, <1>3 DEF RemoteChanges

LEMMA TunnelEndsStep ==
  ASSUME PipeInv, SshDown \/ CtxDone
  PROVE  Service!PNext
<1>1. UNCHANGED <<sent, got, app>> /\ Faulty'
  BY DEF SshDown, CtxDone, chan, Faulty
<1>2. /\ remote.fin => remote'.fin
      /\ remote'.end = remote.end \/ (remote.end = "none" /\ remote'.end = "cut")
  <2>1. CASE SshDown
    BY <2>1, SshDownFacts
  <2>2. CASE CtxDone
    BY <2>2 DEF CtxDone, chan
  <2> QED
    BY <2>1, <2>2
<1> QED
  BY <1>1, <1>2, FaultStep

\* The close with linger 0: after a fault, or once both ends have said all.
LEMMA HandlerClosesStep ==
  ASSUME PipeInv, PipeInv', HandlerDone \/ HandlerCancelled
  PROVE  Service!PNext \/ UNCHANGED Service!pipe
<1>1. /\ CloseLocal /\ UNCHANGED <<sent, got, sshUp, ctxDone, remote>>
      /\ ctxDone \/ (copyIn = "done" /\ copyOut = "done")
  BY DEF HandlerDone, HandlerCancelled, Up
<1>2. /\ (app'.fin <=> app.fin) /\ (app'.reset <=> app.reset)
      /\ app'.end = IF "local" \in open /\ app.end = "none" THEN "cut" ELSE app.end
  BY <1>1, CloseLocalFacts
<1>3. Faulty' = Faulty
  BY <1>1, <1>2, SameFault DEF PipeInv
<1>4. Said' = Said
  BY <1>1, <1>2 DEF Said, Dirs
<1>5. CASE app'.end = app.end
  <2>1. End' = End
    BY <1>1, <1>5 DEF End
  <2> QED
    BY <1>1, <1>3, <1>4, <2>1 DEF Service!pipe, End, Said
<1>6. CASE app'.end # app.end
  <2>1. app.end = "none" /\ app'.end = "cut"
    BY <1>2, <1>6
  <2>2. Faulty \/ (remote.fin /\ app.fin)
    BY <1>1 DEF PipeInv, EndSeen, Faulty
  <2>3. Faulty \/ Said = Service!Dirs
    BY <2>2 DEF Said, Dirs, Service!Dirs
  <2>4. End["in"] = "none" /\ End' = [End EXCEPT !["in"] = "cut"]
    BY <1>1, <2>1 DEF End, Dirs
  <2>5. Service!CutOff
    BY <1>1, <1>3, <1>4, <2>3, <2>4 DEF Service!CutOff, End, Said
  <2> QED
    BY <2>5 DEF Service!PNext
<1> QED
  BY <1>5, <1>6

\* A visitor that has given up is a fault; otherwise nothing has happened yet.
LEMMA HandStep ==
  ASSUME PipeInv, NEW c \in Conns, opener[c] # "piping", NEW k, Hand(c, k)
  PROVE  Service!PNext \/ UNCHANGED Service!pipe
<1>1. UNCHANGED <<sent, got, sshUp, ctxDone, app>>
  BY DEF Hand
<1>2. CASE UNCHANGED remote
  BY <1>1, <1>2, PipeStutter
<1>3. CASE c = main /\ ~UNCHANGED remote
  <2>1. remote.end = "none" /\ remote'.gone /\ remote'.fin /\ remote'.end = "cut"
    BY <1>3, HandFacts
  <2>2. Faulty'
    BY <2>1 DEF Faulty
  <2> QED
    BY <1>1, <2>1, <2>2, FaultStep
<1> QED
  BY <1>2, <1>3 DEF Hand

LEMMA EveryStep ==
  ASSUME PipeInv, PipeInv', [Next]_vars
  PROVE  Service!PNext \/ UNCHANGED Service!pipe
<1>1. CASE Hands
  BY <1>1, HandStep DEF Hands
<1>2. CASE Opens
  BY <1>2, PipeStutter DEF Opens, cvars, chan
<1>3. CASE ChannelNext /\ UNCHANGED plane
  <2>1. CASE Goroutines
    BY <1>3, <2>1, ReadInInv, WriteInInv, ReadOutInv, WriteOutInv, PipeStutter
       DEF Goroutines, Inside
  <2>2. CASE Handler
    BY <1>3, <2>2, HandlerClosesStep, PipeStutter DEF Handler, HandlerTimeout, Up
  <2>3. CASE Readers
    BY <1>3, <2>3, AppReadsStep, AppReadsEndStep, RemoteReadsStep, RemoteReadsEndStep DEF Readers
  <2>4. CASE Environment
    BY <1>3, <2>4, AppSendStep, AppChangesStep, RemoteSendStep, RemoteChangesStep, TunnelEndsStep
       DEF Environment
  <2> QED
    BY <1>3, <2>1, <2>2, <2>3, <2>4 DEF ChannelNext
<1> QED
  BY <1>1, <1>2, <1>3, StepKinds

\* The two goroutines of handleChannel, the shared Once, half closes, linger 0 and
\* the frames of compress.go are a pipe, for every size of the buffers and any number
\* of units and of other connections, with and without compression.
THEOREM ConnectionIsPipe == Spec => ImplementsPipe
<1>1. PipeInv /\ [Next]_vars => PipeInv'
  BY PipeInvNext
<1>2. PipeInv /\ PipeInv' /\ [Next]_vars => [Service!PNext]_(Service!pipe)
  BY EveryStep
<1> QED
  BY PipeInvInit, PipeInit, <1>1, <1>2, PTL DEF Spec, ImplementsPipe, Service!PSpec
=============================================================================
