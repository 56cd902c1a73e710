------------------------------ MODULE Channel -------------------------------
(***************************************************************************)
(* One forwarded TCP connection: handleChannel (base_tunnel/handler.go),    *)
(* its two copying goroutines, the compressing writer of the response       *)
(* (compress.go), and what SetLinger(0), CloseWrite and Close do to the two *)
(* connections.  "in" is SSH->local, "out" is local->SSH.                   *)
(*                                                                         *)
(* A unit stands for what one Read returns.  A stream (QUIC) and a channel  *)
(* (SSH) differ in what a local Close does to a pending Read.               *)
(***************************************************************************)
EXTENDS Naturals, Sequences

CONSTANTS
  MaxIn, MaxOut, \* bound: units the visitor and the service send
  Buf,       \* units a connection holds before a writer blocks
  Compress   \* h.compress: negotiated for this tunnel

ASSUME ChannelAssumption ==
  MaxIn \in Nat /\ MaxOut \in Nat /\ Buf \in Nat \ {0} /\ Compress \in BOOLEAN

VARIABLES
  sshUp,    \* the SSH (and QUIC) connection lives
  ctxDone,  \* connCtx is cancelled
  kind,     \* what ch is: "channel" or "stream"
  handler,  \* handleChannel: off, wait, forced (after ctx.Done), returned
  copyIn, copyOut, \* its goroutines: read, write, payload, done
  once,     \* the shared sync.Once has fired
  sent, got, \* units sent by the ends, units that reached them: the ends' view
  chIn,     \* units of the visitor to read from ch
  sockOut,  \* units in the send buffer of localConn
  sockIn,   \* units of the service to read from localConn
  chOut,    \* frames under way on ch
  half,     \* the CloseWrites done: subset of {"local", "ch"}
  open,     \* our ends that are not closed: subset of {"local", "ch"}
  app, remote \* the two ends

chan == <<kind, handler, copyIn, copyOut, once, sent, got, chIn, sockOut, sockIn,
          chOut, half, open, app, remote>>
cvars == <<sshUp, ctxDone, chan>>

-----------------------------------------------------------------------------
Dirs == {"in", "out"}
Ends == {"none", "fin", "cut"}
\* Frames of compress.go: a deflated one goes out in one write, a raw one as
\* header and payload; without compression the bytes go out as they are.
Frames == {"plain", "deflate", "header", "payload"}

ChannelTypeOK ==
  /\ sshUp \in BOOLEAN /\ ctxDone \in BOOLEAN
  /\ kind \in {"channel", "stream"}
  /\ handler \in {"off", "wait", "forced", "returned"}
  /\ copyIn \in {"read", "write", "done"}
  /\ copyOut \in {"read", "write", "payload", "done"}
  /\ once \in BOOLEAN
  /\ sent["in"] \in 0..MaxIn /\ sent["out"] \in 0..MaxOut
  /\ got \in [Dirs -> Nat] /\ \A d \in Dirs : got[d] <= sent[d]
  /\ chIn \in 0..Buf /\ sockOut \in 0..Buf /\ sockIn \in 0..Buf
  /\ chOut \in Seq(Frames) /\ Len(chOut) <= Buf
  /\ half \subseteq {"local", "ch"} /\ open \subseteq {"local", "ch"}
  /\ app \in [fin: BOOLEAN, reset: BOOLEAN, end: Ends]
  /\ remote \in [fin: BOOLEAN, gone: BOOLEAN, end: Ends,
                 partial: BOOLEAN]

ChannelInit ==
  /\ sshUp = TRUE /\ ctxDone = FALSE
  /\ kind = "channel" /\ handler = "off"
  /\ copyIn = "read" /\ copyOut = "read" /\ once = FALSE
  /\ sent = [d \in Dirs |-> 0] /\ got = [d \in Dirs |-> 0]
  /\ chIn = 0 /\ sockOut = 0 /\ sockIn = 0 /\ chOut = <<>>
  /\ half = {} /\ open = {}
  /\ app = [fin |-> FALSE, reset |-> FALSE, end |-> "none"]
  /\ remote = [fin |-> FALSE, gone |-> FALSE, end |-> "none",
               partial |-> FALSE]

-----------------------------------------------------------------------------
(* The connections *)

Up == <<sshUp, ctxDone, kind>>
Running == handler # "off"  \* the goroutines may outlive the handler

\* A write to ch that does not block fails.
ChBroken == "ch" \notin open \/ ~sshUp \/ remote.gone

\* Read on ch has no more data: end of file, or an error.  A closed stream was
\* CancelRead, a closed channel still waits for the server's own close.
ChAtEnd ==
  \/ chIn = 0 /\ (remote.fin \/ remote.gone \/ ~sshUp)
  \/ kind = "stream" /\ ("ch" \notin open \/ ~sshUp)

\* Mutant: without SetLinger(0) the kernel would send what it has and a FIN;
\* here the reset is taken for a clean end.
CloseLocalQuietly ==
  /\ sockOut' = 0
  /\ app' = [app EXCEPT !.end = IF "local" \in open /\ @ = "none" THEN "fin" ELSE @]

\* localConn.Close with linger 0: what was not delivered is thrown away, and the
\* service gets a reset, unless it has seen the end of its stream before.
CloseLocal ==
  /\ sockOut' = 0
  /\ app' = [app EXCEPT !.end = IF "local" \in open /\ @ = "none" THEN "cut" ELSE @]

-----------------------------------------------------------------------------
(* The goroutines *)

\* once.Do(localConn.CloseWrite): only if the other direction is still going.
FinishIn ==
  /\ copyIn' = "done" /\ once' = TRUE
  /\ half' = IF once \/ "local" \notin open THEN half ELSE half \cup {"local"}

\* Mutant: both directions close the same side.
FinishOutWrongSide ==
  /\ copyOut' = "done" /\ once' = TRUE
  /\ half' = IF once \/ "local" \notin open THEN half ELSE half \cup {"local"}

\* once.Do(ch.CloseWrite).
FinishOut ==
  /\ copyOut' = "done" /\ once' = TRUE
  /\ half' = IF once \/ "ch" \notin open THEN half ELSE half \cup {"ch"}

\* io.CopyBuffer(localConn, ch): Read, then Write, until one of them fails.
ReadIn ==
  /\ Running /\ copyIn = "read"
  /\ \/ /\ chIn > 0 /\ ~(kind = "stream" /\ ChAtEnd)
        /\ chIn' = chIn - 1 /\ copyIn' = "write"
        /\ UNCHANGED <<once, half>>
     \/ ChAtEnd /\ FinishIn /\ UNCHANGED chIn
  /\ UNCHANGED <<Up, handler, copyOut, sent, got, sockOut, sockIn, chOut, open,
                 app, remote>>

WriteIn ==
  /\ Running /\ copyIn = "write"
  /\ \/ /\ "local" \in open /\ ~app.reset /\ sockOut < Buf
        /\ sockOut' = sockOut + 1 /\ copyIn' = "read"
        /\ UNCHANGED <<once, half>>
     \/ ("local" \notin open \/ app.reset) /\ FinishIn /\ UNCHANGED sockOut
  /\ UNCHANGED <<Up, handler, copyOut, sent, got, chIn, sockIn, chOut, open,
                 app, remote>>

\* io.CopyBuffer(sshWriter, localConn).
ReadOut ==
  /\ Running /\ copyOut = "read"
  /\ \/ /\ "local" \in open /\ sockIn > 0
        /\ sockIn' = sockIn - 1 /\ copyOut' = "write"
        /\ UNCHANGED <<once, half>>
     \/ /\ "local" \notin open \/ (sockIn = 0 /\ (app.fin \/ app.reset))
        /\ FinishOut /\ UNCHANGED sockIn
  /\ UNCHANGED <<Up, handler, copyIn, sent, got, chIn, sockOut, chOut, open,
                 app, remote>>

\* writeBlock: what may go out first for a block.  Small blocks, and those that do
\* not get smaller (after two of them in a row every block), go out raw.
FirstFrames == IF Compress THEN {"deflate", "header"} ELSE {"plain"}

\* A write fails when ch is broken; one that has begun to wait for room learns
\* of our own Close only when there is room again, or from the other side.
WriteFails == ChBroken /\ (Len(chOut) < Buf \/ ~sshUp \/ remote.gone)

WriteOut ==
  /\ Running /\ copyOut = "write"
  /\ \/ /\ ~ChBroken /\ Len(chOut) < Buf
        /\ \E f \in FirstFrames :
             /\ chOut' = Append(chOut, f)
             /\ copyOut' = IF f = "header" THEN "payload" ELSE "read"
        /\ UNCHANGED <<once, half>>
     \/ WriteFails /\ FinishOut /\ UNCHANGED chOut
  /\ UNCHANGED <<Up, handler, copyIn, sent, got, chIn, sockOut, sockIn, open,
                 app, remote>>

\* writeRawFrame: the payload after its header.
WritePayload ==
  /\ Running /\ copyOut = "payload"
  /\ \/ /\ ~ChBroken /\ Len(chOut) < Buf
        /\ chOut' = Append(chOut, "payload") /\ copyOut' = "read"
        /\ UNCHANGED <<once, half>>
     \/ WriteFails /\ FinishOut /\ UNCHANGED chOut
  /\ UNCHANGED <<Up, handler, copyIn, sent, got, chIn, sockOut, sockIn, open,
                 app, remote>>

-----------------------------------------------------------------------------
(* handleChannel *)

\* Both goroutines are done: return, and the deferred closes.
HandlerDone ==
  /\ handler \in {"wait", "forced"} /\ copyIn = "done" /\ copyOut = "done"
  /\ handler' = "returned"
  /\ CloseLocal /\ open' = {}
  /\ UNCHANGED <<Up, copyIn, copyOut, once, sent, got, chIn, sockIn, chOut, half,
                 remote>>

\* Mutant: the cancelled handler only waits.
HandlerCancelledWaits ==
  /\ handler = "wait" /\ ctxDone
  /\ handler' = "wait"
  /\ UNCHANGED <<Up, copyIn, copyOut, once, sent, got, chIn, sockOut, sockIn, chOut,
                 half, open, app, remote>>

\* <-ctx.Done(): close both, then wait for the goroutines.
HandlerCancelled ==
  /\ handler = "wait" /\ ctxDone
  /\ handler' = "forced"
  /\ CloseLocal /\ open' = {}
  /\ UNCHANGED <<Up, copyIn, copyOut, once, sent, got, chIn, sockIn, chOut, half,
                 remote>>

\* ... for five seconds.
HandlerTimeout ==
  /\ handler = "forced"
  /\ handler' = "returned"
  /\ UNCHANGED <<Up, copyIn, copyOut, once, sent, got, chIn, sockOut, sockIn, chOut,
                 half, open, app, remote>>

-----------------------------------------------------------------------------
(* The local service *)

AppSend ==
  /\ "local" \in open /\ ~app.fin /\ ~app.reset
  /\ sent["out"] < MaxOut /\ sockIn < Buf
  /\ sent' = [sent EXCEPT !["out"] = @ + 1] /\ sockIn' = sockIn + 1
  /\ UNCHANGED <<Up, handler, copyIn, copyOut, once, got, chIn, sockOut, chOut, half,
                 open, app, remote>>

AppReads ==
  /\ sockOut > 0 /\ ~app.reset
  /\ sockOut' = sockOut - 1 /\ got' = [got EXCEPT !["in"] = @ + 1]
  /\ UNCHANGED <<Up, handler, copyIn, copyOut, once, sent, chIn, sockIn, chOut, half,
                 open, app, remote>>

\* The FIN of CloseWrite, behind the data.
AppReadsEnd ==
  /\ sockOut = 0 /\ "local" \in half /\ app.end = "none"
  /\ app' = [app EXCEPT !.end = "fin"]
  /\ UNCHANGED <<Up, handler, copyIn, copyOut, once, sent, got, chIn, sockOut, sockIn,
                 chOut, half, open, remote>>

\* The service says its end or resets; a reset may
\* overtake data that was not read.
AppChanges ==
  /\ "local" \in open /\ ~app.reset
  /\ \/ ~app.fin /\ app' = [app EXCEPT !.fin = TRUE] /\ UNCHANGED <<sockIn, sockOut>>
     \/ /\ app' = [app EXCEPT !.reset = TRUE,
                              !.end = IF @ = "none" THEN "cut" ELSE @]
        /\ sockOut' = 0 /\ sockIn' \in {0, sockIn}
  /\ UNCHANGED <<Up, handler, copyIn, copyOut, once, sent, got, chIn, chOut, half,
                 open, remote>>

-----------------------------------------------------------------------------
(* The visitor, behind the server *)

Visited == handler # "off" /\ sshUp /\ ~remote.gone

RemoteSend ==
  /\ Visited /\ ~remote.fin /\ "ch" \in open
  /\ sent["in"] < MaxIn /\ chIn < Buf
  /\ sent' = [sent EXCEPT !["in"] = @ + 1] /\ chIn' = chIn + 1
  /\ UNCHANGED <<Up, handler, copyIn, copyOut, once, got, sockOut, sockIn, chOut, half,
                 open, app, remote>>

\* The server undoes the framing: a deflated frame is a unit, a raw one is a unit
\* once header and payload are there, anything else is not to be understood.
RemoteReads ==
  /\ Visited /\ chOut # <<>> /\ remote.end = "none"
  /\ chOut' = Tail(chOut)
  /\ LET f == Head(chOut)
         unit == \/ f = "plain" /\ ~Compress
                 \/ f = "deflate" /\ ~remote.partial
                 \/ f = "payload" /\ remote.partial
         header == f = "header" /\ ~remote.partial
     IN  /\ got' = IF unit THEN [got EXCEPT !["out"] = @ + 1] ELSE got
         /\ remote' = [remote EXCEPT !.partial = header,
                                     !.end = IF unit \/ header THEN @ ELSE "cut"]
  /\ UNCHANGED <<Up, handler, copyIn, copyOut, once, sent, chIn, sockOut, sockIn, half,
                 open, app>>

\* EOF of CloseWrite, or the close itself, behind the data.
RemoteReadsEnd ==
  /\ Visited /\ chOut = <<>> /\ remote.end = "none"
  /\ "ch" \in half \/ "ch" \notin open
  /\ remote' = [remote EXCEPT !.end = IF remote.partial THEN "cut" ELSE "fin"]
  /\ UNCHANGED <<Up, handler, copyIn, copyOut, once, sent, got, chIn, sockOut, sockIn,
                 chOut, half, open, app>>

\* The visitor says its end or goes away; the server
\* answers the close of a channel with its own.
RemoteChanges ==
  /\ Visited /\ ("ch" \in open \/ copyIn = "read")
  /\ \/ ~remote.fin /\ remote' = [remote EXCEPT !.fin = TRUE]
     \/ remote' = [remote EXCEPT !.gone = TRUE, !.fin = TRUE,
                                 !.end = IF @ = "none" THEN "cut" ELSE @]
  /\ UNCHANGED <<Up, handler, copyIn, copyOut, once, sent, got, chIn, sockOut, sockIn,
                 chOut, half, open, app>>

-----------------------------------------------------------------------------
(* The tunnel, as Session has it: a lost connection ends Wait, which cancels  *)
(* connCtx; a cancelled one is closed.                                         *)

SshDown ==
  /\ sshUp /\ sshUp' = FALSE
  /\ remote' = [remote EXCEPT !.end = IF handler # "off" /\ @ = "none" THEN "cut" ELSE @]
  /\ UNCHANGED <<ctxDone, kind, handler, copyIn, copyOut, once, sent, got, chIn, sockOut,
                 sockIn, chOut, half, open, app>>

CtxDone ==
  /\ ~ctxDone /\ ctxDone' = TRUE
  /\ UNCHANGED <<sshUp, chan>>

-----------------------------------------------------------------------------
Goroutines == ReadIn \/ WriteIn \/ ReadOut \/ WriteOut \/ WritePayload
Handler == HandlerDone \/ HandlerCancelled \/ HandlerTimeout
Readers == AppReads \/ AppReadsEnd \/ RemoteReads \/ RemoteReadsEnd
Environment == AppSend \/ AppChanges \/ RemoteSend \/ RemoteChanges \/ SshDown \/ CtxDone

ChannelNext == Goroutines \/ Handler \/ Readers \/ Environment

Faulty == ~sshUp \/ ctxDone \/ app.reset \/ remote.gone

Service == INSTANCE Pipe WITH
  said <- {d \in Dirs : IF d = "in" THEN remote.fin ELSE app.fin},
  end <- [d \in Dirs |-> IF d = "in" THEN app.end ELSE remote.end],
  fault <- Faulty
=============================================================================
