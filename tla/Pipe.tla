-------------------------------- MODULE Pipe --------------------------------
(***************************************************************************)
(* What a forwarded TCP connection promises its two ends: the remote        *)
(* visitor and the local service.  Each direction is a stream of units, in  *)
(* order, followed by an end.  A clean end ("fin") after less than          *)
(* everything, and a cut, need a fault: a lost or cancelled tunnel, or an   *)
(* end that reset the connection.  The one exception is the service's side: *)
(* SetLinger(0) turns the final close into a reset, so once both ends have  *)
(* said all they have to say the service may be cut off from the rest.      *)
(***************************************************************************)
EXTENDS Naturals

Dirs == {"in", "out"}  \* to the service, to the visitor

VARIABLES
  sent, got,  \* units given to and taken from each direction
  said,       \* the directions whose sender has said its end
  end,        \* what the receiver of each direction has seen of the end
  fault       \* something went wrong

pipe == <<sent, got, said, end, fault>>

PInit ==
  /\ sent = [d \in Dirs |-> 0] /\ got = [d \in Dirs |-> 0]
  /\ said = {} /\ end = [d \in Dirs |-> "none"] /\ fault = FALSE

Send(d) ==
  /\ d \notin said
  /\ sent' = [sent EXCEPT ![d] = @ + 1]
  /\ UNCHANGED <<got, said, end, fault>>

SayEnd(d) ==
  /\ said' = said \cup {d}
  /\ UNCHANGED <<sent, got, end, fault>>

Deliver(d) ==
  /\ got[d] < sent[d] /\ end[d] = "none"
  /\ got' = [got EXCEPT ![d] = @ + 1]
  /\ UNCHANGED <<sent, said, end, fault>>

Complete(d) == d \in said /\ got[d] = sent[d]

Finish(d) ==
  /\ end[d] = "none" /\ (Complete(d) \/ fault)
  /\ end' = [end EXCEPT ![d] = "fin"]
  /\ UNCHANGED <<sent, got, said, fault>>

CutOff ==
  /\ fault \/ said = Dirs
  /\ end["in"] = "none" /\ end' = [end EXCEPT !["in"] = "cut"]
  /\ UNCHANGED <<sent, got, said, fault>>

\* A fault may cut off one end or both.
Fault ==
  /\ fault' = TRUE
  /\ \E D \in SUBSET {d \in Dirs : end[d] = "none"} :
       end' = [d \in Dirs |-> IF d \in D THEN "cut" ELSE end[d]]
  /\ \E D \in SUBSET Dirs : said' = said \cup D
  /\ UNCHANGED <<sent, got>>

PNext ==
  \/ \E d \in Dirs : Send(d) \/ SayEnd(d) \/ Deliver(d) \/ Finish(d)
  \/ CutOff
  \/ Fault

PSpec == PInit /\ [][PNext]_pipe
=============================================================================
