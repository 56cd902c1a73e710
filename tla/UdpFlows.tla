------------------------------ MODULE UdpFlows ------------------------------
(***************************************************************************)
(* The UDP proxy of one tunnel port (runUDPProxy in                        *)
(* base_tunnel/udp_proxy.go and readDatagrams in udp_datagram.go): the     *)
(* read loops of the data channels, the table of flows, one pump per flow, *)
(* the cleanup and keepalive loop, and the reclaiming of everything when   *)
(* the tunnel ends.  All of them are goroutines that meet in the table (a  *)
(* sync.Map) and in each flow's sync.Once.                                 *)
(***************************************************************************)
EXTENDS Integers, FiniteSets

CONSTANTS
  Flows,        \* flow ids
  Shards,       \* number of data channels
  MaxDials,     \* bound: flows created
  KeepaliveMax  \* udpFlowKeepaliveMax (30)

ASSUME UdpFlowsAssumption ==
  /\ Flows \subseteq Nat /\ Shards \in Nat \ {0}
  /\ MaxDials \in Nat /\ KeepaliveMax \in Nat

Readers == 0..(Shards - 1)
Objs == 1..MaxDials

VARIABLES
  datagram,     \* QUIC DATAGRAM mode: one read loop, no channels
  fragEnabled,  \* v2 frames, the only ones that can carry a keepalive
  ctxDone,
  eof,          \* by reader: what it reads from is at its end
  chClosed,     \* closeChannels closed the channels, if there are any
  rd,           \* the read loops
  table,        \* p.flows: flow id -> object, 0: none
  obj,          \* every udpClientFlow dialled so far
  dialled,      \* how many
  victim,       \* the flow the cleanup loop found expired, 0: none
  sweeper,      \* the cleanup and keepalive loop
  main,         \* runUDPProxy itself
  toClose       \* flow ids closeAll has not come to yet

vars == <<datagram, fragEnabled, ctxDone, eof, chClosed, rd, table, obj,
          dialled, victim, sweeper, main, toClose>>
config == <<datagram, fragEnabled>>
loops == <<victim, sweeper, main, toClose>>
world == <<ctxDone, eof, chClosed>>

-----------------------------------------------------------------------------
(* udpClientFlow; idle is the age of lastSeen: 1 past udpFlowKeepaliveIdle, *)
(* 2 past the idle timeout.                                                 *)

NoObj == [flow |-> 0, open |-> FALSE, removed |-> FALSE, pump |-> "none",
          idle |-> 0, keepalives |-> 0]

Running == IF datagram THEN {0} ELSE Readers

TypeOK ==
  /\ datagram \in BOOLEAN /\ fragEnabled \in BOOLEAN
  /\ ctxDone \in BOOLEAN /\ chClosed \in BOOLEAN
  /\ eof \in [Readers -> BOOLEAN]
  /\ rd \in [Readers -> [pc: {"read", "load", "store", "write", "done"},
                         flow: Flows \cup {0}, o: Objs \cup {0}]]
  /\ table \in [Flows -> Objs \cup {0}]
  /\ obj \in [Objs -> [flow: Flows \cup {0}, open: BOOLEAN, removed: BOOLEAN,
                       pump: {"none", "running", "ended"}, idle: 0..2,
                       keepalives: 0..KeepaliveMax]]
  /\ dialled \in 0..MaxDials
  /\ victim \in Objs \cup {0}
  /\ sweeper \in {"off", "running", "ended"}
  /\ main \in {"start", "wait", "close", "stopped"}
  /\ toClose \subseteq Flows

Idle(pc) == [pc |-> pc, flow |-> 0, o |-> 0]

\* setupUDPForward selects the datagram mode only where fragments are on.
Init ==
  /\ datagram \in BOOLEAN /\ fragEnabled \in BOOLEAN
  /\ datagram => fragEnabled
  /\ ctxDone = FALSE /\ chClosed = FALSE
  /\ eof = [r \in Readers |-> FALSE]
  /\ rd = [r \in Readers |-> Idle("done")]
  /\ table = [f \in Flows |-> 0]
  /\ obj = [o \in Objs |-> NoObj]
  /\ dialled = 0
  /\ victim = 0
  /\ sweeper = "off"
  /\ main = "start"
  /\ toClose = {}

-----------------------------------------------------------------------------
(* flow.remove, udpShardIndex, writeFrame *)

\* Mutant: without the sync.Once, the flow id is deleted again.
EntryDeletedAgain(o) == [table EXCEPT ![obj[o].flow] = 0]

\* Mutant: the socket is closed, the entry stays.
EntryKept(o) == table

\* Once: delete the table's entry of this flow id, close the socket.
EntryDeleted(o) ==
  IF obj[o].removed THEN table ELSE [table EXCEPT ![obj[o].flow] = 0]

\* Nobody reads the age and the count of a removed flow again.
SocketClosed(o) ==
  [NoObj EXCEPT !.flow = obj[o].flow, !.removed = TRUE, !.pump = obj[o].pump]

Remove(o) ==
  /\ table' = EntryDeleted(o)
  /\ obj' = [obj EXCEPT ![o] = SocketClosed(o)]

ShardIndex(f) == IF datagram THEN 0 ELSE f % Shards

Writable(f) == ~chClosed /\ ~eof[ShardIndex(f)]

-----------------------------------------------------------------------------
(* runUDPProxy starts *)

\* The local address does not resolve: the channels are closed again.
StartFails ==
  /\ main = "start"
  /\ main' = "stopped" /\ chClosed' = ~datagram
  /\ UNCHANGED <<config, ctxDone, eof, rd, table, obj, dialled, victim,
                 sweeper, toClose>>

Start ==
  /\ main = "start"
  /\ rd' = [r \in Readers |-> Idle(IF r \in Running THEN "read" ELSE "done")]
  /\ sweeper' = "running" /\ main' = "wait"
  /\ UNCHANGED <<config, world, table, obj, dialled, victim, toClose>>

-----------------------------------------------------------------------------
(* readChannel, readDatagrams, getOrCreateFlow *)

\* A datagram of flow f, whole or put together, came in.
Receive(r, f) ==
  /\ rd[r].pc = "read" /\ ~eof[r]
  /\ rd' = [rd EXCEPT ![r] = [pc |-> "load", flow |-> f, o |-> 0]]
  /\ UNCHANGED <<config, world, table, obj, dialled, loops>>

\* A keepalive of the server only refreshes the flow.
ReceiveKeepalive(r, f) ==
  /\ rd[r].pc = "read" /\ ~eof[r] /\ fragEnabled
  /\ table[f] # 0
  /\ obj' = [obj EXCEPT ![table[f]].idle = 0]
  /\ UNCHANGED <<config, world, rd, table, dialled, loops>>

ReadFails(r) ==
  /\ rd[r].pc = "read" /\ eof[r]
  /\ rd' = [rd EXCEPT ![r] = Idle("done")]
  /\ UNCHANGED <<config, world, table, obj, dialled, loops>>

Load(r) ==
  /\ rd[r].pc = "load" /\ table[rd[r].flow] # 0
  /\ obj' = [obj EXCEPT ![table[rd[r].flow]].idle = 0]
  /\ rd' = [rd EXCEPT ![r].pc = "write", ![r].o = table[rd[r].flow]]
  /\ UNCHANGED <<config, world, table, dialled, loops>>

\* net.DialUDP fails: the packet is dropped.
DialFails(r) ==
  /\ rd[r].pc = "load" /\ table[rd[r].flow] = 0
  /\ rd' = [rd EXCEPT ![r] = Idle("read")]
  /\ UNCHANGED <<config, world, table, obj, dialled, loops>>

\* A new connected socket and a flow around it, not yet in the table.
Dial(r) ==
  /\ rd[r].pc = "load" /\ table[rd[r].flow] = 0
  /\ dialled < MaxDials
  /\ dialled' = dialled + 1
  /\ obj' = [obj EXCEPT ![dialled'] = [NoObj EXCEPT !.flow = rd[r].flow, !.open = TRUE]]
  /\ rd' = [rd EXCEPT ![r].pc = "store", ![r].o = dialled']
  /\ UNCHANGED <<config, world, table, loops>>

\* Mutant: Store instead of LoadOrStore.
StoreOver(r) ==
  /\ rd[r].pc = "store"
  /\ table' = [table EXCEPT ![rd[r].flow] = rd[r].o]
  /\ obj' = [obj EXCEPT ![rd[r].o].pump = "running"]
  /\ rd' = [rd EXCEPT ![r].pc = "write"]
  /\ UNCHANGED <<config, world, dialled, loops>>

\* LoadOrStore: whoever comes second closes its socket and uses the first's.
LoadOrStore(r) ==
  LET won == table[rd[r].flow] = 0
  IN /\ rd[r].pc = "store"
     /\ table' = IF won THEN [table EXCEPT ![rd[r].flow] = rd[r].o] ELSE table
     /\ obj' = IF won THEN [obj EXCEPT ![rd[r].o].pump = "running"]
               ELSE [obj EXCEPT ![rd[r].o].open = FALSE]
     /\ rd' = [rd EXCEPT ![r].pc = "write",
                         ![r].o = IF won THEN @ ELSE table[rd[r].flow]]
     /\ UNCHANGED <<config, world, dialled, loops>>

\* The local service takes the payload (an empty one is not even written).
Write(r) ==
  /\ rd[r].pc = "write" /\ obj[rd[r].o].open
  /\ rd' = [rd EXCEPT ![r] = Idle("read")]
  /\ UNCHANGED <<config, world, table, obj, dialled, loops>>

\* The socket was closed meanwhile, or it reports an error.
WriteFails(r) ==
  /\ rd[r].pc = "write"
  /\ Remove(rd[r].o)
  /\ rd' = [rd EXCEPT ![r] = Idle("read")]
  /\ UNCHANGED <<config, world, dialled, loops>>

-----------------------------------------------------------------------------
(* pump: a datagram of the local service that goes through changes nothing *)
(* here, lastSeen stays as it is.                                           *)

\* The read fails, or the datagram cannot be written: the pump removes its flow.
PumpEnds(o) ==
  /\ obj[o].pump = "running"
  /\ table' = EntryDeleted(o)
  /\ obj' = [obj EXCEPT ![o] = [SocketClosed(o) EXCEPT !.pump = "ended"]]
  /\ UNCHANGED <<config, world, rd, dialled, loops>>

-----------------------------------------------------------------------------
(* sweepIdleFlows and sendKeepalives, one flow of their Range at a time *)

SweepCheck(f) ==
  /\ sweeper = "running" /\ victim = 0
  /\ table[f] # 0 /\ obj[table[f]].idle = 2
  /\ victim' = table[f]
  /\ UNCHANGED <<config, world, rd, table, obj, dialled, sweeper, main, toClose>>

SweepRemove ==
  /\ victim # 0
  /\ Remove(victim)
  /\ victim' = 0
  /\ UNCHANGED <<config, world, rd, dialled, sweeper, main, toClose>>

KeepaliveDue(o) ==
  fragEnabled /\ obj[o].idle >= 1 /\ obj[o].keepalives < KeepaliveMax

\* Mutant: the count starts again at the limit.
SendKeepaliveWraps(f) ==
  /\ sweeper = "running" /\ victim = 0
  /\ table[f] # 0 /\ KeepaliveDue(table[f]) /\ Writable(f)
  /\ obj' = [obj EXCEPT ![table[f]].keepalives = (@ + 1) % KeepaliveMax,
                        ![table[f]].idle = 0]
  /\ UNCHANGED <<config, world, rd, table, dialled, loops>>

\* A flow that has been idle for a while gets a keepalive, which refreshes it.
SendKeepalive(f) ==
  /\ sweeper = "running" /\ victim = 0
  /\ table[f] # 0 /\ KeepaliveDue(table[f])
  /\ IF Writable(f)
     THEN /\ obj' = [obj EXCEPT ![table[f]].keepalives = @ + 1, ![table[f]].idle = 0]
          /\ UNCHANGED table
     ELSE Remove(table[f])
  /\ UNCHANGED <<config, world, rd, dialled, loops>>

SweeperEnds ==
  /\ sweeper = "running" /\ victim = 0 /\ ctxDone
  /\ sweeper' = "ended"
  /\ UNCHANGED <<config, world, rd, table, obj, dialled, victim, main, toClose>>

-----------------------------------------------------------------------------
(* runUDPProxy ends: closeChannels, closeAll *)

\* Mutant: the first read loop that ends counts for all.
ReadersDoneAny == ~datagram /\ \E r \in Running : rd[r].pc = "done"

\* The done channel; in datagram mode nobody closes it.
ReadersDone == ~datagram /\ \A r \in Running : rd[r].pc = "done"

\* Mutant: the data channels stay open.
CloseChannelsNot ==
  /\ main = "wait"
  /\ ctxDone \/ ReadersDone
  /\ main' = "close" /\ toClose' = Flows
  /\ UNCHANGED <<config, world, rd, table, obj, dialled, victim, sweeper>>

CloseChannels ==
  /\ main = "wait"
  /\ ctxDone \/ ReadersDone
  /\ chClosed' = ~datagram
  /\ main' = "close" /\ toClose' = Flows
  /\ UNCHANGED <<config, ctxDone, eof, rd, table, obj, dialled, victim, sweeper>>

CloseFlow(f) ==
  /\ main = "close" /\ f \in toClose
  /\ toClose' = toClose \ {f}
  /\ IF table[f] # 0 THEN Remove(table[f]) ELSE UNCHANGED <<table, obj>>
  /\ UNCHANGED <<config, world, rd, dialled, victim, sweeper, main>>

Stop ==
  /\ main = "close" /\ toClose = {}
  /\ main' = "stopped"
  /\ UNCHANGED <<config, world, rd, table, obj, dialled, victim, sweeper, toClose>>

-----------------------------------------------------------------------------
(* The world *)

Cancel ==
  /\ ~ctxDone /\ ctxDone' = TRUE
  /\ UNCHANGED <<config, eof, chClosed, rd, table, obj, dialled, loops>>

\* The server closes a channel, answers our close, or the connection goes down;
\* ReceiveDatagram also ends with the context.
Ends(r) ==
  /\ ~eof[r] /\ eof' = [eof EXCEPT ![r] = TRUE]
  /\ UNCHANGED <<config, ctxDone, chClosed, rd, table, obj, dialled, loops>>

\* Time passes without a refresh of lastSeen.
Age(o) ==
  /\ obj[o].open /\ obj[o].pump # "none" /\ obj[o].idle < 2
  /\ obj' = [obj EXCEPT ![o].idle = @ + 1]
  /\ UNCHANGED <<config, world, rd, table, dialled, loops>>

-----------------------------------------------------------------------------
Reader(r) ==
  \/ ReadFails(r)
  \/ Load(r)
  \/ DialFails(r)
  \/ Dial(r)
  \/ LoadOrStore(r)
  \/ Write(r)
  \/ WriteFails(r)

Inbound == \E r \in Readers, f \in Flows : Receive(r, f) \/ ReceiveKeepalive(r, f)

Main == StartFails \/ Start \/ CloseChannels \/ (\E f \in Flows : CloseFlow(f)) \/ Stop

Next ==
  \/ Inbound
  \/ \E r \in Readers : Reader(r) \/ Ends(r)
  \/ \E o \in Objs : PumpEnds(o) \/ Age(o)
  \/ \E f \in Flows : SweepCheck(f) \/ SendKeepalive(f)
  \/ SweepRemove
  \/ SweeperEnds
  \/ Main
  \/ Cancel

Spec == Init /\ [][Next]_vars

\* Goroutines that can run do; time passes; tickers fire; the peer answers our
\* close of a channel, and ReceiveDatagram returns once the context is done.
Fairness ==
  /\ \A r \in Readers : WF_vars(Reader(r))
  /\ \A r \in Readers : WF_vars(Ends(r) /\ (chClosed \/ (datagram /\ ctxDone)))
  /\ \A o \in Objs : WF_vars(Age(o))
  /\ \A f \in Flows : WF_vars(SweepCheck(f)) /\ WF_vars(SendKeepalive(f))
  /\ WF_vars(SweepRemove)
  /\ WF_vars(Main)
  /\ SF_vars(SweeperEnds)

LiveSpec == Spec /\ Fairness

-----------------------------------------------------------------------------
(* Properties *)

\* A datagram of the server never goes to a dead socket twice: what the table
\* holds is an open socket with a pump that reads it.
EntriesLive ==
  \A f \in Flows : table[f] # 0 =>
    /\ obj[table[f]].flow = f
    /\ obj[table[f]].open /\ obj[table[f]].pump = "running"

\* A flow id has one local socket: no pump runs on an open socket that the
\* table lost, whatever readers, pump, sweeper and closeAll do to one flow id.
OneSocketPerFlow ==
  \A o \in Objs : obj[o].pump = "running" /\ obj[o].open => table[obj[o].flow] = o

\* When the data channels are gone and the proxy stopped for that reason, every
\* socket was closed with it.
DoneReclaims ==
  main = "stopped" /\ ~ctxDone => \A o \in Objs : ~obj[o].open

\* After cancellation the read loops, the cleanup loop and runUDPProxy end.
CancelStops ==
  ctxDone ~> /\ main = "stopped" /\ sweeper # "running"
             /\ \A r \in Readers : rd[r].pc = "done"

\* A flow the server has no more datagrams for is reclaimed, though keepalives
\* refresh it: they are limited ("让 flow 正常回收", udp_proxy.go:87).
IdleFlowsReclaimed ==
  ([]~ctxDone) /\ ~[]<><<Inbound>>_vars => []<>(\A f \in Flows : table[f] = 0)
=============================================================================
