--------------------------- MODULE UdpFlowsProofs ---------------------------
(***************************************************************************)
(* Proofs about UdpFlows, for any flow ids, data channels and numbers of   *)
(* flows: the table holds live sockets only, a flow id has one socket, and *)
(* a proxy that stops with its channels leaves no socket open.             *)
(*                                                                         *)
(* None of the three is inductive.  Whether deleting by flow id hits the   *)
(* right entry depends on what the goroutines hold between two steps: a    *)
(* reader a flow it has dialled or loaded, the cleanup loop its victim.    *)
(***************************************************************************)
EXTENDS UdpFlows, TLAPS

ObjType ==
  [flow: Flows \cup {0}, open: BOOLEAN, removed: BOOLEAN,
   pump: {"none", "running", "ended"}, idle: 0..2, keepalives: 0..KeepaliveMax]

RdType ==
  [pc: {"read", "load", "store", "write", "done"}, flow: Flows \cup {0}, o: Objs \cup {0}]

\* A flow that was in the table once.
Stored(o) == o \in Objs /\ obj[o].flow \in Flows /\ obj[o].pump # "none"

\* What a flow is after remove, before it, and before it is dialled.
ObjsOK ==
  \A o \in Objs :
    /\ obj[o].removed => ~obj[o].open
    /\ obj[o].pump # "none" /\ ~obj[o].removed => obj[o].open /\ obj[o].pump = "running"
    /\ o > dialled => obj[o] = NoObj
    /\ obj[o].pump # "none" => obj[o].flow \in Flows

\* A flow between net.DialUDP and LoadOrStore is its reader's alone.
Fresh(r) ==
  /\ rd[r].o \in 1..dialled /\ rd[r].flow \in Flows
  /\ obj[rd[r].o].flow = rd[r].flow /\ obj[rd[r].o].open
  /\ obj[rd[r].o].pump = "none"

ReadersOK ==
  \A r \in Readers :
    /\ rd[r].pc = "load" => rd[r].flow \in Flows
    /\ rd[r].pc = "store" => Fresh(r)
    /\ rd[r].pc = "write" => Stored(rd[r].o)
    /\ \A q \in Readers : rd[r].pc = "store" /\ rd[q].pc = "store" /\ rd[r].o = rd[q].o => r = q

\* An open socket is in the hands of its reader, or has its pump.
Owned ==
  \A o \in Objs : obj[o].open /\ obj[o].pump = "none" =>
    \E r \in Readers : rd[r].pc = "store" /\ rd[r].o = o

\* Before the start nothing is there; once the proxy ends because the read loops
\* have, they stay ended, and what closeAll has passed stays empty.
EndOK ==
  /\ main = "start" => /\ \A r \in Readers : rd[r].pc = "done"
                       /\ \A f \in Flows : table[f] = 0
  /\ main \in {"close", "stopped"} /\ ~ctxDone =>
       /\ \A r \in Readers : rd[r].pc = "done"
       /\ \A f \in Flows : table[f] # 0 => main = "close" /\ f \in toClose

Inv ==
  /\ TypeOK /\ EntriesLive /\ OneSocketPerFlow
  /\ ObjsOK /\ ReadersOK /\ (victim # 0 => Stored(victim)) /\ Owned /\ EndOK

-----------------------------------------------------------------------------
(* Records *)

LEMMA NoObjType ==
  NoObj \in ObjType /\ ~NoObj.open /\ ~NoObj.removed /\ NoObj.pump = "none"
BY UdpFlowsAssumption DEF NoObj, ObjType

LEMMA FreshFields ==
  ASSUME NEW f \in Flows
  PROVE  LET fresh == [NoObj EXCEPT !.flow = f, !.open = TRUE]
         IN  /\ fresh \in ObjType /\ fresh.flow = f /\ fresh.open
             /\ ~fresh.removed /\ fresh.pump = "none"
BY NoObjType DEF ObjType

LEMMA CountedFields ==
  ASSUME NEW x \in ObjType, NEW n \in 0..KeepaliveMax
  PROVE  LET new == [x EXCEPT !.keepalives = n, !.idle = 0]
         IN  /\ new \in ObjType /\ new.flow = x.flow /\ new.open = x.open
             /\ new.removed = x.removed /\ new.pump = x.pump
<1> DEFINE y == [x EXCEPT !.keepalives = n]
           z == [y EXCEPT !.idle = 0]
<1>1. /\ y \in ObjType /\ y.flow = x.flow /\ y.open = x.open
      /\ y.removed = x.removed /\ y.pump = x.pump
  BY DEF ObjType
<1> HIDE DEF y
<1>2. /\ z \in ObjType /\ z.flow = y.flow /\ z.open = y.open
      /\ z.removed = y.removed /\ z.pump = y.pump
  BY <1>1 DEF ObjType
<1> QED
  BY <1>1, <1>2 DEF y

LEMMA ClosedFields ==
  ASSUME NEW o, obj[o].flow \in Flows, obj[o].pump \in {"running", "ended"},
         NEW pump \in {"running", "ended"}
  PROVE  LET new == [SocketClosed(o) EXCEPT !.pump = pump]
         IN  /\ new \in ObjType /\ new.flow = obj[o].flow /\ ~new.open
             /\ new.removed /\ new.pump = pump
BY NoObjType DEF ObjType, SocketClosed

LEMMA InvInit == Init => Inv
<1> SUFFICES ASSUME Init PROVE Inv
  OBVIOUS
<1>1. 0 \in 0..KeepaliveMax /\ 0 \in 0..MaxDials
  BY UdpFlowsAssumption
<1>2. NoObj \in ObjType /\ Idle("done") \in RdType
  BY <1>1 DEF NoObj, ObjType, Idle, RdType
<1>3. obj \in [Objs -> ObjType] /\ rd \in [Readers -> RdType]
  BY <1>2 DEF Init
<1>4. TypeOK
  BY <1>1, <1>3 DEF Init, TypeOK, ObjType, RdType
<1> QED
  BY <1>4 DEF Init, Inv, EntriesLive, OneSocketPerFlow, ObjsOK, ReadersOK, Owned, EndOK,
              NoObj, Idle

-----------------------------------------------------------------------------
(* What the steps have in common *)

\* The part of the invariant about flows and the table.
FlowsOK == EntriesLive /\ OneSocketPerFlow /\ ObjsOK

\* A step that leaves the flows of the readers in "store" alone.
KeepsFlows ==
  \A o \in Objs :
    /\ obj'[o].flow = obj[o].flow
    /\ obj[o].pump = "none" <=> obj'[o].pump = "none"
    /\ obj[o].pump = "none" => obj'[o].open = obj[o].open

\* A reader that neither dials nor stores.
ReaderMoves(r, new) ==
  /\ rd' = [rd EXCEPT ![r] = new]
  /\ rd[r].pc \notin {"store", "done"} /\ new.pc \in {"read", "load", "write", "done"}
  /\ new.pc = "load" => new.flow \in Flows
  /\ new.pc = "write" => Stored(new.o)

LEMMA ReadersKept ==
  ASSUME Inv, KeepsFlows, UNCHANGED dialled,
         UNCHANGED rd \/ \E r \in Readers, new \in RdType : ReaderMoves(r, new)
  PROVE  ReadersOK' /\ Owned'
<1>1. \A o : Stored(o) => Stored(o)'
  BY DEF Stored, KeepsFlows
<1>2. \A r \in Readers : Fresh(r) /\ rd'[r] = rd[r] => Fresh(r)'
  BY DEF Fresh, KeepsFlows, Objs, Inv, TypeOK
<1>3. CASE UNCHANGED rd
  BY <1>1, <1>2, <1>3 DEF Inv, ReadersOK, Owned, KeepsFlows
<1>4. ASSUME NEW r \in Readers, NEW new \in RdType, ReaderMoves(r, new)
      PROVE  ReadersOK' /\ Owned'
  <2>1. rd'[r] = new /\ \A q \in Readers \ {r} : rd'[q] = rd[q]
    BY <1>4 DEF ReaderMoves, Inv, TypeOK
  <2>2. ReadersOK'
    BY <1>1, <1>2, <1>4, <2>1 DEF ReaderMoves, Inv, ReadersOK
  <2>3. Owned'
    BY <1>4, <2>1 DEF ReaderMoves, Inv, Owned, KeepsFlows
  <2> QED
    BY <2>2, <2>3
<1> QED
  BY <1>3, <1>4

LEMMA EndKept ==
  ASSUME Inv, UNCHANGED <<main, toClose>>, ctxDone => ctxDone',
         \A f \in Flows : table'[f] # 0 => table[f] # 0,
         UNCHANGED rd \/ \E r \in Readers, new \in RdType : ReaderMoves(r, new)
  PROVE  EndOK'
<1>1. \A r \in Readers : rd[r].pc = "done" => rd'[r] = rd[r]
  BY DEF ReaderMoves, Inv, TypeOK
<1> QED
  BY <1>1 DEF Inv, EndOK

LEMMA RdTypeKept ==
  ASSUME Inv,
         UNCHANGED rd \/ \E r \in Readers, new \in RdType : ReaderMoves(r, new)
  PROVE  rd' \in [Readers -> RdType]
BY DEF Inv, TypeOK, ReaderMoves, RdType

\* The steps of everybody but runUDPProxy that end in a plain state of the table.
LEMMA StepKept ==
  ASSUME Inv, KeepsFlows, obj' \in [Objs -> ObjType], table' \in [Flows -> Objs \cup {0}], FlowsOK',
         UNCHANGED <<dialled, datagram, fragEnabled, eof, chClosed, sweeper, main, toClose>>,
         ctxDone' \in BOOLEAN, ctxDone => ctxDone',
         UNCHANGED rd \/ \E r \in Readers, new \in RdType : ReaderMoves(r, new),
         \A f \in Flows : table'[f] # 0 => table[f] # 0,
         victim' # 0 => Stored(victim)'
  PROVE  Inv'
<1>1. rd' \in [Readers -> RdType]
  BY RdTypeKept
<1>2. victim' \in Objs \cup {0}
  BY DEF Stored
<1>3. TypeOK'
  BY <1>1, <1>2 DEF Inv, TypeOK, RdType, ObjType
<1> QED
  BY <1>3, ReadersKept, EndKept DEF Inv, FlowsOK

\* lastSeen and the count of keepalives are none of the invariant's business.
Touches(o, new) ==
  /\ obj' = [obj EXCEPT ![o] = new]
  /\ new \in ObjType /\ new.flow = obj[o].flow /\ new.open = obj[o].open
  /\ new.removed = obj[o].removed /\ new.pump = obj[o].pump

LEMMA TouchKeeps ==
  ASSUME Inv, NEW o, Stored(o), NEW new, Touches(o, new), UNCHANGED <<table, dialled>>
  PROVE  KeepsFlows /\ obj' \in [Objs -> ObjType] /\ FlowsOK'
<1>1. obj \in [Objs -> ObjType] /\ o \in Objs
  BY DEF Inv, TypeOK, ObjType, Stored
<1>2. obj'[o] = new /\ \A k \in Objs \ {o} : obj'[k] = obj[k]
  BY <1>1 DEF Touches
<1>3. obj' \in [Objs -> ObjType]
  BY <1>1 DEF Touches
<1>4. KeepsFlows
  BY <1>2 DEF KeepsFlows, Touches
<1>5. o <= dialled
  BY <1>1 DEF Stored, Inv, ObjsOK, NoObj, Objs, TypeOK
<1>6. \A k \in Objs : obj'[k].flow = obj[k].flow /\ obj'[k].open = obj[k].open
                      /\ obj'[k].removed = obj[k].removed /\ obj'[k].pump = obj[k].pump
                      /\ (k > dialled => obj'[k] = obj[k])
  BY <1>1, <1>2, <1>5 DEF Touches, Objs, Inv, TypeOK
<1>7. FlowsOK'
  BY <1>6 DEF FlowsOK, Inv, EntriesLive, OneSocketPerFlow, ObjsOK, TypeOK
<1> QED
  BY <1>3, <1>4, <1>7

\* remove of a flow that was in the table once, with what it does to its pump.
Removes(o, pump) ==
  /\ table' = EntryDeleted(o)
  /\ obj' = [obj EXCEPT ![o] = [SocketClosed(o) EXCEPT !.pump = pump]]

LEMMA RemoveKeeps ==
  ASSUME Inv, NEW o, Stored(o), NEW pump \in {"running", "ended"}, Removes(o, pump),
         UNCHANGED dialled
  PROVE  /\ KeepsFlows /\ obj' \in [Objs -> ObjType] /\ FlowsOK'
         /\ table' \in [Flows -> Objs \cup {0}]
         /\ \A f \in Flows : table'[f] # 0 => table[f] # 0
<1> DEFINE new == [SocketClosed(o) EXCEPT !.pump = pump]
<1>1. obj \in [Objs -> ObjType] /\ o \in Objs /\ obj[o].flow \in Flows
  BY DEF Inv, TypeOK, ObjType, Stored
<1>2. /\ new \in ObjType /\ new.flow = obj[o].flow /\ ~new.open /\ new.removed
      /\ new.pump = pump
  <2>1. obj[o].pump \in {"running", "ended"}
    BY <1>1 DEF Stored, ObjType
  <2> QED
    BY <1>1, <2>1, ClosedFields
<1> HIDE DEF new
<1>3. obj'[o] = new /\ \A k \in Objs \ {o} : obj'[k] = obj[k]
  BY <1>1 DEF Removes, new
<1>4. obj' \in [Objs -> ObjType]
  BY <1>1, <1>2 DEF Removes, new
<1>5. KeepsFlows
  BY <1>2, <1>3 DEF KeepsFlows, Stored
<1>6. o <= dialled
  BY <1>1 DEF Stored, Inv, ObjsOK, NoObj, Objs, TypeOK
<1>7. table \in [Flows -> Objs \cup {0}] /\ table' \in [Flows -> Objs \cup {0}]
  BY <1>1 DEF Removes, EntryDeleted, Inv, TypeOK
\* Deleting by flow id hits the entry of this flow, or nothing.
<1>8. /\ \A f \in Flows : table'[f] = IF table[f] = o THEN 0 ELSE table[f]
  <2>1. CASE obj[o].removed
    BY <1>1, <1>7, <2>1 DEF Removes, EntryDeleted, Inv, ObjsOK, EntriesLive
  <2>2. CASE ~obj[o].removed
    <3>1. table[obj[o].flow] = o
      BY <1>1, <2>2 DEF Stored, Inv, ObjsOK, OneSocketPerFlow
    <3>2. \A f \in Flows : table[f] = o => f = obj[o].flow
      BY <1>1 DEF Inv, EntriesLive, Objs
    <3> QED
      BY <1>1, <1>7, <2>2, <3>1, <3>2 DEF Removes, EntryDeleted
  <2> QED
    BY <2>1, <2>2
<1>9. EntriesLive'
  BY <1>3, <1>7, <1>8 DEF Inv, EntriesLive
<1>10. OneSocketPerFlow'
  BY <1>1, <1>2, <1>3, <1>7, <1>8 DEF Inv, OneSocketPerFlow, ObjsOK
<1>11. ObjsOK'
  BY <1>1, <1>2, <1>3, <1>6 DEF Inv, ObjsOK, Objs, TypeOK
<1> QED
  BY <1>4, <1>5, <1>7, <1>8, <1>9, <1>10, <1>11 DEF FlowsOK

LEMMA FlowsStay ==
  ASSUME Inv, UNCHANGED <<obj, table, dialled>>
  PROVE  /\ KeepsFlows /\ obj' \in [Objs -> ObjType] /\ FlowsOK'
         /\ table' \in [Flows -> Objs \cup {0}]
BY DEF Inv, TypeOK, KeepsFlows, FlowsOK, ObjType, EntriesLive, OneSocketPerFlow, ObjsOK

LEMMA EntriesStored ==
  ASSUME Inv, NEW f \in Flows, table[f] # 0
  PROVE  Stored(table[f])
BY DEF Inv, TypeOK, EntriesLive, Stored

LEMMA StoredKept == ASSUME KeepsFlows, NEW o, Stored(o) PROVE Stored(o)'
BY DEF KeepsFlows, Stored

\* Refreshing lastSeen.
LEMMA RefreshTouches ==
  ASSUME Inv, NEW o, Stored(o), obj' = [obj EXCEPT ![o].idle = 0]
  PROVE  Touches(o, [obj[o] EXCEPT !.idle = 0])
<1>1. obj[o] \in ObjType
  BY DEF Inv, TypeOK, ObjType, Stored
<1> QED
  BY <1>1 DEF Touches, ObjType

LEMMA RemoveRemoves ==
  ASSUME Inv, NEW o, Stored(o), Remove(o)
  PROVE  obj[o].pump \in {"running", "ended"} /\ Removes(o, obj[o].pump)
<1>1. obj[o] \in ObjType
  BY DEF Inv, TypeOK, ObjType, Stored
<1>2. [SocketClosed(o) EXCEPT !.pump = obj[o].pump] = SocketClosed(o)
  BY DEF SocketClosed, NoObj
<1> QED
  BY <1>1, <1>2 DEF Remove, Removes, Stored, ObjType

-----------------------------------------------------------------------------
(* The read loops *)

LEMMA ReceiveInv ==
  ASSUME Inv, NEW r \in Readers, NEW f \in Flows, Receive(r, f)
  PROVE  Inv'
<1> DEFINE new == [pc |-> "load", flow |-> f, o |-> 0]
<1>1. UNCHANGED <<config, world, table, obj, dialled, loops>>
  BY DEF Receive
<1>2. new \in RdType /\ ReaderMoves(r, new)
  BY DEF Receive, RdType, ReaderMoves
<1> QED
  BY <1>1, <1>2, FlowsStay, StepKept, StoredKept DEF config, world, loops, Inv, TypeOK

LEMMA ReceiveKeepaliveInv ==
  ASSUME Inv, NEW r \in Readers, NEW f \in Flows, ReceiveKeepalive(r, f)
  PROVE  Inv'
<1>1. UNCHANGED <<config, world, rd, table, dialled, loops>>
  BY DEF ReceiveKeepalive
<1>2. Stored(table[f]) /\ Touches(table[f], [obj[table[f]] EXCEPT !.idle = 0])
  BY EntriesStored, RefreshTouches DEF ReceiveKeepalive
<1> QED
  BY <1>1, <1>2, TouchKeeps, StepKept, StoredKept DEF config, world, loops, Inv, TypeOK

LEMMA IdleMoves ==
  ASSUME Inv, NEW r \in Readers, NEW pc \in {"read", "done"},
         rd[r].pc \in {"read", "load", "write"}, rd' = [rd EXCEPT ![r] = Idle(pc)]
  PROVE  Idle(pc) \in RdType /\ ReaderMoves(r, Idle(pc))
BY DEF Idle, RdType, ReaderMoves

\* The steps of a reader that leave the flows alone.
LEMMA ReaderOnlyInv ==
  ASSUME Inv, NEW r \in Readers, ReadFails(r) \/ DialFails(r) \/ Write(r)
  PROVE  Inv'
<1>1. UNCHANGED <<config, world, table, obj, dialled, loops>>
  BY DEF ReadFails, DialFails, Write
<1>2. PICK pc \in {"read", "done"} : rd' = [rd EXCEPT ![r] = Idle(pc)]
  BY DEF ReadFails, DialFails, Write
<1>3. rd[r].pc \in {"read", "load", "write"}
  BY DEF ReadFails, DialFails, Write
<1> QED
  BY <1>1, <1>2, <1>3, IdleMoves, FlowsStay, StepKept, StoredKept
     DEF config, world, loops, Inv, TypeOK

LEMMA LoadInv ==
  ASSUME Inv, NEW r \in Readers, Load(r)
  PROVE  Inv'
<1> DEFINE o == table[rd[r].flow]
           new == [rd[r] EXCEPT !.pc = "write", !.o = o]
<1>1. UNCHANGED <<config, world, table, dialled, loops>>
  BY DEF Load
<1>2. Stored(o) /\ Touches(o, [obj[o] EXCEPT !.idle = 0])
  BY EntriesStored, RefreshTouches DEF Load, Inv, ReadersOK
<1>3. rd[r] \in RdType
  BY DEF Inv, TypeOK, RdType
<1>4. new \in RdType /\ new.pc = "write" /\ new.o = o
  BY <1>2, <1>3 DEF RdType, Stored
<1>5. rd' = [rd EXCEPT ![r] = new]
  BY DEF Load
<1>6. ReaderMoves(r, new)
  BY <1>2, <1>4, <1>5 DEF Load, ReaderMoves
<1> HIDE DEF o, new
<1> QED
  BY <1>1, <1>2, <1>4, <1>6, TouchKeeps, StepKept, StoredKept
     DEF config, world, loops, Inv, TypeOK

LEMMA WriteFailsInv ==
  ASSUME Inv, NEW r \in Readers, WriteFails(r)
  PROVE  Inv'
<1>1. UNCHANGED <<config, world, dialled, loops>>
  BY DEF WriteFails
<1>2. Stored(rd[r].o) /\ Remove(rd[r].o)
  BY DEF WriteFails, Inv, ReadersOK
<1>3. Idle("read") \in RdType /\ ReaderMoves(r, Idle("read"))
  BY IdleMoves DEF WriteFails
<1> QED
  BY <1>1, <1>2, <1>3, RemoveRemoves, RemoveKeeps, StepKept, StoredKept
     DEF config, world, loops, Inv, TypeOK

LEMMA DialInv ==
  ASSUME Inv, NEW r \in Readers, Dial(r)
  PROVE  Inv'
<1> DEFINE n == dialled + 1
           fresh == [NoObj EXCEPT !.flow = rd[r].flow, !.open = TRUE]
           new == [rd[r] EXCEPT !.pc = "store", !.o = n]
<1>1. UNCHANGED <<config, world, table, loops>> /\ dialled' = n
  BY DEF Dial
<1>2. n \in Objs /\ dialled \in 0..MaxDials /\ n \in 0..MaxDials
  BY UdpFlowsAssumption DEF Dial, Objs, Inv, TypeOK
<1>3. rd[r].flow \in Flows /\ rd[r] \in RdType /\ rd[r].pc = "load"
  BY DEF Dial, Inv, ReadersOK, TypeOK, RdType
<1>4. /\ fresh \in ObjType /\ fresh.flow = rd[r].flow /\ fresh.open /\ ~fresh.removed
      /\ fresh.pump = "none"
  BY <1>3, FreshFields
<1>5. new \in RdType /\ new.pc = "store" /\ new.o = n /\ new.flow = rd[r].flow
  BY <1>2, <1>3 DEF RdType
<1>6. obj' = [obj EXCEPT ![n] = fresh] /\ rd' = [rd EXCEPT ![r] = new]
  BY <1>1 DEF Dial
<1> HIDE DEF n, fresh, new
<1>7. obj \in [Objs -> ObjType] /\ rd \in [Readers -> RdType]
  BY DEF Inv, TypeOK, ObjType, RdType
<1>8. obj' \in [Objs -> ObjType] /\ rd' \in [Readers -> RdType]
  BY <1>4, <1>5, <1>6, <1>7
<1>9. /\ obj'[n] = fresh /\ \A o \in Objs \ {n} : obj'[o] = obj[o]
      /\ rd'[r] = new /\ \A q \in Readers \ {r} : rd'[q] = rd[q]
  BY <1>2, <1>6, <1>7
<1>10. TypeOK'
  BY <1>1, <1>2, <1>8 DEF Inv, TypeOK, ObjType, RdType, config, world, loops
<1>11. obj[n] = NoObj
  BY <1>2 DEF n, Inv, ObjsOK
<1>12. EntriesLive' /\ OneSocketPerFlow'
  <2>1. \A f \in Flows : table[f] # n
    BY <1>2, <1>11, NoObjType DEF Inv, EntriesLive, Objs
  <2> QED
    BY <1>1, <1>4, <1>7, <1>9, <2>1 DEF Inv, EntriesLive, OneSocketPerFlow, TypeOK
<1>13. ObjsOK'
  BY <1>1, <1>2, <1>4, <1>9 DEF Inv, ObjsOK, n, Objs
<1>14. \A o : Stored(o) => Stored(o)'
  BY <1>9, <1>11 DEF Stored, NoObj
<1>15. ReadersOK'
  <2>1. Fresh(r)'
    BY <1>1, <1>2, <1>3, <1>4, <1>5, <1>9 DEF Fresh, n
  <2>2. \A q \in Readers \ {r} : rd[q].pc = "store" => Fresh(q)' /\ rd[q].o # n
    <3> SUFFICES ASSUME NEW q \in Readers \ {r}, rd[q].pc = "store"
                 PROVE  Fresh(q)' /\ rd[q].o # n
      OBVIOUS
    <3>1. Fresh(q)
      BY DEF Inv, ReadersOK
    <3>2. rd[q].o \in Objs \ {n} /\ rd[q].o \in 1..n
      BY <1>2, <3>1, UdpFlowsAssumption DEF Fresh, Objs, n
    <3> QED
      BY <1>1, <1>9, <3>1, <3>2 DEF Fresh
  <2> QED
    BY <1>5, <1>9, <1>14, <2>1, <2>2 DEF Inv, ReadersOK
<1>16. Owned'
  BY <1>3, <1>5, <1>9 DEF Inv, Owned
<1>17. EndOK'
  BY <1>1, <1>3, <1>9 DEF Inv, EndOK, world, loops
<1> QED
  BY <1>1, <1>10, <1>12, <1>13, <1>14, <1>15, <1>16, <1>17 DEF Inv, loops

LEMMA LoadOrStoreInv ==
  ASSUME Inv, NEW r \in Readers, LoadOrStore(r)
  PROVE  Inv'
<1> DEFINE o == rd[r].o
           f == rd[r].flow
           won == table[f] = 0
           stored == IF won THEN [obj[o] EXCEPT !.pump = "running"]
                     ELSE [obj[o] EXCEPT !.open = FALSE]
           mine == IF won THEN o ELSE table[f]
           new == [rd[r] EXCEPT !.pc = "write", !.o = mine]
<1>1. UNCHANGED <<config, world, dialled, loops>> /\ rd[r].pc = "store"
  BY DEF LoadOrStore
<1>2. Fresh(r)
  BY <1>1 DEF Inv, ReadersOK
<1>3. o \in Objs /\ o <= dialled /\ f \in Flows /\ obj[o].flow = f /\ obj[o].open /\ obj[o].pump = "none"
  BY <1>2, UdpFlowsAssumption DEF Fresh, Objs, Inv, TypeOK
<1>4. obj \in [Objs -> ObjType] /\ rd \in [Readers -> RdType] /\ table \in [Flows -> Objs \cup {0}]
  BY DEF Inv, TypeOK, ObjType, RdType
<1>5. /\ stored \in ObjType /\ stored.flow = f /\ stored.removed = obj[o].removed
      /\ (stored.open <=> won)
      /\ stored.pump = IF won THEN "running" ELSE "none"
  <2>1. obj[o] \in ObjType
    BY <1>3, <1>4
  <2>2. CASE won
    <3>1. /\ [obj[o] EXCEPT !.pump = "running"] \in ObjType
          /\ [obj[o] EXCEPT !.pump = "running"].flow = obj[o].flow
          /\ [obj[o] EXCEPT !.pump = "running"].open = obj[o].open
          /\ [obj[o] EXCEPT !.pump = "running"].removed = obj[o].removed
          /\ [obj[o] EXCEPT !.pump = "running"].pump = "running"
      BY <2>1 DEF ObjType
    <3> QED
      BY <1>3, <2>2, <3>1
  <2>3. CASE ~won
    <3>1. /\ [obj[o] EXCEPT !.open = FALSE] \in ObjType
          /\ [obj[o] EXCEPT !.open = FALSE].flow = obj[o].flow
          /\ ~[obj[o] EXCEPT !.open = FALSE].open
          /\ [obj[o] EXCEPT !.open = FALSE].removed = obj[o].removed
          /\ [obj[o] EXCEPT !.open = FALSE].pump = obj[o].pump
      BY <2>1 DEF ObjType
    <3> QED
      BY <1>3, <2>3, <3>1
  <2> QED
    BY <2>2, <2>3
<1>6. mine \in Objs
  BY <1>3, <1>4
<1>7. new \in RdType /\ new.pc = "write" /\ new.o = mine
  BY <1>4, <1>6 DEF RdType
<1>8. obj' = [obj EXCEPT ![o] = stored]
  BY DEF LoadOrStore
<1>9. rd' = [rd EXCEPT ![r] = new]
  BY DEF LoadOrStore
<1>10. table' = IF won THEN [table EXCEPT ![f] = o] ELSE table
  BY DEF LoadOrStore
<1> HIDE DEF o, f, stored, mine, new
<1>11. /\ obj'[o] = stored /\ \A k \in Objs \ {o} : obj'[k] = obj[k]
       /\ rd'[r] = new /\ \A q \in Readers \ {r} : rd'[q] = rd[q]
  BY <1>3, <1>4, <1>8, <1>9
<1>12. /\ obj' \in [Objs -> ObjType] /\ rd' \in [Readers -> RdType]
       /\ table' \in [Flows -> Objs \cup {0}]
  BY <1>3, <1>4, <1>5, <1>7, <1>8, <1>9, <1>10
<1>13. TypeOK'
  BY <1>1, <1>12 DEF Inv, TypeOK, ObjType, RdType, config, world, loops
<1>14. table'[f] = mine /\ \A k \in Flows \ {f} : table'[k] = table[k]
  BY <1>3, <1>4, <1>10 DEF mine
<1>15. \A k \in Flows : table[k] # o
  BY <1>3 DEF Inv, EntriesLive, Objs
<1>16. ~obj[o].removed
  BY <1>3 DEF Inv, ObjsOK
<1>17. EntriesLive'
  <2>1. \A k \in Flows \ {f} : table'[k] # 0 =>
          obj'[table'[k]].flow = k /\ obj'[table'[k]].open /\ obj'[table'[k]].pump = "running"
    BY <1>4, <1>11, <1>14, <1>15 DEF Inv, EntriesLive
  <2>2. obj'[mine].flow = f /\ obj'[mine].open /\ obj'[mine].pump = "running"
    <3>1. CASE won
      BY <1>5, <1>11, <3>1 DEF mine
    <3>2. CASE ~won
      BY <1>3, <1>4, <1>11, <1>15, <3>2 DEF mine, Inv, EntriesLive
    <3> QED
      BY <3>1, <3>2
  <2> QED
    BY <1>14, <2>1, <2>2 DEF EntriesLive
<1>18. OneSocketPerFlow'
  BY <1>3, <1>5, <1>11, <1>14, <1>15, <1>4, <1>6 DEF Inv, OneSocketPerFlow, ObjsOK, mine, Objs
<1>19. ObjsOK'
  BY <1>1, <1>3, <1>5, <1>11, <1>16 DEF Inv, ObjsOK, Objs, TypeOK
<1>20. \A k : Stored(k) => Stored(k)'
  BY <1>3, <1>11 DEF Stored
<1>21. obj'[mine].flow \in Flows /\ obj'[mine].pump # "none"
  BY <1>3, <1>6, <1>14, <1>17 DEF EntriesLive, Objs
<1>22. ReadersOK'
  <2>1. \A q \in Readers \ {r} : rd[q].pc = "store" => Fresh(q)'
    <3> SUFFICES ASSUME NEW q \in Readers \ {r}, rd[q].pc = "store"
                 PROVE  Fresh(q)'
      OBVIOUS
    <3>1. Fresh(q) /\ rd[q].o # o
      BY <1>1 DEF Inv, ReadersOK, o
    <3>2. rd[q].o \in Objs \ {o}
      BY <3>1, UdpFlowsAssumption DEF Fresh, Objs, Inv, TypeOK
    <3> QED
      BY <1>1, <1>11, <3>1, <3>2 DEF Fresh
  <2> QED
    <3>1. \A q \in Readers : rd'[q].pc = "store" => q # r /\ rd'[q] = rd[q]
      BY <1>7, <1>11
    <3>2. \A q \in Readers : rd'[q].pc = "write" =>
            rd'[q].o \in Objs /\ obj'[rd'[q].o].flow \in Flows /\ obj'[rd'[q].o].pump # "none"
      <4> SUFFICES ASSUME NEW q \in Readers, rd'[q].pc = "write", NEW k, k = rd'[q].o
                   PROVE  k \in Objs /\ obj'[k].flow \in Flows /\ obj'[k].pump # "none"
        OBVIOUS
      <4>1. CASE q = r
        BY <1>6, <1>7, <1>11, <1>21, <4>1
      <4>2. CASE q # r
        <5>1. rd'[q] = rd[q] /\ Stored(k)
          BY <1>11, <4>2 DEF Inv, ReadersOK
        <5> QED
          BY <1>20, <5>1 DEF Stored
      <4> QED
        BY <4>1, <4>2
    <3>3. \A q \in Readers : rd'[q].pc = "load" => rd'[q].flow \in Flows
      BY <1>7, <1>11 DEF Inv, ReadersOK
    <3> QED
      BY <2>1, <3>1, <3>2, <3>3 DEF Inv, ReadersOK, Stored
<1>23. Owned'
  <2> SUFFICES ASSUME NEW k \in Objs, obj'[k].open, obj'[k].pump = "none"
               PROVE  \E q \in Readers : rd'[q].pc = "store" /\ rd'[q].o = k
    BY DEF Owned
  <2>1. k # o
    BY <1>5, <1>11
  <2>2. PICK q \in Readers : rd[q].pc = "store" /\ rd[q].o = k
    BY <1>11, <2>1 DEF Inv, Owned
  <2>3. q # r
    BY <2>1, <2>2 DEF o
  <2> QED
    BY <1>11, <2>2, <2>3
<1>24. EndOK'
  BY <1>1 DEF Inv, EndOK, world, loops
<1> QED
  BY <1>1, <1>13, <1>17, <1>18, <1>19, <1>20, <1>22, <1>23, <1>24 DEF Inv, loops

LEMMA ReaderInv ==
  ASSUME Inv, NEW r \in Readers, Reader(r)
  PROVE  Inv'
BY ReaderOnlyInv, LoadInv, DialInv, LoadOrStoreInv, WriteFailsInv DEF Reader

-----------------------------------------------------------------------------
(* Pump, cleanup, keepalives *)

LEMMA PumpEndsInv ==
  ASSUME Inv, NEW o \in Objs, PumpEnds(o)
  PROVE  Inv'
<1>1. UNCHANGED <<config, world, rd, dialled, loops>>
  BY DEF PumpEnds
<1>2. Stored(o) /\ Removes(o, "ended")
  BY DEF PumpEnds, Stored, Removes, Inv, ObjsOK
<1> QED
  BY <1>1, <1>2, RemoveKeeps, StepKept, StoredKept DEF config, world, loops, Inv, TypeOK

LEMMA AgeInv ==
  ASSUME Inv, NEW o \in Objs, Age(o)
  PROVE  Inv'
<1> DEFINE new == [obj[o] EXCEPT !.idle = @ + 1]
<1>1. UNCHANGED <<config, world, rd, table, dialled, loops>>
  BY DEF Age
<1>2. obj[o] \in ObjType /\ Stored(o) /\ obj[o].idle < 2
  BY DEF Age, Stored, Inv, TypeOK, ObjType, ObjsOK
<1>3. obj' = [obj EXCEPT ![o] = new]
  BY DEF Age
<1>4. obj[o].idle + 1 \in 0..2
  BY <1>2 DEF ObjType
<1>5. Touches(o, new)
  BY <1>2, <1>3, <1>4 DEF Touches, ObjType
<1> QED
  BY <1>1, <1>2, <1>5, TouchKeeps, StepKept, StoredKept DEF config, world, loops, Inv, TypeOK

LEMMA SweepInv ==
  ASSUME Inv, SweepRemove \/ (\E f \in Flows : SweepCheck(f))
  PROVE  Inv'
<1>1. CASE SweepRemove
  <2>1. UNCHANGED <<config, world, rd, dialled, sweeper, main, toClose>> /\ victim' = 0
    BY <1>1 DEF SweepRemove
  <2>2. Stored(victim) /\ Remove(victim)
    BY <1>1 DEF SweepRemove, Inv
  <2> QED
    BY <2>1, <2>2, RemoveRemoves, RemoveKeeps, StepKept DEF config, world, Inv, TypeOK
<1>2. ASSUME NEW f \in Flows, SweepCheck(f)
      PROVE  Inv'
  <2>1. UNCHANGED <<config, world, rd, table, obj, dialled, sweeper, main, toClose>>
    BY <1>2 DEF SweepCheck
  <2>2. PICK o \in Objs : o = table[f]
    BY <1>2, EntriesStored DEF SweepCheck, Stored
  <2>3. Stored(o) /\ victim' = o
    BY <1>2, <2>2, EntriesStored DEF SweepCheck
  <2>4. Stored(victim)'
    BY <2>1, <2>3 DEF Stored
  <2> QED
    BY <2>1, <2>4, FlowsStay, StepKept DEF config, world, Inv, TypeOK
<1> QED
  BY <1>1, <1>2

LEMMA SendKeepaliveInv ==
  ASSUME Inv, NEW f \in Flows, SendKeepalive(f)
  PROVE  Inv'
<1> DEFINE o == table[f]
           new == [obj[o] EXCEPT !.keepalives = @ + 1, !.idle = 0]
<1>1. UNCHANGED <<config, world, rd, dialled, loops>>
  BY DEF SendKeepalive
<1>2. Stored(o)
  BY EntriesStored DEF SendKeepalive
<1>3. CASE Writable(f)
  <2>1. obj' = [obj EXCEPT ![o] = new] /\ UNCHANGED table
    BY <1>3 DEF SendKeepalive
  <2>2. obj[o] \in ObjType
    BY <1>2 DEF Stored, Inv, TypeOK, ObjType
  <2>3. obj[o].keepalives + 1 \in 0..KeepaliveMax
    BY <2>2, UdpFlowsAssumption DEF SendKeepalive, KeepaliveDue, ObjType
  <2>4. new \in ObjType /\ new.flow = obj[o].flow /\ new.open = obj[o].open
        /\ new.removed = obj[o].removed /\ new.pump = obj[o].pump
    BY <2>2, <2>3, CountedFields
  <2> HIDE DEF o, new
  <2>5. Touches(o, new)
    BY <2>1, <2>4 DEF Touches
  <2> QED
    BY <1>1, <1>2, <2>1, <2>5, TouchKeeps, StepKept, StoredKept DEF config, world, loops, Inv, TypeOK
<1>4. CASE ~Writable(f)
  <2>1. Remove(o)
    BY <1>4 DEF SendKeepalive
  <2> HIDE DEF o
  <2> QED
    BY <1>1, <1>2, <2>1, RemoveRemoves, RemoveKeeps, StepKept, StoredKept
       DEF config, world, loops, Inv, TypeOK
<1> QED
  BY <1>3, <1>4

-----------------------------------------------------------------------------
(* runUDPProxy and the world *)

\* The steps that leave the flows and the readers alone.
LEMMA OutsideInv ==
  ASSUME Inv, TypeOK', EndOK', UNCHANGED <<rd, table, obj, dialled, victim>>
  PROVE  Inv'
<1>1. KeepsFlows /\ FlowsOK'
  BY FlowsStay
<1>2. ReadersOK' /\ Owned'
  BY <1>1, ReadersKept
<1>3. victim' # 0 => Stored(victim)'
  BY <1>1, StoredKept DEF Inv
<1> QED
  BY <1>1, <1>2, <1>3 DEF Inv, FlowsOK

LEMMA StartInv ==
  ASSUME Inv, Start
  PROVE  Inv'
<1>1. UNCHANGED <<config, world, table, obj, dialled, victim, toClose>>
      /\ sweeper' = "running" /\ main' = "wait"
  BY DEF Start
<1>2. rd' \in [Readers -> RdType] /\ \A r \in Readers : rd'[r].pc \in {"read", "done"}
  BY DEF Start, Idle, RdType
<1>3. TypeOK'
  BY <1>1, <1>2 DEF Inv, TypeOK, RdType, config, world
<1>4. KeepsFlows /\ FlowsOK'
  BY <1>1, FlowsStay
<1>5. ReadersOK'
  BY <1>2 DEF ReadersOK
<1>6. \A r \in Readers : rd[r].pc = "done"
  BY DEF Start, Inv, EndOK
<1>7. Owned'
  BY <1>1, <1>6 DEF Inv, Owned
<1>8. EndOK'
  BY <1>1 DEF EndOK
<1> QED
  BY <1>1, <1>3, <1>4, <1>5, <1>7, <1>8, StoredKept DEF Inv, FlowsOK

LEMMA CloseFlowInv ==
  ASSUME Inv, NEW f \in Flows, CloseFlow(f)
  PROVE  Inv'
<1>1. /\ UNCHANGED <<config, world, rd, dialled, victim, sweeper, main>>
      /\ toClose' = toClose \ {f}
  BY DEF CloseFlow
<1>2. /\ KeepsFlows /\ obj' \in [Objs -> ObjType] /\ FlowsOK'
      /\ table' \in [Flows -> Objs \cup {0}]
      /\ \A k \in Flows : table'[k] # 0 => table[k] # 0
  <2>1. CASE table[f] # 0
    <3>1. Stored(table[f]) /\ Remove(table[f])
      BY <2>1, EntriesStored DEF CloseFlow
    <3> QED
      BY <1>1, <3>1, RemoveRemoves, RemoveKeeps
  <2>2. CASE table[f] = 0
    BY <1>1, <2>2, FlowsStay DEF CloseFlow
  <2> QED
    BY <2>1, <2>2
<1>3. table'[f] = 0
  <2>1. CASE table[f] # 0
    <3>1. Stored(table[f]) /\ obj[table[f]].flow = f /\ obj[table[f]].open
      BY <2>1, EntriesStored DEF Inv, EntriesLive
    <3>2. ~obj[table[f]].removed
      BY <3>1 DEF Inv, ObjsOK, Stored
    <3> QED
      BY <2>1, <3>1, <3>2 DEF CloseFlow, Remove, EntryDeleted, Inv, TypeOK
  <2>2. CASE table[f] = 0
    BY <2>2 DEF CloseFlow
  <2> QED
    BY <2>1, <2>2
<1>4. TypeOK'
  BY <1>1, <1>2 DEF Inv, TypeOK, ObjType, config, world
<1>5. ReadersOK' /\ Owned'
  BY <1>1, <1>2, ReadersKept
<1>6. EndOK'
  BY <1>1, <1>2, <1>3 DEF Inv, EndOK, world, CloseFlow
<1> QED
  BY <1>1, <1>2, <1>4, <1>5, <1>6, StoredKept DEF Inv, FlowsOK

LEMMA MainInv ==
  ASSUME Inv, Main
  PROVE  Inv'
<1>1. CASE StartFails
  <2>1. TypeOK'
    BY <1>1 DEF StartFails, Inv, TypeOK, config
  <2>2. EndOK'
    BY <1>1 DEF StartFails, Inv, EndOK
  <2> QED
    BY <1>1, <2>1, <2>2, OutsideInv DEF StartFails
<1>2. CASE CloseChannels
  <2>1. TypeOK'
    BY <1>2 DEF CloseChannels, Inv, TypeOK, config
  <2>2. EndOK'
    BY <1>2 DEF CloseChannels, ReadersDone, Running, EndOK
  <2> QED
    BY <1>2, <2>1, <2>2, OutsideInv DEF CloseChannels
<1>3. CASE Stop
  <2>1. TypeOK'
    BY <1>3 DEF Stop, Inv, TypeOK, config, world
  <2>2. EndOK'
    BY <1>3 DEF Stop, Inv, EndOK, world
  <2> QED
    BY <1>3, <2>1, <2>2, OutsideInv DEF Stop
<1> QED
  BY <1>1, <1>2, <1>3, StartInv, CloseFlowInv DEF Main

LEMMA WorldInv ==
  ASSUME Inv, Cancel \/ SweeperEnds \/ (\E r \in Readers : Ends(r)) \/ UNCHANGED vars
  PROVE  Inv'
<1>1. UNCHANGED <<rd, table, obj, dialled, victim, main, toClose>> /\ (ctxDone => ctxDone')
  BY DEF Cancel, SweeperEnds, Ends, vars, loops, world
<1>2. TypeOK'
  BY DEF Cancel, SweeperEnds, Ends, vars, loops, world, config, Inv, TypeOK
<1>3. EndOK'
  BY <1>1 DEF Inv, EndOK
<1> QED
  BY <1>1, <1>2, <1>3, OutsideInv

LEMMA NextInv == Inv /\ [Next]_vars => Inv'
<1> SUFFICES ASSUME Inv, [Next]_vars PROVE Inv'
  OBVIOUS
<1>1. CASE Inbound
  BY <1>1, ReceiveInv, ReceiveKeepaliveInv DEF Inbound
<1>2. ASSUME NEW r \in Readers, Reader(r) \/ Ends(r) PROVE Inv'
  BY <1>2, ReaderInv, WorldInv
<1>3. ASSUME NEW o \in Objs, PumpEnds(o) \/ Age(o) PROVE Inv'
  BY <1>3, PumpEndsInv, AgeInv
<1>4. ASSUME NEW f \in Flows, SweepCheck(f) \/ SendKeepalive(f) PROVE Inv'
  BY <1>4, SweepInv, SendKeepaliveInv
<1>5. CASE SweepRemove \/ SweeperEnds \/ Main \/ Cancel \/ UNCHANGED vars
  BY <1>5, SweepInv, MainInv, WorldInv
<1> QED
  BY <1>1, <1>2, <1>3, <1>4, <1>5 DEF Next

\* The flow ids closeAll has passed are empty, so what is open has a reader that
\* has ended, or an entry.
LEMMA InvReclaims == Inv => DoneReclaims
<1> SUFFICES ASSUME Inv, main = "stopped", ~ctxDone, NEW o \in Objs, obj[o].open
             PROVE  FALSE
  BY DEF DoneReclaims
<1>1. obj[o].pump # "none"
  BY DEF Inv, Owned, EndOK
<1>2. table[obj[o].flow] = o /\ obj[o].flow \in Flows
  BY <1>1 DEF Inv, ObjsOK, OneSocketPerFlow
<1> QED
  BY <1>2 DEF Inv, EndOK, Objs

-----------------------------------------------------------------------------
(* The theorems *)

LEMMA InvHolds == Spec => []Inv
BY InvInit, NextInv, PTL DEF Spec

\* What the table holds is an open socket of that flow id with a running pump:
\* getOrCreateFlow and remove meet in any order (udp_proxy.go:386, 599).
THEOREM TableHoldsLiveSockets == Spec => []EntriesLive
<1>1. Inv => EntriesLive
  BY DEF Inv
<1> QED
  BY <1>1, InvHolds, PTL

\* No pump runs on an open socket that the table lost, with any number of readers
\* that dial for one flow id at the same time (udp_proxy.go:625).
THEOREM FlowsHaveOneSocket == Spec => []OneSocketPerFlow
<1>1. Inv => OneSocketPerFlow
  BY DEF Inv
<1> QED
  BY <1>1, InvHolds, PTL

\* A proxy whose read loops ended before the cancellation has closed every socket
\* when runUDPProxy returns (closeAll, udp_proxy.go:645).
THEOREM StopReclaims == Spec => []DoneReclaims
BY InvReclaims, InvHolds, PTL
=============================================================================
