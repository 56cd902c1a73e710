----------------------------- MODULE Reassembly -----------------------------
(***************************************************************************)
(* Tunnel-layer fragmentation of UDP datagrams (base_tunnel/udp_proxy.go,  *)
(* udp_datagram.go): writeDatagram cuts a datagram into v2 frames, the     *)
(* network of the QUIC DATAGRAM mode loses, duplicates and reorders them,  *)
(* and the udpReassembler puts them together.  Both ends run the same      *)
(* protocol; the sender here is this program's.                            *)
(*                                                                         *)
(* A datagram's content is its number and its size; a fragment is named by *)
(* the datagram it was cut from and its index.                             *)
(***************************************************************************)
EXTENDS Integers, Sequences, FiniteSets

CONSTANTS
  Flows,          \* flow ids
  Sizes,          \* sizes of the datagrams the local service sends
  MaxSent,        \* bound: datagrams sent
  FragIDs,        \* number of frag_id values (2^16)
  FragPayloadMax, \* negotiated payload of a frame
  MaxFrags,       \* largest frag_cnt (255)
  MaxDatagram,    \* udpMaxDatagramSize (65507)
  MaxConcurrent   \* udpMaxReassembliesPerFlow (16)

\* setupUDPForward accepts every positive fragment size up to the datagram size.
ASSUME ReassemblyAssumption ==
  /\ MaxSent \in Nat /\ MaxFrags \in Nat \ {0}
  /\ FragIDs \in Nat \ {0} /\ MaxConcurrent \in Nat \ {0}
  /\ MaxDatagram \in Nat \ {0} /\ FragPayloadMax \in 1..MaxDatagram
  /\ Sizes \subseteq Nat

VARIABLES
  nextFragID,  \* p.nextFragID, modulo FragIDs
  sent,        \* the datagrams accepted for sending
  net,         \* frames on their way
  slots,       \* the reassembler's slots by <<flow, frag_id>>
  delivered,   \* what was handed to the flow
  spoiled      \* datagrams that were refused, or lost, doubled or delayed a frame

vars == <<nextFragID, sent, net, slots, delivered, spoiled>>

-----------------------------------------------------------------------------
(* Types *)

Ids == 1..MaxSent
SlotKeys == Flows \X (0..(FragIDs - 1))
NoSlot == [cnt |-> 0, got |-> {}, count |-> 0, bytes |-> 0, expired |-> FALSE]

TypeOK ==
  /\ nextFragID \in 0..(FragIDs - 1)
  /\ sent \in Seq([flow: Flows, size: Sizes])
  /\ \A f \in net : /\ <<f.flow, f.fragID>> \in SlotKeys
                    /\ f.d \in 1..Len(sent)
                    /\ f.cnt \in 1..MaxFrags /\ f.idx \in 0..(f.cnt - 1)
                    /\ f.len \in 0..FragPayloadMax
  /\ \A k \in SlotKeys :
       /\ slots[k].expired \in BOOLEAN
       /\ slots[k].count = Cardinality(slots[k].got)
       /\ slots[k].bytes <= MaxDatagram
  /\ spoiled \subseteq Ids

Init ==
  /\ nextFragID = 0
  /\ sent = <<>>
  /\ net = {}
  /\ slots = [k \in SlotKeys |-> NoSlot]
  /\ delivered = {}
  /\ spoiled = {}

-----------------------------------------------------------------------------
(* writeDatagram *)

FragCnt(size) == (size + FragPayloadMax - 1) \div FragPayloadMax
FragLen(size, i) ==
  IF (i + 1) * FragPayloadMax > size THEN size - i * FragPayloadMax
  ELSE FragPayloadMax

NextFragID == (nextFragID + 1) % FragIDs

\* Environment: sending FragIDs fragmented datagrams takes longer than a frame
\* lives in the network and than a slot's timeout (300 ms for 2^16 of them).
FragIDRetired(flow, id) ==
  /\ \A f \in net : <<f.flow, f.fragID>> # <<flow, id>>
  /\ slots[<<flow, id>>] = NoSlot \/ slots[<<flow, id>>].expired

Accept(flow, size) ==
  /\ Len(sent) < MaxSent
  /\ size <= MaxDatagram
  /\ sent' = Append(sent, [flow |-> flow, size |-> size])

\* The datagram fits one frame.
SendWhole(flow, size) ==
  /\ Accept(flow, size) /\ size <= FragPayloadMax
  /\ net' = net \cup {[d |-> Len(sent) + 1, flow |-> flow, fragment |-> FALSE,
                       fragID |-> 0, idx |-> 0, cnt |-> 1, len |-> size]}
  /\ UNCHANGED <<nextFragID, slots, delivered, spoiled>>

\* Mutant: frag_cnt is not checked.
SendFragmentsUnchecked(flow, size) ==
  /\ Accept(flow, size) /\ size > FragPayloadMax
  /\ FragIDRetired(flow, NextFragID)
  /\ nextFragID' = NextFragID
  /\ net' = net \cup
       {[d |-> Len(sent) + 1, flow |-> flow, fragment |-> TRUE,
         fragID |-> NextFragID, idx |-> i, cnt |-> FragCnt(size),
         len |-> FragLen(size, i)] : i \in 0..(FragCnt(size) - 1)}
  /\ UNCHANGED <<slots, delivered, spoiled>>

\* It is cut into FragCnt frames under a new frag_id.
SendFragments(flow, size) ==
  /\ Accept(flow, size) /\ size > FragPayloadMax
  /\ FragCnt(size) <= MaxFrags
  /\ FragIDRetired(flow, NextFragID)
  /\ nextFragID' = NextFragID
  /\ net' = net \cup
       {[d |-> Len(sent) + 1, flow |-> flow, fragment |-> TRUE,
         fragID |-> NextFragID, idx |-> i, cnt |-> FragCnt(size),
         len |-> FragLen(size, i)] : i \in 0..(FragCnt(size) - 1)}
  /\ UNCHANGED <<slots, delivered, spoiled>>

\* More frames than frag_cnt can count: dropped in silence, before a frag_id is
\* taken.
DropUncountable(flow, size) ==
  /\ Accept(flow, size) /\ size > FragPayloadMax
  /\ FragCnt(size) > MaxFrags
  /\ spoiled' = spoiled \cup {Len(sent) + 1}
  /\ UNCHANGED <<nextFragID, net, slots, delivered>>

-----------------------------------------------------------------------------
(* The network *)

Lose(f) ==
  /\ f \in net
  /\ net' = net \ {f}
  /\ spoiled' = spoiled \cup {f.d}
  /\ UNCHANGED <<nextFragID, sent, slots, delivered>>

\* The frame arrives; a duplicate stays behind.
Arrives(f) ==
  /\ f \in net
  /\ \/ net' = net \ {f} /\ UNCHANGED spoiled
     \/ net' = net /\ spoiled' = spoiled \cup {f.d}

-----------------------------------------------------------------------------
(* readDatagramFrom and udpReassembler.add *)

DeliverWhole(f) ==
  /\ Arrives(f) /\ ~f.fragment
  /\ delivered' = delivered \cup
       {[flow |-> f.flow, pieces |-> {<<f.idx, f.d>>}, bytes |-> f.len]}
  /\ UNCHANGED <<nextFragID, sent, slots>>

KeyOf(f) == <<f.flow, f.fragID>>

\* Mutant: the timeout of the slot is not looked at.
StaleByCountOnly(f) ==
  slots[KeyOf(f)] # NoSlot /\ slots[KeyOf(f)].cnt # f.cnt

\* frag_cnt differs or the slot timed out: it is dropped and opened anew.
Stale(f) ==
  /\ slots[KeyOf(f)] # NoSlot
  /\ slots[KeyOf(f)].cnt # f.cnt \/ slots[KeyOf(f)].expired

Occupied == {k \in SlotKeys : slots[k] # NoSlot}
OldSlot(f) == IF Stale(f) THEN NoSlot ELSE slots[KeyOf(f)]

\* Mutant: one slot too many.
NoRoomOffByOne(f) ==
  OldSlot(f) = NoSlot /\ Cardinality(Occupied \ {KeyOf(f)}) > MaxConcurrent

\* Every slot counts, whether it timed out or not.
NoRoom(f) ==
  OldSlot(f) = NoSlot /\ Cardinality(Occupied \ {KeyOf(f)}) >= MaxConcurrent

Slot(f) == IF OldSlot(f) = NoSlot THEN [NoSlot EXCEPT !.cnt = f.cnt] ELSE OldSlot(f)

Repeated(f) == \E p \in Slot(f).got : p[1] = f.idx

Filled(f) ==
  [Slot(f) EXCEPT !.got = @ \cup {<<f.idx, f.d>>}, !.count = @ + 1,
                       !.bytes = @ + f.len]

SetSlot(f, s) == slots' = [slots EXCEPT ![KeyOf(f)] = s]

\* Everyone whose piece goes down with a slot.
Owners(s) == {p[2] : p \in s.got}

\* Mutant: waits for one fragment more.
CompleteLate(s) == s.count > s.cnt

Complete(s) == s.count >= s.cnt

AddNoRoom(f) ==
  /\ f \in net /\ f.fragment /\ NoRoom(f)
  /\ net' \in {net, net \ {f}}
  /\ SetSlot(f, OldSlot(f))
  /\ spoiled' = spoiled \cup {f.d} \cup Owners(slots[KeyOf(f)])
  /\ UNCHANGED <<nextFragID, sent, delivered>>

\* A repeated fragment or too many bytes: the whole slot is dropped.
AddDropsSlot(f) ==
  /\ f \in net /\ f.fragment /\ ~NoRoom(f)
  /\ Repeated(f) \/ Filled(f).bytes > MaxDatagram
  /\ net' \in {net, net \ {f}}
  /\ SetSlot(f, NoSlot)
  /\ spoiled' = spoiled \cup {f.d} \cup Owners(slots[KeyOf(f)])
  /\ UNCHANGED <<nextFragID, sent, delivered>>

AddStores(f) ==
  /\ Arrives(f) /\ f.fragment /\ ~NoRoom(f)
  /\ ~Repeated(f) /\ Filled(f).bytes <= MaxDatagram
  /\ ~Complete(Filled(f))
  /\ SetSlot(f, Filled(f))
  /\ UNCHANGED <<nextFragID, sent, delivered>>

AddCompletes(f) ==
  /\ Arrives(f) /\ f.fragment /\ ~NoRoom(f)
  /\ ~Repeated(f) /\ Filled(f).bytes <= MaxDatagram
  /\ Complete(Filled(f))
  /\ delivered' = delivered \cup
       {[flow |-> f.flow, pieces |-> Filled(f).got, bytes |-> Filled(f).bytes]}
  /\ SetSlot(f, NoSlot)
  /\ UNCHANGED <<nextFragID, sent>>

\* 300 ms without a fragment for this slot.
Timeout(k) ==
  /\ slots[k] # NoSlot /\ ~slots[k].expired
  /\ slots' = [slots EXCEPT ![k] = [@ EXCEPT !.expired = TRUE]]
  /\ spoiled' = spoiled \cup Owners(slots[k])
  /\ UNCHANGED <<nextFragID, sent, net, delivered>>

\* Every 30 s.
Sweep ==
  /\ \E k \in SlotKeys : slots[k].expired
  /\ slots' = [k \in SlotKeys |-> IF slots[k].expired THEN NoSlot ELSE slots[k]]
  /\ UNCHANGED <<nextFragID, sent, net, delivered, spoiled>>

-----------------------------------------------------------------------------
Send(flow, size) ==
  \/ SendWhole(flow, size)
  \/ SendFragments(flow, size)
  \/ DropUncountable(flow, size)

Receive(f) ==
  \/ DeliverWhole(f)
  \/ AddNoRoom(f)
  \/ AddDropsSlot(f)
  \/ AddStores(f)
  \/ AddCompletes(f)

Next ==
  \/ \E flow \in Flows, size \in Sizes : Send(flow, size)
  \/ \E f \in net : Lose(f) \/ Receive(f)
  \/ \E k \in SlotKeys : Timeout(k)
  \/ Sweep

Spec == Init /\ [][Next]_vars

-----------------------------------------------------------------------------
(* Properties *)

\* What is handed to a flow is one datagram that was sent on it, whole: never a
\* mixture of two that shared a frag_id, never one with a piece missing.
Integrity ==
  \A r \in delivered : \E d \in 1..Len(sent) :
    /\ sent[d].flow = r.flow /\ sent[d].size = r.bytes
    /\ \A p \in r.pieces : p[2] = d

\* The memory bound: no more slots than the limit.
SlotsBounded == Cardinality(Occupied) <= MaxConcurrent

\* Only the network and the limit lose datagrams: one whose frames all arrived,
\* once each, in time and with room for their slot, was delivered.
NoNeedlessLoss ==
  \A d \in 1..Len(sent) :
    d \notin spoiled /\ (\A f \in net : f.d # d) =>
      \E r \in delivered : \A p \in r.pieces : p[2] = d
=============================================================================
