-------------------------- MODULE ReassemblyProofs --------------------------
(***************************************************************************)
(* Proofs about Reassembly, for every set of flows, every fragment size,    *)
(* every number of frag_ids and every limit: the slots are bounded, what is *)
(* delivered is whole and belongs together, and only the network, a timeout *)
(* or the limit loses a datagram.                                           *)
(*                                                                         *)
(* None of the three is inductive.  The bound needs the occupied slots to   *)
(* be finitely many.  Integrity needs what a slot in use says of the one    *)
(* datagram that claims its frag_id: which pieces it can hold, and how many *)
(* bytes these are.  NoNeedlessLoss needs to know where each piece of a     *)
(* datagram is while it is under way.                                       *)
(***************************************************************************)
EXTENDS Reassembly, FiniteSetTheorems, SequenceTheorems, TLAPS

Size(d) == sent[d].size
FlowOf(d) == sent[d].flow
Cut(d) == Size(d) > FragPayloadMax

\* A frame says of its datagram what writeDatagram knew of it.
FrameOK(f) ==
  /\ f.d \in 1..Len(sent) /\ f.flow = FlowOf(f.d)
  /\ f.fragID \in 0..(FragIDs - 1)
  /\ f.fragment <=> Cut(f.d)
  /\ IF Cut(f.d)
     THEN /\ f.cnt = FragCnt(Size(f.d)) /\ f.cnt <= MaxFrags
          /\ f.idx \in 0..(f.cnt - 1) /\ f.len = FragLen(Size(f.d), f.idx)
     ELSE f.cnt = 1 /\ f.idx = 0 /\ f.len = Size(f.d)

SlotType ==
  [cnt: Nat, got: SUBSET (Nat \X Ids), count: Nat, bytes: Nat, expired: BOOLEAN]

SlotTyped(s) ==
  /\ s \in SlotType
  /\ IsFiniteSet(s.got) /\ s.count = Cardinality(s.got)
  /\ s.bytes <= MaxDatagram

\* The bytes of n pieces of d; the last piece, if among them, lacks the padding.
Padding(d) == FragCnt(Size(d)) * FragPayloadMax - Size(d)
Weight(d, n, last) == n * FragPayloadMax - IF last THEN Padding(d) ELSE 0

\* The pieces in s are pieces of datagram d, and its bytes are theirs.
Holds(s, d) ==
  /\ s.cnt = FragCnt(Size(d))
  /\ s.got \subseteq (0..(s.cnt - 1)) \X {d}
  /\ s.bytes = Weight(d, s.count, <<s.cnt - 1, d>> \in s.got)

\* Whose pieces are in the slot, or on their way to it.
Claimants(k) == Owners(slots[k]) \cup {f.d : f \in {g \in net : g.fragment /\ KeyOf(g) = k}}

\* A slot in use holds pieces of whoever claims it, and it is waiting for more.
ClaimsFit ==
  \A k \in SlotKeys : slots[k] # NoSlot /\ ~slots[k].expired =>
    /\ slots[k].count < slots[k].cnt
    /\ \A d \in Claimants(k) : d \in 1..Len(sent) /\ Cut(d) /\ Holds(slots[k], d)

\* One datagram per key, one frag_id per datagram.
KeysApart ==
  \A f, g \in net :
    /\ f.fragment /\ g.fragment /\ KeyOf(f) = KeyOf(g) => f.d = g.d
    /\ f.d = g.d => f.fragID = g.fragID

Delivered(d) == \E r \in delivered : \A p \in r.pieces : p[2] = d

InSlot(i, d, k) == ~slots[k].expired /\ <<i, d>> \in slots[k].got
OnItsWay(i, d) == \E g \in net : g.d = d /\ g.idx = i

\* Every piece of d is on its way or in the slot of d's frag_id.
Covered(d, id) ==
  /\ \A g \in net : g.d = d => g.fragID = id
  /\ \A i \in 0..(FragCnt(Size(d)) - 1) : OnItsWay(i, d) \/ InSlot(i, d, <<FlowOf(d), id>>)

UnderWay(d) ==
  IF Cut(d) THEN \E id \in 0..(FragIDs - 1) : Covered(d, id) ELSE OnItsWay(0, d)

Accounted == \A d \in 1..Len(sent) : d \in spoiled \/ Delivered(d) \/ UnderWay(d)

Bounded == IsFiniteSet(Occupied) /\ Cardinality(Occupied) <= MaxConcurrent

Types ==
  /\ nextFragID \in 0..(FragIDs - 1)
  /\ sent \in Seq([flow: Flows, size: Sizes]) /\ Len(sent) <= MaxSent
  /\ \A d \in 1..Len(sent) : Size(d) <= MaxDatagram
  /\ \A f \in net : FrameOK(f)
  /\ slots \in [SlotKeys -> SlotType] /\ \A k \in SlotKeys : SlotTyped(slots[k])
  /\ spoiled \subseteq Ids

Inv == Types /\ Bounded /\ KeysApart /\ ClaimsFit /\ Integrity /\ Accounted

-----------------------------------------------------------------------------
(* FragCnt and FragLen *)

LEMMA Times ==
  ASSUME NEW n \in Int, NEW p \in Int
  PROVE  n * p \in Int /\ (n + 1) * p = n * p + p /\ (n - 1) * p = n * p - p
OBVIOUS

LEMMA TimesGrows ==
  ASSUME NEW a \in Nat, NEW b \in Nat, a <= b, NEW p \in Nat
  PROVE  a * p <= b * p
OBVIOUS

\* The least number of frames that can take the datagram.
LEMMA FragCntBounds ==
  ASSUME NEW size \in Nat
  PROVE  /\ FragCnt(size) \in Nat
         /\ (FragCnt(size) - 1) * FragPayloadMax < size
         /\ size <= FragCnt(size) * FragPayloadMax
<1> DEFINE P == FragPayloadMax
           q == (size + P - 1) \div P
<1>1. P \in Nat /\ P > 0
  BY ReassemblyAssumption
<1>2. q \in Int /\ q * P <= size + P - 1 /\ size + P - 1 < q * P + P
  BY <1>1
<1>3. q >= 0
  BY <1>1, <1>2
<1>4. (q - 1) * P = q * P - P /\ q * P \in Int
  BY <1>1, <1>2, Times
<1> QED
  BY <1>1, <1>2, <1>3, <1>4 DEF FragCnt

\* Every piece is full but the last, which lacks the padding.
LEMMA FragLenFacts ==
  ASSUME NEW size \in Nat, size > FragPayloadMax, NEW i \in 0..(FragCnt(size) - 1)
  PROVE  /\ FragLen(size, i) \in 0..FragPayloadMax
         /\ i < FragCnt(size) - 1 => FragLen(size, i) = FragPayloadMax
         /\ i = FragCnt(size) - 1 =>
              FragLen(size, i) = FragPayloadMax - (FragCnt(size) * FragPayloadMax - size)
<1> DEFINE P == FragPayloadMax
           q == FragCnt(size)
<1>1. P \in Nat /\ P > 0 /\ q \in Nat /\ i \in Nat
  BY FragCntBounds, ReassemblyAssumption
<1>2. (q - 1) * P < size /\ size <= q * P
  BY FragCntBounds
<1>3. /\ (q - 1) * P = q * P - P /\ q * P \in Int
      /\ (i + 1) * P = i * P + P /\ i * P \in Int
  BY <1>1, Times
<1> HIDE DEF q
<1>4. CASE i < q - 1
  <2>1. i + 1 \in Nat /\ q - 1 \in Nat /\ i + 1 <= q - 1
    BY <1>1, <1>4
  <2>2. (i + 1) * P <= (q - 1) * P
    BY <1>1, <2>1, TimesGrows
  <2>3. FragLen(size, i) = P
    BY <1>1, <1>2, <1>3, <2>2 DEF FragLen
  <2> QED
    BY <1>1, <1>4, <2>3 DEF q
<1>5. CASE i = q - 1
  <2>1. i * P = q * P - P /\ (i + 1) * P = q * P
    BY <1>1, <1>3, <1>5
  <2>2. FragLen(size, i) = size - (q * P - P)
    BY <1>1, <1>2, <1>3, <2>1 DEF FragLen
  <2> QED
    BY <1>1, <1>2, <1>3, <1>5, <2>2 DEF q
<1> QED
  BY <1>1, <1>4, <1>5 DEF q

-----------------------------------------------------------------------------
(* The pieces of a datagram *)

LEMMA Pieces ==
  ASSUME NEW n \in Nat, NEW d
  PROVE  LET all == (0..(n - 1)) \X {d}
         IN  IsFiniteSet(all) /\ Cardinality(all) = n
<1>1. IsFiniteSet(0..(n - 1)) /\ Cardinality(0..(n - 1)) = n
  BY FS_Interval
<1>2. IsFiniteSet({d}) /\ Cardinality({d}) = 1
  BY FS_Singleton
<1> QED
  BY <1>1, <1>2, FS_Product

\* n pieces out of n are all of them, fewer are not.
LEMMA AllPieces ==
  ASSUME NEW n \in Nat, NEW d, NEW got, got \subseteq (0..(n - 1)) \X {d}
  PROVE  /\ IsFiniteSet(got) /\ Cardinality(got) \in Nat /\ Cardinality(got) <= n
         /\ Cardinality(got) = n <=> \A i \in 0..(n - 1) : <<i, d>> \in got
<1> DEFINE all == (0..(n - 1)) \X {d}
<1>1. IsFiniteSet(all) /\ Cardinality(all) = n
  BY Pieces
<1>2. IsFiniteSet(got) /\ Cardinality(got) <= n
  BY <1>1, FS_Subset
<1>3. Cardinality(got) \in Nat
  BY <1>2, FS_CardinalityType
<1>4. Cardinality(got) = n <=> got = all
  BY <1>1, FS_Subset
<1>5. got = all <=> \A i \in 0..(n - 1) : <<i, d>> \in got
  OBVIOUS
<1> QED
  BY <1>2, <1>3, <1>4, <1>5

-----------------------------------------------------------------------------
(* Slots *)

LEMMA NoSlotFacts ==
  /\ NoSlot \in SlotType /\ SlotTyped(NoSlot) /\ ~NoSlot.expired
  /\ NoSlot.got = {} /\ NoSlot.count = 0 /\ NoSlot.bytes = 0 /\ Owners(NoSlot) = {}
<1>1. NoSlot.got = {} /\ NoSlot.count = 0 /\ NoSlot.bytes = 0 /\ ~NoSlot.expired
  BY DEF NoSlot
<1>2. NoSlot \in SlotType
  BY DEF NoSlot, SlotType
<1>3. SlotTyped(NoSlot)
  BY <1>1, <1>2, FS_EmptySet, ReassemblyAssumption DEF SlotTyped
<1> QED
  BY <1>1, <1>2, <1>3 DEF Owners

LEMMA SizeFacts ==
  ASSUME Types, NEW d \in 1..Len(sent)
  PROVE  d \in Ids /\ Size(d) \in Nat /\ FlowOf(d) \in Flows
<1>1. sent[d] \in [flow: Flows, size: Sizes]
  <2>1. sent \in Seq([flow: Flows, size: Sizes])
    BY DEF Types
  <2> QED
    BY <2>1, ElementOfSeq
<1>2. Size(d) \in Nat /\ FlowOf(d) \in Flows
  BY <1>1, ReassemblyAssumption DEF Size, FlowOf
<1>3. Len(sent) \in Nat /\ Len(sent) <= MaxSent
  BY DEF Types
<1> QED
  BY <1>2, <1>3, ReassemblyAssumption DEF Ids

LEMMA FragmentFacts ==
  ASSUME Types, NEW f \in net
  PROVE  /\ f.d \in 1..Len(sent) /\ f.d \in Ids /\ KeyOf(f) \in SlotKeys
         /\ Size(f.d) \in Nat /\ f.len \in 0..FragPayloadMax
         /\ f.cnt \in 1..MaxFrags /\ f.idx \in 0..(f.cnt - 1)
         /\ f.fragment <=> Cut(f.d)
<1>1. FrameOK(f)
  BY DEF Types
<1>2. f.d \in 1..Len(sent) /\ f.fragID \in 0..(FragIDs - 1) /\ f.flow = FlowOf(f.d)
  BY <1>1 DEF FrameOK
<1>3. f.d \in Ids /\ Size(f.d) \in Nat /\ KeyOf(f) \in SlotKeys
  BY <1>2, SizeFacts DEF KeyOf, SlotKeys
<1>4. CASE Cut(f.d)
  <2>1. f.cnt = FragCnt(Size(f.d)) /\ f.cnt <= MaxFrags /\ f.idx \in 0..(f.cnt - 1)
    BY <1>1, <1>4 DEF FrameOK
  <2>2. f.len \in 0..FragPayloadMax
    BY <1>1, <1>3, <1>4, <2>1, FragLenFacts DEF FrameOK, Cut
  <2>3. f.cnt \in 1..MaxFrags
    BY <1>3, <2>1, FragCntBounds, ReassemblyAssumption
  <2> QED
    BY <1>1, <1>2, <1>3, <2>1, <2>2, <2>3 DEF FrameOK
<1>5. CASE ~Cut(f.d)
  BY <1>1, <1>2, <1>3, <1>5, ReassemblyAssumption DEF FrameOK, Cut
<1> QED
  BY <1>4, <1>5

\* The slot a fragment comes to, opened anew or in use, is its datagram's.
LEMMA SlotFacts ==
  ASSUME Inv, NEW f \in net, f.fragment
  PROVE  /\ SlotTyped(Slot(f)) /\ ~Slot(f).expired
         /\ Slot(f).cnt = f.cnt /\ Slot(f).count < f.cnt
         /\ Holds(Slot(f), f.d)
         /\ slots[KeyOf(f)].expired \/ Slot(f).got = slots[KeyOf(f)].got
<1> DEFINE k == KeyOf(f)
           s == slots[k]
<1>1. /\ f.d \in 1..Len(sent) /\ f.d \in Ids /\ k \in SlotKeys
      /\ f.cnt \in Nat /\ f.cnt > 0 /\ Size(f.d) \in Nat
  BY FragmentFacts DEF Inv
<1>2. f.cnt = FragCnt(Size(f.d)) /\ Cut(f.d)
  BY DEF Inv, Types, FrameOK
<1>3. SlotTyped(s) /\ s \in SlotType
  BY <1>1 DEF Inv, Types
<1>4. ASSUME s # NoSlot, ~s.expired
      PROVE  s.count < s.cnt /\ Holds(s, f.d) /\ s.cnt = f.cnt
  <2>1. f.d \in Claimants(k)
    BY DEF Claimants
  <2> QED
    BY <1>1, <1>2, <1>4, <2>1 DEF Inv, ClaimsFit, Holds
<1>5. CASE OldSlot(f) = NoSlot
  <2> DEFINE t == [NoSlot EXCEPT !.cnt = f.cnt]
  <2>1. Slot(f) = t
    BY <1>5 DEF Slot
  <2>2. /\ t \in SlotType /\ t.cnt = f.cnt /\ t.got = NoSlot.got
        /\ t.count = NoSlot.count /\ t.bytes = NoSlot.bytes
    BY <1>1, NoSlotFacts DEF SlotType
  <2>3. ~t.expired
    BY NoSlotFacts DEF SlotType
  <2> HIDE DEF t
  <2>4. SlotTyped(t)
    BY <2>2, NoSlotFacts DEF SlotTyped
  <2>5. 0 * FragPayloadMax = 0
    BY ReassemblyAssumption
  <2>6. Holds(t, f.d)
    BY <1>2, <2>2, <2>5, NoSlotFacts DEF Holds, Weight
  <2>7. s.expired \/ s.got = {}
    BY <1>4, <1>5, NoSlotFacts DEF OldSlot, Stale
  <2> QED
    BY <1>1, <2>1, <2>2, <2>3, <2>4, <2>6, <2>7, NoSlotFacts
<1>6. CASE OldSlot(f) # NoSlot
  <2>1. Slot(f) = s /\ s # NoSlot /\ ~s.expired
    BY <1>6 DEF Slot, OldSlot, Stale
  <2> QED
    BY <1>3, <1>4, <2>1
<1> QED
  BY <1>5, <1>6

\* A fragment that is new to its slot adds itself and its length.
LEMMA FillFacts ==
  ASSUME Inv, NEW f \in net, f.fragment, ~Repeated(f)
  PROVE  LET s == Filled(f)
         IN  /\ s \in SlotType /\ IsFiniteSet(s.got) /\ s.count = Cardinality(s.got)
             /\ ~s.expired /\ s # NoSlot /\ s.cnt = f.cnt /\ Holds(s, f.d)
             /\ s.got = Slot(f).got \cup {<<f.idx, f.d>>}
<1> DEFINE old == Slot(f)
           s == Filled(f)
           d == f.d
           P == FragPayloadMax
           piece == <<f.idx, f.d>>
<1>1. /\ d \in Ids /\ f.cnt \in Nat /\ f.cnt > 0 /\ Size(d) \in Nat
      /\ f.len \in Nat /\ f.idx \in 0..(f.cnt - 1)
  BY FragmentFacts DEF Inv
<1>2. f.cnt = FragCnt(Size(d)) /\ Cut(d) /\ f.len = FragLen(Size(d), f.idx)
  BY DEF Inv, Types, FrameOK
<1>3. /\ SlotTyped(old) /\ ~old.expired /\ old.cnt = f.cnt /\ Holds(old, d)
      /\ old \in SlotType
  BY SlotFacts DEF SlotTyped
<1>4. piece \in Nat \X Ids /\ piece \notin old.got
  BY <1>1 DEF Repeated
<1>5. /\ s.got = old.got \cup {piece} /\ s.count = old.count + 1
      /\ s.bytes = old.bytes + f.len /\ s.cnt = old.cnt
  BY <1>3 DEF Filled, SlotType
<1>6. s \in SlotType
  <2> DEFINE a == [old EXCEPT !.got = @ \cup {piece}]
             b == [a EXCEPT !.count = @ + 1]
  <2>1. a \in SlotType
    BY <1>3, <1>4 DEF SlotType
  <2>2. b \in SlotType
    <3> HIDE DEF a
    <3> QED
      BY <2>1 DEF SlotType
  <2>3. s = [b EXCEPT !.bytes = @ + f.len]
    BY <1>3 DEF Filled, SlotType
  <2> HIDE DEF b
  <2> QED
    BY <1>1, <2>2, <2>3 DEF SlotType
<1>7. ~s.expired
  BY <1>3 DEF Filled, SlotType
<1>8. IsFiniteSet(s.got) /\ s.count = Cardinality(s.got)
  <2>1. IsFiniteSet(old.got) /\ old.count = Cardinality(old.got)
    BY <1>3 DEF SlotTyped
  <2>2. /\ IsFiniteSet(old.got \cup {piece})
        /\ Cardinality(old.got \cup {piece}) = Cardinality(old.got) + 1
    <3> HIDE DEF piece, old
    <3> QED
      BY <1>4, <2>1, FS_AddElement
  <2> QED
    BY <1>5, <2>1, <2>2
<1>9. s # NoSlot
  BY <1>4, <1>5, NoSlotFacts
<1>10. s.got \subseteq (0..(s.cnt - 1)) \X {d}
  BY <1>1, <1>3, <1>5 DEF Holds
<1>11. s.bytes = Weight(d, s.count, <<s.cnt - 1, d>> \in s.got)
  <2> DEFINE last == <<f.cnt - 1, d>>
  <2>1. /\ old.bytes = old.count * P - (IF last \in old.got THEN Padding(d) ELSE 0)
        /\ old.count \in Nat
    BY <1>3 DEF Holds, Weight, SlotType
  <2>2. P \in Int /\ (old.count + 1) * P = old.count * P + P /\ old.count * P \in Int
    BY <2>1, Times, ReassemblyAssumption
  <2>3. f.cnt * P \in Int /\ Padding(d) = f.cnt * P - Size(d)
    BY <1>1, <1>2, <2>2, Times DEF Padding
  <2>4. CASE f.idx = f.cnt - 1
    <3>1. f.len = P - Padding(d)
      BY <1>1, <1>2, <2>3, <2>4, FragLenFacts DEF Cut
    <3>2. last \in s.got /\ last \notin old.got
      BY <1>4, <1>5, <2>4
    <3>3. s.bytes = (old.count + 1) * P - Padding(d)
      BY <1>1, <1>5, <2>1, <2>2, <2>3, <3>1, <3>2
    <3> QED
      BY <1>3, <1>5, <3>2, <3>3 DEF Weight
  <2>5. CASE f.idx # f.cnt - 1
    <3>1. f.len = P
      BY <1>1, <1>2, <2>5, FragLenFacts DEF Cut
    <3>2. last \in s.got <=> last \in old.got
      BY <1>5, <2>5
    <3>3. s.bytes = (old.count + 1) * P - (IF last \in s.got THEN Padding(d) ELSE 0)
      BY <1>1, <1>5, <2>1, <2>2, <2>3, <3>1, <3>2
    <3> QED
      BY <1>3, <1>5, <3>3 DEF Weight
  <2> QED
    BY <2>4, <2>5
<1>12. Holds(s, d)
  BY <1>2, <1>3, <1>5, <1>10, <1>11 DEF Holds
<1> QED
  BY <1>3, <1>5, <1>6, <1>7, <1>8, <1>9, <1>12

\* All pieces together are the datagram.
LEMMA FullFacts ==
  ASSUME Types, NEW d \in 1..Len(sent), NEW s \in SlotType, Holds(s, d),
         s.count = Cardinality(s.got), s.count >= s.cnt
  PROVE  s.bytes = Size(d)
<1> DEFINE n == FragCnt(Size(d))
<1>1. Size(d) \in Nat /\ n \in Nat /\ s.cnt = n /\ s.got \subseteq (0..(n - 1)) \X {d}
  BY SizeFacts, FragCntBounds DEF Holds
<1>2. s.count = n /\ \A i \in 0..(n - 1) : <<i, d>> \in s.got
  <2> DEFINE got == s.got
  <2> HIDE DEF n, got
  <2>1. /\ Cardinality(got) \in Nat /\ Cardinality(got) <= n
        /\ Cardinality(got) = n => \A i \in 0..(n - 1) : <<i, d>> \in got
    BY <1>1, AllPieces DEF got
  <2> QED
    BY <1>1, <2>1 DEF got
<1>3. n > 0 \/ Size(d) = 0
  <2>1. n = 0 => n * FragPayloadMax = 0
    BY ReassemblyAssumption
  <2> QED
    BY <1>1, <2>1, FragCntBounds
<1>4. n * FragPayloadMax \in Int
  BY <1>1, Times, ReassemblyAssumption
<1>5. CASE n > 0
  <2>1. <<s.cnt - 1, d>> \in s.got
    BY <1>1, <1>2, <1>5
  <2>2. s.bytes = n * FragPayloadMax - (n * FragPayloadMax - Size(d))
    BY <1>2, <2>1 DEF Holds, Weight, Padding
  <2> QED
    BY <1>1, <1>4, <2>2
<1>6. CASE n = 0
  <2>1. s.got = {} /\ s.bytes = 0 * FragPayloadMax - 0
    BY <1>1, <1>2, <1>6 DEF Holds, Weight
  <2> QED
    BY <1>1, <1>3, <1>6, <2>1, ReassemblyAssumption
<1> QED
  BY <1>1, <1>5, <1>6

-----------------------------------------------------------------------------
(* The bound on the slots *)

LEMMA BoundedShrinks ==
  ASSUME Bounded, Occupied' \subseteq Occupied
  PROVE  Bounded'
<1>1. IsFiniteSet(Occupied') /\ Cardinality(Occupied') <= Cardinality(Occupied)
  BY FS_Subset DEF Bounded
<1>2. Cardinality(Occupied') \in Nat /\ Cardinality(Occupied) \in Nat
  BY <1>1, FS_CardinalityType DEF Bounded
<1> QED
  BY <1>1, <1>2, ReassemblyAssumption DEF Bounded

LEMMA BoundedAdds ==
  ASSUME Bounded, NEW k, Occupied' \subseteq Occupied \cup {k},
         Cardinality(Occupied \ {k}) < MaxConcurrent
  PROVE  Bounded'
<1> DEFINE rest == Occupied \ {k}
<1>1. IsFiniteSet(rest)
  BY FS_Subset DEF Bounded
<1>2. IsFiniteSet(rest \cup {k}) /\ Cardinality(rest \cup {k}) = Cardinality(rest) + 1
  <2>1. k \notin rest
    OBVIOUS
  <2> HIDE DEF rest
  <2> QED
    BY <1>1, <2>1, FS_AddElement
<1>3. Occupied' \subseteq rest \cup {k}
  OBVIOUS
<1>4. IsFiniteSet(Occupied') /\ Cardinality(Occupied') <= Cardinality(rest \cup {k})
  BY <1>2, <1>3, FS_Subset
<1>5. Cardinality(Occupied') \in Nat /\ Cardinality(rest) \in Nat
  BY <1>1, <1>4, FS_CardinalityType
<1> QED
  BY <1>2, <1>4, <1>5, ReassemblyAssumption DEF Bounded

LEMMA SetSlotFacts ==
  ASSUME slots \in [SlotKeys -> SlotType], NEW f, NEW s, SetSlot(f, s)
  PROVE  /\ s \in SlotType => slots' \in [SlotKeys -> SlotType]
         /\ KeyOf(f) \in SlotKeys => slots'[KeyOf(f)] = s
         /\ \A k \in SlotKeys : k # KeyOf(f) => slots'[k] = slots[k]
         /\ s = NoSlot => Occupied' \subseteq Occupied
         /\ Occupied' \subseteq Occupied \cup {KeyOf(f)}
BY DEF SetSlot, Occupied

LEMMA BoundedFragment ==
  ASSUME Inv, NEW f \in net, AddNoRoom(f) \/ AddDropsSlot(f) \/ AddStores(f) \/ AddCompletes(f)
  PROVE  Bounded'
<1>1. slots \in [SlotKeys -> SlotType] /\ Bounded
  BY DEF Inv, Types
<1>2. CASE SetSlot(f, NoSlot)
  BY <1>1, <1>2, SetSlotFacts, BoundedShrinks
<1>3. CASE AddNoRoom(f)
  BY <1>2, <1>3 DEF AddNoRoom, NoRoom
<1>4. CASE AddStores(f)
  <2>1. SetSlot(f, Filled(f)) /\ ~NoRoom(f)
    BY <1>4 DEF AddStores
  <2>2. Occupied' \subseteq Occupied \cup {KeyOf(f)}
    BY <1>1, <2>1, SetSlotFacts
  <2>3. CASE OldSlot(f) # NoSlot
    <3>1. KeyOf(f) \in SlotKeys /\ slots[KeyOf(f)] # NoSlot
      BY <2>3, FragmentFacts DEF OldSlot, Inv
    <3> QED
      BY <1>1, <2>2, <3>1, BoundedShrinks DEF Occupied
  <2>4. CASE ~(Cardinality(Occupied \ {KeyOf(f)}) >= MaxConcurrent)
    <3>1. Cardinality(Occupied \ {KeyOf(f)}) \in Nat
      BY <1>1, FS_Subset, FS_CardinalityType DEF Bounded
    <3>2. Cardinality(Occupied \ {KeyOf(f)}) < MaxConcurrent
      BY <2>4, <3>1, ReassemblyAssumption
    <3> QED
      BY <1>1, <2>2, <3>2, BoundedAdds
  <2> QED
    BY <2>1, <2>3, <2>4 DEF NoRoom
<1> QED
  BY <1>2, <1>3, <1>4 DEF AddDropsSlot, AddCompletes

LEMMA BoundedNext ==
  ASSUME Inv, [Next]_vars
  PROVE  Bounded'
<1>1. slots \in [SlotKeys -> SlotType] /\ Bounded
  BY DEF Inv, Types
<1>2. CASE UNCHANGED slots
  BY <1>1, <1>2, BoundedShrinks DEF Occupied
<1>3. ASSUME NEW f \in net, AddNoRoom(f) \/ AddDropsSlot(f) \/ AddStores(f) \/ AddCompletes(f)
      PROVE  Bounded'
  BY <1>3, BoundedFragment
<1>4. ASSUME NEW k \in SlotKeys, Timeout(k)
      PROVE  Bounded'
  <2>1. Occupied' \subseteq Occupied
    BY <1>1, <1>4 DEF Timeout, Occupied
  <2> QED
    BY <1>1, <2>1, BoundedShrinks
<1>5. CASE Sweep
  <2>1. Occupied' \subseteq Occupied
    BY <1>1, <1>5 DEF Sweep, Occupied
  <2> QED
    BY <1>1, <2>1, BoundedShrinks
<1>6. ASSUME NEW flow \in Flows, NEW size \in Sizes, Send(flow, size)
      PROVE  UNCHANGED slots
  BY <1>6 DEF Send, SendWhole, SendFragments, DropUncountable
<1>7. ASSUME NEW f \in net, Lose(f) \/ DeliverWhole(f)
      PROVE  UNCHANGED slots
  BY <1>7 DEF Lose, DeliverWhole
<1> QED
  BY <1>2, <1>3, <1>4, <1>5, <1>6, <1>7 DEF Next, Receive, vars

-----------------------------------------------------------------------------
(* Frames come and slots change: what stays true of keys and claims *)

InUse(s) == s # NoSlot /\ ~s.expired

LEMMA NetShrinks ==
  ASSUME Inv, UNCHANGED <<nextFragID, sent>>, net' \subseteq net,
         slots' \in [SlotKeys -> SlotType], \A k \in SlotKeys : SlotTyped(slots'[k]),
         spoiled' \subseteq Ids
  PROVE  Types' /\ KeysApart'
<1>1. Types'
  <2>1. \A d : Size(d)' = Size(d) /\ FlowOf(d)' = FlowOf(d) /\ (Cut(d)' <=> Cut(d))
    BY DEF Size, FlowOf, Cut
  <2>2. \A f \in net' : FrameOK(f)'
    BY <2>1 DEF FrameOK, Inv, Types
  <2> QED
    BY <2>1, <2>2 DEF Inv, Types, SlotTyped
<1>2. KeysApart'
  BY DEF Inv, KeysApart, KeyOf
<1> QED
  BY <1>1, <1>2

\* A slot changes hands only to the one datagram that has frames for it.
LEMMA ClaimsStay ==
  ASSUME Inv, UNCHANGED sent, net' \subseteq net,
         \A k \in SlotKeys :
           \/ slots'[k] = slots[k]
           \/ ~InUse(slots'[k])
           \/ /\ slots'[k].count < slots'[k].cnt
              /\ \E d \in 1..Len(sent) :
                   /\ Cut(d) /\ Holds(slots'[k], d)
                   /\ \A g \in net : g.fragment /\ KeyOf(g) = k => g.d = d
  PROVE  ClaimsFit'
<1>1. \A d : (Cut(d)' <=> Cut(d)) /\ Size(d)' = Size(d)
  BY DEF Cut, Size
<1>2. \A s, d : Holds(s, d)' <=> Holds(s, d)
  BY <1>1 DEF Holds, Weight, Padding
<1>3. SUFFICES ASSUME NEW k \in SlotKeys, InUse(slots'[k])
               PROVE  /\ slots'[k].count < slots'[k].cnt
                      /\ \A d \in Claimants(k)' :
                           d \in 1..Len(sent) /\ Cut(d) /\ Holds(slots'[k], d)
  BY <1>1, <1>2 DEF ClaimsFit, Holds, Weight, Padding, InUse
<1>4. CASE slots'[k] = slots[k]
  <2>1. Claimants(k)' \subseteq Claimants(k)
    BY <1>4 DEF Claimants, Owners, KeyOf
  <2> QED
    BY <1>3, <1>4, <2>1 DEF Inv, ClaimsFit, InUse
<1>5. CASE slots'[k] # slots[k]
  <2>1. PICK d \in 1..Len(sent) :
          /\ Cut(d) /\ Holds(slots'[k], d)
          /\ \A g \in net : g.fragment /\ KeyOf(g) = k => g.d = d
    BY <1>3, <1>5
  <2>2. ASSUME NEW e \in Claimants(k)'
        PROVE  e = d
    BY <2>1, <2>2 DEF Claimants, Owners, KeyOf, Holds
  <2> QED
    BY <1>3, <1>5, <2>1, <2>2
<1> QED
  BY <1>4, <1>5

\* The four ways of udpReassembler.add, without what they deliver or spoil: the slot
\* is dropped, or it holds one piece more.
Adds(f) ==
  /\ f.fragment /\ UNCHANGED <<nextFragID, sent>>
  /\ net' \in {net, net \ {f}}
  /\ \/ SetSlot(f, NoSlot)
     \/ /\ SetSlot(f, Filled(f)) /\ ~Repeated(f) /\ Filled(f).bytes <= MaxDatagram
        /\ ~Complete(Filled(f))

LEMMA AddsFacts ==
  ASSUME Inv, NEW f \in net, AddNoRoom(f) \/ AddDropsSlot(f) \/ AddStores(f) \/ AddCompletes(f)
  PROVE  Adds(f)
BY DEF AddNoRoom, NoRoom, AddDropsSlot, AddStores, AddCompletes, Arrives, Adds

LEMMA AddsTyped ==
  ASSUME Inv, NEW f \in net, Adds(f)
  PROVE  slots' \in [SlotKeys -> SlotType] /\ \A k \in SlotKeys : SlotTyped(slots'[k])
<1>1. PICK s : SetSlot(f, s) /\ SlotTyped(s)
  <2>1. CASE SetSlot(f, NoSlot)
    BY <2>1, NoSlotFacts
  <2>2. CASE SetSlot(f, Filled(f)) /\ ~Repeated(f) /\ Filled(f).bytes <= MaxDatagram
    BY <2>2, FillFacts DEF SlotTyped, Adds
  <2> QED
    BY <2>1, <2>2 DEF Adds
<1>2. slots \in [SlotKeys -> SlotType] /\ \A k \in SlotKeys : SlotTyped(slots[k])
  BY DEF Inv, Types
<1>3. KeyOf(f) \in SlotKeys /\ s \in SlotType
  BY <1>1, FragmentFacts DEF Inv, SlotTyped
<1> QED
  BY <1>1, <1>2, <1>3, SetSlotFacts

LEMMA AddsClaims ==
  ASSUME Inv, NEW f \in net, Adds(f)
  PROVE  ClaimsFit'
<1>1. /\ slots \in [SlotKeys -> SlotType] /\ KeyOf(f) \in SlotKeys
      /\ Cut(f.d) /\ f.d \in 1..Len(sent)
  BY FragmentFacts DEF Inv, Types, Adds
<1>2. \A g \in net : g.fragment /\ KeyOf(g) = KeyOf(f) => g.d = f.d
  BY DEF Inv, KeysApart, Adds
<1>3. \/ slots'[KeyOf(f)] = NoSlot
      \/ slots'[KeyOf(f)].count < slots'[KeyOf(f)].cnt /\ Holds(slots'[KeyOf(f)], f.d)
  <2>1. CASE SetSlot(f, NoSlot)
    BY <1>1, <2>1, SetSlotFacts
  <2>2. CASE SetSlot(f, Filled(f)) /\ ~Repeated(f) /\ ~Complete(Filled(f))
    <3>1. slots'[KeyOf(f)] = Filled(f)
      BY <1>1, <2>2, SetSlotFacts
    <3>2. Filled(f) \in SlotType /\ Holds(Filled(f), f.d)
      BY <2>2, FillFacts DEF Adds
    <3>3. Filled(f).count \in Nat /\ Filled(f).cnt \in Nat
      BY <3>2 DEF SlotType
    <3> QED
      BY <2>2, <3>1, <3>2, <3>3 DEF Complete
  <2> QED
    BY <2>1, <2>2 DEF Adds
<1>4. \A k \in SlotKeys : k # KeyOf(f) => slots'[k] = slots[k]
  BY <1>1, SetSlotFacts DEF Adds
<1>5. UNCHANGED sent /\ net' \subseteq net
  BY DEF Adds
<1> QED
  BY <1>1, <1>2, <1>3, <1>4, <1>5, ClaimsStay DEF InUse

-----------------------------------------------------------------------------
(* What is delivered *)

LEMMA IntegrityStays ==
  ASSUME Inv, UNCHANGED sent,
         \A r \in delivered' : r \notin delivered =>
           \E d \in 1..Len(sent) : /\ FlowOf(d) = r.flow /\ Size(d) = r.bytes
                                   /\ \A p \in r.pieces : p[2] = d
  PROVE  Integrity'
BY DEF Inv, Integrity, FlowOf, Size

LEMMA DeliverWholeIntegrity ==
  ASSUME Inv, NEW f \in net, DeliverWhole(f)
  PROVE  Integrity'
<1> DEFINE r == [flow |-> f.flow, pieces |-> {<<f.idx, f.d>>}, bytes |-> f.len]
<1>1. UNCHANGED sent /\ delivered' = delivered \cup {r} /\ ~f.fragment
  BY DEF DeliverWhole
<1>2. f.d \in 1..Len(sent) /\ f.flow = FlowOf(f.d) /\ f.len = Size(f.d)
  BY <1>1 DEF Inv, Types, FrameOK
<1>3. FlowOf(f.d) = r.flow /\ Size(f.d) = r.bytes /\ \A p \in r.pieces : p[2] = f.d
  BY <1>2
<1> HIDE DEF r
<1> QED
  BY <1>1, <1>2, <1>3, IntegrityStays

\* Where the pieces come from that AddCompletes delivers.
LEMMA CompleteFacts ==
  ASSUME Inv, NEW f \in net, AddCompletes(f)
  PROVE  /\ f.d \in 1..Len(sent) /\ f.flow = FlowOf(f.d)
         /\ Filled(f).bytes = Size(f.d)
         /\ \A p \in Filled(f).got : p[2] = f.d
<1>1. f.fragment /\ ~Repeated(f) /\ Complete(Filled(f))
  BY DEF AddCompletes
<1>2. /\ Filled(f) \in SlotType /\ Holds(Filled(f), f.d)
      /\ Filled(f).count = Cardinality(Filled(f).got)
  BY <1>1, FillFacts
<1>3. f.d \in 1..Len(sent) /\ f.flow = FlowOf(f.d)
  BY DEF Inv, Types, FrameOK
<1>4. Filled(f).bytes = Size(f.d)
  <2> DEFINE s == Filled(f)
  <2>1. s \in SlotType /\ Holds(s, f.d) /\ s.count = Cardinality(s.got) /\ s.count >= s.cnt
    BY <1>1, <1>2 DEF Complete
  <2> HIDE DEF s
  <2>2. s.bytes = Size(f.d)
    BY <1>3, <2>1, FullFacts DEF Inv
  <2> QED
    BY <2>2 DEF s
<1>5. \A p \in Filled(f).got : p[2] = f.d
  BY <1>2 DEF Holds
<1> QED
  BY <1>3, <1>4, <1>5

LEMMA AddCompletesIntegrity ==
  ASSUME Inv, NEW f \in net, AddCompletes(f)
  PROVE  Integrity'
<1> DEFINE r == [flow |-> f.flow, pieces |-> Filled(f).got, bytes |-> Filled(f).bytes]
<1>1. UNCHANGED sent /\ delivered' = delivered \cup {r}
  BY DEF AddCompletes
<1>2. /\ f.d \in 1..Len(sent) /\ FlowOf(f.d) = r.flow /\ Size(f.d) = r.bytes
      /\ \A p \in r.pieces : p[2] = f.d
  BY CompleteFacts
<1> HIDE DEF r
<1> QED
  BY <1>1, <1>2, IntegrityStays

-----------------------------------------------------------------------------
(* Where the pieces are *)

\* A datagram other than the one that moves keeps its frames and its pieces.
LEMMA OthersStay ==
  ASSUME Inv, UNCHANGED sent, NEW d \in 1..Len(sent),
         delivered \subseteq delivered', spoiled \subseteq spoiled', net' \subseteq net,
         d \notin spoiled',
         \A g \in net : g.d = d => g \in net',
         \A i \in Nat, k \in SlotKeys : InSlot(i, d, k) => InSlot(i, d, k)'
  PROVE  (Delivered(d) \/ UnderWay(d))'
<1>1. Size(d)' = Size(d) /\ FlowOf(d)' = FlowOf(d) /\ (Cut(d)' <=> Cut(d))
  BY DEF Size, FlowOf, Cut
<1>2. \A i : OnItsWay(i, d) => OnItsWay(i, d)'
  BY DEF OnItsWay
<1>3. Delivered(d) \/ UnderWay(d)
  BY DEF Inv, Accounted
<1>4. CASE Delivered(d)
  BY <1>4 DEF Delivered
<1>5. CASE UnderWay(d) /\ Cut(d)
  <2>1. PICK id \in 0..(FragIDs - 1) : Covered(d, id)
    BY <1>5 DEF UnderWay
  <2>2. <<FlowOf(d), id>> \in SlotKeys
    BY SizeFacts DEF Inv, SlotKeys
  <2>3. Covered(d, id)'
    BY <1>1, <1>2, <2>1, <2>2 DEF Covered
  <2> QED
    BY <1>1, <1>5, <2>3 DEF UnderWay
<1>6. CASE UnderWay(d) /\ ~Cut(d)
  BY <1>1, <1>2, <1>6 DEF UnderWay
<1> QED
  BY <1>3, <1>4, <1>5, <1>6

\* The slot of a fragment holds nobody else's pieces.
LEMMA SlotIsMine ==
  ASSUME Inv, NEW f \in net, f.fragment, NEW d, d # f.d, NEW i
  PROVE  ~InSlot(i, d, KeyOf(f))
<1>1. Holds(Slot(f), f.d)
  BY SlotFacts
<1>2. slots[KeyOf(f)].expired \/ Slot(f).got = slots[KeyOf(f)].got
  BY SlotFacts
<1> QED
  BY <1>1, <1>2 DEF Holds, InSlot

LEMMA SpoiledTyped ==
  ASSUME Inv, NEW f \in net,
         \/ spoiled' = spoiled
         \/ spoiled' = spoiled \cup {f.d}
         \/ spoiled' = spoiled \cup {f.d} \cup Owners(slots[KeyOf(f)])
  PROVE  spoiled' \subseteq Ids
<1>1. f.d \in Ids /\ KeyOf(f) \in SlotKeys /\ spoiled \subseteq Ids
  BY FragmentFacts DEF Inv, Types
<1>2. slots[KeyOf(f)].got \subseteq Nat \X Ids
  BY <1>1 DEF Inv, Types, SlotType
<1> QED
  BY <1>1, <1>2 DEF Owners

LEMMA LoseInv ==
  ASSUME Inv, NEW f \in net, Lose(f)
  PROVE  Inv'
<1>1. /\ UNCHANGED <<nextFragID, sent, slots, delivered>>
      /\ net' = net \ {f} /\ spoiled' = spoiled \cup {f.d}
  BY DEF Lose
<1>2. Types' /\ KeysApart'
  <2>1. slots' \in [SlotKeys -> SlotType] /\ \A k \in SlotKeys : SlotTyped(slots'[k])
    BY <1>1 DEF Inv, Types
  <2> QED
    BY <1>1, <2>1, SpoiledTyped, NetShrinks
<1>3. ClaimsFit'
  BY <1>1, ClaimsStay
<1>4. Integrity'
  BY <1>1, IntegrityStays
<1>5. Accounted'
  BY <1>1, OthersStay DEF Accounted, InSlot
<1>6. Bounded'
  BY BoundedNext DEF Next
<1> QED
  BY <1>2, <1>3, <1>4, <1>5, <1>6 DEF Inv

LEMMA DeliverWholeInv ==
  ASSUME Inv, NEW f \in net, DeliverWhole(f)
  PROVE  Inv'
<1> DEFINE r == [flow |-> f.flow, pieces |-> {<<f.idx, f.d>>}, bytes |-> f.len]
<1>1. /\ UNCHANGED <<nextFragID, sent, slots>> /\ delivered' = delivered \cup {r}
      /\ net' \in {net, net \ {f}} /\ spoiled' \in {spoiled, spoiled \cup {f.d}}
  BY DEF DeliverWhole, Arrives
<1>2. Types' /\ KeysApart'
  <2>1. slots' \in [SlotKeys -> SlotType] /\ \A k \in SlotKeys : SlotTyped(slots'[k])
    BY <1>1 DEF Inv, Types
  <2>2. spoiled' \subseteq Ids
    BY <1>1, SpoiledTyped
  <2> QED
    BY <1>1, <2>1, <2>2, NetShrinks
<1>3. ClaimsFit'
  BY <1>1, ClaimsStay
<1>4. Integrity'
  BY DeliverWholeIntegrity
<1>5. Accounted'
  <2>1. \A p \in r.pieces : p[2] = f.d
    OBVIOUS
  <2> HIDE DEF r
  <2>2. Delivered(f.d)'
    BY <1>1, <2>1 DEF Delivered
  <2>3. ASSUME NEW d \in 1..Len(sent), d # f.d, d \notin spoiled'
        PROVE  (Delivered(d) \/ UnderWay(d))'
    BY <1>1, <2>3, OthersStay DEF InSlot
  <2> QED
    BY <1>1, <2>2, <2>3 DEF Accounted
<1>6. Bounded'
  BY BoundedNext DEF Next, Receive
<1> QED
  BY <1>2, <1>3, <1>4, <1>5, <1>6 DEF Inv

\* What the four ways of add have in common.
LEMMA AddsInv ==
  ASSUME Inv, NEW f \in net, AddNoRoom(f) \/ AddDropsSlot(f) \/ AddStores(f) \/ AddCompletes(f),
         \A d \in 1..Len(sent) : d \in spoiled' \/ (Delivered(d) \/ UnderWay(d))'
  PROVE  Inv'
<1>1. Adds(f)
  BY AddsFacts
<1>2. UNCHANGED <<nextFragID, sent>> /\ net' \subseteq net
  BY <1>1 DEF Adds
<1>3. Types' /\ KeysApart'
  <2>1. spoiled' \subseteq Ids
    BY SpoiledTyped DEF AddNoRoom, AddDropsSlot, AddStores, AddCompletes, Arrives
  <2> QED
    BY <1>1, <1>2, <2>1, AddsTyped, NetShrinks
<1>4. ClaimsFit'
  BY <1>1, AddsClaims
<1>5. Integrity'
  <2>1. CASE AddCompletes(f)
    BY <2>1, AddCompletesIntegrity
  <2>2. CASE ~AddCompletes(f)
    <3>1. UNCHANGED delivered
      BY <2>2 DEF AddNoRoom, AddDropsSlot, AddStores
    <3> QED
      BY <1>2, <3>1, IntegrityStays
  <2> QED
    BY <2>1, <2>2
<1>6. Bounded'
  BY BoundedFragment
<1>7. Accounted'
  BY <1>2 DEF Accounted
<1> QED
  BY <1>3, <1>4, <1>5, <1>6, <1>7 DEF Inv

\* The other datagrams do not notice what becomes of a fragment and its slot.
LEMMA AddsOthers ==
  ASSUME Inv, NEW f \in net, Adds(f), NEW d \in 1..Len(sent), d # f.d,
         delivered \subseteq delivered', spoiled \subseteq spoiled', d \notin spoiled'
  PROVE  (Delivered(d) \/ UnderWay(d))'
<1>1. /\ UNCHANGED sent /\ net' \subseteq net /\ f.fragment
      /\ \A g \in net : g.d = d => g \in net'
  BY DEF Adds
<1>2. ASSUME NEW i \in Nat, NEW k \in SlotKeys, InSlot(i, d, k)
      PROVE  InSlot(i, d, k)'
  <2>1. k # KeyOf(f)
    BY <1>1, <1>2, SlotIsMine
  <2>2. slots'[k] = slots[k]
    BY <2>1, SetSlotFacts DEF Adds, Inv, Types
  <2> QED
    BY <1>2, <2>2 DEF InSlot
<1> QED
  BY <1>1, <1>2, OthersStay

LEMMA AddRefusedInv ==
  ASSUME Inv, NEW f \in net, AddNoRoom(f) \/ AddDropsSlot(f)
  PROVE  Inv'
<1>1. /\ UNCHANGED delivered
      /\ spoiled' = spoiled \cup {f.d} \cup Owners(slots[KeyOf(f)])
  BY DEF AddNoRoom, AddDropsSlot
<1>2. ASSUME NEW d \in 1..Len(sent), d \notin spoiled'
      PROVE  (Delivered(d) \/ UnderWay(d))'
  BY <1>1, <1>2, AddsFacts, AddsOthers
<1> QED
  BY <1>2, AddsInv

LEMMA AddCompletesInv ==
  ASSUME Inv, NEW f \in net, AddCompletes(f)
  PROVE  Inv'
<1> DEFINE r == [flow |-> f.flow, pieces |-> Filled(f).got, bytes |-> Filled(f).bytes]
<1>1. delivered' = delivered \cup {r} /\ spoiled \subseteq spoiled'
  BY DEF AddCompletes, Arrives
<1>2. \A p \in r.pieces : p[2] = f.d
  BY CompleteFacts
<1> HIDE DEF r
<1>3. Delivered(f.d)'
  BY <1>1, <1>2 DEF Delivered
<1>4. ASSUME NEW d \in 1..Len(sent), d # f.d, d \notin spoiled'
      PROVE  (Delivered(d) \/ UnderWay(d))'
  BY <1>1, <1>4, AddsFacts, AddsOthers
<1>5. \A d \in 1..Len(sent) : d \in spoiled' \/ (Delivered(d) \/ UnderWay(d))'
  BY <1>3, <1>4
<1> QED
  BY <1>5, AddsInv

\* The piece leaves the network for its slot, and those before it are still there.
LEMMA AddStoresMoves ==
  ASSUME Inv, NEW f \in net, AddStores(f), f.d \notin spoiled'
  PROVE  (Delivered(f.d) \/ UnderWay(f.d))'
<1> DEFINE d == f.d
           k == KeyOf(f)
<1>1. /\ UNCHANGED <<sent, delivered>> /\ f.fragment /\ ~Repeated(f) /\ SetSlot(f, Filled(f))
      /\ net' = net \ {f} /\ spoiled' = spoiled
  BY DEF AddStores, Arrives
<1>2. /\ d \in 1..Len(sent) /\ f.flow = FlowOf(d) /\ Cut(d) /\ k \in SlotKeys
  BY <1>1, FragmentFacts DEF Inv, Types, FrameOK
<1>3. CASE Delivered(d)
  BY <1>1, <1>3 DEF Delivered
<1>4. CASE UnderWay(d)
  <2>1. PICK id \in 0..(FragIDs - 1) : Covered(d, id)
    BY <1>2, <1>4 DEF UnderWay
  <2>2. f.fragID = id /\ k = <<FlowOf(d), id>>
    BY <1>2, <2>1 DEF Covered, KeyOf
  <2>3. slots'[k] = Filled(f)
    BY <1>1, <1>2, SetSlotFacts DEF Inv, Types
  <2>4. ~Filled(f).expired /\ Filled(f).got = Slot(f).got \cup {<<f.idx, d>>}
    BY <1>1, FillFacts
  <2>5. slots[k].expired \/ Slot(f).got = slots[k].got
    BY <1>1, SlotFacts
  <2>6. ASSUME NEW i, InSlot(i, d, k) \/ i = f.idx
        PROVE  InSlot(i, d, k)'
    BY <2>3, <2>4, <2>5, <2>6 DEF InSlot
  <2>7. ASSUME NEW i, OnItsWay(i, d), i # f.idx
        PROVE  OnItsWay(i, d)'
    BY <1>1, <2>7 DEF OnItsWay
  <2>8. Size(d)' = Size(d) /\ FlowOf(d)' = FlowOf(d) /\ (Cut(d)' <=> Cut(d))
    BY <1>1 DEF Size, FlowOf, Cut
  <2>9. ASSUME NEW i \in 0..(FragCnt(Size(d)) - 1)
        PROVE  OnItsWay(i, d)' \/ InSlot(i, d, k)'
    BY <2>1, <2>2, <2>6, <2>7 DEF Covered
  <2>10. \A g \in net' : g.d = d => g.fragID = id
    BY <1>1, <2>1 DEF Covered
  <2>11. Covered(d, id)'
    BY <2>2, <2>8, <2>9, <2>10 DEF Covered
  <2> QED
    BY <1>2, <2>8, <2>11 DEF UnderWay
<1> QED
  BY <1>1, <1>2, <1>3, <1>4 DEF Inv, Accounted

LEMMA AddStoresInv ==
  ASSUME Inv, NEW f \in net, AddStores(f)
  PROVE  Inv'
<1>1. UNCHANGED delivered /\ spoiled \subseteq spoiled'
  BY DEF AddStores, Arrives
<1>2. ASSUME NEW d \in 1..Len(sent), d # f.d, d \notin spoiled'
      PROVE  (Delivered(d) \/ UnderWay(d))'
  BY <1>1, <1>2, AddsFacts, AddsOthers
<1>3. \A d \in 1..Len(sent) : d \in spoiled' \/ (Delivered(d) \/ UnderWay(d))'
  BY <1>2, AddStoresMoves
<1> QED
  BY <1>3, AddsInv

-----------------------------------------------------------------------------
(* Time *)

LEMMA TimeoutInv ==
  ASSUME Inv, NEW k \in SlotKeys, Timeout(k)
  PROVE  Inv'
<1>1. /\ UNCHANGED <<nextFragID, sent, net, delivered>>
      /\ spoiled' = spoiled \cup Owners(slots[k])
  BY DEF Timeout
<1>2. slots \in [SlotKeys -> SlotType] /\ SlotTyped(slots[k]) /\ slots[k] \in SlotType
  BY DEF Inv, Types
<1> DEFINE s == [slots[k] EXCEPT !.expired = TRUE]
<1>3. /\ s \in SlotType /\ s.got = slots[k].got /\ s.count = slots[k].count
      /\ s.bytes = slots[k].bytes
  BY <1>2 DEF SlotType
<1>4. s.expired
  BY <1>2 DEF SlotType
<1>5. SlotTyped(s)
  BY <1>2, <1>3 DEF SlotTyped
<1>6. slots' = [slots EXCEPT ![k] = s]
  BY DEF Timeout
<1> HIDE DEF s
<1>7. slots'[k] = s /\ \A o \in SlotKeys : o # k => slots'[o] = slots[o]
  BY <1>2, <1>6
<1>8. slots' \in [SlotKeys -> SlotType] /\ \A o \in SlotKeys : SlotTyped(slots'[o])
  BY <1>2, <1>3, <1>5, <1>6, <1>7 DEF Inv, Types
<1>9. spoiled' \subseteq Ids
  BY <1>1, <1>2 DEF Inv, Types, Owners, SlotType
<1>10. Types' /\ KeysApart'
  BY <1>1, <1>8, <1>9, NetShrinks
<1>11. ClaimsFit'
  BY <1>1, <1>4, <1>7, ClaimsStay DEF InUse
<1>12. Accounted'
  <2>1. ASSUME NEW d \in 1..Len(sent), d \notin spoiled'
        PROVE  (Delivered(d) \/ UnderWay(d))'
    <3>1. ASSUME NEW i \in Nat, NEW o \in SlotKeys, InSlot(i, d, o)
          PROVE  InSlot(i, d, o)'
      <4>1. o # k
        BY <1>1, <2>1, <3>1 DEF InSlot, Owners
      <4> QED
        BY <1>7, <3>1, <4>1 DEF InSlot
    <3> QED
      BY <1>1, <2>1, <3>1, OthersStay
  <2> QED
    BY <1>1, <2>1 DEF Accounted
<1>13. Integrity' /\ Bounded'
  BY <1>1, IntegrityStays, BoundedNext DEF Next
<1> QED
  BY <1>10, <1>11, <1>12, <1>13 DEF Inv

LEMMA SweepInv ==
  ASSUME Inv, Sweep
  PROVE  Inv'
<1>1. /\ UNCHANGED <<nextFragID, sent, net, delivered, spoiled>>
      /\ slots' = [k \in SlotKeys |-> IF slots[k].expired THEN NoSlot ELSE slots[k]]
  BY DEF Sweep
<1>2. slots' \in [SlotKeys -> SlotType] /\ \A k \in SlotKeys : SlotTyped(slots'[k])
  BY <1>1, NoSlotFacts DEF Inv, Types
<1>3. Types' /\ KeysApart'
  BY <1>1, <1>2, NetShrinks DEF Inv, Types
<1>4. ClaimsFit'
  BY <1>1, ClaimsStay DEF InUse
<1>5. Accounted'
  <2>1. \A d, i, k : k \in SlotKeys /\ InSlot(i, d, k) => InSlot(i, d, k)'
    BY <1>1 DEF InSlot
  <2> QED
    BY <1>1, <2>1, OthersStay DEF Accounted
<1>6. Integrity' /\ Bounded'
  BY <1>1, IntegrityStays, BoundedNext DEF Next
<1> QED
  BY <1>3, <1>4, <1>5, <1>6 DEF Inv

-----------------------------------------------------------------------------
(* writeDatagram *)

LEMMA AcceptFacts ==
  ASSUME Inv, NEW flow \in Flows, NEW size \in Sizes, Accept(flow, size),
         NEW new, new = Len(sent) + 1
  PROVE  /\ sent' \in Seq([flow: Flows, size: Sizes])
         /\ Len(sent) \in Nat /\ Len(sent') = new /\ new <= MaxSent /\ new \in Ids
         /\ size \in Nat /\ size <= MaxDatagram
         /\ Size(new)' = size /\ FlowOf(new)' = flow
         /\ \A d \in 1..Len(sent) : Size(d)' = Size(d) /\ FlowOf(d)' = FlowOf(d)
<1> DEFINE m == [flow |-> flow, size |-> size]
<1>1. sent \in Seq([flow: Flows, size: Sizes]) /\ m \in [flow: Flows, size: Sizes]
  BY DEF Inv, Types
<1>2. sent' = Append(sent, m) /\ Len(sent) < MaxSent /\ size <= MaxDatagram
  BY DEF Accept
<1>3. m.flow = flow /\ m.size = size
  OBVIOUS
<1> HIDE DEF m
<1>4. /\ sent' \in Seq([flow: Flows, size: Sizes]) /\ Len(sent') = Len(sent) + 1
      /\ Len(sent) \in Nat /\ sent'[new] = m
      /\ \A d \in 1..Len(sent) : sent'[d] = sent[d]
  BY <1>1, <1>2, AppendProperties
<1> QED
  BY <1>2, <1>3, <1>4, ReassemblyAssumption DEF Size, FlowOf, Ids

\* A new datagram under a frag_id that nobody uses.
LEMMA AcceptInv ==
  ASSUME Inv, NEW flow \in Flows, NEW size \in Sizes, Accept(flow, size),
         NEW new, new = Len(sent) + 1,
         UNCHANGED <<slots, delivered>>,
         nextFragID' \in 0..(FragIDs - 1),
         net \subseteq net',
         \A g \in net' : g \notin net =>
           /\ g.d = new /\ FrameOK(g)'
           /\ g.fragment => ~InUse(slots[KeyOf(g)]),
         KeysApart',
         spoiled \subseteq spoiled', spoiled' \subseteq Ids,
         new \in spoiled' \/ UnderWay(new)'
  PROVE  Inv'
<1>1. /\ sent' \in Seq([flow: Flows, size: Sizes])
      /\ Len(sent) \in Nat /\ Len(sent') = new /\ new <= MaxSent
      /\ \A d \in 1..Len(sent) :
           /\ Size(d)' = Size(d) /\ FlowOf(d)' = FlowOf(d) /\ (Cut(d)' <=> Cut(d))
  BY AcceptFacts DEF Cut
<1>2. Size(new)' = size /\ size <= MaxDatagram
  BY AcceptFacts
<1>3. Types'
  <2>1. \A f \in net' : FrameOK(f)'
    BY <1>1 DEF Inv, Types, FrameOK
  <2>2. \A d \in 1..Len(sent') : Size(d)' <= MaxDatagram
    <3>1. ASSUME NEW d \in 1..Len(sent')
          PROVE  d \in 1..Len(sent) \/ d = new
      BY <1>1
    <3> QED
      BY <1>1, <1>2, <3>1 DEF Inv, Types
  <2> QED
    BY <1>1, <2>1, <2>2 DEF Inv, Types, SlotTyped
<1>4. ClaimsFit'
  <2>1. SUFFICES ASSUME NEW k \in SlotKeys, InUse(slots[k])
                 PROVE  /\ slots[k].count < slots[k].cnt
                        /\ \A d \in Claimants(k)' :
                             d \in 1..Len(sent') /\ Cut(d)' /\ Holds(slots[k], d)'
    BY DEF ClaimsFit, InUse
  <2>2. Claimants(k)' \subseteq Claimants(k)
    BY <2>1 DEF Claimants, KeyOf, Owners
  <2>3. \A d \in Claimants(k) : d \in 1..Len(sent) /\ Cut(d) /\ Holds(slots[k], d)
    BY <2>1 DEF Inv, ClaimsFit, InUse
  <2>4. \A d \in Claimants(k) : Holds(slots[k], d)'
    BY <1>1, <2>3 DEF Holds, Weight, Padding
  <2> QED
    BY <1>1, <2>1, <2>2, <2>3, <2>4 DEF Inv, ClaimsFit, InUse
<1>5. Integrity'
  BY <1>1 DEF Inv, Integrity, Size, FlowOf
<1>6. Bounded'
  BY BoundedShrinks DEF Inv, Occupied
<1>7. ASSUME NEW d \in 1..Len(sent), d \notin spoiled'
      PROVE  (Delivered(d) \/ UnderWay(d))'
  <2>1. Delivered(d) \/ UnderWay(d)
    BY <1>7 DEF Inv, Accounted
  <2>2. \A g \in net' : g.d = d => g \in net
    BY <1>1
  <2>3. \A i, k : (OnItsWay(i, d) => OnItsWay(i, d)') /\ (InSlot(i, d, k) => InSlot(i, d, k)')
    BY DEF OnItsWay, InSlot
  <2>4. \A id : Covered(d, id) => Covered(d, id)'
    BY <1>1, <2>2, <2>3 DEF Covered
  <2> QED
    BY <1>1, <2>1, <2>3, <2>4 DEF Delivered, UnderWay
<1>8. Accounted'
  BY <1>1, <1>7 DEF Accounted
<1> QED
  BY <1>3, <1>4, <1>5, <1>6, <1>8 DEF Inv

LEMMA SendWholeInv ==
  ASSUME Inv, NEW flow \in Flows, NEW size \in Sizes, SendWhole(flow, size)
  PROVE  Inv'
<1>1. PICK new : new = Len(sent) + 1
  OBVIOUS
<1> DEFINE g == [d |-> new, flow |-> flow, fragment |-> FALSE,
                 fragID |-> 0, idx |-> 0, cnt |-> 1, len |-> size]
<1>2. /\ Accept(flow, size) /\ size <= FragPayloadMax /\ net' = net \cup {g}
      /\ UNCHANGED <<nextFragID, slots, delivered, spoiled>>
  BY <1>1 DEF SendWhole
<1>3. /\ Len(sent) \in Nat /\ Len(sent') = new /\ size \in Nat
      /\ Size(new)' = size /\ FlowOf(new)' = flow
  BY <1>1, <1>2, AcceptFacts
<1>4. /\ g.d = new /\ g.flow = flow /\ g.fragID = 0 /\ g.idx = 0 /\ g.cnt = 1
      /\ g.len = size
  OBVIOUS
<1>5. ~g.fragment
  OBVIOUS
<1> HIDE DEF g
<1>6. ~Cut(new)'
  BY <1>2, <1>3, ReassemblyAssumption DEF Cut
<1>7. new \in 1..Len(sent')
  BY <1>1, <1>3
<1>8. FrameOK(g)'
  BY <1>3, <1>4, <1>5, <1>6, <1>7, ReassemblyAssumption DEF FrameOK
<1>9. KeysApart'
  <2>1. \A f \in net : f.d # new
    BY <1>1, <1>3, FragmentFacts DEF Inv
  <2> QED
    BY <1>2, <1>4, <1>5, <2>1 DEF Inv, KeysApart, KeyOf
<1>10. UnderWay(new)'
  BY <1>2, <1>4, <1>6 DEF UnderWay, OnItsWay
<1> QED
  BY <1>1, <1>2, <1>4, <1>5, <1>8, <1>9, <1>10, AcceptInv DEF Inv, Types

LEMMA SendFragmentsInv ==
  ASSUME Inv, NEW flow \in Flows, NEW size \in Sizes, SendFragments(flow, size)
  PROVE  Inv'
<1>1. PICK new, id : new = Len(sent) + 1 /\ id = NextFragID
  OBVIOUS
<1> DEFINE n == FragCnt(size)
           F(i) == [d |-> new, flow |-> flow, fragment |-> TRUE,
                    fragID |-> id, idx |-> i, cnt |-> n, len |-> FragLen(size, i)]
<1>2. /\ Accept(flow, size) /\ size > FragPayloadMax /\ n <= MaxFrags
      /\ FragIDRetired(flow, id) /\ nextFragID' = id
      /\ net' = net \cup {F(i) : i \in 0..(n - 1)}
      /\ UNCHANGED <<slots, delivered, spoiled>>
  BY <1>1 DEF SendFragments
<1>3. /\ Len(sent) \in Nat /\ Len(sent') = new /\ size \in Nat
      /\ Size(new)' = size /\ FlowOf(new)' = flow
  BY <1>1, <1>2, AcceptFacts
<1>4. id \in 0..(FragIDs - 1)
  BY <1>1, ReassemblyAssumption DEF NextFragID, Inv, Types
<1>5. \A i : /\ F(i).d = new /\ F(i).flow = flow /\ F(i).fragID = id /\ F(i).idx = i
             /\ F(i).cnt = n /\ F(i).len = FragLen(size, i)
  OBVIOUS
<1>6. \A i : F(i).fragment
  OBVIOUS
<1>7. \A g \in net' : g \in net \/ \E i \in 0..(n - 1) : g = F(i)
  BY <1>2
<1>8. \A i \in 0..(n - 1) : F(i) \in net'
  BY <1>2
<1> HIDE DEF F
<1>9. Cut(new)' /\ new \in 1..Len(sent')
  BY <1>1, <1>2, <1>3 DEF Cut
<1>10. \A i \in 0..(n - 1) : FrameOK(F(i))'
  BY <1>2, <1>3, <1>4, <1>5, <1>6, <1>9 DEF FrameOK
<1>11. \A f \in net : f.d # new /\ KeyOf(f) # <<flow, id>>
  <2>1. \A f \in net : f.d # new
    BY <1>1, <1>3, FragmentFacts DEF Inv
  <2>2. \A f \in net : KeyOf(f) # <<flow, id>>
    BY <1>2 DEF FragIDRetired, KeyOf
  <2> QED
    BY <2>1, <2>2
<1>12. KeysApart'
  BY <1>5, <1>7, <1>11 DEF Inv, KeysApart, KeyOf
<1>13. ~InUse(slots[<<flow, id>>])
  BY <1>2 DEF FragIDRetired, InUse
<1>14. UnderWay(new)'
  <2>1. \A i \in 0..(n - 1) : OnItsWay(i, new)'
    BY <1>5, <1>8 DEF OnItsWay
  <2>2. \A g \in net' : g.d = new => g.fragID = id
    BY <1>5, <1>7, <1>11
  <2>3. Covered(new, id)'
    BY <1>3, <2>1, <2>2 DEF Covered
  <2> QED
    BY <1>4, <1>9, <2>3 DEF UnderWay
<1>15. \A g \in net' : g \notin net =>
         g.d = new /\ FrameOK(g)' /\ (g.fragment => ~InUse(slots[KeyOf(g)]))
  BY <1>5, <1>7, <1>10, <1>13 DEF KeyOf
<1>16. net \subseteq net' /\ spoiled' = spoiled /\ spoiled \subseteq Ids
  BY <1>2 DEF Inv, Types
<1> HIDE DEF n
<1> QED
  BY <1>1, <1>2, <1>4, <1>12, <1>14, <1>15, <1>16, AcceptInv

LEMMA DropUncountableInv ==
  ASSUME Inv, NEW flow \in Flows, NEW size \in Sizes, DropUncountable(flow, size)
  PROVE  Inv'
<1>1. PICK new : new = Len(sent) + 1
  OBVIOUS
<1>2. /\ Accept(flow, size) /\ spoiled' = spoiled \cup {new}
      /\ UNCHANGED <<nextFragID, net, slots, delivered>>
  BY <1>1 DEF DropUncountable
<1>3. new \in Ids
  BY <1>1, <1>2, AcceptFacts
<1>4. KeysApart'
  BY <1>2 DEF Inv, KeysApart, KeyOf
<1> QED
  BY <1>1, <1>2, <1>3, <1>4, AcceptInv DEF Inv, Types

-----------------------------------------------------------------------------
(* Results *)

LEMMA InvInit == Init => Inv
<1> SUFFICES ASSUME Init PROVE Inv
  OBVIOUS
<1>1. sent = <<>> /\ sent \in Seq([flow: Flows, size: Sizes]) /\ Len(sent) = 0
  BY DEF Init
<1>2. slots \in [SlotKeys -> SlotType] /\ \A k \in SlotKeys : SlotTyped(slots[k])
  BY NoSlotFacts DEF Init
<1>3. Types
  BY <1>1, <1>2, ReassemblyAssumption DEF Init, Types
<1>4. Occupied = {}
  BY DEF Init, Occupied
<1>5. Bounded
  BY <1>4, FS_EmptySet, ReassemblyAssumption DEF Bounded
<1>6. KeysApart /\ ClaimsFit /\ Integrity /\ Accounted
  BY <1>1 DEF Init, KeysApart, ClaimsFit, Integrity, Accounted
<1> QED
  BY <1>3, <1>5, <1>6 DEF Inv

LEMMA InvNext == ASSUME Inv, [Next]_vars PROVE Inv'
<1>1. ASSUME NEW flow \in Flows, NEW size \in Sizes, Send(flow, size) PROVE Inv'
  BY <1>1, SendWholeInv, SendFragmentsInv, DropUncountableInv DEF Send
<1>2. ASSUME NEW f \in net, Lose(f) PROVE Inv'
  BY <1>2, LoseInv
<1>3. ASSUME NEW f \in net, Receive(f) PROVE Inv'
  BY <1>3, DeliverWholeInv, AddRefusedInv, AddStoresInv, AddCompletesInv DEF Receive
<1>4. ASSUME NEW k \in SlotKeys, Timeout(k) PROVE Inv'
  BY <1>4, TimeoutInv
<1>5. CASE Sweep
  BY <1>5, SweepInv
<1>6. CASE UNCHANGED vars
  <2>1. UNCHANGED <<nextFragID, sent, net, slots, delivered, spoiled>>
    BY <1>6 DEF vars
  <2>2. Types' /\ KeysApart'
    BY <2>1, NetShrinks DEF Inv, Types
  <2>3. ClaimsFit' /\ Integrity' /\ Bounded'
    BY <2>1, ClaimsStay, IntegrityStays, BoundedNext
  <2>4. Accounted'
    BY <2>1, OthersStay DEF Accounted, InSlot
  <2> QED
    BY <2>2, <2>3, <2>4 DEF Inv
<1> QED
  BY <1>1, <1>2, <1>3, <1>4, <1>5, <1>6 DEF Next

LEMMA InvAlways == Spec => []Inv
<1>1. Inv /\ [Next]_vars => Inv'
  BY InvNext
<1> QED
  BY InvInit, <1>1, PTL DEF Spec

\* udpReassembler.add never holds more slots than udpMaxReassembliesPerFlow,
\* whatever arrives and however many of them timed out (udp_datagram.go).
THEOREM SlotsStayBounded == Spec => []SlotsBounded
<1>1. Inv => SlotsBounded
  BY DEF Inv, Bounded, SlotsBounded
<1> QED
  BY InvAlways, <1>1, PTL

\* What the reassembler hands to a flow is one datagram of that flow with its full
\* length, for every fragment size, as long as a frag_id comes round only after its
\* frames and its slot are gone.
THEOREM DatagramsStayWhole == Spec => []Integrity
<1>1. Inv => Integrity
  BY DEF Inv
<1> QED
  BY InvAlways, <1>1, PTL

\* A slot in use is short of a piece, so pieces that are all in it were delivered.
LEMMA NothingLost == Inv => NoNeedlessLoss
<1> SUFFICES ASSUME Inv, NEW d \in 1..Len(sent), d \notin spoiled, \A f \in net : f.d # d,
                    ~Delivered(d)
             PROVE  FALSE
  BY DEF NoNeedlessLoss, Delivered
<1>1. UnderWay(d) /\ \A i : ~OnItsWay(i, d)
  BY DEF Inv, Accounted, OnItsWay
<1>2. Cut(d)
  BY <1>1 DEF UnderWay
<1>3. PICK id \in 0..(FragIDs - 1) : Covered(d, id)
  BY <1>1, <1>2 DEF UnderWay
<1> DEFINE n == FragCnt(Size(d))
           k == <<FlowOf(d), id>>
           s == slots[k]
<1>4. \A i \in 0..(n - 1) : InSlot(i, d, k)
  BY <1>1, <1>3 DEF Covered
<1>5. n \in Nat /\ n > 0 /\ k \in SlotKeys
  <2>1. Size(d) \in Nat /\ FlowOf(d) \in Flows /\ Size(d) > 0
    BY <1>2, SizeFacts, ReassemblyAssumption DEF Inv, Cut
  <2>2. n = 0 => n * FragPayloadMax = 0
    BY ReassemblyAssumption
  <2>3. n \in Nat /\ Size(d) <= n * FragPayloadMax
    BY <2>1, FragCntBounds
  <2> QED
    BY <2>1, <2>2, <2>3 DEF SlotKeys
<1>6. ~s.expired /\ <<0, d>> \in s.got /\ \A i \in 0..(n - 1) : <<i, d>> \in s.got
  BY <1>4, <1>5 DEF InSlot
<1>7. s # NoSlot /\ d \in Claimants(k)
  BY <1>6, NoSlotFacts DEF Claimants, Owners
<1>8. s.count < s.cnt /\ Holds(s, d)
  BY <1>5, <1>6, <1>7 DEF Inv, ClaimsFit
<1>9. s.cnt = n /\ s.got \subseteq (0..(n - 1)) \X {d} /\ s.count = Cardinality(s.got)
  BY <1>5, <1>8 DEF Holds, Inv, Types, SlotTyped
<1>10. Cardinality(s.got) = n
  <2> DEFINE got == s.got
  <2> HIDE DEF n, got
  <2>1. n \in Nat /\ got \subseteq (0..(n - 1)) \X {d}
    BY <1>5, <1>9 DEF got
  <2>2. \A i \in 0..(n - 1) : <<i, d>> \in got
    BY <1>6 DEF got
  <2>3. Cardinality(got) = n
    BY <2>1, <2>2, AllPieces
  <2> QED
    BY <2>3 DEF got
<1> QED
  BY <1>5, <1>8, <1>9, <1>10

\* The byte limit never drops the slot of a datagram this program cut.
LEMMA ByteLimitIsFar ==
  ASSUME Inv, NEW f \in net, f.fragment, ~Repeated(f)
  PROVE  Filled(f).bytes <= MaxDatagram
<1> DEFINE s == Filled(f)
           d == f.d
           n == FragCnt(Size(d))
           P == FragPayloadMax
           last == <<n - 1, d>>
<1>1. /\ s \in SlotType /\ s.count = Cardinality(s.got) /\ Holds(s, d)
      /\ d \in 1..Len(sent) /\ Size(d) \in Nat
  BY FillFacts, FragmentFacts DEF Inv
<1>2. s.cnt = n /\ s.got \subseteq (0..(n - 1)) \X {d} /\ s.count \in Nat
  BY <1>1 DEF Holds, SlotType
<1>3. n \in Nat /\ (n - 1) * P < Size(d) /\ P \in Nat
  BY <1>1, FragCntBounds, ReassemblyAssumption
<1>4. s.count <= n /\ (s.count = n => \A i \in 0..(n - 1) : <<i, d>> \in s.got)
  <2> DEFINE got == s.got
  <2> HIDE DEF n, got
  <2>1. /\ Cardinality(got) <= n
        /\ Cardinality(got) = n => \A i \in 0..(n - 1) : <<i, d>> \in got
    BY <1>2, <1>3, AllPieces DEF got
  <2> QED
    BY <1>1, <2>1 DEF got
<1>5. s.bytes = s.count * P - (IF last \in s.got THEN n * P - Size(d) ELSE 0)
  BY <1>1, <1>2 DEF Holds, Weight, Padding
<1>6. Size(d) <= MaxDatagram /\ MaxDatagram \in Nat
  BY <1>1, ReassemblyAssumption DEF Inv, Types
<1>7. /\ s.count * P \in Int /\ n * P \in Int /\ (n - 1) * P \in Int
  BY <1>2, <1>3, Times
<1>8. CASE last \in s.got
  <2>1. s.count * P <= n * P
    BY <1>2, <1>3, <1>4, TimesGrows
  <2> HIDE DEF s, n
  <2> QED
    BY <1>1, <1>5, <1>6, <1>7, <1>8, <2>1 DEF s
<1>9. CASE last \notin s.got
  <2>1. s.count < n \/ n = 0
    <3>1. n # 0 => n - 1 \in 0..(n - 1)
      BY <1>3
    <3>2. s.count = n /\ n # 0 => last \in s.got
      BY <1>4, <3>1
    <3> QED
      BY <1>2, <1>3, <1>4, <1>9, <3>2
  <2>2. CASE n = 0
    <3>1. s.count = 0 /\ 0 * P = 0
      BY <1>2, <1>3, <1>4, <2>2
    <3> HIDE DEF s, n
    <3> QED
      BY <1>5, <1>6, <1>9, <3>1 DEF s
  <2>3. CASE s.count < n
    <3>1. s.count * P <= (n - 1) * P
      <4>1. n - 1 \in Nat /\ s.count <= n - 1
        BY <1>2, <1>3, <2>3
      <4> QED
        BY <1>2, <1>3, <4>1, TimesGrows
    <3> HIDE DEF s, n
    <3> QED
      BY <1>1, <1>3, <1>5, <1>6, <1>7, <1>9, <3>1 DEF s
  <2> QED
    BY <2>1, <2>2, <2>3
<1> QED
  BY <1>8, <1>9

\* A datagram whose frames all arrived, once each, in time and with room for their
\* slot, was delivered: neither the padding of its last fragment nor another
\* datagram's slot costs it, nor (ByteLimitIsFar) the limit on the bytes.
THEOREM OnlyFaultsLose == Spec => []NoNeedlessLoss
BY InvAlways, NothingLost, PTL

\* The types of the frames, the counts and the byte counts of the slots.
THEOREM TypesHold == Spec => []TypeOK
<1>1. ASSUME Inv PROVE TypeOK
  <2>1. /\ nextFragID \in 0..(FragIDs - 1) /\ sent \in Seq([flow: Flows, size: Sizes])
        /\ spoiled \subseteq Ids
    BY <1>1 DEF Inv, Types
  <2>2. ASSUME NEW f \in net
        PROVE  /\ <<f.flow, f.fragID>> \in SlotKeys /\ f.d \in 1..Len(sent)
               /\ f.cnt \in 1..MaxFrags /\ f.idx \in 0..(f.cnt - 1)
               /\ f.len \in 0..FragPayloadMax
    BY <1>1, FragmentFacts DEF Inv, KeyOf
  <2>3. ASSUME NEW k \in SlotKeys
        PROVE  /\ slots[k].expired \in BOOLEAN
               /\ slots[k].count = Cardinality(slots[k].got)
               /\ slots[k].bytes <= MaxDatagram
    BY <1>1 DEF Inv, Types, SlotTyped, SlotType
  <2> QED
    BY <2>1, <2>2, <2>3 DEF TypeOK
<1> QED
  BY InvAlways, <1>1, PTL
=============================================================================
