-------------------------- MODULE ThreadRingProofs --------------------------
(***************************************************************************)
(* Proofs about ThreadRing, for every capacity, every set of frame sizes   *)
(* and every number of events that the assumptions allow.                  *)
(***************************************************************************)
EXTENDS ThreadRing, Integers, TLAPS

-----------------------------------------------------------------------------
(* Arithmetic of offsets.                                                  *)

\* Division with remainder.
LEMMA DivMod ==
  ASSUME NEW p \in Nat
  PROVE  /\ Phys(p) \in 0..(Capacity - 1)
         /\ \E q \in Nat : p = (Capacity * q) + Phys(p)
  <1>1. Phys(p) \in 0..(Capacity - 1)
    BY CapacityAssumption DEF Phys
  <1>2. p = (Capacity * (p \div Capacity)) + Phys(p) /\ p \div Capacity \in Nat
    BY CapacityAssumption DEF Phys
  <1> QED BY <1>1, <1>2

\* A product with a positive factor is no smaller than the other factor.
LEMMA MulGe ==
  ASSUME NEW c \in Nat \ {0}, NEW k \in Int, k >= 1
  PROVE  c * k >= c
  OBVIOUS

\* Quotient and remainder are unique.
LEMMA ModUnique ==
  ASSUME NEW q \in Nat, NEW r \in 0..(Capacity - 1)
  PROVE  Phys((Capacity * q) + r) = r
  BY CapacityAssumption DEF Phys

\* Physical offsets lie in the buffer.
LEMMA PhysRange ==
  ASSUME NEW p \in Nat
  PROVE  /\ Phys(p) \in 0..(Capacity - 1)
         /\ ToEnd(p) \in 1..Capacity
         /\ Boundary(p) \in Nat /\ Boundary(p) > p
  <1>1. Phys(p) \in 0..(Capacity - 1)
    BY CapacityAssumption DEF Phys
  <1> QED BY <1>1, CapacityAssumption DEF ToEnd, Boundary

\* Moving inside the buffer moves the physical offset as far.
LEMMA PhysAdd ==
  ASSUME NEW p \in Nat, NEW i \in Nat, Phys(p) + i < Capacity
  PROVE  Phys(p + i) = Phys(p) + i
  <1>1. PICK q \in Nat : p = (Capacity * q) + Phys(p)
    BY DivMod
  <1>2. Phys(p) \in 0..(Capacity - 1)
    BY DivMod
  <1>3. Phys(p) + i \in 0..(Capacity - 1)
    BY <1>2, CapacityAssumption
  <1>4. Phys((Capacity * q) + (Phys(p) + i)) = Phys(p) + i
    BY <1>3, ModUnique
  <1>5. p + i = (Capacity * q) + (Phys(p) + i)
    BY <1>1, <1>2, CapacityAssumption
  <1> QED BY <1>4, <1>5

\* The boundary is the beginning of the buffer.
LEMMA PhysBoundary ==
  ASSUME NEW p \in Nat
  PROVE  Phys(Boundary(p)) = 0
  <1>1. PICK q \in Nat : p = (Capacity * q) + Phys(p)
    BY DivMod
  <1>2. Phys(p) \in 0..(Capacity - 1)
    BY DivMod
  <1>3. Boundary(p) = (Capacity * (q + 1)) + 0
    BY <1>1, <1>2, CapacityAssumption DEF Boundary, ToEnd
  <1>4. q + 1 \in Nat /\ 0 \in 0..(Capacity - 1)
    BY CapacityAssumption
  <1>5. Phys((Capacity * (q + 1)) + 0) = 0
    BY ONLY <1>4, ModUnique, Zenon
  <1> QED BY <1>3, <1>5

\* Two offsets less than a capacity apart are two bytes.
LEMMA PhysDistinct ==
  ASSUME NEW a \in Nat, NEW b \in Nat, a < b, b - a < Capacity
  PROVE  Phys(a) # Phys(b)
  <1> SUFFICES ASSUME Phys(a) = Phys(b) PROVE FALSE
    OBVIOUS
  <1>1. PICK qa \in Nat : a = (Capacity * qa) + Phys(a)
    BY DivMod
  <1>2. PICK qb \in Nat : b = (Capacity * qb) + Phys(b)
    BY DivMod
  <1>3. Phys(a) \in Nat
    BY DivMod
  <1>4. b - a = Capacity * (qb - qa)
    BY <1>1, <1>2, <1>3, CapacityAssumption
  <1>5. CASE qb - qa >= 1
    <2>1. Capacity * (qb - qa) >= Capacity
      BY <1>5, MulGe, CapacityAssumption
    <2> QED BY <2>1, <1>4, CapacityAssumption
  <1>6. CASE qb - qa <= 0
    <2>1. Capacity * (qb - qa) <= 0
      BY <1>6, CapacityAssumption
    <2> QED BY <2>1, <1>4
  <1> QED BY <1>5, <1>6
-----------------------------------------------------------------------------
(* The inductive invariant.                                                *)

\* What the producer has established by the time it is at each of its steps.
ProducerInv ==
  /\ ppc # "idle" => psize \in PayloadSizes /\ Len(sent) < MaxEvents
  /\ ppc = "publish" =>
       /\ NeedsPad(psize)
       /\ Free(seenTail) >= ToEnd(head) + Need(psize)
       /\ \A i \in Phys(head)..(Capacity - 1) : buf[i] = SkipCell
  /\ ppc \in {"reload", "recheck"} =>
       Phys(head) = 0 /\ Free(seenTail) >= Need(psize)
  /\ ppc \in {"fill", "commit"} =>
       /\ pending = psize
       /\ Phys(head) + psize < Capacity
       /\ Free(seenTail) >= Need(psize)
       /\ buf[Phys(head)] = TagCell
  /\ ppc = "commit" =>
       \A i \in 1..psize : buf[Phys(head) + i] = PayCell(Outgoing, i)

\* The event the consumer is to take next.
Due == sent[Len(received) + 1]

\* What the consumer knows at each of its steps.
ConsumerInv ==
  /\ cpc = "skip" => tail < head /\ buf[Phys(tail)] = SkipCell
  /\ cpc \in {"header", "payload", "consume"} =>
       tail < head /\ buf[Phys(tail)] = TagCell
  /\ cpc \in {"payload", "consume"} => hdr = Due
  /\ cpc = "consume" => got = Due

\* Events are numbered in the order of their commits.
SentNumbered == \A n \in 1..Len(sent) : sent[n].id = n

IInv == TypeOK /\ ProducerInv /\ ConsumerInv /\ SentNumbered /\ StreamParses
-----------------------------------------------------------------------------
(* What is unread stays well-formed while the producer works.              *)

\* Nothing the consumer may read is rewritten.
UnreadSame == \A p \in tail..(head - 1) : buf'[Phys(p)] = buf[Phys(p)]

\* Every payload is at least one byte long and fits twice.
LEMMA Sizes ==
  ASSUME NEW n \in PayloadSizes
  PROVE  /\ n \in Nat /\ n >= 1 /\ n >= HdrSize /\ n <= MaxPayload
         /\ Need(n) \in Nat /\ Need(n) = 1 + n
         /\ (2 * Need(n)) - 1 <= Capacity
  BY PayloadAssumption, RoomAssumption, CapacityAssumption DEF Need

\* The size asked for is a size, or 0 before the first event.
LEMMA PsizeNat ==
  ASSUME TypeOK
  PROVE  psize \in Nat /\ Need(psize) = 1 + psize
  BY PayloadAssumption DEF TypeOK, Need

\* The bytes of a frame, one by one.
LEMMA FrameByte ==
  ASSUME NEW p \in Nat, NEW n \in Nat, Phys(p) + n < Capacity, NEW i \in 0..n
  PROVE  Phys(p) + i = Phys(p + i) /\ Phys(p) + i \in 0..(Capacity - 1)
  <1>1. i \in Nat /\ Phys(p) \in 0..(Capacity - 1)
    BY PhysRange
  <1>2. Phys(p) + i < Capacity
    BY <1>1, CapacityAssumption
  <1> QED BY <1>1, <1>2, PhysAdd, CapacityAssumption

\* A published frame stays what it is.
LEMMA FrameKept ==
  ASSUME TypeOK, TypeOK', UnreadSame, head' >= head,
         NEW p \in tail..(head - 1), FrameAt(p)
  PROVE  FrameAt(p)' /\ buf'[Phys(p) + 1].event = buf[Phys(p) + 1].event
  <1> DEFINE e == buf[Phys(p) + 1].event
  <1>0. /\ head \in Nat /\ tail \in Nat /\ head' \in Nat /\ p \in Nat
        /\ tail <= p
    BY DEF TypeOK
  <1>1. p \in Nat /\ Phys(p) \in 0..(Capacity - 1) /\ DOMAIN buf = 0..(Capacity - 1)
        /\ DOMAIN buf' = 0..(Capacity - 1)
    BY PhysRange DEF TypeOK
  <1>2. /\ buf[Phys(p)] = TagCell
        /\ Phys(p) + ByteAt(Phys(p) + 1).event.size < Capacity
        /\ ByteAt(Phys(p) + 1).event.size \in PayloadSizes
    BY DEF FrameAt
  <1>3. Phys(p) + 1 \in DOMAIN buf
    BY <1>1, <1>2, Sizes, CapacityAssumption
  <1>4. ByteAt(Phys(p) + 1).event = e
    BY <1>3 DEF ByteAt
  <1>5. /\ e.size \in PayloadSizes /\ e.size \in Nat /\ e.size >= 1
        /\ Phys(p) + e.size < Capacity
        /\ p + Need(e.size) <= head /\ Need(e.size) = 1 + e.size
        /\ \A i \in 1..e.size : buf[Phys(p) + i] = PayCell(e, i)
    BY <1>2, <1>4, Sizes DEF FrameAt
  <1> HIDE DEF e
  <1>6. ASSUME NEW i \in 0..e.size PROVE buf'[Phys(p) + i] = buf[Phys(p) + i]
    <2>1. i \in Nat /\ i <= e.size /\ Phys(p) + i < Capacity
      BY <1>1, <1>5, CapacityAssumption
    <2>2. Phys(p) + i = Phys(p + i)
      BY <1>1, <2>1, FrameByte
    <2>3. p + i <= head - 1
      <3>1. PICK k : k = e.size
        OBVIOUS
      <3>2. k \in Nat /\ p + (1 + k) <= head /\ i <= k
        BY <1>5, <2>1, <3>1
      <3> HIDE <3>1
      <3> QED BY <1>0, <2>1, <3>2
    <2>4. p + i \in tail..(head - 1)
      BY <1>0, <2>1, <2>3
    <2> QED BY <2>2, <2>4 DEF UnreadSame
  <1>7. buf'[Phys(p)] = TagCell
    BY <1>6, <1>2, <1>1, <1>5
  <1>8. buf'[Phys(p) + 1].event = e
    BY <1>6, <1>5 DEF e
  <1>9. ByteAt(Phys(p) + 1)'.event = e
    BY <1>8, <1>3, <1>1 DEF ByteAt
  <1>10. \A i \in 1..e.size : buf'[Phys(p) + i] = PayCell(e, i)
    BY <1>6, <1>5
  <1>11. p + Need(e.size) <= head'
    <2>1. p + (1 + e.size) \in Nat /\ p + (1 + e.size) <= head
      BY <1>0, <1>5
    <2>2. p + (1 + e.size) <= head'
      BY <1>0, <2>1
    <2> QED BY <1>5, <2>2
  <1>12. FrameAt(p)'
    <2>1. PICK c : c = e
      OBVIOUS
    <2>2. /\ ByteAt(Phys(p) + 1)'.event = c
          /\ c.size \in PayloadSizes /\ Phys(p) + c.size < Capacity
          /\ p + Need(c.size) <= head'
          /\ \A i \in 1..c.size : buf'[Phys(p) + i] = PayCell(c, i)
      BY <1>5, <1>9, <1>10, <1>11, <2>1
    <2> QED BY <1>7, <2>2, Zenon DEF FrameAt, PayCell
  <1> QED BY <1>12, <1>8 DEF e

\* So does published padding.
LEMMA PaddingKept ==
  ASSUME TypeOK, TypeOK', UnreadSame, head' >= head,
         NEW p \in tail..(head - 1), PaddingAt(p)
  PROVE  PaddingAt(p)'
  <1>1. p \in Nat /\ Phys(p) \in 0..(Capacity - 1) /\ Boundary(p) = p + (Capacity - Phys(p))
    BY PhysRange DEF TypeOK, Boundary, ToEnd
  <1>2. Boundary(p) <= head'
    BY <1>1, CapacityAssumption DEF PaddingAt, TypeOK
  <1>3. ASSUME NEW i \in Phys(p)..(Capacity - 1) PROVE buf'[i] = SkipCell
    <2>1. i - Phys(p) \in Nat /\ Phys(p) + (i - Phys(p)) = i /\ i < Capacity
      BY <1>1, CapacityAssumption
    <2>2. Phys(p + (i - Phys(p))) = i
      BY <2>1, <1>1, PhysAdd
    <2>3. Boundary(p) <= head /\ head \in Nat /\ tail \in Nat /\ p >= tail
      BY DEF PaddingAt, TypeOK
    <2>4. p + (i - Phys(p)) \in tail..(head - 1)
      BY <2>1, <2>3, <1>1, CapacityAssumption
    <2> QED BY <2>2, <2>4 DEF UnreadSame, PaddingAt
  <1> QED BY <1>2, <1>3 DEF PaddingAt

\* What the producer may do to the published bytes in one step: nothing,
\* publish padding, or publish one frame.
SameEnd   == head' = head /\ sent' = sent
PadEnd    == /\ head' = Boundary(head) /\ sent' = sent
             /\ Phys(head) # 0
             /\ \A i \in Phys(head)..(Capacity - 1) : buf'[i] = SkipCell
CommitEnd == \E h \in Nat :
               /\ h = head /\ head' = h + Need(psize)
               /\ FrameAt(h)' /\ buf'[Phys(h) + 1].event = Outgoing
               /\ sent' = Append(sent, Outgoing)

\* What an offset leads to stays what it is, and an offset that led to the
\* end leads to the new frame, if one is published.
LEMMA ExpectsKept ==
  ASSUME TypeOK, TypeOK', UnreadSame, SameEnd \/ PadEnd \/ CommitEnd,
         NEW p \in tail..head, NEW n \in Nat,
         p < head => (buf[Phys(p)] = SkipCell => PaddingAt(p)),
         Expects(p, n)
  PROVE  Expects(p, n)'
  <1>1. /\ p \in Nat /\ head \in Nat /\ head' \in Nat /\ tail \in Nat
        /\ sent \in Seq(Event)
    BY DEF TypeOK
  <1>2. head' >= head
    <2>1. CASE SameEnd BY <2>1, <1>1 DEF SameEnd
    <2>2. CASE PadEnd BY <2>2, <1>1, PhysRange DEF PadEnd
    <2>3. CASE CommitEnd
      <3>1. psize \in Nat BY PsizeNat
      <3> QED BY <2>3, <3>1, <1>1 DEF CommitEnd, Need
    <2> QED BY <2>1, <2>2, <2>3
  <1>3. Len(sent) <= Len(sent') /\ \A m \in 1..Len(sent) : sent'[m] = sent[m]
    BY <1>1 DEF SameEnd, PadEnd, CommitEnd
  <1>5. NextFrame(p) \in Nat /\ NextFrame(p) >= p
    BY <1>1, PhysRange DEF NextFrame
  <1>q. PICK q \in Nat : q = NextFrame(p)
    BY <1>5
  <1>4. \/ q = head /\ Len(sent) = n - 1
        \/ /\ q < head /\ FrameAt(q) /\ n \in 1..Len(sent)
           /\ buf[Phys(q) + 1].event = sent[n]
    BY <1>q DEF Expects
  <1>6. p < head => NextFrame(p)' = q
    <2> SUFFICES ASSUME p < head PROVE NextFrame(p)' = q
      OBVIOUS
    <2>1. buf'[Phys(p)] = buf[Phys(p)] /\ p < head'
      BY <1>1, <1>2 DEF UnreadSame
    <2> QED BY <2>1, <1>q DEF NextFrame
  <1>7. CASE q < head
    <2>1. q \in tail..(head - 1) /\ p < head /\ q # head
      BY <1>1, <1>5, <1>7, <1>q
    <2>2. FrameAt(q)' /\ buf'[Phys(q) + 1].event = buf[Phys(q) + 1].event
      BY <2>1, <1>2, <1>4, FrameKept
    <2>3. n \in 1..Len(sent') /\ buf'[Phys(q) + 1].event = sent'[n]
      BY <2>1, <2>2, <1>3, <1>4, <1>1
    <2>4. q < head' /\ q # head'
      BY <2>1, <1>7, <1>1, <1>2
    <2> QED BY <2>1, <2>2, <2>3, <2>4, <1>6 DEF Expects
  <1>8. CASE q = head /\ p < head
    <2>1. Phys(head) = 0 /\ NextFrame(p)' = q /\ Len(sent) = n - 1
      BY <1>8, <1>4, <1>6, <1>1, <1>q, PhysBoundary DEF NextFrame
    <2>2. CASE SameEnd
      BY <2>1, <2>2, <1>8 DEF SameEnd, Expects
    <2>3. CASE PadEnd
      BY <2>1, <2>3 DEF PadEnd
    <2>4. CASE CommitEnd
      <3>0. PICK h \in Nat : /\ h = head /\ head' = h + Need(psize)
                             /\ FrameAt(h)' /\ buf'[Phys(h) + 1].event = Outgoing
                             /\ sent' = Append(sent, Outgoing)
        BY <2>4 DEF CommitEnd
      <3>1. psize \in Nat BY PsizeNat
      <3>2. h < head' /\ n = Len(sent') /\ n \in 1..Len(sent') /\ sent'[n] = Outgoing
        BY <2>1, <3>0, <3>1, <1>1 DEF Need
      <3>3. q = h
        BY <3>0, <1>8
      <3> QED BY <3>0, <3>2, <3>3, <2>1 DEF Expects
    <2> QED BY <2>2, <2>3, <2>4
  <1>9. CASE q = head /\ ~(p < head)
    <2>1. p = head /\ Len(sent) = n - 1
      BY <1>9, <1>4, <1>1
    <2>2. CASE SameEnd
      BY <2>1, <2>2, <1>1 DEF SameEnd, Expects, NextFrame
    <2>3. CASE PadEnd
      <3>1. Phys(head) \in 0..(Capacity - 1) /\ Boundary(head) > head
        BY <1>1, PhysRange
      <3>2. Phys(head) \in Phys(head)..(Capacity - 1)
        BY <3>1, CapacityAssumption
      <3>3. p < head' /\ buf'[Phys(p)] = SkipCell /\ head' = Boundary(p)
        BY <3>1, <3>2, <2>1, <2>3 DEF PadEnd
      <3>4. NextFrame(p)' = head'
        BY <3>3 DEF NextFrame, Boundary, ToEnd, Phys
      <3> QED BY <2>1, <2>3, <3>4 DEF PadEnd, Expects
    <2>4. CASE CommitEnd
      <3>0. PICK h \in Nat : /\ h = head /\ head' = h + Need(psize)
                             /\ FrameAt(h)' /\ buf'[Phys(h) + 1].event = Outgoing
                             /\ sent' = Append(sent, Outgoing)
        BY <2>4 DEF CommitEnd
      <3>1. psize \in Nat BY PsizeNat
      <3>2. h < head' /\ n = Len(sent') /\ n \in 1..Len(sent') /\ sent'[n] = Outgoing
        BY <2>1, <3>0, <3>1, <1>1 DEF Need
      <3>3. buf'[Phys(h)] # SkipCell
        BY <3>0 DEF FrameAt, TagCell, SkipCell
      <3>4. p = h /\ NextFrame(p)' = p
        BY <3>0, <2>1, <3>3 DEF NextFrame
      <3> QED BY <3>0, <3>2, <3>4 DEF Expects
    <2> QED BY <2>2, <2>3, <2>4
  <1> QED BY <1>4, <1>7, <1>8, <1>9

\* One offset stays well-formed.
LEMMA ParsesKept ==
  ASSUME TypeOK, TypeOK', UnreadSame, StreamParses, head' >= head,
         SameEnd \/ PadEnd \/ CommitEnd,
         NEW p \in tail..(head - 1)
  PROVE  ParsesAt(p)'
  <1>1. buf'[Phys(p)] = buf[Phys(p)] /\ ParsesAt(p)
    BY DEF UnreadSame, StreamParses
  <1>2. ASSUME buf'[Phys(p)] = SkipCell PROVE PaddingAt(p)'
    <2>1. PaddingAt(p)
      BY <1>1, <1>2 DEF ParsesAt
    <2> QED BY <2>1, PaddingKept
  <1>3. ASSUME buf'[Phys(p)] = TagCell
        PROVE  /\ FrameAt(p)'
               /\ \E e \in {buf'[Phys(p) + 1].event} :
                    Expects(p + Need(e.size), e.id + 1)'
    <2>1. FrameAt(p)
      BY <1>1, <1>3 DEF ParsesAt
    <2>2. FrameAt(p)' /\ buf'[Phys(p) + 1].event = buf[Phys(p) + 1].event
      BY <2>1, FrameKept
    <2>0. /\ p \in Nat /\ head \in Nat /\ tail \in Nat
          /\ buf \in [0..(Capacity - 1) -> Cell]
      BY DEF TypeOK
    <2>3. Phys(p) \in 0..(Capacity - 1) /\ p \in Nat /\ head \in Nat /\ tail \in Nat
          /\ buf \in [0..(Capacity - 1) -> Cell]
      BY <2>0, PhysRange
    <2>4. Phys(p) + 1 \in 0..(Capacity - 1)
      <3>1. PICK n \in PayloadSizes : Phys(p) + n < Capacity
        BY <2>1 DEF FrameAt
      <3>2. n \in Nat /\ n >= 1
        BY Sizes
      <3> QED BY <3>1, <3>2, <2>3, CapacityAssumption
    <2>5. PICK e \in Event : e = buf[Phys(p) + 1].event
      BY <2>3, <2>4 DEF Cell
    <2>6. e.size \in PayloadSizes /\ p + Need(e.size) <= head
      BY <2>1, <2>4, <2>3, <2>5 DEF FrameAt, ByteAt
    <2>7. Need(e.size) \in Nat /\ Need(e.size) >= 1 /\ e.id + 1 \in Nat
      BY <2>5, <2>6, Sizes DEF Event
    <2>8. Expects(p + Need(e.size), e.id + 1)
      BY <1>1, <1>3, <2>5 DEF ParsesAt
    <2>9. PICK q \in tail..head : q = p + Need(e.size)
      BY <2>3, <2>6, <2>7
    <2>10. q < head => (buf[Phys(q)] = SkipCell => PaddingAt(q))
      BY <2>9, <2>3 DEF StreamParses, ParsesAt
    <2>11. Expects(q, e.id + 1)'
      BY <2>7, <2>8, <2>9, <2>10, ExpectsKept
    <2> QED BY <2>2, <2>5, <2>9, <2>11
  <1> QED BY <1>2, <1>3 DEF ParsesAt

\* The whole stream stays well-formed when what is newly published is.
LEMMA StreamKept ==
  ASSUME TypeOK, TypeOK', UnreadSame, StreamParses, head' >= head,
         SameEnd \/ PadEnd \/ CommitEnd,
         tail' = tail, received' = received,
         \A p \in head..(head' - 1) : ParsesAt(p)'
  PROVE  StreamParses'
  <1>1. /\ head \in Nat /\ head' \in Nat /\ tail \in Nat /\ tail <= head
        /\ received \in Seq(Event)
    BY DEF TypeOK
  <1>2. PICK t \in tail..head : t = tail
    BY <1>1
  <1>3. PICK n \in Nat : n = Len(received) + 1
    BY <1>1
  <1>4. Expects(t, n)'
    <2>1. Expects(t, n) /\ (t < head => (buf[Phys(t)] = SkipCell => PaddingAt(t)))
      BY <1>1, <1>2, <1>3 DEF StreamParses, ParsesAt
    <2> QED BY <2>1, ExpectsKept
  <1>5. Expects(tail, Len(received) + 1)'
    BY <1>2, <1>3, <1>4
  <1>6. ASSUME NEW p \in tail'..(head' - 1) PROVE ParsesAt(p)'
    <2>1. CASE p < head
      <3>1. p \in tail..(head - 1)
        BY <2>1, <1>1
      <3> QED BY <3>1, ParsesKept
    <2>2. CASE ~(p < head)
      <3>1. PICK h \in Nat : h = head'
        BY <1>1
      <3>2. p \in tail..(h - 1)
        BY <3>1
      <3>3. p \in head..(h - 1)
        BY <3>2, <2>2, <1>1
      <3>4. p \in head..(head' - 1)
        BY <3>1, <3>3
      <3> QED BY <3>4
    <2> QED BY <2>1, <2>2
  <1> QED BY <1>5, <1>6 DEF StreamParses
-----------------------------------------------------------------------------
(* What the consumer finds at tail.                                        *)

\* A tag at tail begins the frame of the event that is due.
LEMMA DueAtTail ==
  ASSUME TypeOK, StreamParses, tail < head, buf[Phys(tail)] = TagCell
  PROVE  /\ Len(received) + 1 \in 1..Len(sent)
         /\ Due \in Event /\ Due.size \in PayloadSizes
         /\ Phys(tail) + Due.size < Capacity
         /\ tail + Need(Due.size) <= head
         /\ \A i \in 1..Due.size : buf[Phys(tail) + i] = PayCell(Due, i)
         /\ buf[Phys(tail) + 1].event = Due
  <1>1. /\ tail \in Nat /\ head \in Nat /\ sent \in Seq(Event)
        /\ DOMAIN buf = 0..(Capacity - 1)
    BY DEF TypeOK
  <1>2. NextFrame(tail) = tail
    BY DEF NextFrame, TagCell, SkipCell
  <1>3. /\ FrameAt(tail) /\ Len(received) + 1 \in 1..Len(sent)
        /\ buf[Phys(tail) + 1].event = Due
    BY <1>1, <1>2 DEF StreamParses, Expects, Due
  <1>4. Phys(tail) \in 0..(Capacity - 1)
    BY <1>1, PhysRange
  <1>5. Phys(tail) + 1 \in DOMAIN buf
    <2>1. PICK n \in PayloadSizes : Phys(tail) + n < Capacity
      BY <1>3 DEF FrameAt
    <2>2. n \in Nat /\ n >= 1
      BY Sizes
    <2> QED BY <2>1, <2>2, <1>4, <1>1, CapacityAssumption
  <1>6. ByteAt(Phys(tail) + 1).event = Due
    BY <1>3, <1>5 DEF ByteAt
  <1>7. Due \in Event
    BY <1>1, <1>3 DEF Due
  <1> QED BY <1>3, <1>6, <1>7 DEF FrameAt

\* Peeking at any number of its bytes tells which event it is.
LEMMA PeeksDue ==
  ASSUME TypeOK, StreamParses, tail < head, buf[Phys(tail)] = TagCell,
         NEW n \in Nat, n >= 1, n <= Due.size
  PROVE  PeekPayload(n) = Due
  <1>1. /\ Due.size \in Nat /\ Due.size >= 1 /\ Phys(tail) + Due.size < Capacity
        /\ \A i \in 1..Due.size : buf[Phys(tail) + i] = PayCell(Due, i)
        /\ buf[Phys(tail) + 1].event = Due
    BY DueAtTail, Sizes
  <1>2. tail \in Nat /\ DOMAIN buf = 0..(Capacity - 1)
    BY DEF TypeOK
  <1>3. Phys(tail) \in 0..(Capacity - 1)
    BY <1>2, PhysRange
  <1>4. Phys(tail + 1) = Phys(tail) + 1 /\ Phys(tail) + 1 \in DOMAIN buf
    BY <1>1, <1>2, <1>3, PhysAdd, CapacityAssumption
  <1>5. ByteAt(Phys(tail + 1)).event = Due
    BY <1>1, <1>4 DEF ByteAt
  <1>6. ASSUME NEW i \in 1..n
        PROVE  ByteAt(Phys(tail + 1) + i - 1) = PayCell(Due, i)
    <2>1. i \in 1..Due.size
      BY <1>1
    <2>2. Phys(tail + 1) + i - 1 = Phys(tail) + i
      BY <1>3, <1>4
    <2>3. Phys(tail) + i \in DOMAIN buf
      BY <2>1, <1>1, <1>2, <1>3, CapacityAssumption
    <2> QED BY <2>1, <2>2, <2>3, <1>1 DEF ByteAt
  <1> QED BY <1>5, <1>6 DEF PeekPayload, PeeksAt
-----------------------------------------------------------------------------
(* The invariant is inductive.                                             *)

\* In the empty ring there is nothing to be wrong.
LEMMA InitInv == Init => IInv
  <1> SUFFICES ASSUME Init PROVE IInv
    OBVIOUS
  <1>1. TypeOK
    <2>1. Torn \in Event
      BY PayloadAssumption, BoundAssumption DEF Torn, Event
    <2>2. Junk \in Cell
      BY <2>1, PayloadAssumption DEF Junk, Cell
    <2>3. buf \in [0..(Capacity - 1) -> Cell]
      BY <2>2 DEF Init
    <2> QED BY <2>1, <2>3, CapacityAssumption DEF Init, TypeOK
  <1>2. ProducerInv /\ ConsumerInv /\ SentNumbered
    BY DEF Init, ProducerInv, ConsumerInv, SentNumbered
  <1>3. StreamParses
    BY DEF Init, StreamParses, Expects, NextFrame
  <1> QED BY <1>1, <1>2, <1>3 DEF IInv

\* A step of the producer that leaves its own invariant, and what it has
\* newly published, in order leaves everything in order.
LEMMA ProducerStep ==
  ASSUME IInv, TypeOK', ProducerInv', UnreadSame, head' >= head,
         SameEnd \/ PadEnd \/ CommitEnd,
         UNCHANGED consumerVars,
         \A p \in head..(head' - 1) : ParsesAt(p)'
  PROVE  IInv'
  <1> USE DEF IInv
  <1>1. StreamParses'
    BY StreamKept DEF consumerVars
  <1>2. /\ head \in Nat /\ head' \in Nat /\ tail \in Nat /\ sent \in Seq(Event)
    BY DEF TypeOK
  <1>3. /\ tail' = tail /\ cpc' = cpc /\ hdr' = hdr /\ got' = got /\ received' = received
    BY DEF consumerVars
  <1>4. tail < head => tail' < head' /\ buf'[Phys(tail')] = buf[Phys(tail)]
    BY <1>2, <1>3 DEF UnreadSame
  <1>5. tail < head /\ buf[Phys(tail)] = TagCell => Due' = Due
    BY <1>2, <1>3, DueAtTail DEF SameEnd, PadEnd, CommitEnd, Due
  <1>6. ConsumerInv'
    BY <1>3, <1>4, <1>5 DEF ConsumerInv
  <1>7. SentNumbered'
    <2>1. CASE SameEnd
      BY <2>1 DEF SameEnd, SentNumbered
    <2>2. CASE PadEnd
      BY <2>2 DEF PadEnd, SentNumbered
    <2>3. CASE CommitEnd
      BY <1>2, <2>3 DEF CommitEnd, SentNumbered, Outgoing
    <2> QED BY <2>1, <2>2, <2>3
  <1> QED BY <1>1, <1>6, <1>7

\* A step of the consumer leaves the producer's invariant alone, and what was
\* well-formed stays so.
LEMMA ConsumerStep ==
  ASSUME IInv, TypeOK', UNCHANGED <<producerVars, buf>>, ConsumerInv',
         tail' >= tail, Expects(tail, Len(received) + 1)'
  PROVE  IInv'
  <1> USE DEF IInv
  <1>1. /\ head' = head /\ pending' = pending /\ ppc' = ppc /\ psize' = psize
        /\ seenTail' = seenTail /\ sent' = sent /\ buf' = buf
    BY DEF producerVars
  <1>2. ProducerInv'
    BY <1>1 DEF ProducerInv, NeedsPad, ToEnd, Free, Outgoing
  <1>3. SentNumbered'
    BY <1>1 DEF SentNumbered
  <1>4. /\ head \in Nat /\ tail \in Nat /\ tail' \in Nat
    BY DEF TypeOK
  <1>5. ASSUME NEW p \in tail'..(head' - 1) PROVE ParsesAt(p)'
    <2>1. PICK t \in Nat : t = tail'
      BY <1>4
    <2>2. p \in t..(head - 1) /\ t >= tail
      BY <1>1, <2>1
    <2>3. p \in tail..(head - 1)
      BY <2>2, <1>4
    <2>4. UnreadSame /\ SameEnd /\ head' >= head
      BY <1>1, <1>4 DEF UnreadSame, SameEnd
    <2> QED BY <2>3, <2>4, ParsesKept
  <1>6. StreamParses'
    BY <1>5 DEF StreamParses
  <1> QED BY <1>2, <1>3, <1>6

\* The cells the actions write.
LEMMA CellTypes ==
  /\ Torn \in Event /\ Junk \in Cell /\ TagCell \in Cell /\ SkipCell \in Cell
  /\ \A e \in Event, i \in 0..MaxPayload : PayCell(e, i) \in Cell
  <1>1. Torn \in Event
    BY PayloadAssumption, BoundAssumption DEF Torn, Event
  <1>2. 0 \in 0..MaxPayload
    BY PayloadAssumption
  <1> QED BY <1>1, <1>2 DEF Junk, TagCell, SkipCell, PayCell, Cell

\* Steps that only load tail_, start or give up.
LEMMA QuietStep ==
  ASSUME IInv, TypeOK', ProducerInv',
         UNCHANGED <<head, sent, consumerVars, buf>>
  PROVE  IInv'
  <1>1. head \in Nat /\ head' = head /\ buf' = buf /\ sent' = sent
    BY DEF IInv, TypeOK
  <1>2. \A p \in head..(head' - 1) : ParsesAt(p)'
    <2>1. PICK h \in Nat : h = head' /\ h = head
      BY <1>1
    <2>2. \A p \in head..(h - 1) : FALSE
      BY <2>1
    <2> QED BY <2>1, <2>2
  <1> QED BY <1>1, <1>2, ProducerStep DEF UnreadSame, SameEnd, IInv

\* Steps that write bytes nobody may read yet.
LEMMA WriteStep ==
  ASSUME IInv, TypeOK', ProducerInv',
         UNCHANGED <<head, sent, consumerVars>>, UnreadSame
  PROVE  IInv'
  <1>1. head \in Nat /\ head' = head /\ sent' = sent
    BY DEF IInv, TypeOK
  <1>2. \A p \in head..(head' - 1) : ParsesAt(p)'
    <2>1. PICK h \in Nat : h = head' /\ h = head
      BY <1>1
    <2>2. \A p \in head..(h - 1) : FALSE
      BY <2>1
    <2> QED BY <2>1, <2>2
  <1> QED BY <1>1, <1>2, ProducerStep DEF SameEnd, IInv

\* The bytes behind head are free as far as the space the producer knows of.
LEMMA FreeBytes ==
  ASSUME TypeOK, NEW j \in Nat, Phys(head) + j < Capacity, j < Free(seenTail),
         NEW p \in tail..(head - 1)
  PROVE  Phys(p) # Phys(head) + j
  <1>1. /\ head \in Nat /\ tail \in Nat /\ seenTail \in Nat /\ seenTail <= tail
        /\ p \in Nat /\ p < head /\ p >= tail
    BY DEF TypeOK
  <1>2. Phys(head) + j = Phys(head + j)
    BY <1>1, PhysAdd
  <1>3. p < head + j /\ (head + j) - p < Capacity /\ head + j \in Nat
    BY <1>1, CapacityAssumption DEF Free
  <1> QED BY <1>1, <1>2, <1>3, PhysDistinct

LEMMA RequestStep ==
  ASSUME IInv, NEW n \in PayloadSizes, Request(n)
  PROVE  IInv'
  <1> USE DEF IInv, Request, consumerVars
  <1>1. TypeOK'
    BY DEF TypeOK
  <1>2. ProducerInv'
    BY DEF ProducerInv
  <1> QED BY <1>1, <1>2, QuietStep

LEMMA LoadTailStep == ASSUME IInv, LoadTail PROVE IInv'
  <1> USE DEF IInv, LoadTail, consumerVars
  <1>1. TypeOK'
    BY DEF TypeOK
  <1>2. ProducerInv'
    BY DEF ProducerInv
  <1> QED BY <1>1, <1>2, QuietStep

LEMMA FullStep == ASSUME IInv, Full PROVE IInv'
  <1> USE DEF IInv, Full, consumerVars
  <1>1. TypeOK'
    BY DEF TypeOK
  <1>2. ProducerInv'
    BY DEF ProducerInv
  <1> QED BY <1>1, <1>2, QuietStep

LEMMA ReloadTailStep == ASSUME IInv, ReloadTail PROVE IInv'
  <1> USE DEF IInv, ReloadTail, consumerVars
  <1>1. TypeOK'
    BY DEF TypeOK
  <1>2. Free(seenTail') >= Free(seenTail) /\ Need(psize) \in Int
        /\ Free(seenTail) \in Int /\ Free(seenTail') \in Int
    BY PsizeNat, CapacityAssumption DEF TypeOK, Free
  <1>3. Free(seenTail)' = Free(seenTail')
    BY DEF Free
  <1>4. ProducerInv'
    BY <1>2, <1>3 DEF ProducerInv
  <1> QED BY <1>1, <1>4, QuietStep

LEMMA PadStep == ASSUME IInv, Pad PROVE IInv' /\ UnreadSame
  <1> USE DEF IInv, Pad, consumerVars
  <1>0. /\ head \in Nat /\ Phys(head) \in 0..(Capacity - 1)
        /\ buf \in [0..(Capacity - 1) -> Cell] /\ psize \in PayloadSizes
    BY PhysRange DEF TypeOK, ProducerInv
  <1>1. TypeOK'
    BY <1>0, CellTypes DEF TypeOK
  <1>2. Free(seenTail) >= ToEnd(head) + Need(psize)
    BY DEF RoomFor
  <1>5. seenTail \in Nat /\ ToEnd(head) \in Int
    BY <1>0, CapacityAssumption DEF TypeOK, ToEnd
  <1>3. ProducerInv'
    <2>1. \A i \in Phys(head)..(Capacity - 1) : buf'[i] = SkipCell
      BY <1>0, CapacityAssumption
    <2>2. /\ NeedsPad(psize)' /\ psize' \in PayloadSizes /\ Len(sent') < MaxEvents
          /\ (Free(seenTail) >= ToEnd(head) + Need(psize))'
      BY <1>0, <1>2 DEF NeedsPad, ToEnd, Free, ProducerInv
    <2> QED BY <2>1, <2>2 DEF ProducerInv
  <1>4. UnreadSame
    <2> SUFFICES ASSUME NEW p \in tail..(head - 1) PROVE buf'[Phys(p)] = buf[Phys(p)]
      BY DEF UnreadSame
    <2>1. p \in Nat /\ Phys(p) \in 0..(Capacity - 1)
      <3>1. p \in Nat
        BY DEF TypeOK
      <3> QED BY <3>1, PhysRange
    <2>2. Phys(p) < Phys(head)
      <3> SUFFICES ASSUME Phys(p) >= Phys(head) PROVE FALSE
        BY <1>0, <2>1
      <3>0. Phys(p) - Phys(head) \in Nat /\ Phys(p) = Phys(head) + (Phys(p) - Phys(head))
        BY <1>0, <2>1
      <3>1. PICK j \in Nat : Phys(p) = Phys(head) + j
        BY <3>0
      <3>2. j < ToEnd(head) /\ Phys(head) + j < Capacity
        BY <3>1, <2>1, <1>0, CapacityAssumption DEF ToEnd
      <3>3. j < Free(seenTail)
        <4> HIDE DEF IInv, Pad, consumerVars
        <4>1. Free(seenTail) \in Int
          BY <1>0, <1>5, CapacityAssumption DEF Free
        <4>2. Need(psize) \in Nat
          BY <1>0, Sizes
        <4>3. ToEnd(head) <= Free(seenTail)
          <5>1. PICK a, b, c \in Int : a = Free(seenTail) /\ b = ToEnd(head) /\ c = Need(psize)
            BY <1>5, <4>1, <4>2
          <5>2. a >= b + c /\ c >= 0
            BY <1>2, <4>2, <5>1
          <5>3. b <= a
            BY <5>2
          <5> QED BY <5>1, <5>3
        <4>4. j < ToEnd(head) /\ ToEnd(head) \in Int
          BY <1>5, <3>2
        <4> QED BY <3>1, <4>1, <4>3, <4>4
      <3> QED BY <3>1, <3>2, <3>3, FreeBytes
    <2> QED BY <2>1, <2>2, <1>0
  <1> QED BY <1>1, <1>3, <1>4, WriteStep

LEMMA PublishPadStep == ASSUME IInv, PublishPad PROVE IInv'
  <1> USE DEF IInv, PublishPad, consumerVars
  <1>0. /\ head \in Nat /\ Phys(head) \in 0..(Capacity - 1) /\ ToEnd(head) \in 1..Capacity
        /\ tail \in Nat /\ seenTail \in Nat /\ seenTail <= tail /\ tail <= head
        /\ psize \in PayloadSizes /\ head' = head + ToEnd(head)
        /\ Free(seenTail) >= ToEnd(head) + Need(psize) /\ NeedsPad(psize)
    BY PhysRange DEF TypeOK, ProducerInv, Boundary
  <1>1. /\ Need(psize) \in Nat /\ Need(psize) >= 1 /\ (2 * Need(psize)) - 1 <= Capacity
    BY <1>0, Sizes
  <1>2. (head' - tail <= Capacity) /\ head' \in Nat /\ tail <= head'
    BY <1>0, <1>1, CapacityAssumption DEF Free
  <1>3. TypeOK'
    BY <1>2 DEF TypeOK
  <1>4. ProducerInv'
    <2>1. Phys(head') = 0
      BY <1>0, PhysBoundary
    <2>2. Free(seenTail)' >= Need(psize)
      BY <1>0, <1>1, CapacityAssumption DEF Free
    <2> QED BY <2>1, <2>2 DEF ProducerInv
  <1>5. PadEnd
    <2>1. Phys(head) # 0
      BY <1>0, <1>1, CapacityAssumption DEF NeedsPad, ToEnd
    <2> QED BY <2>1 DEF PadEnd, ProducerInv
  <1>6. UnreadSame
    BY DEF UnreadSame
  <1>7. PICK h \in Nat : h = head'
    BY <1>2
  <1>8. ASSUME NEW p \in head..(h - 1) PROVE ParsesAt(p)'
    <2>0. PICK j \in Nat : p = head + j /\ j < ToEnd(head)
      <3>1. p - head \in Nat /\ p = head + (p - head) /\ p - head < ToEnd(head)
        BY <1>0, <1>7
      <3> QED BY <3>1
    <2>1. Phys(head) + j < Capacity
      BY <2>0, <1>0, CapacityAssumption DEF ToEnd
    <2>2. Phys(p) = Phys(head) + j
      BY <2>0, <2>1, <1>0, PhysAdd
    <2>3. Boundary(p) = h
      BY <2>0, <2>2, <1>0, <1>7, CapacityAssumption DEF Boundary, ToEnd
    <2>4. \A i \in Phys(p)..(Capacity - 1) : buf'[i] = SkipCell
      BY <2>2, <1>0, <2>1, CapacityAssumption DEF ProducerInv
    <2>5. PaddingAt(p)'
      BY <2>3, <2>4, <1>2, <1>7 DEF PaddingAt
    <2>6. buf'[Phys(p)] # TagCell
      BY <2>4, <2>2, <1>0, <2>1, CapacityAssumption DEF TagCell, SkipCell
    <2> QED BY <2>5, <2>6 DEF ParsesAt
  <1>9. \A p \in head..(head' - 1) : ParsesAt(p)'
    BY <1>7, <1>8
  <1>10. head' >= head
    BY <1>0
  <1> QED BY <1>3, <1>4, <1>5, <1>6, <1>9, <1>10, ProducerStep

\* reserve writes the tag of a frame for which there is room.
LEMMA WriteTagStep ==
  ASSUME IInv, ppc # "idle", NEW off \in 0..(Capacity - 1), off = Phys(head),
         WriteTag(off), ~NeedsPad(psize), Free(seenTail) >= Need(psize)
  PROVE  IInv' /\ UnreadSame
  <1> USE DEF IInv, WriteTag, consumerVars
  <1>0. /\ head \in Nat /\ psize \in PayloadSizes /\ Len(sent) < MaxEvents
        /\ buf \in [0..(Capacity - 1) -> Cell]
    BY DEF TypeOK, ProducerInv
  <1>1. TypeOK'
    BY <1>0, CellTypes DEF TypeOK
  <1>2. Need(psize) = 1 + psize /\ psize \in Nat /\ psize >= 1
    BY <1>0, Sizes
  <1>3. Phys(head) + psize < Capacity
    BY <1>0, <1>2, CapacityAssumption DEF NeedsPad, ToEnd
  <1>4. ProducerInv'
    <2>1. (Free(seenTail) >= Need(psize))' /\ buf'[Phys(head')] = TagCell
      BY <1>0 DEF Free, Need
    <2> QED BY <2>1, <1>0, <1>3 DEF ProducerInv
  <1>5. UnreadSame
    <2> SUFFICES ASSUME NEW p \in tail..(head - 1) PROVE buf'[Phys(p)] = buf[Phys(p)]
      BY DEF UnreadSame
    <2>1. 0 \in Nat /\ Phys(head) + 0 = off /\ off < Capacity /\ 0 < Free(seenTail)
      BY <1>0, <1>2, CapacityAssumption DEF Free, TypeOK
    <2>2. Phys(p) # off
      BY <2>1, FreeBytes
    <2> QED BY <2>2, <1>0
  <1> QED BY <1>1, <1>4, <1>5, WriteStep

LEMMA ReserveStep == ASSUME IInv, Reserve PROVE IInv' /\ UnreadSame
  <1>1. head \in Nat /\ psize \in PayloadSizes
    BY DEF IInv, TypeOK, ProducerInv, Reserve
  <1>2. PICK off \in 0..(Capacity - 1) : off = Phys(head)
    BY <1>1, PhysRange
  <1>3. Free(seenTail) >= Need(psize)
    BY DEF Reserve, RoomFor
  <1> QED BY <1>2, <1>3, WriteTagStep DEF Reserve

LEMMA RecheckStep == ASSUME IInv, Recheck PROVE IInv' /\ UnreadSame
  <1>1. /\ head \in Nat /\ psize \in PayloadSizes /\ Phys(head) = 0
        /\ Free(seenTail) >= Need(psize) /\ Free(seenTail) \in Int
    BY CapacityAssumption DEF IInv, TypeOK, ProducerInv, Recheck, Free
  <1>2. Need(psize) \in Nat /\ (2 * Need(psize)) - 1 <= Capacity
    BY <1>1, Sizes
  <1>3. WriteTag(0)
    BY <1>1, <1>2 DEF Recheck
  <1>4. ~NeedsPad(psize)
    BY <1>1, <1>2, CapacityAssumption DEF NeedsPad, ToEnd
  <1>5. PICK off \in 0..(Capacity - 1) : off = 0
    BY CapacityAssumption
  <1> QED BY <1>1, <1>3, <1>4, <1>5, WriteTagStep DEF Recheck

LEMMA FillStep == ASSUME IInv, Fill PROVE IInv' /\ UnreadSame
  <1> USE DEF IInv, Fill, consumerVars
  <1>0. /\ head \in Nat /\ Phys(head) \in 0..(Capacity - 1) /\ psize \in PayloadSizes
        /\ buf \in [0..(Capacity - 1) -> Cell] /\ sent \in Seq(Event)
        /\ Len(sent) < MaxEvents /\ Phys(head) + psize < Capacity
        /\ Free(seenTail) >= Need(psize) /\ pending = psize
        /\ buf[Phys(head)] = TagCell
    BY PhysRange DEF TypeOK, ProducerInv
  <1>1. psize \in Nat /\ Need(psize) = 1 + psize /\ psize <= MaxPayload
    BY <1>0, Sizes
  <1>2. Outgoing \in Event
    BY <1>0, <1>1, PayloadAssumption, BoundAssumption DEF Outgoing, Event
  <1>3. \A i \in 1..psize : PayCell(Outgoing, i) \in Cell
    BY <1>1, <1>2, CellTypes, PayloadAssumption
  <1>4. buf' \in [0..(Capacity - 1) -> Cell]
    <2> SUFFICES ASSUME NEW i \in 0..(Capacity - 1),
                        i \in (Phys(head) + 1)..(Phys(head) + psize)
                 PROVE  PayCell(Outgoing, i - Phys(head)) \in Cell
      BY <1>0
    <2>1. i - Phys(head) \in 1..psize
      BY <1>0, <1>1
    <2> QED BY <2>1, <1>3
  <1>5. TypeOK'
    BY <1>4 DEF TypeOK
  <1>6. ProducerInv'
    <2>1. /\ (Free(seenTail) >= Need(psize))' /\ Phys(head') + psize' < Capacity
          /\ Outgoing' = Outgoing
      BY <1>0 DEF Free, Need, Outgoing
    <2>2. buf'[Phys(head')] = TagCell
      BY <1>0
    <2>3. ASSUME NEW i \in 1..psize PROVE buf'[Phys(head) + i] = PayCell(Outgoing, i)
      <3>1. /\ Phys(head) + i \in 0..(Capacity - 1)
            /\ Phys(head) + i \in (Phys(head) + 1)..(Phys(head) + psize)
            /\ (Phys(head) + i) - Phys(head) = i
        BY <1>0, <1>1, CapacityAssumption
      <3> QED BY <3>1, <1>0
    <2> QED BY <2>1, <2>2, <2>3, <1>0 DEF ProducerInv
  <1>7. UnreadSame
    <2> SUFFICES ASSUME NEW p \in tail..(head - 1) PROVE buf'[Phys(p)] = buf[Phys(p)]
      BY DEF UnreadSame
    <2>1. Phys(p) \in 0..(Capacity - 1)
      <3>1. p \in Nat
        BY DEF TypeOK
      <3> QED BY <3>1, PhysRange
    <2>2. Phys(p) \notin (Phys(head) + 1)..(Phys(head) + psize)
      <3> SUFFICES ASSUME Phys(p) \in (Phys(head) + 1)..(Phys(head) + psize)
                   PROVE  FALSE
        OBVIOUS
      <3>1. Phys(p) - Phys(head) \in Nat /\ Phys(p) = Phys(head) + (Phys(p) - Phys(head))
        BY <1>0, <2>1
      <3>2. PICK j \in Nat : Phys(p) = Phys(head) + j
        BY <3>1
      <3>3. j <= psize
        BY <3>2, <1>0, <1>1, <2>1
      <3>4. j < Free(seenTail) /\ Phys(head) + j < Capacity
        BY <3>3, <1>0, <1>1, CapacityAssumption DEF Free, TypeOK
      <3> QED BY <3>2, <3>4, FreeBytes
    <2> QED BY <2>1, <2>2, <1>0
  <1> QED BY <1>5, <1>6, <1>7, WriteStep

LEMMA CommitStep == ASSUME IInv, Commit PROVE IInv'
  <1> USE DEF IInv, Commit, consumerVars
  <1>0. /\ head \in Nat /\ Phys(head) \in 0..(Capacity - 1) /\ psize \in PayloadSizes
        /\ DOMAIN buf = 0..(Capacity - 1) /\ sent \in Seq(Event)
        /\ tail \in Nat /\ tail <= head /\ seenTail \in Nat /\ seenTail <= tail
        /\ Len(sent) < MaxEvents /\ Phys(head) + psize < Capacity
        /\ Free(seenTail) >= Need(psize) /\ pending = psize
        /\ buf[Phys(head)] = TagCell
        /\ \A i \in 1..psize : buf[Phys(head) + i] = PayCell(Outgoing, i)
    BY PhysRange DEF TypeOK, ProducerInv
  <1>1. psize \in Nat /\ Need(psize) = 1 + psize /\ psize >= 1 /\ psize <= MaxPayload
    BY <1>0, Sizes
  <1>2. Outgoing \in Event
    BY <1>0, <1>1, PayloadAssumption, BoundAssumption DEF Outgoing, Event
  <1>3. head' \in Nat /\ head' = head + Need(psize) /\ tail <= head'
        /\ head' - tail <= Capacity
    BY <1>0, <1>1, CapacityAssumption DEF Free
  <1>4. sent' \in Seq(Event)
    BY <1>0, <1>2
  <1>5. TypeOK'
    BY <1>3, <1>4 DEF TypeOK
  <1>6. ProducerInv'
    BY DEF ProducerInv
  <1>7. UnreadSame
    BY DEF UnreadSame
  <1>8. PICK h \in Nat : h = head
    BY <1>0
  <1>9. Phys(h) + 1 \in 0..(Capacity - 1) /\ buf[Phys(h) + 1] = PayCell(Outgoing, 1)
    BY <1>0, <1>1, <1>8, CapacityAssumption
  <1>10. PICK e \in Event : e = Outgoing
    BY <1>2
  <1>11. e.size = psize /\ e.id = Len(sent) + 1
    BY <1>10 DEF Outgoing
  <1>12. ByteAt(Phys(h) + 1)'.event = e /\ buf'[Phys(h) + 1].event = e
    BY <1>9, <1>10, <1>0 DEF ByteAt, PayCell
  <1>13. FrameAt(h)'
    BY <1>12, <1>11, <1>0, <1>8, <1>3, <1>10 DEF FrameAt
  <1>14. CommitEnd
    BY <1>13, <1>12, <1>10, <1>8, <1>3 DEF CommitEnd
  <1>15. PICK g \in Nat : g = head' /\ g = h + Need(psize)
    BY <1>3, <1>8
  <1>16. ASSUME NEW p \in h..(g - 1) PROVE ParsesAt(p)'
    <2>1. CASE p = h
      <3>1. g = p + Need(e.size)
        BY <2>1, <1>11, <1>15
      <3>2. NextFrame(g)' = g
        BY <1>15 DEF NextFrame
      <3>3. Len(sent') = (e.id + 1) - 1
        BY <1>11, <1>0
      <3>4. Expects(g, e.id + 1)'
        BY <3>2, <3>3, <1>15 DEF Expects
      <3>5. buf'[Phys(p)] # SkipCell
        BY <2>1, <1>0, <1>8 DEF SkipCell, TagCell
      <3> QED BY <2>1, <3>1, <3>4, <3>5, <1>12, <1>13 DEF ParsesAt
    <2>2. CASE p # h
      <3>1. p - h \in 1..psize /\ p = h + (p - h)
        BY <2>2, <1>1, <1>15
      <3>2. PICK i \in 1..psize : p = h + i
        BY <3>1
      <3>3. Phys(p) = Phys(h) + i
        BY <3>2, <1>0, <1>1, <1>8, FrameByte
      <3>4. buf'[Phys(p)] = PayCell(e, i)
        BY <3>3, <1>0, <1>8, <1>10
      <3> QED BY <3>4 DEF ParsesAt, PayCell, SkipCell, TagCell
    <2> QED BY <2>1, <2>2
  <1>17. \A p \in head..(head' - 1) : ParsesAt(p)'
    BY <1>8, <1>15, <1>16
  <1>18. head' >= head
    BY <1>0, <1>1, <1>3
  <1> QED BY <1>5, <1>6, <1>7, <1>14, <1>17, <1>18, ProducerStep

\* Steps of the consumer that only look.
LEMMA LookStep ==
  ASSUME IInv, TypeOK', ConsumerInv',
         UNCHANGED <<tail, received, producerVars, buf>>
  PROVE  IInv'
  <1>1. /\ head' = head /\ sent' = sent /\ buf' = buf /\ tail' = tail
        /\ received' = received /\ head \in Nat /\ tail \in Nat /\ tail <= head
        /\ received \in Seq(Event)
    BY DEF producerVars, IInv, TypeOK
  <1>2. UnreadSame /\ SameEnd /\ head' >= head /\ tail' >= tail
    BY <1>1 DEF UnreadSame, SameEnd
  <1>3. PICK t \in tail..head : t = tail
    BY <1>1
  <1>4. PICK n \in Nat : n = Len(received) + 1
    BY <1>1
  <1>5. Expects(t, n) /\ (t < head => (buf[Phys(t)] = SkipCell => PaddingAt(t)))
    BY <1>1, <1>3, <1>4 DEF IInv, StreamParses, ParsesAt
  <1>6. Expects(t, n)'
    BY <1>2, <1>5, ExpectsKept DEF IInv
  <1>7. Expects(tail, Len(received) + 1)'
    BY <1>1, <1>3, <1>4, <1>6
  <1> QED BY <1>2, <1>7, ConsumerStep

LEMMA PeekSkipStep == ASSUME IInv, PeekSkip PROVE IInv'
  <1> USE DEF IInv, PeekSkip, producerVars
  <1>1. TypeOK'
    BY DEF TypeOK
  <1>2. tail < head
    BY DEF TypeOK, Readable
  <1>3. ConsumerInv'
    BY <1>2 DEF ConsumerInv
  <1> QED BY <1>1, <1>3, LookStep

LEMMA PeekEventStep == ASSUME IInv, PeekEvent PROVE IInv'
  <1> USE DEF IInv, PeekEvent, producerVars
  <1>1. TypeOK'
    BY DEF TypeOK
  <1>2. tail < head
    BY DEF TypeOK, Readable
  <1>3. ConsumerInv'
    BY <1>2 DEF ConsumerInv
  <1> QED BY <1>1, <1>3, LookStep

\* Where the consumer reads a frame, the whole frame is there.
LEMMA ReadableDue ==
  ASSUME IInv, cpc \in {"header", "payload", "consume"}
  PROVE  /\ tail < head /\ buf[Phys(tail)] = TagCell
         /\ Due \in Event /\ Due.size \in PayloadSizes
         /\ HdrSize \in Nat /\ HdrSize >= 1 /\ HdrSize <= Due.size
         /\ Due.size \in Nat /\ Due.size >= 1 /\ Due.size <= MaxPayload
         /\ Readable >= Need(Due.size) /\ Readable >= Need(HdrSize)
         /\ Len(received) + 1 \in 1..Len(sent)
  <1>1. tail < head /\ buf[Phys(tail)] = TagCell
    BY DEF IInv, ConsumerInv
  <1>2. /\ Due \in Event /\ Due.size \in PayloadSizes /\ tail + Need(Due.size) <= head
        /\ Len(received) + 1 \in 1..Len(sent)
    BY <1>1, DueAtTail DEF IInv
  <1>3. /\ Due.size \in Nat /\ Due.size >= 1 /\ Due.size >= HdrSize
        /\ Due.size <= MaxPayload /\ Need(Due.size) = 1 + Due.size
    BY <1>2, Sizes
  <1>4. tail \in Nat /\ head \in Nat
    BY DEF IInv, TypeOK
  <1> QED BY <1>1, <1>2, <1>3, <1>4, PayloadAssumption DEF Readable, Need

LEMMA ReadHeaderStep == ASSUME IInv, ReadHeader PROVE IInv'
  <1> USE DEF producerVars
  <1>1. cpc \in {"header", "payload", "consume"}
    BY DEF ReadHeader
  <1>2. ~(Readable < Need(HdrSize))
    BY <1>1, ReadableDue DEF IInv, TypeOK, Readable, Need
  <1>3. PeekPayload(HdrSize) = Due
    BY <1>1, ReadableDue, PeeksDue DEF IInv
  <1>4. cpc' = "payload" /\ hdr' = Due
    BY <1>2, <1>3 DEF ReadHeader
  <1>5. TypeOK'
    BY <1>1, <1>4, ReadableDue DEF TypeOK, IInv, ReadHeader
  <1>6. Due' = Due
    BY DEF Due, ReadHeader
  <1>7. ConsumerInv'
    BY <1>1, <1>4, <1>6, ReadableDue DEF ConsumerInv, ReadHeader
  <1> QED BY <1>5, <1>7, LookStep DEF ReadHeader

LEMMA ReadPayloadStep == ASSUME IInv, ReadPayload PROVE IInv'
  <1> USE DEF producerVars
  <1>1. cpc \in {"header", "payload", "consume"} /\ hdr = Due
    BY DEF ReadPayload, IInv, ConsumerInv
  <1>2. FrameComplete /\ ~(hdr.size > MaxPayload)
    BY <1>1, ReadableDue, PayloadAssumption DEF FrameComplete
  <1>3. PeekPayload(hdr.size) = Due
    BY <1>1, ReadableDue, PeeksDue DEF IInv
  <1>4. cpc' = "consume" /\ got' = Due /\ UNCHANGED <<tail, hdr, received, producerVars, buf>>
    BY <1>2, <1>3 DEF ReadPayload
  <1>5. TypeOK'
    BY <1>1, <1>4, ReadableDue DEF TypeOK, IInv
  <1>6. Due' = Due
    BY <1>4 DEF Due
  <1>7. ConsumerInv'
    BY <1>1, <1>4, <1>6, ReadableDue DEF ConsumerInv
  <1> QED BY <1>4, <1>5, <1>7, LookStep

LEMMA SkipPaddingStep == ASSUME IInv, SkipPadding PROVE IInv'
  <1> USE DEF IInv, SkipPadding, producerVars
  <1>1. /\ tail \in Nat /\ head \in Nat /\ tail < head /\ buf[Phys(tail)] = SkipCell
        /\ Phys(tail) \in 0..(Capacity - 1)
    BY PhysRange DEF TypeOK, ConsumerInv
  <1>2. PaddingAt(tail) /\ Boundary(tail) = tail + (Capacity - Phys(tail))
    BY <1>1 DEF StreamParses, ParsesAt, Boundary, ToEnd
  <1>3. TypeOK'
    BY <1>1, CapacityAssumption DEF TypeOK
  <1>4. ConsumerInv'
    BY DEF ConsumerInv
  <1>5. NextFrame(tail) = Boundary(tail)
    BY <1>1 DEF NextFrame
  <1>6. NextFrame(tail + 1) = Boundary(tail)
    <2>1. CASE Phys(tail) + 1 < Capacity
      <3>1. Phys(tail + 1) = Phys(tail) + 1
        BY <2>1, <1>1, PhysAdd
      <3>2. buf[Phys(tail + 1)] = SkipCell
        BY <3>1, <2>1, <1>1, <1>2, CapacityAssumption DEF PaddingAt
      <3>3. tail + 1 < head
        BY <2>1, <1>1, <1>2, CapacityAssumption DEF PaddingAt
      <3>4. Boundary(tail + 1) = Boundary(tail)
        BY <3>1, <1>1, <1>2, CapacityAssumption DEF Boundary, ToEnd
      <3> QED BY <3>2, <3>3, <3>4 DEF NextFrame
    <2>2. CASE ~(Phys(tail) + 1 < Capacity)
      <3>1. Boundary(tail) = tail + 1
        BY <2>2, <1>1, <1>2, CapacityAssumption
      <3>2. tail + 1 < head => buf[Phys(tail + 1)] = TagCell
        BY <3>1, <1>5, <1>1 DEF StreamParses, Expects, FrameAt
      <3> QED BY <3>1, <3>2 DEF NextFrame, TagCell, SkipCell
    <2> QED BY <2>1, <2>2
  <1>7. Expects(tail + 1, Len(received) + 1)
    BY <1>5, <1>6 DEF StreamParses, Expects
  <1>8. PICK t \in tail..head : t = tail + 1
    BY <1>1
  <1>9. PICK n \in Nat : n = Len(received) + 1
    BY DEF TypeOK
  <1>10. UnreadSame /\ SameEnd /\ head' >= head
    BY <1>1 DEF UnreadSame, SameEnd
  <1>11. t < head => (buf[Phys(t)] = SkipCell => PaddingAt(t))
    BY <1>1, <1>8 DEF StreamParses, ParsesAt
  <1>12. Expects(t, n)'
    BY <1>3, <1>7, <1>8, <1>9, <1>10, <1>11, ExpectsKept
  <1>13. Expects(tail, Len(received) + 1)'
    BY <1>8, <1>9, <1>12
  <1>14. tail' >= tail
    BY <1>1
  <1> QED BY <1>3, <1>4, <1>13, <1>14, ConsumerStep

LEMMA ConsumeStep == ASSUME IInv, Consume PROVE IInv'
  <1> USE DEF IInv, Consume, ConsumeEvent, producerVars
  <1>1. cpc \in {"header", "payload", "consume"} /\ hdr = Due /\ got = Due
    BY DEF ConsumerInv
  <1>2. /\ tail \in Nat /\ head \in Nat /\ tail < head /\ buf[Phys(tail)] = TagCell
        /\ received \in Seq(Event) /\ sent \in Seq(Event)
        /\ head - tail <= Capacity /\ seenTail \in Nat /\ seenTail <= tail
    BY <1>1, ReadableDue DEF TypeOK
  <1>3. PICK e \in Event : e = Due
    BY <1>1, ReadableDue
  <1>4. /\ e.size \in Nat /\ tail + Need(e.size) <= head /\ Need(e.size) = 1 + e.size
        /\ buf[Phys(tail) + 1].event = e
    BY <1>1, <1>2, <1>3, ReadableDue, DueAtTail DEF Need
  <1>5. e.id = Len(received) + 1
    BY <1>1, <1>3, ReadableDue DEF SentNumbered, Due
  <1>6. tail' = tail + Need(e.size) /\ received' = Append(received, e)
    <2>1. tail' = tail + 1 + hdr.size /\ received' = Append(received, got)
      OBVIOUS
    <2>2. hdr = e /\ got = e
      BY <1>1, <1>3
    <2>3. tail' = tail + 1 + e.size
      BY <2>1, <2>2
    <2>0. tail \in Nat /\ e.size \in Nat
      BY <1>2, <1>4
    <2>4. tail + 1 + e.size = tail + Need(e.size)
      BY ONLY <2>0 DEF Need
    <2>5. received' = Append(received, e)
      BY ONLY <2>1, <2>2
    <2> QED BY ONLY <2>3, <2>4, <2>5
  <1>7. /\ tail' \in Nat /\ tail' <= head /\ tail' >= tail /\ head - tail' <= Capacity
        /\ received' \in Seq(Event) /\ Len(received') + 1 = e.id + 1
    BY <1>2, <1>4, <1>5, <1>6, CapacityAssumption
  <1>8. TypeOK'
    BY <1>2, <1>7 DEF TypeOK
  <1>9. ConsumerInv'
    BY DEF ConsumerInv
  <1>10. Expects(tail + Need(e.size), e.id + 1)
    BY <1>2, <1>4 DEF StreamParses, ParsesAt
  <1>11. PICK t \in tail..head : t = tail + Need(e.size)
    BY <1>2, <1>4
  <1>12. PICK n \in Nat : n = e.id + 1
    BY <1>3 DEF Event
  <1>13. UnreadSame /\ SameEnd /\ head' >= head
    BY <1>2 DEF UnreadSame, SameEnd
  <1>14. t < head => (buf[Phys(t)] = SkipCell => PaddingAt(t))
    BY <1>2, <1>11 DEF StreamParses, ParsesAt
  <1>15. Expects(t, n)'
    BY <1>8, <1>10, <1>11, <1>12, <1>13, <1>14, ExpectsKept
  <1>16. Expects(tail, Len(received) + 1)'
    BY <1>6, <1>7, <1>11, <1>12, <1>15
  <1> QED BY <1>7, <1>8, <1>9, <1>16, ConsumerStep
-----------------------------------------------------------------------------
(* The theorems.                                                           *)

\* Every step leaves the invariant and the unread bytes as they were.
LEMMA NextStep == ASSUME IInv, [Next]_vars PROVE IInv' /\ UnreadSame
  <1>1. CASE UNCHANGED vars
    <2>1. TypeOK' /\ ConsumerInv'
      BY <1>1 DEF vars, producerVars, consumerVars, IInv, TypeOK, ConsumerInv, Due
    <2> QED BY <1>1, <2>1, LookStep DEF vars, producerVars, consumerVars, UnreadSame
  <1>2. CASE Producer
    <2>1. CASE \E n \in PayloadSizes : Request(n)
      BY <2>1, RequestStep DEF Request, UnreadSame
    <2>2. CASE LoadTail
      BY <2>2, LoadTailStep DEF LoadTail, UnreadSame
    <2>3. CASE Full
      BY <2>3, FullStep DEF Full, UnreadSame
    <2>4. CASE Pad
      BY <2>4, PadStep
    <2>5. CASE PublishPad
      BY <2>5, PublishPadStep DEF PublishPad, UnreadSame
    <2>6. CASE ReloadTail
      BY <2>6, ReloadTailStep DEF ReloadTail, UnreadSame
    <2>7. CASE Reserve
      BY <2>7, ReserveStep
    <2>8. CASE Recheck
      BY <2>8, RecheckStep
    <2>9. CASE Fill
      BY <2>9, FillStep
    <2>10. CASE Commit
      BY <2>10, CommitStep DEF Commit, UnreadSame
    <2> QED BY <1>2, <2>1, <2>2, <2>3, <2>4, <2>5, <2>6, <2>7, <2>8, <2>9, <2>10
        DEF Producer
  <1>3. CASE Consumer
    <2>1. CASE PeekSkip
      BY <2>1, PeekSkipStep DEF PeekSkip, UnreadSame
    <2>2. CASE SkipPadding
      BY <2>2, SkipPaddingStep DEF SkipPadding, UnreadSame
    <2>3. CASE PeekEvent
      BY <2>3, PeekEventStep DEF PeekEvent, UnreadSame
    <2>4. CASE ReadHeader
      BY <2>4, ReadHeaderStep DEF ReadHeader, UnreadSame
    <2>5. CASE ReadPayload
      BY <2>5, ReadPayloadStep DEF ReadPayload, ConsumeEvent, UnreadSame
    <2>6. CASE Consume
      BY <2>6, ConsumeStep DEF Consume, ConsumeEvent, UnreadSame
    <2> QED BY <1>3, <2>1, <2>2, <2>3, <2>4, <2>5, <2>6 DEF Consumer
  <1> QED BY <1>1, <1>2, <1>3 DEF Next

\* The inductive invariant holds throughout.
THEOREM Invariance == Spec => []IInv
  <1>1. Init => IInv
    BY InitInv
  <1>2. IInv /\ [Next]_vars => IInv'
    BY NextStep
  <1> QED BY <1>1, <1>2, PTL DEF Spec

\* The cursors of the ring stay within one capacity of each other and every
\* variable of reserve, commit and process_one_event keeps its type.
THEOREM TypeCorrectness == Spec => []TypeOK
  <1>1. IInv => TypeOK
    BY DEF IInv
  <1> QED BY <1>1, Invariance, PTL

\* What is between tail_ and head_ always parses as padding and whole frames,
\* the events following one another in the order of their commits.
THEOREM StreamAlwaysParses == Spec => []StreamParses
  <1>1. IInv => StreamParses
    BY DEF IInv
  <1> QED BY <1>1, Invariance, PTL

\* The second test for space in reserve cannot fail.
THEOREM RecheckAlwaysSucceeds == Spec => []RecheckSucceeds
  <1>1. IInv => RecheckSucceeds
    BY DEF IInv, ProducerInv, RecheckSucceeds
  <1> QED BY <1>1, Invariance, PTL

\* process_one_event never finds a part of a frame or a damaged one.
THEOREM NoPartialFrame == Spec => []NeverPartial
  <1>1. IInv => NeverPartial
    <2> SUFFICES ASSUME IInv PROVE NeverPartial
      OBVIOUS
    <2>1. cpc \in {"header", "payload", "consume"} => Readable >= Need(HdrSize)
      BY ReadableDue
    <2>2. cpc \in {"payload", "consume"} => FrameComplete /\ hdr.size <= MaxPayload
      BY ReadableDue DEF FrameComplete, IInv, ConsumerInv
    <2> QED BY <2>1, <2>2 DEF NeverPartial
  <1> QED BY <1>1, Invariance, PTL

\* reserve and the filling of a frame never touch a published, unread byte.
THEOREM NoOverwrite == Spec => UnreadUntouched
  <1>1. IInv /\ [Next]_vars =>
          [\A p \in tail..(head - 1) : buf'[Phys(p)] = buf[Phys(p)]]_vars
    BY NextStep DEF UnreadSame
  <1> QED BY <1>1, Invariance, PTL DEF Spec, UnreadUntouched

\* The ring is a first-in first-out channel: what the consumer takes out is
\* what the thread committed, in order, without loss or duplication.
THEOREM RingImplementsQueue == Spec => RingIsQueue
  <1>1. Init => Queue!Init
    BY DEF Init, Queue!Init
  <1>2. IInv /\ [Next]_vars => [Queue!Next]_Queue!vars
    <2> SUFFICES ASSUME IInv, [Next]_vars PROVE [Queue!Next]_Queue!vars
      OBVIOUS
    <2>1. CASE Commit
      <3>1. psize \in Nat /\ psize <= MaxPayload /\ Len(sent) < MaxEvents
            /\ sent \in Seq(Event)
        BY <2>1, Sizes DEF IInv, TypeOK, ProducerInv, Commit
      <3>2. Outgoing \in Event
        BY <3>1, BoundAssumption, PayloadAssumption DEF Outgoing, Event
      <3> QED BY <2>1, <3>2 DEF Commit, consumerVars, Queue!Next, Queue!Send
    <2>2. CASE Consume
      <3>1. got = Due /\ Len(received) + 1 \in 1..Len(sent)
        BY <2>2, ReadableDue DEF IInv, ConsumerInv, Consume
      <3>2. received \in Seq(Event) /\ sent \in Seq(Event)
        BY DEF IInv, TypeOK
      <3> QED BY <2>2, <3>1, <3>2
          DEF Consume, ConsumeEvent, producerVars, Due, Queue!Next, Queue!Receive
    <2>3. CASE ~Commit /\ ~Consume
      <3>1. UNCHANGED <<sent, received>>
        BY <2>3 DEF Next, Producer, Consumer, vars, producerVars, consumerVars,
             Request, LoadTail, Full, Pad, PublishPad, ReloadTail, Reserve, Recheck,
             WriteTag, Fill, PeekSkip, SkipPadding, PeekEvent, ReadHeader,
             ReadPayload, ConsumeEvent
      <3> QED BY <3>1 DEF Queue!vars
    <2> QED BY <2>1, <2>2, <2>3
  <1> QED BY <1>1, <1>2, Invariance, PTL
      DEF Spec, RingIsQueue, Queue!SafeSpec
=============================================================================
