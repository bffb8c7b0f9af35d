--------------------------- MODULE SpscRingProofs ---------------------------
(***************************************************************************)
(* Proofs about the SPSC ring of SpscRing, for every Capacity >= 2, every *)
(* MaxPacketSize, maxLength and bound on the number of pushes.            *)
(***************************************************************************)
EXTENDS SpscRing, SequenceTheorems, TLAPS

USE CapacityAssumption

(* The slot index arithmetic of push() and pop() without %: the successor *)
(* of the last slot is slot 0.                                             *)
LEMMA NextIdxValue ==
  ASSUME NEW i \in Slots
  PROVE  NextIdx(i) = IF i + 1 = Capacity THEN 0 ELSE i + 1
BY DEF NextIdx, Slots

(* The number of published slots, (writeIdx - readIdx) % Capacity.        *)
LEMMA DistanceValue ==
  ASSUME NEW r \in Slots, NEW w \in Slots
  PROVE  (w - r) % Capacity = IF r <= w THEN w - r ELSE w - r + Capacity
BY DEF Slots

(* The i-th published slot counted from readIdx.                          *)
LEMMA OffsetValue ==
  ASSUME NEW r \in Slots, NEW i \in 1 .. Capacity
  PROVE  (r + i - 1) % Capacity =
           IF r + i - 1 < Capacity THEN r + i - 1 ELSE r + i - 1 - Capacity
BY DEF Slots

(* The published slots of a ring with slot contents b, read index r and   *)
(* write index w; Contents is ContentsOf(buffer, readIdx, writeIdx).      *)
ContentsOf(b, r, w) == [i \in 1 .. (w - r) % Capacity |-> b[(r + i - 1) % Capacity]]

LEMMA ContentsIsSeq ==
  ASSUME NEW b \in [Slots -> Packet \cup {NoPacket}], NEW r \in Slots, NEW w \in Slots
  PROVE  /\ ContentsOf(b, r, w) \in Seq(Packet \cup {NoPacket})
         /\ Len(ContentsOf(b, r, w)) = (w - r) % Capacity
<1>1. (w - r) % Capacity \in 0 .. Capacity - 1
  BY DistanceValue DEF Slots
<1>2. \A i \in 1 .. (w - r) % Capacity : (r + i - 1) % Capacity \in Slots
  BY <1>1, OffsetValue DEF Slots
<1>. QED
  BY <1>1, <1>2 DEF ContentsOf

(* push() publishing slot w appends that slot to the published contents.  *)
LEMMA ContentsAfterPush ==
  ASSUME NEW b \in [Slots -> Packet \cup {NoPacket}], NEW r \in Slots, NEW w \in Slots,
         ~IsFull(w, r)
  PROVE  ContentsOf(b, r, NextIdx(w)) = Append(ContentsOf(b, r, w), b[w])
<1>1. (w - r) % Capacity = IF r <= w THEN w - r ELSE w - r + Capacity
  BY DistanceValue
<1>2. NextIdx(w) = IF w + 1 = Capacity THEN 0 ELSE w + 1
  BY NextIdxValue
<1>3. NextIdx(w) \in Slots
  BY <1>2 DEF Slots
<1>4. (NextIdx(w) - r) % Capacity =
        IF r <= NextIdx(w) THEN NextIdx(w) - r ELSE NextIdx(w) - r + Capacity
  BY <1>3, DistanceValue
<1>5. (NextIdx(w) - r) % Capacity = ((w - r) % Capacity) + 1
  BY <1>1, <1>2, <1>4 DEF IsFull, Slots
<1>6. (w - r) % Capacity \in 0 .. Capacity - 2
  BY <1>1, <1>2 DEF IsFull, Slots
<1>7. PICK n \in 0 .. Capacity - 2 : n = (w - r) % Capacity
  BY <1>6
<1>8. (r + (n + 1) - 1) % Capacity = w
  BY <1>1, <1>7, OffsetValue DEF Slots
<1>9. ContentsOf(b, r, NextIdx(w)) = [i \in 1 .. n + 1 |-> b[(r + i - 1) % Capacity]]
  BY <1>5, <1>7 DEF ContentsOf
<1>10. ContentsOf(b, r, w) = [i \in 1 .. n |-> b[(r + i - 1) % Capacity]]
  BY <1>7 DEF ContentsOf
<1>11. /\ ContentsOf(b, r, w) \in Seq(Packet \cup {NoPacket})
       /\ Len(ContentsOf(b, r, w)) = n
  BY <1>7, ContentsIsSeq
<1>12. /\ ContentsOf(b, r, NextIdx(w)) \in Seq(Packet \cup {NoPacket})
       /\ Len(ContentsOf(b, r, NextIdx(w))) = n + 1
  BY <1>3, <1>5, <1>7, ContentsIsSeq
<1>13. /\ Append(ContentsOf(b, r, w), b[w]) \in Seq(Packet \cup {NoPacket})
       /\ Len(Append(ContentsOf(b, r, w), b[w])) = n + 1
       /\ \A i \in 1 .. n : Append(ContentsOf(b, r, w), b[w])[i] = ContentsOf(b, r, w)[i]
       /\ Append(ContentsOf(b, r, w), b[w])[n + 1] = b[w]
  BY <1>11, AppendProperties
<1>14. ASSUME NEW j \in 1 .. n + 1
       PROVE  ContentsOf(b, r, NextIdx(w))[j] = Append(ContentsOf(b, r, w), b[w])[j]
  <2>1. CASE j <= n
    <3>1. ContentsOf(b, r, NextIdx(w))[j] = b[(r + j - 1) % Capacity]
      BY <1>9
    <3>2. ContentsOf(b, r, w)[j] = b[(r + j - 1) % Capacity]
      BY <2>1, <1>10
    <3>3. Append(ContentsOf(b, r, w), b[w])[j] = ContentsOf(b, r, w)[j]
      BY <2>1, <1>13
    <3>. QED
      BY <3>1, <3>2, <3>3
  <2>2. CASE j = n + 1
    <3>1. ContentsOf(b, r, NextIdx(w))[j] = b[w]
      BY <2>2, <1>8, <1>9
    <3>2. Append(ContentsOf(b, r, w), b[w])[j] = b[w]
      BY <2>2, <1>13
    <3>. QED
      BY <3>1, <3>2
  <2>3. j <= n \/ j = n + 1
    OBVIOUS
  <2>. QED
    BY <2>1, <2>2, <2>3, Zenon
<1>. QED
  BY <1>12, <1>13, <1>14, SeqEqual

(* pop() releasing slot r removes the head of the published contents,     *)
(* and that head is slot r.                                                *)
LEMMA ContentsAfterPop ==
  ASSUME NEW b \in [Slots -> Packet \cup {NoPacket}], NEW r \in Slots, NEW w \in Slots,
         ~IsEmpty(r, w)
  PROVE  /\ ContentsOf(b, r, w) /= << >>
         /\ Head(ContentsOf(b, r, w)) = b[r]
         /\ ContentsOf(b, NextIdx(r), w) = Tail(ContentsOf(b, r, w))
<1>1. (w - r) % Capacity = IF r <= w THEN w - r ELSE w - r + Capacity
  BY DistanceValue
<1>2. PICK n \in 1 .. Capacity - 1 : n = (w - r) % Capacity
  BY <1>1 DEF IsEmpty, Slots
<1>3. NextIdx(r) = IF r + 1 = Capacity THEN 0 ELSE r + 1
  BY NextIdxValue
<1>4. NextIdx(r) \in Slots
  BY <1>3 DEF Slots
<1>5. (w - NextIdx(r)) % Capacity = n - 1
  <2>1. (w - NextIdx(r)) % Capacity =
          IF NextIdx(r) <= w THEN w - NextIdx(r) ELSE w - NextIdx(r) + Capacity
    BY <1>4, DistanceValue
  <2>. QED
    BY <1>1, <1>2, <1>3, <2>1 DEF IsEmpty, Slots
<1>6. ASSUME NEW i \in 1 .. n - 1
      PROVE  (NextIdx(r) + i - 1) % Capacity = (r + (i + 1) - 1) % Capacity
  <2>1. (NextIdx(r) + i - 1) % Capacity =
          IF NextIdx(r) + i - 1 < Capacity THEN NextIdx(r) + i - 1
                                           ELSE NextIdx(r) + i - 1 - Capacity
    BY <1>4, OffsetValue DEF Slots
  <2>2. (r + (i + 1) - 1) % Capacity =
          IF r + (i + 1) - 1 < Capacity THEN r + (i + 1) - 1
                                       ELSE r + (i + 1) - 1 - Capacity
    BY OffsetValue DEF Slots
  <2>. QED
    BY <1>3, <2>1, <2>2 DEF Slots
<1>7. /\ ContentsOf(b, r, w) = [i \in 1 .. n |-> b[(r + i - 1) % Capacity]]
      /\ ContentsOf(b, r, w) \in Seq(Packet \cup {NoPacket})
      /\ Len(ContentsOf(b, r, w)) = n
  <2>1. ContentsOf(b, r, w) = [i \in 1 .. n |-> b[(r + i - 1) % Capacity]]
    BY <1>2 DEF ContentsOf
  <2>. QED
    BY <1>2, <2>1, ContentsIsSeq
<1>8. /\ ContentsOf(b, NextIdx(r), w) =
           [i \in 1 .. n - 1 |-> b[(NextIdx(r) + i - 1) % Capacity]]
      /\ ContentsOf(b, NextIdx(r), w) \in Seq(Packet \cup {NoPacket})
      /\ Len(ContentsOf(b, NextIdx(r), w)) = n - 1
  <2>1. ContentsOf(b, NextIdx(r), w) =
          [i \in 1 .. n - 1 |-> b[(NextIdx(r) + i - 1) % Capacity]]
    BY <1>5 DEF ContentsOf
  <2>2. /\ ContentsOf(b, NextIdx(r), w) \in Seq(Packet \cup {NoPacket})
        /\ Len(ContentsOf(b, NextIdx(r), w)) = (w - NextIdx(r)) % Capacity
    BY <1>4, ContentsIsSeq
  <2>. QED
    BY <1>5, <2>1, <2>2
<1>9. ContentsOf(b, r, w) /= << >>
  BY <1>2, <1>7
<1>10. /\ Tail(ContentsOf(b, r, w)) \in Seq(Packet \cup {NoPacket})
       /\ Len(Tail(ContentsOf(b, r, w))) = n - 1
       /\ \A i \in 1 .. n - 1 : Tail(ContentsOf(b, r, w))[i] = ContentsOf(b, r, w)[i + 1]
  BY <1>7, <1>9, HeadTailProperties
<1>11. Head(ContentsOf(b, r, w)) = b[r]
  <2>1. (r + 1 - 1) % Capacity = r
    BY DEF Slots
  <2>. QED
    BY <1>2, <1>7, <2>1
<1>12. ASSUME NEW i \in 1 .. n - 1
       PROVE  ContentsOf(b, NextIdx(r), w)[i] = Tail(ContentsOf(b, r, w))[i]
  <2>1. ContentsOf(b, NextIdx(r), w)[i] = b[(NextIdx(r) + i - 1) % Capacity]
    BY <1>8
  <2>2. ContentsOf(b, r, w)[i + 1] = b[(r + (i + 1) - 1) % Capacity]
    BY <1>7
  <2>. QED
    BY <1>6, <1>10, <2>1, <2>2
<1>. QED
  BY <1>8, <1>9, <1>10, <1>11, <1>12, SeqEqual

(* push() writing the slot at the write index leaves the published       *)
(* contents alone: that slot is not published.                            *)
LEMMA ContentsAfterWrite ==
  ASSUME NEW b \in [Slots -> Packet \cup {NoPacket}], NEW r \in Slots, NEW w \in Slots,
         NEW x, ~IsFull(w, r)
  PROVE  ContentsOf([b EXCEPT ![w] = x], r, w) = ContentsOf(b, r, w)
<1>1. (w - r) % Capacity = IF r <= w THEN w - r ELSE w - r + Capacity
  BY DistanceValue
<1>2. PICK n \in 0 .. Capacity - 1 : n = (w - r) % Capacity
  BY <1>1 DEF Slots
<1>3. ASSUME NEW i \in 1 .. n
      PROVE  /\ (r + i - 1) % Capacity \in Slots
             /\ (r + i - 1) % Capacity # w
  <2>1. (r + i - 1) % Capacity =
          IF r + i - 1 < Capacity THEN r + i - 1 ELSE r + i - 1 - Capacity
    BY OffsetValue DEF Slots
  <2>. QED
    BY <1>1, <1>2, <2>1 DEF Slots
<1>. QED
  BY <1>2, <1>3 DEF ContentsOf
(* Two facts about concatenation: appending to the right operand, and     *)
(* moving the head of the right operand to the end of the left one.       *)
LEMMA ConcatAppend ==
  ASSUME NEW S, NEW s \in Seq(S), NEW t \in Seq(S), NEW x \in S
  PROVE  s \o Append(t, x) = Append(s \o t, x)
<1>1. Append(t, x) = t \o << x >>
  BY AppendIsConcat
<1>2. Append(s \o t, x) = (s \o t) \o << x >>
  BY ConcatProperties, AppendIsConcat
<1>3. (s \o t) \o << x >> = s \o (t \o << x >>)
  BY ConcatAssociative
<1>. QED
  BY <1>1, <1>2, <1>3

LEMMA ConcatMoveHead ==
  ASSUME NEW S, NEW s \in Seq(S), NEW t \in Seq(S), t /= << >>
  PROVE  Append(s, Head(t)) \o Tail(t) = s \o t
<1>1. /\ Head(t) \in S
      /\ Tail(t) \in Seq(S)
      /\ Len(Tail(t)) = Len(t) - 1
      /\ \A i \in 1 .. Len(t) - 1 : Tail(t)[i] = t[i + 1]
  BY HeadTailProperties
<1>2. t = << Head(t) >> \o Tail(t)
  <2>1. << Head(t) >> \o Tail(t) \in Seq(S)
        /\ Len(<< Head(t) >> \o Tail(t)) = Len(t)
    BY <1>1, ConcatProperties
  <2>2. \A i \in 1 .. Len(t) : (<< Head(t) >> \o Tail(t))[i] = t[i]
    BY <1>1, ConcatProperties
  <2>. QED
    BY <2>1, <2>2, SeqEqual
<1>3. Append(s, Head(t)) = s \o << Head(t) >>
  BY <1>1, AppendIsConcat
<1>4. (s \o << Head(t) >>) \o Tail(t) = s \o (<< Head(t) >> \o Tail(t))
  BY <1>1, ConcatAssociative
<1>. QED
  BY <1>2, <1>3, <1>4

(* The successor of a slot is a slot, and different slots have different  *)
(* successors.                                                              *)
LEMMA NextIdxSlots ==
  ASSUME NEW i \in Slots, NEW j \in Slots
  PROVE  /\ NextIdx(i) \in Slots
         /\ NextIdx(i) = NextIdx(j) => i = j
BY NextIdxValue DEF Slots

-----------------------------------------------------------------------------
(* The inductive invariant.  Besides the types it records what each thread *)
(* knows between the steps of its call: a producer inside push() holds a    *)
(* packet for the write slot, which is not full and not published; once it *)
(* has copied, the slot holds the packet.  A consumer inside pop() holds    *)
(* the read slot, which is published; once it has copied, it holds the     *)
(* packet of that slot.  The published slots hold packets.                  *)
IInv ==
  /\ TypeOK
  /\ pcP /= "idle" => /\ pPkt \in Packet
                      /\ pIdx = writeIdx
                      /\ ~IsFull(writeIdx, readIdx)
  /\ pcP = "publish" => buffer[pIdx] = pPkt
  /\ pcC /= "idle" => /\ cIdx = readIdx
                      /\ ~IsEmpty(readIdx, writeIdx)
  /\ pcC = "publish" => cPkt = buffer[cIdx]
  /\ Contents \in Seq(Packet)
  /\ NoLossNoDuplication

(* Contents is the ContentsOf the ring's state.                            *)
LEMMA ContentsIsContentsOf ==
  /\ Contents = ContentsOf(buffer, readIdx, writeIdx)
  /\ Contents' = ContentsOf(buffer', readIdx', writeIdx')
BY DEF Contents, Count, ContentsOf

LEMMA InitIInv == Init => IInv
<1> SUFFICES ASSUME Init PROVE IInv
  OBVIOUS
<1>1. Contents = << >>
  <2>1. Count = 0
    BY DEF Init, Count
  <2>. QED
    BY <2>1 DEF Contents
<1>2. TypeOK
  <2>1. buffer \in [Slots -> Packet \cup {NoPacket}]
    BY DEF Init
  <2>2. << >> \in Seq(Packet)
    OBVIOUS
  <2>3. 0 \in Slots /\ 0 \in 0 .. MaxPushes
    BY MaxPushesAssumption DEF Slots
  <2>. QED
    BY <2>1, <2>2, <2>3 DEF Init, TypeOK
<1>. QED
  BY <1>1, <1>2 DEF Init, IInv, NoLossNoDuplication

(* The steps that leave the ring's indices and slots alone.               *)
LEMMA PushRejectIInv ==
  ASSUME IInv, NEW len \in Lengths, PushReject(len)
  PROVE  IInv'
<1>1. Contents' = Contents
  BY DEF PushReject, ringVars, Contents, Count
<1>2. TypeOK'
  <2>1. /\ UNCHANGED <<buffer, writeIdx, readIdx, pcP, pIdx, pPkt, pushed>>
        /\ UNCHANGED <<pcC, cIdx, cPkt, cRet, popped>>
        /\ attempts' = attempts + 1
        /\ pRet' = FALSE
    BY DEF PushReject, ringVars, consVars
  <2>2. attempts + 1 \in 0 .. MaxPushes
    BY MaxPushesAssumption DEF IInv, TypeOK, PushReject
  <2>. QED
    BY <2>1, <2>2 DEF IInv, TypeOK, Slots
<1>. QED
  BY <1>1, <1>2 DEF IInv, PushReject, ringVars, consVars, NoLossNoDuplication

LEMMA PushBeginIInv ==
  ASSUME IInv, NEW len \in Lengths, PushBegin(len)
  PROVE  IInv'
<1>1. Contents' = Contents
  BY DEF PushBegin, ringVars, Contents, Count
<1>2. pPkt' \in Packet
  <2>1. len \in 0 .. MaxPacketSize /\ attempts + 1 \in 1 .. MaxPushes
    BY LengthsAssumption, MaxPushesAssumption DEF IInv, TypeOK, PushBegin
  <2>. QED
    BY <2>1 DEF PushBegin, Packet
<1>3. TypeOK'
  <2>1. /\ UNCHANGED <<buffer, writeIdx, readIdx, pRet, pushed>>
        /\ UNCHANGED <<pcC, cIdx, cPkt, cRet, popped>>
        /\ pcP' = "copy"
        /\ pIdx' = writeIdx
    BY DEF PushBegin, ringVars, consVars
  <2>2. attempts' \in 0 .. MaxPushes
    BY MaxPushesAssumption DEF IInv, TypeOK, PushBegin
  <2>. QED
    BY <1>2, <2>1, <2>2 DEF IInv, TypeOK, Slots
<1>. QED
  BY <1>1, <1>2, <1>3 DEF IInv, PushBegin, ringVars, consVars, NoLossNoDuplication

(* push() copying into the write slot: the slot is not published, so the *)
(* contents stay, and the consumer is not on that slot.                    *)
LEMMA PushCopyIInv ==
  ASSUME IInv, PushCopy
  PROVE  IInv'
<1>1. /\ TypeOK
      /\ pIdx = writeIdx
      /\ ~IsFull(writeIdx, readIdx)
      /\ pPkt \in Packet
  BY DEF IInv, PushCopy
<1>2. buffer' = [buffer EXCEPT ![writeIdx] = pPkt]
  BY <1>1 DEF PushCopy
<1>3. ContentsOf([buffer EXCEPT ![writeIdx] = pPkt], readIdx, writeIdx) =
        ContentsOf(buffer, readIdx, writeIdx)
  <2>1. /\ buffer \in [Slots -> Packet \cup {NoPacket}]
        /\ writeIdx \in Slots
        /\ readIdx \in Slots
    BY <1>1 DEF TypeOK
  <2>2. ~IsFull(writeIdx, readIdx)
    BY <1>1
  <2>. QED
    BY <2>1, <2>2, ContentsAfterWrite, Zenon
<1>4. Contents' = Contents
  BY <1>2, <1>3, ContentsIsContentsOf DEF PushCopy
<1>5. pcC /= "idle" => cIdx # pIdx
  BY <1>1 DEF IInv, IsEmpty
<1>6. TypeOK'
  BY <1>1, <1>2 DEF TypeOK, PushCopy, consVars, Slots
<1>. QED
  BY <1>1, <1>2, <1>4, <1>5, <1>6 DEF IInv, PushCopy, consVars, NoLossNoDuplication, TypeOK

(* push() publishing the write slot: the contents grow by the pushed      *)
(* packet, and a consumer inside pop() still sees a non-empty ring.       *)
LEMMA PushPublishIInv ==
  ASSUME IInv, PushPublish
  PROVE  IInv'
<1>1. /\ TypeOK
      /\ pIdx = writeIdx
      /\ ~IsFull(writeIdx, readIdx)
      /\ pPkt \in Packet
      /\ buffer[writeIdx] = pPkt
      /\ Contents \in Seq(Packet)
      /\ popped \o Contents = pushed
  BY DEF IInv, PushPublish, NoLossNoDuplication
<1>2. /\ writeIdx' = NextIdx(writeIdx)
      /\ NextIdx(writeIdx) \in Slots
  BY <1>1, NextIdxSlots DEF PushPublish, TypeOK
<1>3. ContentsOf(buffer, readIdx, NextIdx(writeIdx)) =
        Append(ContentsOf(buffer, readIdx, writeIdx), buffer[writeIdx])
  BY <1>1, ContentsAfterPush DEF TypeOK
<1>4. Contents' = Append(Contents, pPkt)
  BY <1>1, <1>2, <1>3, ContentsIsContentsOf DEF PushPublish
<1>5. Contents' \in Seq(Packet)
  BY <1>1, <1>4, AppendProperties
<1>6. popped' \o Contents' = pushed'
  <2>1. popped \o Append(Contents, pPkt) = Append(popped \o Contents, pPkt)
    BY <1>1, ConcatAppend DEF TypeOK
  <2>. QED
    BY <1>1, <1>4, <2>1 DEF PushPublish, consVars
<1>7. pcC /= "idle" => ~IsEmpty(readIdx, writeIdx')
  BY <1>1, <1>2 DEF IsEmpty, IsFull
<1>8. pushed' \in Seq(Packet)
  BY <1>1, AppendProperties DEF PushPublish, TypeOK
<1>9. TypeOK'
  BY <1>1, <1>2, <1>8 DEF TypeOK, PushPublish, consVars, Slots
<1>. QED
  BY <1>1, <1>2, <1>5, <1>6, <1>7, <1>9 DEF IInv, PushPublish, consVars, NoLossNoDuplication

(* pop() finding the ring empty, starting, or stopping at the length check *)
(* or the copy: the ring's indices and slots and the histories stay.      *)
LEMMA PopEmptyIInv ==
  ASSUME IInv, PopEmpty
  PROVE  IInv'
<1>1. Contents' = Contents
  BY DEF PopEmpty, ringVars, Contents, Count
<1>2. TypeOK'
  BY DEF IInv, TypeOK, PopEmpty, ringVars, prodVars, Slots
<1>. QED
  BY <1>1, <1>2 DEF IInv, PopEmpty, ringVars, prodVars, NoLossNoDuplication

LEMMA PopBeginIInv ==
  ASSUME IInv, PopBegin
  PROVE  IInv'
<1>1. Contents' = Contents
  BY DEF PopBegin, ringVars, Contents, Count
<1>2. TypeOK'
  BY DEF IInv, TypeOK, PopBegin, ringVars, prodVars, Slots
<1>. QED
  BY <1>1, <1>2 DEF IInv, PopBegin, ringVars, prodVars, NoLossNoDuplication

LEMMA PopTooLongIInv ==
  ASSUME IInv, PopTooLong
  PROVE  IInv'
<1>1. Contents' = Contents
  BY DEF PopTooLong, ringVars, Contents, Count
<1>2. buffer[cIdx] \in Packet \cup {NoPacket}
  BY DEF IInv, TypeOK, Slots
<1>3. TypeOK'
  BY <1>2 DEF IInv, TypeOK, PopTooLong, ringVars, prodVars, Slots
<1>. QED
  BY <1>1, <1>3 DEF IInv, PopTooLong, ringVars, prodVars, NoLossNoDuplication

LEMMA PopCopyIInv ==
  ASSUME IInv, PopCopy
  PROVE  IInv'
<1>1. Contents' = Contents
  BY DEF PopCopy, ringVars, Contents, Count
<1>2. buffer[cIdx] \in Packet \cup {NoPacket}
  BY DEF IInv, TypeOK, Slots
<1>3. TypeOK'
  BY <1>2 DEF IInv, TypeOK, PopCopy, ringVars, prodVars, Slots
<1>. QED
  BY <1>1, <1>3 DEF IInv, PopCopy, ringVars, prodVars, NoLossNoDuplication

(* pop() releasing the read slot: the head of the contents moves to the   *)
(* popped packets, and a producer inside push() still sees a ring that is *)
(* not full.                                                                *)
LEMMA PopPublishIInv ==
  ASSUME IInv, PopPublish
  PROVE  IInv'
<1>1. /\ TypeOK
      /\ cIdx = readIdx
      /\ ~IsEmpty(readIdx, writeIdx)
      /\ cPkt = buffer[readIdx]
      /\ Contents \in Seq(Packet)
      /\ popped \o Contents = pushed
  BY DEF IInv, PopPublish, NoLossNoDuplication
<1>2. /\ readIdx' = NextIdx(readIdx)
      /\ NextIdx(readIdx) \in Slots
  BY <1>1, NextIdxSlots DEF PopPublish, TypeOK
<1>3. /\ ContentsOf(buffer, readIdx, writeIdx) /= << >>
      /\ Head(ContentsOf(buffer, readIdx, writeIdx)) = buffer[readIdx]
      /\ ContentsOf(buffer, NextIdx(readIdx), writeIdx) =
           Tail(ContentsOf(buffer, readIdx, writeIdx))
  <2>1. /\ buffer \in [Slots -> Packet \cup {NoPacket}]
        /\ writeIdx \in Slots
        /\ readIdx \in Slots
    BY <1>1 DEF TypeOK
  <2>2. ~IsEmpty(readIdx, writeIdx)
    BY <1>1
  <2>. QED
    BY <2>1, <2>2, ContentsAfterPop, Zenon
<1>4. /\ Contents /= << >>
      /\ Head(Contents) = cPkt
      /\ Contents' = Tail(Contents)
  BY <1>1, <1>2, <1>3, ContentsIsContentsOf DEF PopPublish
<1>5. /\ cPkt \in Packet
      /\ Tail(Contents) \in Seq(Packet)
  BY <1>1, <1>4, HeadTailProperties
<1>6. popped' \o Contents' = pushed'
  <2>1. Append(popped, Head(Contents)) \o Tail(Contents) = popped \o Contents
    BY <1>1, <1>4, ConcatMoveHead DEF TypeOK
  <2>. QED
    BY <1>1, <1>4, <2>1 DEF PopPublish, prodVars
<1>7. pcP /= "idle" => ~IsFull(writeIdx, readIdx')
  <2>1. NextIdx(writeIdx) = NextIdx(readIdx) => writeIdx = readIdx
    BY <1>1, NextIdxSlots DEF TypeOK
  <2>. QED
    BY <1>1, <1>2, <2>1 DEF IsFull, IsEmpty
<1>8. popped' \in Seq(Packet)
  BY <1>1, <1>5, AppendProperties DEF PopPublish, TypeOK
<1>9. TypeOK'
  BY <1>1, <1>2, <1>8 DEF TypeOK, PopPublish, prodVars, Slots
<1>. QED
  BY <1>1, <1>2, <1>4, <1>5, <1>6, <1>7, <1>9
  DEF IInv, PopPublish, prodVars, NoLossNoDuplication

(* A stuttering step leaves every variable, and so IInv, alone.            *)
LEMMA StutterIInv ==
  ASSUME IInv, UNCHANGED vars
  PROVE  IInv'
<1>1. Contents' = Contents
  BY DEF vars, ringVars, Contents, Count
<1>. QED
  BY <1>1 DEF vars, ringVars, prodVars, consVars, IInv, TypeOK, Slots,
             NoLossNoDuplication, IsFull, IsEmpty, NextIdx

LEMMA NextIInv == IInv /\ [Next]_vars => IInv'
<1> SUFFICES ASSUME IInv, [Next]_vars PROVE IInv'
  OBVIOUS
<1>1. ASSUME NEW len \in Lengths, PushReject(len) \/ PushBegin(len)
      PROVE  IInv'
  BY <1>1, PushRejectIInv, PushBeginIInv
<1>2. CASE Producer
  BY <1>1, <1>2, PushCopyIInv, PushPublishIInv DEF Producer
<1>3. CASE Consumer
  BY <1>3, PopEmptyIInv, PopBeginIInv, PopTooLongIInv, PopCopyIInv,
     PopPublishIInv DEF Consumer
<1>4. CASE UNCHANGED vars
  BY <1>4, StutterIInv
<1>. QED
  BY <1>2, <1>3, <1>4 DEF Next

(* The ring's invariant holds in every state of every behaviour.          *)
THEOREM IInvInvariant == Spec => []IInv
<1>1. Init => IInv
  BY InitIInv
<1>2. IInv /\ [Next]_vars => IInv'
  BY NextIInv
<1>. QED
  BY <1>1, <1>2, PTL DEF Spec

(* Type correctness of push() and pop(): the indices stay slots, the      *)
(* slots hold packets of at most MaxPacketSize bytes, the call counter     *)
(* stays within its bound.                                                  *)
THEOREM TypeCorrect == Spec => []TypeOK
BY IInvInvariant, PTL DEF IInv

(* No loss, no duplication, no reordering through the ring, whatever the  *)
(* interleaving of the producer's and the consumer's steps, for every     *)
(* Capacity >= 2: popped \o Contents = pushed in every state.             *)
THEOREM NoLossNoDuplicationInvariant == Spec => []NoLossNoDuplication
BY IInvInvariant, PTL DEF IInv

(* The memcpy of push() and the memcpy of pop() never work on the same    *)
(* slot: a producer inside push() is on the write slot, a consumer inside *)
(* pop() is on the read slot, and the two differ while pop() is inside    *)
(* its call because the ring is then not empty.                            *)
LEMMA IInvNoSlotRace == IInv => NoSlotRace
BY DEF IInv, NoSlotRace, IsEmpty

THEOREM NoSlotRaceInvariant == Spec => []NoSlotRace
BY IInvInvariant, IInvNoSlotRace, PTL
=============================================================================
