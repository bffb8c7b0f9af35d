------------------------- MODULE SpscRingRefinement -------------------------
(***************************************************************************)
(* The proof that LockFreeRingBuffer, as SpscRing models push() and pop(),*)
(* implements the bounded FIFO queue of BoundedQueue under the mapping of *)
(* SpscRing's Queue instance: the queue is the published slots from       *)
(* m_readIdx up to m_writeIdx, the histories are pushed and popped.       *)
(*                                                                         *)
(* The release store of m_writeIdx at the end of push() is the queue's    *)
(* Put, the release store of m_readIdx at the end of pop() is its Take;   *)
(* every other step (the checks, both memcpy calls, the early returns)    *)
(* leaves the published slots alone and is a stutter.  The step of push() *)
(* that writes the slot needs IInv: that slot is not published.           *)
(***************************************************************************)
EXTENDS SpscRingProofs

USE CapacityAssumption

(* A ring that is not full holds fewer than Capacity - 1 published slots: *)
(* the one slot push() keeps free is what tells full from empty.          *)
LEMMA CountBelowBound ==
  ASSUME NEW r \in Slots, NEW w \in Slots, ~IsFull(w, r)
  PROVE  (w - r) % Capacity < Capacity - 1
<1>1. (w - r) % Capacity = IF r <= w THEN w - r ELSE w - r + Capacity
  BY DistanceValue
<1>2. NextIdx(w) = IF w + 1 = Capacity THEN 0 ELSE w + 1
  BY NextIdxValue
<1>. QED
  BY <1>1, <1>2 DEF IsFull, Slots

(* The publish of m_writeIdx appends the packet the producer copied to    *)
(* the published slots, which were fewer than Capacity - 1.               *)
LEMMA PushPublishContents ==
  ASSUME IInv, PushPublish
  PROVE  /\ pPkt \in Packet
         /\ Len(Contents) < Capacity - 1
         /\ Contents' = Append(Contents, pPkt)
<1>1. /\ TypeOK
      /\ pIdx = writeIdx
      /\ ~IsFull(writeIdx, readIdx)
      /\ pPkt \in Packet
      /\ buffer[writeIdx] = pPkt
  BY DEF IInv, PushPublish
<1>2. /\ buffer \in [Slots -> Packet \cup {NoPacket}]
      /\ writeIdx \in Slots
      /\ readIdx \in Slots
  BY <1>1 DEF TypeOK
<1>3. Len(Contents) < Capacity - 1
  <2>1. Len(ContentsOf(buffer, readIdx, writeIdx)) = (writeIdx - readIdx) % Capacity
    BY <1>2, ContentsIsSeq
  <2>2. (writeIdx - readIdx) % Capacity < Capacity - 1
    BY <1>1, <1>2, CountBelowBound
  <2>. QED
    BY <2>1, <2>2, ContentsIsContentsOf
<1>4. ContentsOf(buffer, readIdx, NextIdx(writeIdx)) =
        Append(ContentsOf(buffer, readIdx, writeIdx), buffer[writeIdx])
  BY <1>1, <1>2, ContentsAfterPush
<1>5. Contents' = Append(Contents, pPkt)
  BY <1>1, <1>4, ContentsIsContentsOf DEF PushPublish
<1>. QED
  BY <1>1, <1>3, <1>5

(* The publish of m_readIdx removes the head of the published slots, and  *)
(* that head is the packet the consumer copied out.                        *)
LEMMA PopPublishContents ==
  ASSUME IInv, PopPublish
  PROVE  /\ Contents /= << >>
         /\ cPkt = Head(Contents)
         /\ Contents' = Tail(Contents)
<1>1. /\ TypeOK
      /\ cIdx = readIdx
      /\ ~IsEmpty(readIdx, writeIdx)
      /\ cPkt = buffer[readIdx]
  BY DEF IInv, PopPublish
<1>2. /\ buffer \in [Slots -> Packet \cup {NoPacket}]
      /\ writeIdx \in Slots
      /\ readIdx \in Slots
  BY <1>1 DEF TypeOK
<1>3. /\ ContentsOf(buffer, readIdx, writeIdx) /= << >>
      /\ Head(ContentsOf(buffer, readIdx, writeIdx)) = buffer[readIdx]
      /\ ContentsOf(buffer, NextIdx(readIdx), writeIdx) =
           Tail(ContentsOf(buffer, readIdx, writeIdx))
  BY <1>1, <1>2, ContentsAfterPop, Zenon
<1>. QED
  BY <1>1, <1>3, ContentsIsContentsOf DEF PopPublish

(* The copy into the write slot is invisible to the queue.                *)
LEMMA PushCopyContents ==
  ASSUME IInv, PushCopy
  PROVE  Contents' = Contents
<1>1. /\ TypeOK
      /\ pIdx = writeIdx
      /\ ~IsFull(writeIdx, readIdx)
  BY DEF IInv, PushCopy
<1>2. /\ buffer \in [Slots -> Packet \cup {NoPacket}]
      /\ writeIdx \in Slots
      /\ readIdx \in Slots
  BY <1>1 DEF TypeOK
<1>3. ContentsOf([buffer EXCEPT ![writeIdx] = pPkt], readIdx, writeIdx) =
        ContentsOf(buffer, readIdx, writeIdx)
  BY <1>1, <1>2, ContentsAfterWrite, Zenon
<1>. QED
  BY <1>1, <1>3, ContentsIsContentsOf DEF PushCopy

-----------------------------------------------------------------------------
(* Every step of push() and pop() is a step of the bounded FIFO queue or  *)
(* leaves the queue and its histories unchanged.                           *)
LEMMA NextRefines ==
  IInv /\ [Next]_vars => [Queue!Next]_Queue!vars
<1> SUFFICES ASSUME IInv, [Next]_vars PROVE [Queue!Next]_Queue!vars
  OBVIOUS
<1>1. CASE PushPublish
  <2>1. /\ pPkt \in Packet
        /\ Len(Contents) < Capacity - 1
        /\ Contents' = Append(Contents, pPkt)
    BY <1>1, PushPublishContents
  <2>2. Queue!Put(pPkt)
    BY <1>1, <2>1 DEF PushPublish, consVars, Queue!Put
  <2>. QED
    BY <2>1, <2>2 DEF Queue!Next
<1>2. CASE PopPublish
  <2>1. /\ Contents /= << >>
        /\ cPkt = Head(Contents)
        /\ Contents' = Tail(Contents)
    BY <1>2, PopPublishContents
  <2>2. Queue!Take
    BY <1>2, <2>1 DEF PopPublish, prodVars, Queue!Take
  <2>. QED
    BY <2>2 DEF Queue!Next
<1>3. CASE PushCopy
  BY <1>3, PushCopyContents DEF PushCopy, consVars, Queue!vars
<1>4. ASSUME NEW len \in Lengths, PushReject(len) \/ PushBegin(len)
      PROVE  UNCHANGED Queue!vars
  <2>1. UNCHANGED <<buffer, writeIdx, readIdx, pushed, popped>>
    BY <1>4 DEF PushReject, PushBegin, ringVars, consVars
  <2>. QED
    BY <2>1 DEF Contents, Count, Queue!vars
<1>5. CASE PopEmpty \/ PopBegin \/ PopTooLong \/ PopCopy
  BY <1>5 DEF PopEmpty, PopBegin, PopTooLong, PopCopy, ringVars, prodVars,
              Contents, Count, Queue!vars
<1>6. CASE UNCHANGED vars
  BY <1>6 DEF vars, ringVars, prodVars, consVars, Contents, Count, Queue!vars
<1>. QED
  BY <1>1, <1>2, <1>3, <1>4, <1>5, <1>6 DEF Next, Producer, Consumer

(* The ring starts as the empty queue with empty histories.                *)
LEMMA InitRefines == Init => Queue!Init
<1> SUFFICES ASSUME Init PROVE Queue!Init
  OBVIOUS
<1>1. Count = 0
  BY DEF Init, Count
<1>. QED
  BY <1>1 DEF Init, Contents, Queue!Init

(* LockFreeRingBuffer implements a FIFO queue of Capacity - 1 packets:    *)
(* under every interleaving of push() and pop() on their two threads, for *)
(* every Capacity >= 2, the published slots, the accepted pushes and the  *)
(* successful pops behave as BoundedQueue's queue and histories, the      *)
(* publish of m_writeIdx being the queue's Put and that of m_readIdx its  *)
(* Take.  BoundedQueue states no fairness, so this is all of QueueSpec.  *)
THEOREM RingImplementsQueue == Spec => QueueSpec
<1>1. Spec => []IInv
  BY IInvInvariant
<1>2. Init => Queue!Init
  BY InitRefines
<1>3. IInv /\ [Next]_vars => [Queue!Next]_Queue!vars
  BY NextRefines
<1>. QED
  BY <1>1, <1>2, <1>3, PTL DEF Spec, QueueSpec, Queue!Spec
=============================================================================
