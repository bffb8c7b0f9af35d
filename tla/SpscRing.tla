------------------------------ MODULE SpscRing ------------------------------
(***************************************************************************)
(* LockFreeRingBuffer<MaxPacketSize, Capacity> (LockFreeRingBuffer.hpp):  *)
(* a ring of Capacity slots shared by one producer thread calling push()  *)
(* and one consumer thread calling pop().  The two indices are atomics    *)
(* with one writer each; a slot is filled by the producer and read by the *)
(* consumer with plain (non-atomic) memcpy, so the ring itself must keep  *)
(* the two threads off the same slot.                                     *)
(*                                                                         *)
(* Each call is split at the points where the other thread can run in    *)
(* between: push() = check (index loads and guards), copy into the slot,  *)
(* publish of writeIdx; pop() = check, copy out of the slot, publish of   *)
(* readIdx.  The acquire/release pairs of the code make every slot write  *)
(* that precedes a publish visible to the thread that loads the index, so *)
(* an interleaving of these steps is a faithful model of the orderings    *)
(* the code allows.  A packet is abstracted to its length and an identity *)
(* (the number of the push call that offered it); its bytes are not      *)
(* modelled.  pushed and popped are history variables: the packets of    *)
(* the accepted pushes and of the successful pops, in order.              *)
(***************************************************************************)
EXTENDS Integers, Sequences

CONSTANTS
  Capacity,       \* template parameter Capacity: number of slots
  MaxPacketSize,  \* template parameter MaxPacketSize: largest storable length
  MaxLength,      \* the consumer's output region (pop's maxLength)
  Lengths,        \* lengths the producer offers to push
  MaxPushes,      \* bound on the number of push calls (model bound)
  NoPacket        \* content of a slot that was never written

ASSUME CapacityAssumption == Capacity \in Nat /\ Capacity >= 2
ASSUME MaxPacketSizeAssumption == MaxPacketSize \in Nat
ASSUME MaxLengthAssumption == MaxLength \in Nat
ASSUME LengthsAssumption == Lengths \subseteq Nat
ASSUME MaxPushesAssumption == MaxPushes \in Nat

Slots == 0 .. Capacity - 1

\* A packet: the length push() stores and the identity of the push call.
Packet == [len : 0 .. MaxPacketSize, id : 1 .. MaxPushes]

VARIABLES
  buffer,     \* m_buffer
  writeIdx,   \* m_writeIdx
  readIdx,    \* m_readIdx
  pcP,        \* where the producer is inside push()
  pIdx,       \* push(): currentWrite
  pPkt,       \* push(): the packet being pushed
  pRet,       \* the value the last push() returned
  pcC,        \* where the consumer is inside pop()
  cIdx,       \* pop(): currentRead
  cPkt,       \* pop(): the packet copied out (actualLength and data)
  cRet,       \* the value the last pop() returned
  attempts,   \* number of push calls made so far
  pushed,     \* history: packets of the accepted pushes, in order
  popped      \* history: packets of the successful pops, in order

ringVars == <<buffer, writeIdx, readIdx>>
prodVars == <<pcP, pIdx, pPkt, pRet, attempts, pushed>>
consVars == <<pcC, cIdx, cPkt, cRet, popped>>
vars == <<ringVars, prodVars, consVars>>

-----------------------------------------------------------------------------
(* Index arithmetic and the two guards of the ring.                        *)

\* A plausible bug: the successor index computed without the wrap.
NextIdxNoWrap(i) == i + 1

\* (idx + 1) % Capacity, the successor of a slot index.
NextIdx(i) == (i + 1) % Capacity

\* A plausible bug in push(): the full check left out.
IsFullNever(w, r) == FALSE

\* push(): the ring is full when the next write slot is the read slot.
IsFull(w, r) == NextIdx(w) = r

\* A plausible bug in pop(): the empty check off by one slot.
IsEmptyOffByOne(r, w) == r = w \/ NextIdx(r) = w

\* pop(): the ring is empty when the read slot is the write slot.
IsEmpty(r, w) == r = w

-----------------------------------------------------------------------------
Init ==
  /\ buffer = [s \in Slots |-> NoPacket]
  /\ writeIdx = 0
  /\ readIdx = 0
  /\ pcP = "idle"
  /\ pIdx = 0
  /\ pPkt = NoPacket
  /\ pRet = FALSE
  /\ pcC = "idle"
  /\ cIdx = 0
  /\ cPkt = NoPacket
  /\ cRet = FALSE
  /\ attempts = 0
  /\ pushed = << >>
  /\ popped = << >>

(* push(data, length): a call that returns false at one of its two early  *)
(* returns, too long or full.  The full check loads readIdx (acquire).    *)
PushReject(len) ==
  /\ pcP = "idle"
  /\ attempts < MaxPushes
  /\ \/ len > MaxPacketSize
     \/ IsFull(writeIdx, readIdx)
  /\ attempts' = attempts + 1
  /\ pRet' = FALSE
  /\ UNCHANGED <<ringVars, pcP, pIdx, pPkt, pushed, consVars>>

(* A plausible bug in push(): writeIdx published before the slot is      *)
(* written (the release store moved above the memcpy).                    *)
PushBeginEarlyPublish(len) ==
  /\ pcP = "idle"
  /\ attempts < MaxPushes
  /\ len <= MaxPacketSize
  /\ ~IsFull(writeIdx, readIdx)
  /\ attempts' = attempts + 1
  /\ pcP' = "copy"
  /\ pIdx' = writeIdx
  /\ pPkt' = [len |-> len, id |-> attempts + 1]
  /\ writeIdx' = NextIdx(writeIdx)
  /\ UNCHANGED <<buffer, readIdx, pRet, pushed, consVars>>

(* push(data, length): the checks pass; currentWrite is loaded (relaxed,  *)
(* the producer is its only writer) and the call goes on to the copy.     *)
PushBegin(len) ==
  /\ pcP = "idle"
  /\ attempts < MaxPushes
  /\ len <= MaxPacketSize
  /\ ~IsFull(writeIdx, readIdx)
  /\ attempts' = attempts + 1
  /\ pcP' = "copy"
  /\ pIdx' = writeIdx
  /\ pPkt' = [len |-> len, id |-> attempts + 1]
  /\ UNCHANGED <<ringVars, pRet, pushed, consVars>>

(* push(): m_buffer[currentWrite].length = length; memcpy(data).          *)
PushCopy ==
  /\ pcP = "copy"
  /\ buffer' = [buffer EXCEPT ![pIdx] = pPkt]
  /\ pcP' = "publish"
  /\ UNCHANGED <<writeIdx, readIdx, pIdx, pPkt, pRet, attempts, pushed, consVars>>

(* push(): m_writeIdx.store(nextWrite, release); return true.             *)
PushPublish ==
  /\ pcP = "publish"
  /\ writeIdx' = NextIdx(pIdx)
  /\ pcP' = "idle"
  /\ pRet' = TRUE
  /\ pushed' = Append(pushed, pPkt)
  /\ UNCHANGED <<buffer, readIdx, pIdx, pPkt, attempts, consVars>>

(* pop(): currentRead equals the writeIdx it loads (acquire): return      *)
(* false, the ring is empty.                                               *)
PopEmpty ==
  /\ pcC = "idle"
  /\ IsEmpty(readIdx, writeIdx)
  /\ cRet' = FALSE
  /\ UNCHANGED <<ringVars, prodVars, pcC, cIdx, cPkt, popped>>

(* pop(): the ring is not empty; currentRead is loaded (relaxed, the      *)
(* consumer is its only writer).                                           *)
PopBegin ==
  /\ pcC = "idle"
  /\ ~IsEmpty(readIdx, writeIdx)
  /\ pcC' = "copy"
  /\ cIdx' = readIdx
  /\ UNCHANGED <<ringVars, prodVars, cPkt, cRet, popped>>

(* pop(): actualLength = m_buffer[currentRead].length exceeds maxLength: *)
(* return false without releasing the slot.                               *)
PopTooLong ==
  /\ pcC = "copy"
  /\ buffer[cIdx].len > MaxLength
  /\ pcC' = "idle"
  /\ cPkt' = buffer[cIdx]
  /\ cRet' = FALSE
  /\ UNCHANGED <<ringVars, prodVars, cIdx, popped>>

(* pop(): actualLength fits; memcpy(data, m_buffer[currentRead].data).   *)
PopCopy ==
  /\ pcC = "copy"
  /\ buffer[cIdx].len <= MaxLength
  /\ pcC' = "publish"
  /\ cPkt' = buffer[cIdx]
  /\ UNCHANGED <<ringVars, prodVars, cIdx, cRet, popped>>

(* A plausible bug in pop(): the store of readIdx left out.               *)
PopPublishNoAdvance ==
  /\ pcC = "publish"
  /\ pcC' = "idle"
  /\ cRet' = TRUE
  /\ popped' = Append(popped, cPkt)
  /\ UNCHANGED <<buffer, writeIdx, readIdx, prodVars, cIdx, cPkt>>

(* pop(): m_readIdx.store((currentRead + 1) % Capacity, release);         *)
(* return true.                                                            *)
PopPublish ==
  /\ pcC = "publish"
  /\ readIdx' = NextIdx(cIdx)
  /\ pcC' = "idle"
  /\ cRet' = TRUE
  /\ popped' = Append(popped, cPkt)
  /\ UNCHANGED <<buffer, writeIdx, prodVars, cIdx, cPkt>>

Producer ==
  \/ \E len \in Lengths : PushReject(len) \/ PushBegin(len)
  \/ PushCopy
  \/ PushPublish

Consumer == PopEmpty \/ PopBegin \/ PopTooLong \/ PopCopy \/ PopPublish

Next == Producer \/ Consumer

(* The consumer is a thread that calls pop() in a loop (the TX worker), so *)
(* it is weakly fair.  The producer's calls are made by the application    *)
(* when it has something to send, so only the completion of a call it has *)
(* started is assumed.                                                     *)
Fairness ==
  /\ WF_vars(Consumer)
  /\ WF_vars(PushCopy)
  /\ WF_vars(PushPublish)

Spec == Init /\ [][Next]_vars /\ Fairness

-----------------------------------------------------------------------------
(* The published contents of the ring: the slots from readIdx up to, not   *)
(* including, writeIdx.                                                    *)
Count == (writeIdx - readIdx) % Capacity

Contents == [i \in 1 .. Count |-> buffer[(readIdx + i - 1) % Capacity]]

TypeOK ==
  /\ buffer \in [Slots -> Packet \cup {NoPacket}]
  /\ writeIdx \in Slots
  /\ readIdx \in Slots
  /\ pcP \in {"idle", "copy", "publish"}
  /\ pIdx \in Slots
  /\ pPkt \in Packet \cup {NoPacket}
  /\ pRet \in BOOLEAN
  /\ pcC \in {"idle", "copy", "publish"}
  /\ cIdx \in Slots
  /\ cPkt \in Packet \cup {NoPacket}
  /\ cRet \in BOOLEAN
  /\ attempts \in 0 .. MaxPushes
  /\ pushed \in Seq(Packet)
  /\ popped \in Seq(Packet)

(* No loss, no duplication, no reordering: the packets popped so far,      *)
(* followed by the packets published and not yet popped, are exactly the   *)
(* packets of the accepted pushes, in push order.  Breaking it takes a     *)
(* producer and a consumer step on the same slot in the wrong order.       *)
NoLossNoDuplication == popped \o Contents = pushed

(* The producer never copies into the slot the consumer is copying out of *)
(* or about to release: the memcpy calls of push() and pop() never touch  *)
(* the same m_buffer entry at once (a data race on the slot).             *)
NoSlotRace ==
  ~(pcP = "copy" /\ pcC \in {"copy", "publish"} /\ pIdx = cIdx)

(* Every packet an accepted push published is eventually popped by the     *)
(* consumer loop.                                                           *)
EventuallyPopped ==
  \A k \in 1 .. MaxPushes : (Len(pushed) >= k) ~> (Len(popped) >= k)

(* The ring implements the bounded FIFO queue of Capacity - 1 packets: one *)
(* slot is sacrificed to tell full from empty.                             *)
Queue == INSTANCE BoundedQueue
           WITH Bound <- Capacity - 1, Msg <- Packet,
                queue <- Contents, sent <- pushed, received <- popped

QueueSpec == Queue!Spec
=============================================================================
