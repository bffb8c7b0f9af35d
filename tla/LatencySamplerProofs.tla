------------------------ MODULE LatencySamplerProofs ------------------------
(***************************************************************************)
(* Proofs about LatencyStats<Capacity> as LatencySampler models it: the   *)
(* snapshot computeStats() copies while recordSample() runs on another    *)
(* thread meets the sampler contract of the specification, for every      *)
(* Capacity and every bound on the samples, on a machine whose loads       *)
(* return the last store (WeakMemory = FALSE: x86-64's total store order). *)
(* Under weak memory the contract fails (the run with WeakMemory = TRUE). *)
(*                                                                         *)
(* The contract is not inductive.  The invariant records how far the      *)
(* recording thread has got (stored, published, counted), which samples   *)
(* the slots hold (a sample k only ever sits in slot (k - 1) % Capacity,   *)
(* and the last Capacity samples stored are all in place), the slots a    *)
(* computation copies, and what it has copied so far.                     *)
(***************************************************************************)
EXTENDS LatencySampler, FiniteSetTheorems, TLAPS

\* Samples stored into their slot: all begun ones but one being written.
Stored == recorded - (IF pcP = "write" THEN 1 ELSE 0)

\* The slot of the k-th sample: the producer's index advances by one,
\* modulo Capacity, per sample.
SlotOf(k) == (k - 1) % Capacity

\* The last Capacity samples of the first n.
Window(n) == {k \in 1 .. n : k > n - Capacity}

(* The recording thread: one sample begun and not yet counted while it is *)
(* inside recordSample(); m_writeIdx has been advanced for every sample    *)
(* counted and for the one about to be counted.                             *)
ProducerInv ==
  /\ recorded = count + (IF pcP = "idle" THEN 0 ELSE 1)
  /\ pcP /= "idle" => pIdx = SlotOf(recorded)
  /\ writeIdx = (recorded - (IF pcP \in {"write", "publish"} THEN 1 ELSE 0)) % Capacity

(* The slots: a stored sample is in its slot or was overwritten by a later *)
(* one, the last Capacity stored are all in place, and a slot not yet      *)
(* stored into holds the constructor's 0.                                   *)
SlotsInv ==
  /\ \A s \in Slots : samples[s] /= 0 => /\ samples[s] \in 1 .. Stored
                                         /\ SlotOf(samples[s]) = s
  /\ \A k \in Window(Stored) : samples[SlotOf(k)] = k
  /\ \A s \in Slots : samples[s] = 0 <=> Stored <= s

(* The computation: it read a positive m_count no larger than the current *)
(* one; it copies min(totalCount, Capacity) distinct slots, [0, totalCount) *)
(* when unwrapped; each value copied so far is a sample stored in the slot *)
(* it was copied from.  A quiet computation ran with the recording thread  *)
(* idle throughout, so it copies the slots as they are.                     *)
ConsumerInv ==
  /\ pcC /= "idle" => cCount \in 1 .. count
  /\ pcC = "copy" =>
       /\ Len(cOrder) = IF cCount < Capacity THEN cCount ELSE Capacity
       /\ \A i, j \in DOMAIN cOrder : i /= j => cOrder[i] /= cOrder[j]
       /\ cCount <= Capacity => \A i \in DOMAIN cOrder : cOrder[i] = i - 1
       /\ Len(snap) <= Len(cOrder)
       /\ \A i \in DOMAIN snap : /\ snap[i] \in 1 .. recorded
                                 /\ SlotOf(snap[i]) = cOrder[i]
  /\ (quiet /\ pcC /= "idle") =>
       /\ pcP = "idle"
       /\ recorded = cCount
       /\ pcC = "copy" => \A i \in DOMAIN snap : snap[i] = samples[cOrder[i]]

\* What holds on every machine: the types and the recording thread's place.
TInv == TypeOK /\ ProducerInv

SIInv == TInv /\ SlotsInv /\ ConsumerInv

USE CapacityAssumption, MaxSamplesAssumption

-----------------------------------------------------------------------------
(* The index arithmetic of recordSample(), (idx + 1) % Capacity.           *)

LEMMA ModRange ==
  ASSUME NEW x \in Nat
  PROVE  /\ x % Capacity \in Slots
         /\ x % Capacity <= x
BY DEF Slots

LEMMA ModSmall ==
  ASSUME NEW x \in Slots
  PROVE  x % Capacity = x
BY DEF Slots

(* A number written as q * Capacity + t with t a slot has the slot t.      *)
LEMMA ModUnique ==
  ASSUME NEW y \in Int, NEW q \in Int, NEW t \in Slots, y = q * Capacity + t
  PROVE  y % Capacity = t
BY DEF Slots

LEMMA ModDecompose ==
  ASSUME NEW x \in Int
  PROVE  /\ x \div Capacity \in Int
         /\ x % Capacity \in Slots
         /\ x = (x \div Capacity) * Capacity + (x % Capacity)
BY DEF Slots

LEMMA ModStep ==
  ASSUME NEW x \in Nat
  PROVE  ((x % Capacity) + 1) % Capacity = (x + 1) % Capacity
<1>1. /\ x \div Capacity \in Int
      /\ x % Capacity \in Slots
      /\ x = (x \div Capacity) * Capacity + (x % Capacity)
  BY ModDecompose
<1>2. CASE (x % Capacity) + 1 < Capacity
  <2>1. ((x % Capacity) + 1) % Capacity = (x % Capacity) + 1
    BY <1>1, <1>2, ModSmall DEF Slots
  <2>2. (x + 1) % Capacity = (x % Capacity) + 1
    <3>1. PICK r \in Slots : r = x % Capacity
      BY <1>1
    <3>2. /\ x + 1 \in Int
          /\ x \div Capacity \in Int
          /\ r + 1 \in Slots
          /\ x + 1 = (x \div Capacity) * Capacity + (r + 1)
      BY <1>1, <1>2, <3>1 DEF Slots
    <3>3. (x + 1) % Capacity = r + 1
      BY <3>2, ModUnique
    <3>. QED
      BY <3>1, <3>3
  <2>. QED
    BY <2>1, <2>2
<1>3. CASE (x % Capacity) + 1 = Capacity
  <2>1. ((x % Capacity) + 1) % Capacity = 0
    BY <1>3
  <2>2. x + 1 = (x \div Capacity + 1) * Capacity + 0
    BY <1>1, <1>3
  <2>3. /\ x + 1 \in Int
        /\ x \div Capacity + 1 \in Int
        /\ 0 \in Slots
    BY <1>1 DEF Slots
  <2>4. (x + 1) % Capacity = 0
    BY <2>2, <2>3, ModUnique
  <2>. QED
    BY <2>1, <2>4
<1>. QED
  BY <1>1, <1>2, <1>3 DEF Slots

(* Two numbers less than Capacity apart have different slots.              *)
LEMMA ModDistinct ==
  ASSUME NEW a \in Nat, NEW b \in Nat, a < b, b < a + Capacity
  PROVE  a % Capacity /= b % Capacity
<1>1. /\ a \div Capacity \in Int /\ a % Capacity \in Slots
      /\ a = (a \div Capacity) * Capacity + (a % Capacity)
  BY ModDecompose
<1>2. /\ b \div Capacity \in Int /\ b % Capacity \in Slots
      /\ b = (b \div Capacity) * Capacity + (b % Capacity)
  BY ModDecompose
<1> SUFFICES ASSUME a % Capacity = b % Capacity PROVE FALSE
  OBVIOUS
<1>3a. b \div Capacity - a \div Capacity \in Int
  BY <1>1, <1>2
<1>3. PICK d \in Int : d = b \div Capacity - a \div Capacity
  BY <1>3a
<1>4. b - a = d * Capacity
  BY <1>1, <1>2, <1>3
<1>5. CASE d <= 0
  <2>1. d * Capacity <= 0
    BY <1>5
  <2>. QED
    BY <1>4, <2>1
<1>6. CASE d >= 1
  <2>1. d * Capacity >= Capacity
    BY <1>6
  <2>. QED
    BY <1>4, <2>1
<1>. QED
  BY <1>3, <1>5, <1>6
(* The interval a .. b, b >= a - 1, has b - a + 1 elements.               *)
LEMMA IntervalCardinality ==
  ASSUME NEW a \in Int, NEW b \in Int, a <= b + 1
  PROVE  /\ IsFiniteSet(a .. b)
         /\ Cardinality(a .. b) = b - a + 1
<1>1. /\ IsFiniteSet(a .. b)
      /\ Cardinality(a .. b) = IF a > b THEN 0 ELSE b - a + 1
  BY FS_Interval, Zenon
<1>. QED
  BY <1>1

-----------------------------------------------------------------------------
(* Types and the recording thread, whatever the memory model.              *)

LEMMA InitTInv == Init => TInv
<1> SUFFICES ASSUME Init PROVE TInv
  OBVIOUS
<1>1. 0 % Capacity = 0
  BY ModSmall DEF Slots
<1>. QED
  BY <1>1 DEF Init, TInv, TypeOK, ProducerInv, Slots, Values

\* The recording thread's counters are naturals bounded by MaxSamples.
LEMMA TInvFacts ==
  ASSUME TInv
  PROVE  /\ recorded \in Nat /\ count \in Nat /\ cCount \in Nat
         /\ count <= recorded /\ recorded <= MaxSamples
         /\ pcP /= "idle" => recorded >= 1
BY DEF TInv, TypeOK, ProducerInv

LEMMA RecordBeginTInv ==
  ASSUME TInv, RecordBegin
  PROVE  TInv'
<1>1. /\ recorded \in Nat /\ recorded < MaxSamples /\ pcP = "idle"
      /\ writeIdx = recorded % Capacity
  BY TInvFacts DEF TInv, ProducerInv, RecordBegin
<1>2. /\ pIdx' = SlotOf(recorded')
      /\ writeIdx' = (recorded' - 1) % Capacity
  BY <1>1 DEF RecordBegin, SlotOf, memVars
<1>. QED
  BY <1>1, <1>2 DEF TInv, TypeOK, ProducerInv, RecordBegin, memVars, Values

LEMMA RecordWriteTInv ==
  ASSUME TInv, RecordWrite
  PROVE  TInv'
<1>1. /\ pIdx \in Slots /\ recorded \in 1 .. MaxSamples
  BY TInvFacts DEF TInv, TypeOK, RecordWrite
<1>. QED
  BY <1>1 DEF TInv, TypeOK, ProducerInv, RecordWrite, consumerVars, Values

LEMMA RecordPublishTInv ==
  ASSUME TInv, RecordPublish
  PROVE  TInv'
<1>1. /\ recorded \in Nat /\ recorded - 1 \in Nat
      /\ pIdx = (recorded - 1) % Capacity
  BY TInvFacts DEF TInv, ProducerInv, RecordPublish, SlotOf
<1>2. writeIdx' = recorded % Capacity
  <2>1. (((recorded - 1) % Capacity) + 1) % Capacity = ((recorded - 1) + 1) % Capacity
    BY <1>1, ModStep
  <2>2. (recorded - 1) + 1 = recorded
    BY <1>1
  <2>. QED
    BY <1>1, <2>1, <2>2 DEF RecordPublish
<1>3. writeIdx' \in Slots
  BY <1>1, <1>2, ModRange, TInvFacts
<1>4. /\ TypeOK' /\ recorded' = count' + 1 /\ pIdx' = SlotOf(recorded') /\ pcP' = "count"
  BY <1>3 DEF TInv, TypeOK, ProducerInv, RecordPublish, memVars, consumerVars
<1>. QED
  BY <1>2, <1>4 DEF TInv, ProducerInv, RecordPublish

LEMMA RecordCountTInv ==
  ASSUME TInv, RecordCount
  PROVE  TInv'
<1>1. /\ recorded = count + 1 /\ recorded <= MaxSamples /\ count \in Nat
  BY TInvFacts DEF TInv, ProducerInv, RecordCount
<1>. QED
  BY <1>1 DEF TInv, TypeOK, ProducerInv, RecordCount, memVars, consumerVars

LEMMA ComputeBeginTInv ==
  ASSUME TInv, ComputeBegin
  PROVE  TInv'
<1>1. count \in 0 .. MaxSamples
  BY DEF TInv, TypeOK
<1>. QED
  BY <1>1 DEF TInv, TypeOK, ProducerInv, ComputeBegin, memVars, producerVars

\* The slots computeStats() copies are slots.
LEMMA BranchOrderType ==
  ASSUME TInv, ComputeBranch
  PROVE  cOrder' \in Seq(Slots)
<1>1. /\ cCount \in Nat /\ writeIdx \in Slots
  BY TInvFacts DEF TInv, TypeOK
<1>2. CASE cCount <= Capacity
  <2>1. \A i \in 1 .. cCount : i - 1 \in Slots
    BY <1>1, <1>2 DEF Slots
  <2>. QED
    BY <1>1, <1>2, <2>1 DEF ComputeBranch
<1>3. CASE ~(cCount <= Capacity)
  <2>1. \A i \in 1 .. Capacity : (writeIdx + i - 1) % Capacity \in Slots
    BY <1>1, ModRange DEF Slots
  <2>. QED
    BY <1>3, <2>1 DEF ComputeBranch
<1>. QED
  BY <1>2, <1>3

LEMMA ComputeBranchTInv ==
  ASSUME TInv, ComputeBranch
  PROVE  TInv'
<1>1. cOrder' \in Seq(Slots)
  BY BranchOrderType
<1>2. hb' \in [Slots -> BOOLEAN]
  BY DEF TInv, TypeOK, ComputeBranch
<1>. QED
  BY <1>1, <1>2 DEF TInv, TypeOK, ProducerInv, ComputeBranch, producerVars

LEMMA ComputeCopyTInv ==
  ASSUME TInv, ComputeCopy
  PROVE  TInv'
<1>1. /\ Len(snap) + 1 \in DOMAIN cOrder
      /\ cOrder[Len(snap) + 1] \in Slots
  BY DEF TInv, TypeOK, ComputeCopy
<1>2. PICK v \in Loadable(cOrder[Len(snap) + 1]) : snap' = Append(snap, v)
  BY DEF ComputeCopy
<1>3. v \in Values
  BY <1>1 DEF TInv, TypeOK, Loadable
<1>. QED
  BY <1>2, <1>3 DEF TInv, TypeOK, ProducerInv, ComputeCopy, memVars, producerVars

LEMMA ComputeFinishTInv ==
  ASSUME TInv, ComputeFinish
  PROVE  TInv'
BY DEF TInv, TypeOK, ProducerInv, ComputeFinish, memVars, producerVars

LEMMA NextTInv == TInv /\ [Next]_vars => TInv'
<1> SUFFICES ASSUME TInv, [Next]_vars PROVE TInv'
  OBVIOUS
<1>1. CASE UNCHANGED vars
  BY <1>1 DEF vars, memVars, producerVars, consumerVars, TInv, TypeOK, ProducerInv
<1>. QED
  BY <1>1, RecordBeginTInv, RecordWriteTInv, RecordPublishTInv, RecordCountTInv,
     ComputeBeginTInv, ComputeBranchTInv, ComputeCopyTInv, ComputeFinishTInv
  DEF Next, Record, Compute

(* LatencyStats is type-correct on every machine: the slots hold sample    *)
(* values, m_writeIdx stays a slot after every (idx + 1) % Capacity, m_count *)
(* never passes the calls of recordSample() begun, and computeStats()      *)
(* copies only slots, whatever Capacity and whatever the memory model.     *)
THEOREM LatencySamplerTypeCorrect == Spec => []TypeOK
<1>1. Spec => []TInv
  BY InitTInv, NextTInv, PTL DEF Spec
<1>. QED
  BY <1>1, PTL DEF TInv
-----------------------------------------------------------------------------
(* The slots and the snapshot, on a machine whose loads return the last    *)
(* store.                                                                   *)

LEMMA InitSIInv == Init => SIInv
<1> SUFFICES ASSUME Init PROVE SIInv
  OBVIOUS
<1>1. TInv
  BY InitTInv
<1>2. Stored = 0
  BY DEF Init, Stored
<1>3. Window(0) = {}
  BY DEF Window
<1>. QED
  BY <1>1, <1>2, <1>3 DEF Init, SIInv, SlotsInv, ConsumerInv, Slots

\* m_count lags the samples stored by at most the one being written.
LEMMA StoredFacts ==
  ASSUME TInv
  PROVE  /\ Stored \in Nat
         /\ count <= Stored /\ Stored <= recorded
         /\ pcP /= "write" => Stored = recorded
         /\ pcP = "write" => Stored = recorded - 1
BY TInvFacts DEF TInv, ProducerInv, Stored

(* recordSample()'s first load begins a sample: nothing is stored yet, and *)
(* a computation in progress is no longer quiet.                            *)
LEMMA RecordBeginSIInv ==
  ASSUME SIInv, RecordBegin
  PROVE  SIInv'
<1>1. TInv'
  BY RecordBeginTInv DEF SIInv
<1>2. Stored' = Stored
  BY TInvFacts DEF SIInv, Stored, RecordBegin
<1>3. SlotsInv'
  BY <1>2 DEF SIInv, SlotsInv, RecordBegin, memVars
<1>4. /\ recorded \in Nat /\ recorded' = recorded + 1
      /\ UNCHANGED <<count, pcC, cCount, cOrder, snap, samples>>
      /\ quiet' = (quiet /\ pcC = "idle")
  BY TInvFacts DEF SIInv, RecordBegin, memVars
<1>5. ConsumerInv'
  <2>1. (pcC' /= "idle" => cCount' \in 1 .. count')
    BY <1>4 DEF SIInv, ConsumerInv
  <2>2. (pcC' = "copy" =>
          /\ Len(cOrder') = IF cCount' < Capacity THEN cCount' ELSE Capacity
          /\ \A i, j \in DOMAIN cOrder' : i /= j => cOrder'[i] /= cOrder'[j]
          /\ cCount' <= Capacity => \A i \in DOMAIN cOrder' : cOrder'[i] = i - 1
          /\ Len(snap') <= Len(cOrder'))
    BY <1>4 DEF SIInv, ConsumerInv
  <2>3. pcC' = "copy" => \A i \in DOMAIN snap' : /\ snap'[i] \in 1 .. recorded'
                                                  /\ SlotOf(snap'[i]) = cOrder'[i]
    BY <1>4 DEF SIInv, ConsumerInv
  <2>4. ~(quiet' /\ pcC' /= "idle")
    BY <1>4
  <2>. QED
    BY <2>1, <2>2, <2>3, <2>4 DEF ConsumerInv
<1>. QED
  BY <1>1, <1>3, <1>5 DEF SIInv

(* The slot store: sample recorded goes into its slot, which held no      *)
(* sample of the last Capacity - 1.                                         *)
LEMMA RecordWriteSlots ==
  ASSUME SIInv, RecordWrite
  PROVE  SlotsInv'
<1>1. /\ pcP = "write" /\ recorded \in Nat /\ recorded >= 1
      /\ Stored = recorded - 1 /\ Stored' = recorded
      /\ pIdx = SlotOf(recorded) /\ pIdx \in Slots
      /\ samples' = [samples EXCEPT ![pIdx] = recorded]
      /\ samples \in [Slots -> Values]
  BY TInvFacts, StoredFacts DEF SIInv, TInv, TypeOK, ProducerInv, RecordWrite, Stored
<1>2. pIdx <= recorded - 1
  BY <1>1, ModRange DEF SlotOf
<1>3. ASSUME NEW k \in Window(recorded), k /= recorded
      PROVE  /\ k \in Window(Stored)
             /\ SlotOf(k) /= pIdx
             /\ SlotOf(k) \in Slots
  <2>1. /\ k - 1 \in Nat /\ recorded - 1 \in Nat /\ k - 1 < recorded - 1 /\ recorded - 1 < (k - 1) + Capacity
    BY <1>1, <1>3 DEF Window
  <2>2. (k - 1) % Capacity /= (recorded - 1) % Capacity
    BY <2>1, ModDistinct
  <2>3. (k - 1) % Capacity \in Slots
    BY <2>1, ModRange
  <2>. QED
    BY <1>1, <2>1, <2>2, <2>3 DEF Window, SlotOf
<1>4. \A s \in Slots : samples'[s] /= 0 => /\ samples'[s] \in 1 .. Stored'
                                         /\ SlotOf(samples'[s]) = s
  BY <1>1 DEF SIInv, SlotsInv
<1>5. \A k \in Window(Stored') : samples'[SlotOf(k)] = k
  BY <1>1, <1>3 DEF SIInv, SlotsInv
<1>6. ASSUME NEW s \in Slots, s /= pIdx
      PROVE  (Stored <= s) <=> (Stored' <= s)
  <2>1. CASE recorded - 1 < Capacity
    <3>1. pIdx = recorded - 1
      BY <1>1, <2>1, ModSmall DEF SlotOf, Slots
    <3>. QED
      BY <1>1, <1>6, <3>1
  <2>3. CASE recorded - 1 >= Capacity
    BY <1>1, <2>3 DEF Slots
  <2>. QED
    BY <2>1, <2>3, <1>1
<1>7. ASSUME NEW s \in Slots
      PROVE  samples'[s] = 0 <=> Stored' <= s
  <2>1. CASE s = pIdx
    BY <1>1, <1>2, <2>1 DEF Slots
  <2>2. CASE s /= pIdx
    <3>1. samples'[s] = samples[s]
      BY <1>1, <2>2
    <3>2. samples[s] = 0 <=> Stored <= s
      BY DEF SIInv, SlotsInv
    <3>. QED
      BY <1>6, <2>2, <3>1, <3>2
  <2>. QED
    BY <2>1, <2>2
<1>. QED
  BY <1>4, <1>5, <1>7 DEF SlotsInv
(* A step of recordSample() past its first load leaves the computation's  *)
(* locals alone; no computation in progress is quiet while it runs.         *)
LEMMA ProducerStepConsumerInv ==
  ASSUME SIInv, UNCHANGED consumerVars, pcP /= "idle",
         recorded' = recorded, count' \in Nat, count <= count'
  PROVE  ConsumerInv'
<1>1. /\ count \in Nat
      /\ ~(quiet /\ pcC /= "idle")
  BY TInvFacts DEF SIInv, ConsumerInv
<1>2. pcC' /= "idle" => cCount' \in 1 .. count'
  BY <1>1 DEF SIInv, ConsumerInv, consumerVars
<1>3. pcC' = "copy" =>
        /\ Len(cOrder') = IF cCount' < Capacity THEN cCount' ELSE Capacity
        /\ \A i, j \in DOMAIN cOrder' : i /= j => cOrder'[i] /= cOrder'[j]
        /\ cCount' <= Capacity => \A i \in DOMAIN cOrder' : cOrder'[i] = i - 1
        /\ Len(snap') <= Len(cOrder')
        /\ \A i \in DOMAIN snap' : /\ snap'[i] \in 1 .. recorded'
                                   /\ SlotOf(snap'[i]) = cOrder'[i]
  BY DEF SIInv, ConsumerInv, consumerVars
<1>4. ~(quiet' /\ pcC' /= "idle")
  BY <1>1 DEF consumerVars
<1>. QED
  BY <1>2, <1>3, <1>4 DEF ConsumerInv

LEMMA RecordWriteSIInv ==
  ASSUME SIInv, RecordWrite
  PROVE  SIInv'
<1>1. TInv'
  BY RecordWriteTInv DEF SIInv
<1>2. SlotsInv'
  BY RecordWriteSlots
<1>3. ConsumerInv'
  <2>1. count \in Nat
    BY TInvFacts DEF SIInv
  <2>. QED
    BY <2>1, ProducerStepConsumerInv DEF RecordWrite
<1>. QED
  BY <1>1, <1>2, <1>3 DEF SIInv

(* The publish of m_writeIdx moves no sample.                               *)
LEMMA RecordPublishSIInv ==
  ASSUME SIInv, RecordPublish
  PROVE  SIInv'
<1>1. TInv'
  BY RecordPublishTInv DEF SIInv
<1>2. Stored' = Stored
  BY DEF RecordPublish, Stored
<1>3. SlotsInv'
  BY <1>2 DEF SIInv, SlotsInv, RecordPublish, memVars
<1>4. ConsumerInv'
  <2>1. count \in Nat
    BY TInvFacts DEF SIInv
  <2>. QED
    BY <2>1, ProducerStepConsumerInv DEF RecordPublish
<1>. QED
  BY <1>1, <1>3, <1>4 DEF SIInv

(* The relaxed fetch_add of m_count counts a sample already stored.        *)
LEMMA RecordCountSIInv ==
  ASSUME SIInv, RecordCount
  PROVE  SIInv'
<1>1. TInv'
  BY RecordCountTInv DEF SIInv
<1>2. Stored' = Stored
  BY DEF RecordCount, Stored
<1>3. SlotsInv'
  BY <1>2 DEF SIInv, SlotsInv, RecordCount, memVars
<1>4. ConsumerInv'
  <2>1. count \in Nat
    BY TInvFacts DEF SIInv
  <2>. QED
    BY <2>1, ProducerStepConsumerInv DEF RecordCount
<1>. QED
  BY <1>1, <1>3, <1>4 DEF SIInv
(* The acquire load of m_count: a computation reads the samples counted,   *)
(* and is quiet when no recordSample() is in progress.                      *)
LEMMA ComputeBeginSIInv ==
  ASSUME SIInv, ComputeBegin
  PROVE  SIInv'
<1>1. TInv'
  BY ComputeBeginTInv DEF SIInv
<1>2. SlotsInv'
  BY DEF SIInv, SlotsInv, ComputeBegin, memVars, producerVars, Stored
<1>3. /\ pcC = "idle" /\ count \in Nat
      /\ recorded = count + (IF pcP = "idle" THEN 0 ELSE 1)
  BY TInvFacts DEF SIInv, TInv, ProducerInv, ComputeBegin
<1>4. ConsumerInv'
  <2>1. CASE count = 0
    <3>1. pcC' = "idle"
      BY <1>3, <2>1 DEF ComputeBegin
    <3>. QED
      BY <3>1 DEF ConsumerInv
  <2>2. CASE count /= 0
    <3>1. /\ pcC' = "branch" /\ cCount' = count /\ count' = count
          /\ quiet' = (pcP = "idle") /\ pcP' = pcP /\ recorded' = recorded
      BY <2>2 DEF ComputeBegin, producerVars
    <3>2. cCount' \in 1 .. count'
      BY <1>3, <2>2, <3>1
    <3>3. pcC' /= "idle" /\ pcC' /= "copy"
      BY <3>1
    <3>4. ASSUME quiet' PROVE pcP' = "idle" /\ recorded' = cCount'
      <4>1. pcP = "idle"
        BY <3>1, <3>4, Zenon
      <4>2. recorded = count
        BY <1>3, <4>1
      <4>. QED
        BY <3>1, <4>1, <4>2
    <3>. QED
      BY <3>2, <3>3, <3>4 DEF ConsumerInv
  <2>. QED
    BY <2>1, <2>2
<1>. QED
  BY <1>1, <1>2, <1>4 DEF SIInv

(* The slots a computation copies, [0, totalCount) when the buffer has not *)
(* wrapped, else Capacity slots from m_writeIdx on, are distinct.          *)
LEMMA BranchOrder ==
  ASSUME SIInv, ComputeBranch
  PROVE  /\ Len(cOrder') = IF cCount < Capacity THEN cCount ELSE Capacity
         /\ \A i, j \in DOMAIN cOrder' : i /= j => cOrder'[i] /= cOrder'[j]
         /\ cCount <= Capacity => \A i \in DOMAIN cOrder' : cOrder'[i] = i - 1
<1>1. /\ cCount \in Nat /\ writeIdx \in Slots
  BY TInvFacts DEF SIInv, TInv, TypeOK
<1>2. CASE cCount <= Capacity
  BY <1>1, <1>2 DEF ComputeBranch
<1>3. CASE ~(cCount <= Capacity)
  <2>1. cOrder' = [i \in 1 .. Capacity |-> (writeIdx + i - 1) % Capacity]
    BY <1>3 DEF ComputeBranch
  <2>2. ASSUME NEW i \in 1 .. Capacity, NEW j \in 1 .. Capacity, i < j
        PROVE  (writeIdx + i - 1) % Capacity /= (writeIdx + j - 1) % Capacity
    <3>1. /\ writeIdx + i - 1 \in Nat /\ writeIdx + j - 1 \in Nat
          /\ writeIdx + i - 1 < writeIdx + j - 1
          /\ writeIdx + j - 1 < (writeIdx + i - 1) + Capacity
      BY <1>1, <2>2 DEF Slots
    <3>. QED
      BY <3>1, ModDistinct
  <2>3. \A i, j \in 1 .. Capacity : i /= j =>
          (writeIdx + i - 1) % Capacity /= (writeIdx + j - 1) % Capacity
    BY <2>2
  <2>4. /\ DOMAIN cOrder' = 1 .. Capacity
        /\ Len(cOrder') = Capacity
        /\ ~(cCount < Capacity)
        /\ ~(cCount <= Capacity)
    BY <1>1, <1>3, <2>1
  <2>. QED
    BY <2>1, <2>3, <2>4
<1>. QED
  BY <1>2, <1>3

(* The load of m_writeIdx fixes the slots to copy; the snapshot is empty.  *)
LEMMA ComputeBranchSIInv ==
  ASSUME SIInv, ComputeBranch
  PROVE  SIInv'
<1>1. TInv'
  BY ComputeBranchTInv DEF SIInv
<1>2. SlotsInv'
  BY DEF SIInv, SlotsInv, ComputeBranch, producerVars, Stored
<1>3. /\ pcC = "branch" /\ pcC' = "copy" /\ snap' = << >>
      /\ UNCHANGED <<cCount, count, quiet, pcP, recorded>>
  BY DEF ComputeBranch, producerVars
<1>4. ConsumerInv'
  <2>1. cCount' \in 1 .. count'
    BY <1>3 DEF SIInv, ConsumerInv
  <2>2. /\ Len(cOrder') = IF cCount' < Capacity THEN cCount' ELSE Capacity
        /\ \A i, j \in DOMAIN cOrder' : i /= j => cOrder'[i] /= cOrder'[j]
        /\ cCount' <= Capacity => \A i \in DOMAIN cOrder' : cOrder'[i] = i - 1
    BY <1>3, BranchOrder
  <2>3. Len(snap') <= Len(cOrder')
    BY <1>1, <1>3 DEF TInv, TypeOK
  <2>4. (quiet' /\ pcC' /= "idle") => (pcP' = "idle" /\ recorded' = cCount')
    BY <1>3 DEF SIInv, ConsumerInv
  <2>. QED
    BY <1>3, <2>1, <2>2, <2>3, <2>4 DEF ConsumerInv
<1>. QED
  BY <1>1, <1>2, <1>4 DEF SIInv
(* The slot std::copy loads next has been stored into: the computation   *)
(* copies fewer slots than the samples m_count counted, and only slots     *)
(* below that count while the buffer has not wrapped.                       *)
LEMMA CopySlotStored ==
  ASSUME SIInv, pcC = "copy", Len(snap) < Len(cOrder)
  PROVE  /\ cOrder[Len(snap) + 1] \in Slots
         /\ cOrder[Len(snap) + 1] < Stored
<1>1. /\ count \in Nat /\ cCount \in 1 .. count /\ Stored \in Nat /\ count <= Stored
      /\ cOrder \in Seq(Slots) /\ snap \in Seq(Values)
      /\ Len(cOrder) = IF cCount < Capacity THEN cCount ELSE Capacity
      /\ cCount <= Capacity => \A i \in DOMAIN cOrder : cOrder[i] = i - 1
  BY StoredFacts DEF SIInv, TInv, TypeOK, ConsumerInv
<1>2. /\ Len(snap) + 1 \in DOMAIN cOrder
      /\ cOrder[Len(snap) + 1] \in Slots
      /\ Len(snap) \in Nat
      /\ Len(cOrder) <= cCount
  BY <1>1
<1>3. CASE cCount <= Capacity
  <2>1. cOrder[Len(snap) + 1] = Len(snap)
    BY <1>1, <1>2, <1>3
  <2>. QED
    BY <1>1, <1>2, <1>3, <2>1
<1>4. CASE ~(cCount <= Capacity)
  BY <1>1, <1>2, <1>4 DEF Slots
<1>. QED
  BY <1>2, <1>3, <1>4

(* std::copy of one slot, on a machine whose loads return the last store:  *)
(* the value is the sample stored in that slot.                             *)
LEMMA ComputeCopySIInv ==
  ASSUME SIInv, ComputeCopy, WeakMemory = FALSE
  PROVE  SIInv'
<1>1. TInv'
  BY ComputeCopyTInv DEF SIInv
<1>2. SlotsInv'
  BY DEF SIInv, SlotsInv, ComputeCopy, memVars, producerVars, Stored
<1>3. PICK j \in Slots : /\ j = cOrder[Len(snap) + 1]
                         /\ j < Stored
  BY CopySlotStored DEF ComputeCopy
<1>4. snap' = Append(snap, samples[j])
  BY <1>3 DEF ComputeCopy, Loadable
<1>5. /\ samples[j] \in 1 .. recorded
      /\ SlotOf(samples[j]) = j
  <2>1. /\ Stored \in Nat /\ Stored <= recorded /\ recorded \in Nat
    BY StoredFacts, TInvFacts DEF SIInv
  <2>2. samples[j] /= 0
    BY <1>3, <2>1 DEF SIInv, SlotsInv, Slots
  <2>3. /\ samples[j] \in 1 .. Stored
        /\ SlotOf(samples[j]) = j
    BY <1>3, <2>2 DEF SIInv, SlotsInv
  <2>. QED
    BY <2>1, <2>3
<1>6. /\ snap \in Seq(Values)
      /\ Len(snap) < Len(cOrder)
      /\ Len(snap') = Len(snap) + 1
      /\ DOMAIN snap' = 1 .. Len(snap) + 1
      /\ \A i \in 1 .. Len(snap) : snap'[i] = snap[i]
      /\ snap'[Len(snap) + 1] = samples[j]
  BY <1>4 DEF SIInv, TInv, TypeOK, ComputeCopy
<1>7. UNCHANGED <<samples, pcP, recorded, count, pcC, cCount, cOrder, quiet>>
  BY DEF ComputeCopy, memVars, producerVars
<1>8. ConsumerInv'
  <2>1. pcC' /= "idle" => cCount' \in 1 .. count'
    BY <1>7 DEF SIInv, ConsumerInv
  <2>2. /\ Len(cOrder') = IF cCount' < Capacity THEN cCount' ELSE Capacity
        /\ \A i, k \in DOMAIN cOrder' : i /= k => cOrder'[i] /= cOrder'[k]
        /\ cCount' <= Capacity => \A i \in DOMAIN cOrder' : cOrder'[i] = i - 1
        /\ Len(snap') <= Len(cOrder')
    BY <1>6, <1>7 DEF SIInv, ConsumerInv, ComputeCopy
  <2>3. \A i \in DOMAIN snap' : /\ snap'[i] \in 1 .. recorded'
                                /\ SlotOf(snap'[i]) = cOrder'[i]
    BY <1>3, <1>5, <1>6, <1>7 DEF SIInv, ConsumerInv, ComputeCopy
  <2>4. (quiet' /\ pcC' /= "idle") =>
          /\ pcP' = "idle" /\ recorded' = cCount'
          /\ \A i \in DOMAIN snap' : snap'[i] = samples'[cOrder'[i]]
    BY <1>3, <1>6, <1>7 DEF SIInv, ConsumerInv, ComputeCopy
  <2>. QED
    BY <2>1, <2>2, <2>3, <2>4 DEF ConsumerInv
<1>. QED
  BY <1>1, <1>2, <1>8 DEF SIInv

(* The statistics of a full snapshot end the computation.                   *)
LEMMA ComputeFinishSIInv ==
  ASSUME SIInv, ComputeFinish
  PROVE  SIInv'
<1>1. TInv'
  BY ComputeFinishTInv DEF SIInv
<1>2. SlotsInv'
  BY DEF SIInv, SlotsInv, ComputeFinish, memVars, producerVars, Stored
<1>3. ConsumerInv'
  BY DEF ComputeFinish, ConsumerInv
<1>. QED
  BY <1>1, <1>2, <1>3 DEF SIInv

LEMMA NextSIInv ==
  ASSUME WeakMemory = FALSE
  PROVE  SIInv /\ [Next]_vars => SIInv'
<1> SUFFICES ASSUME SIInv, [Next]_vars PROVE SIInv'
  OBVIOUS
<1>1. CASE UNCHANGED vars
  <2>1. TInv'
    BY <1>1, NextTInv DEF SIInv
  <2>. QED
    BY <1>1, <2>1 DEF vars, memVars, producerVars, consumerVars, SIInv,
                      SlotsInv, ConsumerInv, Stored
<1>. QED
  BY <1>1, RecordBeginSIInv, RecordWriteSIInv, RecordPublishSIInv, RecordCountSIInv,
     ComputeBeginSIInv, ComputeBranchSIInv, ComputeCopySIInv, ComputeFinishSIInv
  DEF Next, Record, Compute
-----------------------------------------------------------------------------
(* From the invariant to the contract.                                     *)

(* The snapshot's values are distinct, because the slots they were copied *)
(* from are and a sample sits only in its own slot: the snapshot has as    *)
(* many distinct values as entries.                                         *)
LEMMA SnapCardinality ==
  ASSUME SIInv, pcC = "copy"
  PROVE  /\ IsFiniteSet(SnapSet)
         /\ Cardinality(SnapSet) = Len(snap)
<1>1. /\ snap \in Seq(Values) /\ cOrder \in Seq(Slots)
      /\ Len(snap) <= Len(cOrder)
      /\ \A i, j \in DOMAIN cOrder : i /= j => cOrder[i] /= cOrder[j]
      /\ \A i \in DOMAIN snap : SlotOf(snap[i]) = cOrder[i]
  BY DEF SIInv, TInv, TypeOK, ConsumerInv
<1>2. snap \in Surjection(1 .. Len(snap), SnapSet)
  BY <1>1 DEF Surjection, SnapSet
<1>3. snap \in Injection(1 .. Len(snap), SnapSet)
  <2>1. ASSUME NEW a \in DOMAIN snap, NEW b \in DOMAIN snap, snap[a] = snap[b]
        PROVE  a = b
    <3>1. cOrder[a] = cOrder[b]
      BY <1>1, <2>1
    <3>2. a \in DOMAIN cOrder /\ b \in DOMAIN cOrder
      BY <1>1
    <3>. QED
      BY <1>1, <3>1, <3>2
  <2>. QED
    BY <1>1, <2>1 DEF Injection, IsInjective, SnapSet
<1>4. /\ IsFiniteSet(1 .. Len(snap))
      /\ Cardinality(1 .. Len(snap)) = Len(snap)
  <2>1. Len(snap) \in Nat
    BY <1>1
  <2>. QED
    BY <2>1, IntervalCardinality
<1>. QED
  BY <1>2, <1>3, <1>4, FS_Surjection

(* A quiet computation of a buffer that has not wrapped copies slot i - 1 *)
(* for i = 1 .. totalCount, which holds sample i.                            *)
LEMMA QuietUnwrapped ==
  ASSUME SIInv, pcC = "copy", quiet, Len(snap) = Len(cOrder), cCount <= Capacity
  PROVE  SnapSet = Window(cCount)
<1>1. /\ pcP = "idle" /\ recorded = cCount /\ Stored = cCount
      /\ cCount \in 1 .. MaxSamples
      /\ Len(cOrder) = cCount
      /\ \A i \in DOMAIN cOrder : cOrder[i] = i - 1
      /\ \A i \in DOMAIN snap : snap[i] = samples[cOrder[i]]
      /\ snap \in Seq(Values) /\ cOrder \in Seq(Slots)
  BY DEF SIInv, TInv, TypeOK, ConsumerInv, Stored
<1>2. ASSUME NEW i \in 1 .. cCount
      PROVE  snap[i] = i
  <2>1. i \in Window(Stored)
    BY <1>1 DEF Window
  <2>2. SlotOf(i) = i - 1
    BY <1>1, ModSmall DEF SlotOf, Slots
  <2>3. samples[SlotOf(i)] = i
    BY <2>1 DEF SIInv, SlotsInv
  <2>. QED
    BY <1>1, <2>2, <2>3
<1>3. Window(cCount) = 1 .. cCount
  BY <1>1 DEF Window
<1>. QED
  BY <1>1, <1>2, <1>3 DEF SnapSet

(* A quiet computation of a wrapped buffer copies every slot once, and     *)
(* the slots hold the last Capacity samples: the snapshot is those.         *)
LEMMA QuietWrapped ==
  ASSUME SIInv, pcC = "copy", quiet, Len(snap) = Len(cOrder), ~(cCount <= Capacity)
  PROVE  SnapSet = Window(cCount)
<1>1. /\ pcP = "idle" /\ recorded = cCount /\ Stored = cCount
      /\ cCount \in 1 .. MaxSamples
      /\ Len(cOrder) = Capacity
      /\ \A i, j \in DOMAIN cOrder : i /= j => cOrder[i] /= cOrder[j]
      /\ \A i \in DOMAIN snap : snap[i] = samples[cOrder[i]]
      /\ snap \in Seq(Values) /\ cOrder \in Seq(Slots)
  BY DEF SIInv, TInv, TypeOK, ConsumerInv, Stored
<1>2. /\ IsFiniteSet(Slots) /\ Cardinality(Slots) = Capacity
      /\ IsFiniteSet(1 .. Capacity) /\ Cardinality(1 .. Capacity) = Capacity
  <2>1. /\ IsFiniteSet(0 .. Capacity - 1) /\ Cardinality(0 .. Capacity - 1) = Capacity - 1 - 0 + 1
    BY IntervalCardinality
  <2>2. /\ IsFiniteSet(1 .. Capacity) /\ Cardinality(1 .. Capacity) = Capacity - 1 + 1
    BY IntervalCardinality
  <2>. QED
    BY <2>1, <2>2 DEF Slots
<1>3. cOrder \in Injection(1 .. Capacity, Slots)
  BY <1>1 DEF Injection, IsInjective
<1>4. cOrder \in Surjection(1 .. Capacity, Slots)
  BY <1>2, <1>3, FS_Injection
<1>5. Window(cCount) \subseteq SnapSet
  <2>1. SUFFICES ASSUME NEW k \in Window(cCount) PROVE k \in SnapSet
    OBVIOUS
  <2>2. /\ k - 1 \in Nat /\ SlotOf(k) \in Slots
    <3>1. k - 1 \in Nat
      BY <1>1 DEF Window
    <3>. QED
      BY <3>1, ModRange DEF SlotOf
  <2>3. PICK i \in 1 .. Capacity : cOrder[i] = SlotOf(k)
    BY <1>4, <2>2 DEF Surjection
  <2>4. samples[SlotOf(k)] = k
    BY <1>1 DEF SIInv, SlotsInv
  <2>5. i \in DOMAIN snap /\ snap[i] = k
    BY <1>1, <2>3, <2>4
  <2>. QED
    BY <2>5 DEF SnapSet
<1>6. /\ Window(cCount) = (cCount - Capacity + 1) .. cCount
      /\ IsFiniteSet(Window(cCount))
      /\ Cardinality(Window(cCount)) = Capacity
  <2>1. Window(cCount) = (cCount - Capacity + 1) .. cCount
    BY <1>1 DEF Window
  <2>2. PICK lo \in Int : /\ lo = cCount - Capacity + 1
                          /\ lo <= cCount + 1
                          /\ cCount \in Int
    BY <1>1
  <2>3. /\ IsFiniteSet(lo .. cCount)
        /\ Cardinality(lo .. cCount) = cCount - lo + 1
    BY <2>2, IntervalCardinality
  <2>. QED
    BY <1>1, <2>1, <2>2, <2>3
<1>7. /\ IsFiniteSet(SnapSet) /\ Cardinality(SnapSet) = Capacity
  BY <1>1, SnapCardinality
<1>. QED
  BY <1>5, <1>6, <1>7, FS_Subset

LEMMA SIInvContract ==
  SIInv => SnapshotContract
<1> SUFFICES ASSUME SIInv, pcC = "copy" PROVE SnapshotContract
  BY DEF SnapshotContract
<1>1. SnapSet \subseteq 1 .. recorded
  BY DEF SIInv, ConsumerInv, SnapSet
<1>2. Cardinality(SnapSet) = Len(snap)
  BY SnapCardinality
<1>3. Len(cOrder) = IF cCount < Capacity THEN cCount ELSE Capacity
  BY DEF SIInv, ConsumerInv
<1>4. (quiet /\ Len(snap) = Len(cOrder)) => SnapSet = Window(cCount)
  BY QuietUnwrapped, QuietWrapped
<1>. QED
  BY <1>1, <1>2, <1>3, <1>4 DEF SnapshotContract, Window

(* The sampler contract of the specification holds for every Capacity and *)
(* every number of samples on a machine whose loads return the last store *)
(* (x86-64): whatever recordSample() calls overlap a computeStats(), the  *)
(* snapshot holds distinct recorded samples, min(totalCount, Capacity) of *)
(* them, and a computation no recordSample() overlaps holds exactly the    *)
(* last Capacity samples counted, the ring's wrap being correct.            *)
THEOREM SnapshotContractInvariant ==
  ASSUME WeakMemory = FALSE
  PROVE  Spec => []SnapshotContract
<1>1. Init => SIInv
  BY InitSIInv
<1>2. SIInv /\ [Next]_vars => SIInv'
  BY NextSIInv
<1>3. SIInv => SnapshotContract
  BY SIInvContract
<1>. QED
  BY <1>1, <1>2, <1>3, PTL DEF Spec
=============================================================================
