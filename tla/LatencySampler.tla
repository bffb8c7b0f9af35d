--------------------------- MODULE LatencySampler ---------------------------
(***************************************************************************)
(* LatencyStats<Capacity> (LatencyStats.hpp): one worker thread records    *)
(* samples with recordSample() while the main thread's stats timer runs   *)
(* computeStats() on the same object.  recordSample() is split at its      *)
(* shared accesses (slot store, release store of m_writeIdx, relaxed       *)
(* fetch_add of m_count); computeStats() at its loads and at each slot it  *)
(* copies.  The k-th recorded sample has the value k, so the snapshot     *)
(* shows which samples it holds; 0 is the constructor's fill.             *)
(*                                                                         *)
(* The slots are plain uint64_t.  Under WeakMemory, a load of a slot whose *)
(* last store does not happen-before the main thread may return the value *)
(* before that store: only an acquire load of m_writeIdx that reads a      *)
(* later release store orders the two threads (the fetch_add of m_count is *)
(* relaxed and orders nothing).  Without WeakMemory every load returns the *)
(* last store, as on a total-store-order machine such as x86-64.           *)
(***************************************************************************)
EXTENDS Percentile, FiniteSets, TLC

CONSTANTS
  Capacity,     \* the template parameter Capacity
  MaxSamples,   \* bound on recordSample() calls (model bound)
  WeakMemory    \* whether loads may miss stores not ordered before them

ASSUME CapacityAssumption == Capacity \in Nat \ {0}
ASSUME MaxSamplesAssumption == MaxSamples \in Nat
ASSUME WeakMemoryAssumption == WeakMemory \in BOOLEAN

Slots == 0 .. Capacity - 1

Values == 0 .. MaxSamples

VARIABLES
  samples,    \* m_samples: the last value stored in each slot
  prev,       \* the value each slot held before its last store
  hb,         \* whether the last store to each slot happens-before main
  writeIdx,   \* m_writeIdx
  count,      \* m_count
  pcP,        \* the recording thread's place in recordSample()
  pIdx,       \* its local idx
  recorded,   \* recordSample() calls begun; the value of the last one
  pcC,        \* the main thread's place in computeStats()
  cCount,     \* its local totalCount
  cOrder,     \* the slots it copies, in copy order
  snap,       \* the vector sorted, as filled so far
  quiet,      \* history: no recordSample() overlapped this computeStats()
  result      \* the last Result: the snapshot's order statistics

producerVars == <<pcP, pIdx, recorded>>
consumerVars == <<pcC, cCount, cOrder, snap, quiet, result>>
memVars == <<samples, prev, hb>>
vars == <<memVars, writeIdx, count, producerVars, consumerVars>>

NoResult == [count |-> 0, min |-> 0, max |-> 0, p |-> <<0, 0, 0, 0, 0>>]

-----------------------------------------------------------------------------
(* The constructor: m_writeIdx = 0, m_count = 0, m_samples.fill(0).        *)
Init ==
  /\ samples = [s \in Slots |-> 0]
  /\ prev = [s \in Slots |-> 0]
  /\ hb = [s \in Slots |-> TRUE]
  /\ writeIdx = 0
  /\ count = 0
  /\ pcP = "idle"
  /\ pIdx = 0
  /\ recorded = 0
  /\ pcC = "idle"
  /\ cCount = 0
  /\ cOrder = <<>>
  /\ snap = <<>>
  /\ quiet = TRUE
  /\ result = NoResult

\* recordSample(): idx = m_writeIdx.load(relaxed).  Any overlap with a
\* computeStats() in progress makes that computation not quiet.
RecordBegin ==
  /\ pcP = "idle"
  /\ recorded < MaxSamples
  /\ pIdx' = writeIdx
  /\ recorded' = recorded + 1
  /\ pcP' = "write"
  /\ quiet' = (quiet /\ pcC = "idle")
  /\ UNCHANGED <<memVars, writeIdx, count, pcC, cCount, cOrder, snap, result>>

\* m_samples[idx] = latency_ns.
RecordWrite ==
  /\ pcP = "write"
  /\ samples' = [samples EXCEPT ![pIdx] = recorded]
  /\ prev' = [prev EXCEPT ![pIdx] = samples[pIdx]]
  /\ hb' = [hb EXCEPT ![pIdx] = FALSE]
  /\ pcP' = "publish"
  /\ UNCHANGED <<writeIdx, count, pIdx, recorded, consumerVars>>

\* A plausible bug: the index is published without the wrap.
RecordPublishNoWrap ==
  /\ pcP = "publish"
  /\ writeIdx' = pIdx + 1
  /\ pcP' = "count"
  /\ UNCHANGED <<memVars, count, pIdx, recorded, consumerVars>>

\* m_writeIdx.store((idx + 1) % Capacity, release).
RecordPublish ==
  /\ pcP = "publish"
  /\ writeIdx' = (pIdx + 1) % Capacity
  /\ pcP' = "count"
  /\ UNCHANGED <<memVars, count, pIdx, recorded, consumerVars>>

\* m_count.fetch_add(1, relaxed).
RecordCount ==
  /\ pcP = "count"
  /\ count' = count + 1
  /\ pcP' = "idle"
  /\ UNCHANGED <<memVars, writeIdx, pIdx, recorded, consumerVars>>

\* A plausible bug: m_count is bumped before the slot is written.
RecordCountFirst ==
  \/ /\ pcP = "idle"
     /\ recorded < MaxSamples
     /\ pIdx' = writeIdx
     /\ recorded' = recorded + 1
     /\ pcP' = "count"
     /\ quiet' = (quiet /\ pcC = "idle")
     /\ UNCHANGED <<memVars, writeIdx, count, pcC, cCount, cOrder, snap, result>>
  \/ /\ pcP = "count"
     /\ count' = count + 1
     /\ pcP' = "write"
     /\ UNCHANGED <<memVars, writeIdx, pIdx, recorded, consumerVars>>
  \/ RecordWrite
  \/ /\ pcP = "publish"
     /\ writeIdx' = (pIdx + 1) % Capacity
     /\ pcP' = "idle"
     /\ UNCHANGED <<memVars, count, pIdx, recorded, consumerVars>>

\* recordSample(latency_ns), one step at a time.
Record == RecordBegin \/ RecordWrite \/ RecordPublish \/ RecordCount

-----------------------------------------------------------------------------
(* computeStats() on the main thread.                                      *)

\* totalCount = m_count.load(acquire); with no sample the zero Result is
\* returned.
ComputeBegin ==
  /\ pcC = "idle"
  /\ cCount' = count
  /\ quiet' = (pcP = "idle")
  /\ IF count = 0
       THEN /\ result' = NoResult
            /\ UNCHANGED <<pcC, cOrder, snap>>
       ELSE /\ pcC' = "branch"
            /\ UNCHANGED <<cOrder, snap, result>>
  /\ UNCHANGED <<memVars, writeIdx, count, producerVars>>

\* numSamples = min(totalCount, Capacity).  An unwrapped buffer is copied
\* from [0, numSamples); a wrapped one from [writePos, Capacity) then
\* [0, writePos), with writePos = m_writeIdx.load(acquire); that load makes
\* every store published before it happen-before the main thread, all but
\* a slot stored and not yet published.
ComputeBranch ==
  /\ pcC = "branch"
  /\ IF cCount <= Capacity
       THEN /\ cOrder' = [i \in 1 .. cCount |-> i - 1]
            /\ UNCHANGED hb
       ELSE /\ cOrder' = [i \in 1 .. Capacity |-> (writeIdx + i - 1) % Capacity]
            /\ hb' = [s \in Slots |-> hb[s] \/ ~(pcP = "publish" /\ s = pIdx)]
  /\ snap' = <<>>
  /\ pcC' = "copy"
  /\ UNCHANGED <<samples, prev, writeIdx, count, producerVars, cCount, quiet, result>>

\* The values a load of slot s by the main thread may return.
Loadable(s) ==
  IF WeakMemory /\ ~hb[s] THEN {samples[s], prev[s]} ELSE {samples[s]}

\* std::copy: one slot into the snapshot.
ComputeCopy ==
  /\ pcC = "copy"
  /\ Len(snap) < Len(cOrder)
  /\ \E v \in Loadable(cOrder[Len(snap) + 1]) : snap' = Append(snap, v)
  /\ UNCHANGED <<memVars, writeIdx, count, producerVars, pcC, cCount, cOrder, quiet, result>>

Ascending(a, b) == a < b

\* A plausible bug: the statistics are taken without std::sort.
ComputeFinishUnsorted ==
  /\ pcC = "copy"
  /\ Len(snap) = Len(cOrder)
  /\ result' = [count |-> cCount, min |-> snap[1], max |-> snap[Len(snap)],
                p |-> [i \in DOMAIN Levels |-> PercentileOf(snap, Levels[i])]]
  /\ pcC' = "idle"
  /\ UNCHANGED <<memVars, writeIdx, count, producerVars, cCount, cOrder, snap, quiet>>

\* std::sort, then count, min = front, max = back and the five
\* percentiles of the sorted snapshot.  The mean and the standard deviation
\* are sums in double arithmetic and are not modelled.
ComputeFinish ==
  /\ pcC = "copy"
  /\ Len(snap) = Len(cOrder)
  /\ LET sorted == SortSeq(snap, Ascending)
     IN  result' = [count |-> cCount, min |-> sorted[1], max |-> sorted[Len(sorted)],
                    p |-> [i \in DOMAIN Levels |-> PercentileOf(sorted, Levels[i])]]
  /\ pcC' = "idle"
  /\ UNCHANGED <<memVars, writeIdx, count, producerVars, cCount, cOrder, snap, quiet>>

Compute == ComputeBegin \/ ComputeBranch \/ ComputeCopy \/ ComputeFinish

Next == Record \/ Compute

Spec == Init /\ [][Next]_vars

-----------------------------------------------------------------------------
TypeOK ==
  /\ samples \in [Slots -> Values]
  /\ prev \in [Slots -> Values]
  /\ hb \in [Slots -> BOOLEAN]
  /\ writeIdx \in Slots
  /\ count \in 0 .. MaxSamples
  /\ pcP \in {"idle", "write", "publish", "count"}
  /\ pIdx \in Slots
  /\ recorded \in 0 .. MaxSamples
  /\ pcC \in {"idle", "branch", "copy"}
  /\ cCount \in 0 .. MaxSamples
  /\ cOrder \in Seq(Slots)
  /\ snap \in Seq(Values)
  /\ quiet \in BOOLEAN

\* The snapshot as a set of samples.
SnapSet == {snap[i] : i \in DOMAIN snap}

(* The specification's sampler contract: the snapshot may race with        *)
(* concurrent recordSample() calls, but each value it holds is a sample    *)
(* that was recorded (never the constructor's fill of an unwritten slot),  *)
(* each sample appears in it at most once, and it holds min(totalCount,    *)
(* Capacity) values; and (wrap correctness) a computeStats() that no       *)
(* recordSample() overlaps, after C + k samples, holds exactly the last C. *)
SnapshotContract ==
  pcC = "copy" =>
    /\ SnapSet \subseteq 1 .. recorded
    /\ Cardinality(SnapSet) = Len(snap)
    /\ Len(cOrder) = IF cCount < Capacity THEN cCount ELSE Capacity
    /\ (quiet /\ Len(snap) = Len(cOrder)) =>
         SnapSet = {k \in 1 .. cCount : k > cCount - Capacity}

(* The specification's percentile monotonicity: in every Result,          *)
(* min <= p50 <= p95 <= p99 <= p99.9 <= p99.99 <= max.  It rests on the    *)
(* sort of the snapshot and on the rank being monotone in p after the      *)
(* floating-point roundings.                                                *)
PercentilesOrdered ==
  result.count > 0 =>
    /\ result.min <= result.p[1]
    /\ \A i \in 1 .. 4 : result.p[i] <= result.p[i + 1]
    /\ result.p[5] <= result.max
====
