----------------------------- MODULE LinkHealth -----------------------------
(***************************************************************************)
(* The receive side of AppPacket (AppPacket.cpp): decode() of a datagram   *)
(* handed over by the RX thread, with the link-health update it drives     *)
(* (updateReceivedLifesign), and the loss test isCommLost() that the main *)
(* thread's monitor timer evaluates.                                       *)
(*                                                                         *)
(* Time is a counter of abstract ticks; the expected interval, the        *)
(* tolerance and the loss timeout are given in ticks.  The two narrowing   *)
(* casts of the code are kept: the receive interval is cast to uint32 in  *)
(* microseconds, the time since the last lifesign change to uint32 in      *)
(* milliseconds; IntervalWrap and ElapsedWrap are those 2^32 ranges        *)
(* expressed in ticks.  A datagram is abstracted to the first check of    *)
(* decode() it fails (or "ok") and the lifesign field of its header; the   *)
(* other header fields, the payload and the CRC value are not modelled.   *)
(* The lifesign is a uint16, modelled as 0 .. LifesignWrap - 1, and the    *)
(* unstable counter's UINT16_MAX is CounterMax.                            *)
(***************************************************************************)
EXTENDS Integers

CONSTANTS
  ExpectedInterval,  \* m_expected_interval_ms * 1000, in ticks
  Tolerance,         \* m_tolerance_us, in ticks
  CommTimeout,       \* m_comm_timeout_ms, in ticks
  IntervalWrap,      \* 2^32 microseconds, in ticks
  ElapsedWrap,       \* 2^32 milliseconds, in ticks
  LifesignWrap,      \* 2^16: the range of the uint16 lifesign
  CounterMax,        \* UINT16_MAX, the saturation value of m_unstable_counter
  MaxTime            \* bound on the clock (model bound)

ASSUME ExpectedIntervalAssumption == ExpectedInterval \in Nat
ASSUME ToleranceAssumption == Tolerance \in Nat
ASSUME CommTimeoutAssumption == CommTimeout \in Nat
ASSUME WrapAssumption ==
  /\ IntervalWrap \in Nat \ {0}
  /\ ElapsedWrap \in Nat \ {0}
  /\ LifesignWrap \in Nat \ {0}
ASSUME CounterMaxAssumption == CounterMax \in Nat \ {0}
ASSUME MaxTimeAssumption == MaxTime \in Nat

Lifesigns == 0 .. LifesignWrap - 1

\* decode()'s outcomes before the health update: a frame shorter than
\* header + footer or than its declared length, a declared length above
\* APP_PACKET_MAX_DATA_SIZE, a CRC mismatch, or a valid frame.
Kinds == {"short", "toolarge", "badcrc", "ok"}

Datagram == [kind : Kinds, ls : Lifesigns]

Errors == {"None", "InvalidDataPointer", "DataTooLarge", "BufferTooSmall",
           "InvalidPacket", "CrcMismatch", "UnstableCommunication",
           "LossOfCommunication"}

VARIABLES
  now,             \* steady_clock::now(), in ticks
  rxLifesign,      \* m_rx_lifesign
  rxLifesignPrev,  \* m_rx_lifesign_prev
  lastChange,      \* m_last_change_time
  lastRecv,        \* m_last_recv_time
  lastInterval,    \* m_last_interval_us
  unstableCounter, \* m_unstable_counter
  commUnstable,    \* m_comm_unstable
  error,           \* m_error
  result,          \* the value the last decode() returned
  outRun,          \* history: out-of-tolerance decodes since the last in-tolerance one
  validLifesign,   \* history: the lifesign of the last valid (CRC-checked) frame
  validChange      \* history: when a valid frame last changed that lifesign

healthVars == <<rxLifesign, rxLifesignPrev, lastChange, lastRecv,
                lastInterval, unstableCounter, commUnstable>>
historyVars == <<outRun, validLifesign, validChange>>
vars == <<now, healthVars, error, result, historyVars>>

-----------------------------------------------------------------------------
(* The interval test of updateReceivedLifesign().                          *)

\* lower_bound: E - T when E > T, else 0.
LowerBound == IF ExpectedInterval > Tolerance THEN ExpectedInterval - Tolerance ELSE 0

\* upper_bound: E + T.
UpperBound == ExpectedInterval + Tolerance

InTolerance(iv) == LowerBound <= iv /\ iv <= UpperBound

\* A plausible bug: the interval kept at full width, without the cast.
IntervalSinceUnwrapped(t) == now - t

\* static_cast<uint32_t>(duration_cast<microseconds>(now - m_last_recv_time)).
IntervalSince(t) == (now - t) % IntervalWrap

\* isCommLost(): static_cast<uint32_t>(elapsed_ms) >= m_comm_timeout_ms.
CommLost == (now - lastChange) % ElapsedWrap >= CommTimeout

\* A plausible bug: the saturation test of m_unstable_counter left out, so
\* the uint16 increment wraps.
NextCounterWrapping(c) == (c + 1) % (CounterMax + 1)

\* m_unstable_counter on an out-of-tolerance interval: it saturates.
NextCounter(c) == IF c < CounterMax THEN c + 1 ELSE c

-----------------------------------------------------------------------------
(* The constructor, then setCommTimeout() and setExpectedInterval() in    *)
(* main(): both instants are the creation time.                            *)
Init ==
  /\ now = 0
  /\ rxLifesign = 0
  /\ rxLifesignPrev = 0
  /\ lastChange = 0
  /\ lastRecv = 0
  /\ lastInterval = 0
  /\ unstableCounter = 0
  /\ commUnstable = FALSE
  /\ error = "None"
  /\ result = FALSE
  /\ outRun = 0
  /\ validLifesign = 0
  /\ validChange = 0

\* Time passes.
Tick ==
  /\ now < MaxTime
  /\ now' = now + 1
  /\ UNCHANGED <<healthVars, error, result, historyVars>>

(* decode(): a frame too short for its header and footer or for its       *)
(* declared length (InvalidPacket), or declaring a payload above the      *)
(* maximum (DataTooLarge), is refused before any field is stored.         *)
DecodeRejectEarly(d) ==
  /\ d.kind \in {"short", "toolarge"}
  /\ error' = IF d.kind = "short" THEN "InvalidPacket" ELSE "DataTooLarge"
  /\ result' = FALSE
  /\ UNCHANGED <<now, healthVars, historyVars>>

(* A plausible bug in updateReceivedLifesign(): m_last_recv_time is not  *)
(* stamped with the receive instant.                                       *)
UpdateReceivedLifesignStaleRecv(ls) ==
  LET iv    == IntervalSince(lastRecv)
      inTol == InTolerance(iv)
  IN
  /\ lastInterval' = iv
  /\ UNCHANGED lastRecv
  /\ unstableCounter' = IF inTol THEN 0 ELSE NextCounter(unstableCounter)
  /\ commUnstable' = ~inTol
  /\ rxLifesignPrev' = rxLifesign
  /\ rxLifesign' = ls
  /\ lastChange' = IF ls /= rxLifesign THEN now ELSE lastChange
  /\ outRun' = IF inTol THEN 0 ELSE IF outRun <= CounterMax THEN outRun + 1 ELSE outRun

(* A plausible bug in updateReceivedLifesign(): m_last_change_time is     *)
(* stamped on every frame, whether or not the lifesign changed.            *)
UpdateReceivedLifesignAnyFrame(ls) ==
  LET iv    == IntervalSince(lastRecv)
      inTol == InTolerance(iv)
  IN
  /\ lastInterval' = iv
  /\ lastRecv' = now
  /\ unstableCounter' = IF inTol THEN 0 ELSE NextCounter(unstableCounter)
  /\ commUnstable' = ~inTol
  /\ rxLifesignPrev' = rxLifesign
  /\ rxLifesign' = ls
  /\ lastChange' = now
  /\ outRun' = IF inTol THEN 0 ELSE IF outRun <= CounterMax THEN outRun + 1 ELSE outRun

(* updateReceivedLifesign(lifesign): the interval since the last receive  *)
(* is measured and classified (the streak saturates at UINT16_MAX), then  *)
(* the lifesign is recorded and, if it changed, the change instant is     *)
(* stamped.  Its writes to m_error are overwritten by decode(), its only  *)
(* caller, before decode() returns (see DecodeFrame).                     *)
UpdateReceivedLifesign(ls) ==
  LET iv    == IntervalSince(lastRecv)
      inTol == InTolerance(iv)
  IN
  /\ lastInterval' = iv
  /\ lastRecv' = now
  /\ unstableCounter' = IF inTol THEN 0 ELSE NextCounter(unstableCounter)
  /\ commUnstable' = ~inTol
  /\ rxLifesignPrev' = rxLifesign
  /\ rxLifesign' = ls
  /\ lastChange' = IF ls /= rxLifesign THEN now ELSE lastChange
  /\ outRun' = IF inTol THEN 0 ELSE IF outRun <= CounterMax THEN outRun + 1 ELSE outRun

(* decode() of a frame that passes the length checks: the header fields   *)
(* are stored and updateReceivedLifesign(header.lifesign) runs; only then *)
(* is the CRC verified, and the call ends by writing CrcMismatch or None  *)
(* into m_error.  The writes of the health update to m_error (Unstable-   *)
(* Communication raised or cleared, LossOfCommunication cleared) are thus *)
(* overwritten before decode() returns, on the RX thread that is the only *)
(* reader of getError(); they leave no trace.                              *)
DecodeFrame(d) ==
  /\ d.kind \in {"badcrc", "ok"}
  /\ UpdateReceivedLifesign(d.ls)
  /\ error' = IF d.kind = "badcrc" THEN "CrcMismatch" ELSE "None"
  /\ result' = (d.kind = "ok")
  /\ validLifesign' = IF d.kind = "ok" THEN d.ls ELSE validLifesign
  /\ validChange' = IF d.kind = "ok" /\ d.ls /= validLifesign
                      THEN now ELSE validChange
  /\ UNCHANGED now

(* The RX thread hands a datagram to rxPacketHandler(), which decodes it. *)
Receive == \E d \in Datagram : DecodeRejectEarly(d) \/ DecodeFrame(d)

Next == Tick \/ Receive

Spec == Init /\ [][Next]_vars

-----------------------------------------------------------------------------
TypeOK ==
  /\ now \in 0 .. MaxTime
  /\ rxLifesign \in Lifesigns
  /\ rxLifesignPrev \in Lifesigns
  /\ lastChange \in 0 .. MaxTime
  /\ lastRecv \in 0 .. MaxTime
  /\ lastInterval \in 0 .. IntervalWrap - 1
  /\ unstableCounter \in 0 .. CounterMax
  /\ commUnstable \in BOOLEAN
  /\ error \in Errors
  /\ result \in BOOLEAN
  /\ outRun \in 0 .. CounterMax + 1
  /\ validLifesign \in Lifesigns
  /\ validChange \in 0 .. MaxTime

(* The unstable streak of updateReceivedLifesign(): m_unstable_counter is *)
(* the number of consecutive out-of-tolerance intervals up to the last     *)
(* decoded frame, saturated at UINT16_MAX, and m_comm_unstable says that   *)
(* the streak is not empty.  Breaking it takes CounterMax + 1 late frames  *)
(* in a row.                                                               *)
StreakCountsRun ==
  /\ unstableCounter = IF outRun < CounterMax THEN outRun ELSE CounterMax
  /\ commUnstable = (outRun > 0)

(* The ordering of the monitor's instants the specification states:       *)
(* last_change_instant <= last_recv_instant <= now.                         *)
InstantOrder == lastChange <= lastRecv /\ lastRecv <= now

(* A lost link comes back only when updateReceivedLifesign() sees a new    *)
(* lifesign: a step after which isCommLost() no longer holds stores a      *)
(* lifesign different from m_rx_lifesign and stamps m_last_change_time    *)
(* with the receive instant.  Time passing, a frame repeating the         *)
(* lifesign and a frame refused early never end the loss (as long as the  *)
(* uint32 milliseconds do not wrap, see LostWithoutWrap in the proofs).   *)
LostEndsOnlyOnNewLifesign ==
  [][CommLost /\ ~CommLost' => /\ rxLifesign' /= rxLifesign
                                /\ lastChange' = now]_vars

(* The specification: CRC mismatches and malformed frames are dropped      *)
(* without affecting link-health state, so the link is Lost exactly when   *)
(* no valid frame has changed the lifesign for comm_timeout_ms.            *)
LostFollowsValidFrames ==
  CommLost = ((now - validChange) % ElapsedWrap >= CommTimeout)

(* The specification: an out-of-tolerance interval raises                  *)
(* UnstableCommunication in the error slot when it reads None; after a     *)
(* successful decode() of such a frame, getError() reports it.             *)
UnstableReported ==
  (result /\ commUnstable) => error = "UnstableCommunication"
=============================================================================
