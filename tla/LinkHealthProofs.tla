-------------------------- MODULE LinkHealthProofs --------------------------
(***************************************************************************)
(* Proofs that the link-health state updateReceivedLifesign() keeps is     *)
(* well typed, that its unstable counter and flag count the run of late   *)
(* frames, and that its instants are ordered, for every value of the      *)
(* constants that LinkHealth assumes.  The three invariants together are  *)
(* inductive: the saturating counter needs the run length to stay in      *)
(* 0 .. CounterMax + 1, and the interval cast needs IntervalWrap > 0.     *)
(***************************************************************************)
EXTENDS LinkHealth, TLAPS

IInv == TypeOK /\ StreakCountsRun /\ InstantOrder

LEMMA InitIInv == Init => IInv
<1> SUFFICES ASSUME Init PROVE IInv
  OBVIOUS
<1>1. TypeOK
  <2>1. /\ now \in 0 .. MaxTime /\ lastChange \in 0 .. MaxTime
        /\ lastRecv \in 0 .. MaxTime /\ validChange \in 0 .. MaxTime
        /\ rxLifesign \in Lifesigns /\ rxLifesignPrev \in Lifesigns
        /\ validLifesign \in Lifesigns
        /\ lastInterval \in 0 .. IntervalWrap - 1
        /\ unstableCounter \in 0 .. CounterMax
        /\ outRun \in 0 .. CounterMax + 1
    BY WrapAssumption, CounterMaxAssumption, MaxTimeAssumption DEF Init, Lifesigns
  <2>2. commUnstable \in BOOLEAN /\ result \in BOOLEAN /\ error \in Errors
    BY Zenon DEF Init, Errors
  <2>3. QED
    BY <2>1, <2>2 DEF TypeOK
<1>2. StreakCountsRun
  <2>1. unstableCounter = IF outRun < CounterMax THEN outRun ELSE CounterMax
    BY CounterMaxAssumption DEF Init
  <2>2. commUnstable = (outRun > 0)
    <3>1. (outRun > 0) = FALSE
      BY DEF Init
    <3>2. commUnstable = FALSE
      BY DEF Init
    <3>3. QED
      BY <3>1, <3>2
  <2>3. QED
    BY <2>1, <2>2 DEF StreakCountsRun
<1>3. InstantOrder
  BY DEF Init, InstantOrder
<1>4. QED
  BY <1>1, <1>2, <1>3 DEF IInv

\* The counter and the flag after one classified interval, whatever the
\* interval: a late one extends the run, an in-tolerance one ends it.
LEMMA StreakStep ==
  ASSUME NEW c \in 0 .. CounterMax, NEW r \in 0 .. CounterMax + 1,
         NEW inTol \in BOOLEAN,
         c = IF r < CounterMax THEN r ELSE CounterMax
  PROVE  LET c2 == IF inTol THEN 0 ELSE NextCounter(c)
             r2 == IF inTol THEN 0 ELSE IF r <= CounterMax THEN r + 1 ELSE r
         IN  /\ c2 = IF r2 < CounterMax THEN r2 ELSE CounterMax
             /\ (~inTol) = (r2 > 0)
             /\ c2 \in 0 .. CounterMax
             /\ r2 \in 0 .. CounterMax + 1
BY CounterMaxAssumption DEF NextCounter

LEMMA NextIInv == IInv /\ [Next]_vars => IInv'
<1> SUFFICES ASSUME IInv, [Next]_vars PROVE IInv'
  OBVIOUS
<1> USE ExpectedIntervalAssumption, ToleranceAssumption, CommTimeoutAssumption,
        WrapAssumption, CounterMaxAssumption, MaxTimeAssumption
<1>1. CASE Tick
  BY <1>1 DEF Tick, IInv, TypeOK, StreakCountsRun, InstantOrder, healthVars, historyVars
<1>2. ASSUME NEW d \in Datagram, DecodeRejectEarly(d)
      PROVE  IInv'
  BY <1>2 DEF DecodeRejectEarly, IInv, TypeOK, StreakCountsRun, InstantOrder,
              healthVars, historyVars, Errors
<1>3. ASSUME NEW d \in Datagram, DecodeFrame(d)
      PROVE  IInv'
  <2> DEFINE iv == IntervalSince(lastRecv)
             inTol == InTolerance(iv)
  <2>1. inTol \in BOOLEAN
    BY DEF InTolerance
  <2>2. /\ unstableCounter' = IF inTol THEN 0 ELSE NextCounter(unstableCounter)
        /\ outRun' = IF inTol THEN 0 ELSE IF outRun <= CounterMax THEN outRun + 1 ELSE outRun
        /\ commUnstable' = ~inTol
    BY <1>3 DEF DecodeFrame, UpdateReceivedLifesign
  <2>3. /\ unstableCounter' = IF outRun' < CounterMax THEN outRun' ELSE CounterMax
        /\ commUnstable' = (outRun' > 0)
        /\ unstableCounter' \in 0 .. CounterMax
        /\ outRun' \in 0 .. CounterMax + 1
    BY <2>1, <2>2, StreakStep DEF IInv, TypeOK, StreakCountsRun
  <2>4. StreakCountsRun'
    BY <2>3 DEF StreakCountsRun
  <2>5. InstantOrder'
    <3>1. /\ lastRecv' = now /\ now' = now
          /\ lastChange' = now \/ lastChange' = lastChange
      BY <1>3 DEF DecodeFrame, UpdateReceivedLifesign
    <3>2. lastChange <= lastRecv /\ lastRecv <= now /\ now \in Nat /\ lastChange \in Nat
          /\ lastRecv \in Nat
      BY MaxTimeAssumption DEF IInv, InstantOrder, TypeOK
    <3>3. QED
      BY <3>1, <3>2 DEF InstantOrder
  <2>6. lastInterval' \in 0 .. IntervalWrap - 1
    BY <1>3 DEF DecodeFrame, UpdateReceivedLifesign, IntervalSince, IInv, TypeOK
  <2>7. TypeOK'
    BY <1>3, <2>3, <2>6 DEF DecodeFrame, UpdateReceivedLifesign, IInv, TypeOK,
                             Datagram, Lifesigns, Errors
  <2>8. QED
    BY <2>4, <2>5, <2>7 DEF IInv
<1>4. CASE UNCHANGED vars
  BY <1>4 DEF vars, IInv, TypeOK, StreakCountsRun, InstantOrder, healthVars, historyVars
<1>5. QED
  BY <1>1, <1>2, <1>3, <1>4 DEF Next, Receive

(* updateReceivedLifesign() keeps the state of the link monitor in its     *)
(* declared ranges: the interval cast to uint32, the saturating uint16    *)
(* counter, the uint16 lifesigns.                                          *)
THEOREM LinkHealthTypeCorrect == Spec => []TypeOK
<1>1. Init => IInv
  BY InitIInv
<1>2. IInv /\ [Next]_vars => IInv'
  BY NextIInv
<1>3. IInv => TypeOK
  BY DEF IInv
<1>4. QED
  BY <1>1, <1>2, <1>3, PTL DEF Spec

(* The unstable streak of updateReceivedLifesign(): m_unstable_counter     *)
(* counts the consecutive out-of-tolerance intervals, saturated at         *)
(* UINT16_MAX, and m_comm_unstable says that the run is not empty.         *)
THEOREM StreakCountsRunInvariant == Spec => []StreakCountsRun
<1>1. IInv => StreakCountsRun
  BY DEF IInv
<1>2. QED
  BY <1>1, InitIInv, NextIInv, PTL DEF Spec

(* The instants of updateReceivedLifesign(): the lifesign change instant  *)
(* is never after the receive instant, which is never after now.          *)
THEOREM InstantOrderInvariant == Spec => []InstantOrder
<1>1. IInv => InstantOrder
  BY DEF IInv
<1>2. QED
  BY <1>1, InitIInv, NextIInv, PTL DEF Spec
-----------------------------------------------------------------------------
(* The loss test.  isCommLost() narrows the elapsed milliseconds to       *)
(* uint32; while the clock stays below that range the narrowing is the     *)
(* identity, and the loss test compares the true time since the change.  *)

LEMMA ElapsedNoWrap ==
  ASSUME NEW n \in 0 .. MaxTime, NEW c \in 0 .. MaxTime, c <= n,
         MaxTime < ElapsedWrap
  PROVE  ((n - c) % ElapsedWrap >= CommTimeout) <=> (n - c >= CommTimeout)
<1>1. (n - c) % ElapsedWrap = n - c
  BY WrapAssumption, MaxTimeAssumption
<1>. QED
  BY <1>1

(* A step after which the link no longer reads as lost decoded a frame    *)
(* with a new lifesign, and stamped its receive instant.                   *)
LEMMA LostStep ==
  ASSUME IInv, [Next]_vars, MaxTime < ElapsedWrap, CommLost, ~CommLost'
  PROVE  /\ rxLifesign' /= rxLifesign
         /\ lastChange' = now
<1> USE MaxTimeAssumption, CommTimeoutAssumption
<1>1. IInv'
  BY NextIInv
<1>2. /\ now - lastChange >= CommTimeout
      /\ ~(now' - lastChange' >= CommTimeout)
  <2>1. /\ now \in 0 .. MaxTime /\ lastChange \in 0 .. MaxTime /\ lastChange <= now
        /\ now' \in 0 .. MaxTime /\ lastChange' \in 0 .. MaxTime /\ lastChange' <= now'
    BY <1>1 DEF IInv, TypeOK, InstantOrder
  <2>2. CommLost <=> now - lastChange >= CommTimeout
    BY <2>1, ElapsedNoWrap DEF CommLost
  <2>3. CommLost' <=> now' - lastChange' >= CommTimeout
    BY <2>1, ElapsedNoWrap DEF CommLost
  <2>. QED
    BY <2>2, <2>3
<1>3. /\ now \in Nat /\ lastChange \in Nat
  BY DEF IInv, TypeOK
<1>4. CASE Tick
  BY <1>2, <1>3, <1>4 DEF Tick, healthVars
<1>5. ASSUME NEW d \in Datagram, DecodeRejectEarly(d)
      PROVE  FALSE
  BY <1>2, <1>5 DEF DecodeRejectEarly, healthVars
<1>6. ASSUME NEW d \in Datagram, DecodeFrame(d)
      PROVE  rxLifesign' /= rxLifesign /\ lastChange' = now
  <2>1. /\ now' = now
        /\ rxLifesign' = d.ls
        /\ lastChange' = IF d.ls /= rxLifesign THEN now ELSE lastChange
    BY <1>6 DEF DecodeFrame, UpdateReceivedLifesign
  <2>2. CASE d.ls = rxLifesign
    BY <1>2, <2>1, <2>2
  <2>. QED
    BY <2>1, <2>2
<1>7. CASE UNCHANGED vars
  BY <1>2, <1>7 DEF vars, healthVars
<1>. QED
  BY <1>4, <1>5, <1>6, <1>7 DEF Next, Receive

(* A lost link comes back only through updateReceivedLifesign() seeing a  *)
(* new lifesign and stamping m_last_change_time: no tick of the clock, no *)
(* frame repeating the lifesign and no frame refused early ends a loss,    *)
(* for every timeout, interval and tolerance, as long as the clock stays  *)
(* within the uint32 range of milliseconds that isCommLost() narrows to    *)
(* (past it, about 49.7 days after the last change, the test wraps).       *)
THEOREM LostWithoutWrap ==
  ASSUME MaxTime < ElapsedWrap
  PROVE  Spec => LostEndsOnlyOnNewLifesign
<1>1. Spec => []IInv
  BY InitIInv, NextIInv, PTL DEF Spec
<1>2. IInv /\ [Next]_vars =>
        [CommLost /\ ~CommLost' => /\ rxLifesign' /= rxLifesign
                                   /\ lastChange' = now]_vars
  BY LostStep
<1>. QED
  BY <1>1, <1>2, PTL DEF Spec, LostEndsOnlyOnNewLifesign
=============================================================================
