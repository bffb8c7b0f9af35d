--------------------------- MODULE ShutdownProofs ---------------------------
(***************************************************************************)
(* Proofs that the shutdown protocol of Shutdown joins every worker it    *)
(* created before main() uses the samplers or returns, for every bound on *)
(* the signals.  Neither invariant is inductive by itself: the steps of   *)
(* main() rely on what start() and stop() established earlier, which       *)
(* IInv records per place of the main thread.                              *)
(***************************************************************************)
EXTENDS Shutdown, TLAPS

\* The places of main() where m_running is still set: from the store in
\* start() until stop() clears it.
RunningPcs == {"createRx", "createTx", "register", "check", "run", "loop",
               "wait", "leave", "stop"}

\* The places of main() before start() has created any worker.
SetupPcs == {"sigInit", "parse", "udpInit", "start"}

\* The places of main() after a successful pthread_create() of each worker,
\* up to its join.
RxCreatedPcs == {"createTx", "startJoinRx", "register", "check", "run",
                 "loop", "wait", "leave", "stop", "joinRx"}
TxCreatedPcs == {"register", "check", "run", "loop", "wait", "leave",
                 "stop", "joinRx", "joinTx"}

IInv ==
  /\ TypeOK
  /\ mainPc \in RunningPcs => running
  /\ mainPc \in SetupPcs \cup {"createRx"} => rxPc = "none"
  /\ mainPc \in SetupPcs \cup {"createRx", "createTx", "startJoinRx"} => txPc = "none"
  /\ mainPc \in RxCreatedPcs => rxPc /= "none"
  /\ mainPc \in TxCreatedPcs => txPc /= "none"
  /\ mainPc \in {"joinTx", "report"} => rxPc = "exited"
  /\ mainPc = "report" => txPc = "exited"
  /\ mainPc \in {"scopeEnd", "exited"} => {rxPc, txPc} \subseteq {"none", "exited"}

LEMMA InitIInv == Init => IInv
<1> SUFFICES ASSUME Init PROVE IInv
  OBVIOUS
<1>1. TypeOK
  <2>1. mainPc \in MainPcs /\ rxPc \in WorkerPcs /\ txPc \in WorkerPcs
    BY DEF Init, MainPcs, WorkerPcs
  <2>2. running \in BOOLEAN /\ loopRunning \in BOOLEAN
        /\ registered \in BOOLEAN /\ shutdownReq \in BOOLEAN
        /\ rcvTimeo \in BOOLEAN
    BY DEF Init
  <2>3. signals \in 0 .. MaxSignals /\ handler \in Threads \cup {"none"}
    BY MaxSignalsAssumption DEF Init, Threads
  <2>4. QED
    BY <2>1, <2>2, <2>3 DEF TypeOK
<1>2. QED
  BY <1>1 DEF Init, IInv, SetupPcs, RunningPcs, RxCreatedPcs, TxCreatedPcs

LEMMA NextIInv == IInv /\ [Next]_vars => IInv'
<1> SUFFICES ASSUME IInv, [Next]_vars PROVE IInv'
  OBVIOUS
<1> USE MaxSignalsAssumption DEF IInv, TypeOK, MainPcs, WorkerPcs, Threads,
        SetupPcs, RunningPcs, RxCreatedPcs, TxCreatedPcs
<1>1. CASE StartBegin
  BY <1>1 DEF StartBegin, SetRcvTimeout
<1>2. CASE CreateRx
  BY <1>2 DEF CreateRx
<1>3. CASE CreateTx
  BY <1>3 DEF CreateTx
<1>4. CASE StartJoinRx
  BY <1>4 DEF StartJoinRx
<1>5. CASE Register
  BY <1>5 DEF Register
<1>6. CASE CheckShutdown
  BY <1>6 DEF CheckShutdown
<1>7. CASE RunBegin
  BY <1>7 DEF RunBegin
<1>8. CASE LoopTest
  BY <1>8 DEF LoopTest
<1>9. CASE EpollWakeup
  BY <1>9 DEF EpollWakeup
<1>10. CASE Leave
  BY <1>10 DEF Leave
<1>11. CASE StopThreads
  BY <1>11 DEF StopThreads
<1>12. CASE JoinRx
  BY <1>12 DEF JoinRx
<1>13. CASE JoinTx
  BY <1>13 DEF JoinTx
<1>14. CASE Report
  BY <1>14 DEF Report
<1>15. CASE ScopeEnd
  BY <1>15 DEF ScopeEnd
<1>16. CASE RxMask
  BY <1>16 DEF RxMask
<1>17. CASE RxFatal
  BY <1>17 DEF RxFatal
<1>18. CASE RxStopSeen
  BY <1>18 DEF RxStopSeen
<1>19. CASE TxMask
  BY <1>19 DEF TxMask
<1>20. CASE TxStopSeen
  BY <1>20 DEF TxStopSeen
<1>21. CASE \E t \in Threads : Signal(t)
  <2>1. PICK t \in Threads : Signal(t)
    BY <1>21
  <2>2. signals' \in 0 .. MaxSignals
    BY <2>1 DEF Signal
  <2>3. handler' \in Threads \cup {"none"} /\ mainPc' \in MainPcs
        /\ loopRunning' \in BOOLEAN /\ shutdownReq' \in BOOLEAN
    BY <2>1 DEF Signal
  <2>4. UNCHANGED <<rxPc, txPc, running, registered, rcvTimeo>>
    BY <2>1 DEF Signal
  <2>5. mainPc' = mainPc \/ (mainPc = "wait" /\ mainPc' = "loop")
    BY <2>1 DEF Signal
  <2>6. QED
    BY <2>2, <2>3, <2>4, <2>5
<1>22. CASE UNCHANGED vars
  BY <1>22 DEF vars
<1>23. CASE SignalInit
  BY <1>23 DEF SignalInit
<1>24. CASE ParseArgs
  BY <1>24 DEF ParseArgs
<1>25. CASE UdpInit
  BY <1>25 DEF UdpInit
<1>26. CASE SignalDefault
  BY <1>26 DEF SignalDefault
<1>27. QED
  BY <1>1, <1>2, <1>3, <1>4, <1>5, <1>6, <1>7, <1>8, <1>9, <1>10, <1>11,
     <1>12, <1>13, <1>14, <1>15, <1>16, <1>17, <1>18, <1>19, <1>20, <1>21,
     <1>22, <1>23, <1>24, <1>25, <1>26 DEF Next, MainStep

(* IInv holds in every state of every run of the shutdown protocol.        *)
THEOREM IInvInvariant == Spec => []IInv
BY InitIInv, NextIInv, PTL DEF Spec

(* Type correctness of the shutdown model: every flag and place of main(), *)
(* the workers and the signal handler stays in its range.                  *)
THEOREM ShutdownTypeCorrect == Spec => []TypeOK
<1>1. IInv => TypeOK
  BY DEF IInv
<1>2. QED
  BY <1>1, IInvInvariant, PTL

(* stop() runs computeStats() only after joining both workers.             *)
THEOREM StatsAfterJoinInvariant == Spec => []StatsAfterJoin
<1>1. IInv => StatsAfterJoin
  BY DEF IInv, StatsAfterJoin
<1>2. QED
  BY <1>1, IInvInvariant, PTL

(* main() returns only after every worker it created has been joined, on  *)
(* the failure paths of start() as on the signal-driven shutdown.          *)
THEOREM NoWorkerOutlivesMainInvariant == Spec => []NoWorkerOutlivesMain
<1>1. IInv => NoWorkerOutlivesMain
  BY DEF IInv, NoWorkerOutlivesMain
<1>2. QED
  BY <1>1, IInvInvariant, PTL
=============================================================================
