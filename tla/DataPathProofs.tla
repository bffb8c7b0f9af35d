--------------------------- MODULE DataPathProofs ---------------------------
(***************************************************************************)
(* The proof that the packet counters of UdpThreadManager account for      *)
(* every frame and every datagram (PacketsAccounted), under every          *)
(* interleaving of the main thread's timer dispatch, the TX worker and the *)
(* RX worker, for every ring size, every bound and every signal pattern.   *)
(*                                                                         *)
(* PacketsAccounted is not inductive as it stands: TxPop takes the head of *)
(* m_txQueue into the worker's hands, and the count of frames in hand is  *)
(* read off txHold.  The invariant needs that the TX worker holds a frame *)
(* exactly in its send stage, and that the frames queued are numbered     *)
(* from 1, so that the popped one is never mistaken for "no frame" (0).   *)
(***************************************************************************)
EXTENDS DataPath, ShutdownProofs, SequenceTheorems, TLAPS

\* The types of the packet state.
DataTypeOK ==
  /\ encoded \in Nat
  /\ txQ \in Seq(Nat \ {0})
  /\ txHold \in Nat
  /\ txStage \in {"body", "send", "test"}
  /\ txPackets \in Nat
  /\ txDrops \in Nat
  /\ rxStage \in {"body", "test"}
  /\ rxPackets \in Nat
  /\ rxQLen \in Nat
  /\ rxDrops \in Nat

\* The TX worker holds a popped frame exactly between TxPop and TxSend.
HoldInSend == (txStage = "send") <=> (txHold /= 0)

DIInv == DataTypeOK /\ HoldInSend /\ PacketsAccounted

LEMMA InitDIInv == ProcessInit => DIInv
<1> SUFFICES ASSUME ProcessInit PROVE DIInv
  OBVIOUS
<1>1. DataTypeOK
  BY DEF ProcessInit, DataTypeOK
<1>2. HoldInSend
  BY DEF ProcessInit, HoldInSend
<1>3. PacketsAccounted
  BY DEF ProcessInit, PacketsAccounted
<1>. QED
  BY <1>1, <1>2, <1>3 DEF DIInv

(* Every step that leaves the packet state alone preserves DIInv.          *)
LEMMA UnchangedDIInv ==
  ASSUME DIInv, UNCHANGED dataVars
  PROVE  DIInv'
BY DEF DIInv, dataVars, DataTypeOK, HoldInSend, PacketsAccounted

(* queueTxPacket() of a frame numbered from 1: the frame is queued or     *)
(* counted dropped, and nothing else of the TX side changes.               *)
LEMMA QueueTxPacketStep ==
  ASSUME NEW f \in Nat \ {0}, DataTypeOK, QueueTxPacket(f)
  PROVE  /\ txQ' \in Seq(Nat \ {0})
         /\ txDrops' \in Nat
         /\ Len(txQ') + txDrops' = Len(txQ) + txDrops + 1
<1>1. CASE Len(txQ) < QueueBound
  <2>1. txQ' = Append(txQ, f) /\ txDrops' = txDrops
    BY <1>1 DEF QueueTxPacket
  <2>. QED
    BY <2>1 DEF DataTypeOK
<1>2. CASE ~(Len(txQ) < QueueBound)
  <2>1. txQ' = txQ /\ txDrops' = txDrops + 1
    BY <1>2 DEF QueueTxPacket
  <2>. QED
    BY <2>1 DEF DataTypeOK
<1>. QED
  BY <1>1, <1>2

(* The main thread's dispatch of the expired timers: the TX callback      *)
(* encodes one frame and queues or drops it.                               *)
LEMMA EpollDispatchDIInv ==
  ASSUME DIInv, EpollDispatch
  PROVE  DIInv'
<1>1. PICK ready : /\ ready = {t \in Timers : unread[t] > 0}
                   /\ TimerCallback(ready)
                   /\ txHold' = txHold /\ txStage' = txStage
                   /\ txPackets' = txPackets /\ rxStage' = rxStage
                   /\ rxPackets' = rxPackets /\ rxQLen' = rxQLen
                   /\ rxDrops' = rxDrops
  BY DEF EpollDispatch, HandleEvents
<1>2. CASE "tx" \in ready
  <2>1. /\ encoded' = encoded + 1
        /\ QueueTxPacket(encoded + 1)
    BY <1>1, <1>2 DEF TimerCallback, TxTimerCallback
  <2>2. /\ txQ' \in Seq(Nat \ {0})
        /\ txDrops' \in Nat
        /\ Len(txQ') + txDrops' = Len(txQ) + txDrops + 1
    BY <2>1, QueueTxPacketStep DEF DIInv, DataTypeOK
  <2>3. PacketsAccounted'
    <3>1. encoded = txPackets + txDrops + Len(txQ) + (IF txHold = 0 THEN 0 ELSE 1)
      BY DEF DIInv, PacketsAccounted
    <3>2. /\ encoded \in Nat /\ txDrops \in Nat /\ txPackets \in Nat
          /\ Len(txQ) \in Nat
      BY DEF DIInv, DataTypeOK
    <3>3. Len(txQ') \in Nat
      BY <2>2
    <3>4. PICK h \in {0, 1} : /\ h = (IF txHold = 0 THEN 0 ELSE 1)
                              /\ h = (IF txHold' = 0 THEN 0 ELSE 1)
      BY <1>1
    <3>5. encoded' = txPackets' + txDrops' + Len(txQ') + h
      <4>1. txPackets' = txPackets /\ encoded' = encoded + 1
        BY <1>1, <2>1
      <4>2. encoded = txPackets + txDrops + Len(txQ) + h
        BY <3>1, <3>4
      <4>3. PICK q0 \in Nat, q1 \in Nat : q0 = Len(txQ) /\ q1 = Len(txQ')
        BY <3>2, <3>3
      <4>4. /\ q1 + txDrops' = q0 + txDrops + 1
            /\ encoded = txPackets + txDrops + q0 + h
            /\ encoded' = encoded + 1
            /\ txPackets' = txPackets
        BY <2>2, <4>1, <4>2, <4>3
      <4>5. encoded' = txPackets' + txDrops' + q1 + h
        <5>1. PICK e2 \in Int, p2 \in Int, d2 \in Int :
                e2 = encoded' /\ p2 = txPackets' /\ d2 = txDrops'
          BY <2>2, <3>2, <4>4
        <5>2. /\ encoded \in Int /\ txPackets \in Int /\ txDrops \in Int
              /\ h \in Int
          BY <3>2, <3>4
        <5>3. /\ q1 + d2 = q0 + txDrops + 1
              /\ encoded = txPackets + txDrops + q0 + h
              /\ e2 = encoded + 1
              /\ p2 = txPackets
          BY <4>4, <5>1
        <5>4. e2 = p2 + d2 + q1 + h
          BY <5>2, <5>3
        <5>. QED
          BY <5>1, <5>4
      <4>. QED
        BY <4>3, <4>5
    <3>6. encoded' = txPackets' + txDrops' + Len(txQ') + (IF txHold' = 0 THEN 0 ELSE 1)
      BY <3>4, <3>5
    <3>7. rxPackets' = rxQLen' + rxDrops'
      BY <1>1 DEF DIInv, PacketsAccounted
    <3>. QED
      BY <3>6, <3>7 DEF PacketsAccounted
  <2>4. DataTypeOK' /\ HoldInSend'
    BY <1>1, <2>1, <2>2 DEF DIInv, DataTypeOK, HoldInSend
  <2>. QED
    BY <2>3, <2>4 DEF DIInv
<1>3. CASE "tx" \notin ready
  <2>1. UNCHANGED <<encoded, txQ, txDrops>>
    BY <1>1, <1>3 DEF TimerCallback
  <2>. QED
    BY <1>1, <2>1 DEF DIInv, DataTypeOK, HoldInSend, PacketsAccounted
<1>. QED
  BY <1>2, <1>3

(* The TX worker: the pop moves the head of m_txQueue into its hands, the *)
(* send moves it to one of the two counters, the empty pop and the loop   *)
(* test move nothing.                                                      *)
LEMMA TxPopDIInv ==
  ASSUME DIInv, TxPop
  PROVE  DIInv'
<1>1. /\ txQ \in Seq(Nat \ {0})
      /\ txQ /= << >>
      /\ txHold = 0
  BY DEF DIInv, DataTypeOK, HoldInSend, TxPop
<1>2. /\ Head(txQ) \in Nat \ {0}
      /\ Tail(txQ) \in Seq(Nat \ {0})
      /\ Len(Tail(txQ)) = Len(txQ) - 1
  BY <1>1, HeadTailProperties
<1>. QED
  BY <1>1, <1>2 DEF DIInv, DataTypeOK, HoldInSend, PacketsAccounted, TxPop

LEMMA TxSendDIInv ==
  ASSUME DIInv, TxSend
  PROVE  DIInv'
<1>1. txHold \in Nat \ {0}
  BY DEF DIInv, DataTypeOK, HoldInSend, TxSend
<1>. QED
  BY <1>1 DEF DIInv, DataTypeOK, HoldInSend, PacketsAccounted, TxSend

LEMMA TxWorkerDIInv ==
  ASSUME DIInv, TxWorker
  PROVE  DIInv'
<1>1. CASE TxPop
  BY <1>1, TxPopDIInv
<1>2. CASE TxEmpty
  BY <1>2 DEF DIInv, DataTypeOK, HoldInSend, PacketsAccounted, TxEmpty
<1>3. CASE TxSend
  BY <1>3, TxSendDIInv
<1>4. CASE TxTest
  <2>1. CASE TxStopSeen /\ UNCHANGED dataVars
    BY <2>1, UnchangedDIInv
  <2>2. CASE ~(TxStopSeen /\ UNCHANGED dataVars)
    BY <1>4, <2>2 DEF DIInv, DataTypeOK, HoldInSend, PacketsAccounted, TxTest
  <2>. QED
    BY <2>1, <2>2
<1>. QED
  BY <1>1, <1>2, <1>3, <1>4 DEF TxWorker

(* The RX worker: a datagram is pushed into m_rxQueue or counted dropped. *)
LEMMA RxWorkerDIInv ==
  ASSUME DIInv, RxWorker
  PROVE  DIInv'
<1>1. CASE RxReceive
  <2>1. /\ rxPackets' = rxPackets + 1
        /\ rxQLen' + rxDrops' = rxQLen + rxDrops + 1
        /\ rxQLen' \in Nat /\ rxDrops' \in Nat
        /\ encoded' = encoded /\ txQ' = txQ /\ txHold' = txHold
        /\ txStage' = txStage /\ txPackets' = txPackets /\ txDrops' = txDrops
        /\ rxStage' = "test"
    <3>1. CASE rxQLen < QueueBound
      BY <1>1, <3>1 DEF RxReceive, DIInv, DataTypeOK
    <3>2. CASE ~(rxQLen < QueueBound)
      BY <1>1, <3>2 DEF RxReceive, DIInv, DataTypeOK
    <3>. QED
      BY <3>1, <3>2
  <2>2. DataTypeOK'
    BY <2>1 DEF DIInv, DataTypeOK
  <2>3. HoldInSend'
    BY <2>1 DEF DIInv, HoldInSend
  <2>4. PacketsAccounted'
    BY <2>1 DEF DIInv, DataTypeOK, PacketsAccounted
  <2>. QED
    BY <2>2, <2>3, <2>4 DEF DIInv
<1>2. CASE RxTimeout
  BY <1>2 DEF DIInv, DataTypeOK, HoldInSend, PacketsAccounted, RxTimeout
<1>3. CASE RxTest
  <2>1. CASE UNCHANGED dataVars
    BY <2>1, UnchangedDIInv
  <2>2. CASE ~UNCHANGED dataVars
    BY <1>3, <2>2 DEF DIInv, DataTypeOK, HoldInSend, PacketsAccounted, RxTest
  <2>. QED
    BY <2>1, <2>2
<1>. QED
  BY <1>1, <1>2, <1>3 DEF RxWorker

LEMMA NextDIInv == DIInv /\ [ProcessNext]_allVars => DIInv'
<1> SUFFICES ASSUME DIInv, [ProcessNext]_allVars PROVE DIInv'
  OBVIOUS
<1>1. CASE ProcessMain
  <2>1. CASE EpollDispatch
    BY <2>1, EpollDispatchDIInv
  <2>2. CASE ~EpollDispatch
    <3>1. UNCHANGED dataVars
      BY <1>1, <2>2 DEF ProcessMain
    <3>. QED
      BY <3>1, UnchangedDIInv
  <2>. QED
    BY <2>1, <2>2
<1>2. CASE (RxMask \/ TxMask) /\ UNCHANGED dataVars
  BY <1>2, UnchangedDIInv
<1>3. CASE RxWorker
  BY <1>3, RxWorkerDIInv
<1>4. CASE TxWorker
  BY <1>4, TxWorkerDIInv
<1>5. ASSUME NEW t \in Timers, Expire(t)
      PROVE  DIInv'
  BY <1>5 DEF Expire, DIInv, DataTypeOK, HoldInSend, PacketsAccounted
<1>6. CASE ((\E t \in Threads : Signal(t)) \/ SignalDefault) /\ UNCHANGED dataVars
  BY <1>6, UnchangedDIInv
<1>7. CASE UNCHANGED allVars
  BY <1>7, UnchangedDIInv DEF allVars
<1>. QED
  BY <1>1, <1>2, <1>3, <1>4, <1>5, <1>6, <1>7 DEF ProcessNext

(* Every frame the TX timer callback encoded is sent, counted dropped by  *)
(* queueTxPacket() or by a failed send, queued, or in the TX worker's     *)
(* hands; every datagram the RX worker counted is in m_rxQueue or counted *)
(* dropped: in every state, for every ring size and every bound, whatever *)
(* the interleaving of the main thread and the two workers.                *)
THEOREM PacketsAccountedInvariant == ProcessSpec => []PacketsAccounted
<1>1. ProcessInit => DIInv
  BY InitDIInv
<1>2. DIInv /\ [ProcessNext]_allVars => DIInv'
  BY NextDIInv
<1>3. DIInv => PacketsAccounted
  BY DEF DIInv
<1>. QED
  BY <1>1, <1>2, <1>3, PTL DEF ProcessSpec

-----------------------------------------------------------------------------
(***************************************************************************)
(* The process with its data path implements the shutdown protocol: the  *)
(* steps that DataPath adds (the timer expirations, the dispatch of the  *)
(* timer callbacks, the bodies of the worker loops) touch no flag of     *)
(* Shutdown, or are a step of Shutdown with the data changed alongside   *)
(* (EpollDispatch is EpollWakeup, RxTest ends in RxFatal or RxStopSeen,  *)
(* TxTest in TxStopSeen).  So the invariants proved for Shutdown hold in *)
(* every run of ProcessSpec.  The fairness of Shutdown is not carried    *)
(* over: ProcessFairness is stated over other actions, and StopCompletes *)
(* for ProcessSpec stays with TLC.                                       *)
(***************************************************************************)

\* The safety part of the shutdown protocol.
ShutdownSafety == Init /\ [][Next]_vars

(* A step of the main thread of DataPath is a step of Shutdown's main()   *)
(* that leaves the packet state alone, or the epoll wakeup that dispatches *)
(* the timer callbacks.                                                    *)
LEMMA ProcessMainIsMainStep == ProcessMain => MainStep
BY DEF ProcessMain, EpollDispatch, MainStep

(* The bodies of the RX loop change no flag of Shutdown; its loop test is *)
(* the test of Shutdown or changes no flag either.                        *)
LEMMA RxWorkerStep == RxWorker => Next \/ UNCHANGED vars
<1>1. CASE RxReceive \/ RxTimeout
  BY <1>1 DEF RxReceive, RxTimeout
<1>2. CASE RxTest
  BY <1>2 DEF RxTest, Next
<1>. QED
  BY <1>1, <1>2 DEF RxWorker

(* The same for the TX loop: pop, empty and send are stutters of Shutdown. *)
LEMMA TxWorkerStep == TxWorker => Next \/ UNCHANGED vars
<1>1. CASE TxPop \/ TxEmpty \/ TxSend
  BY <1>1 DEF TxPop, TxEmpty, TxSend
<1>2. CASE TxTest
  BY <1>2 DEF TxTest, Next
<1>. QED
  BY <1>1, <1>2 DEF TxWorker

(* Every step of the process is a step of Shutdown or a stutter of it.    *)
LEMMA ProcessStepRefinesShutdown == [ProcessNext]_allVars => [Next]_vars
<1> SUFFICES ASSUME [ProcessNext]_allVars PROVE [Next]_vars
  OBVIOUS
<1>1. CASE ProcessMain
  BY <1>1, ProcessMainIsMainStep DEF Next
<1>2. CASE (RxMask \/ TxMask) /\ UNCHANGED dataVars
  BY <1>2 DEF Next
<1>3. CASE RxWorker
  BY <1>3, RxWorkerStep
<1>4. CASE TxWorker
  BY <1>4, TxWorkerStep
<1>5. ASSUME NEW t \in Timers, Expire(t)
      PROVE  UNCHANGED vars
  BY <1>5 DEF Expire
<1>6. CASE ((\E t \in Threads : Signal(t)) \/ SignalDefault) /\ UNCHANGED dataVars
  BY <1>6 DEF Next
<1>7. CASE UNCHANGED allVars
  BY <1>7 DEF allVars
<1>. QED
  BY <1>1, <1>2, <1>3, <1>4, <1>5, <1>6, <1>7 DEF ProcessNext

(* The process, timers, rings and counters included, implements the       *)
(* shutdown protocol of main(): it starts as main() starts, and each of    *)
(* its steps is one of Shutdown's or changes none of Shutdown's flags.     *)
THEOREM DataPathRefinesShutdown == ProcessSpec => ShutdownSafety
<1>1. ProcessInit => Init
  BY DEF ProcessInit
<1>2. [][ProcessNext]_allVars => [][Next]_vars
  BY ProcessStepRefinesShutdown, PTL
<1>. QED
  BY <1>1, <1>2 DEF ProcessSpec, ShutdownSafety

(* The strengthened invariant of the shutdown protocol holds in every run *)
(* of the whole process.                                                  *)
LEMMA ProcessIInv == ProcessSpec => []IInv
<1>1. ProcessInit => IInv
  BY InitIInv DEF ProcessInit
<1>2. IInv /\ [ProcessNext]_allVars => IInv'
  BY NextIInv, ProcessStepRefinesShutdown
<1>. QED
  BY <1>1, <1>2, PTL DEF ProcessSpec

(* With the data path running, stop() still prints and runs computeStats() *)
(* on the samplers only after joining both workers: no recordSample() of  *)
(* a worker loop races with it.                                           *)
THEOREM ProcessStatsAfterJoin == ProcessSpec => []StatsAfterJoin
<1>1. IInv => StatsAfterJoin
  BY DEF IInv, StatsAfterJoin
<1>. QED
  BY <1>1, ProcessIInv, PTL

(* With the data path running, main() returns only after joining every    *)
(* worker it created: no worker loop still uses the UdpNode, the rings or *)
(* the counters when they are destroyed.                                  *)
THEOREM ProcessNoWorkerOutlivesMain == ProcessSpec => []NoWorkerOutlivesMain
<1>1. IInv => NoWorkerOutlivesMain
  BY DEF IInv, NoWorkerOutlivesMain
<1>. QED
  BY <1>1, ProcessIInv, PTL
=============================================================================
