------------------------------ MODULE DataPath ------------------------------
(***************************************************************************)
(* The process of Shutdown with its packet plane: the three periodic      *)
(* timers that main() arms before it runs the EventLoop, the TX timer     *)
(* callback that encodes a frame and queues it (main.cpp 310-340), the TX *)
(* worker that pops and sends it, and the RX worker that counts each      *)
(* datagram and pushes it into m_rxQueue before its callback decodes it   *)
(* (UdpThreadManager.cpp 219-334).                                        *)
(*                                                                         *)
(* Every step of Shutdown is a step here, with the packet state unchanged, *)
(* except EpollWakeup, which becomes the dispatch of the expired timers.  *)
(* The two LockFreeRingBuffers are taken at the level of the promise that *)
(* SpscRing is checked to refine (BoundedQueue): a push is refused exactly *)
(* when QueueBound packets are queued, a pop returns the oldest one.  The *)
(* TX queue holds frame numbers (the k-th frame encoded is k); m_rxQueue  *)
(* is never popped, so only its length is kept.  What the RX callback     *)
(* does to the link health is LinkHealth, what the samplers record is     *)
(* LatencySampler; neither feeds back into the steps modelled here.       *)
(***************************************************************************)
EXTENDS Shutdown, Sequences

CONSTANTS
  QueueBound,    \* packets a LockFreeRingBuffer<2048, 1024> holds: 1023
  MaxTicks,      \* bound on timer expirations (model bound)
  MaxDatagrams   \* bound on datagrams the RX worker receives (model bound)

ASSUME DataPathAssumption ==
  /\ QueueBound \in Nat \ {0}
  /\ MaxTicks \in Nat
  /\ MaxDatagrams \in Nat

\* The timerfds main() creates: TX, comm monitor and stats report.
Timers == {"tx", "monitor", "stats"}

VARIABLES
  unread,      \* per timerfd: expirations not yet read by handleEvent()
  ticks,       \* expirations so far, all timers
  encoded,     \* frames the TX timer callback has encoded
  txQ,         \* m_txQueue: the frame numbers queued, oldest first
  txHold,      \* the frame the TX worker has popped and not yet sent (0: none)
  txStage,     \* the TX worker in its loop body: pop, send, or loop test
  txPackets,   \* m_txPacketCount
  txDrops,     \* m_txDropCount
  rxStage,     \* the RX worker in its loop body: receive, or loop test
  rxPackets,   \* m_rxPacketCount
  rxQLen,      \* m_rxQueue.size()
  rxDrops      \* m_rxDropCount

dataVars == <<unread, ticks, encoded, txQ, txHold, txStage, txPackets, txDrops,
              rxStage, rxPackets, rxQLen, rxDrops>>

allVars == <<vars, dataVars>>

\* The frames in m_txQueue, as a set.
Queued == {txQ[i] : i \in DOMAIN txQ}

-----------------------------------------------------------------------------
(* main() starts as in Shutdown; the UdpThreadManager constructor zeroes    *)
(* the counters, the rings start empty.                                     *)
ProcessInit ==
  /\ Init
  /\ unread = [t \in Timers |-> 0]
  /\ ticks = 0
  /\ encoded = 0
  /\ txQ = << >>
  /\ txHold = 0
  /\ txStage = "body"
  /\ txPackets = 0
  /\ txDrops = 0
  /\ rxStage = "body"
  /\ rxPackets = 0
  /\ rxQLen = 0
  /\ rxDrops = 0

\* The kernel adds an expiration to a periodic timerfd; the timers are
\* armed by initialize() before the loop set-up ends (Register).
Expire(t) ==
  /\ registered
  /\ mainPc \notin {"scopeEnd", "exited"}
  /\ ticks < MaxTicks
  /\ unread' = [unread EXCEPT ![t] = @ + 1]
  /\ ticks' = ticks + 1
  /\ UNCHANGED <<vars, encoded, txQ, txHold, txStage, txPackets, txDrops,
                 rxStage, rxPackets, rxQLen, rxDrops>>

\* A plausible bug: a refused push is not counted in m_txDropCount.
QueueTxPacketUncounted(f) ==
  IF Len(txQ) < QueueBound
    THEN txQ' = Append(txQ, f) /\ UNCHANGED txDrops
    ELSE UNCHANGED <<txQ, txDrops>>

\* queueTxPacket(): m_txQueue.push(), and m_txDropCount on refusal.
QueueTxPacket(f) ==
  IF Len(txQ) < QueueBound
    THEN txQ' = Append(txQ, f) /\ UNCHANGED txDrops
    ELSE txDrops' = txDrops + 1 /\ UNCHANGED txQ

\* txTimerCallback(): setDataPointer() of the 15-byte literal and encode()
\* into the 256-byte buffer always succeed, so every call queues a frame.
TxTimerCallback ==
  /\ encoded' = encoded + 1
  /\ QueueTxPacket(encoded + 1)

\* The callback of a timer: commMonitorCallback() only logs, and
\* statsReportCallback() runs computeStats() (LatencySampler).
TimerCallback(ready) ==
  IF "tx" \in ready THEN TxTimerCallback ELSE UNCHANGED <<encoded, txQ, txDrops>>

\* handleEvent() on each ready timerfd: read() returns the expiration
\* count and resets it, and the callback runs once, however many
\* expirations the count held.
HandleEvents(ready) ==
  /\ unread' = [t \in Timers |-> IF t \in ready THEN 0 ELSE unread[t]]
  /\ TimerCallback(ready)

\* epoll_wait() returns every timerfd with an expiration (MAX_EVENTS = 16)
\* and run() dispatches them; then the loop test (EpollWakeup).
EpollDispatch ==
  /\ EpollWakeup
  /\ LET ready == {t \in Timers : unread[t] > 0}
     IN  /\ ready /= {}
         /\ HandleEvents(ready)
  /\ UNCHANGED <<ticks, txHold, txStage, txPackets, rxStage, rxPackets, rxQLen, rxDrops>>

-----------------------------------------------------------------------------
(* txThreadLoop(): the body pops, sends and counts, or sleeps on an empty  *)
(* queue; the do-while test then reads m_running.                          *)

\* A plausible bug: the ring's empty test off by one, so that pop() only
\* succeeds with two frames queued.
TxPopOffByOne ==
  /\ txPc = "loop"
  /\ txStage = "body"
  /\ Len(txQ) > 1
  /\ txHold' = Head(txQ)
  /\ txQ' = Tail(txQ)
  /\ txStage' = "send"
  /\ UNCHANGED <<vars, unread, ticks, encoded, txPackets, txDrops, rxStage, rxPackets, rxQLen, rxDrops>>

\* m_txQueue.pop() returns the oldest frame.
TxPop ==
  /\ txPc = "loop"
  /\ txStage = "body"
  /\ txQ /= << >>
  /\ txHold' = Head(txQ)
  /\ txQ' = Tail(txQ)
  /\ txStage' = "send"
  /\ UNCHANGED <<vars, unread, ticks, encoded, txPackets, txDrops, rxStage, rxPackets, rxQLen, rxDrops>>

\* pop() fails on the empty queue: usleep(10).
TxEmpty ==
  /\ txPc = "loop"
  /\ txStage = "body"
  /\ txQ = << >>
  /\ txStage' = "test"
  /\ UNCHANGED <<vars, unread, ticks, encoded, txQ, txHold, txPackets, txDrops,
                 rxStage, rxPackets, rxQLen, rxDrops>>

\* send(): m_txPacketCount when sendto() returns a positive length, else
\* m_txDropCount.
TxSend ==
  /\ txStage = "send"
  /\ \/ txPackets' = txPackets + 1 /\ UNCHANGED txDrops
     \/ txDrops' = txDrops + 1 /\ UNCHANGED txPackets
  /\ txHold' = 0
  /\ txStage' = "test"
  /\ UNCHANGED <<vars, unread, ticks, encoded, txQ, rxStage, rxPackets, rxQLen, rxDrops>>

\* while (m_running.load(acquire) == true): another iteration, or the
\* thread returns (TxStopSeen).
TxTest ==
  /\ txStage = "test"
  /\ \/ /\ txPc = "loop"
        /\ running
        /\ txStage' = "body"
        /\ UNCHANGED <<vars, unread, ticks, encoded, txQ, txHold, txPackets, txDrops,
                       rxStage, rxPackets, rxQLen, rxDrops>>
     \/ TxStopSeen /\ UNCHANGED dataVars

TxWorker == TxPop \/ TxEmpty \/ TxSend \/ TxTest

-----------------------------------------------------------------------------
(* rxThreadLoop(): the body receives; the do-while test reads m_running    *)
(* and shouldExit.                                                          *)

\* A plausible bug: a datagram the full m_rxQueue refuses is not counted.
RxReceiveUncounted ==
  /\ rxPc = "loop"
  /\ rxStage = "body"
  /\ rxPackets < MaxDatagrams
  /\ rxPackets' = rxPackets + 1
  /\ IF rxQLen < QueueBound THEN rxQLen' = rxQLen + 1 /\ UNCHANGED rxDrops
                            ELSE UNCHANGED <<rxQLen, rxDrops>>
  /\ rxStage' = "test"
  /\ UNCHANGED <<vars, unread, ticks, encoded, txQ, txHold, txStage, txPackets, txDrops>>

\* receive() returns a datagram: m_rxPacketCount, the interval sample, the
\* push into m_rxQueue (m_rxDropCount when it is full), the callback that
\* decodes it, and the processing-latency sample.
RxReceive ==
  /\ rxPc = "loop"
  /\ rxStage = "body"
  /\ rxPackets < MaxDatagrams
  /\ rxPackets' = rxPackets + 1
  /\ IF rxQLen < QueueBound THEN rxQLen' = rxQLen + 1 /\ UNCHANGED rxDrops
                            ELSE rxDrops' = rxDrops + 1 /\ UNCHANGED rxQLen
  /\ rxStage' = "test"
  /\ UNCHANGED <<vars, unread, ticks, encoded, txQ, txHold, txStage, txPackets, txDrops>>

\* receive() returns -1 after the 100 ms SO_RCVTIMEO or with a transient
\* errno, or 0: nothing is counted.
RxTimeout ==
  /\ rxPc = "loop"
  /\ rxStage = "body"
  /\ rxStage' = "test"
  /\ UNCHANGED <<vars, unread, ticks, encoded, txQ, txHold, txStage, txPackets, txDrops,
                 rxPackets, rxQLen, rxDrops>>

\* A non-transient errno sets shouldExit and the loop test ends the
\* thread (RxFatal); else the test reads m_running (RxStopSeen).
RxTest ==
  \/ /\ rxStage = "body"
     /\ RxFatal
     /\ UNCHANGED dataVars
  \/ /\ rxStage = "test"
     /\ \/ /\ rxPc = "loop"
           /\ running
           /\ rxStage' = "body"
           /\ UNCHANGED <<vars, unread, ticks, encoded, txQ, txHold, txStage, txPackets,
                          txDrops, rxPackets, rxQLen, rxDrops>>
        \/ RxStopSeen /\ UNCHANGED dataVars

RxWorker == RxReceive \/ RxTimeout \/ RxTest

-----------------------------------------------------------------------------
\* The main thread: the steps of Shutdown, with EpollWakeup dispatching.
ProcessMain ==
  \/ /\ \/ SignalInit \/ ParseArgs \/ UdpInit
        \/ StartBegin \/ CreateRx \/ CreateTx \/ StartJoinRx \/ Register
        \/ CheckShutdown \/ RunBegin \/ LoopTest \/ Leave
        \/ StopThreads \/ JoinRx \/ JoinTx \/ Report \/ ScopeEnd
     /\ UNCHANGED dataVars
  \/ EpollDispatch

ProcessNext ==
  \/ ProcessMain
  \/ (RxMask \/ TxMask) /\ UNCHANGED dataVars
  \/ RxWorker
  \/ TxWorker
  \/ \E t \in Timers : Expire(t)
  \/ ((\E t \in Threads : Signal(t)) \/ SignalDefault) /\ UNCHANGED dataVars

(* As in Shutdown: the main thread and the TX worker keep running (it     *)
(* sleeps 10 us), the RX worker too when receive() has its SO_RCVTIMEO,    *)
(* and the timers keep expiring up to the bound.  Datagrams, send failures *)
(* and signals need not happen.                                             *)
ProcessFairness ==
  /\ WF_allVars(ProcessMain)
  /\ WF_allVars(\E t \in Timers : Expire(t))
  /\ WF_allVars(RxMask /\ UNCHANGED dataVars) /\ WF_allVars(rcvTimeo /\ RxWorker)
  /\ WF_allVars(TxMask /\ UNCHANGED dataVars) /\ WF_allVars(TxWorker)

ProcessSpec == ProcessInit /\ [][ProcessNext]_allVars /\ ProcessFairness

-----------------------------------------------------------------------------
(* Every frame the TX timer callback encoded, and every datagram the RX   *)
(* worker received, is in exactly one place: sent (m_txPacketCount),      *)
(* counted dropped by queueTxPacket() on the main thread or by the TX     *)
(* worker on a failed send (both in m_txDropCount), still in m_txQueue or *)
(* in the TX worker's hands; pushed into m_rxQueue or counted in          *)
(* m_rxDropCount.  The TX side is written by two threads.                 *)
PacketsAccounted ==
  /\ encoded = txPackets + txDrops + Len(txQ) + (IF txHold = 0 THEN 0 ELSE 1)
  /\ rxPackets = rxQLen + rxDrops

(* While the threads run, every frame queued by the TX timer callback     *)
(* leaves m_txQueue: the TX worker keeps popping it.  (After stop() the  *)
(* worker may return with frames still queued.)                            *)
QueuedFramesLeave ==
  \A k \in 1 .. MaxTicks : (k \in Queued) ~> (k \notin Queued \/ ~running)
=============================================================================
