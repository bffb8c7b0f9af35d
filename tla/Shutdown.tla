------------------------------ MODULE Shutdown ------------------------------
(***************************************************************************)
(* The life of the process from the start of main() to its return         *)
(* (main.cpp 73-229): the main thread installs the signal handlers, parses *)
(* its arguments, opens the UDP socket, starts the RX and TX               *)
(* workers, registers the shutdown callback with the SignalHandler and     *)
(* runs the EventLoop until a shutdown is requested, then stops and joins  *)
(* the workers.  SIGINT/SIGTERM run signalHandlerFunction() on a thread    *)
(* that does not block them: main always, and a worker between its        *)
(* creation and its pthread_sigmask() call.  The handler raises the        *)
(* shutdown flag and runs the registered callbacks, here loop.stop().      *)
(*                                                                         *)
(* What the workers do with datagrams and packets (SpscRing, LinkHealth)   *)
(* and what the timer callbacks do are left out: only the steps that read  *)
(* or write the flags of the shutdown protocol are kept.                   *)
(***************************************************************************)
EXTENDS Naturals, ArgParser

CONSTANT MaxSignals   \* bound on the number of signals delivered (model bound)

ASSUME MaxSignalsAssumption == MaxSignals \in Nat

Threads == {"main", "rx", "tx"}

\* Where main() is: in its setup, in start(), in the setup of the loop, in the while loop
\* of main() and EventLoop::run(), in stop(), and after the scope's end.
MainPcs == {"sigInit", "parse", "udpInit", "start", "createRx", "createTx",
            "startJoinRx", "register", "check", "run", "loop", "wait", "leave", "stop", "joinRx",
            "joinTx", "report", "scopeEnd", "exited"}

\* A worker is not created, created with the signals still unblocked, in
\* its do-while loop, or returned.
WorkerPcs == {"none", "unmasked", "loop", "exited"}

VARIABLES
  mainPc,       \* the main thread's place
  rxPc,         \* the RX worker's place (m_rxThread /= 0 once created)
  txPc,         \* the TX worker's place
  running,      \* UdpThreadManager::m_running
  loopRunning,  \* EventLoop::m_running
  registered,   \* the loop.stop() callback is in SignalHandler::m_callbacks
  shutdownReq,  \* SignalHandler::s_shutdownRequested
  signals,      \* signals delivered so far
  handler,      \* the thread the last signal handler ran on
  rcvTimeo      \* SO_RCVTIMEO took effect on the socket (configureSocketBuffers)

vars == <<mainPc, rxPc, txPc, running, loopRunning, registered,
          shutdownReq, signals, handler, rcvTimeo>>

-----------------------------------------------------------------------------
(* The main thread, at the start of main().  The EventLoop constructor has *)
(* not yet run; its flag is the value that constructor gives it.           *)
Init ==
  /\ mainPc = "sigInit"
  /\ rxPc = "none"
  /\ txPc = "none"
  /\ running = FALSE
  /\ loopRunning = FALSE
  /\ registered = FALSE
  /\ shutdownReq = FALSE
  /\ signals = 0
  /\ handler = "none"
  /\ rcvTimeo = FALSE

\* SignalHandler::initialize(): sigaction() for SIGINT, then for SIGTERM;
\* if either fails main() returns EXIT_FAILURE.
SignalInit ==
  /\ mainPc = "sigInit"
  /\ mainPc' \in {"parse", "exited"}
  /\ UNCHANGED <<rxPc, txPc, running, loopRunning, registered, shutdownReq, signals, handler, rcvTimeo>>

\* parseUdpPeerArgs() on the command line: main() goes on when it returns
\* true, returns EXIT_FAILURE when it returns false, and the process ends
\* in std::terminate() when std::stoul() throws.
ParseArgs ==
  /\ mainPc = "parse"
  /\ \E argv \in CommandLines :
       mainPc' = IF ParseUdpPeerArgs(argv) = "ok" THEN "udpInit" ELSE "exited"
  /\ UNCHANGED <<rxPc, txPc, running, loopRunning, registered, shutdownReq, signals, handler, rcvTimeo>>

\* UdpNode::initialize(): socket(), bind() or connect() fails and sets
\* m_error (the failure of SO_REUSEADDR is only logged), and main() leaves
\* through main_exit; or the socket is connected.
UdpInit ==
  /\ mainPc = "udpInit"
  /\ mainPc' \in {"start", "exited"}
  /\ UNCHANGED <<rxPc, txPc, running, loopRunning, registered, shutdownReq, signals, handler, rcvTimeo>>

\* The last setsockopt() of configureSocketBuffers(), SO_RCVTIMEO of 100 ms:
\* its failure is logged and not fatal, and receive() then blocks until a
\* datagram comes.
SetRcvTimeout == rcvTimeo' \in BOOLEAN

\* start(): configureSocketBuffers() fails at SO_RCVBUF or SO_SNDBUF and
\* start() returns false, or it succeeds, with or without the receive
\* timeout, and m_running is set before the RX thread is created.
StartBegin ==
  /\ mainPc = "start"
  /\ \/ /\ mainPc' = "scopeEnd"
        /\ UNCHANGED <<running, rcvTimeo>>
     \/ /\ running' = TRUE
        /\ SetRcvTimeout
        /\ mainPc' = "createRx"
  /\ UNCHANGED <<rxPc, txPc, loopRunning, registered, shutdownReq, signals, handler>>

\* pthread_create() of the RX thread fails (m_running is cleared, start()
\* returns false) or succeeds.
CreateRx ==
  /\ mainPc = "createRx"
  /\ \/ /\ running' = FALSE
        /\ mainPc' = "scopeEnd"
        /\ UNCHANGED rxPc
     \/ /\ rxPc' = "unmasked"
        /\ mainPc' = "createTx"
        /\ UNCHANGED running
  /\ UNCHANGED <<txPc, loopRunning, registered, shutdownReq, signals, handler, rcvTimeo>>

\* A plausible bug: the failure path of the TX creation returns without
\* joining the RX thread it has asked to stop.
CreateTxNoJoin ==
  /\ mainPc = "createTx"
  /\ \/ /\ running' = FALSE
        /\ mainPc' = "scopeEnd"
        /\ UNCHANGED txPc
     \/ /\ txPc' = "unmasked"
        /\ mainPc' = "register"
        /\ UNCHANGED running
  /\ UNCHANGED <<rxPc, loopRunning, registered, shutdownReq, signals, handler, rcvTimeo>>

\* pthread_create() of the TX thread fails (m_running is cleared and the
\* RX thread joined before start() returns false) or succeeds (the thread
\* configuration that follows is not fatal and changes no flag here).
CreateTx ==
  /\ mainPc = "createTx"
  /\ \/ /\ running' = FALSE
        /\ mainPc' = "startJoinRx"
        /\ UNCHANGED txPc
     \/ /\ txPc' = "unmasked"
        /\ mainPc' = "register"
        /\ UNCHANGED running
  /\ UNCHANGED <<rxPc, loopRunning, registered, shutdownReq, signals, handler, rcvTimeo>>

\* pthread_join(m_rxThread) in start(); then main() goes to main_exit.
StartJoinRx ==
  /\ mainPc = "startJoinRx"
  /\ rxPc = "exited"
  /\ mainPc' = "scopeEnd"
  /\ UNCHANGED <<rxPc, txPc, running, loopRunning, registered, shutdownReq, signals, handler, rcvTimeo>>

\* The EventLoop and the timers are set up, then the callback that calls
\* loop.stop() is registered (main.cpp 206) and the UI initialised.
Register ==
  /\ mainPc = "register"
  /\ registered' = TRUE
  /\ mainPc' = "check"
  /\ UNCHANGED <<rxPc, txPc, running, loopRunning, shutdownReq, signals, handler, rcvTimeo>>

\* while (signalHandler.isShutdownRequested() == false) loop.run();
CheckShutdown ==
  /\ mainPc = "check"
  /\ mainPc' = IF shutdownReq THEN "leave" ELSE "run"
  /\ UNCHANGED <<rxPc, txPc, running, loopRunning, registered, shutdownReq, signals, handler, rcvTimeo>>

\* EventLoop::run(): m_running = true (EventLoop.cpp 120).
RunBegin ==
  /\ mainPc = "run"
  /\ loopRunning' = TRUE
  /\ mainPc' = "loop"
  /\ UNCHANGED <<rxPc, txPc, running, registered, shutdownReq, signals, handler, rcvTimeo>>

\* while (m_running == true): epoll_wait(), or run() returns to main().
LoopTest ==
  /\ mainPc = "loop"
  /\ mainPc' = IF loopRunning THEN "wait" ELSE "check"
  /\ UNCHANGED <<rxPc, txPc, running, loopRunning, registered, shutdownReq, signals, handler, rcvTimeo>>

\* epoll_wait(-1) returns when a periodic timer expires; its callback runs
\* through TimerHandle::handleEvent() and changes no flag of this model.
EpollWakeup ==
  /\ mainPc = "wait"
  /\ mainPc' = "loop"
  /\ UNCHANGED <<rxPc, txPc, running, loopRunning, registered, shutdownReq, signals, handler, rcvTimeo>>

\* ui.shutdown(), then threadMgr.stop().
Leave ==
  /\ mainPc = "leave"
  /\ mainPc' = "stop"
  /\ UNCHANGED <<rxPc, txPc, running, loopRunning, registered, shutdownReq, signals, handler, rcvTimeo>>

\* A plausible bug: stop() joins without clearing m_running first.
StopThreadsNoFlip ==
  /\ mainPc = "stop"
  /\ mainPc' = IF running THEN "joinRx" ELSE "scopeEnd"
  /\ UNCHANGED <<rxPc, txPc, running, loopRunning, registered, shutdownReq, signals, handler, rcvTimeo>>

\* stop(): returns at once if m_running is false, else clears it.
StopThreads ==
  /\ mainPc = "stop"
  /\ mainPc' = IF running THEN "joinRx" ELSE "scopeEnd"
  /\ running' = FALSE
  /\ UNCHANGED <<rxPc, txPc, loopRunning, registered, shutdownReq, signals, handler, rcvTimeo>>

\* pthread_join(m_rxThread) when m_rxThread != 0.
JoinRx ==
  /\ mainPc = "joinRx"
  /\ rxPc \in {"none", "exited"}
  /\ mainPc' = "joinTx"
  /\ UNCHANGED <<rxPc, txPc, running, loopRunning, registered, shutdownReq, signals, handler, rcvTimeo>>

\* A plausible bug: the TX thread is not joined.
JoinTxSkipped ==
  /\ mainPc = "joinTx"
  /\ mainPc' = "report"
  /\ UNCHANGED <<rxPc, txPc, running, loopRunning, registered, shutdownReq, signals, handler, rcvTimeo>>

\* pthread_join(m_txThread) when m_txThread != 0.
JoinTx ==
  /\ mainPc = "joinTx"
  /\ txPc \in {"none", "exited"}
  /\ mainPc' = "report"
  /\ UNCHANGED <<rxPc, txPc, running, loopRunning, registered, shutdownReq, signals, handler, rcvTimeo>>

\* The counters are printed and computeStats() runs on the three samplers;
\* stop() returns and main_ret = EXIT_SUCCESS.
Report ==
  /\ mainPc = "report"
  /\ mainPc' = "scopeEnd"
  /\ UNCHANGED <<rxPc, txPc, running, loopRunning, registered, shutdownReq, signals, handler, rcvTimeo>>

\* The block of main() ends: ~UdpThreadManager() calls stop(), which
\* returns at its first test when m_running is false (it would join
\* otherwise), the EventLoop is destroyed and main() returns.
ScopeEnd ==
  /\ mainPc = "scopeEnd"
  /\ ~running
  /\ mainPc' = "exited"
  /\ UNCHANGED <<rxPc, txPc, running, loopRunning, registered, shutdownReq, signals, handler, rcvTimeo>>

-----------------------------------------------------------------------------
(* The workers.  Each loop body ends with a load of m_running; the        *)
(* receive() of the RX thread returns within the socket timeout, the TX   *)
(* thread sleeps 10 us on an empty queue, so both keep reaching that test. *)

\* rxThreadLoop(): pthread_sigmask(SIG_BLOCK, {SIGINT, SIGTERM}).
RxMask ==
  /\ rxPc = "unmasked"
  /\ rxPc' = "loop"
  /\ UNCHANGED <<mainPc, txPc, running, loopRunning, registered, shutdownReq, signals, handler, rcvTimeo>>

\* receive() fails with an errno that is not transient: shouldExit.
RxFatal ==
  /\ rxPc = "loop"
  /\ rxPc' = "exited"
  /\ UNCHANGED <<mainPc, txPc, running, loopRunning, registered, shutdownReq, signals, handler, rcvTimeo>>

\* The loop test reads m_running == false and the thread returns.
RxStopSeen ==
  /\ rxPc = "loop"
  /\ ~running
  /\ rxPc' = "exited"
  /\ UNCHANGED <<mainPc, txPc, running, loopRunning, registered, shutdownReq, signals, handler, rcvTimeo>>

\* txThreadLoop(): pthread_sigmask(SIG_BLOCK, {SIGINT, SIGTERM}).
TxMask ==
  /\ txPc = "unmasked"
  /\ txPc' = "loop"
  /\ UNCHANGED <<mainPc, rxPc, running, loopRunning, registered, shutdownReq, signals, handler, rcvTimeo>>

\* The loop test reads m_running == false and the thread returns.
TxStopSeen ==
  /\ txPc = "loop"
  /\ ~running
  /\ txPc' = "exited"
  /\ UNCHANGED <<mainPc, rxPc, running, loopRunning, registered, shutdownReq, signals, handler, rcvTimeo>>

-----------------------------------------------------------------------------
(* The kernel runs signalHandlerFunction() on a thread that does not block *)
(* the signal: main, or a worker not yet past pthread_sigmask().  The     *)
(* handler stores the flag, then executeCallbacks() calls loop.stop() if   *)
(* it is registered.  On main, an epoll_wait() in progress returns -1      *)
(* (EINTR) after the handler (sa_flags = 0, and epoll_wait() is never      *)
(* restarted).                                                             *)
CanTake(t) ==
  CASE t = "main" -> TRUE
    [] t = "rx"   -> rxPc = "unmasked"
    [] t = "tx"   -> txPc = "unmasked"

Signal(t) ==
  /\ signals < MaxSignals
  /\ mainPc \notin {"sigInit", "exited"}
  /\ CanTake(t)
  /\ signals' = signals + 1
  /\ shutdownReq' = TRUE
  /\ loopRunning' = IF registered THEN FALSE ELSE loopRunning
  /\ handler' = t
  /\ mainPc' = IF t = "main" /\ mainPc = "wait" THEN "loop" ELSE mainPc
  /\ UNCHANGED <<rxPc, txPc, running, registered, rcvTimeo>>

\* Before initialize() installs the handler, SIGINT and SIGTERM have their
\* default action: the process terminates.
SignalDefault ==
  /\ signals < MaxSignals
  /\ mainPc = "sigInit"
  /\ signals' = signals + 1
  /\ mainPc' = "exited"
  /\ UNCHANGED <<rxPc, txPc, running, loopRunning, registered, shutdownReq, handler, rcvTimeo>>

-----------------------------------------------------------------------------
MainStep ==
  \/ SignalInit \/ ParseArgs \/ UdpInit
  \/ StartBegin \/ CreateRx \/ CreateTx \/ StartJoinRx \/ Register
  \/ CheckShutdown \/ RunBegin \/ LoopTest \/ EpollWakeup \/ Leave
  \/ StopThreads \/ JoinRx \/ JoinTx \/ Report \/ ScopeEnd

Next ==
  \/ MainStep
  \/ RxMask \/ RxFatal \/ RxStopSeen \/ TxMask \/ TxStopSeen
  \/ \E t \in Threads : Signal(t)
  \/ SignalDefault

(* The main thread always gets the CPU back, and a periodic timer always  *)
(* expires again (EpollWakeup is part of MainStep).  The TX loop sleeps   *)
(* 10 us and reaches its loop test again.  The RX loop does so only when  *)
(* receive() has its 100 ms SO_RCVTIMEO: without it, recvfrom() blocks    *)
(* until a datagram comes, which need not happen ("may not exit cleanly", *)
(* UdpThreadManager.cpp 460).  Signals and fatal receive errors need not   *)
(* happen.                                                                 *)
Fairness ==
  /\ WF_vars(MainStep)
  /\ WF_vars(RxMask) /\ WF_vars(rcvTimeo /\ RxStopSeen)
  /\ WF_vars(TxMask) /\ WF_vars(TxStopSeen)

Spec == Init /\ [][Next]_vars /\ Fairness

-----------------------------------------------------------------------------
TypeOK ==
  /\ mainPc \in MainPcs
  /\ rxPc \in WorkerPcs
  /\ txPc \in WorkerPcs
  /\ running \in BOOLEAN
  /\ loopRunning \in BOOLEAN
  /\ registered \in BOOLEAN
  /\ shutdownReq \in BOOLEAN
  /\ signals \in 0 .. MaxSignals
  /\ handler \in Threads \cup {"none"}
  /\ rcvTimeo \in BOOLEAN

(* stop() prints the summary and runs computeStats() on the samplers only *)
(* once both workers have been joined, so no recordSample() of a worker   *)
(* can run concurrently with it.                                            *)
StatsAfterJoin ==
  mainPc = "report" => rxPc = "exited" /\ txPc = "exited"

(* No worker thread is still running when main() returns: on every path,  *)
(* a failed start() included, each created worker has been joined, so none *)
(* uses the UdpNode, the packets or the UI after they are destroyed.        *)
NoWorkerOutlivesMain ==
  mainPc = "exited" => {rxPc, txPc} \subseteq {"none", "exited"}

\* The RX worker, once created, has the receive timeout, so that its loop
\* test keeps coming round.
RxTimeoutArmed == rxPc /= "none" => rcvTimeo

(* Once main() leaves the event loop, or start() fails after creating the *)
(* RX thread, the process reaches the end of main(): the workers see      *)
(* m_running cleared within their timeouts and every join returns.  This   *)
(* is claimed for the runs in which SO_RCVTIMEO took effect; without it    *)
(* the join of an idle RX worker waits for a datagram.                     *)
StopCompletes ==
  []RxTimeoutArmed => ((mainPc \in {"startJoinRx", "leave"}) ~> (mainPc = "exited"))

(* The specification: SIGINT and SIGTERM trigger a graceful shutdown, the *)
(* readiness loop stops when the signal handler's callback calls stop().  *)
(* A requested shutdown leads to the end of main(), in the runs in which   *)
(* the receive timeout is in place.                                        *)
ShutdownHonoured ==
  []RxTimeoutArmed => (shutdownReq ~> (mainPc = "exited"))

(* The specification: signal delivery is routed to main by blocking      *)
(* SIGINT/SIGTERM on the workers; the handler never runs on a worker.     *)
SignalsRoutedToMain == handler \in {"none", "main"}
=============================================================================
