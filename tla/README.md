# TLA+ models of the UDP peer

This directory holds TLA+ models of the UDP peer in `src/`, the TLC
configurations that model-check them, and TLAPS proofs about the ring buffer.
`PROJECT.json` lists the components, runs, mutants, source map, findings,
hazards and theorems in machine-readable form. This README explains them.

## The system

The program is a UDP peer (`src/src/app/main.cpp`). It sends a framed packet
every 100 ms and receives the peer's frames. It judges the health of the link
from the received frames, and it shows latency percentiles on a terminal
dashboard. The parts are:

| Id | Part | Source | State and operations | Threads |
|----|------|--------|----------------------|---------|
| C1 | Packet codec | `AppPacket.cpp` `encode`, `decode`, `calculateCrc32` | TX: unique id, 16-bit lifesign (post-incremented on encode), payload view, last CRC, error slot | main (encode), RX (decode) |
| C2 | Link-health monitor | `AppPacket.cpp` `updateReceivedLifesign`, `isCommLost`, `resetCommMonitor` | last and previous RX lifesign, change and receive instants, last interval, unstable streak (uint16, saturating), unstable flag, error slot | RX writes, main reads |
| C3 | Lock-free SPSC ring | `LockFreeRingBuffer.hpp` `push`, `pop`, `size` | slots, atomic write and read indices | one producer, one consumer |
| C4 | UDP endpoint | `UdpNode.cpp` | socket; blocking `send` and `receive` with a 100 ms timeout | RX, TX |
| C5 | Latency sampler | `LatencyStats.hpp` `recordSample`, `computeStats`, `percentile` | sample ring, write index, count | RX/TX write, main reads |
| C6 | Thread manager | `UdpThreadManager.cpp` `start`, `stop`, `rxThreadLoop`, `txThreadLoop`, `queueTxPacket` | running flag, RX and TX rings, packet and drop counters | main, RX, TX |
| C7 | Scheduler and shutdown | `EventLoop.cpp`, `Timer.cpp`, `SignalHandler.cpp`, `main.cpp` | epoll loop and its running flag, three periodic timers, shutdown flag and callbacks | main, signal context |
| C8 | Terminal dashboard | `TerminalUI.hpp` | log area and pinned statistics under one mutex | main, RX |
| -- | Argument parsing | `ArgParser.cpp` | `--src`/`--dst` address:port | main, at startup |

The parts interact as follows:

- The TX timer (C7) calls `txTimerCallback`. It encodes a frame (C1) and pushes
  it into the TX ring (C3, C6).
- The TX worker thread pops the ring and sends the frame (C4). It records the
  send latency (C5).
- The RX worker blocks in `receive` (C4). It pushes each datagram into the RX
  ring, which nothing pops. Then it calls `rxPacketHandler`, which decodes the
  frame (C1) and updates link health (C2).
- The health timer reads `isCommLost()` (C2) on the main thread.
- The stats timer reads the three samplers (C5).
- SIGINT or SIGTERM sets the shutdown flag and stops the event loop (C7).
  `main` then calls `UdpThreadManager::stop()`, which clears the running flag
  and joins both workers.

The behaviours a test hardly reaches are these:

- the interleaving of the producer's and the consumer's steps on the ring;
- the order in which `decode()` updates health and checks the CRC;
- the narrowing casts of time intervals to 32 bits;
- the saturation of the unstable streak;
- the race between a signal and `EventLoop::run()`;
- the unsynchronised reads of the samplers and of the monitor state from the
  main thread.

## Modules

### `SpscRing` (C3) and `BoundedQueue`

`SpscRing` models `LockFreeRingBuffer<MaxPacketSize, Capacity>` with one
producer thread and one consumer thread. Each call is split at the points where
the other thread can run:

- `push()` is `PushReject` (either early `return false`), `PushBegin` (the
  checks pass, `currentWrite` is loaded), `PushCopy` (the slot write) and
  `PushPublish` (the release store of `m_writeIdx`).
- `pop()` is `PopEmpty`, `PopBegin`, `PopTooLong` (the early return when the
  packet exceeds `maxLength`), `PopCopy` and `PopPublish`.

The acquire/release pairs of the code make a slot write that precedes a publish
visible to the thread that loads the index, so interleaving these steps covers
every order the code allows. A packet is its length and the number of the push
call that offered it, so every packet is distinct and a duplicate would show.

The variables are:

- the ring's state: `buffer`, `writeIdx`, `readIdx`;
- each thread's position inside its call and its locals: `pcP`, `pIdx`,
  `pPkt`, `pcC`, `cIdx`, `cPkt`;
- the return values `pRet` and `cRet`, and the push-call counter `attempts`;
- two history variables, `pushed` and `popped`: the packets of the accepted
  pushes and of the successful pops.

`Count` is `size()`. `Contents` is the sequence of published slots from
`readIdx` up to `writeIdx`.

`BoundedQueue` is what the ring promises: a FIFO of at most `Bound` packets. The
ring refines it with `Bound = Capacity - 1`, because one slot is sacrificed to
tell full from empty. The refinement maps `queue` to `Contents`, `sent` to
`pushed` and `received` to `popped`. The producer's copy and begin steps, and a
pop that fails, are stutters of the queue.

**Fairness.** The consumer is the TX worker, which calls `pop()` in an endless
loop (`txThreadLoop`), so `Consumer` is weakly fair. The producer is the
application, which pushes only when its timer fires. Only the completion of a
push it has started (`PushCopy`, `PushPublish`) is assumed weakly fair; starting
a push is not.

### `LinkHealth` (C2, and the RX side of C1)

`LinkHealth` models the RX `AppPacket` object: `decode()`, the
`updateReceivedLifesign()` it calls, and `isCommLost()`. Time is a counter of
abstract ticks (`Tick`). The expected interval, the tolerance and the timeout
are given in ticks. The two narrowing casts of the code are kept:

- the receive interval is cast to uint32 microseconds (`IntervalWrap`);
- the time since the last change is cast to uint32 milliseconds
  (`ElapsedWrap`).

The lifesign is a uint16, modelled as `0 .. LifesignWrap - 1`. The streak's
`UINT16_MAX` is `CounterMax`.

A datagram is modelled by two things:

- the first check of `decode()` it fails: `short` (InvalidPacket), `toolarge`
  (DataTooLarge), `badcrc`, or `ok` if it fails none;
- its lifesign field.

Payload, identifier and CRC value are left out. `Receive` is the RX thread
handing a datagram to `rxPacketHandler`, which may be any datagram: UDP can
deliver corrupt, duplicated or reordered frames.

`DecodeFrame` runs `UpdateReceivedLifesign` before the CRC outcome, as the code
does. It ends by writing `CrcMismatch` or `None` into the error slot. Those
writes overwrite what the health update put there, so the update's own writes
to `m_error` leave no trace.

The history variables are:

- `outRun`: consecutive late frames, capped one above `CounterMax`;
- `validLifesign` and `validChange`: the change detector the specification
  describes, fed only by frames that pass the CRC check.

`resetCommMonitor()` is not modelled: the program never calls it.
`setCommTimeout()` and `setExpectedInterval()` are called once in `main()`, and
their values are constants.

### `Shutdown` (C7, and `start()`/`stop()` of C6)

`Shutdown` models the process from the start of `main()` to its return. It has
three threads and the signal handler:

- Setup comes first. `SignalInit` installs the handlers. Before that,
  `SignalDefault` is a signal under the default disposition, which ends the
  process. `ParseArgs` is `parseUdpPeerArgs()` (the `ArgParser` module) on a
  command line of `CommandLines`. `UdpInit` is `UdpNode::initialize()`, which
  may fail. Every failure returns from `main()` before a worker exists.
- `mainPc` is the main thread's place. `StartBegin`, `CreateRx`, `CreateTx`
  and `StartJoinRx` are `start()` with its three failure paths.
  `Register` is the set-up of the loop and timers and the
  `registerCallback()` at `main.cpp:206`. `CheckShutdown` is the `while` of
  `main()`. `RunBegin`, `LoopTest` and `EpollWakeup` are `EventLoop::run()`.
  `Leave`, `StopThreads`, `JoinRx`, `JoinTx` and `Report` are `ui.shutdown()`
  and `stop()`. `ScopeEnd` is the destructors at the end of the block.
- `rxPc` and `txPc` are the workers: created with the signals still
  unblocked (`unmasked`), in their loop after `pthread_sigmask()`, or
  returned. `RxStopSeen` and `TxStopSeen` are the loop tests that read
  `m_running == false`. `RxFatal` is a non-transient receive error.
- `rcvTimeo` records whether the `setsockopt(SO_RCVTIMEO)` at the end of
  `configureSocketBuffers()` took effect (`SetRcvTimeout`, chosen by
  `StartBegin`). Its failure is only logged (`UdpThreadManager.cpp:460`).
- `Signal(t)` is `signalHandlerFunction()` on thread `t`. It may be main, or
  a worker that has not yet blocked the signals. It sets
  `s_shutdownRequested`, calls `loop.stop()` once the callback is registered,
  and on main interrupts an `epoll_wait()` in progress (EINTR).

The flags are `running` (`UdpThreadManager::m_running`), `loopRunning`
(`EventLoop::m_running`), `registered` and `shutdownReq`. What the workers do
with packets, and what the timer callbacks do, is left to the other modules:
none of it reads or writes these flags.

**Fairness.** The main thread is weakly fair, and so is the expiry of a
periodic timer, which is what ends an `epoll_wait()`. The workers' mask steps
are weakly fair. The TX loop sleeps 10 us, so its loop test is weakly fair.
The RX loop test is weakly fair only when `rcvTimeo` holds
(`WF_vars(rcvTimeo /\ RxStopSeen)`). With the 100 ms `SO_RCVTIMEO`, `receive()`
returns and the test comes round again. Without it, `recvfrom()` blocks until
a datagram arrives, and nothing makes one arrive; the code's comment says the
thread "may not exit cleanly". Signals and fatal receive errors are not fair:
they need not happen.

### `DataPath` (C6 and the timers of C7, composed with `Shutdown`)

`DataPath` EXTENDS `Shutdown` and adds the packet plane of the same process.
Every step of `Shutdown` is a step of `DataPath` with the packet state
unchanged, except `EpollWakeup`, which becomes `EpollDispatch`: the wake-up of
`epoll_wait()` together with the dispatch of the ready timers.

- `unread[t]` is the expiration count of timerfd `t` (`tx`, `monitor`,
  `stats`). `Expire(t)` is the kernel adding one, once `Register` has armed
  the timers; `ticks` bounds their number by `MaxTicks`.
- `HandleEvents` is `Timer::handleEvent()` on every ready timer: `read()`
  returns the count and resets it to 0, and the callback runs once, whatever
  the count. `TimerCallback` on the TX timer is `txTimerCallback()`, which
  encodes frame number `encoded + 1` and calls `queueTxPacket()`
  (`QueueTxPacket`). The other two callbacks only log or compute statistics.
- The two `LockFreeRingBuffer`s are taken at the level of `BoundedQueue`, the
  promise `SpscRing` is checked to refine: a push is refused exactly when
  `QueueBound` packets are queued. `txQ` holds frame numbers. `m_rxQueue` is
  never popped by anyone, so only its length `rxQLen` is kept.
- `txStage` is the TX worker inside its `do { } while` body: `TxPop` or
  `TxEmpty` (the 10 us sleep), then `TxSend` (sent, or counted dropped when
  `sendto()` fails), then `TxTest`, the loop test on `m_running`, which is
  `TxStopSeen` of `Shutdown` when it reads false.
- `rxStage` is the RX worker: `RxReceive` counts a datagram and pushes it
  (or counts a drop), `RxTimeout` is the 100 ms `SO_RCVTIMEO` or a transient
  error, and `RxTest` is the loop test, or `RxFatal`.
- The counters are `m_txPacketCount`, `m_txDropCount`, `m_rxPacketCount` and
  `m_rxDropCount`.

**Fairness.** As in `Shutdown`, with the timers' expirations fair up to the
bound: the timerfds are periodic. The TX loop body is fair because the loop
sleeps only 10 us. The RX loop body is fair only when `receive()` has its
timeout (`WF_allVars(rcvTimeo /\ RxWorker)`). Datagrams, send failures and
signals are not fair.

### `Crc32`, `Codec` and `MCCodec` (C1)

`Crc32` is `calculateCrc32()` (`AppPacket.cpp:564-587`). `BitLoop` and
`ByteLoop` are its two `for` loops. A uint32 is a record of two 16-bit
halves, because TLC's integers have 32 bits with a sign. XOR is the
`Bitwise` `^^`, tabulated once for a pair of bytes (`ByteXor`) so that a
frame's CRC costs table look-ups. `ReferenceCrc32` is CRC-32 as the
standard defines it: the remainder of a long division over GF(2) by
0x104C11DB7, with the bits in transmission order, the initial value as the
complement of the first 32 coefficients, and the result reflected and
complemented. It shares nothing with the shift register of the code. The
assumption `ReferenceMatchesTestVectors` checks it against the check values
of "", "a" and "123456789". Both definitions test the register at the top of
each recursive call, which keeps TLC's evaluation shallow.

`Codec` models the TX side and `decode()` as far as the frame goes:

- `SetUniqueId` and `SetDataPointer` are the setters. An oversized payload
  leaves an empty view and `DataTooLarge`.
- `Encode` is `encode()`. `EncodeFail` covers its refusals: no buffer, and a
  buffer shorter than the frame. `EncodeOk` writes the
  little-endian header, the payload and the CRC footer into `wire`, and then
  post-increments the 16-bit lifesign (`NextLifesign`).
- `Flip(j, b)` is the network flipping bit `b` of byte `j`. `ForeignDatagrams`
  are datagrams this sender never builds: one shorter than header and footer,
  and a well-formed frame whose length field is over `MAX_DATA_SIZE`.
- `Decode` is `decode()` on whatever is on the wire. It writes the RX
  identifier, lifesign, payload and error slot as the code does, the
  identifier and lifesign before the CRC check. The lifesign monitoring
  inside `decode()` belongs to `LinkHealth`.

`m_crc32` is left out, because it only mirrors the footer and no caller
reads it. `rxSource` remembers whether the decoded datagram was an intact
encoding, so that the properties can be stated over it.

### `ArgParser` (command-line parsing)

`ArgParser` is `parseUdpPeerArgs()` and `parseAddrPort()`. A word of argv is
a flag or a token. A token is abstracted to what `parseAddrPort()` looks at:

- whether it has a `:`;
- whether `inet_pton()` accepts the text before the last `:`;
- the text after it, with `std::stoul()`'s result on it tabulated (`Stoul`),
  and the `uint16_t` cast (`ToPort`).

`Scan` is the `for` loop, written as a recursive function over positions.
`ParseUdpPeerArgs` gives `ok`, `rejected`, or `terminated` when
`std::stoul()` throws, since nothing catches the exception. `CommandLines`
is the set of command lines that main is started with in the models.

### `LatencySampler` and `Percentile` (C5)

`LatencySampler` models one `LatencyStats<Capacity>` object. One worker
records into it, and the main thread's stats timer reads it.

- `RecordBegin`, `RecordWrite`, `RecordPublish` and `RecordCount` are the
  four shared accesses of `recordSample()`. They are the relaxed load of
  `m_writeIdx`, the slot store, the release store of the index and the
  relaxed `fetch_add` of `m_count`. `pcP` is the recording thread's place.
- `ComputeBegin`, `ComputeBranch`, `ComputeCopy` and `ComputeFinish` are
  `computeStats()`: the load of `m_count` with its early return, the choice
  of the unwrapped or wrapped branch (the wrapped one loads `m_writeIdx`),
  one `std::copy` element per step, then `std::sort`, min, max and the five
  percentiles.
- The k-th recorded sample has the value k. The constructor's fill is 0, so
  a snapshot shows which samples it holds. `quiet` is a history variable: it
  records that no `recordSample()` overlapped the computation.
- **Weak memory.** The slots are plain `uint64_t`. With `WeakMemory` on,
  `prev` and `hb` track, per slot, the value before the last store and
  whether that store happens-before the main thread. Only the wrapped
  branch's acquire of `m_writeIdx` creates that edge. A load of a slot
  without it may return the old value. With `WeakMemory` off, every load
  returns the last store, as on x86-64.
- The mean and the standard deviation are double sums. They are not
  modelled, and neither is `reset()`, which has no caller.

`Percentile` is `percentile()` as the code computes it. The rank
`(p / 100.0) * n` goes through binary floating point: a number is a record
`[m, e]`, and each operation rounds to nearest, ties to even, at `Precision`
mantissa bits. `NearestRank` is the specification's exact rank.
`PercentileRank` compares the two for every `n` up to `MaxCount`.

## Runs

| Run | cfg | Checks | Result |
|-----|-----|--------|--------|
| `spsc_ring` | `MCSpscRing.cfg` | `TypeOK`, `NoLossNoDuplication`, `NoSlotRace`, `EventuallyPopped`, `QueueSpec` | pass, 2227 states |
| `spsc_ring_short_pop` | `MCSpscRingShortPop.cfg` | `NoLossNoDuplication`, `NoSlotRace` | pass, 837 states |
| `link_health` | `MCLinkHealth.cfg` | `TypeOK`, `StreakCountsRun`, `InstantOrder`, `LostEndsOnlyOnNewLifesign` | pass, 355007 states |
| `link_health_corrupt_frame` | `MCLinkHealthCorruptFrame.cfg` | `LostFollowsValidFrames` | violation |
| `link_health_unstable_error` | `MCLinkHealthUnstableError.cfg` | `UnstableReported` | violation |
| `shutdown` | `MCShutdown.cfg` (module `DataPath`) | `StatsAfterJoin`, `NoWorkerOutlivesMain`, `PacketsAccounted`, `StopCompletes`, `QueuedFramesLeave` | pass, 129535 states |
| `shutdown_lost_stop` | `MCShutdownLostStop.cfg` | `ShutdownHonoured` | violation |
| `shutdown_signal_routing` | `MCShutdownSignalRouting.cfg` | `SignalsRoutedToMain` | violation |
| `latency_sampler` | `MCLatencySampler.cfg` | `TypeOK`, `SnapshotContract`, `PercentilesOrdered` | pass, 1455 states |
| `latency_sampler_weak_memory` | `MCLatencySamplerWeakMemory.cfg` | `SnapshotContract` | violation |
| `percentile_rank` | `MCPercentileRank.cfg` | `RankIsNearestRank` | violation |
| `codec` | `MCCodec.cfg` | `TypeOK`, `DecodeInvertsEncode`, `CrcMatchesReference` | pass, 46884 states |

**Ring runs.** Each run uses a 3-slot ring, which holds at most 2 packets, and
up to 6 push calls, offering lengths 2 and 3 with `MaxPacketSize = 2`. That is
enough to do all of these:

- fill the ring, be refused for length and for fullness;
- wrap both indices around twice;
- have the producer inside `push()` while the consumer is inside `pop()` on
  the neighbouring slot.

The short-pop run gives `pop()` an output region of 1 byte for packets of 1 and
2 bytes, so `PopTooLong` fires. The program itself passes a 2048-byte region
equal to `MaxPacketSize`, so this run checks the template for other callers.
`EventuallyPopped` is not checked there, because a too-long head packet stays
at the head and every later `pop()` fails. The program never takes this path,
so it is not listed as a hazard of this code.

**Link-health runs.** The tolerance window is [2, 4] ticks around an expected
interval of 3, and the timeout is 4 ticks. The other bounds are:

- `IntervalWrap` is 8. This is small enough that a 10-tick gap wraps into the
  window.
- `LifesignWrap` is 3, so frames repeat and change the lifesign.
- `CounterMax` is 2, so three late frames in a row reach the saturation.
- `MaxTime` is 10.

`ElapsedWrap` (16) is above `MaxTime`, so the 49.7-day wrap of `isCommLost()`
does not occur in these runs.

**Shutdown runs.** The passing run allows two signals, so a second SIGINT
can arrive during the shutdown itself. It explores every place of a signal on
every thread that can take it, every failure of `start()` and a fatal RX
error at any time. It runs the composed `DataPath`, with rings of
`QueueBound = 1` packet, `MaxTicks = 2` timer expirations and
`MaxDatagrams = 2` datagrams. Two frames can fill the TX ring and have the
second refused, and two datagrams overflow the RX ring. Meanwhile `stop()` can
clear `m_running` with frames still queued or in the TX worker's hands. Every
place of `start()` is explored with the receive timeout set and not set,
which doubles the state space. Larger rings (two packets, three frames) take
close to five minutes, and they add no branch of the code: the full test and
the drop counting are the same at every bound. The
violation runs use `Shutdown` alone and need only one signal. The runs do not
check deadlock: the final state, after `main()` returns, has no successor.

**Sampler runs.** There are 3 slots and 5 samples. The ring therefore wraps,
and a computation can start in the unwrapped branch while the producer wraps
under it. The passing run assumes sequentially consistent memory. The
weak-memory run needs only 2 samples. `Precision` is 16, not the 53 of a
double, because TLC's integers have 32 bits. At 16 bits the rank's first
disagreement with the exact rank is the same as at 53 bits: p99.9 at
`n = 1000`, which `MaxCount = 1000` reaches. A Python computation with real
doubles gives the same result.

**Codec run.** `MAX_DATA_SIZE` is 1 and the payloads are one and two bytes
long, so one payload fits and one is refused. The buffers are 12 bytes (too
small for the 2-byte frame) and 256 bytes. There are two identifiers, one of
them with all four bytes distinct, so a byte-order mistake shows. The
lifesign wraps at 2. The network may flip bit 0 of bytes 7 and 9. Byte 7 is
in the length field and byte 9 is in the payload or the footer, so a flip
hits both the length check and the CRC check. Byte 9 needs the larger
payload. The run stops at depth 20.

### Properties that hold

- `NoLossNoDuplication` (ring): `popped \o Contents = pushed`. The packets
  popped so far, followed by the published ones, are exactly the accepted
  pushes in order. Breaking it takes a producer step and a consumer step on the
  same slot in the wrong order.
- `NoSlotRace` (ring): the `memcpy` of `push()` and that of `pop()` never
  address the same slot at once. The code relies on this, because the slots are
  not atomic.
- `EventuallyPopped` (ring, liveness under the fairness above): every accepted
  packet is popped.
- `QueueSpec` (ring): the ring refines `BoundedQueue!Spec`.
- `StreakCountsRun` (link health): `m_unstable_counter` is the number of
  consecutive out-of-tolerance frames, saturated at `UINT16_MAX`, and
  `m_comm_unstable` says that number is not zero.
- `InstantOrder` (link health): the order the specification states,
  `last_change <= last_recv <= now`.
- `LostEndsOnlyOnNewLifesign` (link health, an action property): a step after
  which `isCommLost()` no longer holds is a decode whose
  `updateReceivedLifesign()` stores a new lifesign and stamps
  `m_last_change_time` with the receive instant. Clock ticks, frames that
  repeat the lifesign and frames refused early never end a loss. The run's
  `ElapsedWrap` is above `MaxTime`, so the uint32 wrap of `isCommLost()` is
  not reached (see below).
- `StatsAfterJoin` (shutdown): `stop()` runs `computeStats()` only after both
  workers have returned, so no `recordSample()` runs at the same time.
- `NoWorkerOutlivesMain` (shutdown): `main()` returns only when every worker
  it created has been joined, including when `start()` fails after the RX
  thread was created.
- `StopCompletes` (shutdown, liveness): once `main()` leaves the event loop,
  or `start()` fails after creating the RX thread, the process reaches the end
  of `main()`. This holds in the runs where the RX worker has its receive
  timeout (`[]RxTimeoutArmed`). Without the timeout TLC finds the hang: TX
  creation fails, and `start()` joins an RX thread blocked in `recvfrom()`
  (see "Disagreements without a run").
- `PacketsAccounted` (shutdown): every frame the TX timer encoded is sent,
  counted dropped (by `queueTxPacket()` on the main thread or by a failed
  send on the TX worker, both in `m_txDropCount`), still queued, or in the TX
  worker's hands; every datagram received is in `m_rxQueue` or counted
  dropped. The TX counters are written from two threads.
- `QueuedFramesLeave` (shutdown, liveness): while `m_running` holds, every
  queued frame leaves `m_txQueue`. After `stop()` the TX worker may return
  with frames still queued; they are then neither sent nor counted.
- `SnapshotContract` (sampler): every value a snapshot holds is a recorded
  sample, never the 0 of an unwritten slot. No sample appears twice, and there
  are `min(count, Capacity)` of them. A computation that no `recordSample()`
  overlaps holds exactly the latest `Capacity` samples.
- `PercentilesOrdered` (sampler): in every Result,
  `min <= p50 <= ... <= p99.99 <= max`.
- `DecodeInvertsEncode` (codec): `decode()` of a frame `encode()` built
  accepts it exactly when the network flipped no bit. When it accepts, it
  returns the identifier, the lifesign and the payload that were encoded. A
  flipped bit is caught either by a length check or by the CRC.
- `CrcMatchesReference` (codec): the footer of every intact frame in flight
  is the standard CRC-32 of its header and payload. The code's shift
  register agrees with the polynomial division.

Each of these, and each `TypeOK`, is broken by a mutant of the code listed in
`PROJECT.json`:

- the `% Capacity` dropped;
- `writeIdx` published before the slot write;
- the full check dropped;
- the empty check off by one;
- the read index never released;
- the saturation test dropped;
- the uint32 cast dropped;
- the receive instant not stamped;
- the TX join skipped;
- the RX join dropped from `start()`'s failure path;
- `stop()` joining without clearing `m_running`;
- `m_count` bumped before the slot store;
- the sort dropped;
- the index published without the wrap;
- the footer computed over the header only;
- the lifesign not wrapped at 16 bits;
- the CRC's low bit tested after the shift.

### Disagreements found (the violation runs)

1. **Corrupt frames feed link health.** `decode()` calls
   `updateReceivedLifesign()` at `AppPacket.cpp:238`, before the CRC check at
   256-261. A frame that fails the CRC still changes the lifesign, the change
   instant, the interval and the streak. spec.md section 5 says such frames
   are dropped without affecting link health. TLC's trace is one corrupt frame
   with a new lifesign after the timeout: the code says the link is alive, and
   the specification says it is lost.
2. **UnstableCommunication is never reported.** `decode()` writes
   `m_error = None` at line 263, after the health update raised
   `UnstableCommunication`. spec.md section 4.2 and acceptance scenario 3
   expect that error after a late frame.
3. **A signal can be lost.** `EventLoop::run()` sets `m_running = true` on
   entry (`EventLoop.cpp:120`). A signal handled after `main()` tested
   `isShutdownRequested()` and before that line calls `stop()` too early, and
   its write is overwritten. `run()` then dispatches timers forever and never
   returns to the test. TLC's trace is one SIGINT in that window followed by
   an endless cycle of timer wakeups. spec.md says the loop stops when the
   handler's callback calls `stop()`.
4. **Signals can run on a worker.** Each worker blocks SIGINT/SIGTERM itself,
   as its first action (`UdpThreadManager.cpp:229`, `:300`). Until then it has
   main's mask, and the handler can run on it. spec.md says delivery is
   routed to main by blocking the signals on the workers.

5. **A counted sample can be read as 0 (weak memory).** When
   `m_count <= Capacity`, `computeStats()` copies the slots (line 287) without
   loading `m_writeIdx`. Its only acquire is on `m_count`, which
   `recordSample()` increments with a relaxed `fetch_add` (line 225). No slot
   store happens-before the copy. This is a data race on plain `uint64_t`,
   and on ARM or POWER a sample already counted can be read as the
   constructor's 0. spec.md section 4 says the acquire on the write index makes
   each sample wholly seen or not seen.
6. **p99.9 is off by one rank.** `percentile()` computes
   `99.9 / 100.0 * 1000` in double as 999.0000000000001, so `ceil` gives rank
   1000 instead of 999 (`LatencyStats.hpp:382`). Over 100 000 samples the code
   reports p99.9 = 99 901 us. Acceptance scenario 6 of spec.md expects 99 900 us.

### Disagreements without a run

These came up while modelling. The models contain the behaviour, but no run is kept for them: each is either on a path the program does not take or of small consequence.

1. **The interval wraps.** The interval is cast to uint32 microseconds at
   line 351. After about 71.6 minutes of silence, the next frame can be
   classified in tolerance.
2. **Lost is not terminal.** `isCommLost()` is recomputed from the change
   instant, and the next frame with a new lifesign restamps it. spec.md's
   state table says Lost is terminal until reset. `LossOfCommunication` is
   never written anywhere. `LostEndsOnlyOnNewLifesign` pins down the way the
   code leaves Lost, and `LostWithoutWrap` proves it.
3. **`pop()` can fail on a non-empty ring.** `pop()` returns false on a
   non-empty ring when the head packet does not fit `maxLength`, and it leaves
   the packet in place. Its comment says false means empty. The program does
   not take this path.
4. **`encode()` after an oversized payload.** `setDataPointer()` with more
   than `MAX_DATA_SIZE` bytes sets `DataTooLarge` and an empty view
   (`AppPacket.cpp:104`). The next `encode()` then resets the error to `None`
   and sends a header-only frame, instead of refusing. In `Codec` this is
   the `EncodeOk` path from that state. main never passes an oversized
   payload.
5. **Port range.** `parseAddrPort()` casts `std::stoul()` to `uint16_t`
   without a range check (`ArgParser.cpp:66`). So `:0`, `:70000` (which
   becomes 4464) and `:-1` (which becomes 65535) are accepted, although
   spec.md gives ports as 1-65535. A port with no digits throws
   `std::invalid_argument`, and nothing catches it, so the process ends in
   `std::terminate()`. `ArgParser` evaluates all of these outcomes.
6. **Unchecked set-up.** main ignores the results of `loop.initialize()` and
   `timer.initialize()`. Also, `m_rxQueue` is filled by the RX loop
   (`UdpThreadManager.cpp:256`) and never popped, so after 1023 packets every
   push fails and is counted as dropped.
7. **Stop can hang without the receive timeout.** `configureSocketBuffers()`
   only logs a failed `setsockopt(SO_RCVTIMEO)` ("may not exit cleanly",
   `UdpThreadManager.cpp:460`). The RX worker's `recvfrom()` then blocks
   until a datagram comes, so the join in `stop()`, or in `start()` after a
   failed TX creation, waits for a peer that may never send. With the
   antecedent `[]RxTimeoutArmed` dropped from `StopCompletes`, the shutdown
   run finds this hang. The property and `ShutdownHonoured` are stated for
   the runs in which the timeout took effect. spec.md's graceful shutdown
   has no such condition.

## Proofs
### `SpscRingProofs`

TLAPS proves the following for every `Capacity >= 2` and every value of the
other constants:

- `TypeCorrect`: `Spec => []TypeOK`;
- `NoLossNoDuplicationInvariant`: `Spec => []NoLossNoDuplication`;
- `NoSlotRaceInvariant`: `Spec => []NoSlotRace`.

The proofs use only the named assumptions of `SpscRing`.

`NoLossNoDuplication` is not inductive on its own. A producer inside `push()`
must know that its slot is the write slot, that the ring is not full, and after
the copy that the slot holds its packet. A consumer inside `pop()` must know
that its slot is the read slot, that the ring is not empty, and after the copy
that it holds that slot's packet. The inductive invariant `IInv` adds exactly
these facts, and that the published slots hold packets. TLC checked `IInv` on
every reachable state of `MCSpscRing.cfg` before it was proved.

`NextIInv` has one lemma per action. The lemmas rest on facts about
`ContentsOf(b, r, w)`, the published slots as a function of the ring's state:

- publishing a slot appends it (`ContentsAfterPush`);
- releasing the read slot removes the head (`ContentsAfterPop`);
- writing the unpublished write slot changes nothing (`ContentsAfterWrite`).

There are also two facts about concatenation. These lemmas are proved with the
index arithmetic made explicit (`NextIdxValue`, `DistanceValue`,
`OffsetValue`) and the library's `SeqEqual`, `AppendProperties`,
`ConcatAssociative` and `HeadTailProperties`.

`NoSlotRace` follows from `IInv`. The producer is on `writeIdx`, the consumer
is on `readIdx`, and the two differ while `pop()` is inside its call.

Liveness (`EventuallyPopped`) is checked by TLC only: it needs fairness and
ENABLED, both out of the prover's reach.

### `SpscRingRefinement`

`RingImplementsQueue` proves `Spec => QueueSpec` for every `Capacity >= 2`.
In other words, `LockFreeRingBuffer` implements `BoundedQueue` with bound
`Capacity - 1` under the mapping of `SpscRing`'s `Queue` instance:

- the queue is `Contents`, the published slots from `m_readIdx` to
  `m_writeIdx`;
- the histories are `pushed` and `popped`.

`BoundedQueue` states no fairness, so this is all of `QueueSpec`. The proof
has the usual two parts:

- `InitRefines`: the initial ring is the empty queue.
- `NextRefines`, under `IInv` of `SpscRingProofs`: every step is a step of
  the queue or a stutter. The release store of `m_writeIdx` is `Put`, by
  `PushPublishContents`. The release store of `m_readIdx` is `Take`, by
  `PopPublishContents`. Every other step leaves `Contents` alone; the
  `memcpy` into the write slot does so by `PushCopyContents`.

`Put`'s guard is `Len(queue) < Bound`. It comes from `CountBelowBound`: a ring
that is not full holds fewer than `Capacity - 1` published slots.

### `DataPathProofs`

`PacketsAccountedInvariant` proves `ProcessSpec => []PacketsAccounted` for
every `QueueBound`, `MaxTicks`, `MaxDatagrams` and `MaxSignals`. Every frame
encoded is in one of these places:

- sent;
- counted dropped;
- in `m_txQueue`;
- in the TX worker's hands.

Every datagram received is either pushed or counted dropped.

The property is not inductive. The inductive invariant `DIInv` adds two facts:

- the types, in particular that frame numbers are positive, so that
  `txHold = 0` means "no frame";
- `HoldInSend`: the TX worker holds a frame exactly between its `pop()` and
  its `send()`.

TLC checked `DIInv` on every state of `MCShutdown.cfg` before it was
proved. There is one lemma per step of the TX and RX workers and for
`EpollDispatch`. The last one covers the TX callback's push or counted
refusal, using `QueueTxPacketStep`. `StopCompletes` and `QueuedFramesLeave`
are liveness and are checked by TLC only.

`DataPathRefinesShutdown` proves `ProcessSpec => ShutdownSafety`, where
`ShutdownSafety == Init /\ [][Next]_vars` is the safety part of `Shutdown`.
So `DataPath` implements the shutdown protocol. The refinement mapping is the
identity on Shutdown's variables: `DataPath` extends `Shutdown` and adds only
packet state. `ProcessStepRefinesShutdown` checks the steps one at a time:

- `EpollDispatch` is `EpollWakeup` with the callbacks run alongside
  (`ProcessMainIsMainStep`);
- a worker's loop test ends in `RxFatal`, `RxStopSeen` or `TxStopSeen`, or
  changes no flag;
- the worker bodies and `Expire` are stutters of `Shutdown`.

`ShutdownProofs`' invariant `IInv` therefore holds for `ProcessSpec`. This
gives `ProcessStatsAfterJoin` and `ProcessNoWorkerOutlivesMain`, which are
the invariants the `shutdown` run checks, stated for the run's own
specification. Shutdown's fairness is not carried over, because
`ProcessFairness` is stated over other actions. `StopCompletes` stays with TLC.

### `LatencySamplerProofs`

Two theorems, for every `Capacity >= 1` and every `MaxSamples`:

- `LatencySamplerTypeCorrect` proves `Spec => []TypeOK` on every machine.
  It uses `TInv`, which is the types plus the producer's place: `m_count`
  lags the `recordSample()` calls begun by the one in progress, and
  `m_writeIdx` is the number of samples published modulo `Capacity`.
- `SnapshotContractInvariant` proves `Spec => []SnapshotContract` under the
  hypothesis `WeakMemory = FALSE`, that is, when loads return the last store
  (x86-64). Under weak memory the contract is false, as the
  `latency_sampler_weak_memory` run shows, so the hypothesis cannot be
  dropped.

The contract is far from inductive. `SIInv` adds three groups of facts.

What the slots hold (`SlotsInv`):

- sample `k` is only ever stored in slot `(k - 1) % Capacity`;
- the last `Capacity` samples stored are all in place;
- a slot not yet stored into still holds the constructor's 0.

How far the recording thread has got (`ProducerInv`): stored, published and
counted.

What a computation copies (`ConsumerInv`):

- the `Capacity` or `totalCount` slots it copies are distinct, and they are
  `0 .. totalCount - 1` when unwrapped;
- each value copied so far is a sample whose slot is the slot it was copied
  from;
- a quiet computation copies the slots as they are.

TLC checked `SIInv` with `WeakMemory = FALSE` before it was proved, at
`(Capacity, MaxSamples)` = (1,3), (2,5), (3,5), (3,7) and (4,6).

The index arithmetic is proved once from `\div` and `%`:

- `ModStep`: `((x % C) + 1) % C = (x + 1) % C`;
- `ModDistinct`: two numbers less than `C` apart have different slots.

The cardinality parts of the contract come from the library's
`FS_Surjection`, `FS_Injection` and `FS_Subset`:

- The snapshot maps `1 .. n` injectively onto its set of values, because
  distinct slots hold distinct samples. So the set has `n` elements.
- A quiet, wrapped computation copies `Capacity` distinct slots. By
  cardinality these are all the slots, so the snapshot contains the last
  `Capacity` samples. It has exactly `Capacity` values, so it is that set.

`PercentilesOrdered` is checked by TLC only. It rests on the floating-point
rank of `Percentile` (`Log2Floor` is a CHOOSE over exponents and the rounding
is a case analysis on remainders). The proof would have to be an induction
over data, which the provers cannot do here.

### `ShutdownProofs`

TLAPS proves the following for every `MaxSignals` in `Nat`:

- `ShutdownTypeCorrect`: `Spec => []TypeOK`;
- `StatsAfterJoinInvariant`: `Spec => []StatsAfterJoin`;
- `NoWorkerOutlivesMainInvariant`: `Spec => []NoWorkerOutlivesMain`.

Neither property is inductive, because `JoinTx` and `ScopeEnd` rely on what
earlier steps of `main()` did. The invariant `IInv` records, for each place of
the main thread, these facts:

- `m_running` is set from the store in `start()` until `stop()`;
- which workers exist (none before `CreateRx`, RX from then on, TX after
  `CreateTx`);
- which workers have been joined (RX from `joinTx`, both at `report`);
- at `scopeEnd` every worker is absent or returned.

A worker that has returned never runs again. With that, each step of `Next`
preserves `IInv`, which the proof shows one action at a time.
`StopCompletes` is liveness and is checked by TLC only.

### `LinkHealthProofs`

TLAPS proves the following for every value of the constants that
`LinkHealth` assumes (naturals, nonzero wrap widths and `CounterMax`):

- `LinkHealthTypeCorrect`: `Spec => []TypeOK`;
- `StreakCountsRunInvariant`: `Spec => []StreakCountsRun`;
- `InstantOrderInvariant`: `Spec => []InstantOrder`.

The inductive invariant is `IInv == TypeOK /\ StreakCountsRun /\ InstantOrder`.
None of the three is inductive alone: the saturating counter step needs the
run length within `0 .. CounterMax + 1` (from `TypeOK`), and the type of the
counter needs the relation to the run. The lemma `StreakStep` states what one
classified interval does to the counter and the run, whatever the interval,
and the `DecodeFrame` case of `NextIInv` cites it.

`LostWithoutWrap` proves the action property `LostEndsOnlyOnNewLifesign`
under the hypothesis `MaxTime < ElapsedWrap`, from `IInv`. The hypothesis
says the clock stays within the uint32 milliseconds that `isCommLost()`
narrows to. Past that range, about 49.7 days after the last change, the test
wraps and a lost link reads as alive without any frame, so the hypothesis
cannot be dropped. `ElapsedNoWrap` states that below the wrap the narrowing
is the identity. `LostStep` then takes the steps one at a time:

- a tick only lengthens the time since the change;
- an early refusal changes nothing;
- a decode that repeats the lifesign keeps the change instant.

The violation properties (`LostFollowsValidFrames`, `UnstableReported`) are
checked by TLC only.

### What stays with TLC

- Liveness: `EventuallyPopped`, `StopCompletes` and `QueuedFramesLeave`.
  Fairness and ENABLED are beyond the installed provers.
- `Codec` and `Crc32` (`DecodeInvertsEncode`, `CrcMatchesReference`): the
  CRC loops of `Crc32` are RECURSIVE operators and `Crc32` uses `Bitwise`.
  Every module that reaches either loses the SMT backend, and what a
  recursive definition computes for every input would need induction over
  data.
- `PercentilesOrdered` and `RankIsNearestRank`: the floating-point rank (see
  above).
- `SnapshotContract` under weak memory, which is false, and every violation
  run.

## Not modelled yet, and the plan

1. **Timer and loop set-up failures (C7).** `DataPath` arms every timer at
   `Register`; `main()` does not check `initialize()` or `registerEvent()`,
   so a failed timerfd would silently never fire. The coalescing of
   expirations in `handleEvent()` is modelled, but no property states it,
   because time is not modelled in `DataPath`.
2. **Shutdown leftovers (C7).** Two things are not modelled:
   - the data race on `m_callbacks` between `registerCallback()` and a
     handler running on a worker;
   - a signal after the block of `main()` has ended.
3. **Sampler `reset()` (C5).** It has no caller and is not modelled.

The UDP endpoint (C4) stays an environment: its datagrams are `Codec`'s wire,
and its failures are `UdpInit` and `RxFatal`. The terminal dashboard is
formatting and I/O under one mutex, with nothing a model checker adds.
