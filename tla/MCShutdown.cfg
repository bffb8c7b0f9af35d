\* Two signals: a second SIGINT can arrive during the shutdown itself.
\* Rings of one packet, so that two frames or datagrams overflow one; the
\* receive timeout set or not (the state space doubles with it).
CONSTANTS
  MaxSignals = 2
  QueueBound = 1
  MaxTicks = 2
  MaxDatagrams = 2
SPECIFICATION ProcessSpec
\* main() returns and the process ends: the final state has no successor.
CHECK_DEADLOCK FALSE
INVARIANTS StatsAfterJoin NoWorkerOutlivesMain PacketsAccounted
PROPERTIES StopCompletes QueuedFramesLeave
