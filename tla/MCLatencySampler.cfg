\* Three slots and five samples: the ring wraps, and a computation can
\* start unwrapped and see the producer wrap while it copies.
CONSTANTS Capacity = 3
          MaxSamples = 5
          Precision = 16
          WeakMemory = FALSE
SPECIFICATION Spec
INVARIANTS TypeOK SnapshotContract PercentilesOrdered
