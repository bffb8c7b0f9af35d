\* The sampler on a machine whose stores and loads are reordered (ARM,
\* POWER): a computeStats() that takes the unwrapped branch reads slots
\* with no acquire of m_writeIdx and may see a slot's constructor fill.
CONSTANTS Capacity = 3
          MaxSamples = 2
          Precision = 16
          WeakMemory = TRUE
SPECIFICATION Spec
INVARIANT SnapshotContract
