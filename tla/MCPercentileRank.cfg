\* A 16-bit mantissa: the widest whose arithmetic fits TLC's integers.
CONSTANTS Precision = 16
          MaxCount = 1000
SPECIFICATION Spec
INVARIANT RankIsNearestRank
