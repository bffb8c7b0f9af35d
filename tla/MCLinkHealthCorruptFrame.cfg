SPECIFICATION Spec
CONSTANTS
  ExpectedInterval = 3
  Tolerance = 1
  CommTimeout = 4
  IntervalWrap = 8
  ElapsedWrap = 16
  LifesignWrap = 3
  CounterMax = 2
  MaxTime = 10
INVARIANT LostFollowsValidFrames
