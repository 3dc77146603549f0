SPECIFICATION FairSpec
CONSTANTS
  c1 = c1
  c2 = c2
  b1 = b1
  b2 = b2
  None = None
  Conns <- TwoConns
  Buffers <- TwoBuffers
  Capacity = 3
  PoolLimit = 1
  Frames <- MixedFrames
INVARIANT RowsInOrder
INVARIANT BuffersExclusive
INVARIANT CutIsNoticed
PROPERTY ResultsEnd
