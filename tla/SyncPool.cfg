SPECIFICATION FairSpec
CONSTANTS
  t1 = t1
  t2 = t2
  c1 = c1
  c2 = c2
  NoConn = NoConn
  Maint = maint
  Threads <- TwoThreads
  Conns <- TwoConns
  MinSize = 1
  MaxSize = 2
  MaxUses = 1
  ManualCommit = FALSE
INVARIANT SlotAccounting
INVARIANT ExclusiveOwnership
INVARIANT IdleIsClean
INVARIANT NoOrphans
PROPERTY ImplementsPoolSpec
PROPERTY PollersAreServed
