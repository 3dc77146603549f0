SPECIFICATION FairSpec
CONSTANTS
  t1 = t1
  t2 = t2
  t3 = t3
  c1 = c1
  c2 = c2
  NoConn = NoConn
  Maint = maint
  Tasks <- ThreeTasks
  Conns <- TwoConns
  MinSize = 1
  MaxSize = 2
  MaxUses = 1
  NotifyOnCancel = FALSE
  Managed <- ThreeTasks
  ForgetsReference = TRUE
INVARIANT TypeOK
INVARIANT SlotAccounting
INVARIANT ExclusiveOwnership
INVARIANT IdleIsClean
PROPERTY WakeupsReachWaiters
PROPERTY ImplementsPoolSpec
PROPERTY CloseEndsEverything
