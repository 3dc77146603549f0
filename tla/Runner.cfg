SPECIFICATION FairSpec
CONSTANTS
  main = main
  worker = worker
  Threads <- TwoThreads
  Main = main
  Hops = 3
  Budgets <- BlocksAndRaces
INVARIANT RunsAtMostOnce
INVARIANT BlocksAreClosed
PROPERTY CallsReturn
PROPERTY InterruptedLetsGo
CHECK_DEADLOCK FALSE
