SPECIFICATION Spec
CONSTANTS
  main = main
  worker = worker
  Threads <- TwoThreads
  Main = main
  Hops = 3
  Budgets <- Interrupted
INVARIANT RollsBack
CHECK_DEADLOCK FALSE
