SPECIFICATION Spec
CONSTANTS
  Statements <- AllStatements
  MaxGen = 5
  Autocommit = TRUE
  MaxManual = 0
  Timeouts = TRUE
  TaskCancelled = FALSE
  ServerMayDie = FALSE
INVARIANT CommitNeverLies
