SPECIFICATION FairSpec
CONSTANTS
  Statements <- AllStatements
  MaxGen = 3
  Autocommit = FALSE
  MaxManual = 1
  Timeouts = TRUE
  TaskCancelled = TRUE
  ServerMayDie = TRUE
INVARIANT OwnMessagesOnly
INVARIANT TransactionTracked
PROPERTY CancelStrikesItsStatement
PROPERTY CallsEnd
