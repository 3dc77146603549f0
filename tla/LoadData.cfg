SPECIFICATION GivenSpec
CONSTANTS
  t1 = t1
  t2 = t2
  Tasks <- BothTasks
  MaxCalls = 3
  Batches = 2
  Loads <- TypicalLoads
  Others <- AllOthers
  Autocommit = {TRUE, FALSE}
  Scenes <- PassingScenes
  ServerMayFail = TRUE
  FrameFaults = FALSE
INVARIANT RowsSurvive
INVARIANT InferredTypeFits
INVARIANT HeadersAreHeaders
INVARIANT ReportedLoadIsStored
PROPERTY ImplementsLoadSpec
PROPERTY CallsEnd
