SPECIFICATION Spec
CONSTANTS
  Cursors = {c1, c2}
  NoCursor = NoCursor
  Responses <- Queries
  Calls = {"one", "all", "next", "close"}
  MaxExecutes = 2
INVARIANT TypeOK
INVARIANT RowsInOrder
INVARIANT DiscardIsLoud
INVARIANT ValueErrorsAreExact
INVARIANT FetchAllIsComplete
