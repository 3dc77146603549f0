SPECIFICATION Spec
CONSTANTS
  Cursors = {c1, c2}
  NoCursor = NoCursor
  Responses <- QueryOrUpdate
  Calls = {"one"}
  MaxExecutes = 3
INVARIANT DiscardIsLoud
