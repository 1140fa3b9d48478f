SPECIFICATION FairSpec
CONSTANTS
  FrameBytes = 20
  Depth = 3
  FetchTokens = 7
  AtomBytes = 2
  ControlBytes = 7
  SessionBytes = 42
  Responses = 4
  WorkUnits = 16
  ReadBytes = 2
  Rooms = {3}
  Ends = {"operation_canceled"}
  LiteralDigits = 2
  MaxUint32 = 11
  SelectedUID = 1
  Lines <- MCLines
  FetchBytes <- MCFetchBytes
INVARIANTS
  ReleasedIsWhole
  StructureIsEarned
  BudgetsAreAhead
PROPERTIES
  FirstCategoryIsFinal
  StructureReturns
CHECK_DEADLOCK FALSE
