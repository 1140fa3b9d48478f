SPECIFICATION CopyFairSpec
CONSTANTS
  Limit = 4
  MaxSource = 6
  Buffer = 3
  MaxEmpty = 2
  Depth = 2
INVARIANTS
  NeverPartial
  ReturnIsClean
PROPERTIES
  NeverReplaces
  CopyReturns
