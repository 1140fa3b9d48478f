SPECIFICATION FairSpec
CONSTANTS
  MaxCount = 4
  MaxBytes = 7
  Lengths <- MCLengths
INVARIANTS
  DialEndsClean
  DialogueIsBounded
PROPERTY
  DialReturns
