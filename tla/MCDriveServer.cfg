SPECIFICATION FairSpec
CONSTANTS
  r1 = r1
  r2 = r2
  None = None
  Requests <- MCRequests
INVARIANT
  AnswersAreOwn
PROPERTIES
  GateIsSound
  RequestsReturn
