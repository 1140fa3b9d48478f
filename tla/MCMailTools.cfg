SPECIFICATION Spec
CONSTANTS
  Letters <- MCLetters
  LocalThreads <- MCLocalThreads
  LocalDocuments <- MCLocalDocuments
  MaxMIMEParts = 4
  MaxMIMEDepth = 1
  MaxAttachmentCount = 2
  MaxDecodedTextBytes = 2
  MaxHeaderCount = 2
  MaxSubjectMatches = 3
  DefaultLimit = 2
  LimitCeiling = 3
  MaxThreadDepth = 1
  MaxReferenceCount = 2
  Limits <- MCLimits
  Rooms <- MCRooms
INVARIANTS
  UntruncatedIsComplete
  ItemsAreWhatTheyName
  ThreadIsForest
  ReadingsAgree
CHECK_DEADLOCK FALSE
