SPECIFICATION StdioFairSpec
CONSTANTS
  MaxFrameBytes = 4
  MaxNestingDepth = 5
  Documents <- MCDocuments
  Streams <- MCStreams
  ReadSizes = {0, 1, 3, 9}
  Admissible <- MCAdmissible
  Callable <- MCCallable
  Decodable <- MCDecodable
  Ambiguous <- MCAmbiguous
  Arguments = {"mailbox", "uids"}
INVARIANTS
  OnlyWholeFrames
  RanUnambiguously
PROPERTIES
  SessionEnds
CHECK_DEADLOCK FALSE
