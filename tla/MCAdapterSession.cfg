SPECIFICATION FairSpec
CONSTANTS
  c1 = c1
  c2 = c2
  s1 = s1
  s2 = s2
  None = None
  Callers <- MCCallers
  Sessions <- MCSessions
  BatchSize = 2
INVARIANTS
  NoTransportLeak
  PooledIsExclusive
  NoStaleResponses
  StaleSessionHeals
  ClosedIsDrained
PROPERTY
  CallsReturn
