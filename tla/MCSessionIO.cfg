SPECIFICATION Spec
CONSTANTS
  Requests <- MCRequests
  Idle = 8
  Limits <- MCLimits
INVARIANTS
  WithinBudget
  DeadlineIsTheOperations
  WatcherIsGone
