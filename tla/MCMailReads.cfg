SPECIFICATION Spec
CONSTANTS
  Width = 2
  MaxWindows = 2
  MaxResults = 3
  MaxOutputBytes = 10
  ItemBytes = {2, 3}
  LineBudget = 6
  MaxUID = 6
  MaxGenerations = 2
INVARIANTS
  PageIsWhole
  PageIsOneSnapshot
  AnswersAreJudged
  ReadsAreTrue
CHECK_DEADLOCK FALSE
