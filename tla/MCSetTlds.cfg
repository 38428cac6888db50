SPECIFICATION FairSpec
CONSTANTS
  N = 5
  WellFormed <- TldWellFormed
  OnList <- TldOnList
  Taken = {2}
  Workers = {w1, w2}
  MaxRetries = 2
  BatchSize = 2
  MaxGenerations = 3
CHECK_DEADLOCK FALSE
INVARIANT FinishedIsEnabled
INVARIANT OrphanedByRerunsOnly
PROPERTY RunEnds
