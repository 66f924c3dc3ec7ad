\* Three scans, of two contracts and of one that is no candidate, posted any
\* number of times by two requests; one death.
SPECIFICATION FairSpec
CONSTANTS
  early = early
  later = later
  again = again
  other = other
  plain = plain
  Observations = {early, later, again, other, plain}
  Contract <- TwoContracts
  ObservedAt <- SmallTimes
  Candidates = {early, later, again, other}
  Batches <- SmallBatches
  HistoryLimit = 2
  Workers = {w1, w2}
  Moments = {2, 32}
  MaxOther = 1
  MaxDeaths = 1
  None = None
INVARIANTS
  AlertRestsOnTwoScans
  StoredOnce
  LossPerDeath
PROPERTY MarkedIsFinished
CHECK_DEADLOCK FALSE
