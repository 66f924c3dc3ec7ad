\* A plan of a run or of the news that two operators move on, twice from one row at a
\* time if they like; it may expire; one death.
SPECIFICATION Spec
CONSTANTS
  Lineages = {run, news}
  News = {news}
  Selected = {run}
  Expiries = {1}
  Operators = {leon, mia}
  Workers = {w1, w2}
  None = None
  HistoryLimit = 3
  Moments = {0, 1}
  MaxDrafts = 1
  MaxTransitions = 3
  MaxSignals = 1
  MaxDeaths = 1
SYMMETRY Interchangeable
INVARIANTS
  EveryVersionRecorded
  StrayPerDeath
  SignalRestsOnApproval
CHECK_DEADLOCK FALSE
