\* A plan that is approved, invalidated and then asked a signal of.
SPECIFICATION Spec
CONSTANTS
  Lineages = {run}
  News = {}
  Selected = {run}
  Expiries = {1}
  Operators = {leon, mia}
  Workers = {w1, w2}
  None = None
  HistoryLimit = 3
  Moments = {0, 1}
  MaxDrafts = 1
  MaxTransitions = 3
  MaxSignals = 1
  MaxDeaths = 0
PROPERTY SignalOfCurrentPlan
CHECK_DEADLOCK FALSE
