\* Two messages of one call each, one that any number of calls submit.
SPECIFICATION FairSpec
CONSTANTS
  k1 = k1
  k2 = k2
  k3 = k3
  Keys = {k1, k2, k3}
  Immediate = {}
  Invalid = {}
  Resubmitted = {k1}
  DirectLimit <- OnePerHour
  DrainLimit = 1
  Callers = {c1}
  Drainers = {d1}
  BatchSize = 2
  MaxAttempts = 1
  MaxCrashes = 1
  NoKey = NoKey
  StartCreds = {"none"}
INVARIANTS
  StrandedPerCrash
  HourlyLimitHolds
  TriesBoundedByWorkers
CHECK_DEADLOCK FALSE
