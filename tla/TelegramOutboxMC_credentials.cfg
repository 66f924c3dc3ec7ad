\* One message of one call; the operator supplies credentials in two steps.
SPECIFICATION FairSpec
CONSTANTS
  k1 = k1
  k2 = k2
  k3 = k3
  Keys = {k1}
  Immediate = {}
  Invalid = {}
  Resubmitted = {}
  DirectLimit <- OnePerHour
  DrainLimit = 1
  Callers = {c1}
  Drainers = {d1}
  BatchSize = 2
  MaxAttempts = 3
  MaxCrashes = 0
  NoKey = NoKey
  StartCreds = {"none"}
PROPERTY QueuedBecomesEligible
CHECK_DEADLOCK FALSE
