\* Messages of one call each; two drains; one death.
SPECIFICATION FairSpec
CONSTANTS
  k1 = k1
  k2 = k2
  k3 = k3
  Keys = {k1, k2, k3}
  Immediate = {}
  Invalid = {k3}
  Resubmitted = {}
  DirectLimit <- OnePerHour
  DrainLimit = 1
  Callers = {c1}
  Drainers = {d1, d2}
  BatchSize = 2
  MaxAttempts = 2
  MaxCrashes = 1
  NoKey = NoKey
  StartCreds = {"none"}
INVARIANTS
  ClaimExclusive
  SentMeansDelivered
PROPERTIES
  LedgerSpec
  QueueSettles
CHECK_DEADLOCK FALSE
