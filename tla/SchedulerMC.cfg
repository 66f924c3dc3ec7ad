\* Three calls on a Friday and the Saturday after it, two times in a day.
SPECIFICATION FairSpec
CONSTANTS
  daily = daily
  weekly = weekly
  Jobs = {daily, weekly}
  Calls = {c1, c2, c3}
  NoJob = NoJob
  LastTime = 1
  FirstDay = 4
  LastDay = 5
  Schedule <- SmallSchedule
INVARIANTS
  OncePerWindow
  EvidenceTruthful
  TakenAccountedFor
PROPERTY CallsEnd
CHECK_DEADLOCK FALSE
