\* A news refresh after the after-close job of a day with a Top 10.
SPECIFICATION FairSpec
CONSTANTS
  Runs = {r1}
  MaxSetbacks = 0
  NoRun = NoRun
INVARIANT WatchesLatestTop10
CHECK_DEADLOCK FALSE
