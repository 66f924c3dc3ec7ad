\* One run with two setbacks, beside the other users of the reports table.
SPECIFICATION FairSpec
CONSTANTS
  Runs = {r1}
  MaxSetbacks = 2
  NoRun = NoRun
INVARIANTS
  BriefRestsOnEvidence
  InputsReady
  LineageFaithful
  EndsWithEvidence
PROPERTY RunEnds
CHECK_DEADLOCK FALSE
