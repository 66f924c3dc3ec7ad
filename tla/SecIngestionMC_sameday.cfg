\* Two reports of one form, filed by a company on one day.
SPECIFICATION FairSpec
CONSTANTS
  goog = goog
  googl = googl
  form4 = form4
  broken = broken
  report8k = report8k
  second8k = second8k
  Symbols = {goog}
  Filings = {report8k, second8k}
  Listed <- SameDayListing
  NewsKey <- SameDayKeys
  Ownership = {}
  Size <- SmallSize
  Unreadable = {}
  Workers = {w1}
  MaxTries = 3
  MaxFaults = 0
  NoFiling = NoFiling
  NoSymbol = NoSymbol
INVARIANT EveryFilingHasItsEvent
CHECK_DEADLOCK FALSE
