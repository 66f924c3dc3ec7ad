\* Two calls at a time over two symbols that share a Form 4; one document that
\* never parses.
SPECIFICATION FairSpec
CONSTANTS
  goog = goog
  googl = googl
  form4 = form4
  broken = broken
  report8k = report8k
  second8k = second8k
  Symbols = {goog, googl}
  Filings = {form4, broken, report8k}
  Listed <- SharedListing
  NewsKey <- DistinctKeys
  Ownership = {form4, broken}
  Size <- SmallSize
  Unreadable = {broken}
  Workers = {w1, w2}
  MaxTries = 3
  MaxFaults = 3
  NoFiling = NoFiling
  NoSymbol = NoSymbol
INVARIANTS
  MarkedComplete
  CountedIsStored
  AccountedFor
PROPERTY FilingIngested
CHECK_DEADLOCK FALSE
