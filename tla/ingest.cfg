\* Two splits, one on a Thursday and one on the Monday after it.
CONSTANTS
  FirstDay = 4
  LastDay = 7
  Trading = {1, 2, 3, 4, 7}
  ExDates = {4, 7}
  FoldLag = 1
  Overlap = 2
  ApiRequests <- SomeRequests
  MaxFailures = 1
SPECIFICATION IngestSpec
INVARIANTS SeriesAreWhole
PROPERTIES LosesOnlyNewer Heals
CHECK_DEADLOCK FALSE
