\* A week of jobs and re-checks, with late bhavcopies, folded splits and ingest runs of the API.
CONSTANTS
  Sessions <- Week
  FirstDay = 0
  LastDay = 1
  Overlap = 1
  Lookback = 2
  Histories <- Served
  ExDates = {0, 1}
  MaxWrites = 1
  MaxCorrections = 1
  MaxFailures = 1
SPECIFICATION FairSpec
INVARIANTS OnlyClosedAreChecked RowDescribesBars RewritesAreChecked NothingStaysOwed
PROPERTIES PendingResolves
CHECK_DEADLOCK FALSE
