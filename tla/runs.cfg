\* Two runs of the API and one of the daily job.
CONSTANTS
  Requests = {q1}
  ApiModes = {"ingest"}
  JobSteps <- Daily
  Symbols = 1
  StaleAfter = 0
  DbErrors = TRUE
  MaxApiRuns = 2
  MaxJobRuns = 1
  MaxDeaths = 1
SPECIFICATION FairSpec
INVARIANTS CountsAreTrue
PROPERTIES OkMeansAll EveryRunEnds
CHECK_DEADLOCK FALSE
