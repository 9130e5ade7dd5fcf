\* Pulls by the job and by a request, and an import, over two days.
CONSTANTS
  Jobs = {job}
  Requests = {request}
  Imports = {import}
  Fills = {1, 2}
  Others = {other}
  OrderDay <- FirstDay
  PlacedBefore <- EarlyFirst
  FilledBefore = {1}
  PageSize = 2
  MaxPages = 2
  LastDay = 1
  Exports = {{1, 2}}
  Causes = {"error"}
  MaxFailures = 1
SPECIFICATION Spec
INVARIANTS FailureShows
PROPERTIES ImportIsWhole PullIsComplete StatusRecovers
