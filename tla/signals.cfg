SPECIFICATION Spec
CONSTANTS
  Kinds <- MCKinds
  History <- MCHistory
  MaxBars = 4
  MaxRevisions = 1
  Runners = {"job", "api"}
  Requests <- MCRequests
  MinHistory = 3
  RetestWindow = 2
  SqueezeWindow = 1
  MacdFrom = 1
  ConfluenceFrom = 1
  MinScore = 3
  MatchWindow = 1
  FillDays = {3}
INVARIANTS LateMatchAgrees
PROPERTIES NoHindsight Regenerates
CHECK_DEADLOCK FALSE
