\* Announcements around their ex-dates, loads of the job and the API.
SPECIFICATION Spec
CONSTANTS
  Records = {1, 2, 3, 4}
  Company <- MCCompany
  Kind <- MCKind
  FirstEx <- MCFirstEx
  Amount <- MCAmount
  Factor <- MCFactor
  Close <- MCClose
  Lookback = 1
  Ahead = 1
  LastDay = 4
  MaxMissed = 1
  MaxMoves = 1
  Windows <- MCWindows
INVARIANTS NoneSlipsThrough TotalsGoEx ReturnsAreTotal
CHECK_DEADLOCK FALSE
