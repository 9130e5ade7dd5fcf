\* Fills in any order before, between and after two bonuses.
CONSTANTS
  Actions = {"b1", "b2"}
  ExDate <- BookExDate
  NewShares <- BookNew
  OldShares <- BookOld
  Buys = {1, 2}
  Sells = {3, 4}
  TradeDay <- BookDays
  Reported <- BookReported
  LastDay = 2
  MaxFailures = 1
SPECIFICATION BookSpec
INVARIANTS LotsAreSound UnflaggedIsExact PnlMatchesRows
PROPERTIES FifoOrder AppliedOnce
CHECK_DEADLOCK FALSE
