\* The same ledger with manual reattribution of sells.
CONSTANTS
  Actions = {}
  ExDate <- NoActions
  NewShares <- NoActions
  OldShares <- NoActions
  Buys = {1, 2}
  Sells = {3, 4}
  TradeDay <- ManualDays
  Reported <- ManualReported
  LastDay = 0
  MaxFailures = 1
SPECIFICATION ManualSpec
INVARIANT Conservation
CHECK_DEADLOCK FALSE
