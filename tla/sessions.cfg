\* Two runs of apply_unapplied_trades over the fills of one account.
CONSTANTS
  Sessions = {job, request}
  Buys = {1, 2}
  Sells = {3, 4}
  Qty <- FewShares
  MaxFailures = 1
SPECIFICATION Spec
INVARIANT ExactWithoutOverlap
PROPERTIES ClosedStaysClosed EveryFillApplied
