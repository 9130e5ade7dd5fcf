SPECIFICATION EvaluateSpec
CONSTANTS
  Scale <- MCScale
  Splits = {3, 4}
  Demergers = {4}
  Notice = 1
  Trades <- MCTrades
  Levels <- MCLevels
  OpenedOn = 2
  EndDay = 4
  Behind = 1
  Ahead = 2
INVARIANTS LevelsAreTrue VerdictIsTrue TrailNeverFalls
CHECK_DEADLOCK FALSE
