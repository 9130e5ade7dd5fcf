\* Overlapping ticks, one of which may die; midnight and an admin at any time.
CONSTANTS
  Ticks = {t1, t2}
  LastDay = 2
  LastSlot = 1
  TradingDays = {0, 1}
  PromptDays = {1}
  TickSlots = {0, 1}
  JobTimes = {0, 1}
  JobSteps = 1
  MaxChanges = 1
  MaxDeaths = 1
SPECIFICATION FairSpec
INVARIANT OneJobAtATime
PROPERTIES JobsAreDuties NothingStaysDue NoDayIsSkipped
CHECK_DEADLOCK FALSE
