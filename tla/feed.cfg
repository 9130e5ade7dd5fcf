\* The daily job, a run of the API and the cutover script over two days.
SPECIFICATION FeedSpec
CONSTANTS
  Symbols = {1, 2}
  Listed = {1}
  Workers = {"job", "api", "cutover"}
  Invocations <- MCInvocations
  EndDay = 2
  AtOnce = 2
  MaxEvents = 1
PROPERTIES
  EndsTell
  LeavesCurrentIndicators
  Resumes
CHECK_DEADLOCK FALSE
