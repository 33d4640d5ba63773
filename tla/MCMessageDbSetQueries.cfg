SPECIFICATION Spec
CONSTANTS
  Messages <- MCMessages
  Days <- MCDays
  Todays <- MCTodays
  Lags <- MCLags
  NoDay <- MCNoDay
  None = None
  DaysInYear = 4
  Span = 2
  MaxOps = 4
  MaxFailures = 1
INVARIANTS
  NothingMissed
  AnswersAgree
  MarkTold
CHECK_DEADLOCK FALSE
