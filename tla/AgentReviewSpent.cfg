CONSTANTS
  None = None
  TimeoutMs = 11
  DeadlineMarginMs = 4
  GroqTimeoutMs = 3
  MinFallbackMs = 2
  TravelMs = 1
  LagMs = 1
  MaxFiles = 2
  MaxNow = 13
SPECIFICATION Spec
INVARIANTS
  SpentStaysCounted
CHECK_DEADLOCK FALSE
