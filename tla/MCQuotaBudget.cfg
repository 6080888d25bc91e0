CONSTANTS
  MinuteMs = 2
  DayMs = 3
  HeadroomPct = 80
  Never = Never
  Limits <- MCLimits
  Tokens = {1, 3}
  MaxNow = 5
  MaxId = 4
SPECIFICATION Spec
INVARIANTS
  GrantedWithinLimits
  RetryAtExact
PROPERTIES
  PruneForgetsNothing
CHECK_DEADLOCK FALSE
