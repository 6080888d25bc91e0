CONSTANTS
  None = None
  TimeoutMs = 11
  DeadlineMarginMs = 4
  GroqTimeoutMs = 3
  MinFallbackMs = 2
  TravelMs = 1
  LagMs = 1
  MaxFiles = 1
  MaxNow = 12
  SandboxMs = 6
  KillMs = 3
  HealthTimeoutMs = 3
  CacheMs = 5
  MaxRounds = 2
  MaxCrashes = 1
  LastPollAt = 2
SPECIFICATION ServiceSpec
INVARIANTS
  ServiceTypeOK
  SlowGroqLeavesTime
  PartialResultsArrive
  CountedOnTheAnswerer
  NothingOutlivesTheRequest
  HealthTellsTheTruth
CHECK_DEADLOCK FALSE
