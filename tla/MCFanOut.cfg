CONSTANTS
  r1 = r1
  r2 = r2
  security = security
  Reviews = {r1, r2}
  LlmAgents = {security}
  OnceAgents = {}
  Missing = {}
  Providers = {"groq", "gemini"}
  Limits <- MCLimits
  MinuteMs = 2
  DayMs = 4
  HeadroomPct = 80
  Never = Never
  None = None
  MaxFileTokens = 3
  MaxBatchTokens = 3
  ReviewMaxTokens = 6
  OverheadTokens = 1
  LlmTimeoutMs = 4
  AgentTimeoutMs = 2
  MinCallMs = 1
  FileChoices <- TwoBatches
  Usages = {0, 3}
  LagMs = 0
  StartBy = 1
  MaxNow = 4
  MaxId = 9
SPECIFICATION Spec
SYMMETRY Symmetry
INVARIANTS
  TypeOK
  UnansweredCallsCount
PROPERTIES
  BudgetsUsedAsPromised
  NothingSentAfterAbort
  GivesUpOnlyWhenHopeless
CHECK_DEADLOCK FALSE
