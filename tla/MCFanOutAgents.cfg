CONSTANTS
  r1 = r1
  security = security
  logic = logic
  style = style
  documentation = documentation
  Reviews = {r1}
  LlmAgents = {security, logic}
  OnceAgents = {style}
  Missing = {documentation}
  Providers = {"groq", "gemini"}
  Limits <- MCLimits
  MinuteMs = 2
  DayMs = 4
  HeadroomPct = 80
  Never = Never
  None = None
  MaxFileTokens = 3
  MaxBatchTokens = 3
  ReviewMaxTokens = 6
  OverheadTokens = 1
  LlmTimeoutMs = 5
  AgentTimeoutMs = 2
  MinCallMs = 2
  FileChoices <- NoneOrTwo
  Usages = {3}
  LagMs = 0
  StartBy = 0
  MaxNow = 6
  MaxId = 9
SPECIFICATION FairSpec
INVARIANTS
  CallsFitTheDeadline
  StatusTellsTheTruth
PROPERTIES
  ReviewsSettle
CHECK_DEADLOCK FALSE
