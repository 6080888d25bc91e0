CONSTANTS
  MaxFileTokens = 6
  MaxBatchTokens = 5
  ReviewMaxTokens = 9
  Sizes = {1, 2, 3, 4, 6, 7}
  MaxRequest = 4
  MaxReviewComments = 2
  AnnotationsPerRequest = 2
  FindingKeys = {"a", "b", "c"}
  Confidences = {1, 2}
  Thresholds = {0, 1}
  PlatformThreshold = 2
  AgentKinds = {"security", "style", "logic"}
  None = None
  MaxFindings = 3
  MaxFiles = 2
  MaxDiffLines = 3
  Context = 1
  MaxEdits = 6
  Tokens = {"{", "}"}
  MaxTokens = 3
  DuplicateLines = 1
  MaxSpan = 2
  Issues = {"CWE-78", "CWE-89"}
  MaxLine = 4
  AddedLines = {{1, 2, 3}}
  MaxMatches = 2
  MaxItems = 2
SPECIFICATION Spec
INVARIANTS
  EveryFileOnce
  CoversMost
  DedupeKeepsTheBest
  ShownIffSomeAgentIsSure
  WorstArePosted
  UnreviewedIsExplained
  AddedLinesAreTheChange
  BlocksAreTheDifference
  FixesKeepToThePullRequest
  FixesCoverTheirIssue
CHECK_DEADLOCK FALSE
