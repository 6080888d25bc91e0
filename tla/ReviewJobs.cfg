CONSTANTS
  JobIds = {j1, j2, j3}
  Keys = {k1}
  None = None
  RetentionMs = 1
  MaxNow = 1
SPECIFICATION FairSpec
INVARIANTS
  TypeOK
  NoOrphanedJob
  OnlyLiveJobsRun
  OneLiveRunPerKey
PROPERTIES
  TerminalIsFinal
  RunsEnd
  ImplementsLifecycle
CHECK_DEADLOCK FALSE
