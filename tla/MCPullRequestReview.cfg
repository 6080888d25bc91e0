CONSTANTS
  j1 = j1
  j2 = j2
  h1 = h1
  h2 = h2
  delivery = delivery
  JobIds = {j1, j2}
  Keys = {delivery}
  None = None
  RetentionMs = 1
  MaxNow = 1
  Handlers = {h1, h2}
  Delivery <- MCDelivery
  MaxPolls = 1
  PostInline = TRUE
  GithubFails = TRUE
  GatewayRestarts = TRUE
  OrchestratorRestarts = TRUE
SPECIFICATION PRSpec
SYMMETRY Symmetry
INVARIANTS
  PRTypeOK
  OnePublisherPerJob
  GreenMeansCompleted
  CommentsOnce
CHECK_DEADLOCK FALSE
