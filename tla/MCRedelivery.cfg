CONSTANTS
  j1 = j1
  j2 = j2
  h1 = h1
  h2 = h2
  delivery = delivery
  JobIds = {j1}
  Keys = {delivery}
  None = None
  RetentionMs = 1
  MaxNow = 1
  Handlers = {h1, h2}
  Delivery <- MCDelivery
  MaxPolls = 1
  PostInline = TRUE
  GithubFails = FALSE
  GatewayRestarts = FALSE
  OrchestratorRestarts = FALSE
SPECIFICATION PRSpec
INVARIANTS
  RedeliveryIsOwned
CHECK_DEADLOCK FALSE
