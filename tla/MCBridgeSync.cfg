CONSTANTS
  a1 = a1
  a2 = a2
  AccountIds <- MCTwo
  Priorities <- MCPriorities
  PendingOps <- MCOnePending
  NoBridge <- MCOnePending
  PendingPriority = 20
  Concurrency = 2
  LateEffects = TRUE
  MaxRequests = 2
  MaxTasks = 2
SPECIFICATION FairSyncSpec
INVARIANTS
  PendingIsOneSync
PROPERTIES
  AccountsReached
