SPECIFICATION FairSocketSpec
CONSTANTS
  Rounds = 3
  BulkSize = 2
INVARIANTS
  InterruptedIsFlushed
  PermissionAnswered
PROPERTIES
  SocketEnds
CHECK_DEADLOCK FALSE
