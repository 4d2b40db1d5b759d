CONSTANTS
  s1 = s1
  s2 = s2
  s3 = s3
  r1 = r1
  d1 = d1
  d2 = d2
  NoSession = NoSession
  Sessions <- MCSessions
  Devices <- MCDevices
  Device <- MCDevice
  RetryOf <- MCRetryOf
  Ids <- MCDevices
  TransportId <- MCDistinctIds
  MayThrow <- MCThrowing
  PriorityMayFail <- MCRejected
SPECIFICATION FairSpec
INVARIANTS
  OneJobPerDevice
  OneTransportPerDevice
PROPERTIES
  FlushedBeforeJob
  LockSpec
  EveryoneServed
CHECK_DEADLOCK FALSE
