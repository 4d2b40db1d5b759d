CONSTANTS
  first = first
  second = second
  third = third
  replacement = replacement
  received = received
  NoTx = NoTx
  Txs <- MCTxs
  Sent <- MCSent
  Here <- MCHere
  TokenTxs <- MCTokenTxs
  Nonce <- MCNonce
  Past <- MCPast
  Threshold = 2
  Slots = {s1, s2}
  Settings <- MCSettings
  MaxHeight = 4
SPECIFICATION Spec
INVARIANTS
  HistoryInOrder
  SentIsVisible
PROPERTIES
  HistoryKept
  ChildFollowsParent
  Converges
