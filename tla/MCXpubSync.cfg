CONSTANTS
  receive = receive
  send = send
  far = far
  c1 = c1
  c2 = c2
  c3 = c3
  Calls = {c1, c2, c3}
  Txs = {receive, send, far}
  To <- MCTo
  Spends <- MCSpends
  GAP = 2
  MaxIndex = 5
  PageSize = 2
  MaxHeight = 3
  Settings <- MCSettings
SPECIFICATION XpubSpec
INVARIANTS
  UtxosRight
  Agrees
  NobodyForgotten
PROPERTIES
  FreshUnused
CHECK_DEADLOCK FALSE
