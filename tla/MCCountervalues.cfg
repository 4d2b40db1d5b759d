CONSTANTS
  p1 = p1
  Pairs <- MCPairs
  HOURS = 2
  LIMIT = 2
  Starts <- MCStarts
  FIRST = 3
  Bounds <- MCBounds
SPECIFICATION Spec
INVARIANTS
  OneLoad
  SettingsServed
  NoDayMissing
  RateShown
CHECK_DEADLOCK FALSE
