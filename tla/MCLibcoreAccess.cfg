CONSTANTS
  j1 = j1
  j2 = j2
  j3 = j3
  i1 = i1
  i2 = i2
  i3 = i3
  f1 = f1
  f2 = f2
  f3 = f3
  NoFlush = NoFlush
  Callers <- MCCallers
  Items <- MCItems
  Flushes <- MCFlushes
SPECIFICATION LibcoreSpec
INVARIANTS
  JobsAwaitFlush
  ItemsServed
SYMMETRY Symmetry
