CONSTANTS
  UseAll = UseAll
  Requests <- MCRequests
  OUTPUT_VALUE_MAX = 20000
SPECIFICATION Spec
INVARIANTS
  FeeFits
  MaxSpends
  LeastWaste
CHECK_DEADLOCK FALSE
