CONSTANTS
  d1 = d1
  d2 = d2
  Devices <- MCDevices
  POLLING = 2
  INIT_DEBOUNCE = 5
  DISCONNECT_DEBOUNCE = 5
  DEVICE_POLLING_TIMEOUT = 6
  UI_DEBOUNCE = 2
  UNRESPONSIVE = 1
  Settings <- MCSettings
SPECIFICATION FairSpec
INVARIANTS
  OnePoll
  DependenciesReady
PROPERTIES
  Ends
CHECK_DEADLOCK FALSE
