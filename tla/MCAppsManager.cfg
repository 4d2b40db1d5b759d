CONSTANTS
  bitcoin = bitcoin
  dogecoin = dogecoin
  litecoin = litecoin
  unknown = unknown
  unnamed = unnamed
  NoOp = NoOp
  Apps <- MCApps
  AppByName <- MCAppByName
  Deps <- MCDeps
  Unnamed = unnamed
  Initials <- MCInitials
  Restores <- MCRestores
  Settings <- MCSettings
  MaxActions = 2
SPECIFICATION Spec
INVARIANTS
  QueuesInOrder
  NeverRefused
  GoalReached
  HookStops
  UpdateAllEnds
PROPERTIES
  PlansEnd
