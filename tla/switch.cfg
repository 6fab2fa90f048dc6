SPECIFICATION Spec
CONSTANTS
  pod = pod
  widget = widget
  Kinds <- OneKind
  Eager <- OneKind
  Static = {1}
  Errors = {"auth"}
  MaxSwitch = 1
  MaxInFlight = 1
  MaxAttempt = 1
  Occurs = {}
INVARIANTS OnlyTheCurrentCluster SyncedMeansSettled
PROPERTIES OneLoopPerClient
CHECK_DEADLOCK FALSE
