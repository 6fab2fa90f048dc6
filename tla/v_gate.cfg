SPECIFICATION Spec
CONSTANTS
  pod = pod
  widget = widget
  Kinds <- OneKind
  Eager <- OneKind
  Static = {}
  Errors = {"auth"}
  MaxSwitch = 0
  MaxInFlight = 1
  MaxAttempt = 1
  Occurs = {"retry"}
INVARIANTS UnauthenticatedMeansGated
CHECK_DEADLOCK FALSE
