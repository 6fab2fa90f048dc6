SPECIFICATION LeavingSpec
CONSTANTS
  pod = pod
  widget = widget
  Kinds <- OneKind
  Eager <- OneKind
  Static = {0, 1}
  Errors = {}
  MaxSwitch = 1
  MaxInFlight = 0
  MaxAttempt = 1
  Occurs = {"retry", "stop"}
PROPERTIES SupersededStartReturns LoopsEnd
CHECK_DEADLOCK FALSE
