SPECIFICATION FairSpec
CONSTANTS
  pod = pod
  widget = widget
  Kinds <- OneKind
  Eager <- OneKind
  Static = {0}
  Errors = {"forbidden"}
  MaxSwitch = 0
  MaxInFlight = 1
  MaxAttempt = 1
  Occurs = {"recover", "early_read"}
PROPERTIES SpinnersEnd
CHECK_DEADLOCK FALSE
