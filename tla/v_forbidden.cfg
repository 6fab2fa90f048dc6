SPECIFICATION FairSpec
CONSTANTS
  pod = pod
  widget = widget
  Kinds <- OneKind
  Eager <- OneKind
  Static = {0}
  Errors = {"forbidden", "refused"}
  MaxSwitch = 0
  MaxInFlight = 1
  MaxAttempt = 1
  Occurs = {"recover"}
PROPERTIES ForbiddenKindNeverKeepsOffline
CHECK_DEADLOCK FALSE
