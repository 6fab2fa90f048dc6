SPECIFICATION Spec
CONSTANTS
  pod = pod
  widget = widget
  Kinds <- TwoKinds
  Eager <- OneKind
  Static = {}
  Errors = {"auth"}
  MaxSwitch = 0
  MaxInFlight = 1
  MaxAttempt = 1
  Occurs = {"retry", "stop"}
INVARIANTS TypeOK BlockedIsShown ProbingGoesOn LatchIsSound
PROPERTIES OneProbePerPress GreenOnlyWhenReady NothingLandsAfterStop
CHECK_DEADLOCK FALSE
