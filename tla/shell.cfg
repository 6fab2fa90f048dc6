\* The root shell through switches, rebuilds, outages and navigation.
CONSTANTS
  here = here
  there = there
  Contexts <- TwoContexts
  LaunchContext = here
  Clusters = 2
  ConnBuffer = 1
  Sessions <- SomeSessions
SPECIFICATION FairSpec
INVARIANTS
  TypeOK
  OneRebuild
  LabelIsTruth
  DrainGoesOn
  ConnReplay
  ChainsSurvive
PROPERTIES
  StoppedStaysStopped
  ScreensStay
  ConnCatchesUp
CHECK_DEADLOCK FALSE
