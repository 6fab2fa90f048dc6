SPECIFICATION FairSpec
CONSTANTS
  fwd = fwd
  p1 = p1
  p2 = p2
  Sessions <- OneSession
  Pods <- OnePod
  Picked <- FirstOrNone
  MaxRuns = 1
  MaxTunnels = 4
  MaxFaults = 0
  MaxPodEvents = 2
PROPERTIES GonePodClosesTheTunnel
CHECK_DEADLOCK FALSE
