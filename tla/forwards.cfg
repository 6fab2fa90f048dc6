SPECIFICATION FairSpec
CONSTANTS
  fwd = fwd
  p1 = p1
  p2 = p2
  Sessions <- OneSession
  Pods <- TwoPods
  Picked <- FirstOrNone
  MaxRuns = 2
  MaxTunnels = 4
  MaxFaults = 1
  MaxPodEvents = 1
INVARIANTS TypeOK NoLeakedTunnel ChecksCloseTheirPod
PROPERTIES CancelledRunsEnd Reconnects
CHECK_DEADLOCK FALSE
