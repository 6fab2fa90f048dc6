SPECIFICATION FairSpec
CONSTANTS
  Buffer = 2
  MaxStreams = 2
  MaxChecks = 2
  Sessions <- SomeSessions
INVARIANTS TypeOK EntriesAreTrue ChannelHasItsReader
PROPERTIES LoadingEnds
CHECK_DEADLOCK FALSE
