SPECIFICATION FairSpec
CONSTANTS
  n1 = n1
  n2 = n2
  Groups <- TwoGroups
  KindNames <- SomeKinds
  Builtin <- BuiltinKinds
  Owner <- GatewayOwner
  Substitute <- FluxKey
  Kinds <- TheKinds
  Namespaces <- TwoNamespaces
  Caches <- SomeCaches
  Reads <- SomeReads
  Served <- ServedHere
  LastGeneration = 2
  Curated <- CuratedKinds
  Debounce = 2
  MaxWait = 3
  EventBuffer = 1
  Sessions <- SomeSessions
INVARIANTS TypeOK WaitIsBounded ColumnsOnTheirWay OneFetchPerKind
  ColumnsOfThisContext RegistryOfThisContext KeysAreUnambiguous
PROPERTIES ChangesAreShown
CHECK_DEADLOCK FALSE
