\* Two requests at once for one connection, through start, shutdown and restart.
SPECIFICATION FairSpec
CONSTANTS
  h1 = h1
  h2 = h2
  Handlers = {h1, h2}
  Environments <- Found
  MaxConns = 1
  MaxRequests = 2
  MaxFaults = 1
CHECK_DEADLOCK FALSE
INVARIANTS
  TypeOK
  ShutdownHarmless
  UnclaimedExplained
  CountersTruthful
  OnlyTheMonolith
PROPERTIES
  ShutdownWindsDown
  ShutdownEnds
  RunsAreServed
