SPECIFICATION FairSpec
CONSTANTS
  c1 = c1
  c2 = c2
  r1 = r1
  Completion = {c1, c2}
  Release = {r1}
  NWorkers = 2
  MaxTokens = 2
  Awaits = TRUE
  CallsAfterRelease = TRUE
CHECK_DEADLOCK FALSE
INVARIANTS TypeOK TaskCountExact DeletionWaitsForTasks DeletedOnce ResultIsOwn InterruptStopsGeneration
PROPERTIES EveryCallSettles ShutdownEnds
