SPECIFICATION Spec
CONSTANTS
  c1 = c1
  c2 = c2
  r1 = r1
  Completion = {c1}
  Release = {r1}
  NWorkers = 2
  MaxTokens = 2
  Awaits = TRUE
  CallsAfterRelease = FALSE
CHECK_DEADLOCK FALSE
INVARIANT NothingUsesDeletedContext
