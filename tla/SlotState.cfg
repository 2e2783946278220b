SPECIFICATION Spec
CONSTANTS
  Models = {"attention", "recurrent", "hybrid"}
  Pictures = {"P", "Q"}
  Completions <- MCCompletions
  Documents <- MCDocuments
  UsesOfFile <- MCUsesOfFile
  Sampled = "x"
  NCtx = 6
  NBatch = 2
  MaxRequests = 3
  Faults = {"decode", "media", "write", "crash"}
CHECK_DEADLOCK FALSE
INVARIANTS MemoryIsOwn FilesTellTheTruth
