SPECIFICATION Spec
CONSTANTS
  Models = {"attention"}
  MayShift = {FALSE}
  Prompts <- OneTurn
  Pictures = {"P"}
  Delimiters = {"d"}
  Sampled = {"x", "h"}
  Fragment = "h"
  NPredict <- MCNPredict
  NCtx = 6
  NBatch = 2
  NKeep = 1
  MaxRemain = 1
  MaxCheckpoints = 2
  MinGap = 2
  PrefillInterval = 2
  Operations = {"completion", "stop"}
  MaxOps <- MCMaxOps
  Saved <- NoneSaved
  Faults = {}
CHECK_DEADLOCK FALSE
INVARIANTS ClaimsOnlyWrittenCells
