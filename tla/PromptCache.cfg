SPECIFICATION Spec
CONSTANTS
  Models = {"attention", "recurrent", "hybrid"}
  MayShift = {TRUE, FALSE}
  Prompts <- MCPrompts
  Pictures = {"P", "Q"}
  Delimiters = {"d"}
  Sampled = {"x", "h"}
  Fragment = "h"
  NPredict <- MCNPredict
  NCtx = 6
  NBatch = 2
  NKeep = 1
  MaxRemain = 1
  MaxCheckpoints = 2
  MinGap = 2
  PrefillInterval = 2
  Operations = {"completion", "stop", "embedding", "rerank", "bench", "clearCache", "saveSession", "loadSession"}
  MaxOps <- MCMaxOps
  Saved <- MCSaved
  Faults = {"decode", "media", "crash", "restore", "capture"}
CHECK_DEADLOCK FALSE
INVARIANTS TypeOK EmbdDescribesMemory SampledFromOwnPrompt SnapshotsAreExact SidecarDescribesFile
PROPERTIES StablePrefixKept
