SPECIFICATION Spec
CONSTANTS
  plain = plain
  plain2 = plain2
  loader = loader
  mtp = mtp
  mtp2 = mtp2
  media = media
  embedding = embedding
  rerank = rerank
  atonce = atonce
  NoRequest = NoRequest
  Request = {mtp, embedding, rerank, atonce}
  NSlots = 2
  NBatch = 2
  MinBatch = 1
  NCtx = 5
  MaxDraft = 2
  Cancellable = {rerank}
  MayStop = TRUE
  Task <- MCTask
  PromptLen <- MCPromptLen
  NPredict <- MCNPredict
  NDocs <- MCNDocs
  Mtp <- MCMtp
  Media <- MCMedia
  LoadsState <- MCLoadsState
  SavesPrompt <- MCSavesPrompt
  AtOnce <- MCAtOnce
INVARIANT WithinPredictLimit
INVARIANT SampledLogitsAreOwn
CHECK_DEADLOCK FALSE
