SPECIFICATION FairSpec
CONSTANTS
  plain = plain
  plain2 = plain2
  loader = loader
  mtp = mtp
  mtp2 = mtp2
  media = media
  embedding = embedding
  rerank = rerank
  atonce = atonce
  NoRequest = NoRequest
  Request = {plain}
  NSlots = 1
  NBatch = 2
  MinBatch = 1
  NCtx = 3
  MaxDraft = 1
  Cancellable = {}
  MayStop = TRUE
  Task <- MCTask
  PromptLen <- MCPromptLen
  NPredict <- MCNPredict
  NDocs <- MCNDocs
  Mtp <- MCMtp
  Media <- MCMedia
  LoadsState <- MCLoadsState
  SavesPrompt <- MCSavesPrompt
  AtOnce <- MCAtOnce
PROPERTY StopReturns
CHECK_DEADLOCK FALSE
