SPECIFICATION FairSpec
CONSTANTS
  plain = plain
  plain2 = plain2
  loader = loader
  mtp = mtp
  mtp2 = mtp2
  media = media
  embedding = embedding
  rerank = rerank
  atonce = atonce
  NoRequest = NoRequest
  Request = {mtp2, loader}
  NSlots = 1
  NBatch = 2
  MinBatch = 1
  NCtx = 3
  MaxDraft = 1
  Cancellable = {mtp2, loader}
  MayStop = FALSE
  Task <- MCTask
  PromptLen <- MCPromptLen
  NPredict <- MCNPredict
  NDocs <- MCNDocs
  Mtp <- MCMtp
  Media <- MCMedia
  LoadsState <- MCLoadsState
  SavesPrompt <- MCSavesPrompt
  AtOnce <- MCAtOnce
INVARIANT NoLostWakeup
INVARIANT WithinContext
PROPERTY CompletionAnswered
PROPERTY CancelFreesSlot
