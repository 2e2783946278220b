SPECIFICATION FairSpec
CONSTANTS
  chat = chat
  answer = answer
  vector = vector
  NoRequest = NoRequest
  Request <- MCRequest
  Embedding <- MCEmbedding
  Capacity = 1
  MaxTokens = 1
  App <- MCApp
INVARIANTS
  TypeOK
  OwnResultOnce
  CallbacksMatchRequests
  NoTokenAfterResult
  ReleaseWaitsForCallbacks
  FeedIsCurrent
PROPERTIES
  CompletionsSettle
CHECK_DEADLOCK FALSE
