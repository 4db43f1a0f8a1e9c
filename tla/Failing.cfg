SPECIFICATION Spec
CONSTANTS
  NoChain = NoChain
  NoTx = NoTx
  NoHash = NoHash
  NULL = NULL
  TimedOut = TimedOut
  AckError = AckError
  Chain <- MCChain
  GnoChain <- MCGno
  Digest <- MCDigest
  Hash <- MCHash
  Chains <- MCRoutes
  Id = {1, 2, 3, 4, 5}
  Time = {0}
  Message <- MCMessage5
  Channel = {0, 1, 2, 3}
  Timeout = {0, 7, 9}
  MaxTime = 0
  Rows0 <- NoRows
  MayFail = {2}
  InOrder = {}
  BatchSize = 2
  Grace = 0
  TraceDepth = 8
  Budget <- OneError
  Item <- FailStory
  Parents <- FailParents
  Place0 <- FailPlace
INVARIANTS
  FailedHasCause
  TxInHasSource
