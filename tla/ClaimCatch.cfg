SPECIFICATION FairSpec
CONSTANTS
  NoChain = NoChain
  NoTx = NoTx
  NoHash = NoHash
  NULL = NULL
  TimedOut = TimedOut
  AckError = AckError
  Chain <- MCChain
  GnoChain <- MCGno
  Digest <- MCDigest
  Hash <- MCHash
  Chains <- MCRoutes
  Id = {1, 2}
  Time = {0}
  Message <- MCMessage2
  Channel = {0, 1, 2, 3}
  Timeout = {0, 7, 9}
  MaxTime = 0
  Rows0 <- NoRows
  MayFail = {}
  InOrder = {}
  BatchSize = 2
  Grace = 0
  TraceDepth = 8
  Budget <- OneLoss
  Item <- PairStory
  Parents <- NoParents2
  Place0 <- Unborn2
PROPERTIES
  SyncDoneCatchesIt
