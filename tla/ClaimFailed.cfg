SPECIFICATION FairSpec
CONSTANTS
  NoChain = NoChain
  NoTx = NoTx
  NoHash = NoHash
  NULL = NULL
  TimedOut = TimedOut
  AckError = AckError
  Chain <- MCChain
  GnoChain <- MCGno
  Digest <- MCDigest
  Hash <- MCHash
  Chains <- MCRoutes
  Id = {1, 2}
  Time = {0}
  Message <- MCMessage2
  Channel = {0, 1, 2, 3}
  Timeout = {0, 7, 9}
  MaxTime = 0
  Rows0 <- KnownRow
  MayFail = {1}
  InOrder = {}
  BatchSize = 2
  Grace = 0
  TraceDepth = 8
  Budget <- Faultless
  Item <- OneStory
  Place0 <- OnePlace
  Parents <- NoParents2
PROPERTIES
  FailedInsertFails
