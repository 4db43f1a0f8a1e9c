SPECIFICATION FairSpec
CONSTANTS
  NoChain = NoChain
  NoTx = NoTx
  NoHash = NoHash
  NULL = NULL
  TimedOut = TimedOut
  AckError = AckError
  Chain <- MCChain
  GnoChain <- MCGno
  Digest <- MCDigest
  Hash <- MCHash
  Chains <- MCRoutes
  Id = {1, 2, 3, 4}
  Time = {0}
  Message <- MCMessage4
  Channel = {0, 1, 2, 3}
  Timeout = {0, 7, 9}
  MaxTime = 0
  Rows0 <- TwoOldRows
  MayFail = {4}
  InOrder = {}
  BatchSize = 2
  Grace = 0
  TraceDepth = 3
  Budget <- LossAndCrash
  Item <- DescentStory
  Parents <- DescentParents
  Place0 <- DescentPlace
INVARIANTS
  UniqueHash
PROPERTIES
  FailureReachesOrigin
  OriginSettlesFirst
