SPECIFICATION FairSpec
CONSTANTS
  NoChain = NoChain
  NoTx = NoTx
  NoHash = NoHash
  NULL = NULL
  TimedOut = TimedOut
  AckError = AckError
  Chain <- MCChain
  GnoChain <- MCGno
  Digest <- MCDigest
  Hash <- MCHash
  Chains <- MCRoutes
  Id = {1, 2}
  Time = {0, 1, 2}
  Message <- MCMessage2
  Channel = {0, 1, 2, 3}
  Timeout = {0, 7, 9}
  MaxTime = 2
  Rows0 <- NoRows
  MayFail = {}
  InOrder = {}
  BatchSize = 2
  Grace = 1
  TraceDepth = 8
  Budget <- LossAndCrash
  Item <- PairStory
  Parents <- NoParents2
  Place0 <- PairPlace
PROPERTIES
  DetectedDrains
  AnnouncedAckSettles
