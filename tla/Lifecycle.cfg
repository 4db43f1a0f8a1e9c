SPECIFICATION Spec
CONSTANTS
  NoChain = NoChain
  NoTx = NoTx
  NoHash = NoHash
  NULL = NULL
  TimedOut = TimedOut
  AckError = AckError
  Chain <- MCChain
  GnoChain <- MCGno
  Digest <- MCDigest
  Hash <- MCHash
  Chains <- MCRoutes
  Id = {1, 2, 3}
  Time = {0}
  Message <- MCMessage3
  Channel = {0, 1, 2, 3}
  Timeout = {0, 7, 9}
  MaxTime = 0
  Rows0 <- NoRows
  MayFail = {1}
  InOrder = {}
  BatchSize = 2
  Grace = 0
  TraceDepth = 8
  Budget <- ErrorAndCrash
  Item <- AckStory
  Parents <- NoParents3
  Place0 <- Unborn3
INVARIANTS
  TypeOK
  DoneHasAck
  ProcessingHasLeftQueue
PROPERTIES
  NewRowIsOnlyOne
  FollowsLifecycle
