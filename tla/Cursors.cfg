SPECIFICATION Spec
CONSTANTS
  NoChain = NoChain
  NoTx = NoTx
  NoHash = NoHash
  NULL = NULL
  TimedOut = TimedOut
  AckError = AckError
  Chain <- MCChain
  GnoChain <- MCGno
  Digest <- MCDigest
  Hash <- MCHash
  Chains <- MCRoutes
  Id = {1, 2, 3}
  Time = {0}
  Message <- MCMessage3
  Channel = {0, 1, 2, 3}
  Timeout = {0, 7, 9}
  MaxTime = 0
  Rows0 <- KnownRow
  MayFail = {1, 2, 3}
  InOrder = {"queue", "failed"}
  BatchSize = 1
  Grace = 0
  TraceDepth = 8
  Budget <- ErrorAndCrash
  Item <- GivenUpStory
  Place0 <- KnownPlace
  Parents <- GivenUpParents
INVARIANTS
  QueueCursorSound
PROPERTIES
  KnownFailureSettles
