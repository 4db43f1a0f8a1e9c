SPECIFICATION Spec
CONSTANTS
  NoChain = NoChain
  NoTx = NoTx
  NoHash = NoHash
  Chain <- MCChain
  GnoChain <- MCGno
  Digest <- MCDigest
  Hash <- MCHash
  Chains <- Routes2
  Inbox <- SomeItems
  Channel = {0, 1, 2, 3}
  Timeout = {0, 7}
  WordSize = 4
  Base = 32
  IntBytes = 2
  MaxDepth = 3
INVARIANTS
  PassesFilter
  AgreesOnChains
  SameKeys
  DecodesEncoded
  ReadsWhatWasSent
  DecodeAnswers
