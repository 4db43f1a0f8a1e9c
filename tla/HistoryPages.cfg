SPECIFICATION ApiSpec
CONSTANTS
  NoChain = NoChain
  NoTx = NoTx
  NoHash = NoHash
  NULL = NULL
  Chain = {gno}
  GnoChain = {gno}
  Digest = {}
  Hash = {}
  Chains <- NoRoutes
  Channel = {0}
  Timeout = {0}
  Id = {1, 2, 3}
  Time = {0, 1, 2}
  Message = {relayError}
  Rows0 <- NoRows
  Address = {wallet}
  Everyone = Everyone
  PartiesOf <- TwoOfThree
  Asked = {0, 1}
  MaxLimit = 1
  DefaultLimit = 2
INVARIANTS
  ReaderTypeOK
  HistoryComplete
  RecentIsFirstPage
