SPECIFICATION StoreSpec
CONSTANTS
  NoChain = NoChain
  NoTx = NoTx
  NoHash = NoHash
  NULL = NULL
  Chain = {gno}
  GnoChain = {gno}
  Digest = {tx}
  Hash = {h1}
  Chains <- NoRoutes
  Channel = {0}
  Timeout = {0}
  Id = {1, 2}
  Time = {0, 1}
  Message = {relayError}
  Rows0 <- NoRows
INVARIANTS
  StoreTypeOK
  ColumnsAgree
PROPERTIES
  TerminalIsFinal
  TxInWriteOnce
  OutcomeSurvives
