SPECIFICATION FairSpec
CONSTANTS
  Caller = {c1, c2, c3}
  Asked = {0, 2}
  MaxRecent = 2
  DefaultRecent = 1
  TTL = 1
  Lag = 1
  MaxTime = 4
  None = None
  Error = Error
INVARIANTS
  SummaryTypeOK
  NoNeedlessLoad
PROPERTIES
  NeverGoesBack
  ServesPublished
  EveryCallAnswered
