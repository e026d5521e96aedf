SPECIFICATION FairSpec
CONSTANTS
  orange = orange
  la = la
  Domains <- MCDomains
  MaxRetries = 2
  Backoff <- MCBackoff
  Base = 1
  MaxBackoff = 5
  Overflow = 4
  Slow = 1
  MaxRequests = 2
  Window = 3
  Slack = 1
  Horizon = 5
  MaxCalls = 3
  None = None
INVARIANTS
  IInv
  WindowIsKept
PROPERTIES
  EveryQueryReturns
CHECK_DEADLOCK FALSE
