CONSTANTS
  Callers = {a, b}
  Lives <- MCLives
  Lags = {1}
  DefaultTTL = 2
  RefreshWindow = 2
  JitterDiv = 2
  Backoff = 2
  MaxTime = 2
  MaxMints = 2
SPECIFICATION FairSpec
INVARIANTS NoResurrection RetryUsesAnotherKey
PROPERTIES ServedKeyIsLive OnlyRejectedKeysDropped NoNeedlessExchange CallsEnd
