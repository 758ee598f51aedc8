CONSTANTS
  MaxRetries = 5
  MaxRetryAfter = 6
  Codes = {200, 401, 429, 503}
  Headers <- MCHeaders
  ReadFailure = 500
SPECIFICATION FairClientSpec
INVARIANTS TotalWaitBounded CancelIsPrompt
PROPERTIES ReturnsIfAnswered
CHECK_DEADLOCK FALSE
