CONSTANTS
  MaxRetries = 5
  MaxRetryAfter = 600
  StageCodes = {400, 500, 503}
  InitialBackoff = 1
SPECIFICATION FairHandlerSpec
INVARIANTS BackoffSchedule OutputIsFresh SuccessWasWritten
PROPERTIES HandlerReturns
CHECK_DEADLOCK FALSE
