CONSTANTS
  Informers <- MCInformers
  RetryDelay = 2
  BrokerDelay = 1
  MaxEvents = 3
  MaxFlips = 2
SPECIFICATION FairSpec
INVARIANTS CompletedIsBacked NoLostEvent
PROPERTIES NoRedundantRequest RetrySpacing EventsAreServed StopEndsWorker
CHECK_DEADLOCK FALSE
