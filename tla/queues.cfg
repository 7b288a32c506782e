SPECIFICATION MCSpec
CONSTANTS
  BatchSize = 2
  SampleRates = {"some"}
  Headers <- MCHeaders
  Environments <- MCEnvironments
  Kinds = {"memory", "bullmq"}
  Queues = {"work"}
  Messages = {"j1", "e1"}
  QueueOf <- MCQueueOf
  ByRequest = {"j1"}
  Follows = {"e1"}
  After <- MCAfter
  Attempts = 2
  Concurrency = 1
  MaxCrashes = 1
CHECK_DEADLOCK FALSE
INVARIANTS NoSpanStranded OneDelivery TraceFollowsWork
PROPERTIES EveryMessageEnds
