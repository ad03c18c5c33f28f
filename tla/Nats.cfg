CONSTANTS
  e1 = e1
  e2 = e2
  w1 = w1
  w2 = w2
  Events = {e1, e2}
  Malformed = {e2}
  Workers = {w1, w2}
  Config <- MCConfig
  LimitBound = 3
  FetchBatch = 2
  Backoff <- MCBackoff
  MaxFaults = 1
SPECIFICATION FairSpec
INVARIANTS
  TypeOK
  ExclusiveDelivery
  RetriesNotSkipped
  StrandedForCause
  DelayWithinSchedule
  FinalIsFinal
PROPERTIES
  ImplementsEventFate
  Resolution
