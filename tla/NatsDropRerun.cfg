CONSTANTS
  e1 = e1
  e2 = e2
  w1 = w1
  w2 = w2
  Events = {e1}
  Malformed = {}
  Workers = {w1, w2}
  Config <- MCConfig
  LimitBound = 3
  FetchBatch = 1
  Backoff <- MCBackoff
  MaxFaults = 0
SPECIFICATION Spec
PROPERTIES
  DropIsFinal
