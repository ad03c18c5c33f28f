CONSTANTS
  w1 = w1
  w2 = w2
  Workers = {w1, w2}
  Advertised <- MCAdvertised
  MinInterval = 1
  MaxInterval = 4
  DefaultInterval = 2
  BackoffStep = 2
  Lifetime = 7
  Horizon = 8
  MaxIssued = 3
  MaxCrashes = 1
SPECIFICATION FairSpec
INVARIANTS
  TypeOK
  TokenIsKept
PROPERTIES
  PollSpacing
  LoginEnds
