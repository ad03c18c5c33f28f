CONSTANTS
  s1 = s1
  s2 = s2
  s3 = s3
  Services = {s1, s2, s3}
  Config <- MCConfig
  Apps <- MCApps
  Runs <- MCRuns
  MaxEvents = 2
  MaxFaults = 1
SPECIFICATION FairSpec
INVARIANTS
  TypeOK
  OwnEventsOnly
  ConnectionsAreLeftRight
PROPERTIES
  NothingIsMissed
