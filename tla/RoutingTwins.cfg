CONSTANTS
  s1 = s1
  s2 = s2
  s3 = s3
  Services = {s1, s2}
  Config <- MCTwinConfig
  Apps <- MCTwins
  Runs <- MCRuns
  MaxEvents = 1
  MaxFaults = 0
SPECIFICATION Spec
INVARIANTS
  FamilyIsIsolated
