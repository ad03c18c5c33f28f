CONSTANTS
  r1 = r1
  r2 = r2
  r3 = r3
  Runs = {r1, r2, r3}
  Protocols = {"chatgpt", "mcp"}
  MaxExpiries = 2
  MaxFailures = 1
SPECIFICATION FairSpec
INVARIANTS
  TypeOK
  RefreshTokenSurvives
  OneRefreshPerExpiry
  AnswerIsNew
PROPERTIES
  RunsRecover
