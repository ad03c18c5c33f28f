CONSTANTS
  p1 = p1
  r1 = r1
  r2 = r2
  own = own
  other = other
  Processes = {p1}
  Requests = {r1, r2}
  Routes <- MCRoutes
  Events = {own, other}
  Foreign = {other}
  MaxFaults = 2
SPECIFICATION FairSpec
INVARIANTS
  TypeOK
  DeliveredIsHandled
  AnswersAreTrue
PROPERTIES
  CallbacksConclude
