CONSTANTS
  started = started
  message = message
  Types = {started, message}
  NoType = NoType
  MaxFrames = 3
SPECIFICATION StreamSpec
INVARIANTS
  StreamTypeOK
  EmittedAsSent
  DoneIsComplete
  FailsForCause
SYMMETRY MCSymmetry
