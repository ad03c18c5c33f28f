CONSTANTS
  ann = ann
  ben = ben
  Actors = {ann, ben}
  MaxPauses = 2
  MaxFaults = 2
SPECIFICATION FairSpec
INVARIANTS
  TypeOK
  DecisionsMeetTheirPause
  ToldTheTruth
PROPERTIES
  RunGoesOn
