CONSTANTS
  l1 = l1
  l2 = l2
  l3 = l3
  Logins = {l1, l2}
  MaxFaults = 1
SPECIFICATION FairSpec
INVARIANTS
  TypeOK
  NoLateRefusal
PROPERTIES
  CodesMeetTheirVerifier
  LoginsConclude
