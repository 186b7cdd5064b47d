SPECIFICATION Spec
CONSTANTS
  a1 = a1
  a2 = a2
  b1 = b1
  Nobody = Nobody
  NumGroups = 2
  Worker = {a1, a2, b1}
  GroupOf <- MCGroupOf
CONSTRAINT MCBound
INVARIANTS
  TypeOK
  OneAsker
  ConfigOnce
  RightNotLost
  StartupCascade
  BatonNotLost
PROPERTY ImplementsConfigRight
