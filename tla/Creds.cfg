SPECIFICATION LiveSpec
CONSTANTS
  a1 = a1
  a2 = a2
  b1 = b1
  Nobody = Nobody
  NumGroups = 2
  Worker = {a1, b1}
  GroupOf <- MCGroupOf
  MaxIssued = 2
INVARIANTS
  TypeOK
  RequestsApart
  NoRequestInLockout
PROPERTIES
  RefreshBringsNew
  AllLeave
