SPECIFICATION Spec
CONSTANTS
  Relay = {r1, r2}
  Fixed = fixed
INVARIANTS
  CleanExit
  AppliedIsUp
  FreshLink
