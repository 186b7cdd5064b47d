SPECIFICATION PatientSpec
CONSTANTS
  RawMode = FALSE
  HandshakeCap = 2
  MaxBuffered = 1
CHECK_DEADLOCK FALSE
INVARIANTS
  TypeOK
  TokenBalanced
  NobodyLeftBehind
  FailureReported
PROPERTIES
  ImplementsSession
  EndsAfterCancel
