SPECIFICATION LiveSpec
CONSTANTS
  RawModes = {TRUE, FALSE}
  EventBuf = 1
  MaxReports = 1
CHECK_DEADLOCK FALSE
INVARIANTS
  TypeOK
  ReaderHasSource
  ClosedMeansOver
PROPERTIES
  DeadReported
  DaemonLeavesDeadUDPCore
  ConfigApplied
