SPECIFICATION LiveSpec
CONSTANTS
  RawModes = {TRUE}
  EventBuf = 6
  MaxReports = 1
CHECK_DEADLOCK FALSE
PROPERTY
  DaemonLeavesDeadCore
