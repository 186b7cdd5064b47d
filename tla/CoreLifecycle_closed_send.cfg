SPECIFICATION Spec
CONSTANTS
  RawModes = {FALSE}
  EventBuf = 4
  MaxReports = 1
CHECK_DEADLOCK FALSE
INVARIANT
  NoSendAfterClose
