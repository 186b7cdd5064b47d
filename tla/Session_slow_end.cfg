SPECIFICATION PromptSpec
CONSTANTS
  RawMode = FALSE
  HandshakeCap = 1
  MaxBuffered = 1
CHECK_DEADLOCK FALSE
PROPERTY EndsAfterCancel
