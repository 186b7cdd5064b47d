SPECIFICATION LiveSpec
CONSTANT
  MaxEvents = 2
INVARIANTS
  SendNeverBlocks
PROPERTY
  AnswerEndsRequest
