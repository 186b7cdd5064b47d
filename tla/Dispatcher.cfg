SPECIFICATION Spec
CONSTANTS
  NoSlot = NoSlot
  Slot = {s1, s2, s3, s4}
  SendBuf = 1
  PrioBuf = 1
  Sizes = {64, 200}
  Tick = 8
SYMMETRY MCSymmetry
CONSTRAINT MCBound
INVARIANTS
  TypeOK
  OvertakenAtMostOnce
  ChunkBounded
PROPERTIES
  DwellBounded
  RingInOrder
