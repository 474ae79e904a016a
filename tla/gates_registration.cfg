SPECIFICATION Spec
CONSTANTS
  Gates = {"registration"}
  Anything = Anything
  Polls = 3
  PerByte = 139
  Limb = 256
  Signers <- MCSigners
  Two64 = 40
  Max128 = 99
  Absent = Absent
  Malformed = Malformed
  Invalid = Invalid
  Pending = Pending
  FreeCall = FreeCall
  VectorCapacity = 4
  TreeCapacity = 3
  RingCapacity = 3
  Half = 4
  PageCells = 8
  MaxPages = 2
  ArenaBase = 1
  MaxCapacity = 4
  ProgramLength = 4
  Visitors = {"vector", "treemap"}
INVARIANT OnlyTransportFails
CHECK_DEADLOCK FALSE
