SPECIFICATION Spec
CONSTANTS
  Gates = {"vector", "lazy", "treemap", "lookup", "storage", "queue", "iterable", "counter", "yield", "ledger", "registration", "arithmetic", "memory", "tokens", "economics", "boolean"}
  Anything = Anything
  Polls = 3
  PerByte = 100
  Limb = 256
  Signers <- MCSigners
  Two64 = 40
  Max128 = 99
  Absent = Absent
  Malformed = Malformed
  Invalid = Invalid
  Pending = Pending
  FreeCall = FreeCall
  VectorCapacity = 4
  TreeCapacity = 3
  RingCapacity = 3
  Half = 4
  PageCells = 8
  MaxPages = 2
  ArenaBase = 1
  MaxCapacity = 4
  ProgramLength = 4
  Visitors = {"vector", "treemap"}
INVARIANTS TypeOK OnlyTransportFails PassedRanEachOnce TreeIsSorted VectorKeysAreDense LimbsAreNumbers BuffersAreOwn
PROPERTIES ScriptEnds RegistryKeepsItsCosts
CHECK_DEADLOCK FALSE
