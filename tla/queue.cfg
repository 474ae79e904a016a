CONSTANTS
  Capacity = 3
  Values = {"a", "b", "c", "d"}
  Broken = Broken
SPECIFICATION Spec
INVARIANTS TypeOK KeysAreTheActiveSlots
PROPERTIES ImplementsFifo MalformedFailsClosed
