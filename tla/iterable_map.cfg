CONSTANTS
  Capacity = 3
  Keys <- MCKeys
  Values <- MCValues
  CorruptKey = 7
  CorruptValue = 200
SPECIFICATION Spec
INVARIANTS TypeOK VectorIsDense CorruptionIsContained
PROPERTIES CorruptRecordStays ImplementsMap
