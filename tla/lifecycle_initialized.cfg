CONSTANTS
  counter = counter
  hotfix = hotfix
  upgrade = upgrade
  downgrade = downgrade
  widened = widened
  Versions <- MCVersions
  Schema <- MCSchema
  SlotsOf <- MCSlotsOf
  MainSlot <- MCMainSlot
  MigratesFrom <- MCMigratesFrom
  Leftovers <- MCLeftovers
  NoMigration = NoMigration
  NoCode = NoCode
  Absent = Absent
  Foreign = Foreign
  Malformed = Malformed
  U64Max = 3
  Revision = 2
SPECIFICATION Spec
INVARIANT InitializedTells
