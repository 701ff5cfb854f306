SPECIFICATION DirectSpec
CONSTANTS
  Key <- SmallKeys
  Hash <- IdentityHash
  NoKey = NoKey
  InitCapacity = 5
  MaxCapacity = 10
  MaxFill = 5
  Name = {n}
  Value = {u}
  Missing = Missing
  Unnamed = Unnamed
  None = None
  NoValue = NoValue
  RemoveOnClose = FALSE
  Absent = Absent
INVARIANTS
  EntriesAtHome
PROPERTIES
  ImplementsKVStore
