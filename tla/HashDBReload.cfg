SPECIFICATION Spec
CONSTANTS
  Key <- OneKey
  Hash <- IdentityHash
  NoKey = NoKey
  InitCapacity = 5
  MaxCapacity = 10
  MaxFill = 5
  Name = {n}
  Value = {u}
  Missing = Missing
  Unnamed = Unnamed
  None = None
  NoValue = NoValue
  RemoveOnClose = FALSE
PROPERTIES
  RehashDeletesOldFile
