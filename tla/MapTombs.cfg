SPECIFICATION Spec
CONSTANTS
  Key <- Keys
  Hash <- Hashes
  ZeroKey = 0
  Item = {w, x, y, z}
  ZeroItem = ZeroItem
  Nothing = Nothing
  InitCapacity = 4
  Word = 32
  MaxCapacity = 8
PROPERTIES
  TombsAreUsed
