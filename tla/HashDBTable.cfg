SPECIFICATION Spec
CONSTANTS
  Key <- CollidingKeys
  Hash <- IdentityHash
  NoKey = NoKey
  InitCapacity = 5
  MaxCapacity = 10
  MaxFill = 4
  Name = {n}
  Value = {u, v}
  Missing = Missing
  Unnamed = Unnamed
  None = None
  NoValue = NoValue
  RemoveOnClose = TRUE
INVARIANTS
  TypeOK
  Counters
  EveryProbeEnds
  ReadsWereWritten
PROPERTIES
  SetIsRead
  SetKeepsOthers
  EraseIsRead
SYMMETRY ValuePermutations
