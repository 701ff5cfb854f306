SPECIFICATION Spec
CONSTANTS
  Key <- Keys
  Hash <- IdentityHash
  Values <- ValuesOfKeys
  Twins = {u, v}
  NoKey = NoKey
  InitCapacity = 5
  Missing = Missing
  Named = Named
  Unnamed = Unnamed
  None = None
  NoValue = NoValue
  Word = 64
  MaxCapacity = 10
  MaxCalls = 5
  MaxKills = 2
INVARIANTS
  ReadsAreOwn
  KillsCostOne
PROPERTIES
  SetIsAtomic
  NewTableIsComplete
SYMMETRY TwinPermutations
VIEW ReadableState
