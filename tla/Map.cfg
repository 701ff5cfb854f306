SPECIFICATION TidySpec
CONSTANTS
  Key <- Keys
  Hash <- Hashes
  ZeroKey = 0
  Item = {v, w, x, y, z}
  ZeroItem = ZeroItem
  Nothing = Nothing
  InitCapacity = 4
  Word = 32
  MaxCapacity = 8
INVARIANTS
  CountersExact
  EveryProbeEnds
  EntriesAreFound
PROPERTIES
  ImplementsOwningMap
  ClearEndsAtZero
SYMMETRY ItemPermutations
VIEW LiveState
