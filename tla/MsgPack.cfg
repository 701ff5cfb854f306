SPECIFICATION Spec
CONSTANTS
  Ints <- SomeInts
  Sizes <- SomeSizes
  ExtType = 7
  MaxVals = 3
  Cuts <- SomeCuts
CHECK_DEADLOCK FALSE
INVARIANTS
  SeenInOrder
  WholeIsSeen
  WholeIsVisited
  EndOfBuffer
