SPECIFICATION TidySpec
CONSTANTS
  Key <- TwoKeys
  Hash <- IdentityHash
  NoKey = NoKey
  InitCapacity = 5
  MaxCapacity = 10
  MaxFill = 2
  Value <- ValueLengths
  Len <- LengthOf
  Missing = Missing
  Garbage = Garbage
  Zero = Zero
  InitValueCapacity = 8
  MaxValueSize = 10
INVARIANTS
  LiveRegionsDisjoint
  RegionsHandedOut
  ValuesFit
PROPERTIES
  CallsActOnTheirKey
VIEW ReadableState
