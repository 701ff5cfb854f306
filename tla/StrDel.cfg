SPECIFICATION Spec
CONSTANTS
  Letter = {a, b}
  Nul = Nul
  Word = 16
  DefaultCapacity = 2
  Count <- Counts
  MaxLength = 4
  MaxWord = 2
PROPERTY
  InvalidRangeUnchanged
