SPECIFICATION Spec
CONSTANTS
  String <- Strings
  Hash <- CollidingHash
  Word = 16
  MaxId = 5
  MaxSize = 6
INVARIANTS
  TypeOK
  ItemsAreHashed
  CountersAgree
PROPERTIES
  ImplementsInterner
