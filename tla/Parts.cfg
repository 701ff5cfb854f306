SPECIFICATION PartsSpec
CONSTANTS
  VectItem = {x, y, z}
  Key <- DictKeys
  Hash <- IdentityHash
  Item = {x, y, z, w}
  InitCapacity = 3
  MaxCapacity = 7
  VectDefault = 2
  VectMax = 3
  Letter = {a, b}
  Word = 16
  StrDefault = 2
  Count <- SmallCounts
  StrMax = 4
  MaxWord = 2
  Path <- USBDevices
  Subsystem <- SubsystemOf
  DevType <- DevTypeOf
  DeviceType <- DeviceTypes
  MaxEvents = 3
  Adapter <- Adapters
  First = h0
  Device <- BlueDevices
  Shouting <- ShoutingDevices
  Switches <- OneSwitch
  MaxChanges = 1
  Zero = Zero
  Nul = Nul
  Nothing = Nothing
  None = None
  Quiet = Quiet
  NoAddress = NoAddress
  stick = stick
  stickif = stickif
  port = port
  h0 = h0
  h1 = h1
  headset = headset
  KEYBOARD = KEYBOARD
INVARIANTS
  MemoryEndsInNul
  SearchesAgreeButAtEnd
  LengthExact
PROPERTIES
  ImplementsOwningSeq
  EditsActOnText
  DelstrRemovesAll
  ImplementsOwningMap
  CatchesUp
  ToggleAsShown
CHECK_DEADLOCK FALSE
