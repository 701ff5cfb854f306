--------------------------------- MODULE Parts ---------------------------------
(***************************************************************************)
(* The components whose questions are small: the vector, the string buffer *)
(* and the old dictionary of C, and the two scripts for devices.  They     *)
(* share no state.  Dict is extended and the others are instances, so Key, *)
(* Hash, Item, Nothing and the capacities without a prefix are Dict's.     *)
(***************************************************************************)
EXTENDS Dict, Sequences

CONSTANTS Word, Count,                                           \* Vect, Str
          VectItem, Zero, VectDefault, VectMax,                  \* Vect
          Letter, Nul, StrDefault, StrMax, MaxWord,              \* Str
          Path, Subsystem, DevType, DeviceType, Quiet, MaxEvents, \* UDev
          Adapter, First, Device, Shouting, NoAddress, None,     \* Bluetooth
          Switches, MaxChanges

VARIABLES vect, dels,
          str,
          plugged, announced, events, pipe, device, devices,
          on, scanners, flags, changes,
          config, pc, adapter, found, path, listed, shown, label, value, stale

vectVars == <<vect, dels>>
strVars == <<str>>
udevVars == <<plugged, announced, events, pipe, device, devices>>
blueVars == <<on, scanners, flags, changes,
              config, pc, adapter, found, path, listed, shown, label, value, stale>>

V == INSTANCE Vect WITH Item <- VectItem, DefaultCapacity <- VectDefault, MaxLength <- VectMax

S == INSTANCE Str WITH DefaultCapacity <- StrDefault, MaxLength <- StrMax

U == INSTANCE UDev

B == INSTANCE Bluetooth

-----------------------------------------------------------------------------
\* The properties of the components, each stated in its module; LengthExact
\* and ImplementsOwningMap are those of Dict.
ImplementsOwningSeq == V!ImplementsOwningSeq
MemoryEndsInNul == S!MemoryEndsInNul
SearchesAgreeButAtEnd == S!SearchesAgreeButAtEnd
EditsActOnText == S!EditsActOnText
DelstrRemovesAll == S!DelstrRemovesAll
CatchesUp == U!CatchesUp
ToggleAsShown == B!ToggleAsShown
=============================================================================
