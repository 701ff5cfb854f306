-------------------------------- MODULE MCParts --------------------------------
(***************************************************************************)
(* Instances of Parts for TLC.  Every behaviour is one of one component,   *)
(* which "subject" names, while the others stay as they begin.             *)
(***************************************************************************)
EXTENDS Parts, TLC

CONSTANTS stick, stickif, port,      \* a USB device, its interface, a SCSI device
          h0, h1,                    \* adapters
          headset, KEYBOARD          \* Bluetooth devices, one with a shouting name

VARIABLE subject

\* Keys are their own hashes.  0, 3 and 6 meet in a table of 3, 0 and 7 in one
\* of 7; 0, 1 and 2 fill the first table.
DictKeys == {0, 1, 2, 6, 7}
IdentityHash == [k \in DictKeys |-> k]

\* What str_del and vect_del_n are called with: none of it wraps around.
SmallCounts == 0 .. 4

USBDevices == {stick, stickif, port}
SubsystemOf == stick :> "usb" @@ stickif :> "usb" @@ port :> "scsi"
DevTypeOf == stick :> "usb_device" @@ stickif :> "usb_interface" @@ port :> "scsi_device"
DeviceTypes == {"usb_device", "scsi_device"}

Adapters == {h0, h1}
BlueDevices == {headset, KEYBOARD}
ShoutingDevices == {KEYBOARD}
OneSwitch == <<"Pairable">>

ASSUME DictAssumption
ASSUME V!VectAssumption
ASSUME S!StrAssumption
ASSUME U!UDevAssumption
ASSUME B!BluetoothAssumption

partsVars == <<subject, vectVars, strVars, vars, udevVars, blueVars>>

-----------------------------------------------------------------------------
PartsInit == /\ subject \in {"vect", "str", "dict", "udev", "bluetooth"}
             /\ V!Init /\ S!Init /\ Init /\ U!Init /\ B!Init
             /\ subject # "udev" => plugged = {}
             /\ config = NoAddress
             /\ on[h1] = {} /\ flags[KEYBOARD] = {}
             /\ subject # "bluetooth" => on[h0] = {} /\ flags[headset] = {}

PartsNext == \/ /\ subject = "vect" /\ V!Next
                /\ UNCHANGED <<subject, strVars, vars, udevVars, blueVars>>
             \/ /\ subject = "str" /\ S!Next
                /\ UNCHANGED <<subject, vectVars, vars, udevVars, blueVars>>
             \/ /\ subject = "dict" /\ Next
                /\ UNCHANGED <<subject, vectVars, strVars, udevVars, blueVars>>
             \/ /\ subject = "udev" /\ U!Next
                /\ UNCHANGED <<subject, vectVars, strVars, vars, blueVars>>
             \/ /\ subject = "bluetooth" /\ B!Next
                /\ UNCHANGED <<subject, vectVars, strVars, vars, udevVars>>

PartsSpec == PartsInit /\ [][PartsNext]_partsVars /\ WF_udevVars(U!ReadLine)
=============================================================================
