------------------------------- MODULE Bluetooth -------------------------------
(***************************************************************************)
(* Ruby/bluetooth_rofi.rb: menus over the adapters and devices of BlueZ,   *)
(* which other clients change while the script reads them, while a menu is *)
(* shown and while a choice is carried out.  Each read and each call over  *)
(* the bus is a step.  A call that fails raises and ends the script.       *)
(***************************************************************************)
EXTENDS Sequences, FiniteSets, Naturals, FiniteSetsExt

CONSTANTS Adapter,
          First,       \* $adapters[0]
          Device,
          Shouting,    \* devices with a name of capitals, digits and colons
          NoAddress,   \* there is no file at CONFIG_PATH
          None,        \* nothing is chosen
          Switches,    \* the labels, in order: <<"Pairable", "Discoverable">>
          MaxChanges   \* bound: what other clients do

\* What the proofs take for granted of the constants.
BluetoothAssumption == First \in Adapter

\* What the script takes turns with.
VARIABLES on,        \* adapter -> which of its properties are true
          scanners,  \* adapter -> the clients that have a discovery session
          flags,     \* device -> which of its properties are true
          changes,   \* how many changes other clients made
\* The script.
          config,    \* the line in the file at CONFIG_PATH
          pc,        \* what it does next
          adapter,   \* the adapter of the running show_main
          found,     \* founddevices, or the properties the device menu has
          path,      \* the device of the device menu
          listed,    \* whether the main menu lists the devices
          shown,     \* label -> the value in the main menu
          label,     \* what was chosen
          value,     \* what is to be written
          stale      \* history: labels whose property changed after it was shown
                     \* and before it was read to be negated

world == <<on, scanners, flags, changes>>
menu == <<adapter, found, path, listed, shown>>
vars == <<world, menu, config, pc, label, value, stale>>

Powered(a) == "Powered" \in on[a]
Scanning(a) == scanners[a] # {}
Value(a, l) == IF l = "Scanning" THEN Scanning(a) ELSE l \in on[a]

\* The rows behind "Powered", which are there for an adapter that is on.
Labels == <<"Powered", "Scanning">> \o Switches
LabelSet == {Labels[i] : i \in 1 .. Len(Labels)}

-----------------------------------------------------------------------------
\* Other clients, and BlueZ.

\* Discovery ends when the adapter goes off.
Turned(a, l, to) ==
  /\ on' = [on EXCEPT ![a] = IF to THEN @ \cup {l} ELSE @ \ {l}]
  /\ scanners' = IF l = "Powered" /\ ~to THEN [scanners EXCEPT ![a] = {}] ELSE scanners

OthersTurn(a, l) == /\ Turned(a, l, l \notin on[a])
                    /\ UNCHANGED flags

OthersScan(a) == /\ Powered(a)
                 /\ scanners' = [scanners EXCEPT ![a] = SymDiff(@, {"other"})]
                 /\ UNCHANGED <<on, flags>>

OthersFlag(d, f) == /\ flags' = [flags EXCEPT ![d] = SymDiff(@, {f})]
                    /\ UNCHANGED <<on, scanners>>

Others == /\ pc # "ended"
          /\ changes < MaxChanges
          /\ changes' = changes + 1
          /\ \/ \E a \in Adapter, l \in LabelSet \ {"Scanning"} : OthersTurn(a, l)
             \/ \E a \in Adapter : OthersScan(a)
             \/ \E d \in Device, f \in {"Connected", "Paired", "Trusted", "Blocked"} : OthersFlag(d, f)
          /\ UNCHANGED <<menu, config, pc, label, value>>
          /\ stale' = IF pc = "write" THEN stale
                      ELSE stale \cup {l \in DOMAIN shown : Value(adapter, l) # Value(adapter, l)'}

-----------------------------------------------------------------------------
\* show_main reads what it shows.

\* Nothing that the last call read is used again.
Leave(to) == /\ pc' = to /\ adapter' = First
             /\ found' = <<>> /\ path' = None /\ listed' = FALSE /\ shown' = <<>>
             /\ label' = None /\ value' = FALSE /\ stale' = {}

\* A choice that raised nothing ends with another call of show_main.
ShowMain == Leave("main")

FindSelectedAdapter ==
  /\ pc = "main"
  /\ adapter' = IF config \in Adapter THEN config ELSE First
  /\ pc' = "devices"
  /\ UNCHANGED <<world, config, found, path, listed, shown, label, value, stale>>

ReadDevices ==
  /\ pc = "devices"
  /\ found' = flags
  /\ pc' = "list"
  /\ UNCHANGED <<world, config, adapter, path, listed, shown, label, value, stale>>

ReadScanning ==
  /\ pc = "list"
  /\ listed' = Scanning(adapter)
  /\ pc' = "options"
  /\ UNCHANGED <<world, config, adapter, found, path, shown, label, value, stale>>

\* create_boolean of the next label.
ReadOption ==
  LET n == Cardinality(DOMAIN shown)
      l == Labels[n + 1]
  IN  /\ pc = "options"
      /\ shown' = [k \in {l} \cup DOMAIN shown |-> IF k = l THEN Value(adapter, l) ELSE shown[k]]
      /\ pc' = IF n = 0 THEN "rows" ELSE IF n + 1 = Len(Labels) THEN "menu" ELSE "options"
      /\ UNCHANGED <<world, config, adapter, found, path, listed, label, value, stale>>

\* "if powered? adapter" reads the property again.
ReadPoweredAgain ==
  /\ pc = "rows"
  /\ pc' = IF Powered(adapter) THEN "options" ELSE "menu"
  /\ UNCHANGED <<world, menu, config, label, value, stale>>

-----------------------------------------------------------------------------
\* The user chooses.

Go(to) == /\ pc' = to
          /\ UNCHANGED <<world, menu, config, label, value, stale>>

\* The script and its discovery sessions end.
End == /\ Leave("ended")
       /\ scanners' = [a \in Adapter |-> scanners[a] \ {"script"}]
       /\ UNCHANGED <<on, flags, changes, config>>

Close == pc \in {"menu", "device"} /\ End

\* A row that starts with capitals and " - " is taken for an adapter's.
WriteConfig(word) == config' = word /\ ShowMain /\ UNCHANGED world

\* The row of the selected adapter cannot be chosen.
ChooseAdapter(a) == pc = "menu" /\ a # adapter /\ WriteConfig(a)

\* Only the row of a device without any flag ends like the pattern that
\* device rows are matched with; a row with an icon behind it is no choice.
MatchesDevice(d) == found[d] = {}

ChooseDevice(d) ==
  /\ pc = "menu" /\ listed
  /\ IF d \in Shouting THEN WriteConfig(d)
     ELSE IF ~MatchesDevice(d) THEN ShowMain /\ UNCHANGED <<world, config>>
     ELSE /\ pc' = "device" /\ path' = d
          /\ found' = [p \in {d} |-> found[p]]
          /\ listed' = FALSE /\ shown' = <<>> /\ stale' = {}
          /\ UNCHANGED <<world, config, adapter, label, value>>

Choose(l, to) == /\ pc = "menu"
                 /\ label' = l
                 /\ pc' = to
                 /\ found' = <<>> /\ listed' = FALSE
                 /\ shown' = [k \in DOMAIN shown \cap {l} |-> shown[k]]
                 /\ stale' = stale \cap {l}
                 /\ UNCHANGED <<world, config, adapter, path, value>>

ChooseOption == \E l \in DOMAIN shown :
                  Choose(l, IF l = "Powered" THEN "rfkill" ELSE IF l = "Scanning" THEN "scan"
                            ELSE "negate")
ChooseUpdate == listed /\ Choose("Update", "stop")

\* "unless powered? adapter": unblock_rfkill is given the id, indexes it with
\* :id and raises a TypeError for the first device, if rfkill lists any.
UnblockRfkill == /\ pc = "rfkill"
                 /\ \/ Go("negate")
                    \/ ~Powered(adapter) /\ End

\* The property is read once more, and the opposite written.
ReadToNegate == /\ pc = "negate"
                /\ value' = ~Value(adapter, label)
                /\ pc' = "write"
                /\ UNCHANGED <<world, menu, config, label, stale>>

WriteOn == /\ pc = "write"
           /\ Turned(adapter, label, TRUE)
           /\ ShowMain
           /\ UNCHANGED <<flags, changes, config>>
Write == /\ pc = "write"
         /\ Turned(adapter, label, value)
         /\ ShowMain
         /\ UNCHANGED <<flags, changes, config>>

ReadToScan == /\ pc = "scan"
              /\ Go(IF Scanning(adapter) THEN "stop" ELSE "start")

\* BlueZ lets a client end its own session only.
StopDiscovery == /\ pc = "stop" /\ "script" \in scanners[adapter]
                 /\ scanners' = [scanners EXCEPT ![adapter] = @ \ {"script"}]
                 /\ IF label = "Update"
                    THEN pc' = "start" /\ UNCHANGED <<menu, label, value, stale>>
                    ELSE ShowMain
                 /\ UNCHANGED <<on, flags, changes, config>>

\* do_scan
StartDiscovery == /\ pc = "start" /\ Powered(adapter) /\ "script" \notin scanners[adapter]
                  /\ scanners' = [scanners EXCEPT ![adapter] = @ \cup {"script"}]
                  /\ ShowMain
                  /\ UNCHANGED <<on, flags, changes, config>>

\* show_device_manager: the offers follow from the properties that it was
\* called with, and it calls itself with the same ones.
Offers(d) == {IF "Connected" \in found[d] THEN "Disconnect" ELSE "Connect",
              IF "Paired" \in found[d] THEN "Unpair" ELSE "Pair",
              IF "Blocked" \in found[d] THEN "Unblock" ELSE "Block"}

\* CancelPairing, behind "Unpair", leaves a device that is paired as it is.
After(f, call) == CASE call = "Connect" -> f \cup {"Connected"}
                    [] call = "Disconnect" -> f \ {"Connected"}
                    [] call = "Pair" -> f \cup {"Paired"}
                    [] call = "Unpair" -> f
                    [] call = "Block" -> f \cup {"Blocked"}
                    [] call = "Unblock" -> f \ {"Blocked"}

CallDevice(call) == /\ pc = "device"
                    /\ call \in Offers(path)
                    /\ flags' = [flags EXCEPT ![path] = After(@, call)]
                    /\ UNCHANGED <<on, scanners, changes, menu, config, pc, label, value, stale>>

Back == pc = "device" /\ ShowMain /\ UNCHANGED <<world, config>>

\* Any read or call over the bus may raise.
Raise == pc \notin {"main", "menu", "ended"} /\ End

-----------------------------------------------------------------------------
Init == /\ on \in [Adapter -> {{}, {"Powered"}}]
        /\ scanners = [a \in Adapter |-> {}]
        /\ flags \in [Device -> {{}, {"Paired"}}]
        /\ changes = 0
        /\ config \in Adapter \cup {NoAddress}
        /\ pc = "main"
        /\ adapter = First /\ found = <<>> /\ path = None /\ listed = FALSE
        /\ shown = <<>> /\ label = None /\ value = FALSE
        /\ stale = {}

Script == \/ FindSelectedAdapter \/ ReadDevices \/ ReadScanning
          \/ ReadOption \/ ReadPoweredAgain
          \/ Close
          \/ \E a \in Adapter : ChooseAdapter(a)
          \/ \E d \in Device : ChooseDevice(d)
          \/ ChooseOption \/ ChooseUpdate
          \/ UnblockRfkill \/ ReadToNegate \/ Write
          \/ ReadToScan \/ StopDiscovery \/ StartDiscovery
          \/ \E call \in {"Connect", "Disconnect", "Pair", "Unpair", "Block", "Unblock"} :
               CallDevice(call)
          \/ Back
          \/ Raise

Next == Script \/ Others

Spec == Init /\ [][Next]_vars

-----------------------------------------------------------------------------
\* A toggle (206, 217, 219) gives the property of the adapter that the menu
\* was about the opposite of the value it showed, also when another client
\* changes it between the read and the write of the toggle.  A change before
\* that read is the exception: the toggle takes it back.
ToggleAsShown ==
  [][\A a \in Adapter, l \in LabelSet :
        Write /\ a = adapter /\ l = label /\ l \notin stale => Value(a, l)' = ~shown[l]]_vars
=============================================================================
