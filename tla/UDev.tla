--------------------------------- MODULE UDev ---------------------------------
(***************************************************************************)
(* Ruby/device.rb: a table of the USB devices, kept up to date from the    *)
(* lines that `udevadm monitor' writes into a pipe, while devices come and *)
(* go.  An event is a header line, the properties of the device and an     *)
(* empty line.                                                             *)
(***************************************************************************)
EXTENDS Naturals, Sequences

CONSTANTS Path,        \* what the kernel has a DEVPATH for
          Subsystem,   \* Path -> subsystem
          DevType,     \* Path -> the value of DEVTYPE
          DeviceType,  \* the values of DEVTYPE that end in "_device"
          Quiet,       \* no event is being read: @device is nil
          MaxEvents    \* bound: events after the monitor was started

\* What is known of a device while its event is read; Quiet is none.
Detail == UNION {[keys -> Path \cup {DevType[p] : p \in Path}] : keys \in SUBSET {"DEVPATH", "DEVTYPE"}}
Event == [event : {"add", "remove"}, detail : Detail]
UDevAssumption == Quiet \notin Event

VARIABLES plugged,    \* what is there
          announced,  \* history: what an add was sent for, and no remove since
          events,     \* how many events were sent
          pipe,       \* the lines that were not read
          device,     \* @device: the event being read, or Quiet
          devices     \* the keys of $devices

vars == <<plugged, announced, events, pipe, device, devices>>

-----------------------------------------------------------------------------
\* What udevadm writes.  It also writes bind, unbind and change events.
Header(action, p) == [line |-> "header", action |-> action, subsystem |-> Subsystem[p]]
Property(key, value) == [line |-> "property", key |-> key, value |-> value]
Blank == [line |-> "blank"]

Lines(action, p) == <<Header(action, p), Property("DEVPATH", p),
                      Property("DEVTYPE", DevType[p]), Blank>>

Send(action, p) == /\ events < MaxEvents
                   /\ events' = events + 1
                   /\ pipe' = pipe \o Lines(action, p)
                   /\ UNCHANGED <<device, devices>>

\* A device that is there is added again when udev is triggered.
Add(p) == /\ Send("add", p)
          /\ plugged' = plugged \cup {p}
          /\ announced' = announced \cup {p}

Remove(p) == /\ p \in plugged
             /\ Send("remove", p)
             /\ plugged' = plugged \ {p}
             /\ announced' = announced \ {p}

Change(p) == /\ p \in plugged
             /\ Send("change", p)
             /\ UNCHANGED <<plugged, announced>>

-----------------------------------------------------------------------------
\* UDevMonitor.run reads a line.

\* The header of an event to read.
Starts(l) == l.line = "header" /\ l.action \in {"add", "remove"} /\ l.subsystem = "usb"

ReadHeader(l) == /\ device = Quiet
                 /\ device' = IF Starts(l) THEN [event |-> l.action, detail |-> <<>>] ELSE Quiet
                 /\ UNCHANGED devices

\* UDevEvent.update_detail
ReadDetail(l) ==
  /\ device # Quiet
  /\ l.line # "blank"
  /\ device' = IF l.line = "property"
               THEN [device EXCEPT !.detail = [key \in {l.key} \cup DOMAIN @ |->
                                                 IF key = l.key THEN l.value ELSE @[key]]]
               ELSE device
  /\ UNCHANGED devices

\* UDevEvent.device?
IsDevice(e) == "DEVTYPE" \in DOMAIN e.detail /\ e.detail["DEVTYPE"] \in DeviceType

\* The block that is given to run, and the next event can start.
YieldKeeping(l) == /\ device # Quiet
                   /\ l.line = "blank"
                   /\ devices' = IF ~IsDevice(device) THEN devices
                                 ELSE IF device.event = "add"
                                      THEN devices \cup {device.detail["DEVPATH"]}
                                      ELSE devices \ {device.detail["DEVPATH"]}
                   /\ device' = device
Yield(l) == /\ device # Quiet
            /\ l.line = "blank"
            /\ devices' = IF ~IsDevice(device) THEN devices
                          ELSE IF device.event = "add"
                               THEN devices \cup {device.detail["DEVPATH"]}
                               ELSE devices \ {device.detail["DEVPATH"]}
            /\ device' = Quiet

ReadLine == /\ pipe # <<>>
            /\ pipe' = Tail(pipe)
            /\ ReadHeader(Head(pipe)) \/ ReadDetail(Head(pipe)) \/ Yield(Head(pipe))
            /\ UNCHANGED <<plugged, announced, events>>

-----------------------------------------------------------------------------
\* The monitor is started while some devices are there; $devices starts empty.
Init == /\ plugged \in SUBSET Path
        /\ announced = {}
        /\ events = 0
        /\ pipe = <<>>
        /\ device = Quiet
        /\ devices = {}

Next == \/ \E p \in Path : Add(p) \/ Remove(p) \/ Change(p)
        \/ ReadLine

\* The script does nothing but read; udevadm keeps the pipe open.
Fairness == WF_vars(ReadLine)

Spec == Init /\ [][Next]_vars /\ Fairness

-----------------------------------------------------------------------------
\* Once the events stop, the table gets to hold the USB devices, not their
\* interfaces nor devices of other subsystems, that were added and not removed
\* since the monitor was started, and it stays so.
IsUsbDevice(p) == Subsystem[p] = "usb" /\ DevType[p] \in DeviceType
CatchesUp == <>[](devices = {p \in announced : IsUsbDevice(p)})
=============================================================================
