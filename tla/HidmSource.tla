----------------------------- MODULE HidmSource -----------------------------
(***************************************************************************)
(* Devices on macOS: hidm_source, the HIDManager it wraps, the context and *)
(* a Unity client that mirrors the devices.                                *)
(*                                                                         *)
(* The manager calls back from the client's run loop, between the calls of *)
(* the library: for each device that matches, for each that is removed,    *)
(* and once more for every device that was there from the start.  Devices  *)
(* are known by the addresses of the manager's objects, which are used     *)
(* again when nobody retains the object any more.                          *)
(***************************************************************************)
EXTENDS UnityMirror, FiniteSets

CONSTANTS
    Service,     \* the kernel's devices; one that is attached again is new
    Address,     \* of IOHIDDevice objects
    Nameless,    \* devices without a product name
    Axisless,    \* devices without an axis the library knows
    MaxInputs    \* bound: how often there is input

ASSUME HidmAssumption ==
    /\ IsFiniteSet(Service) /\ IsFiniteSet(Address)
    /\ Nameless \subseteq Service /\ Axisless \subseteq Service /\ MaxInputs \in Nat

VARIABLES
    \* the kernel and HIDManager
    present, used, \* devices attached now, and so far
    managed,     \* the manager's objects: address |-> device
    repeats,     \* addresses the matching callback is still owed for
    values,      \* addresses of objects with an input value not called back for
    inputs,      \* so far, for the bound
    callback,    \* the input callbacks: address |-> id of the hidm_device
    \* the context
    devices,     \* m_devices: id |-> the device
    nextId,      \* m_next_unique_id
    told,        \* id |-> the last of created and removed the client was told
    uncommitted, \* ids with input that no commit has made visible
    \* the source
    source,      \* "enumerating", then "running" or "dropped"
    map,         \* m_device_map: address |-> id
    \* locals of the call in progress
    pc,
    todo         \* addresses enum_devices still has to add

kernel == <<present, used, inputs>>
manager == <<managed, repeats, values>>
library == <<callback, devices, nextId, told, uncommitted, map>>
vars == <<kernel, manager, library, source, pc, todo, mirrorVars>>

-----------------------------------------------------------------------------
Device == [handle : Address, usable : BOOLEAN]

(* The ids remove_device(a) takes from the context: none if a is unmapped.  *)
Gone(a) == IF a \in DOMAIN map THEN {map[a]} ELSE {}

(* Mistakes the runs must notice (see "mutants" in PROJECT.json): the       *)
(* matching callback adds a device again, the map keeps a removed device,   *)
(* the counter is not advanced.                                             *)
AlreadyNever(a) == FALSE
UnmappedKept(a) == map
NextIdStuck == nextId

NextId == nextId + 1

-----------------------------------------------------------------------------
(* The kernel.                                                              *)

Attach(s) ==
    /\ s \notin used
    /\ present' = present \cup {s} /\ used' = used \cup {s}
    /\ UNCHANGED <<inputs, manager, library, source, pc, todo, mirrorVars>>

Detach(s) ==
    /\ s \in present
    /\ present' = present \ {s}
    /\ UNCHANGED <<used, inputs, manager, library, source, pc, todo, mirrorVars>>

Press(a) ==
    /\ a \in DOMAIN managed /\ managed[a] \in present /\ inputs < MaxInputs
    /\ inputs' = inputs + 1
    /\ values' = values \cup {a}
    /\ UNCHANGED <<present, used, managed, repeats, library, source, pc, todo, mirrorVars>>

Kernel == (\E s \in Service : Attach(s) \/ Detach(s)) \/ (\E a \in Address : Press(a))

-----------------------------------------------------------------------------
(* add_device and remove_device.                                            *)

Already(a) == a \in DOMAIN map

(* The product name is read from the kernel, unless it was read before; a   *)
(* device that is gone may have none any more.                              *)
Names(s) ==
    IF s \in Nameless THEN {FALSE} ELSE IF s \in present THEN {TRUE} ELSE BOOLEAN

(* A device without axes is left unusable, which nobody is told.            *)
Create(a, s) ==
    /\ devices' = Put(devices, nextId, [handle |-> a, usable |-> s \notin Axisless])
    /\ callback' = Put(callback, a, nextId)
    /\ nextId' = NextId
    /\ told' = Put(told, nextId, "created")
    /\ map' = Put(map, a, nextId)
    /\ mirror' = Notified(mirror, {nextId}, TRUE)
    /\ UNCHANGED <<uncommitted, mirrorReady>>

AddDevice(a, s) ==
    \E named \in Names(s) :
       IF Already(a) \/ ~named
       THEN UNCHANGED <<library, mirrorVars>>
       ELSE Create(a, s)

Unmapped(a) == Drop(map, {a})

(* The destructor of the device takes its callback away.                    *)
RemoveDevice(a) ==
    /\ devices' = Drop(devices, Gone(a))
    /\ callback' = IF Already(a) THEN Drop(callback, {a}) ELSE callback
    /\ told' = [i \in DOMAIN told |-> IF i \in Gone(a) THEN "removed" ELSE told[i]]
    /\ uncommitted' = uncommitted \ Gone(a)
    /\ map' = Unmapped(a)
    /\ mirror' = Removed(mirror, Gone(a))
    /\ UNCHANGED <<nextId, mirrorReady>>

-----------------------------------------------------------------------------
(* context::add_source.                                                     *)

(* The manager finds the devices there are when matching is set.            *)
Connect ==
    /\ pc = "connect"
    /\ \E known \in [Address -> Service \cup {"none"}] :
          LET live == {a \in Address : known[a] # "none"}
          IN  /\ {known[a] : a \in live} = present
              /\ Cardinality(live) = Cardinality(present)
              /\ managed' = Restrict(known, live)
    /\ pc' = "open"
    /\ UNCHANGED <<kernel, repeats, values, library, source, todo, mirrorVars>>

(* The manager cannot be created, or opened, and goes with the source.      *)
Fails ==
    /\ pc \in {"connect", "open"}
    /\ source' = "dropped" /\ pc' = "list"
    /\ managed' = EmptyMap /\ values' = {}
    /\ UNCHANGED <<kernel, repeats, library, todo, mirrorVars>>

(* There is nothing to discard: a source enumerates once.                   *)
EnumDevices ==
    /\ pc = "open"
    /\ todo' = DOMAIN managed
    /\ pc' = "add"
    /\ UNCHANGED <<kernel, manager, library, source, mirrorVars>>

AddEnumerated(a) ==
    /\ pc = "add" /\ a \in todo
    /\ todo' = todo \ {a}
    /\ AddDevice(a, managed[a])
    /\ UNCHANGED <<kernel, manager, source, pc>>

(* The manager is scheduled, and will call back for what it has.            *)
Schedule ==
    /\ pc = "add" /\ todo = {}
    /\ repeats' = DOMAIN managed
    /\ source' = "running" /\ pc' = "list"
    /\ UNCHANGED <<kernel, managed, values, library, todo, mirrorVars>>

Enumerate == Connect \/ Fails \/ EnumDevices \/ Schedule
                \/ \E a \in todo : AddEnumerated(a)

-----------------------------------------------------------------------------
(* The client's run loop.                                                   *)

RunsLoop == pc = "idle" /\ source = "running"

Repeat(a) ==
    /\ RunsLoop /\ a \in repeats
    /\ repeats' = repeats \ {a}
    /\ AddDevice(a, managed[a])
    /\ UNCHANGED <<kernel, managed, values, source, pc, todo>>

(* The manager makes an object where nobody has one.                        *)
Retained == {devices[i].handle : i \in DOMAIN devices}

DeviceMatches(s) ==
    /\ RunsLoop /\ repeats = {}
    /\ s \in present \ Range(managed)
    /\ \E a \in Address \ (DOMAIN managed \cup Retained) :
          /\ managed' = Put(managed, a, s)
          /\ AddDevice(a, s)
    /\ UNCHANGED <<kernel, repeats, values, source, pc, todo>>

(* The manager lets go of its object when the callback is over.             *)
DeviceRemoved(a) ==
    /\ RunsLoop /\ repeats = {}
    /\ a \in DOMAIN managed /\ managed[a] \notin present
    /\ RemoveDevice(a)
    /\ managed' = Drop(managed, {a}) /\ values' = values \ {a}
    /\ UNCHANGED <<kernel, repeats, source, pc, todo>>

Input(a) ==
    /\ RunsLoop /\ repeats = {}
    /\ a \in values
    /\ values' = values \ {a}
    /\ uncommitted' = IF a \in DOMAIN callback THEN uncommitted \cup {callback[a]}
                                               ELSE uncommitted
    /\ UNCHANGED <<kernel, managed, repeats, callback, devices, nextId, told, map, source,
                   pc, todo, mirrorVars>>

RunLoop ==
    \/ \E a \in Address : Repeat(a) \/ DeviceRemoved(a) \/ Input(a)
    \/ \E s \in Service : DeviceMatches(s)

-----------------------------------------------------------------------------
(* The client.                                                              *)

CreateContext ==
    /\ pc = "list"
    /\ ListDevices(DOMAIN devices)
    /\ pc' = "idle"
    /\ UNCHANGED <<kernel, manager, library, source, todo>>

(* drain_events does nothing; the context commits. *)
DrainEvents ==
    /\ pc = "idle"
    /\ uncommitted' = {}
    /\ UNCHANGED <<kernel, manager, callback, devices, nextId, told, map, source, pc, todo,
                   mirrorVars>>

(* The context goes, the devices first: nobody is told.                     *)
Destroy ==
    /\ pc = "idle"
    /\ pc' = "destroyed"
    /\ devices' = EmptyMap /\ callback' = EmptyMap /\ uncommitted' = {} /\ map' = EmptyMap
    /\ managed' = EmptyMap /\ repeats' = {} /\ values' = {}
    /\ UNCHANGED <<kernel, nextId, told, source, todo, mirrorVars>>

Client == CreateContext \/ DrainEvents \/ Destroy

-----------------------------------------------------------------------------
Init ==
    /\ present \in SUBSET Service /\ Cardinality(present) <= Cardinality(Address)
    /\ used = present /\ inputs = 0
    /\ managed = EmptyMap /\ repeats = {} /\ values = {} /\ callback = EmptyMap
    /\ devices = EmptyMap /\ nextId = 1 /\ told = EmptyMap /\ uncommitted = {}
    /\ source = "enumerating" /\ map = EmptyMap
    /\ pc = "connect" /\ todo = {}
    /\ MirrorInit

Next == Kernel \/ Enumerate \/ RunLoop \/ Client

Spec == Init /\ [][Next]_vars

-----------------------------------------------------------------------------
(* Properties. *)

Ids == 1 .. nextId - 1

(* The type invariant. *)
TypeOK ==
    /\ present \subseteq used /\ used \subseteq Service /\ inputs \in Nat
    /\ IsMap(managed, Address, used)
    /\ repeats \subseteq DOMAIN managed /\ values \subseteq DOMAIN managed
    /\ nextId \in Nat \ {0}
    /\ IsMap(callback, Address, Ids)
    /\ IsMap(devices, Ids, Device) /\ IsMap(told, Ids, {"created", "removed"})
    /\ uncommitted \subseteq Ids
    /\ source \in {"enumerating", "running", "dropped"}
    /\ IsMap(map, Address, Ids)
    /\ pc \in {"connect", "open", "add", "list", "idle", "destroyed"}
    /\ todo \subseteq DOMAIN managed
    /\ MirrorType(Ids)

(* One list of devices: the context's, the one the client's dictionary has, *)
(* the one the events told, and the map; and input is called back for       *)
(* exactly these, each for the object of its own device.                    *)
OneList ==
    /\ pc # "destroyed" =>
          /\ DOMAIN devices = {i \in DOMAIN told : told[i] = "created"}
          /\ mirrorReady => DOMAIN mirror = DOMAIN devices
    /\ uncommitted \subseteq DOMAIN devices
    /\ callback = map
    /\ DOMAIN map \subseteq DOMAIN managed
    /\ \A a \in DOMAIN map : map[a] \in DOMAIN devices /\ devices[map[a]].handle = a
    /\ \A i \in DOMAIN devices :
          devices[i].handle \in DOMAIN map /\ map[devices[i].handle] = i

(* When nothing is left to call back for, the devices are those attached    *)
(* that have a name, usable if they have axes, whatever the addresses were  *)
(* used for before.                                                         *)
Settled == RunsLoop /\ repeats = {} /\ Range(managed) = present
SettledAgrees ==
    Settled =>
      /\ {managed[devices[i].handle] : i \in DOMAIN devices} = present \ Nameless
      /\ \A i \in DOMAIN devices :
            devices[i].usable = (managed[devices[i].handle] \notin Axisless)

(* Ids are told once, in order, and retired for good, whatever the          *)
(* addresses were used for before.                                          *)
Lifecycle == INSTANCE DeviceLifecycle WITH told <- told
RefinesLifecycle == Lifecycle!Spec
=============================================================================
