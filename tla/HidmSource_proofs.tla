-------------------------- MODULE HidmSource_proofs --------------------------
(***************************************************************************)
(* Proofs about HidmSource, for any devices, addresses and bounds: the     *)
(* types, and that context, client, map and callbacks have one list.       *)
(***************************************************************************)
EXTENDS HidmSource, TLAPS

(* What the operations on maps and on the client's dictionary return.       *)
LEMMA EmptyMapType ==
  ASSUME NEW S, NEW T
  PROVE  IsMap(EmptyMap, S, T) /\ DOMAIN EmptyMap = {}
BY DEF EmptyMap, IsMap

LEMMA PutMap ==
  ASSUME NEW f, NEW S, NEW T, IsMap(f, S, T),
         NEW k \in S, NEW v \in T
  PROVE  /\ IsMap(Put(f, k, v), S, T)
         /\ DOMAIN Put(f, k, v) = DOMAIN f \cup {k}
         /\ Put(f, k, v)[k] = v
         /\ \A x \in DOMAIN f \ {k} : Put(f, k, v)[x] = f[x]
<1>1. DOMAIN Put(f, k, v) = DOMAIN f \cup {k}
  BY DEF Put
<1>2. \A x \in DOMAIN f \cup {k} : Put(f, k, v)[x] = IF x = k THEN v ELSE f[x]
  BY DEF Put
<1>3. Put(f, k, v) = [x \in DOMAIN Put(f, k, v) |-> Put(f, k, v)[x]]
  BY DEF Put
<1> QED
  BY <1>1, <1>2, <1>3 DEF IsMap

Entry == {"named", "nameless"}

LEMMA NotifiedMirror ==
  ASSUME NEW m, NEW S, IsMap(m, S, Entry), NEW ids, ids \subseteq S, NEW known
  PROVE  /\ IsMap(Notified(m, ids, known), S, Entry)
         /\ mirrorReady => DOMAIN Notified(m, ids, known) = DOMAIN m \cup ids
<1>1. /\ DOMAIN GetDevice(m, ids, known) = DOMAIN m \cup ids
      /\ IsMap(GetDevice(m, ids, known), S, Entry)
  BY DEF GetDevice, IsMap, Entry
<1> QED
  BY <1>1 DEF Notified

(* The types of what add_device and remove_device change, and of the rest.  *)
ListType ==
  /\ nextId \in Nat \ {0}
  /\ IsMap(callback, Address, Ids)
  /\ IsMap(devices, Ids, Device) /\ IsMap(told, Ids, {"created", "removed"})
  /\ uncommitted \subseteq Ids
  /\ IsMap(map, Address, Ids)
  /\ MirrorType(Ids)

SystemType ==
  /\ present \subseteq used /\ used \subseteq Service /\ inputs \in Nat
  /\ IsMap(managed, Address, used)
  /\ repeats \subseteq DOMAIN managed /\ values \subseteq DOMAIN managed
  /\ source \in {"enumerating", "running", "dropped"}
  /\ pc \in {"connect", "open", "add", "list", "idle", "destroyed"}
  /\ todo \subseteq DOMAIN managed

LEMMA SplitType == TypeOK <=> ListType /\ SystemType
BY DEF TypeOK, ListType, SystemType

(* The part of OneList that add_device and remove_device keep.              *)
Lists ==
  /\ pc # "destroyed" => DOMAIN devices = {i \in DOMAIN told : told[i] = "created"}
  /\ pc # "destroyed" /\ mirrorReady => DOMAIN mirror = DOMAIN devices
  /\ uncommitted \subseteq DOMAIN devices
  /\ callback = map
  /\ \A a \in DOMAIN map : map[a] \in DOMAIN devices /\ devices[map[a]].handle = a
  /\ \A i \in DOMAIN devices :
        devices[i].handle \in DOMAIN map /\ map[devices[i].handle] = i

(* Where the call in progress may be, and what it has not begun.            *)
Control ==
  /\ pc \in {"connect", "open"} =>
        /\ DOMAIN map = {} /\ DOMAIN devices = {} /\ DOMAIN told = {}
        /\ repeats = {} /\ todo = {}
  /\ pc = "connect" => DOMAIN managed = {}
  /\ pc \in {"connect", "open", "add"} => source = "enumerating"
  /\ pc = "destroyed" => DOMAIN map = {} /\ DOMAIN devices = {}
  /\ mirrorReady <=> pc \in {"idle", "destroyed"}
  /\ todo # {} => pc = "add"

Inv == ListType /\ SystemType /\ Lists /\ Control /\ DOMAIN map \subseteq DOMAIN managed

LEMMA InvOneList == Inv => TypeOK /\ OneList
BY SplitType DEF Inv, Lists, OneList

LEMMA InitInv == Init => Inv
<1> SUFFICES ASSUME Init PROVE Inv
  OBVIOUS
<1> USE DEF Init, MirrorInit
<1>1. ListType
  <2>1. /\ IsMap(callback, Address, Ids) /\ IsMap(devices, Ids, Device)
        /\ IsMap(told, Ids, {"created", "removed"}) /\ IsMap(map, Address, Ids)
        /\ IsMap(mirror, Ids, {"named", "nameless"})
    BY EmptyMapType DEF Ids
  <2>2. nextId \in Nat \ {0} /\ uncommitted \subseteq Ids /\ mirrorReady \in BOOLEAN
    <3>1. nextId = 1 /\ uncommitted = {} /\ mirrorReady = FALSE
      OBVIOUS
    <3>2. nextId \in Nat \ {0}
      BY ONLY <3>1
    <3> HIDE DEF Init, MirrorInit
    <3> QED
      BY <3>1, <3>2, Zenon
  <2> HIDE DEF Init, MirrorInit
  <2> QED
    BY ONLY <2>1, <2>2, Zenon DEF ListType, MirrorType
<1>2. SystemType
  BY HidmAssumption, EmptyMapType DEF SystemType
<1>3. Lists
  BY EmptyMapType DEF Lists
<1>4. Control
  BY EmptyMapType DEF Control
<1>5. DOMAIN map \subseteq DOMAIN managed
  BY EmptyMapType
<1> QED
  BY <1>1, <1>2, <1>3, <1>4, <1>5 DEF Inv

-----------------------------------------------------------------------------
(* add_device and remove_device.                                            *)

(* A step that leaves the library and the mirror alone keeps the lists.     *)
LEMMA Untouched ==
  ASSUME ListType, Lists, UNCHANGED <<library, mirrorVars>>,
         (pc = "destroyed") = (pc' = "destroyed")
  PROVE  ListType' /\ Lists'
BY DEF ListType, Lists, library, mirrorVars, MirrorType, IsMap, Ids

LEMMA CreateKeeps ==
  ASSUME ListType, Lists, NEW a \in Address, NEW s, a \notin DOMAIN map,
         Create(a, s), pc # "destroyed"
  PROVE  /\ ListType' /\ Lists'
         /\ DOMAIN map' = DOMAIN map \cup {a} /\ mirrorReady' = mirrorReady
         /\ devices'[map'[a]].usable = (s \notin Axisless)
         /\ \A x \in DOMAIN map :
               map'[x] = map[x] /\ devices'[map'[x]].usable = devices[map[x]].usable
<1>a. DEFINE d == [handle |-> a, usable |-> s \notin Axisless]
<1>b. /\ nextId \in Nat \ {0} /\ nextId' = nextId + 1
      /\ Ids \subseteq Ids' /\ nextId \in Ids' /\ nextId \notin Ids
  BY DEF ListType, Create, NextId, Ids
<1>c. d \in Device
  BY DEF Device
<1>1. /\ IsMap(devices', Ids', Device)
      /\ DOMAIN devices' = DOMAIN devices \cup {nextId}
      /\ devices'[nextId] = d
      /\ \A i \in DOMAIN devices : devices'[i] = devices[i]
  <2>1. IsMap(devices, Ids, Device) /\ devices' = Put(devices, nextId, d)
    BY DEF ListType, Create
  <2>2. nextId \notin DOMAIN devices /\ IsMap(devices, Ids', Device)
    BY <2>1, <1>b DEF IsMap
  <2> HIDE DEF d
  <2> QED
    BY <2>1, <2>2, <1>b, <1>c, PutMap
<1>2. /\ IsMap(told', Ids', {"created", "removed"})
      /\ DOMAIN told' = DOMAIN told \cup {nextId}
      /\ told'[nextId] = "created"
      /\ \A i \in DOMAIN told : told'[i] = told[i]
  <2>1. IsMap(told, Ids, {"created", "removed"}) /\ told' = Put(told, nextId, "created")
    BY DEF ListType, Create
  <2>2. nextId \notin DOMAIN told /\ IsMap(told, Ids', {"created", "removed"})
    BY <2>1, <1>b DEF IsMap
  <2> QED
    BY <2>1, <2>2, <1>b, PutMap
<1>3. /\ IsMap(map', Address, Ids')
      /\ DOMAIN map' = DOMAIN map \cup {a}
      /\ map'[a] = nextId
      /\ \A x \in DOMAIN map : map'[x] = map[x]
  <2>1. IsMap(map, Address, Ids) /\ map' = Put(map, a, nextId)
    BY DEF ListType, Create
  <2>2. IsMap(map, Address, Ids')
    BY <2>1, <1>b DEF IsMap
  <2>3. /\ IsMap(Put(map, a, nextId), Address, Ids')
        /\ DOMAIN Put(map, a, nextId) = DOMAIN map \cup {a}
        /\ Put(map, a, nextId)[a] = nextId
        /\ \A x \in DOMAIN map \ {a} : Put(map, a, nextId)[x] = map[x]
    <3> DEFINE I == Ids'
    <3>1. IsMap(map, Address, I) /\ nextId \in I
      BY <2>2, <1>b
    <3> HIDE DEF I
    <3>2. /\ IsMap(Put(map, a, nextId), Address, I)
          /\ DOMAIN Put(map, a, nextId) = DOMAIN map \cup {a}
          /\ Put(map, a, nextId)[a] = nextId
          /\ \A x \in DOMAIN map \ {a} : Put(map, a, nextId)[x] = map[x]
      BY <3>1 DEF Put, IsMap
    <3> QED
      BY <3>2, Zenon DEF I
  <2> QED
    BY <2>1, <2>3
<1>4. callback' = map' /\ uncommitted' = uncommitted /\ mirrorReady' = mirrorReady
  BY DEF Lists, Create
<1>5. /\ IsMap(mirror', Ids', Entry)
      /\ mirrorReady => DOMAIN mirror' = DOMAIN mirror \cup {nextId}
  <2>1. IsMap(mirror, Ids, Entry) /\ mirror' = Notified(mirror, {nextId}, TRUE)
    BY DEF ListType, MirrorType, Entry, Create
  <2>2. IsMap(mirror, Ids', Entry) /\ {nextId} \subseteq Ids'
    BY <2>1, <1>b DEF IsMap
  <2>3. \A known : /\ IsMap(Notified(mirror, {nextId}, known), Ids', Entry)
                   /\ mirrorReady => DOMAIN Notified(mirror, {nextId}, known)
                                       = DOMAIN mirror \cup {nextId}
    <3> DEFINE I == Ids'
    <3>1. IsMap(mirror, I, Entry) /\ {nextId} \subseteq I
      BY <2>2
    <3> HIDE DEF I
    <3>2. \A known : /\ IsMap(Notified(mirror, {nextId}, known), I, Entry)
                     /\ mirrorReady => DOMAIN Notified(mirror, {nextId}, known)
                                         = DOMAIN mirror \cup {nextId}
      BY ONLY <3>1, NotifiedMirror
    <3> QED
      BY <3>2, Zenon DEF I
  <2> QED
    BY <2>1, <2>3, Zenon
<1>6. ListType'
  BY <1>b, <1>1, <1>2, <1>3, <1>4, <1>5 DEF ListType, MirrorType, Entry
<1>7. Lists'
  <2>1. DOMAIN devices' = {i \in DOMAIN told' : told'[i] = "created"}
    BY <1>1, <1>2 DEF Lists
  <2>2. mirrorReady' => DOMAIN mirror' = DOMAIN devices'
    BY <1>1, <1>4, <1>5 DEF Lists
  <2>3. \A x \in DOMAIN map' : map'[x] \in DOMAIN devices' /\ devices'[map'[x]].handle = x
    BY <1>1, <1>3 DEF Lists
  <2>4. \A i \in DOMAIN devices' :
           devices'[i].handle \in DOMAIN map' /\ map'[devices'[i].handle] = i
    BY <1>1, <1>3 DEF Lists
  <2> QED
    BY <2>1, <2>2, <2>3, <2>4, <1>1, <1>4 DEF Lists
<1>8. /\ devices'[map'[a]].usable = (s \notin Axisless)
      /\ \A x \in DOMAIN map : devices'[map'[x]].usable = devices[map[x]].usable
  BY <1>1, <1>3 DEF Lists
<1> QED
  BY <1>3, <1>4, <1>6, <1>7, <1>8

LEMMA AddKeeps ==
  ASSUME ListType, Lists, NEW a \in Address, NEW s, AddDevice(a, s),
         pc # "destroyed", pc' # "destroyed"
  PROVE  /\ ListType' /\ Lists'
         /\ DOMAIN map' \subseteq DOMAIN map \cup {a} /\ mirrorReady' = mirrorReady
         /\ \A x \in DOMAIN map :
               /\ x \in DOMAIN map'
               /\ devices'[map'[x]].usable = devices[map[x]].usable
         /\ a \in DOMAIN map' \ DOMAIN map =>
               s \notin Nameless /\ devices'[map'[a]].usable = (s \notin Axisless)
         /\ s \in present \ Nameless => a \in DOMAIN map'
<1>0. PICK named \in Names(s) :
         IF Already(a) \/ ~named THEN UNCHANGED <<library, mirrorVars>> ELSE Create(a, s)
  BY DEF AddDevice
<1>1. CASE Already(a) \/ ~named
  <2>1. UNCHANGED <<library, mirrorVars>>
    BY <1>0, <1>1
  <2>2. ListType' /\ Lists'
    BY <2>1, Untouched
  <2>3. s \in present \ Nameless => a \in DOMAIN map
    BY <1>1 DEF Names, Already
  <2> QED
    BY <2>1, <2>2, <2>3 DEF library, mirrorVars
<1>2. CASE ~(Already(a) \/ ~named)
  <2>1. Create(a, s) /\ a \notin DOMAIN map
    BY <1>0, <1>2 DEF Already
  <2>2. s \notin Nameless
    BY <1>2 DEF Names
  <2> QED
    BY <2>1, <2>2, CreateKeeps
<1> QED
  BY <1>1, <1>2

LEMMA RemoveKeeps ==
  ASSUME ListType, Lists, NEW a \in Address, RemoveDevice(a),
         pc # "destroyed", pc' # "destroyed"
  PROVE  /\ ListType' /\ Lists'
         /\ DOMAIN map' = DOMAIN map \ {a} /\ mirrorReady' = mirrorReady
         /\ \A x \in DOMAIN map' : devices'[map'[x]].usable = devices[map[x]].usable
<1>a. nextId' = nextId /\ Ids' = Ids /\ mirrorReady' = mirrorReady
  BY DEF RemoveDevice, Ids
<1>1. /\ IsMap(devices', Ids, Device)
      /\ DOMAIN devices' = DOMAIN devices \ Gone(a)
      /\ \A i \in DOMAIN devices' : devices'[i] = devices[i]
  BY DEF ListType, RemoveDevice, Drop, Restrict, IsMap
<1>2. /\ IsMap(told', Ids, {"created", "removed"})
      /\ DOMAIN told' = DOMAIN told
      /\ \A i \in DOMAIN told : told'[i] = IF i \in Gone(a) THEN "removed" ELSE told[i]
  BY DEF ListType, RemoveDevice, IsMap
<1>3. /\ IsMap(map', Address, Ids)
      /\ DOMAIN map' = DOMAIN map \ {a}
      /\ \A x \in DOMAIN map' : map'[x] = map[x]
  BY DEF ListType, RemoveDevice, Unmapped, Drop, Restrict, IsMap
<1>4. callback' = map'
  <2>1. CASE a \in DOMAIN map
    BY <2>1 DEF Lists, RemoveDevice, Already, Unmapped
  <2>2. CASE a \notin DOMAIN map
    <3>1. map' = map
      BY <2>2 DEF ListType, RemoveDevice, Unmapped, Drop, Restrict, IsMap
    <3> QED
      BY <2>2, <3>1 DEF Lists, RemoveDevice, Already
  <2> QED
    BY <2>1, <2>2
<1>5. /\ IsMap(mirror', Ids, Entry)
      /\ mirrorReady => DOMAIN mirror' = DOMAIN mirror \ Gone(a)
  BY DEF ListType, MirrorType, RemoveDevice, Removed, Drop, Restrict, IsMap, Entry
<1>6. uncommitted' = uncommitted \ Gone(a)
  BY DEF RemoveDevice
<1>7. ListType'
  BY <1>a, <1>1, <1>2, <1>3, <1>4, <1>5, <1>6 DEF ListType, MirrorType, Entry
<1>8. Lists'
  <2>1. DOMAIN devices' = {i \in DOMAIN told' : told'[i] = "created"}
    BY <1>1, <1>2 DEF Lists
  <2>2. mirrorReady' => DOMAIN mirror' = DOMAIN devices'
    BY <1>a, <1>1, <1>5 DEF Lists
  <2>3. \A x \in DOMAIN map' : map'[x] \in DOMAIN devices' /\ devices'[map'[x]].handle = x
    BY <1>1, <1>3 DEF Lists, Gone
  <2>4. \A i \in DOMAIN devices' :
           devices'[i].handle \in DOMAIN map' /\ map'[devices'[i].handle] = i
    BY <1>1, <1>3 DEF Lists, Gone
  <2> QED
    BY <2>1, <2>2, <2>3, <2>4, <1>1, <1>4, <1>6 DEF Lists
<1>9. \A x \in DOMAIN map' : devices'[map'[x]].usable = devices[map[x]].usable
  BY <1>1, <1>3, <1>8 DEF Lists
<1> QED
  BY <1>a, <1>3, <1>7, <1>8, <1>9

-----------------------------------------------------------------------------
(* The steps.                                                               *)

LEMMA KernelKeeps == Inv /\ Kernel => Inv'
<1> SUFFICES ASSUME Inv, Kernel PROVE Inv'
  OBVIOUS
<1> USE DEF Inv, Kernel, Attach, Detach, Press, manager, library, mirrorVars
<1>1. UNCHANGED <<library, mirrorVars, pc, managed, repeats, todo, source>>
  OBVIOUS
<1>2. ListType' /\ Lists'
  BY <1>1, Untouched
<1>3. SystemType'
  BY DEF SystemType, IsMap
<1>4. Control' /\ DOMAIN map' \subseteq DOMAIN managed'
  BY <1>1 DEF Control
<1> QED
  BY <1>2, <1>3, <1>4

LEMMA ConnectKeeps == Inv /\ (Connect \/ Fails \/ EnumDevices \/ Schedule) => Inv'
<1> SUFFICES ASSUME Inv, Connect \/ Fails \/ EnumDevices \/ Schedule PROVE Inv'
  OBVIOUS
<1> USE DEF Inv, Connect, Fails, EnumDevices, Schedule, kernel, manager, library, mirrorVars
<1>1. UNCHANGED <<library, mirrorVars>> /\ pc # "destroyed" /\ pc' # "destroyed"
  OBVIOUS
<1>2. ListType' /\ Lists'
  BY <1>1, Untouched
<1>3. SystemType'
  <2>1. CASE Connect
    <3>1. PICK known \in [Address -> Service \cup {"none"}] :
             LET live == {a \in Address : known[a] # "none"}
             IN  /\ {known[a] : a \in live} = present
                 /\ managed' = Restrict(known, live)
      BY <2>1
    <3>2. IsMap(managed', Address, used')
      BY <2>1, <3>1 DEF SystemType, Restrict, IsMap
    <3>3. repeats' = {} /\ values' = {} /\ todo' = {}
      BY <2>1 DEF SystemType, Control
    <3> QED
      BY <2>1, <3>2, <3>3 DEF SystemType
  <2>2. CASE Fails
    <3>1. repeats' = {} /\ todo' = {}
      BY <2>2 DEF Control
    <3>2. IsMap(managed', Address, used') /\ DOMAIN managed' = {}
      BY <2>2, EmptyMapType
    <3> QED
      BY <2>2, <3>1, <3>2 DEF SystemType
  <2>3. CASE EnumDevices
    BY <2>3 DEF SystemType
  <2>4. CASE Schedule
    BY <2>4 DEF SystemType
  <2> QED
    BY <2>1, <2>2, <2>3, <2>4
<1>4. Control'
  BY DEF Control
<1>5. DOMAIN map' \subseteq DOMAIN managed'
  <2>1. CASE Connect \/ Fails
    BY <2>1 DEF Control
  <2>2. CASE EnumDevices \/ Schedule
    BY <2>2
  <2> QED
    BY <2>1, <2>2
<1> QED
  BY <1>2, <1>3, <1>4, <1>5

LEMMA AddEnumeratedKeeps ==
  ASSUME Inv, NEW a \in todo, AddEnumerated(a)
  PROVE  Inv'
<1> USE DEF Inv, AddEnumerated, kernel, manager
<1>1. a \in Address /\ a \in DOMAIN managed
  BY DEF SystemType, IsMap
<1>2. /\ ListType' /\ Lists' /\ mirrorReady' = mirrorReady
      /\ DOMAIN map' \subseteq DOMAIN map \cup {a}
  BY <1>1, AddKeeps
<1>3. SystemType' /\ Control'
  BY <1>2 DEF SystemType, Control
<1> QED
  BY <1>1, <1>2, <1>3

LEMMA RunLoopKeeps == Inv /\ RunLoop => Inv'
<1> SUFFICES ASSUME Inv, RunLoop PROVE Inv'
  OBVIOUS
<1> USE DEF Inv, RunsLoop, kernel
<1>1. ASSUME NEW a \in Address, Repeat(a) PROVE Inv'
  <2>1. a \in DOMAIN managed
    BY <1>1 DEF Repeat, SystemType
  <2>2. /\ ListType' /\ Lists' /\ mirrorReady' = mirrorReady
        /\ DOMAIN map' \subseteq DOMAIN map \cup {a}
    BY <1>1, AddKeeps DEF Repeat
  <2>3. SystemType' /\ Control'
    BY <1>1, <2>2 DEF Repeat, SystemType, Control
  <2> QED
    BY <1>1, <2>1, <2>2, <2>3 DEF Repeat
<1>2. ASSUME NEW a \in Address, DeviceRemoved(a) PROVE Inv'
  <2>1. /\ ListType' /\ Lists' /\ mirrorReady' = mirrorReady
        /\ DOMAIN map' = DOMAIN map \ {a}
    BY <1>2, RemoveKeeps DEF DeviceRemoved
  <2>2. IsMap(managed', Address, used') /\ DOMAIN managed' = DOMAIN managed \ {a}
    BY <1>2 DEF DeviceRemoved, SystemType, Drop, Restrict, IsMap
  <2>3. Control' /\ todo = {}
    BY <1>2, <2>1 DEF DeviceRemoved, Control
  <2>4. SystemType'
    BY <1>2, <2>2, <2>3 DEF DeviceRemoved, SystemType
  <2> QED
    BY <2>1, <2>2, <2>3, <2>4
<1>3. ASSUME NEW a \in Address, Input(a) PROVE Inv'
  <2> USE <1>3 DEF Input, mirrorVars
  <2>1. uncommitted' \subseteq DOMAIN devices /\ DOMAIN devices \subseteq Ids
    BY DEF Lists, ListType, IsMap
  <2>2. ListType'
    BY <2>1 DEF ListType, MirrorType, Ids
  <2>3. Lists'
    BY <2>1 DEF Lists
  <2> QED
    BY <2>2, <2>3 DEF SystemType, Control
<1>4. ASSUME NEW s \in Service, DeviceMatches(s) PROVE Inv'
  <2>1. PICK a \in Address \ (DOMAIN managed \cup Retained) :
           managed' = Put(managed, a, s) /\ AddDevice(a, s)
    BY <1>4 DEF DeviceMatches
  <2>2. /\ ListType' /\ Lists' /\ mirrorReady' = mirrorReady
        /\ DOMAIN map' \subseteq DOMAIN map \cup {a}
    BY <1>4, <2>1, AddKeeps DEF DeviceMatches
  <2>3. IsMap(managed', Address, used') /\ DOMAIN managed' = DOMAIN managed \cup {a}
    BY <1>4, <2>1 DEF DeviceMatches, SystemType, Put, IsMap
  <2>4. SystemType' /\ Control'
    BY <1>4, <2>2, <2>3 DEF DeviceMatches, SystemType, Control
  <2> QED
    BY <2>2, <2>3, <2>4
<1> QED
  BY <1>1, <1>2, <1>3, <1>4 DEF RunLoop

LEMMA ClientKeeps == Inv /\ Client => Inv'
<1> SUFFICES ASSUME Inv, Client PROVE Inv'
  OBVIOUS
<1> USE DEF Inv, kernel, manager, library, mirrorVars
<1>1. CASE CreateContext
  <2> USE <1>1 DEF CreateContext, ListDevices
  <2>1. DOMAIN mirror' = DOMAIN devices /\ mirrorReady'
        /\ IsMap(mirror', Ids, {"named", "nameless"})
    BY DEF ListType, IsMap
  <2>2. ListType'
    <3>1. mirrorReady' \in BOOLEAN
      OBVIOUS
    <3> QED
      BY <2>1, <3>1 DEF ListType, MirrorType, Ids
  <2>3. Lists'
    BY <2>1 DEF Lists
  <2>4. SystemType' /\ Control'
    BY <2>1 DEF SystemType, Control
  <2> QED
    BY <2>2, <2>3, <2>4
<1>2. CASE DrainEvents
  <2> USE <1>2 DEF DrainEvents
  <2>1. ListType' /\ Lists'
    BY DEF ListType, MirrorType, Ids, Lists
  <2> QED
    BY <2>1 DEF SystemType, Control
<1>3. CASE Destroy
  <2> USE <1>3 DEF Destroy
  <2>1. /\ IsMap(devices', Ids, Device) /\ IsMap(callback', Address, Ids)
        /\ IsMap(map', Address, Ids) /\ IsMap(managed', Address, used)
        /\ DOMAIN devices' = {} /\ DOMAIN map' = {} /\ DOMAIN managed' = {}
    BY EmptyMapType
  <2>2. ListType'
    BY <2>1 DEF ListType, MirrorType, Ids
  <2>3. Lists'
    BY <2>1 DEF Lists
  <2>4. SystemType' /\ Control'
    BY <2>1 DEF SystemType, Control
  <2> QED
    BY <2>1, <2>2, <2>3, <2>4
<1> QED
  BY <1>1, <1>2, <1>3 DEF Client

LEMMA Invariant == Spec => []Inv
<1>1. Inv /\ [Next]_vars => Inv'
  <2> SUFFICES ASSUME Inv, [Next]_vars PROVE Inv'
    OBVIOUS
  <2>1. CASE \E a \in todo : AddEnumerated(a)
    BY <2>1, AddEnumeratedKeeps
  <2>2. CASE UNCHANGED vars
    <3> USE <2>2 DEF vars, kernel, manager, library, mirrorVars
    <3>1. ListType' /\ Lists'
      BY Untouched DEF Inv
    <3> QED
      BY <3>1 DEF Inv, SystemType, Control
  <2> QED
    BY <2>1, <2>2, KernelKeeps, ConnectKeeps, RunLoopKeeps, ClientKeeps
    DEF Next, Enumerate
<1> QED
  BY InitInv, <1>1, PTL DEF Spec

-----------------------------------------------------------------------------
(* Every variable of the source, its manager and the client has its type,   *)
(* for any number of devices and addresses.                                 *)
THEOREM TypeCorrect == Spec => []TypeOK
BY Invariant, InvOneList, PTL

(* The context, the client, the map of the source and the input callbacks   *)
(* always hold the same devices, each at the address of its own handle.     *)
THEOREM OneListCorrect == Spec => []OneList
BY Invariant, InvOneList, PTL

-----------------------------------------------------------------------------
(* What the devices are, once nothing is left to call back for.             *)

(* A device of the map is what its address stands for in the manager; and   *)
(* one that is attached, has a name and is not to be called back for any    *)
(* more is in the map.                                                      *)
Faithful ==
  \A a \in DOMAIN map :
     managed[a] \notin Nameless /\ devices[map[a]].usable = (managed[a] \notin Axisless)

Served ==
  source = "running" /\ pc \in {"list", "idle"} =>
    \A a \in DOMAIN managed \ repeats : managed[a] \in present \ Nameless => a \in DOMAIN map

Settles == Faithful /\ Served

LEMMA InvSettledAgrees == Inv /\ Settles => SettledAgrees
<1> SUFFICES ASSUME Inv, Settles, Settled
             PROVE  /\ {managed[devices[i].handle] : i \in DOMAIN devices}
                          = present \ Nameless
                    /\ \A i \in DOMAIN devices :
                          devices[i].usable = (managed[devices[i].handle] \notin Axisless)
  BY DEF SettledAgrees
<1> USE DEF Inv, Settles, Settled, RunsLoop
<1>1. \A i \in DOMAIN devices :
         /\ devices[i].handle \in DOMAIN map
         /\ map[devices[i].handle] = i
         /\ devices[i].handle \in DOMAIN managed
  BY DEF Lists
<1>2. \A a \in DOMAIN managed : managed[a] \in present
  BY DEF Range
<1>3. ASSUME NEW s \in present \ Nameless
      PROVE  \E i \in DOMAIN devices : s = managed[devices[i].handle]
  <2>1. PICK a \in DOMAIN managed : s = managed[a]
    BY DEF Range
  <2>2. a \in DOMAIN map
    BY <2>1 DEF Served
  <2> QED
    BY <2>1, <2>2 DEF Lists
<1>4. \A i \in DOMAIN devices :
         /\ managed[devices[i].handle] \in present \ Nameless
         /\ devices[i].usable = (managed[devices[i].handle] \notin Axisless)
  BY <1>1, <1>2 DEF Faithful
<1> QED
  BY <1>3, <1>4

LEMMA InitSettles == Init => Settles
BY EmptyMapType DEF Init, Settles, Faithful, Served

(* add_device for an address, old or new, of the manager.                   *)
LEMMA AddSettles ==
  ASSUME Inv, Settles, NEW a \in Address, NEW s, AddDevice(a, s),
         pc # "destroyed", pc' # "destroyed",
         present' = present, source' = source,
         DOMAIN managed' = DOMAIN managed \cup {a}, managed'[a] = s,
         \A x \in DOMAIN managed : managed'[x] = managed[x],
         repeats \ {a} \subseteq repeats',
         source = "running" => pc = "idle"
  PROVE  Settles'
<1> USE DEF Inv, Settles
<1>1. /\ DOMAIN map' \subseteq DOMAIN map \cup {a}
      /\ \A x \in DOMAIN map :
            /\ x \in DOMAIN map'
            /\ devices'[map'[x]].usable = devices[map[x]].usable
      /\ a \in DOMAIN map' \ DOMAIN map =>
            s \notin Nameless /\ devices'[map'[a]].usable = (s \notin Axisless)
      /\ s \in present \ Nameless => a \in DOMAIN map'
  BY AddKeeps
<1>2. Faithful'
  BY <1>1 DEF Faithful
<1>3. Served'
  BY <1>1 DEF Served
<1> QED
  BY <1>2, <1>3

LEMMA StepSettles == Inv /\ Settles /\ [Next]_vars => Settles'
<1> SUFFICES ASSUME Inv, Settles, [Next]_vars PROVE Settles'
  OBVIOUS
<1> USE DEF Inv, Settles
<1>1. CASE Kernel
  <2>1. UNCHANGED <<library, source, pc, managed, repeats>>
    BY <1>1 DEF Kernel, Attach, Detach, Press, manager
  <2>2. \A x \in DOMAIN managed : managed[x] \in present' => managed[x] \in present
    BY <1>1 DEF Kernel, Attach, Detach, Press, SystemType, IsMap
  <2> QED
    BY <2>1, <2>2 DEF Faithful, Served, library
<1>2. CASE Connect \/ Fails
  BY <1>2 DEF Connect, Fails, library, Control, Faithful, Served, SystemType
<1>3. CASE EnumDevices \/ Schedule
  BY <1>3 DEF EnumDevices, Schedule, library, manager, Faithful, Served
<1>4. ASSUME NEW a \in todo, AddEnumerated(a) PROVE Settles'
  <2>1. a \in Address /\ a \in DOMAIN managed
    BY DEF SystemType, IsMap
  <2>2. source = "running" => pc = "idle"
    BY <1>4 DEF AddEnumerated, Control, SystemType
  <2> QED
    BY <1>4, <2>1, <2>2, AddSettles DEF AddEnumerated, kernel, manager
<1>5. ASSUME NEW a \in Address, Repeat(a) PROVE Settles'
  <2>1. a \in DOMAIN managed
    BY <1>5 DEF Repeat, SystemType
  <2> QED
    BY <1>5, <2>1, AddSettles DEF Repeat, RunsLoop, kernel
<1>6. ASSUME NEW s \in Service, DeviceMatches(s) PROVE Settles'
  <2>1. PICK a \in Address \ (DOMAIN managed \cup Retained) :
           managed' = Put(managed, a, s) /\ AddDevice(a, s)
    BY <1>6 DEF DeviceMatches
  <2>2. /\ DOMAIN managed' = DOMAIN managed \cup {a} /\ managed'[a] = s
        /\ \A x \in DOMAIN managed : managed'[x] = managed[x]
    BY <2>1 DEF Put
  <2> QED
    BY <1>6, <2>1, <2>2, AddSettles DEF DeviceMatches, RunsLoop, kernel
<1>7. ASSUME NEW a \in Address, DeviceRemoved(a) PROVE Settles'
  <2>1. /\ DOMAIN map' = DOMAIN map \ {a}
        /\ \A x \in DOMAIN map' : devices'[map'[x]].usable = devices[map[x]].usable
    BY <1>7, RemoveKeeps DEF DeviceRemoved, RunsLoop
  <2>2. /\ DOMAIN managed' = DOMAIN managed \ {a}
        /\ \A x \in DOMAIN managed' : managed'[x] = managed[x]
    BY <1>7 DEF DeviceRemoved, Drop, Restrict
  <2>3. UNCHANGED <<present, repeats, source, pc>>
    BY <1>7 DEF DeviceRemoved, kernel
  <2> QED
    BY <2>1, <2>2, <2>3 DEF Faithful, Served
<1>8. ASSUME NEW a \in Address, Input(a) PROVE Settles'
  BY <1>8 DEF Input, kernel, Faithful, Served
<1>9. CASE CreateContext \/ DrainEvents
  BY <1>9 DEF CreateContext, DrainEvents, kernel, manager, library, Faithful, Served
<1>10. CASE Destroy
  BY <1>10, EmptyMapType DEF Destroy, Faithful, Served
<1>11. CASE UNCHANGED vars
  BY <1>11 DEF vars, kernel, manager, library, Faithful, Served
<1> QED
  BY <1>1, <1>2, <1>3, <1>4, <1>5, <1>6, <1>7, <1>8, <1>9, <1>10, <1>11
  DEF Next, Enumerate, RunLoop, Client

(* When nothing is left to call back for, the devices of the context are    *)
(* those attached that have a name, and are usable when they have axes,     *)
(* although the run loop repeats what the enumeration found, and addresses  *)
(* of objects are used again.                                               *)
THEOREM SettledCorrect == Spec => []SettledAgrees
<1>1. Inv /\ Settles /\ [Next]_vars => Settles'
  BY StepSettles
<1> QED
  BY InitSettles, <1>1, Invariant, InvSettledAgrees, PTL DEF Spec

-----------------------------------------------------------------------------
(* What the client hears of is what DeviceLifecycle allows.                 *)

LEMMA CreateAnnounces ==
  ASSUME Inv, NEW a, NEW s, Create(a, s)
  PROVE  Lifecycle!Announce
<1>1. /\ DOMAIN told' = DOMAIN told \cup {nextId} /\ told'[nextId] = "created"
      /\ \A i \in DOMAIN told : i # nextId => told'[i] = told[i]
  BY DEF Create, Put
<1>2. \A i \in DOMAIN told : i < nextId
  BY DEF Inv, ListType, IsMap, Ids
<1> QED
  BY <1>1, <1>2 DEF Lifecycle!Announce, Lifecycle!Fresh, Inv, ListType

LEMMA AddAnnounces ==
  ASSUME Inv, NEW a, NEW s, AddDevice(a, s)
  PROVE  [Lifecycle!Announce]_told
BY CreateAnnounces DEF AddDevice, library

LEMMA RemoveAnnounces ==
  ASSUME Inv, NEW a, pc # "destroyed", RemoveDevice(a)
  PROVE  Lifecycle!Announce
<1>1. /\ DOMAIN told' = DOMAIN told
      /\ \A i \in DOMAIN told : told'[i] = IF i \in Gone(a) THEN "removed" ELSE told[i]
  BY DEF RemoveDevice
<1>2. \A i \in Gone(a) : told[i] = "created"
  BY DEF Inv, Lists, Gone
<1> QED
  BY <1>1, <1>2 DEF Lifecycle!Announce, Lifecycle!Fresh

LEMMA StepAnnounces == Inv /\ [Next]_vars => [Lifecycle!Announce]_told
<1> SUFFICES ASSUME Inv, [Next]_vars PROVE [Lifecycle!Announce]_told
  OBVIOUS
<1>1. ASSUME NEW a, AddEnumerated(a) \/ Repeat(a)
      PROVE  [Lifecycle!Announce]_told
  BY <1>1, AddAnnounces DEF AddEnumerated, Repeat
<1>2. ASSUME NEW s, DeviceMatches(s)
      PROVE  [Lifecycle!Announce]_told
  BY <1>2, AddAnnounces DEF DeviceMatches
<1>3. ASSUME NEW a, DeviceRemoved(a)
      PROVE  [Lifecycle!Announce]_told
  BY <1>3, RemoveAnnounces DEF DeviceRemoved, RunsLoop
<1>4. ASSUME NEW a, Input(a)
      PROVE  told' = told
  BY <1>4 DEF Input
<1>5. CASE Kernel \/ Client \/ Connect \/ Fails \/ EnumDevices \/ Schedule
  BY <1>5 DEF Kernel, Attach, Detach, Press, Client, CreateContext, DrainEvents, Destroy,
              Connect, Fails, EnumDevices, Schedule, library
<1> QED
  BY <1>1, <1>2, <1>3, <1>4, <1>5 DEF Next, Enumerate, RunLoop, vars, library

(* The source implements the life cycle of DeviceLifecycle: ids are told    *)
(* in increasing order, and each is created once and removed at most once.  *)
THEOREM ImplementsLifecycle == Spec => RefinesLifecycle
<1>1. Init => Lifecycle!Init
  BY EmptyMapType DEF Init, Lifecycle!Init
<1> QED
  BY <1>1, Invariant, StepAnnounces, PTL DEF Spec, RefinesLifecycle, Lifecycle!Spec
=============================================================================
