-------------------------- MODULE Xi2Source_proofs --------------------------
(***************************************************************************)
(* Proofs about Xi2Source, for any numbers of devices and any bounds: the  *)
(* types, that context, client, events and map have one list of devices,   *)
(* that the source implements the life cycle of DeviceLifecycle, that      *)
(* input goes to no older device of its number, and that the list is of    *)
(* the devices attached once no event is left.                             *)
(***************************************************************************)
EXTENDS Xi2Source, TLAPS

(* What the operations on maps and on the client's dictionary return.       *)
LEMMA EmptyMapType ==
  ASSUME NEW S, NEW T
  PROVE  IsMap(EmptyMap, S, T) /\ DOMAIN EmptyMap = {}
BY DEF EmptyMap, IsMap

Entry == {"named", "nameless"}

LEMMA NotifiedMirror ==
  ASSUME NEW m, NEW S, IsMap(m, S, Entry), NEW ids, ids \subseteq S, NEW known
  PROVE  /\ IsMap(Notified(m, ids, known), S, Entry)
         /\ mirrorReady => DOMAIN Notified(m, ids, known) = DOMAIN m \cup ids
<1>1. /\ DOMAIN GetDevice(m, ids, known) = DOMAIN m \cup ids
      /\ IsMap(GetDevice(m, ids, known), S, Entry)
  BY DEF GetDevice, IsMap, Entry
<1> QED
  BY <1>1 DEF Notified

(* The events that wait, as a sequence.                                     *)
Event == [type : {"hierarchy"}, infos : SUBSET Change] \cup RawEvent \cup OtherEvent

(* The types of the server, of what add_device and remove_device change,    *)
(* and of the rest.                                                         *)
ServerType ==
  /\ attached \subseteq Number /\ gen \in [Number -> Nat]
  /\ enabled \subseteq attached /\ node \subseteq attached
  /\ namesUse \in BOOLEAN /\ toggles \in Nat /\ presses \in Nat
  /\ events \in Seq(Event)

ListType ==
  /\ nextId \in Nat \ {0}
  /\ IsMap(devices, Ids, Device) /\ IsMap(told, Ids, {"created", "removed"})
  /\ uncommitted \subseteq Ids
  /\ IsMap(map, Number \ Xtest, Ids)
  /\ MirrorType(Ids)

CallType ==
  /\ source \in {"enumerating", "running", "dropped"}
  /\ pc \in {"connect", "enum", "infos", "add", "list", "idle", "drain"}
  /\ todo \subseteq IF source = "running" THEN Change ELSE DeviceInfo
  /\ current \in DeviceInfo \cup {NoInfo}

(* OneList without its last condition.                                      *)
Announced ==
  /\ DOMAIN devices = {i \in DOMAIN told : told[i] = "created"}
  /\ mirrorReady => DOMAIN mirror = DOMAIN devices
  /\ uncommitted \subseteq DOMAIN devices
  /\ \A n \in DOMAIN map : map[n] \in DOMAIN devices /\ devices[map[n]].num = n

Mapped ==
  source # "dropped" =>
    \A i \in DOMAIN devices :
       devices[i].num \in DOMAIN map /\ map[devices[i].num] = i

(* Which calls are possible while the source is what it is; one that was    *)
(* dropped has no map and no events any more.                               *)
Control ==
  /\ pc \in {"connect", "enum", "infos"} => source = "enumerating"
  /\ pc = "connect" => events = <<>> /\ DOMAIN map = {}
  /\ pc = "add" => source = "running" /\ current \in DeviceInfo
  /\ pc \in {"list", "idle", "drain"} => source # "enumerating"
  /\ pc \notin {"infos", "add", "drain"} => todo = {}
  /\ source = "dropped" => events = <<>> /\ todo = {} /\ DOMAIN map = {}

Inv == ServerType /\ ListType /\ CallType /\ Announced /\ Mapped /\ Control

LEMMA InvOneList == Inv => TypeOK /\ OneList
<1> SUFFICES ASSUME Inv PROVE TypeOK /\ OneList
  OBVIOUS
<1> USE DEF Inv
<1>1. \A k \in DOMAIN events : IsEvent(events[k])
  <2>1. \A k \in DOMAIN events : events[k] \in Event
    BY DEF ServerType
  <2> QED
    BY <2>1 DEF Event, IsEvent, Hierarchy
<1> QED
  BY <1>1 DEF ServerType, ListType, CallType, TypeOK, OneList, Announced, Mapped

LEMMA InitInv == Init => Inv
<1> SUFFICES ASSUME Init PROVE Inv
  OBVIOUS
<1> USE DEF Init, MirrorInit
<1>1. ListType
  <2>1. /\ IsMap(devices, Ids, Device) /\ IsMap(told, Ids, {"created", "removed"})
        /\ IsMap(map, Number \ Xtest, Ids)
        /\ IsMap(mirror, Ids, {"named", "nameless"})
    BY EmptyMapType DEF Ids
  <2>2. nextId = 1 /\ uncommitted = {} /\ mirrorReady = FALSE
    OBVIOUS
  <2>3. nextId \in Nat \ {0}
    BY ONLY <2>2
  <2> HIDE DEF Init, MirrorInit
  <2> QED
    BY <2>1, <2>2, <2>3, Zenon DEF ListType, MirrorType
<1>2. ServerType
  BY DEF ServerType
<1>3. CallType
  BY DEF CallType
<1>4. Announced /\ Mapped /\ Control
  BY EmptyMapType DEF Announced, Mapped, Control
<1> QED
  BY <1>1, <1>2, <1>3, <1>4 DEF Inv

-----------------------------------------------------------------------------
(* add_device and remove_device.                                            *)

(* A step that leaves context, map and mirror alone keeps the lists.        *)
LEMMA SameLists ==
  ASSUME ListType, Announced, UNCHANGED <<context, map, mirrorVars>>
  PROVE  ListType' /\ Announced' /\ told' = told
BY DEF ListType, Announced, context, mirrorVars, MirrorType, IsMap, Ids

LEMMA Untouched ==
  ASSUME ListType, Announced, Mapped, UNCHANGED <<context, map, source, mirrorVars>>
  PROVE  ListType' /\ Announced' /\ Mapped' /\ told' = told
BY SameLists DEF Mapped, context

(* What taking the device of number n out of every list returns.            *)
LEMMA DropDevice ==
  ASSUME ListType, Announced, NEW n
  PROVE  /\ IsMap(Drop(devices, Gone(n)), Ids, Device)
         /\ DOMAIN Drop(devices, Gone(n)) = DOMAIN devices \ Gone(n)
         /\ \A i \in DOMAIN devices \ Gone(n) : Drop(devices, Gone(n))[i] = devices[i]
         /\ IsMap(TellRemoved(Gone(n)), Ids, {"created", "removed"})
         /\ DOMAIN TellRemoved(Gone(n)) = DOMAIN told
         /\ \A i \in DOMAIN told :
               TellRemoved(Gone(n))[i] = IF i \in Gone(n) THEN "removed" ELSE told[i]
         /\ IsMap(Drop(map, {n}), Number \ Xtest, Ids)
         /\ DOMAIN Drop(map, {n}) = DOMAIN map \ {n}
         /\ \A x \in DOMAIN map \ {n} : Drop(map, {n})[x] = map[x]
         /\ IsMap(Removed(mirror, Gone(n)), Ids, Entry)
         /\ mirrorReady => DOMAIN Removed(mirror, Gone(n)) = DOMAIN mirror \ Gone(n)
         /\ Gone(n) \subseteq DOMAIN devices
         /\ \A i \in Gone(n) : i \in DOMAIN told /\ told[i] = "created"
<1>1. /\ IsMap(Drop(devices, Gone(n)), Ids, Device)
      /\ DOMAIN Drop(devices, Gone(n)) = DOMAIN devices \ Gone(n)
      /\ \A i \in DOMAIN devices \ Gone(n) : Drop(devices, Gone(n))[i] = devices[i]
  BY DEF ListType, Drop, Restrict, IsMap
<1>2. /\ IsMap(TellRemoved(Gone(n)), Ids, {"created", "removed"})
      /\ DOMAIN TellRemoved(Gone(n)) = DOMAIN told
      /\ \A i \in DOMAIN told :
            TellRemoved(Gone(n))[i] = IF i \in Gone(n) THEN "removed" ELSE told[i]
  BY DEF ListType, TellRemoved, IsMap
<1>3. /\ IsMap(Drop(map, {n}), Number \ Xtest, Ids)
      /\ DOMAIN Drop(map, {n}) = DOMAIN map \ {n}
      /\ \A x \in DOMAIN map \ {n} : Drop(map, {n})[x] = map[x]
  BY DEF ListType, Drop, Restrict, IsMap
<1>4. /\ IsMap(Removed(mirror, Gone(n)), Ids, Entry)
      /\ mirrorReady => DOMAIN Removed(mirror, Gone(n)) = DOMAIN mirror \ Gone(n)
  BY DEF ListType, MirrorType, Removed, Drop, Restrict, IsMap, Entry
<1>5. /\ Gone(n) \subseteq DOMAIN devices
      /\ \A i \in Gone(n) : i \in DOMAIN told /\ told[i] = "created"
  BY DEF Announced, Gone
<1> QED
  BY <1>1, <1>2, <1>3, <1>4, <1>5

(* An info add_device is called for.                                        *)
LEMMA OfferedInfo ==
  ASSUME Inv, NEW info \in Offered
  PROVE  /\ info \in DeviceInfo /\ info.num \in Number /\ info.gen \in Nat
         /\ info.finally \in BOOLEAN
         /\ pc \in {"infos", "add"} /\ source # "dropped"
BY DEF Inv, Offered, CallType, Control, DeviceInfo

LEMMA AddKeeps ==
  ASSUME Inv, NEW info \in Offered, AddDevice(info)
  PROVE  Inv' /\ Lifecycle!Announce
<1> USE DEF Inv
<1> DEFINE n == info.num
           G == Gone(n)
           d == [num |-> n, gen |-> info.gen, usable |-> UsableAfter(info)]
<1>a. n \in Number \ Xtest /\ d \in Device /\ pc \in {"infos", "add"} /\ source # "dropped"
  BY OfferedInfo DEF AddDevice, Interesting, Device, UsableAfter
<1>b. /\ nextId \in Nat \ {0} /\ nextId' = nextId + 1
      /\ Ids \subseteq Ids' /\ nextId \in Ids' /\ nextId \notin Ids
  BY DEF ListType, AddDevice, NextId, Ids
<1>c. mirrorReady' = mirrorReady /\ uncommitted' = uncommitted \ G /\ source' = source
  BY DEF AddDevice
<1>d. /\ devices' = Put(Drop(devices, G), nextId, d)
      /\ told' = Put(TellRemoved(G), nextId, "created")
      /\ map' = Put(map, n, nextId)
  BY DEF AddDevice, TellCreated
<1>m. \E announced :
        /\ announced \in {Removed(mirror, G), Notified(Removed(mirror, G), {nextId}, FALSE)}
        /\ mirror' = Notified(announced, {nextId}, TRUE)
  BY DEF AddDevice
<1> HIDE DEF d
<1>1. /\ IsMap(devices', Ids', Device)
      /\ DOMAIN devices' = (DOMAIN devices \ G) \cup {nextId}
      /\ devices'[nextId] = d
      /\ \A i \in DOMAIN devices \ G : devices'[i] = devices[i]
  <2>1. /\ IsMap(Drop(devices, G), Ids, Device)
        /\ DOMAIN Drop(devices, G) = DOMAIN devices \ G
        /\ \A i \in DOMAIN devices \ G : Drop(devices, G)[i] = devices[i]
    BY DropDevice
  <2> DEFINE f == Drop(devices, G)
  <2> HIDE DEF f, n, G
  <2>2. IsMap(f, Ids, Device) /\ devices' = Put(f, nextId, d)
    BY <2>1, <1>d DEF f
  <2>3. /\ IsMap(devices', Ids', Device) /\ DOMAIN devices' = DOMAIN f \cup {nextId}
        /\ devices'[nextId] = d
        /\ \A i \in DOMAIN f : devices'[i] = f[i]
    BY <2>2, <1>a, <1>b DEF Put, IsMap
  <2> QED
    BY <2>1, <2>3 DEF f
<1>2. /\ IsMap(told', Ids', {"created", "removed"})
      /\ DOMAIN told' = DOMAIN told \cup {nextId}
      /\ told'[nextId] = "created"
      /\ \A i \in DOMAIN told : told'[i] = IF i \in G THEN "removed" ELSE told[i]
  <2>1. /\ IsMap(TellRemoved(G), Ids, {"created", "removed"})
        /\ DOMAIN TellRemoved(G) = DOMAIN told
        /\ \A i \in DOMAIN told : TellRemoved(G)[i] = IF i \in G THEN "removed" ELSE told[i]
    BY DropDevice
  <2> DEFINE f == TellRemoved(G)
  <2> HIDE DEF f, n, G
  <2>2. IsMap(f, Ids, {"created", "removed"}) /\ told' = Put(f, nextId, "created")
    BY <2>1, <1>d DEF f
  <2>3. /\ IsMap(told', Ids', {"created", "removed"}) /\ DOMAIN told' = DOMAIN f \cup {nextId}
        /\ told'[nextId] = "created"
        /\ \A i \in DOMAIN f : told'[i] = f[i]
    BY <2>2, <1>b DEF Put, IsMap
  <2> QED
    BY <2>1, <2>3 DEF f
<1>3. /\ IsMap(map', Number \ Xtest, Ids')
      /\ DOMAIN map' = DOMAIN map \cup {n}
      /\ map'[n] = nextId
      /\ \A x \in DOMAIN map \ {n} : map'[x] = map[x]
  <2> HIDE DEF n, G
  <2>1. IsMap(map, Number \ Xtest, Ids)
    BY DEF ListType
  <2> QED
    BY <2>1, <1>a, <1>b, <1>d DEF Put, IsMap
<1>4. /\ IsMap(mirror', Ids', Entry)
      /\ mirrorReady => DOMAIN mirror' = (DOMAIN mirror \ G) \cup {nextId}
  <2> DEFINE I == Ids'
             r == Removed(mirror, G)
  <2>1. IsMap(r, Ids, Entry) /\ mirrorReady => DOMAIN r = DOMAIN mirror \ G
    BY DropDevice
  <2>2. IsMap(r, I, Entry) /\ {nextId} \subseteq I
    <3>1. IsMap(r, Ids, Entry)
      BY DropDevice
    <3> HIDE DEF r
    <3> QED
      BY <3>1, <1>b DEF IsMap
  <2> HIDE DEF I, r, n, G
  <2>3. \A known : /\ IsMap(Notified(r, {nextId}, known), I, Entry)
                   /\ mirrorReady => DOMAIN Notified(r, {nextId}, known)
                                       = DOMAIN r \cup {nextId}
    BY ONLY <2>2, NotifiedMirror
  <2>4. PICK announced : /\ announced \in {r, Notified(r, {nextId}, FALSE)}
                         /\ mirror' = Notified(announced, {nextId}, TRUE)
    BY <1>m DEF r
  <2>5. /\ IsMap(announced, I, Entry)
        /\ mirrorReady => DOMAIN announced \subseteq DOMAIN r \cup {nextId}
                          /\ DOMAIN r \subseteq DOMAIN announced
    BY <2>2, <2>3, <2>4
  <2>6. \A known : /\ IsMap(Notified(announced, {nextId}, known), I, Entry)
                   /\ mirrorReady => DOMAIN Notified(announced, {nextId}, known)
                                       = DOMAIN announced \cup {nextId}
    <3>1. IsMap(announced, I, Entry) /\ {nextId} \subseteq I
      BY <2>2, <2>5
    <3> QED
      BY ONLY <3>1, NotifiedMirror
  <2>7. IsMap(mirror', I, Entry)
    BY <2>4, <2>6, Zenon
  <2>8. mirrorReady => DOMAIN mirror' = DOMAIN announced \cup {nextId}
    BY <2>4, <2>6, Zenon
  <2>9. mirrorReady => DOMAIN r = DOMAIN mirror \ G
    BY DropDevice DEF r, G
  <2>10. mirrorReady => DOMAIN mirror' = (DOMAIN mirror \ G) \cup {nextId}
    BY <2>5, <2>8, <2>9
  <2> QED
    BY <2>7, <2>10, Zenon DEF I
<1>5. /\ G \subseteq DOMAIN devices
      /\ \A i \in G : i \in DOMAIN told /\ told[i] = "created"
      /\ \A x \in DOMAIN map : x # n => map[x] \notin G
      /\ n \in DOMAIN map => map[n] \in G
      /\ DOMAIN devices \subseteq Ids /\ DOMAIN told \subseteq Ids
  <2>1. \A x \in DOMAIN map : x # n => map[x] \notin G
    BY DEF Gone, Announced
  <2> QED
    BY <2>1, DropDevice DEF Gone, ListType, IsMap
<1>6. ListType'
  <2> HIDE DEF n, G
  <2>0. uncommitted \subseteq Ids
    BY DEF ListType
  <2>1. uncommitted' \subseteq Ids' /\ nextId' \in Nat \ {0}
    <3>1. uncommitted' \subseteq Ids'
      BY ONLY <2>0, <1>b, <1>c
    <3>2. nextId \in Nat /\ nextId' = nextId + 1
      BY ONLY <1>b
    <3>3. nextId' \in Nat \ {0}
      BY ONLY <3>2
    <3> QED
      BY ONLY <3>1, <3>3
  <2>2. mirrorReady' \in BOOLEAN
    BY <1>c DEF ListType, MirrorType
  <2> QED
    BY <2>1, <2>2, <1>1, <1>2, <1>3, <1>4, Zenon DEF ListType, MirrorType, Entry
<1>7. Announced' /\ Mapped'
  <2> HIDE DEF G
  <2>1. DOMAIN devices' = {i \in DOMAIN told' : told'[i] = "created"}
    BY <1>b, <1>1, <1>2, <1>5 DEF Announced
  <2>2. mirrorReady' => DOMAIN mirror' = DOMAIN devices'
    BY <1>1, <1>c, <1>4 DEF Announced
  <2>3. d.num = n
    BY DEF d
  <2>4. \A x \in DOMAIN map' : map'[x] \in DOMAIN devices' /\ devices'[map'[x]].num = x
    BY <2>3, <1>1, <1>3, <1>5 DEF Announced
  <2>5. Mapped'
    BY <2>3, <1>1, <1>3, <1>5, <1>a, <1>c DEF Mapped, Announced
  <2> QED
    BY <2>1, <2>2, <2>4, <2>5, <1>1, <1>c DEF Announced
<1>8. ServerType' /\ CallType' /\ Control'
  BY <1>a DEF ServerType, CallType, Control, AddDevice, Return, server
<1>9. Lifecycle!Announce
  <2> HIDE DEF G
  <2> QED
    BY <1>b, <1>2, <1>5 DEF Lifecycle!Announce, Lifecycle!Fresh, Ids
<1> QED
  BY <1>6, <1>7, <1>8, <1>9

LEMMA AddThrowsKeeps ==
  ASSUME Inv, NEW info \in Offered, AddThrows(info)
  PROVE  Inv' /\ Lifecycle!Announce
<1> USE DEF Inv
<1> DEFINE n == info.num
           G == Gone(n)
<1>a. /\ nextId \in Nat \ {0} /\ nextId' = nextId + 1 /\ Ids \subseteq Ids'
      /\ mirrorReady' = mirrorReady /\ uncommitted' = uncommitted \ G
      /\ source # "dropped"
  BY OfferedInfo DEF ListType, AddThrows, NextId, Ids
<1>1. /\ IsMap(devices', Ids, Device)
      /\ DOMAIN devices' = DOMAIN devices \ G
      /\ \A i \in DOMAIN devices \ G : devices'[i] = devices[i]
  BY DropDevice DEF AddThrows
<1>2. /\ IsMap(told', Ids, {"created", "removed"})
      /\ DOMAIN told' = DOMAIN told
      /\ \A i \in DOMAIN told : told'[i] = IF i \in G THEN "removed" ELSE told[i]
  BY DropDevice DEF AddThrows
<1>3. /\ IsMap(map', Number \ Xtest, Ids)
      /\ \A x \in DOMAIN map' : x \in DOMAIN map \ {n} /\ map'[x] = map[x]
      /\ source' # "dropped" => DOMAIN map' = DOMAIN map \ {n}
      /\ source' = "dropped" => DOMAIN map' = {}
  <2>1. CASE source = "enumerating"
    BY <2>1, EmptyMapType DEF AddThrows
  <2>2. CASE source # "enumerating"
    BY <2>2, <1>a, DropDevice DEF AddThrows
  <2> QED
    BY <2>1, <2>2
<1>4. /\ IsMap(mirror', Ids, Entry)
      /\ mirrorReady => DOMAIN mirror' = DOMAIN mirror \ G
  BY DropDevice DEF AddThrows
<1>5. /\ G \subseteq DOMAIN devices
      /\ \A i \in G : i \in DOMAIN told /\ told[i] = "created"
      /\ \A x \in DOMAIN map : x # n => map[x] \notin G
      /\ n \in DOMAIN map => map[n] \in G
  <2>1. \A x \in DOMAIN map : x # n => map[x] \notin G
    BY DEF Gone, Announced
  <2> QED
    BY <2>1, DropDevice DEF Gone
<1>6. ListType'
  <2> HIDE DEF n, G
  <2>1. uncommitted' \subseteq Ids' /\ nextId' \in Nat \ {0}
    BY <1>a DEF ListType
  <2>2. mirrorReady' \in BOOLEAN
    BY <1>a DEF ListType, MirrorType
  <2>3. /\ IsMap(devices', Ids', Device) /\ IsMap(told', Ids', {"created", "removed"})
        /\ IsMap(map', Number \ Xtest, Ids') /\ IsMap(mirror', Ids', Entry)
    BY <1>a, <1>1, <1>2, <1>3, <1>4 DEF IsMap
  <2> QED
    BY <2>1, <2>2, <2>3, Zenon DEF ListType, MirrorType, Entry
<1>7. Announced' /\ Mapped'
  <2> HIDE DEF G
  <2>1. DOMAIN devices' = {i \in DOMAIN told' : told'[i] = "created"}
    BY <1>1, <1>2, <1>5 DEF Announced
  <2>2. mirrorReady' => DOMAIN mirror' = DOMAIN devices'
    BY <1>1, <1>a, <1>4 DEF Announced
  <2>3. \A x \in DOMAIN map' : map'[x] \in DOMAIN devices' /\ devices'[map'[x]].num = x
    BY <1>1, <1>3, <1>5 DEF Announced
  <2>4. Mapped'
    BY <1>1, <1>3, <1>5, <1>a DEF Mapped, Announced
  <2> QED
    BY <2>1, <2>2, <2>3, <2>4, <1>1, <1>a DEF Announced
<1>8. ServerType' /\ CallType' /\ Control'
  <2> HIDE DEF G
  <2> QED
    BY <1>3, OfferedInfo DEF ServerType, CallType, Control, AddThrows, server
<1>9. Lifecycle!Announce
  <2> HIDE DEF G
  <2> QED
    BY <1>2, <1>5 DEF Lifecycle!Announce, Lifecycle!Fresh
<1> QED
  BY <1>6, <1>7, <1>8, <1>9

LEMMA RemoveKeeps ==
  ASSUME Inv, NEW change \in todo, RemoveDevice(change)
  PROVE  Inv' /\ Lifecycle!Announce
<1> USE DEF Inv
<1> DEFINE n == change.num
           G == Gone(n)
<1>a. /\ nextId' = nextId /\ Ids' = Ids /\ source' = source
      /\ mirrorReady' = mirrorReady /\ uncommitted' = uncommitted \ G
  BY DEF RemoveDevice, Ids
<1>1. /\ IsMap(devices', Ids, Device)
      /\ DOMAIN devices' = DOMAIN devices \ G
      /\ \A i \in DOMAIN devices \ G : devices'[i] = devices[i]
  BY DropDevice DEF RemoveDevice
<1>2. /\ IsMap(told', Ids, {"created", "removed"})
      /\ DOMAIN told' = DOMAIN told
      /\ \A i \in DOMAIN told : told'[i] = IF i \in G THEN "removed" ELSE told[i]
  BY DropDevice DEF RemoveDevice
<1>3. /\ IsMap(map', Number \ Xtest, Ids)
      /\ DOMAIN map' = DOMAIN map \ {n}
      /\ \A x \in DOMAIN map' : map'[x] = map[x]
  BY DropDevice DEF RemoveDevice
<1>4. /\ IsMap(mirror', Ids, Entry)
      /\ mirrorReady => DOMAIN mirror' = DOMAIN mirror \ G
  BY DropDevice DEF RemoveDevice
<1>5. /\ G \subseteq DOMAIN devices
      /\ \A i \in G : i \in DOMAIN told /\ told[i] = "created"
      /\ \A x \in DOMAIN map : x # n => map[x] \notin G
      /\ n \in DOMAIN map => map[n] \in G
  <2>1. \A x \in DOMAIN map : x # n => map[x] \notin G
    BY DEF Gone, Announced
  <2> QED
    BY <2>1, DropDevice DEF Gone
<1>6. ListType'
  <2> HIDE DEF n, G
  <2>1. uncommitted' \subseteq Ids /\ nextId' \in Nat \ {0}
    BY <1>a DEF ListType
  <2>2. mirrorReady' \in BOOLEAN
    BY <1>a DEF ListType, MirrorType
  <2> QED
    BY <2>1, <2>2, <1>a, <1>1, <1>2, <1>3, <1>4 DEF ListType, MirrorType, Entry
<1>7. Announced' /\ Mapped'
  <2> HIDE DEF G
  <2>1. DOMAIN devices' = {i \in DOMAIN told' : told'[i] = "created"}
    BY <1>1, <1>2, <1>5 DEF Announced
  <2>2. mirrorReady' => DOMAIN mirror' = DOMAIN devices'
    BY <1>1, <1>a, <1>4 DEF Announced
  <2>3. \A x \in DOMAIN map' : map'[x] \in DOMAIN devices' /\ devices'[map'[x]].num = x
    BY <1>1, <1>3, <1>5 DEF Announced
  <2>4. Mapped'
    BY <1>1, <1>3, <1>5, <1>a DEF Mapped, Announced
  <2> QED
    BY <2>1, <2>2, <2>3, <2>4, <1>1, <1>a DEF Announced
<1>8. ServerType' /\ CallType' /\ Control'
  <2> HIDE DEF G
  <2> QED
    BY <1>3 DEF ServerType, CallType, Control, RemoveDevice, OnInfo, server
<1>9. Lifecycle!Announce
  <2> HIDE DEF G
  <2> QED
    BY <1>2, <1>5 DEF Lifecycle!Announce, Lifecycle!Fresh
<1> QED
  BY <1>6, <1>7, <1>8, <1>9

-----------------------------------------------------------------------------
(* The other steps tell the client of no device that comes or goes.         *)

LEMMA InfosType ==
  ASSUME NEW nums \in SUBSET Number, NEW on, NEW n, NEW flag \in {"none", "added", "removed"}
  PROVE  Infos(nums, on, n, flag) \subseteq Change
<1> SUFFICES ASSUME NEW m \in nums
             PROVE  [num |-> m, flag |-> IF m = n THEN flag ELSE "none",
                     enabled |-> m \in on, slave |-> TRUE] \in Change
  BY DEF Infos
<1>1. (m \in on) \in BOOLEAN
  OBVIOUS
<1>2. (IF m = n THEN flag ELSE "none") \in {"none", "added", "removed"}
  OBVIOUS
<1> QED
  BY <1>1, <1>2 DEF Change

LEMMA HierarchyType ==
  ASSUME NEW infos \in SUBSET Change
  PROVE  Hierarchy(infos) \in Event
BY DEF Hierarchy, Event

LEMMA ServerKeeps == Inv /\ Server => Inv' /\ told' = told
<1> SUFFICES ASSUME Inv, Server PROVE Inv' /\ told' = told
  OBVIOUS
<1> USE DEF Inv
<1>1. ASSUME NEW n \in Number, NEW on \in BOOLEAN, Plug(n, on) PROVE ServerType'
  <2> DEFINE one == Hierarchy(Infos(attached', enabled, n, "added"))
             two == Hierarchy(Infos(attached', enabled', n, "none"))
  <2>1. /\ attached' \subseteq Number /\ gen' \in [Number -> Nat]
        /\ enabled' \subseteq attached' /\ node' \subseteq attached'
    BY <1>1 DEF ServerType, Plug
  <2>2. one \in Event /\ two \in Event
    BY <2>1, InfosType, HierarchyType
  <2>3. events' = Sent(<<one>> \o IF on THEN <<two>> ELSE <<>>)
    BY <1>1 DEF Plug
  <2> HIDE DEF one, two
  <2>4. <<one>> \o (IF on THEN <<two>> ELSE <<>>) \in Seq(Event)
    BY <2>2
  <2>5. events' \in Seq(Event)
    BY <2>3, <2>4 DEF ServerType, Sent
  <2> QED
    BY <1>1, <2>1, <2>5 DEF ServerType, Plug
<1>2. ASSUME NEW n \in Number, Yank(n) PROVE ServerType'
  BY <1>2 DEF ServerType, Yank
<1>3. ASSUME NEW n \in Number, Detach(n) PROVE ServerType'
  <2> DEFINE forgotten == [num |-> n, flag |-> "removed", enabled |-> FALSE,
                           slave |-> namesUse]
             removal == Hierarchy(Infos(attached', enabled', n, "none") \cup {forgotten})
             off == Hierarchy(Infos(attached, enabled', n, "none"))
  <2>1. /\ attached' \subseteq Number /\ attached \subseteq Number
        /\ enabled' \subseteq attached' /\ node' \subseteq attached'
    BY <1>3 DEF ServerType, Detach
  <2>2. forgotten \in Change
    BY DEF ServerType, Change
  <2>3. removal \in Event /\ off \in Event
    BY <2>1, <2>2, InfosType, HierarchyType
  <2>4. events' = Sent(IF n \in enabled THEN <<off, removal>> ELSE <<removal>>)
    BY <1>3 DEF Detach
  <2> HIDE DEF removal, off
  <2>5. events' \in Seq(Event)
    <3>1. (IF n \in enabled THEN <<off, removal>> ELSE <<removal>>) \in Seq(Event)
      BY <2>3
    <3> QED
      BY <2>4, <3>1 DEF ServerType, Sent
  <2> QED
    BY <1>3, <2>1, <2>5 DEF ServerType, Detach
<1>4. ASSUME NEW n \in Number, Toggle(n) PROVE ServerType'
  <2> DEFINE e == Hierarchy(Infos(attached, enabled', n, "none"))
  <2>1. enabled' \subseteq attached /\ attached \subseteq Number
    BY <1>4 DEF ServerType, Toggle
  <2>2. e \in Event
    BY <2>1, InfosType, HierarchyType
  <2>3. events' = Sent(<<e>>)
    BY <1>4 DEF Toggle
  <2> HIDE DEF e
  <2>4. events' \in Seq(Event)
    BY <2>2, <2>3 DEF ServerType, Sent
  <2> QED
    BY <1>4, <2>1, <2>4 DEF ServerType, Toggle
<1>5. ASSUME NEW e \in Event, Arrive(e) PROVE ServerType'
  <2>1. events' \in Seq(Event)
    BY <1>5 DEF ServerType, Arrive, Sent
  <2> QED
    BY <1>5, <2>1 DEF ServerType, Arrive
<1>6. ASSUME NEW n \in Number, Press(n) PROVE ServerType'
  <2>1. [type |-> "raw", num |-> n, gen |-> gen[n]] \in Event
    BY DEF Event, RawEvent, ServerType
  <2> QED
    BY <1>5, <1>6, <2>1 DEF Press
<1>7. ASSUME Remap PROVE ServerType'
  <2>1. [type |-> "other"] \in Event
    BY DEF Event, OtherEvent
  <2> QED
    BY <1>5, <1>7, <2>1 DEF Remap
<1>8. ServerType'
  BY <1>1, <1>2, <1>3, <1>4, <1>6, <1>7 DEF Server
<1>9. /\ UNCHANGED <<context, source, map, pc, todo, current, mirrorVars>>
      /\ events' = events \/ (source # "dropped" /\ pc # "connect")
  BY DEF Server, Plug, Yank, Detach, Toggle, Press, Remap, Arrive, Room, Sent
<1>10. ListType' /\ Announced' /\ Mapped' /\ told' = told
  BY <1>9, Untouched
<1>11. CallType' /\ Control'
  BY <1>9 DEF CallType, Control
<1> QED
  BY <1>8, <1>10, <1>11

LEMMA ConnectKeeps ==
  ASSUME Inv, Connect \/ ConnectFails \/ EnumDevices \/ EnumDone
  PROVE  Inv' /\ told' = told
<1> USE DEF Inv, Connect, ConnectFails, EnumDevices, EnumDone, server, context, mirrorVars
<1>1. ListType' /\ Announced' /\ told' = told
  BY SameLists
<1>2. Mapped'
  BY DEF Mapped, Control
<1>3. ServerType'
  BY DEF ServerType
<1>4. CallType' /\ Control'
  <2>1. CASE Connect \/ EnumDone
    BY <2>1 DEF CallType, Control
  <2>2. CASE ConnectFails
    BY <2>2 DEF CallType, Control
  <2>3. CASE EnumDevices
    <3>1. \A n \in attached : With(Query(n), n \in enabled) \in DeviceInfo
      BY DEF With, Query, DeviceInfo, ServerType
    <3>2. todo' \subseteq DeviceInfo
      BY <2>3, <3>1
    <3> QED
      BY <2>3, <3>2 DEF CallType, Control
  <2> QED
    BY <2>1, <2>2, <2>3
<1> QED
  BY <1>1, <1>2, <1>3, <1>4

LEMMA SkipKeeps ==
  ASSUME Inv, NEW info \in Offered, SkipUninteresting(info)
  PROVE  Inv' /\ told' = told
<1> USE DEF Inv, SkipUninteresting, Return, server
<1>1. ListType' /\ Announced' /\ Mapped' /\ told' = told
  BY Untouched
<1>2. ServerType' /\ CallType' /\ Control'
  BY OfferedInfo DEF ServerType, CallType, Control
<1> QED
  BY <1>1, <1>2

LEMMA ClientKeeps == Inv /\ Client => Inv' /\ told' = told
<1> SUFFICES ASSUME Inv, Client PROVE Inv' /\ told' = told
  OBVIOUS
<1> USE DEF Inv, server, context
<1>1. CASE CreateContext
  <2> USE <1>1 DEF CreateContext, ListDevices
  <2>1. DOMAIN mirror' = DOMAIN devices /\ mirrorReady'
        /\ IsMap(mirror', Ids, {"named", "nameless"})
    BY DEF ListType, IsMap
  <2>2. ListType'
    <3>1. mirrorReady' \in BOOLEAN
      OBVIOUS
    <3> QED
      BY <2>1, <3>1 DEF ListType, MirrorType, Ids
  <2>3. Announced' /\ Mapped'
    BY <2>1 DEF Announced, Mapped
  <2>4. ServerType' /\ CallType' /\ Control'
    BY DEF ServerType, CallType, Control
  <2> QED
    BY <2>2, <2>3, <2>4
<1>2. ASSUME NEW i \in DOMAIN devices, FindFirst(i) PROVE Inv' /\ told' = told
  <2> USE <1>2 DEF FindFirst, Found
  <2>1. i \in DOMAIN mirror /\ mirrorReady
    BY DEF Announced
  <2>2. mirror' = mirror
    BY <2>1 DEF GetDevice, ListType, MirrorType, IsMap
  <2>3. ListType' /\ Announced' /\ Mapped' /\ told' = told
    BY <2>2, Untouched DEF mirrorVars
  <2> QED
    BY <2>3 DEF ServerType, CallType, Control
<1> QED
  BY <1>1, <1>2 DEF Client

LEMMA DrainKeeps ==
  ASSUME Inv, DrainEvents, \A change \in todo : ~RemoveDevice(change)
  PROVE  Inv' /\ told' = told
<1> USE DEF Inv, server, context, mirrorVars
<1>1. CASE StartDrain
  <2>1. ListType' /\ Announced' /\ Mapped' /\ told' = told
    BY <1>1, Untouched DEF StartDrain
  <2> QED
    BY <1>1, <2>1 DEF StartDrain, ServerType, CallType, Control
<1>2. CASE DeviceEvent
  <2> USE <1>2 DEF DeviceEvent, Reading
  <2>1. uncommitted' \subseteq DOMAIN devices /\ DOMAIN devices \subseteq Ids
    BY DEF Announced, Gone, ListType, IsMap
  <2>2. ListType' /\ Announced' /\ Mapped' /\ told' = told
    BY <2>1 DEF ListType, MirrorType, Ids, Announced, Mapped
  <2>3. ServerType'
    BY DEF ServerType
  <2>4. CallType' /\ Control'
    BY DEF CallType, Control
  <2> QED
    BY <2>2, <2>3, <2>4
<1>3. CASE SkipOther
  <2> USE <1>3 DEF SkipOther, Reading
  <2>1. ListType' /\ Announced' /\ Mapped' /\ told' = told
    BY Untouched
  <2>2. ServerType'
    BY DEF ServerType
  <2>3. CallType' /\ Control'
    BY DEF CallType, Control
  <2> QED
    BY <2>1, <2>2, <2>3
<1>4. CASE HierarchyEvent
  <2> USE <1>4 DEF HierarchyEvent, Reading
  <2>1. ListType' /\ Announced' /\ Mapped' /\ told' = told
    BY Untouched
  <2>2. ServerType' /\ Head(events) \in Event
    BY DEF ServerType
  <2>3. source = "running" /\ todo' \subseteq Change
    BY <2>2 DEF Control, CallType, Event, RawEvent, OtherEvent
  <2>4. CallType' /\ Control'
    BY <2>3 DEF CallType, Control
  <2> QED
    BY <2>1, <2>2, <2>4
<1>5. CASE SetUsable
  <2> USE <1>5 DEF SetUsable
  <2>1. PICK changed \in SUBSET DOMAIN devices :
           /\ devices' = [i \in DOMAIN devices |->
                            IF i \in changed
                            THEN [devices[i] EXCEPT !.usable = ~@] ELSE devices[i]]
           /\ mirror' = Notified(mirror, changed, TRUE)
    OBVIOUS
  <2>2. /\ IsMap(devices', Ids, Device) /\ DOMAIN devices' = DOMAIN devices
        /\ \A i \in DOMAIN devices : devices'[i].num = devices[i].num
    <3> DEFINE f == [i \in DOMAIN devices |->
                       IF i \in changed THEN [devices[i] EXCEPT !.usable = ~@] ELSE devices[i]]
    <3>1. \A i \in DOMAIN devices : devices[i] \in Device
      BY DEF ListType, IsMap
    <3>2. \A i \in DOMAIN devices : f[i] \in Device /\ f[i].num = devices[i].num
      BY <3>1 DEF Device
    <3>3. DOMAIN f = DOMAIN devices /\ f = [i \in DOMAIN f |-> f[i]] /\ devices' = f
      BY <2>1
    <3>4. DOMAIN devices \subseteq Ids
      BY DEF ListType, IsMap
    <3> HIDE DEF f
    <3> QED
      BY ONLY <3>2, <3>3, <3>4 DEF IsMap
  <2>3. changed \subseteq Ids /\ IsMap(mirror, Ids, Entry)
    BY DEF ListType, IsMap, MirrorType, Entry
  <2>4. \A known : /\ IsMap(Notified(mirror, changed, known), Ids, Entry)
                   /\ mirrorReady => DOMAIN Notified(mirror, changed, known)
                                       = DOMAIN mirror \cup changed
    BY ONLY <2>3, NotifiedMirror
  <2>5. IsMap(mirror', Ids, Entry)
    BY <2>1, <2>4, Zenon
  <2>6. mirrorReady => DOMAIN mirror' = DOMAIN mirror \cup changed
    BY <2>1, <2>4, Zenon
  <2>7. ListType'
    BY <2>2, <2>5 DEF ListType, MirrorType, Entry, Ids
  <2>8. Announced' /\ Mapped'
    <3>1. UNCHANGED <<told, uncommitted, map, source, mirrorReady>>
      OBVIOUS
    <3> HIDE DEF SetUsable
    <3>2. DOMAIN devices' = {i \in DOMAIN told' : told'[i] = "created"}
      BY <2>2, <3>1 DEF Announced
    <3>3. mirrorReady' => DOMAIN mirror' = DOMAIN devices'
      BY <2>1, <2>2, <2>6, <3>1 DEF Announced
    <3>4. \A n \in DOMAIN map' : map'[n] \in DOMAIN devices' /\ devices'[map'[n]].num = n
      BY <2>2, <3>1 DEF Announced
    <3>5. Mapped'
      BY <2>2, <3>1 DEF Mapped
    <3> QED
      BY <2>2, <3>1, <3>2, <3>3, <3>4, <3>5 DEF Announced
  <2>9. ServerType' /\ CallType' /\ Control'
    BY DEF ServerType, CallType, Control
  <2> QED
    BY <2>7, <2>8, <2>9
<1>6. CASE FinishDrain
  <2> USE <1>6 DEF FinishDrain, Committed
  <2>1. ListType' /\ Announced' /\ Mapped' /\ told' = told
    BY DEF ListType, MirrorType, Ids, Announced, Mapped
  <2> QED
    BY <2>1 DEF ServerType, CallType, Control
<1>7. ASSUME NEW change \in todo, SkipInfo(change) PROVE Inv' /\ told' = told
  <2> USE <1>7 DEF SkipInfo, OnInfo
  <2>1. ListType' /\ Announced' /\ Mapped' /\ told' = told
    BY Untouched
  <2> QED
    BY <2>1 DEF ServerType, CallType, Control
<1>8. ASSUME NEW change \in todo, QueryDevice(change) PROVE Inv' /\ told' = told
  <2> USE <1>8 DEF QueryDevice, OnInfo
  <2>1. ListType' /\ Announced' /\ Mapped' /\ told' = told
    BY Untouched
  <2>2. source = "running" /\ change \in Change
    BY DEF Control, CallType
  <2>3. With(Query(change.num), change.enabled) \in DeviceInfo
    BY <2>2 DEF With, Query, DeviceInfo, Change, ServerType
  <2>4. CallType' /\ Control'
    BY <2>2, <2>3 DEF CallType, Control
  <2> QED
    BY <2>1, <2>4 DEF ServerType
<1> QED
  BY <1>1, <1>2, <1>3, <1>4, <1>5, <1>6, <1>7, <1>8 DEF DrainEvents

LEMMA Step == Inv /\ [Next]_vars => Inv' /\ [Lifecycle!Announce]_told
<1> SUFFICES ASSUME Inv, [Next]_vars PROVE Inv' /\ [Lifecycle!Announce]_told
  OBVIOUS
<1>1. CASE Server \/ Client
  BY <1>1, ServerKeeps, ClientKeeps
<1>2. CASE Connect \/ ConnectFails \/ EnumDevices \/ EnumDone
  BY <1>2, ConnectKeeps
<1>3. ASSUME NEW info \in Offered,
             SkipUninteresting(info) \/ AddDevice(info) \/ AddThrows(info)
      PROVE  Inv' /\ [Lifecycle!Announce]_told
  BY <1>3, SkipKeeps, AddKeeps, AddThrowsKeeps
<1>4. ASSUME NEW change \in todo, RemoveDevice(change)
      PROVE  Inv' /\ [Lifecycle!Announce]_told
  BY <1>4, RemoveKeeps
<1>5. CASE DrainEvents /\ \A change \in todo : ~RemoveDevice(change)
  BY <1>5, DrainKeeps
<1>6. CASE UNCHANGED vars
  <2> USE <1>6 DEF vars, server
  <2>1. ListType' /\ Announced' /\ Mapped' /\ told' = told
    BY Untouched DEF Inv
  <2> QED
    BY <2>1 DEF Inv, ServerType, CallType, Control
<1> QED
  BY <1>1, <1>2, <1>3, <1>4, <1>5, <1>6 DEF Next, Library, Enumerate

LEMMA Invariant == Spec => []Inv
BY InitInv, Step, PTL DEF Spec

-----------------------------------------------------------------------------
(* Every variable of the server, the source, the context and the client has *)
(* its type, for any number of devices and events.                          *)
THEOREM TypeCorrect == Spec => []TypeOK
BY Invariant, InvOneList, PTL

(* The context, the events the client was told, its dictionary, and the map *)
(* of a source that lives always hold the same devices, each once, although *)
(* the server uses its numbers again and add_device may throw half-way.     *)
THEOREM OneListCorrect == Spec => []OneList
BY Invariant, InvOneList, PTL

(* The source implements the life cycle of DeviceLifecycle: ids are told    *)
(* in increasing order, and each is created once and removed at most once.  *)
THEOREM ImplementsLifecycle == Spec => RefinesLifecycle
<1>1. Init => Lifecycle!Init
  BY EmptyMapType DEF Init, Lifecycle!Init
<1> QED
  BY <1>1, Invariant, Step, PTL DEF Spec, RefinesLifecycle, Lifecycle!Spec

-----------------------------------------------------------------------------
(* Where input goes, as long as the server names the use of a device it has *)
(* removed.                                                                 *)

(* The library has, or is about to add, incarnation g of the device n.      *)
Holds(n, g) ==
  \/ n \in DOMAIN map /\ devices[map[n]].gen = g
  \/ pc = "infos" /\ \E info \in todo : info.num = n /\ info.gen = g
  \/ pc = "add" /\ current.num = n /\ current.gen = g

(* The removal of n is on its way: in the event that is worked on, or in    *)
(* one of the first k that wait.                                            *)
RemovalTodo(n) == pc = "drain" /\ \E c \in todo : Removes(c) /\ c.num = n
RemovalAt(j, n) ==
  events[j].type = "hierarchy" /\ \E c \in events[j].infos : Removes(c) /\ c.num = n
Coming(n) == RemovalTodo(n) \/ \E j \in DOMAIN events : RemovalAt(j, n)
Before(n, k) == RemovalTodo(n) \/ \E j \in 1 .. k - 1 : RemovalAt(j, n)

(* One hierarchy event does not both add and remove. *)
Single(infos) == ~\E c, d \in infos : c.flag = "added" /\ d.flag = "removed"

(* What the library holds is present, or its removal is on its way; and     *)
(* input of a later incarnation comes behind that removal.                  *)
Current(n, g) == n \in attached /\ g = gen[n]

Routes ==
  /\ \A k \in DOMAIN events :
        events[k].type = "raw" => events[k].gen <= gen[events[k].num]
  /\ \A k \in DOMAIN events : events[k].type = "hierarchy" => Single(events[k].infos)
  /\ pc \in {"add", "drain"} => Single(todo)
  /\ \A n \in Number, g \in Nat : Holds(n, g) => Current(n, g) \/ Coming(n)
  /\ \A n \in Number, g \in Nat, k \in DOMAIN events :
        Holds(n, g) /\ events[k].type = "raw" /\ events[k].num = n
           => events[k].gen <= g \/ Before(n, k)

LEMMA EventTypes ==
  ASSUME Inv
  PROVE  /\ events \in Seq(Event)
         /\ \A k \in DOMAIN events :
               /\ events[k].type = "raw" =>
                     events[k].num \in Number /\ events[k].gen \in Nat
               /\ events[k].type = "hierarchy" => events[k].infos \subseteq Change
         /\ gen \in [Number -> Nat]
<1>1. \A k \in DOMAIN events : events[k] \in Event
  BY DEF Inv, ServerType
<1> QED
  BY <1>1 DEF Inv, ServerType, Event, RawEvent, OtherEvent

(* A step of the library that reads no event.                               *)
LEMMA SameEvents ==
  ASSUME Inv, Routes, UNCHANGED <<events, gen, attached>>,
         \A n \in Number, g \in Nat : Holds(n, g)' => Holds(n, g) \/ Current(n, g),
         \A n \in Number, g \in Nat :
            RemovalTodo(n) /\ Holds(n, g)' => RemovalTodo(n)' \/ Current(n, g),
         pc' \in {"add", "drain"} => Single(todo')
  PROVE  Routes'
<1>1. \A n, j : RemovalAt(j, n)' <=> RemovalAt(j, n)
  BY DEF RemovalAt, Removes
<1>2. \A n, g : Current(n, g)' <=> Current(n, g)
  BY DEF Current
<1>3. \A n \in Number, g \in Nat : Holds(n, g)' => Current(n, g)' \/ Coming(n)'
  BY <1>1, <1>2 DEF Routes, Coming
<1>4. ASSUME NEW n \in Number, NEW g \in Nat, NEW k \in DOMAIN events,
             Holds(n, g)', events[k].type = "raw", events[k].num = n
      PROVE  events[k].gen <= g \/ Before(n, k)'
  <2>1. CASE Current(n, g)
    BY <1>4, <2>1 DEF Routes, Current
  <2>2. CASE ~Current(n, g)
    <3>1. Holds(n, g)
      BY <1>4, <2>2
    <3>2. events[k].gen <= g \/ Before(n, k)
      BY <1>4, <3>1 DEF Routes
    <3> QED
      BY <1>1, <1>4, <2>2, <3>2 DEF Before
  <2> QED
    BY <2>1, <2>2
<1> QED
  BY <1>3, <1>4 DEF Routes

(* A step of the library that reads the first event.                        *)
LEMMA NextEvent ==
  ASSUME Inv, Routes, UNCHANGED <<gen, attached, map, pc>>, pc = "drain",
         events # <<>>, events' = Tail(events), todo = {},
         \A i \in DOMAIN devices : devices'[i] = devices[i],
         \A n \in Number : RemovalAt(1, n) => RemovalTodo(n)',
         Single(todo')
  PROVE  Routes'
<1>1. /\ DOMAIN events' = 1 .. Len(events) - 1 /\ DOMAIN events = 1 .. Len(events)
      /\ Len(events) \in Nat \ {0}
      /\ \A k \in DOMAIN events' : events'[k] = events[k + 1] /\ k + 1 \in DOMAIN events
  BY EventTypes
<1>2. \A n \in Number, g \in Nat : Holds(n, g)' => Holds(n, g)
  BY DEF Holds, Inv, Announced
<1>3. ASSUME NEW n \in Number, NEW j \in DOMAIN events, RemovalAt(j, n), j # 1
      PROVE  j - 1 \in DOMAIN events' /\ RemovalAt(j - 1, n)'
  <2>1. j - 1 \in DOMAIN events' /\ (j - 1) + 1 = j
    BY <1>1, <1>3
  <2>2. events'[j - 1] = events[j]
    BY <1>1, <2>1
  <2> QED
    BY <1>3, <2>1, <2>2 DEF RemovalAt, Removes
<1>4. ASSUME NEW n \in Number, NEW g \in Nat, Holds(n, g)'
      PROVE  Current(n, g)' \/ Coming(n)'
  <2>1. Current(n, g) \/ Coming(n)
    BY <1>2, <1>4 DEF Routes
  <2>2. CASE Current(n, g)
    BY <2>2 DEF Current
  <2>3. CASE Coming(n)
    BY <1>3, <2>3 DEF Coming, RemovalTodo
  <2> QED
    BY <2>1, <2>2, <2>3
<1>5. ASSUME NEW n \in Number, NEW g \in Nat, NEW k \in DOMAIN events',
             Holds(n, g)', events'[k].type = "raw", events'[k].num = n
      PROVE  events'[k].gen <= g \/ Before(n, k)'
  <2>1. /\ events'[k] = events[k + 1] /\ k + 1 \in DOMAIN events
        /\ k \in Nat /\ (k + 1) - 1 = k /\ \A j \in 1 .. k : j \in DOMAIN events
    BY <1>1
  <2>2. Holds(n, g)
    BY <1>2, <1>5
  <2>3. events'[k].gen <= g \/ Before(n, k + 1)
    BY <1>5, <2>1, <2>2 DEF Routes
  <2>4. ASSUME Before(n, k + 1) PROVE Before(n, k)'
    <3>1. PICK j \in 1 .. k : RemovalAt(j, n)
      BY <2>1, <2>4 DEF Before, RemovalTodo
    <3>2. CASE j = 1
      BY <3>1, <3>2 DEF Before
    <3>3. CASE j # 1
      <4>1. RemovalAt(j - 1, n)'
        BY <1>3, <2>1, <3>1, <3>3
      <4>2. j - 1 \in 1 .. k - 1
        BY <3>3, <2>1
      <4> QED
        BY <4>1, <4>2 DEF Before
    <3> QED
      BY <3>2, <3>3
  <2> QED
    BY <2>3, <2>4
<1>6. /\ \A k \in DOMAIN events' :
            events'[k].type = "raw" => events'[k].gen <= gen'[events'[k].num]
      /\ \A k \in DOMAIN events' :
            events'[k].type = "hierarchy" => Single(events'[k].infos)
  BY <1>1 DEF Routes
<1> QED
  BY <1>4, <1>5, <1>6 DEF Routes

LEMMA NothingHeld ==
  ASSUME events' = <<>>, DOMAIN map' = {}, pc' \notin {"infos", "add", "drain"}
  PROVE  Routes'
BY DEF Routes, Holds

(* A step of the server: it sends new.                                      *)
LEMMA MoreEvents ==
  ASSUME Inv, Routes, UNCHANGED <<map, devices, todo, current, pc>>,
         NEW new \in Seq(Event), events' = events \o new,
         \A n \in Number : gen[n] <= gen'[n], gen' \in [Number -> Nat],
         \A n \in Number, g \in Nat : Current(n, g) => Current(n, g)' \/ Coming(n)',
         \A k \in DOMAIN new : new[k].type = "raw" =>
            new[k].num \in attached /\ new[k].gen = gen[new[k].num],
         \A k \in DOMAIN new : new[k].type = "hierarchy" => Single(new[k].infos)
  PROVE  Routes'
<1>1. /\ DOMAIN events = 1 .. Len(events) /\ DOMAIN new = 1 .. Len(new)
      /\ Len(events) \in Nat /\ Len(new) \in Nat
      /\ DOMAIN events' = 1 .. Len(events) + Len(new)
      /\ \A k \in DOMAIN events : k \in DOMAIN events' /\ events'[k] = events[k]
      /\ \A k \in DOMAIN events' \ DOMAIN events :
            k - Len(events) \in DOMAIN new /\ events'[k] = new[k - Len(events)]
  BY EventTypes
<1>2. \A n \in Number, g \in Nat : Holds(n, g)' <=> Holds(n, g)
  BY DEF Holds
<1>3. \A n \in Number, j \in DOMAIN events : RemovalAt(j, n) => RemovalAt(j, n)'
  BY <1>1 DEF RemovalAt, Removes
<1>4. \A n \in Number : RemovalTodo(n) => RemovalTodo(n)'
  BY DEF RemovalTodo, Removes
<1>5. \A n \in Number : Coming(n) => Coming(n)'
  BY <1>1, <1>3, <1>4 DEF Coming
<1>6. \A n \in Number, g \in Nat : Holds(n, g)' => Current(n, g)' \/ Coming(n)'
  BY <1>2, <1>5 DEF Routes
<1>7. ASSUME NEW n \in Number, NEW g \in Nat, NEW k \in DOMAIN events',
             Holds(n, g)', events'[k].type = "raw", events'[k].num = n
      PROVE  events'[k].gen <= g \/ Before(n, k)'
  <2>1. CASE k \in DOMAIN events
    <3>1. events[k].gen <= g \/ Before(n, k)
      BY <1>1, <1>2, <1>7, <2>1 DEF Routes
    <3>2. Before(n, k) => Before(n, k)'
      <4>1. \A j \in 1 .. k - 1 : j \in DOMAIN events
        BY <1>1, <2>1
      <4> QED
        BY <4>1, <1>3, <1>4 DEF Before
    <3> QED
      BY <1>1, <2>1, <3>1, <3>2
  <2>2. CASE k \notin DOMAIN events
    <3>1. n \in attached /\ events'[k].gen = gen[n]
      BY <1>1, <1>7, <2>2
    <3>2. Current(n, g) \/ Coming(n)
      BY <1>2, <1>7 DEF Routes
    <3>3. CASE Current(n, g)
      BY <3>1, <3>3 DEF Current
    <3>4. CASE Coming(n)
      <4>1. DOMAIN events \subseteq 1 .. k - 1
        BY <1>1, <2>2
      <4> QED
        BY <3>4, <4>1, <1>3, <1>4 DEF Coming, Before
    <3> QED
      BY <3>2, <3>3, <3>4
  <2> QED
    BY <2>1, <2>2
<1>8. ASSUME NEW k \in DOMAIN events', events'[k].type = "raw"
      PROVE  events'[k].gen <= gen'[events'[k].num]
  <2>1. CASE k \in DOMAIN events
    <3>1. /\ events'[k] = events[k] /\ events[k].num \in Number /\ events[k].gen \in Nat
          /\ events[k].gen <= gen[events[k].num]
      BY <1>1, <1>8, <2>1, EventTypes DEF Routes
    <3>2. gen[events[k].num] \in Nat /\ gen'[events[k].num] \in Nat
      BY <3>1, EventTypes
    <3> QED
      BY <3>1, <3>2
  <2>2. CASE k \notin DOMAIN events
    <3>1. events'[k].num \in attached /\ events'[k].gen = gen[events'[k].num]
      BY <1>1, <1>8, <2>2
    <3> QED
      BY <3>1 DEF Inv, ServerType
  <2> QED
    BY <2>1, <2>2
<1>9. \A k \in DOMAIN events' : events'[k].type = "hierarchy" => Single(events'[k].infos)
  BY <1>1 DEF Routes
<1>10. pc' \in {"add", "drain"} => Single(todo')
  BY DEF Routes
<1> QED
  BY <1>6, <1>7, <1>8, <1>9, <1>10 DEF Routes

LEMMA SingleInfos ==
  ASSUME NEW nums, NEW on, NEW n, NEW flag \in {"none", "added"}
  PROVE  Single(Infos(nums, on, n, flag))
BY DEF Single, Infos

LEMMA ServerRoutes ==
  ASSUME Inv, namesUse, Routes, Server
  PROVE  Routes'
<1> USE DEF Inv, context
<1>1. /\ UNCHANGED <<map, devices, todo, current, pc>>
      /\ pc = "connect" => events' = events
  BY DEF Server, Plug, Yank, Detach, Toggle, Press, Remap, Arrive, Sent
<1>2. CASE pc = "connect"
  BY <1>1, <1>2, NothingHeld DEF Control
<1>3. CASE pc # "connect"
  <2>1. ASSUME NEW n \in Number, NEW on \in BOOLEAN, Plug(n, on) PROVE Routes'
    <3> DEFINE one == Hierarchy(Infos(attached', enabled, n, "added"))
               two == Hierarchy(Infos(attached', enabled', n, "none"))
               new == <<one>> \o IF on THEN <<two>> ELSE <<>>
    <3>1. attached' \subseteq Number
      BY <2>1 DEF ServerType, Plug
    <3>2. one \in Event /\ two \in Event
      BY <3>1, InfosType, HierarchyType
    <3>3. one.type = "hierarchy" /\ two.type = "hierarchy" /\ Single(one.infos) /\ Single(two.infos)
      BY SingleInfos DEF Hierarchy
    <3>4. events' = events \o new
      BY <1>3, <2>1 DEF Plug, Sent
    <3> HIDE DEF one, two
    <3>5. new \in Seq(Event) /\ \A k \in DOMAIN new : new[k] \in {one, two}
      BY <3>2
    <3> HIDE DEF new
    <3>6. /\ \A m \in Number : gen[m] <= gen'[m]
          /\ gen' \in [Number -> Nat]
      BY <2>1 DEF Plug, ServerType
    <3>7. \A m \in Number, g \in Nat : Current(m, g) => Current(m, g)'
      BY <2>1 DEF Plug, ServerType, Current
    <3> QED
      BY <1>1, <3>3, <3>4, <3>5, <3>6, <3>7, MoreEvents
  <2>2. ASSUME NEW n \in Number, Yank(n) PROVE Routes'
    <3>1. UNCHANGED <<gen, attached, events>>
      BY <2>2 DEF Yank
    <3>2. /\ \A m, g : Holds(m, g)' <=> Holds(m, g)
          /\ \A m : RemovalTodo(m) <=> RemovalTodo(m)'
      BY <1>1 DEF Holds, RemovalTodo, Removes
    <3>3. pc' \in {"add", "drain"} => Single(todo')
      BY <1>1 DEF Routes
    <3> QED
      BY <3>1, <3>2, <3>3, SameEvents
  <2>3. ASSUME NEW n \in Number, Detach(n) PROVE Routes'
    <3> DEFINE forgotten == [num |-> n, flag |-> "removed", enabled |-> FALSE,
                             slave |-> namesUse]
               removal == Hierarchy(Infos(attached', enabled', n, "none") \cup {forgotten})
               off == Hierarchy(Infos(attached, enabled', n, "none"))
               new == IF n \in enabled THEN <<off, removal>> ELSE <<removal>>
    <3>1. attached' \subseteq Number /\ attached \subseteq Number
      BY <2>3 DEF ServerType, Detach
    <3>2. forgotten \in Change
      BY DEF ServerType, Change
    <3>3. removal \in Event /\ off \in Event
      BY <3>1, <3>2, InfosType, HierarchyType
    <3>4. /\ off.type = "hierarchy" /\ Single(off.infos)
          /\ removal.type = "hierarchy" /\ Single(removal.infos)
          /\ \E c \in removal.infos : Removes(c) /\ c.num = n
      <4>1. off.type = "hierarchy" /\ Single(off.infos)
        BY SingleInfos DEF Hierarchy
      <4>2. Single(removal.infos)
        BY DEF Hierarchy, Infos, Single
      <4>3. forgotten \in removal.infos /\ Removes(forgotten) /\ forgotten.num = n
        BY DEF Hierarchy, Removes
      <4> QED
        BY <4>1, <4>2, <4>3 DEF Hierarchy
    <3>5. events' = events \o new
      BY <1>3, <2>3 DEF Detach, Sent
    <3> HIDE DEF off, removal, forgotten
    <3>6. /\ new \in Seq(Event) /\ \A k \in DOMAIN new : new[k] \in {off, removal}
          /\ \E k \in 1 .. Len(new) : new[k] = removal
      BY <3>3
    <3> HIDE DEF new
    <3>7. Coming(n)'
      <4>1. PICK k \in 1 .. Len(new) : new[k] = removal
        BY <3>6
      <4>2. /\ Len(events) + k \in DOMAIN events'
            /\ events'[Len(events) + k] = removal
        BY <3>5, <3>6, <4>1, EventTypes
      <4>3. PICK j : j \in DOMAIN events' /\ events'[j] = removal
        BY <4>2
      <4>4. \E c \in events'[j].infos : Removes(c)' /\ c.num = n
        BY <3>4, <4>3 DEF Removes
      <4>5. RemovalAt(j, n)'
        BY <3>4, <4>3, <4>4 DEF RemovalAt
      <4> QED
        BY <4>3, <4>5 DEF Coming
    <3>8. gen' \in [Number -> Nat] /\ \A m \in Number : gen[m] <= gen'[m]
      BY <2>3 DEF Detach, ServerType
    <3>9. \A m \in Number, g \in Nat : Current(m, g) => Current(m, g)' \/ Coming(m)'
      BY <2>3, <3>7 DEF Detach, Current
    <3> QED
      BY <1>1, <3>4, <3>5, <3>6, <3>8, <3>9, MoreEvents
  <2>4. ASSUME NEW n \in Number, Toggle(n) PROVE Routes'
    <3> DEFINE e == Hierarchy(Infos(attached, enabled', n, "none"))
               new == <<e>>
    <3>1. e \in Event /\ e.type = "hierarchy" /\ Single(e.infos)
      BY InfosType, HierarchyType, SingleInfos DEF ServerType, Hierarchy
    <3>2. events' = events \o new /\ UNCHANGED <<gen, attached>>
      BY <1>3, <2>4 DEF Toggle, Sent
    <3> HIDE DEF e
    <3>3. new \in Seq(Event) /\ \A k \in DOMAIN new : new[k] = e
      BY <3>1
    <3>4. \A m \in Number, g \in Nat : Current(m, g) => Current(m, g)'
      BY <3>2 DEF Current
    <3>5. gen' \in [Number -> Nat] /\ \A m \in Number : gen[m] <= gen'[m]
      BY <3>2 DEF ServerType
    <3> HIDE DEF new
    <3> QED
      BY <1>1, <3>1, <3>2, <3>3, <3>4, <3>5, MoreEvents
  <2>5. ASSUME NEW e \in Event, Arrive(e), e.type # "hierarchy",
               e.type = "raw" => e.num \in attached /\ e.gen = gen[e.num]
        PROVE  Routes'
    <3> DEFINE new == <<e>>
    <3>1. events' = events \o new /\ UNCHANGED <<gen, attached>>
      BY <1>3, <2>5 DEF Arrive, Sent
    <3>2. new \in Seq(Event) /\ \A k \in DOMAIN new : new[k] = e
      OBVIOUS
    <3>3. \A m \in Number, g \in Nat : Current(m, g) => Current(m, g)'
      BY <3>1 DEF Current
    <3>4. gen' \in [Number -> Nat] /\ \A m \in Number : gen[m] <= gen'[m]
      BY <3>1 DEF ServerType
    <3> HIDE DEF new
    <3> QED
      BY <1>1, <2>5, <3>1, <3>2, <3>3, <3>4, MoreEvents
  <2>6. ASSUME NEW n \in Number, Press(n) PROVE Routes'
    <3> DEFINE e == [type |-> "raw", num |-> n, gen |-> gen[n]]
    <3>1. /\ e \in Event /\ e.type = "raw" /\ e.gen = gen[e.num] /\ e.num \in attached
      BY <2>6 DEF Event, RawEvent, ServerType, Press
    <3>2. Arrive(e)
      BY <2>6 DEF Press
    <3> HIDE DEF e
    <3> QED
      BY <2>5, <3>1, <3>2
  <2>7. ASSUME Remap PROVE Routes'
    <3> DEFINE e == [type |-> "other"]
    <3>1. e \in Event /\ e.type = "other"
      BY DEF Event, OtherEvent
    <3>2. Arrive(e)
      BY <2>7 DEF Remap
    <3> HIDE DEF e
    <3> QED
      BY <2>5, <3>1, <3>2
  <2> QED
    BY <2>1, <2>2, <2>3, <2>4, <2>6, <2>7 DEF Server
<1> QED
  BY <1>2, <1>3

(* A step of the library that takes holdings away, or keeps them, and the   *)
(* removals that are still to be done for the rest.                         *)
LEMMA LibraryRoutes ==
  ASSUME Inv, Routes, Library, ~(DeviceEvent \/ SkipOther \/ HierarchyEvent)
  PROVE  Routes'
<1> USE DEF Inv, server, context
<1>1. CASE Connect \/ ConnectFails
  <2>1. DOMAIN map' = {} /\ events' = <<>> /\ pc' \in {"enum", "list"}
    BY <1>1 DEF Connect, ConnectFails, Control
  <2> QED
    BY <2>1, NothingHeld
<1>2. CASE EnumDevices
  <2>1. ASSUME NEW n \in Number, NEW g \in Nat, Holds(n, g)'
        PROVE  Holds(n, g) \/ Current(n, g)
    BY <1>2, <2>1 DEF EnumDevices, Holds, Current, With, Query
  <2>2. /\ UNCHANGED <<events, gen, attached>> /\ pc' \notin {"add", "drain"}
        /\ \A n : ~RemovalTodo(n)
    BY <1>2 DEF EnumDevices, RemovalTodo
  <2> QED
    BY <2>1, <2>2, SameEvents
<1>3. CASE EnumDone
  <2>1. \A n \in Number, g \in Nat : Holds(n, g)' => Holds(n, g)
    BY <1>3 DEF EnumDone, Holds
  <2>2. /\ UNCHANGED <<events, gen, attached>> /\ pc' \notin {"add", "drain"}
        /\ \A n : ~RemovalTodo(n)
    BY <1>3 DEF EnumDone, RemovalTodo
  <2> QED
    BY <2>1, <2>2, SameEvents
<1>4. ASSUME NEW info \in Offered, SkipUninteresting(info) PROVE Routes'
  <2>1. /\ UNCHANGED <<events, gen, attached>>
        /\ pc \in {"infos", "add"} /\ \A n : ~RemovalTodo(n)
    BY <1>4, OfferedInfo DEF SkipUninteresting, RemovalTodo
  <2>2. \A n \in Number, g \in Nat : Holds(n, g)' => Holds(n, g)
    BY <1>4 DEF SkipUninteresting, Return, Holds
  <2>3. pc' \in {"add", "drain"} => Single(todo')
    BY <1>4, <2>1 DEF SkipUninteresting, Return, Routes, Single
  <2> QED
    BY <2>1, <2>2, <2>3, SameEvents
<1>5. ASSUME NEW info \in Offered, AddDevice(info) PROVE Routes'
  <2> DEFINE n == info.num
  <2>1. /\ UNCHANGED <<events, gen, attached>>
        /\ pc \in {"infos", "add"} /\ \A m : ~RemovalTodo(m)
        /\ pc' \in {"add", "drain"} => Single(todo')
    BY <1>5, OfferedInfo DEF AddDevice, Return, RemovalTodo, Routes, Single
  <2>2. /\ \A x \in DOMAIN map : x # n => map[x] \in DOMAIN devices \ Gone(n)
        /\ nextId \notin DOMAIN devices
    BY DEF ListType, IsMap, Ids, Announced, Gone
  <2>3. /\ DOMAIN map' = DOMAIN map \cup {n} /\ map'[n] = nextId
        /\ \A x \in DOMAIN map : x # n => map'[x] = map[x]
    BY <1>5 DEF AddDevice, Put
  <2>4. /\ devices'[nextId].gen = info.gen
        /\ \A i \in DOMAIN devices \ Gone(n) : devices'[i] = devices[i]
    BY <1>5, <2>2 DEF AddDevice, Put, Drop, Restrict
  <2>5. Holds(n, info.gen)
    BY <1>5, OfferedInfo DEF Holds, Offered
  <2>6. \A m \in Number, g \in Nat : Holds(m, g)' => Holds(m, g)
    <3> SUFFICES ASSUME NEW m \in Number, NEW g \in Nat, Holds(m, g)'
                 PROVE  Holds(m, g)
      OBVIOUS
    <3>1. CASE m \in DOMAIN map' /\ devices'[map'[m]].gen = g
      BY <2>2, <2>3, <2>4, <2>5, <3>1 DEF Holds
    <3>2. CASE pc' = "infos" /\ \E other \in todo' : other.num = m /\ other.gen = g
      BY <1>5, <2>1, <3>2 DEF AddDevice, Return, Holds
    <3>3. pc' # "add"
      BY <1>5, <2>1 DEF AddDevice, Return
    <3> QED
      BY <3>1, <3>2, <3>3 DEF Holds
  <2> QED
    BY <2>1, <2>6, SameEvents
<1>6. ASSUME NEW info \in Offered, AddThrows(info) PROVE Routes'
  <2>1. CASE source = "enumerating"
    BY <1>6, <2>1, NothingHeld, EmptyMapType DEF AddThrows
  <2>2. CASE source # "enumerating"
    <3>1. /\ UNCHANGED <<events, gen, attached>> /\ pc' \notin {"infos", "add", "drain"}
          /\ \A m : ~RemovalTodo(m)
      BY <1>6, <2>2, OfferedInfo DEF AddThrows, RemovalTodo
    <3>2. /\ \A x \in DOMAIN map' : x \in DOMAIN map /\ map'[x] = map[x] /\ x # info.num
          /\ \A x \in DOMAIN map : x # info.num => map[x] \in DOMAIN devices \ Gone(info.num)
          /\ \A i \in DOMAIN devices \ Gone(info.num) : devices'[i] = devices[i]
      BY <1>6, <2>2 DEF AddThrows, Drop, Restrict, Announced, Gone
    <3>3. \A m \in Number, g \in Nat : Holds(m, g)' => Holds(m, g)
      BY <3>1, <3>2 DEF Holds
    <3> QED
      BY <3>1, <3>3, SameEvents
  <2> QED
    BY <2>1, <2>2
<1>7. CASE StartDrain \/ FinishDrain
  <2>1. /\ UNCHANGED <<events, gen, attached, map, devices>> /\ todo = {} /\ todo' = {}
        /\ pc' \in {"idle", "drain"}
    BY <1>7 DEF StartDrain, FinishDrain, Control
  <2>2. \A n \in Number, g \in Nat : Holds(n, g)' => Holds(n, g)
    BY <2>1 DEF Holds
  <2>3. /\ \A n : ~RemovalTodo(n)
        /\ Single(todo')
    BY <2>1 DEF RemovalTodo, Single
  <2> QED
    BY <2>1, <2>2, <2>3, SameEvents
<1>8. CASE SetUsable
  <2>1. /\ UNCHANGED <<events, gen, attached, map, pc>> /\ todo' = todo \ Unflagged
        /\ pc = "drain"
    BY <1>8 DEF SetUsable
  <2>2. \A i \in DOMAIN devices : devices'[i].gen = devices[i].gen
    BY <1>8 DEF SetUsable, ListType, IsMap, Device
  <2>3. \A n \in Number, g \in Nat : Holds(n, g)' => Holds(n, g)
    BY <2>1, <2>2 DEF Holds, Announced
  <2>4. \A n : RemovalTodo(n) => RemovalTodo(n)'
    BY <2>1 DEF RemovalTodo, Removes, Unflagged
  <2>5. Single(todo')
    BY <2>1 DEF Routes, Single
  <2> QED
    BY <2>1, <2>3, <2>4, <2>5, SameEvents
<1>9. ASSUME NEW change \in todo, SkipInfo(change) PROVE Routes'
  <2>1. /\ UNCHANGED <<events, gen, attached, map, devices, pc>> /\ todo' = todo \ {change}
        /\ pc = "drain" /\ ~Removes(change)
    BY <1>9 DEF SkipInfo, OnInfo
  <2>2. \A n \in Number, g \in Nat : Holds(n, g)' => Holds(n, g)
    BY <2>1 DEF Holds
  <2>3. \A n : RemovalTodo(n) => RemovalTodo(n)'
    BY <2>1 DEF RemovalTodo, Removes
  <2>4. Single(todo')
    BY <2>1 DEF Routes, Single
  <2> QED
    BY <2>1, <2>2, <2>3, <2>4, SameEvents
<1>10. ASSUME NEW change \in todo, RemoveDevice(change) PROVE Routes'
  <2> DEFINE n == change.num
  <2>1. /\ UNCHANGED <<events, gen, attached, pc>> /\ todo' = todo \ {change}
        /\ pc = "drain"
    BY <1>10 DEF RemoveDevice, OnInfo
  <2>2. /\ \A x \in DOMAIN map' : x \in DOMAIN map /\ map'[x] = map[x] /\ x # n
        /\ \A x \in DOMAIN map : x # n => map[x] \in DOMAIN devices \ Gone(n)
        /\ \A i \in DOMAIN devices \ Gone(n) : devices'[i] = devices[i]
    BY <1>10 DEF RemoveDevice, Drop, Restrict, Announced, Gone
  <2>3. \A m \in Number, g \in Nat : Holds(m, g)' => Holds(m, g) /\ m # n
    BY <2>1, <2>2 DEF Holds
  <2>4. \A m : m # n /\ RemovalTodo(m) => RemovalTodo(m)'
    BY <2>1 DEF RemovalTodo, Removes
  <2>5. Single(todo')
    BY <2>1 DEF Routes, Single
  <2> QED
    BY <2>1, <2>3, <2>4, <2>5, SameEvents
<1>11. ASSUME NEW change \in todo, QueryDevice(change) PROVE Routes'
  <2>1. /\ UNCHANGED <<events, gen, attached, map, devices>> /\ todo' = todo \ {change}
        /\ pc = "drain" /\ Adds(change) /\ pc' \in {"add", "drain"}
    BY <1>11 DEF QueryDevice, OnInfo
  <2>2. \A n : ~RemovalTodo(n)
    BY <2>1 DEF RemovalTodo, Removes, Adds, Routes, Single
  <2>3. \A n \in Number, g \in Nat : Holds(n, g)' => Holds(n, g) \/ Current(n, g)
    BY <1>11, <2>1 DEF QueryDevice, With, Query, Holds, Current
  <2>4. Single(todo')
    BY <2>1 DEF Routes, Single
  <2> QED
    BY <2>1, <2>2, <2>3, <2>4, SameEvents
<1> QED
  BY <1>1, <1>2, <1>3, <1>4, <1>5, <1>6, <1>7, <1>8, <1>9, <1>10, <1>11
  DEF Library, Enumerate, DrainEvents

LEMMA ReadingRoutes ==
  ASSUME Inv, Routes, DeviceEvent \/ SkipOther \/ HierarchyEvent
  PROVE  Routes'
<1> USE DEF Inv, server, context, Reading
<1>1. /\ UNCHANGED <<gen, attached, map, pc, devices>> /\ pc = "drain"
      /\ events # <<>> /\ events' = Tail(events) /\ todo = {}
      /\ 1 \in DOMAIN events /\ Head(events) = events[1]
  BY EventTypes DEF DeviceEvent, SkipOther, HierarchyEvent
<1>2. CASE DeviceEvent \/ SkipOther
  <2>1. events[1].type # "hierarchy" /\ todo' = {}
    BY <1>1, <1>2 DEF DeviceEvent, SkipOther
  <2>2. Single(todo') /\ \A n \in Number : ~RemovalAt(1, n)
    BY <2>1 DEF Single, RemovalAt
  <2> QED
    BY <1>1, <2>2, NextEvent
<1>3. CASE HierarchyEvent
  <2>1. events[1].type = "hierarchy" /\ todo' = events[1].infos
    BY <1>1, <1>3 DEF HierarchyEvent
  <2>2. Single(todo')
    BY <1>1, <2>1 DEF Routes
  <2>3. \A n \in Number : RemovalAt(1, n) => RemovalTodo(n)'
    BY <1>1, <2>1 DEF RemovalAt, RemovalTodo, Removes
  <2> QED
    BY <1>1, <2>2, <2>3, NextEvent
<1> QED
  BY <1>2, <1>3

LEMMA ClientRoutes ==
  ASSUME Inv, Routes, Client
  PROVE  Routes'
<1>1. /\ UNCHANGED <<events, gen, attached, map, devices, todo>> /\ pc' = "idle"
      /\ pc \in {"list", "idle"}
  BY DEF Client, CreateContext, FindFirst, server, context
<1>2. \A n \in Number, g \in Nat : Holds(n, g)' => Holds(n, g)
  BY <1>1 DEF Holds
<1>3. \A n : ~RemovalTodo(n)
  BY <1>1 DEF RemovalTodo
<1> QED
  BY <1>1, <1>2, <1>3, SameEvents

LEMMA StepRoutes ==
  ASSUME Inv, namesUse => Routes, [Next]_vars
  PROVE  namesUse' => Routes'
<1>1. namesUse' = namesUse
  BY DEF Next, Server, Plug, Yank, Detach, Toggle, Press, Remap, Arrive, Library, Enumerate,
         Connect, ConnectFails, EnumDevices, EnumDone, SkipUninteresting, AddDevice,
         AddThrows, Client, CreateContext, FindFirst, DrainEvents, StartDrain,
         DeviceEvent, SkipOther, HierarchyEvent, SetUsable, FinishDrain, SkipInfo,
         RemoveDevice, QueryDevice, server, vars
<1> SUFFICES ASSUME namesUse PROVE Routes'
  BY <1>1
<1>2. CASE UNCHANGED vars
  <2>1. /\ \A n, g : Holds(n, g)' <=> Holds(n, g)
        /\ \A n : RemovalTodo(n) <=> RemovalTodo(n)'
        /\ UNCHANGED <<events, gen, attached, pc, todo>>
    <3>1. UNCHANGED <<events, gen, attached, pc, todo, map, devices, current>>
      BY <1>2 DEF vars, server, context
    <3>2. \A n, g : Holds(n, g)' <=> Holds(n, g)
      BY <3>1 DEF Holds
    <3>3. \A n : RemovalTodo(n) <=> RemovalTodo(n)'
      BY <3>1 DEF RemovalTodo, Removes
    <3> QED
      BY <3>1, <3>2, <3>3
  <2>2. pc' \in {"add", "drain"} => Single(todo')
    BY <2>1 DEF Routes
  <2> QED
    BY <2>1, <2>2, SameEvents
<1> QED
  BY <1>2, ServerRoutes, LibraryRoutes, ReadingRoutes, ClientRoutes DEF Next

(* Input never reaches a device older than the one it comes from, as long   *)
(* as the server names the use of a device it has removed.                  *)
THEOREM RoutedCorrect == Spec => RoutedForward
<1>1. Init => (namesUse => Routes)
  BY EmptyMapType DEF Init, Routes, Holds
<1>2. Inv /\ (namesUse => Routes) /\ [Next]_vars => (namesUse => Routes)'
  BY StepRoutes
<1>3. Inv /\ (namesUse => Routes)
        => [DeviceEvent /\ namesUse =>
              \A i \in Gone(Head(events).num) : Head(events).gen <= devices[i].gen]_vars
  <2> SUFFICES ASSUME Inv, Routes, DeviceEvent, NEW i \in Gone(Head(events).num)
               PROVE  Head(events).gen <= devices[i].gen
    OBVIOUS
  <2> DEFINE n == Head(events).num
  <2>1. 1 \in DOMAIN events /\ Head(events) = events[1] /\ events[1].type = "raw"
    BY EventTypes DEF DeviceEvent, Reading
  <2>2. n \in Number /\ n \in DOMAIN map /\ map[n] = i
    BY <2>1, EventTypes DEF Gone
  <2>3. devices[i].gen \in Nat /\ Holds(n, devices[i].gen)
    BY <2>2 DEF Holds, Inv, ListType, Announced, IsMap, Device
  <2>4. ~Before(n, 1)
    BY DEF Before, RemovalTodo, DeviceEvent, Reading
  <2> QED
    BY <2>1, <2>2, <2>3, <2>4 DEF Routes
<1> QED
  BY <1>1, <1>2, <1>3, Invariant, PTL DEF Spec, RoutedForward

-----------------------------------------------------------------------------
(* What the devices are, once every event has been read.                    *)

(* What is still to be processed: at 0 of the hierarchy event in hand, then *)
(* of the events that wait.                                                 *)
Content(e) == IF e.type = "hierarchy" THEN e.infos ELSE {}
At(k) ==
  IF k = 0 THEN IF pc \in {"drain", "add"} THEN todo ELSE {}
  ELSE Content(events[k])
Waiting == 0 .. Len(events)

(* An event has one info of each device, and flags one at most.             *)
Shape(infos) ==
  /\ \A c, d \in infos : c.num = d.num => c = d
  /\ \A c, d \in infos : c.flag # "none" /\ d.flag # "none" => c = d
  /\ \A c \in infos : c.flag # "removed" => c.slave

Shapes ==
  /\ \A k \in Waiting : Shape(At(k))
  /\ pc = "add" => \A c \in todo : c.flag = "none"

(* The infos at j set the flag of n to what it is at last.  The rest of an  *)
(* event that adds a device may be given up, when the device is gone: such  *)
(* an event does not count.                                                 *)
Sets(j, n) ==
  /\ j = 0 => pc = "drain"
  /\ \A c \in At(j) : c.flag # "added"
  /\ \E c \in At(j) : c.num = n /\ c.flag = "none" /\ c.enabled = (n \in enabled)
SetsFrom(k, n) == \E j \in k .. Len(events) : Sets(j, n)

(* A wrong flag, of an info that waits, of a device in the map, or of one   *)
(* that is about to be added, is set right by an event behind it.           *)
Flags ==
  /\ \A k \in Waiting : \A c \in At(k) :
        c.enabled # (c.num \in enabled) => SetsFrom(k + 1, c.num)
  /\ \A n \in DOMAIN map :
        devices[map[n]].usable # (n \in enabled) => SetsFrom(0, n)
  /\ \A info \in Offered :
        info.finally # (info.num \in enabled) => SetsFrom(1, info.num)

(* The infos at j add n. *)
AddsAt(j, n) == \E c \in At(j) : c.flag = "added" /\ c.num = n
AddsFrom(k, n) == \E j \in k .. Len(events) : AddsAt(j, n)

(* A device that is attached has its node is in the map, or in hand, or is  *)
(* still to be added; behind what is about an earlier device of its number  *)
(* it is added again.                                                       *)
Known(n) ==
  \/ pc \in {"connect", "enum"}
  \/ n \in DOMAIN map /\ devices[map[n]].gen = gen[n]
  \/ \E info \in Offered : info.num = n /\ info.gen = gen[n]

Registered ==
  /\ \A n \in (attached \cap node) \ Xtest : Known(n) \/ AddsFrom(0, n)
  /\ \A k \in Waiting : \A c \in At(k) :
        Removes(c) /\ c.num \in attached => AddsFrom(k + 1, c.num)
  /\ \A info \in Offered :
        info.num \in attached /\ info.gen # gen[info.num] => AddsFrom(1, info.num)

Settles == source # "dropped" => Shapes /\ Flags /\ Registered

LEMMA SettledInv == Inv /\ (namesUse => Routes) /\ Settles => SettledAgrees
<1> SUFFICES ASSUME Inv, namesUse => Routes, Settles, Quiet, source = "running"
             PROVE  /\ \A n \in attached \ Xtest :
                          /\ n \in DOMAIN map
                          /\ devices[map[n]].gen = gen[n]
                          /\ devices[map[n]].usable = (n \in enabled)
                    /\ \A n \in DOMAIN map \ attached :
                          ~namesUse /\ ~devices[map[n]].usable
  BY DEF SettledAgrees
<1>1. pc = "idle" /\ events = <<>> /\ Len(events) = 0 /\ Offered = {} /\ At(0) = {}
  BY DEF Quiet, Offered, At
<1>2. \A k \in {0, 1} : \A n : ~SetsFrom(k, n) /\ ~AddsFrom(k, n)
  BY <1>1 DEF SetsFrom, Sets, AddsFrom, AddsAt
<1>3. \A n \in DOMAIN map : devices[map[n]].usable = (n \in enabled)
  BY <1>2 DEF Settles, Flags
<1>4. \A n \in attached \ Xtest : n \in DOMAIN map /\ devices[map[n]].gen = gen[n]
  BY <1>1, <1>2 DEF Settles, Registered, Known, Quiet
<1>5. ASSUME NEW n \in DOMAIN map \ attached
      PROVE  ~namesUse /\ ~devices[map[n]].usable
  <2>1. n \notin enabled
    BY DEF Inv, ServerType
  <2>2. n \in Number /\ devices[map[n]].gen \in Nat
    BY DEF Inv, ListType, Announced, IsMap, Device
  <2>3. Holds(n, devices[map[n]].gen) /\ ~Coming(n)
    BY <1>1 DEF Holds, Coming, RemovalTodo
  <2> QED
    BY <1>3, <2>1, <2>2, <2>3 DEF Routes, Current
<1> QED
  BY <1>3, <1>4, <1>5, Zenon DEF Inv, ServerType

LEMMA InitSettled == Init => Settles
<1> SUFFICES ASSUME Init PROVE Settles
  OBVIOUS
<1>1. /\ Len(events) = 0 /\ At(0) = {} /\ Offered = {} /\ DOMAIN map = {}
      /\ pc = "connect"
  BY EmptyMapType DEF Init, At, Offered
<1> QED
  BY <1>1 DEF Settles, Shapes, Flags, Registered, Waiting, Shape, Known

LEMMA FirstOrLater ==
  ASSUME Inv
  PROVE  /\ Len(events) \in Nat
         /\ \A n : SetsFrom(0, n) <=> Sets(0, n) \/ SetsFrom(1, n)
         /\ \A n : AddsFrom(0, n) <=> AddsAt(0, n) \/ AddsFrom(1, n)
<1>1. Len(events) \in Nat
  BY EventTypes
<1> QED
  BY <1>1 DEF SetsFrom, AddsFrom

(* A step that leaves the events and the server alone, but for nodes that   *)
(* go.  It may do away with infos of the event in hand, if what they would  *)
(* have set or added is so now, or is announced again behind them.          *)
LEMMA HandSettles ==
  ASSUME Inv, Settles, source # "dropped",
         UNCHANGED <<events, attached, gen, enabled>>, node' \subseteq node,
         At(0)' \subseteq At(0),
         pc' = "add" => \A c \in todo' : c.flag = "none",
         \A n \in DOMAIN map' :
            devices'[map'[n]].usable # (n \in enabled) => Sets(0, n)' \/ SetsFrom(1, n),
         \A info \in Offered' :
            info.finally # (info.num \in enabled) => SetsFrom(1, info.num),
         \A n \in (attached \cap node') \ Xtest :
            Known(n)' \/ AddsAt(0, n)' \/ AddsFrom(1, n),
         \A info \in Offered' :
            info.num \in attached /\ info.gen # gen[info.num] => AddsFrom(1, info.num)
  PROVE  Settles'
<1> USE DEF Settles
<1>1. /\ Waiting' = Waiting /\ 0 \in Waiting /\ Len(events) \in Nat
      /\ \A k \in Waiting : k # 0 => At(k)' = At(k)
      /\ \A k \in Waiting : At(k)' \subseteq At(k)
  BY FirstOrLater DEF Waiting, At
<1>2. \A k \in Nat : \A n : k # 0 => (SetsFrom(k, n)' <=> SetsFrom(k, n))
                                 /\ (AddsFrom(k, n)' <=> AddsFrom(k, n))
  <2>1. \A j \in Waiting : \A n : j # 0 => (Sets(j, n)' <=> Sets(j, n))
                                       /\ (AddsAt(j, n)' <=> AddsAt(j, n))
    BY <1>1 DEF Sets, AddsAt
  <2>2. \A k \in Nat : \A j : k # 0 /\ j \in k .. Len(events) => j \in Waiting /\ j # 0
    BY <1>1 DEF Waiting
  <2> QED
    BY <2>1, <2>2 DEF SetsFrom, AddsFrom
<1>3. \A k \in Waiting : k + 1 \in Nat /\ k + 1 # 0
  BY <1>1 DEF Waiting
<1>4. /\ \A n : Sets(0, n)' \/ SetsFrom(1, n) => SetsFrom(0, n)'
      /\ \A n : AddsAt(0, n)' \/ AddsFrom(1, n) => AddsFrom(0, n)'
  <2>1. /\ \A n : Sets(0, n)' => SetsFrom(0, n)'
        /\ \A n : AddsAt(0, n)' => AddsFrom(0, n)'
    BY <1>1 DEF SetsFrom, AddsFrom
  <2>2. /\ \A n : SetsFrom(1, n) => SetsFrom(0, n)'
        /\ \A n : AddsFrom(1, n) => AddsFrom(0, n)'
    <3>1. /\ \A n : SetsFrom(1, n)' => SetsFrom(0, n)'
          /\ \A n : AddsFrom(1, n)' => AddsFrom(0, n)'
      BY <1>1 DEF SetsFrom, AddsFrom
    <3>2. \A n : (SetsFrom(1, n)' <=> SetsFrom(1, n)) /\ (AddsFrom(1, n)' <=> AddsFrom(1, n))
      BY <1>2
    <3> QED
      BY <3>1, <3>2
  <2> QED
    BY <2>1, <2>2
<1>5. Shapes'
  BY <1>1 DEF Shapes, Shape
<1>6. Flags'
  BY <1>1, <1>2, <1>3, <1>4 DEF Flags
<1>7. Registered'
  BY <1>1, <1>2, <1>3, <1>4 DEF Registered, Removes
<1> QED
  BY <1>5, <1>6, <1>7

LEMMA DroppedSettles == source' = "dropped" => Settles'
BY DEF Settles

-----------------------------------------------------------------------------
(* The enumeration and the client.                                          *)

(* A step that does no more than go to another place between the calls.     *)
LEMMA MoveSettles ==
  ASSUME Inv, Settles, source # "dropped",
         UNCHANGED <<events, attached, gen, enabled, map, devices>>, node' \subseteq node,
         Offered' \subseteq Offered, At(0)' = At(0),
         pc = "drain" => pc' = "drain" \/ todo = {},
         pc' = "add" => pc = "add" /\ todo' = todo,
         pc \in {"connect", "enum"} => pc' \in {"connect", "enum"},
         \A info \in Offered : info \in Offered' \/ info.num \in Xtest
  PROVE  Settles'
<1> USE DEF Settles
<1>1. pc' = "add" => \A c \in todo' : c.flag = "none"
  BY DEF Shapes
<1>2. \A n : Sets(0, n) => Sets(0, n)'
  BY DEF Sets, At
<1>3. \A n : AddsAt(0, n) => AddsAt(0, n)'
  BY DEF AddsAt
<1>4. \A n \in DOMAIN map' :
         devices'[map'[n]].usable # (n \in enabled) => Sets(0, n)' \/ SetsFrom(1, n)
  BY <1>2, FirstOrLater DEF Flags
<1>5. \A n \in (attached \cap node') \ Xtest :
         Known(n)' \/ AddsAt(0, n)' \/ AddsFrom(1, n)
  BY <1>3, FirstOrLater DEF Registered, Known
<1> QED
  BY <1>1, <1>4, <1>5, HandSettles DEF Flags, Registered

LEMMA ClientSettles == Inv /\ Settles /\ Client => Settles'
<1> SUFFICES ASSUME Inv, Settles, Client PROVE Settles'
  OBVIOUS
<1>1. /\ UNCHANGED <<events, attached, gen, enabled, node, map, devices, todo, source>>
      /\ pc \in {"list", "idle"} /\ pc' = "idle"
  BY DEF Client, CreateContext, FindFirst, server, context
<1>2. Offered' = {} /\ Offered = {} /\ At(0)' = {} /\ At(0) = {}
  BY <1>1 DEF Offered, At
<1> QED
  BY <1>1, <1>2, MoveSettles, DroppedSettles

(* Where add_device has put the device.                                     *)
LEMMA AddedDevice ==
  ASSUME Inv, NEW info \in Offered, AddDevice(info)
  PROVE  /\ DOMAIN map' = DOMAIN map \cup {info.num}
         /\ devices'[map'[info.num]].gen = info.gen
         /\ devices'[map'[info.num]].usable = info.finally
         /\ \A n \in DOMAIN map : n # info.num =>
               map'[n] = map[n] /\ devices'[map'[n]] = devices[map[n]]
<1> DEFINE n == info.num
<1>1. /\ \A x \in DOMAIN map : x # n => map[x] \in DOMAIN devices \ Gone(n)
      /\ nextId \notin DOMAIN devices
  BY DEF Inv, ListType, IsMap, Ids, Announced, Gone
<1>2. /\ DOMAIN map' = DOMAIN map \cup {n} /\ map'[n] = nextId
      /\ \A x \in DOMAIN map : x # n => map'[x] = map[x]
  BY DEF AddDevice, Put
<1>3. /\ devices'[nextId] = [num |-> n, gen |-> info.gen, usable |-> info.finally]
      /\ \A i \in DOMAIN devices \ Gone(n) : devices'[i] = devices[i]
  BY <1>1 DEF AddDevice, Put, Drop, Restrict, UsableAfter
<1> QED
  BY <1>1, <1>2, <1>3

LEMMA EnumerateSettles == Inv /\ Settles /\ Enumerate => Settles'
<1> SUFFICES ASSUME Inv, Settles, Enumerate PROVE Settles'
  OBVIOUS
<1> USE DEF Inv, server, context
<1>0. source # "dropped"
  BY OfferedInfo DEF Enumerate, Connect, ConnectFails, EnumDevices, EnumDone, Control
<1>1. CASE Connect
  <2>1. /\ UNCHANGED <<events, attached, gen, enabled, node, map, devices, todo>>
        /\ pc = "connect" /\ pc' = "enum"
    BY <1>1 DEF Connect
  <2>2. Offered' = {} /\ Offered = {} /\ At(0)' = {} /\ At(0) = {}
    BY <2>1 DEF Offered, At
  <2> QED
    BY <1>0, <2>1, <2>2, MoveSettles
<1>2. CASE ConnectFails
  BY <1>2, DroppedSettles DEF ConnectFails
<1>3. CASE EnumDevices
  <2>1. /\ UNCHANGED <<events, attached, gen, enabled, node, map, devices>>
        /\ pc = "enum" /\ pc' = "infos"
        /\ todo' = {With(Query(n), n \in enabled) : n \in attached}
    BY <1>3 DEF EnumDevices
  <2>2. At(0)' = {} /\ Offered' = todo' /\ \A n : ~Sets(0, n)
    BY <2>1 DEF Offered, At, Sets
  <2>3. \A n \in DOMAIN map' :
           devices'[map'[n]].usable # (n \in enabled) => SetsFrom(1, n)
    BY <1>0, <2>1, <2>2, FirstOrLater DEF Settles, Flags
  <2>4. \A info \in Offered' :
           info.finally = (info.num \in enabled) /\ info.gen = gen[info.num]
    BY <2>1, <2>2 DEF With, Query
  <2>5. \A n \in attached : \E info \in Offered' : info.num = n /\ info.gen = gen[n]
    <3> SUFFICES ASSUME NEW n \in attached
                 PROVE  \E info \in Offered' : info.num = n /\ info.gen = gen[n]
      OBVIOUS
    <3> DEFINE info == With(Query(n), n \in enabled)
    <3>1. info.num = n /\ info.gen = gen[n]
      BY DEF With, Query
    <3>2. info \in Offered'
      BY <2>1, <2>2
    <3> QED
      BY <3>1, <3>2
  <2>6. \A n \in attached : Known(n)'
    BY <2>1, <2>5 DEF Known
  <2> QED
    BY <2>1, <2>2, <2>3, <2>4, <2>6, <1>0, HandSettles
<1>4. CASE EnumDone
  <2>1. /\ UNCHANGED <<events, attached, gen, enabled, node, map, devices, todo>>
        /\ pc = "infos" /\ pc' = "list" /\ todo = {}
    BY <1>4 DEF EnumDone
  <2>2. Offered' = {} /\ Offered = {} /\ At(0)' = {} /\ At(0) = {}
    BY <2>1 DEF Offered, At
  <2> QED
    BY <1>0, <2>1, <2>2, MoveSettles
<1>5. ASSUME NEW info \in Offered PROVE pc \in {"infos", "add"} /\ \A n : ~Sets(0, n)
  BY <1>5, OfferedInfo DEF Sets
<1>6. ASSUME NEW info \in Offered, Return(info)
      PROVE  /\ Offered' = Offered \ {info} /\ At(0)' \subseteq At(0)
             /\ pc' \notin {"add", "connect", "enum"}
             /\ \A n : AddsAt(0, n) => AddsAt(0, n)'
  <2>1. CASE pc = "infos"
    BY <1>6, <2>1 DEF Return, Offered, At, AddsAt
  <2>2. CASE pc = "add"
    <3>1. info = current /\ todo' \subseteq todo /\ pc' = "drain" /\ Offered = {info}
      BY <1>6, <2>2 DEF Return, Offered
    <3>2. \A n : ~AddsAt(0, n)
      BY <1>0, <2>2 DEF Settles, Shapes, AddsAt, At
    <3> QED
      BY <2>2, <3>1, <3>2 DEF Offered, At
  <2> QED
    BY <1>5, <2>1, <2>2
<1>7. ASSUME NEW info \in Offered, SkipUninteresting(info) PROVE Settles'
  <2>1. /\ UNCHANGED <<events, attached, gen, enabled, node, map, devices>>
        /\ info.num \in Xtest /\ Return(info)
    BY <1>7 DEF SkipUninteresting, Interesting
  <2>2. \A n \in DOMAIN map' :
           devices'[map'[n]].usable # (n \in enabled) => SetsFrom(1, n)
    BY <1>0, <1>5, <2>1, FirstOrLater DEF Settles, Flags
  <2>3. \A n \in (attached \cap node) \ Xtest :
           Known(n)' \/ AddsAt(0, n)' \/ AddsFrom(1, n)
    BY <1>0, <1>5, <1>6, <2>1, FirstOrLater DEF Settles, Registered, Known
  <2> QED
    BY <1>0, <1>6, <2>1, <2>2, <2>3, <1>0, HandSettles DEF Settles, Flags, Registered
<1>8. ASSUME NEW info \in Offered, AddDevice(info) PROVE Settles'
  <2>1. UNCHANGED <<events, attached, gen, enabled, node>> /\ Return(info)
    BY <1>8 DEF AddDevice
  <2>2. \A n \in DOMAIN map' :
           devices'[map'[n]].usable # (n \in enabled) => SetsFrom(1, n)
    <3> SUFFICES ASSUME NEW n \in DOMAIN map',
                        devices'[map'[n]].usable # (n \in enabled)
                 PROVE  SetsFrom(1, n)
      OBVIOUS
    <3>1. CASE n = info.num
      BY <1>0, <1>8, <3>1, AddedDevice DEF Settles, Flags
    <3>2. CASE n # info.num
      <4>1. n \in DOMAIN map /\ devices'[map'[n]] = devices[map[n]]
        BY <1>8, <3>2, AddedDevice
      <4>2. SetsFrom(0, n)
        BY <1>0, <4>1 DEF Settles, Flags
      <4> QED
        BY <1>5, <4>2, FirstOrLater
    <3> QED
      BY <3>1, <3>2
  <2>3. \A n \in (attached \cap node) \ Xtest :
           Known(n)' \/ AddsAt(0, n)' \/ AddsFrom(1, n)
    <3> SUFFICES ASSUME NEW n \in (attached \cap node) \ Xtest
                 PROVE  Known(n)' \/ AddsAt(0, n)' \/ AddsFrom(1, n)
      OBVIOUS
    <3>1. Known(n) \/ AddsAt(0, n) \/ AddsFrom(1, n)
      BY <1>0, FirstOrLater DEF Settles, Registered
    <3>2. CASE n = info.num
      BY <1>0, <1>8, <2>1, <3>2, AddedDevice DEF Settles, Registered, Known
    <3>3. CASE n # info.num
      BY <1>5, <1>6, <1>8, <2>1, <3>1, <3>3, AddedDevice DEF Known
    <3> QED
      BY <3>2, <3>3
  <2> QED
    BY <1>0, <1>6, <2>1, <2>2, <2>3, <1>0, HandSettles DEF Settles, Flags, Registered
<1>9. ASSUME NEW info \in Offered, AddThrows(info) PROVE Settles'
  <2>1. CASE source = "enumerating"
    BY <1>9, <2>1, DroppedSettles DEF AddThrows
  <2>2. CASE source # "enumerating"
    <3>1. /\ UNCHANGED <<events, attached, gen, enabled, node>>
          /\ todo' = {} /\ pc' = "idle" /\ pc = "add" /\ Offered = {info}
          /\ info.num \notin attached \cap node
      BY <1>5, <1>9, <2>2 DEF AddThrows, Control, Offered, Resolves
    <3>2. /\ DOMAIN map' = DOMAIN map \ {info.num}
          /\ \A n \in DOMAIN map' :
                map'[n] = map[n] /\ devices'[map'[n]] = devices[map[n]]
      BY <1>9, <2>2 DEF AddThrows, Drop, Restrict, Announced, Gone
    <3>3. Offered' = {} /\ At(0)' = {} /\ \A n : ~AddsAt(0, n)
      BY <1>0, <3>1 DEF Offered, At, AddsAt, Settles, Shapes
    <3>4. \A n \in DOMAIN map' :
             devices'[map'[n]].usable # (n \in enabled) => SetsFrom(1, n)
      BY <1>0, <1>5, <3>2, FirstOrLater DEF Settles, Flags
    <3>5. \A n \in (attached \cap node) \ Xtest : Known(n)' \/ AddsFrom(1, n)
      BY <1>0, <3>1, <3>2, <3>3, FirstOrLater DEF Settles, Registered, Known
    <3> QED
      BY <3>1, <3>3, <3>4, <3>5, <1>0, HandSettles
  <2> QED
    BY <2>1, <2>2
<1> QED
  BY <1>1, <1>2, <1>3, <1>4, <1>7, <1>8, <1>9 DEF Enumerate

-----------------------------------------------------------------------------
(* drain_events. *)

LEMMA TodoTypes ==
  ASSUME Inv, pc = "drain", source # "dropped"
  PROVE  /\ At(0) = todo /\ Offered = {}
         /\ \A c \in todo : c.flag \in {"none", "added", "removed"}
                            /\ c.enabled \in BOOLEAN /\ c.num \in Number
BY DEF Inv, CallType, Control, At, Offered, Change

LEMMA SetUsableSettles == Inv /\ Settles /\ source # "dropped" /\ SetUsable => Settles'
<1> SUFFICES ASSUME Inv, Settles, source # "dropped", SetUsable PROVE Settles'
  OBVIOUS
<1> USE DEF server
<1>1. /\ UNCHANGED <<events, attached, gen, enabled, node, map, pc>>
      /\ pc = "drain" /\ todo' = todo \ Unflagged
  BY DEF SetUsable
<1>2. At(0) = todo /\ At(0)' = todo' /\ Offered = {} /\ Offered' = {}
  BY <1>1, TodoTypes DEF At, Offered
<1>3. Shape(todo)
  BY <1>2, FirstOrLater DEF Settles, Shapes, Waiting
<1>4. \A n \in DOMAIN map : map[n] \in DOMAIN devices /\ devices[map[n]].num = n
                            /\ devices[map[n]].usable \in BOOLEAN
  BY DEF Inv, Announced, ListType, IsMap, Device
<1>5. ASSUME NEW n \in DOMAIN map, devices'[map[n]].usable # (n \in enabled)
      PROVE  SetsFrom(1, n)
  <2> DEFINE i == map[n]
             flag == {c \in Unflagged : c.num = devices[i].num}
             differs == \E c \in flag : Differs(c, i)
  <2>1. devices'[i] = IF differs THEN [devices[i] EXCEPT !.usable = ~@] ELSE devices[i]
    BY <1>4 DEF SetUsable
  <2>2. devices[i] \in Device
    BY <1>4 DEF Inv, ListType, IsMap
  <2>3. devices'[i].usable = IF differs THEN ~devices[i].usable ELSE devices[i].usable
    BY <2>1, <2>2 DEF Device
  <2>4. CASE \E c \in Unflagged : c.num = n
    <3>1. PICK c \in Unflagged : c.num = n
      BY <2>4
    <3>2. c \in todo /\ flag = {c} /\ c.enabled \in BOOLEAN
      BY <1>1, <1>3, <1>4, <3>1, TodoTypes DEF Unflagged, Shape
    <3>3. differs <=> c.enabled # devices[i].usable
      BY <3>2 DEF Differs
    <3>4. devices'[i].usable = c.enabled
      BY <1>4, <2>3, <3>2, <3>3
    <3>5. 0 \in Waiting /\ 0 + 1 = 1
      BY FirstOrLater DEF Waiting
    <3> QED
      BY <1>2, <1>5, <3>1, <3>2, <3>4, <3>5 DEF Settles, Flags
  <2>5. CASE ~\E c \in Unflagged : c.num = n
    <3>1. ~differs
      BY <1>4, <2>5
    <3>2. devices[i].usable # (n \in enabled)
      BY <1>5, <2>3, <3>1
    <3>3. ~Sets(0, n)
      BY <1>2, <1>3, <2>5 DEF Sets, Unflagged, Shape
    <3> QED
      BY <3>2, <3>3, FirstOrLater DEF Settles, Flags
  <2> QED
    BY <2>4, <2>5
<1>6. \A n : AddsAt(0, n) => AddsAt(0, n)'
  BY <1>1, <1>2 DEF AddsAt, Unflagged
<1>7. \A n \in DOMAIN map : devices'[map[n]].gen = devices[map[n]].gen
  BY <1>4 DEF SetUsable, Inv, ListType, IsMap, Device
<1>8. \A n \in (attached \cap node) \ Xtest :
         Known(n)' \/ AddsAt(0, n)' \/ AddsFrom(1, n)
  BY <1>1, <1>2, <1>6, <1>7, FirstOrLater DEF Settles, Registered, Known
<1> QED
  BY <1>1, <1>2, <1>5, <1>8, HandSettles

LEMMA InfoSettles ==
  ASSUME Inv, Settles, source # "dropped", NEW change \in todo,
         SkipInfo(change) \/ RemoveDevice(change) \/ QueryDevice(change)
  PROVE  Settles'
<1> USE DEF server, context
<1> DEFINE m == change.num
<1>1. /\ UNCHANGED <<events, attached, gen, enabled, node>>
      /\ pc = "drain" /\ todo' = todo \ {change}
  BY DEF SkipInfo, RemoveDevice, QueryDevice, OnInfo
<1>2. /\ At(0) = todo /\ Offered = {} /\ 0 \in Waiting /\ 0 + 1 = 1
      /\ change.flag \in {"none", "added", "removed"}
  BY <1>1, TodoTypes, FirstOrLater DEF Waiting
<1>3. Shape(todo)
  BY <1>2 DEF Settles, Shapes
<1>4. \A n \in DOMAIN map :
         devices[map[n]].usable # (n \in enabled) => Sets(0, n) \/ SetsFrom(1, n)
  BY FirstOrLater DEF Settles, Flags
<1>5. \A n \in (attached \cap node) \ Xtest : Known(n) \/ AddsAt(0, n) \/ AddsFrom(1, n)
  BY FirstOrLater DEF Settles, Registered
<1>6. ASSUME change.flag = "removed", pc' = "drain"
      PROVE  /\ At(0)' \subseteq At(0) /\ Offered' = {}
             /\ \A n : Sets(0, n) => Sets(0, n)'
             /\ \A n : AddsAt(0, n) => AddsAt(0, n)'
  BY <1>1, <1>2, <1>6 DEF At, Offered, Sets, AddsAt
<1>7. CASE SkipInfo(change)
  <2>1. change.flag = "removed" /\ UNCHANGED <<pc, map, devices>>
    BY <1>2, <1>3, <1>7 DEF SkipInfo, Removes, Adds, Unflagged, Shape
  <2> QED
    BY <1>1, <1>2, <1>4, <1>5, <1>6, <2>1, HandSettles DEF Known
<1>8. CASE RemoveDevice(change)
  <2>1. change.flag = "removed" /\ pc' = pc
    BY <1>8 DEF RemoveDevice, Removes
  <2>2. /\ DOMAIN map' = DOMAIN map \ {m}
        /\ \A n \in DOMAIN map' :
              map'[n] = map[n] /\ devices'[map'[n]] = devices[map[n]]
    BY <1>8 DEF RemoveDevice, Drop, Restrict, Inv, Announced, Gone
  <2>3. m \in attached => AddsFrom(1, m)
    BY <1>2, <1>8 DEF RemoveDevice, Settles, Registered
  <2>4. \A n \in (attached \cap node) \ Xtest :
           Known(n)' \/ AddsAt(0, n)' \/ AddsFrom(1, n)
    BY <1>1, <1>2, <1>5, <1>6, <2>1, <2>2, <2>3 DEF Known
  <2> QED
    BY <1>1, <1>4, <1>6, <2>1, <2>2, <2>4, HandSettles
<1>9. CASE QueryDevice(change)
  <2>1. /\ UNCHANGED <<map, devices>> /\ change.flag = "added"
        /\ \A c \in todo' : c.flag = "none"
        /\ \A n : ~Sets(0, n)
        /\ \A n : AddsAt(0, n) => n = m
    BY <1>1, <1>2, <1>3, <1>9, TodoTypes DEF QueryDevice, Adds, Shape, Sets, AddsAt
  <2>2. \A n \in DOMAIN map' :
           devices'[map'[n]].usable # (n \in enabled) => SetsFrom(1, n)
    BY <1>1, <1>4, <2>1
  <2>3. At(0)' \subseteq At(0)
    BY <1>1, <1>2 DEF At
  <2>4. CASE m \in attached
    <3>1. Offered' = {current'} /\ current' = With(Query(m), change.enabled) /\ pc' = "add"
      BY <1>9, <2>4 DEF QueryDevice, Offered
    <3>2. /\ current'.num = m /\ current'.gen = gen[m]
          /\ current'.finally = change.enabled
      BY <3>1 DEF With, Query
    <3>3. change.enabled # (m \in enabled) => SetsFrom(1, m)
      BY <1>2 DEF Settles, Flags
    <3>4. \A n \in (attached \cap node) \ Xtest : Known(n)' \/ AddsFrom(1, n)
      BY <1>1, <1>2, <1>5, <2>1, <3>1, <3>2 DEF Known
    <3> QED
      BY <1>1, <2>1, <2>2, <2>3, <3>1, <3>2, <3>3, <3>4, HandSettles
  <2>5. CASE m \notin attached
    <3>1. pc' = "drain" /\ Offered' = {}
      BY <1>1, <1>9, <2>5 DEF QueryDevice, Offered
    <3>2. \A n \in (attached \cap node) \ Xtest : Known(n)' \/ AddsFrom(1, n)
      BY <1>1, <1>2, <1>5, <2>1, <2>5, <3>1 DEF Known
    <3> QED
      BY <1>1, <2>1, <2>2, <2>3, <3>1, <3>2, HandSettles
  <2> QED
    BY <2>4, <2>5
<1> QED
  BY <1>7, <1>8, <1>9

(* A step that reads the first event: what waits moves up.                  *)
LEMMA ReadingSettles ==
  Inv /\ Settles /\ source # "dropped" /\ (DeviceEvent \/ SkipOther \/ HierarchyEvent)
    => Settles'
<1> SUFFICES ASSUME Inv, Settles, source # "dropped",
                    DeviceEvent \/ SkipOther \/ HierarchyEvent
             PROVE  Settles'
  OBVIOUS
<1> USE DEF server, context, Settles
<1>1. /\ UNCHANGED <<attached, gen, enabled, node, map, devices, pc>>
      /\ pc = "drain" /\ todo = {} /\ events # <<>> /\ events' = Tail(events)
      /\ todo' = Content(events[1])
  <2>1. Head(events) = events[1]
    BY EventTypes DEF DeviceEvent, SkipOther, HierarchyEvent, Reading
  <2> QED
    BY <2>1 DEF DeviceEvent, SkipOther, HierarchyEvent, Reading, Content
<1>2. /\ Len(events) \in Nat \ {0} /\ Len(events') = Len(events) - 1
      /\ \A k \in 1 .. Len(events') : events'[k] = events[k + 1]
  BY <1>1, EventTypes
<1>3. Offered = {} /\ Offered' = {}
  BY <1>1 DEF Offered
<1>4. \A k \in Waiting' : k \in Nat /\ k + 1 \in Waiting /\ At(k)' = At(k + 1)
  BY <1>1, <1>2 DEF Waiting, At
<1>5. \A k \in Waiting' : \A n : (Sets(k + 1, n) => Sets(k, n)')
                             /\ (AddsAt(k + 1, n) => AddsAt(k, n)')
  BY <1>1, <1>2, <1>4 DEF Sets, AddsAt
<1>6. \A k \in Nat : \A n : (SetsFrom(k + 1, n) => SetsFrom(k, n)')
                        /\ (AddsFrom(k + 1, n) => AddsFrom(k, n)')
  <2> SUFFICES ASSUME NEW k \in Nat, NEW j \in k + 1 .. Len(events)
               PROVE  j - 1 \in k .. Len(events') /\ j - 1 \in Waiting' /\ (j - 1) + 1 = j
    BY <1>5 DEF SetsFrom, AddsFrom
  <2> QED
    BY <1>2 DEF Waiting
<1>7. \A n : ~Sets(0, n) /\ ~AddsAt(0, n)
  BY <1>1 DEF Sets, AddsAt, At
<1>8. \A n : (SetsFrom(0, n) => SetsFrom(0, n)') /\ (AddsFrom(0, n) => AddsFrom(0, n)')
  <2>1. 0 \in Nat /\ 0 + 1 = 1
    OBVIOUS
  <2>2. \A n : (SetsFrom(0, n) => SetsFrom(1, n)) /\ (AddsFrom(0, n) => AddsFrom(1, n))
    BY <1>7, FirstOrLater
  <2> QED
    BY <1>6, <2>1, <2>2
<1>9. \A k \in Waiting' : \A n : (SetsFrom(k + 1 + 1, n) => SetsFrom(k + 1, n)')
                             /\ (AddsFrom(k + 1 + 1, n) => AddsFrom(k + 1, n)')
  BY <1>4, <1>6
<1>10. Shapes'
  BY <1>1, <1>4 DEF Shapes, Shape
<1>11. Flags'
  BY <1>1, <1>3, <1>4, <1>8, <1>9 DEF Flags
<1>12. Registered'
  BY <1>1, <1>3, <1>4, <1>8, <1>9 DEF Registered, Known, Removes
<1> QED
  BY <1>10, <1>11, <1>12

LEMMA DrainSettles == Inv /\ Settles /\ DrainEvents => Settles'
<1> SUFFICES ASSUME Inv, Settles, DrainEvents PROVE Settles'
  OBVIOUS
<1>1. source' = source
  BY DEF DrainEvents, StartDrain, DeviceEvent, SkipOther, HierarchyEvent, SetUsable,
         FinishDrain, SkipInfo, RemoveDevice, QueryDevice
<1>2. CASE source = "dropped"
  BY <1>1, <1>2, DroppedSettles
<1>3. CASE source # "dropped"
  <2>1. CASE StartDrain \/ FinishDrain
    <3>1. /\ UNCHANGED <<events, attached, gen, enabled, node, map, devices, todo>>
          /\ pc \in {"idle", "drain"} /\ pc' \in {"idle", "drain"} /\ todo = {}
      BY <2>1 DEF StartDrain, FinishDrain, server, context, Inv, Control
    <3>2. Offered' = {} /\ Offered = {} /\ At(0)' = {} /\ At(0) = {}
      BY <3>1 DEF Offered, At
    <3> QED
      BY <1>3, <3>1, <3>2, MoveSettles
  <2> QED
    BY <1>3, <2>1, ReadingSettles, SetUsableSettles, InfoSettles DEF DrainEvents
<1> QED
  BY <1>2, <1>3

-----------------------------------------------------------------------------
(* The server. *)

LEMMA ShapeInfos ==
  ASSUME NEW nums, NEW on, NEW n, NEW flag \in {"none", "added"}
  PROVE  /\ Shape(Infos(nums, on, n, flag))
         /\ \A c \in Infos(nums, on, n, flag) :
               /\ c.num \in nums /\ c.enabled = (c.num \in on) /\ ~Removes(c)
               /\ c.flag = IF c.num = n THEN flag ELSE "none"
         /\ \A m \in nums : \E c \in Infos(nums, on, n, flag) :
               /\ c.num = m /\ c.enabled = (m \in on)
               /\ c.flag = IF m = n THEN flag ELSE "none"
<1> DEFINE info(m) == [num |-> m, flag |-> IF m = n THEN flag ELSE "none",
                       enabled |-> m \in on, slave |-> TRUE]
<1>1. Infos(nums, on, n, flag) = {info(m) : m \in nums}
  BY DEF Infos
<1>2. \A m : /\ info(m).num = m /\ info(m).enabled = (m \in on) /\ info(m).slave
             /\ info(m).flag = IF m = n THEN flag ELSE "none"
  OBVIOUS
<1> HIDE DEF info
<1> QED
  BY <1>1, <1>2 DEF Shape, Removes

(* A step of the server that sends new: what it sends is right about what   *)
(* it leaves, or is set right by what it sends behind, and it tells of what *)
(* it changes.                                                              *)
LEMMA SentSettles ==
  ASSUME Inv, Settles, pc # "connect", source # "dropped",
         UNCHANGED <<map, devices, todo, current, pc>>,
         NEW new \in Seq(Event), events' = events \o new,
         NEW len, len = Len(events),
         \A k \in DOMAIN new : Shape(Content(new[k])),
         \A k \in DOMAIN new : \A c \in Content(new[k]) :
            c.enabled # (c.num \in enabled') => SetsFrom(len + k + 1, c.num)',
         \A n : (n \in enabled') # (n \in enabled) => SetsFrom(len + 1, n)',
         \A k \in DOMAIN new : \A c \in Content(new[k]) :
            Removes(c) => c.num \notin attached',
         \A n \in attached' : n \notin attached \/ gen'[n] # gen[n] => AddsFrom(len + 1, n)',
         \A n \in node' : n \notin node => AddsFrom(len + 1, n)'
  PROVE  Settles'
<1> USE DEF Settles
<1>1. /\ len \in Nat /\ Len(new) \in Nat /\ Len(events') = len + Len(new)
      /\ DOMAIN new = 1 .. Len(new) /\ DOMAIN events = 1 .. len
      /\ \A k \in 1 .. len : events'[k] = events[k]
      /\ \A k \in 1 .. Len(new) : events'[len + k] = new[k]
  BY EventTypes
<1>2. /\ \A k \in Waiting : k \in 0 .. len /\ k \in Waiting' /\ At(k)' = At(k)
      /\ Waiting = 0 .. len
  BY <1>1 DEF Waiting, At
<1>3. ASSUME NEW k \in Waiting', k \notin Waiting
      PROVE  /\ k - len \in DOMAIN new /\ len + (k - len) = k
             /\ At(k)' = Content(new[k - len])
  <2>1. k - len \in 1 .. Len(new) /\ len + (k - len) = k /\ k # 0
    BY <1>1, <1>2, <1>3 DEF Waiting
  <2>2. events'[k] = new[k - len]
    BY <1>1, <2>1
  <2> QED
    BY <1>1, <2>1, <2>2 DEF At
<1>4. Offered' = Offered
  BY DEF Offered
<1>5. \A k \in 0 .. len + 1 : \A n :
         SetsFrom(k, n) \/ (n \in enabled') # (n \in enabled) => SetsFrom(k, n)'
  <2> SUFFICES ASSUME NEW k \in 0 .. len + 1, NEW n,
                      SetsFrom(k, n) \/ (n \in enabled') # (n \in enabled)
               PROVE  SetsFrom(k, n)'
    OBVIOUS
  <2>1. CASE (n \in enabled') # (n \in enabled)
    <3>1. SetsFrom(len + 1, n)'
      BY <2>1
    <3> QED
      BY <1>1, <3>1 DEF SetsFrom
  <2>2. CASE (n \in enabled') = (n \in enabled)
    <3>1. PICK j \in k .. len : Sets(j, n)
      BY <2>2 DEF SetsFrom
    <3>2. j \in k .. Len(events') /\ At(j)' = At(j)
      BY <1>1, <1>2
    <3>3. Sets(j, n)'
      BY <2>2, <3>1, <3>2 DEF Sets
    <3> QED
      BY <3>2, <3>3 DEF SetsFrom
  <2> QED
    BY <2>1, <2>2
<1>6. \A k \in 0 .. len + 1 : \A n :
         AddsFrom(k, n) \/ AddsFrom(len + 1, n)' => AddsFrom(k, n)'
  <2> SUFFICES ASSUME NEW k \in 0 .. len + 1, NEW n,
                      AddsFrom(k, n) \/ AddsFrom(len + 1, n)'
               PROVE  AddsFrom(k, n)'
    OBVIOUS
  <2>1. CASE AddsFrom(len + 1, n)'
    BY <1>1, <2>1 DEF AddsFrom
  <2>2. CASE AddsFrom(k, n)
    <3>1. PICK j \in k .. len : AddsAt(j, n)
      BY <2>2 DEF AddsFrom
    <3>2. j \in k .. Len(events') /\ At(j)' = At(j)
      BY <1>1, <1>2
    <3> QED
      BY <3>1, <3>2 DEF AddsFrom, AddsAt
  <2> QED
    BY <2>1, <2>2
<1>7. \A k \in Waiting : k + 1 \in 0 .. len + 1
  BY <1>1, <1>2
<1>8. 0 \in 0 .. len + 1 /\ 1 \in 0 .. len + 1
  BY <1>1
<1>9. Shapes'
  BY <1>2, <1>3 DEF Shapes, Shape
<1>10. Flags'
  <2>1. ASSUME NEW k \in Waiting', NEW c \in At(k)', c.enabled # (c.num \in enabled')
        PROVE  SetsFrom(k + 1, c.num)'
    <3>1. CASE k \in Waiting
      BY <1>2, <1>5, <1>7, <2>1, <3>1 DEF Flags
    <3>2. CASE k \notin Waiting
      BY <1>3, <2>1, <3>2
    <3> QED
      BY <3>1, <3>2
  <2>2. ASSUME NEW n \in DOMAIN map', devices'[map'[n]].usable # (n \in enabled')
        PROVE  SetsFrom(0, n)'
    BY <1>5, <1>8, <2>2 DEF Flags
  <2>3. ASSUME NEW info \in Offered', info.finally # (info.num \in enabled')
        PROVE  SetsFrom(1, info.num)'
    BY <1>4, <1>5, <1>8, <2>3 DEF Flags
  <2> QED
    BY <2>1, <2>2, <2>3 DEF Flags
<1>11. Registered'
  <2>1. ASSUME NEW n \in (attached' \cap node') \ Xtest PROVE Known(n)' \/ AddsFrom(0, n)'
    <3>1. CASE n \in attached \cap node /\ gen'[n] = gen[n]
      BY <1>4, <1>6, <1>8, <2>1, <3>1 DEF Registered, Known
    <3>2. CASE ~(n \in attached \cap node /\ gen'[n] = gen[n])
      BY <1>6, <1>8, <2>1, <3>2
    <3> QED
      BY <3>1, <3>2
  <2>2. ASSUME NEW k \in Waiting', NEW c \in At(k)', Removes(c), c.num \in attached'
        PROVE  AddsFrom(k + 1, c.num)'
    <3>1. CASE k \in Waiting
      BY <1>2, <1>6, <1>7, <2>2, <3>1 DEF Registered
    <3>2. CASE k \notin Waiting
      BY <1>3, <2>2, <3>2
    <3> QED
      BY <3>1, <3>2
  <2>3. ASSUME NEW info \in Offered', info.num \in attached', info.gen # gen'[info.num]
        PROVE  AddsFrom(1, info.num)'
    BY <1>4, <1>6, <1>8, <2>3 DEF Registered
  <2> QED
    BY <2>1, <2>2, <2>3 DEF Registered, Removes
<1> QED
  BY <1>9, <1>10, <1>11

LEMMA Appended ==
  ASSUME NEW s \in Seq(Event), NEW t \in Seq(Event)
  PROVE  /\ Len(s \o t) = Len(s) + Len(t)
         /\ \A k \in 1 .. Len(t) : (s \o t)[Len(s) + k] = t[k]
OBVIOUS

(* An event behind the others that flags no device sets every flag.         *)
LEMMA LastSets ==
  ASSUME NEW k \in Nat \ {0}, k <= Len(events'), Len(events') \in Nat,
         NEW nums, NEW n,
         Content(events'[k]) = Infos(nums, enabled', n, "none")
  PROVE  \A m \in nums, j \in 1 .. k : SetsFrom(j, m)'
<1>1. At(k)' = Infos(nums, enabled', n, "none")
  BY DEF At, Content
<1>2. \A m \in nums : Sets(k, m)'
  BY <1>1, ShapeInfos DEF Sets
<1> QED
  BY <1>2 DEF SetsFrom

LEMMA ServerSettles == Inv /\ Settles /\ Server => Settles'
<1> SUFFICES ASSUME Inv, Settles, Server PROVE Settles'
  OBVIOUS
<1> USE DEF context
<1>1. UNCHANGED <<map, devices, todo, current, pc, source>>
  BY DEF Server, Plug, Yank, Detach, Toggle, Press, Remap, Arrive
<1>2. PICK len : len = Len(events)
  OBVIOUS
<1>3. len \in Nat /\ ServerType
  BY <1>2, EventTypes DEF Inv
<1>4. CASE source = "dropped"
  BY <1>1, <1>4, DroppedSettles
<1>5. CASE pc = "connect"
  <2>1. events' = <<>> /\ DOMAIN map' = {} /\ Offered' = {} /\ At(0)' = {}
    BY <1>1, <1>5 DEF Inv, Control, Server, Plug, Yank, Detach, Toggle, Press, Remap,
                      Arrive, Sent, Offered, At
  <2> QED
    BY <1>1, <1>5, <2>1
    DEF Settles, Shapes, Flags, Registered, Waiting, Shape, Known
<1>6. ASSUME pc # "connect", source # "dropped" PROVE Settles'
  <2> USE <1>6
  <2>1. ASSUME NEW n \in Number, NEW on \in BOOLEAN, Plug(n, on) PROVE Settles'
    <3> DEFINE one == Hierarchy(Infos(attached', enabled, n, "added"))
               two == Hierarchy(Infos(attached', enabled', n, "none"))
               new == <<one>> \o IF on THEN <<two>> ELSE <<>>
    <3>1. /\ attached' = attached \cup {n} /\ node' = node \cup {n}
          /\ n \notin attached /\ n \notin enabled /\ attached' \subseteq Number
          /\ enabled' = IF on THEN enabled \cup {n} ELSE enabled
          /\ gen' = [gen EXCEPT ![n] = @ + 1] /\ events' = events \o new
      BY <1>3, <2>1 DEF Plug, Sent, ServerType
    <3>2. /\ one \in Event /\ Content(one) = Infos(attached', enabled, n, "added")
          /\ two \in Event /\ Content(two) = Infos(attached', enabled', n, "none")
      BY <3>1, InfosType, HierarchyType DEF Hierarchy, Content
    <3> HIDE DEF one, two
    <3>3. /\ new \in Seq(Event) /\ new[1] = one /\ 1 \in DOMAIN new
          /\ DOMAIN new = IF on THEN {1, 2} ELSE {1}
          /\ on => new[2] = two
          /\ Len(events') = len + IF on THEN 2 ELSE 1
          /\ events'[len + 1] = one
          /\ on => events'[len + 2] = two
      <4>1. events \in Seq(Event)
        BY <1>3 DEF ServerType
      <4>2. CASE on
        <5>1. new \in Seq(Event) /\ Len(new) = 2 /\ new[1] = one /\ new[2] = two
          <6>1. new = <<one>> \o <<two>>
            BY <4>2
          <6>2. <<one>> \in Seq(Event) /\ <<two>> \in Seq(Event)
            BY <3>2
          <6> HIDE DEF new
          <6> QED
            BY <6>1, <6>2
        <5> HIDE DEF new
        <5> QED
          <6>1. DOMAIN new = {1, 2}
            BY <5>1
          <6>2. events' = events \o new
            BY <3>1
          <6>3. /\ Len(events') = len + 2
                /\ events'[len + 1] = new[1]
                /\ events'[len + 2] = new[2]
            <7>1. /\ Len(events \o new) = Len(events) + 2
                  /\ \A k \in 1 .. 2 : (events \o new)[Len(events) + k] = new[k]
              BY <4>1, <5>1, Appended
            <7>2. /\ Len(events \o new) = len + 2
                  /\ (events \o new)[len + 1] = new[1]
                  /\ (events \o new)[len + 2] = new[2]
              BY <1>2, <7>1
            <7> QED
              BY <6>2, <7>2
          <6> QED
            BY <4>2, <5>1, <6>1, <6>3
      <4>3. CASE ~on
        <5>1. new = <<one>>
          BY <4>3, <3>2
        <5> HIDE DEF new
        <5> QED
          BY <1>2, <1>3, <3>1, <3>2, <4>1, <4>3, <5>1
      <4> QED
        BY <4>2, <4>3
    <3> HIDE DEF new
    <3>4. /\ \A k \in DOMAIN new : Shape(Content(new[k]))
          /\ \A k \in DOMAIN new : \A c \in Content(new[k]) : ~Removes(c)
          /\ \A k \in DOMAIN new : \A c \in Content(new[k]) : c.num \in attached'
          /\ \A c \in Content(one) : c.enabled = (c.num \in enabled)
          /\ \A c \in Content(two) : c.enabled = (c.num \in enabled')
      BY <3>2, <3>3, ShapeInfos
    <3>5. on => \A m \in attached', j \in 1 .. len + 2 : SetsFrom(j, m)'
      BY <1>3, <3>2, <3>3, LastSets
    <3>6. AddsFrom(len + 1, n)'
      <4>1. /\ At(len + 1)' = Content(one)
            /\ len + 1 \in len + 1 .. Len(events')
        BY <1>3, <3>3 DEF At
      <4>2. AddsAt(len + 1, n)'
        BY <3>1, <3>2, <4>1, ShapeInfos DEF AddsAt
      <4> QED
        BY <4>1, <4>2 DEF AddsFrom
    <3>7. \A k \in DOMAIN new : \A c \in Content(new[k]) :
             c.enabled # (c.num \in enabled') => SetsFrom(len + k + 1, c.num)'
      <4>1. ASSUME NEW c \in Content(one), c.enabled # (c.num \in enabled')
            PROVE  on /\ c.num \in attached'
        BY <3>1, <3>3, <3>4, <4>1
      <4>2. len + 1 + 1 \in 1 .. len + 2
        BY <1>3
      <4> QED
        BY <3>3, <3>4, <3>5, <4>1, <4>2
    <3>8. \A m : (m \in enabled') # (m \in enabled) => SetsFrom(len + 1, m)'
      <4>1. len + 1 \in 1 .. len + 2
        BY <1>3
      <4> QED
        BY <3>1, <3>5, <4>1
    <3>9. /\ \A m \in attached' : m \notin attached \/ gen'[m] # gen[m] => AddsFrom(len + 1, m)'
          /\ \A m \in node' : m \notin node => AddsFrom(len + 1, m)'
      BY <1>3, <3>1, <3>6 DEF ServerType
    <3> QED
      BY <1>1, <1>2, <3>1, <3>3, <3>4, <3>7, <3>8, <3>9, SentSettles
  <2>2. ASSUME NEW n \in Number, Yank(n) PROVE Settles'
    <3>1. UNCHANGED <<events, attached, gen, enabled>> /\ node' \subseteq node
      BY <2>2 DEF Yank
    <3>2. Offered' = Offered /\ At(0)' = At(0)
      BY <1>1 DEF Offered, At
    <3> QED
      BY <1>1, <3>1, <3>2, MoveSettles
  <2>3. ASSUME NEW n \in Number, Detach(n) PROVE Settles'
    <3> DEFINE forgotten == [num |-> n, flag |-> "removed", enabled |-> FALSE,
                             slave |-> namesUse]
               removal == Hierarchy(Infos(attached', enabled', n, "none") \cup {forgotten})
               off == Hierarchy(Infos(attached, enabled', n, "none"))
               new == IF n \in enabled THEN <<off, removal>> ELSE <<removal>>
               last == IF n \in enabled THEN 2 ELSE 1
    <3>1. /\ attached' = attached \ {n} /\ enabled' = enabled \ {n} /\ node' = node
          /\ n \in attached /\ attached' \subseteq Number /\ attached \subseteq Number
          /\ gen' = gen /\ events' = events \o new
      BY <1>3, <2>3 DEF Detach, Sent, ServerType
    <3>2. forgotten \in Change
      BY <1>3 DEF ServerType, Change
    <3>3. /\ removal \in Event
          /\ Content(removal) = Infos(attached', enabled', n, "none") \cup {forgotten}
          /\ off \in Event /\ Content(off) = Infos(attached, enabled', n, "none")
      BY <3>1, <3>2, InfosType, HierarchyType DEF Hierarchy, Content
    <3>4. /\ forgotten.num = n /\ forgotten.flag = "removed"
          /\ forgotten.enabled = FALSE
      OBVIOUS
    <3> HIDE DEF off, removal, forgotten
    <3>5. /\ new \in Seq(Event) /\ DOMAIN new = 1 .. last
          /\ new[last] = removal /\ last \in DOMAIN new
          /\ n \in enabled => new[1] = off
          /\ \A k \in DOMAIN new : new[k] \in {off, removal}
          /\ Len(events') = len + last
          /\ n \in enabled => events'[len + 1] = off
      <4>1. events \in Seq(Event)
        BY <1>3 DEF ServerType
      <4>2. CASE n \in enabled
        <5>1. new = <<off, removal>> /\ last = 2
          BY <4>2
        <5> HIDE DEF new
        <5> QED
          BY <1>2, <1>3, <3>1, <3>3, <4>1, <4>2, <5>1
      <4>3. CASE n \notin enabled
        <5>1. new = <<removal>> /\ last = 1
          BY <4>3
        <5> HIDE DEF new
        <5> QED
          BY <1>2, <1>3, <3>1, <3>3, <4>1, <4>3, <5>1
      <4> QED
        BY <4>2, <4>3
    <3> HIDE DEF new
    <3>6. Shape(Content(off)) /\ Shape(Content(removal))
      <4>1. Shape(Content(off)) /\ Shape(Infos(attached', enabled', n, "none"))
        BY <3>3, ShapeInfos
      <4>2. \A c \in Infos(attached', enabled', n, "none") : c.num # n /\ c.flag = "none"
        BY <3>1, ShapeInfos
      <4>3. Content(removal) = Infos(attached', enabled', n, "none") \cup {forgotten}
        BY <3>3
      <4> QED
        BY <3>4, <4>1, <4>2, <4>3 DEF Shape
    <3>7. \A c \in Content(off) \cup Content(removal) :
             /\ c.enabled = (c.num \in enabled')
             /\ Removes(c) => c.num = n
      <4>1. \A c \in Infos(attached', enabled', n, "none")
                       \cup Infos(attached, enabled', n, "none") :
               c.enabled = (c.num \in enabled') /\ ~Removes(c)
        BY ShapeInfos
      <4>2. forgotten.enabled = (forgotten.num \in enabled')
        <5>1. n \notin enabled'
          BY <3>1
        <5>2. (n \in enabled') = FALSE
          BY <5>1
        <5> QED
          BY <3>4, <5>2
      <4> QED
        BY <3>3, <3>4, <4>1, <4>2
    <3>8. \A m : (m \in enabled') # (m \in enabled) => SetsFrom(len + 1, m)'
      <4> SUFFICES ASSUME n \in enabled PROVE SetsFrom(len + 1, n)'
        BY <3>1
      <4>1. len + 1 \in Nat \ {0} /\ len + 1 <= Len(events') /\ Len(events') \in Nat
            /\ len + 1 \in 1 .. len + 1
        BY <1>3, <3>5
      <4>2. Content(events'[len + 1]) = Infos(attached, enabled', n, "none")
        BY <3>3, <3>5
      <4> QED
        BY <3>1, <4>1, <4>2, LastSets
    <3>9. /\ \A k \in DOMAIN new : Shape(Content(new[k]))
          /\ \A k \in DOMAIN new : \A c \in Content(new[k]) :
                c.enabled = (c.num \in enabled') /\ (Removes(c) => c.num \notin attached')
      BY <3>1, <3>5, <3>6, <3>7
    <3> QED
      BY <1>1, <1>2, <3>1, <3>5, <3>8, <3>9, SentSettles
  <2>4. ASSUME NEW n \in Number, Toggle(n) PROVE Settles'
    <3> DEFINE e == Hierarchy(Infos(attached, enabled', n, "none"))
               new == <<e>>
    <3>1. /\ UNCHANGED <<attached, gen, node>> /\ events' = events \o new
          /\ n \in attached /\ enabled' \subseteq enabled \cup {n}
          /\ enabled \subseteq enabled' \cup {n}
      BY <1>3, <2>4 DEF Toggle, Sent, ServerType
    <3>2. e \in Event /\ Content(e) = Infos(attached, enabled', n, "none")
      BY <1>3, InfosType, HierarchyType DEF ServerType, Hierarchy, Content
    <3> HIDE DEF e
    <3>3. /\ new \in Seq(Event) /\ DOMAIN new = {1} /\ new[1] = e
          /\ Len(events') = len + 1 /\ events'[len + 1] = e
      BY <1>2, <1>3, <3>1, <3>2, EventTypes
    <3> HIDE DEF new
    <3>4. Shape(Content(e)) /\ \A c \in Content(e) :
             c.enabled = (c.num \in enabled') /\ ~Removes(c)
      BY <3>2, ShapeInfos
    <3>5. \A m : (m \in enabled') # (m \in enabled) => SetsFrom(len + 1, m)'
      <4>1. len + 1 \in Nat \ {0} /\ len + 1 <= Len(events') /\ Len(events') \in Nat
            /\ len + 1 \in 1 .. len + 1
        BY <1>3, <3>3
      <4>2. Content(events'[len + 1]) = Infos(attached, enabled', n, "none")
        BY <3>2, <3>3
      <4>3. SetsFrom(len + 1, n)'
        BY <3>1, <4>1, <4>2, LastSets
      <4> QED
        BY <3>1, <4>3
    <3> QED
      BY <1>1, <1>2, <3>1, <3>3, <3>4, <3>5, SentSettles
  <2>5. ASSUME NEW e \in Event, Arrive(e), e.type # "hierarchy" PROVE Settles'
    <3> DEFINE new == <<e>>
    <3>1. UNCHANGED <<attached, gen, node, enabled>> /\ events' = events \o new
      BY <2>5 DEF Arrive, Sent
    <3>2. new \in Seq(Event) /\ DOMAIN new = {1} /\ new[1] = e
      OBVIOUS
    <3>3. Content(e) = {}
      BY <2>5 DEF Content
    <3> HIDE DEF new
    <3> QED
      BY <1>1, <1>2, <3>1, <3>2, <3>3, SentSettles DEF Shape
  <2>6. ASSUME NEW n \in Number, Press(n) PROVE Settles'
    <3> DEFINE e == [type |-> "raw", num |-> n, gen |-> gen[n]]
    <3>1. e \in Event /\ e.type = "raw"
      BY <1>3 DEF Event, RawEvent, ServerType
    <3>2. Arrive(e)
      BY <2>6 DEF Press
    <3> HIDE DEF e
    <3> QED
      BY <2>5, <3>1, <3>2
  <2>7. ASSUME Remap PROVE Settles'
    <3> DEFINE e == [type |-> "other"]
    <3>1. e \in Event /\ e.type = "other"
      BY DEF Event, OtherEvent
    <3>2. Arrive(e)
      BY <2>7 DEF Remap
    <3> HIDE DEF e
    <3> QED
      BY <2>5, <3>1, <3>2
  <2> QED
    BY <2>1, <2>2, <2>3, <2>4, <2>6, <2>7 DEF Server
<1> QED
  BY <1>4, <1>5, <1>6

(* Once every event is read and no device hangs between kernel and server,  *)
(* the devices of the library are the server's, in their present            *)
(* incarnations and with their present flags, although queries run ahead of *)
(* the events and drains that throw give up the rest of an event; only a    *)
(* server that does not name the use of a removed device leaves one behind, *)
(* which is not usable.                                                     *)
THEOREM SettledCorrect == Spec => []SettledAgrees
<1>1. Inv /\ Settles /\ [Next]_vars => Settles'
  <2> SUFFICES ASSUME Inv, Settles, UNCHANGED vars PROVE Settles'
    BY ServerSettles, EnumerateSettles, DrainSettles, ClientSettles DEF Next, Library
  <2>1. UNCHANGED <<events, attached, gen, enabled, node, map, devices, todo, current, pc,
                    source>>
    BY DEF vars, server, context
  <2>2. Offered' = Offered /\ At(0)' = At(0)
    BY <2>1 DEF Offered, At
  <2> QED
    BY <2>1, <2>2, MoveSettles, DroppedSettles
<1>2. Spec => []Settles
  BY InitSettled, <1>1, Invariant, PTL DEF Spec
<1>3. Init => (namesUse => Routes)
  BY EmptyMapType DEF Init, Routes, Holds
<1>4. Spec => [](namesUse => Routes)
  BY <1>3, StepRoutes, Invariant, PTL DEF Spec
<1> QED
  BY <1>2, <1>4, Invariant, SettledInv, PTL
=============================================================================
