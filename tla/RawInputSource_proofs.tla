------------------------ MODULE RawInputSource_proofs ------------------------
(***************************************************************************)
(* Proofs about RawInputSource, for any handles, other devices, upsets and *)
(* bounds: the types, that context, client, events and map have one list   *)
(* of devices, that the source implements DeviceLifecycle, and that the    *)
(* list is of the devices attached once no message is left: but for those  *)
(* looked up in vain, and of all of them where SetupAPI keeps up.          *)
(***************************************************************************)
EXTENDS RawInputSource, TLAPS, FiniteSetTheorems, SequenceTheorems

(* What the operations on maps and on the client's dictionary return.       *)
LEMMA EmptyMapType ==
  ASSUME NEW S, NEW T
  PROVE  IsMap(EmptyMap, S, T) /\ DOMAIN EmptyMap = {}
BY DEF EmptyMap, IsMap

Entry == {"named", "nameless"}

LEMMA NotifiedMirror ==
  ASSUME NEW m, NEW S, IsMap(m, S, Entry), NEW ids, ids \subseteq S, NEW known
  PROVE  /\ IsMap(Notified(m, ids, known), S, Entry)
         /\ mirrorReady => DOMAIN Notified(m, ids, known) = DOMAIN m \cup ids
<1>1. /\ DOMAIN GetDevice(m, ids, known) = DOMAIN m \cup ids
      /\ IsMap(GetDevice(m, ids, known), S, Entry)
  BY DEF GetDevice, IsMap, Entry
<1> QED
  BY <1>1 DEF Notified

(* The types of what add_device and remove_device change, and of the rest.  *)
ListType ==
  /\ nextId \in Nat \ {0}
  /\ IsMap(devices, Ids, Handle \ Other) /\ IsMap(told, Ids, {"created", "removed"})
  /\ uncommitted \subseteq Ids
  /\ IsMap(map, Handle \ Other, Ids)
  /\ MirrorType(Ids)

SystemType ==
  /\ present \subseteq used /\ used \subseteq Handle /\ listed \subseteq present
  /\ messages \in Seq(Message) /\ inputs \in Nat
  /\ source \in {"enumerating", "running", "dropped"}
  /\ pc \in {"connect", "list", "setup", "add", "mirror", "idle"}
  /\ todo \subseteq Handle /\ setup \subseteq Handle /\ missed \subseteq Handle

LEMMA SplitType == TypeOK <=> ListType /\ SystemType
BY DEF TypeOK, ListType, SystemType

(* OneList without the last condition: a source that was dropped has an     *)
(* empty map, and nothing is done in its name any more.                     *)
Announced ==
  /\ DOMAIN devices = {i \in DOMAIN told : told[i] = "created"}
  /\ mirrorReady => DOMAIN mirror = DOMAIN devices
  /\ uncommitted \subseteq DOMAIN devices
  /\ \A h \in DOMAIN map : map[h] \in DOMAIN devices /\ devices[map[h]] = h

Mapped ==
  source # "dropped" =>
    \A i \in DOMAIN devices : devices[i] \in DOMAIN map /\ map[devices[i]] = i

Dropped ==
  source = "dropped" =>
    pc \in {"mirror", "idle"} /\ messages = <<>> /\ todo = {} /\ DOMAIN map = {}

Inv == ListType /\ SystemType /\ Announced /\ Mapped /\ Dropped

LEMMA InvOneList == Inv => TypeOK /\ OneList
BY SplitType DEF Inv, Announced, Mapped, OneList

LEMMA InitInv == Init => Inv
<1> SUFFICES ASSUME Init PROVE Inv
  OBVIOUS
<1> USE DEF Init, MirrorInit
<1>1. ListType
  <2>1. /\ IsMap(devices, Ids, Handle \ Other) /\ IsMap(told, Ids, {"created", "removed"})
        /\ IsMap(map, Handle \ Other, Ids)
        /\ IsMap(mirror, Ids, {"named", "nameless"})
    BY EmptyMapType DEF Ids
  <2>2. nextId = 1 /\ uncommitted = {} /\ mirrorReady = FALSE
    OBVIOUS
  <2>3. nextId \in Nat \ {0}
    BY ONLY <2>2
  <2> HIDE DEF Init, MirrorInit
  <2> QED
    BY <2>1, <2>2, <2>3, Zenon DEF ListType, MirrorType
<1>2. SystemType
  BY RawAssumption DEF SystemType
<1>3. Announced /\ Mapped /\ Dropped
  BY EmptyMapType DEF Announced, Mapped, Dropped
<1> QED
  BY <1>1, <1>2, <1>3 DEF Inv

-----------------------------------------------------------------------------
(* add_device and remove_device.                                            *)

(* A step that leaves context, map and mirror alone keeps the lists.        *)
LEMMA Untouched ==
  ASSUME ListType, Announced, UNCHANGED <<context, map, mirrorVars>>
  PROVE  ListType' /\ Announced'
BY DEF ListType, Announced, context, mirrorVars, MirrorType, IsMap, Ids

LEMMA AddKeeps ==
  ASSUME Inv, NEW h \in todo, AddDevice(h)
  PROVE  Inv'
<1> USE DEF Inv
<1>a. h \in Handle \ Other /\ h \notin DOMAIN map /\ pc = "add"
  BY DEF SystemType, AddDevice, Adding, Already, KeyboardOrMouse
<1>b. /\ nextId \in Nat \ {0} /\ nextId' = nextId + 1
      /\ Ids \subseteq Ids' /\ nextId \in Ids' /\ nextId \notin Ids
  BY DEF ListType, AddDevice, NextId, Ids
<1>c. mirrorReady' = mirrorReady /\ uncommitted' = uncommitted /\ source' = source
  BY DEF AddDevice
<1>1. /\ IsMap(devices', Ids', Handle \ Other)
      /\ DOMAIN devices' = DOMAIN devices \cup {nextId}
      /\ devices'[nextId] = h
      /\ \A i \in DOMAIN devices : devices'[i] = devices[i]
  <2>1. IsMap(devices, Ids, Handle \ Other) /\ devices' = Put(devices, nextId, h)
    BY DEF ListType, AddDevice
  <2> QED
    BY <2>1, <1>a, <1>b DEF Put, IsMap
<1>2. /\ IsMap(told', Ids', {"created", "removed"})
      /\ DOMAIN told' = DOMAIN told \cup {nextId}
      /\ told'[nextId] = "created"
      /\ \A i \in DOMAIN told : told'[i] = told[i]
  <2>1. IsMap(told, Ids, {"created", "removed"}) /\ told' = Put(told, nextId, "created")
    BY DEF ListType, AddDevice
  <2> QED
    BY <2>1, <1>b DEF Put, IsMap
<1>3. /\ IsMap(map', Handle \ Other, Ids')
      /\ DOMAIN map' = DOMAIN map \cup {h}
      /\ map'[h] = nextId
      /\ \A x \in DOMAIN map : map'[x] = map[x]
  <2>1. IsMap(map, Handle \ Other, Ids) /\ map' = Put(map, h, nextId)
    BY DEF ListType, AddDevice
  <2> QED
    BY <2>1, <1>a, <1>b DEF Put, IsMap
<1>4. /\ IsMap(mirror', Ids', Entry)
      /\ mirrorReady => DOMAIN mirror' = DOMAIN mirror \cup {nextId}
  <2>1. IsMap(mirror, Ids, Entry) /\ mirror' = Notified(mirror, {nextId}, TRUE)
    BY DEF ListType, MirrorType, Entry, AddDevice
  <2> DEFINE I == Ids'
  <2>2. IsMap(mirror, I, Entry) /\ {nextId} \subseteq I
    BY <2>1, <1>b DEF IsMap
  <2> HIDE DEF I
  <2>3. \A known : /\ IsMap(Notified(mirror, {nextId}, known), I, Entry)
                   /\ mirrorReady => DOMAIN Notified(mirror, {nextId}, known)
                                       = DOMAIN mirror \cup {nextId}
    BY ONLY <2>2, NotifiedMirror
  <2> QED
    BY <2>1, <2>3, Zenon DEF I
<1>5. ListType'
  BY <1>b, <1>c, <1>1, <1>2, <1>3, <1>4 DEF ListType, MirrorType, Entry
<1>6. Announced' /\ Mapped'
  <2>1. DOMAIN devices' = {i \in DOMAIN told' : told'[i] = "created"}
    BY <1>1, <1>2 DEF Announced
  <2>2. mirrorReady' => DOMAIN mirror' = DOMAIN devices'
    BY <1>1, <1>c, <1>4 DEF Announced
  <2>3. \A x \in DOMAIN map' : map'[x] \in DOMAIN devices' /\ devices'[map'[x]] = x
    BY <1>1, <1>3 DEF Announced
  <2>4. Mapped'
    BY <1>1, <1>3, <1>c DEF Mapped
  <2> QED
    BY <2>1, <2>2, <2>3, <2>4, <1>1, <1>c DEF Announced
<1>7. SystemType' /\ Dropped'
  BY <1>a DEF SystemType, Dropped, AddDevice, AddReturns, windows
<1> QED
  BY <1>5, <1>6, <1>7

LEMMA RemovalKeeps == Inv /\ Removal => Inv'
<1> SUFFICES ASSUME Inv, Removal PROVE Inv'
  OBVIOUS
<1> USE DEF Inv
<1> DEFINE h == Head(messages).handle
<1>a. /\ nextId' = nextId /\ Ids' = Ids /\ mirrorReady' = mirrorReady
      /\ source' = source
  BY DEF Removal, Ids
<1>1. /\ IsMap(devices', Ids, Handle \ Other)
      /\ DOMAIN devices' = DOMAIN devices \ Gone(h)
      /\ \A i \in DOMAIN devices' : devices'[i] = devices[i]
  BY DEF ListType, Removal, Drop, Restrict, IsMap
<1>2. /\ IsMap(told', Ids, {"created", "removed"})
      /\ DOMAIN told' = DOMAIN told
      /\ \A i \in DOMAIN told : told'[i] = IF i \in Gone(h) THEN "removed" ELSE told[i]
  BY DEF ListType, Removal, TellRemoved, IsMap
<1>3. /\ IsMap(map', Handle \ Other, Ids)
      /\ DOMAIN map' = DOMAIN map \ {h}
      /\ \A x \in DOMAIN map' : map'[x] = map[x]
  BY DEF ListType, Removal, Drop, Restrict, IsMap
<1>4. /\ IsMap(mirror', Ids, Entry)
      /\ mirrorReady => DOMAIN mirror' = DOMAIN mirror \ Gone(h)
  BY DEF ListType, MirrorType, Removal, Removed, Drop, Restrict, IsMap, Entry
<1>5. uncommitted' = uncommitted \ Gone(h)
  BY DEF Removal
<1> HIDE DEF h
<1>6. ListType'
  BY <1>a, <1>1, <1>2, <1>3, <1>4, <1>5 DEF ListType, MirrorType, Entry
<1>7. Announced' /\ Mapped'
  <2>1. DOMAIN devices' = {i \in DOMAIN told' : told'[i] = "created"}
    BY <1>1, <1>2 DEF Announced
  <2>2. mirrorReady' => DOMAIN mirror' = DOMAIN devices'
    BY <1>a, <1>1, <1>4 DEF Announced
  <2>3. \A x \in DOMAIN map' : map'[x] \in DOMAIN devices' /\ devices'[map'[x]] = x
    BY <1>1, <1>3 DEF Announced, Gone
  <2>4. Mapped'
    BY <1>a, <1>1, <1>3 DEF Mapped, Gone
  <2> QED
    BY <2>1, <2>2, <2>3, <2>4, <1>1, <1>5 DEF Announced
<1>8. SystemType' /\ Dropped'
  BY <1>3 DEF SystemType, Dropped, Removal, Dispatching, windows
<1> QED
  BY <1>6, <1>7, <1>8

-----------------------------------------------------------------------------
(* The other steps.                                                         *)

LEMMA PostType ==
  ASSUME SystemType, NEW h \in Handle \ Other, NEW type \in {"arrival", "removal", "input"},
         messages' = Post(<<[type |-> type, handle |-> h]>>)
  PROVE  messages' \in Seq(Message)
<1> DEFINE m == [type |-> type, handle |-> h]
<1>1. m \in Message
  BY DEF Message
<1>2. messages' = messages \/ messages' = messages \o <<m>>
  BY DEF Post
<1> HIDE DEF m
<1>3. messages \in Seq(Message) /\ <<m>> \in Seq(Message)
  BY <1>1 DEF SystemType
<1> QED
  BY <1>2, <1>3

LEMMA ChangeType ==
  ASSUME SystemType, NEW h \in Handle, NEW type \in {"arrival", "removal"},
         messages' = Post(Change(h, type))
  PROVE  messages' \in Seq(Message)
<1>1. CASE h \in Other
  BY <1>1 DEF SystemType, Change, Post
<1>2. CASE h \notin Other
  BY <1>2, PostType DEF Change
<1> QED
  BY <1>1, <1>2

LEMMA WindowsKeeps == Inv /\ Windows => Inv'
<1> SUFFICES ASSUME Inv, NEW h \in Handle,
                    Attach(h) \/ List(h) \/ Detach(h) \/ Press(h)
             PROVE  Inv'
  BY DEF Windows
<1> USE DEF Inv, Attach, List, Detach, Press, context, mirrorVars
<1>1. UNCHANGED <<context, map, mirrorVars, pc, todo, source, setup, missed>>
  OBVIOUS
<1>2. ListType' /\ Announced' /\ Mapped'
  BY <1>1, Untouched DEF Mapped
<1>3. messages' \in Seq(Message)
  BY ChangeType, PostType DEF SystemType
<1>4. SystemType'
  BY <1>3 DEF SystemType
<1>5. Dropped'
  BY <1>1 DEF Dropped, Room
<1> QED
  BY <1>2, <1>4, <1>5

LEMMA DropKeeps ==
  ASSUME Inv, DropSource, pc \in {"connect", "list", "setup", "add"}
  PROVE  Inv'
<1> USE DEF Inv, DropSource, context, mirrorVars, windows
<1>1. IsMap(map', Handle \ Other, Ids) /\ DOMAIN map' = {}
  BY EmptyMapType
<1>2. ListType'
  BY <1>1 DEF ListType, MirrorType, Ids
<1>3. Announced' /\ Mapped' /\ Dropped'
  BY <1>1 DEF Announced, Mapped, Dropped
<1>4. SystemType'
  BY DEF SystemType
<1> QED
  BY <1>2, <1>3, <1>4

LEMMA EnumerateKeeps == Inv /\ Enumerate => Inv'
<1> SUFFICES ASSUME Inv, Enumerate PROVE Inv'
  OBVIOUS
<1>1. CASE Connect
  <2> USE <1>1 DEF Inv, Connect, context, mirrorVars, windows
  <2>1. ListType' /\ Announced' /\ Mapped'
    BY Untouched DEF Mapped
  <2>2. messages' \in Seq(Message)
    <3>1. CASE messages' = <<>>
      BY <3>1
    <3>2. ASSUME NEW order \in [1 .. Cardinality(present \ Other) -> present \ Other],
                 messages' = [k \in DOMAIN order |->
                                [type |-> "arrival", handle |-> order[k]]]
          PROVE  messages' \in Seq(Message)
      <4>1. present \ Other \subseteq Handle \ Other /\ IsFiniteSet(present \ Other)
        BY RawAssumption, FS_Subset DEF SystemType
      <4>2. Cardinality(present \ Other) \in Nat
        BY <4>1, FS_CardinalityType
      <4> DEFINE n == Cardinality(present \ Other)
      <4>3. messages' \in [1 .. n -> Message]
        BY <3>2, <4>1 DEF Message
      <4>4. n \in Nat
        BY <4>2
      <4> HIDE DEF n
      <4> QED
        BY <4>3, <4>4, SeqDef
    <3> QED
      BY <3>1, <3>2
  <2>3. SystemType' /\ Dropped'
    BY <2>2 DEF SystemType, Dropped
  <2> QED
    BY <2>1, <2>3
<1>2. CASE ConnectFails \/ ListFails
  BY <1>2, DropKeeps DEF ConnectFails, ListFails
<1>3. CASE ListRawDevices \/ EnumDone
  <2> USE <1>3 DEF Inv, ListRawDevices, EnumDone, context, mirrorVars, windows
  <2>1. ListType' /\ Announced' /\ Mapped'
    BY Untouched DEF Mapped, Dropped, SystemType
  <2>2. SystemType' /\ Dropped'
    BY DEF SystemType, Dropped
  <2> QED
    BY <2>1, <2>2
<1> QED
  BY <1>1, <1>2, <1>3 DEF Enumerate

LEMMA SkipKeeps ==
  ASSUME Inv, pc = "add", NEW h \in todo, AddReturns(h),
         UNCHANGED <<windows, messages, context, source, map, missed, mirrorVars>>
  PROVE  Inv'
<1> USE DEF Inv, AddReturns, windows
<1>1. ListType' /\ Announced' /\ Mapped'
  BY Untouched DEF Mapped, context
<1>2. SystemType' /\ Dropped'
  BY DEF SystemType, Dropped
<1> QED
  BY <1>1, <1>2

LEMMA AllAddsKeep == Inv /\ Add => Inv'
<1> SUFFICES ASSUME Inv, Add PROVE Inv'
  OBVIOUS
<1>1. CASE EnumerateDevices
  <2> USE <1>1 DEF Inv, EnumerateDevices, windows, context, mirrorVars, Enumerated
  <2>1. ListType' /\ Announced' /\ Mapped'
    BY Untouched DEF Mapped
  <2>2. SystemType' /\ Dropped'
    BY DEF SystemType, Dropped
  <2> QED
    BY <2>1, <2>2
<1>4. CASE EnumerateFails
  <2>1. CASE source = "enumerating"
    BY <1>4, <2>1, DropKeeps DEF EnumerateFails
  <2>2. CASE source # "enumerating"
    <3> USE <1>4, <2>2 DEF Inv, EnumerateFails, windows, context, mirrorVars
    <3>1. ListType' /\ Announced' /\ Mapped'
      BY Untouched DEF Mapped
    <3>2. SystemType' /\ Dropped'
      BY DEF SystemType, Dropped
    <3> QED
      BY <3>1, <3>2
  <2> QED
    BY <2>1, <2>2
<1>2. ASSUME NEW h \in todo, AddThrows(h) PROVE Inv'
  <2>1. CASE source = "enumerating"
    BY <1>2, <2>1, DropKeeps DEF AddThrows, Adding
  <2>2. CASE source # "enumerating"
    BY <1>2, <2>2, SkipKeeps DEF AddThrows, Adding
  <2> QED
    BY <2>1, <2>2
<1>3. ASSUME NEW h \in todo, SkipKnown(h) \/ SkipUnlisted(h) \/ SkipOther(h) PROVE Inv'
  BY <1>3, SkipKeeps DEF SkipKnown, SkipUnlisted, SkipOther, Adding
<1> QED
  BY <1>1, <1>2, <1>3, <1>4, AddKeeps DEF Add

LEMMA DispatchKeeps == Inv /\ (Arrival \/ Input) => Inv'
<1> SUFFICES ASSUME Inv, Arrival \/ Input PROVE Inv'
  OBVIOUS
<1> USE DEF Inv, Dispatching, windows, context, mirrorVars
<1>1. Head(messages) \in Message /\ messages' \in Seq(Message) /\ source # "dropped"
  BY DEF Arrival, Input, SystemType, Dropped
<1>2. CASE Arrival
  <2> USE <1>2 DEF Arrival
  <2>1. ListType' /\ Announced' /\ Mapped'
    BY Untouched DEF Mapped
  <2>2. SystemType' /\ Dropped'
    BY <1>1 DEF SystemType, Dropped, Message
  <2> QED
    BY <2>1, <2>2
<1>3. CASE Input
  <2> USE <1>3 DEF Input
  <2>1. uncommitted' \subseteq DOMAIN devices /\ DOMAIN devices \subseteq Ids
    BY DEF Announced, Gone, ListType, IsMap
  <2>2. ListType'
    BY <2>1 DEF ListType, MirrorType, Ids
  <2>3. Announced' /\ Mapped'
    BY <2>1 DEF Announced, Mapped
  <2>4. SystemType' /\ Dropped'
    BY <1>1 DEF SystemType, Dropped
  <2> QED
    BY <2>2, <2>3, <2>4
<1> QED
  BY <1>2, <1>3

LEMMA ClientKeeps == Inv /\ (CreateContext \/ DrainEvents) => Inv'
<1> SUFFICES ASSUME Inv, CreateContext \/ DrainEvents PROVE Inv'
  OBVIOUS
<1> USE DEF Inv, windows, context, mirrorVars
<1>1. CASE CreateContext
  <2> USE <1>1 DEF CreateContext, ListDevices
  <2>1. DOMAIN mirror' = DOMAIN devices /\ mirrorReady'
        /\ IsMap(mirror', Ids, {"named", "nameless"})
    BY DEF ListType, IsMap
  <2>2. ListType'
    <3>1. mirrorReady' \in BOOLEAN
      OBVIOUS
    <3> QED
      BY <2>1, <3>1 DEF ListType, MirrorType, Ids
  <2>3. Announced' /\ Mapped'
    BY <2>1 DEF Announced, Mapped
  <2>4. SystemType' /\ Dropped'
    BY DEF SystemType, Dropped
  <2> QED
    BY <2>2, <2>3, <2>4
<1>2. CASE DrainEvents
  <2> USE <1>2 DEF DrainEvents
  <2>1. ListType' /\ Announced'
    BY DEF ListType, MirrorType, Ids, Announced
  <2> QED
    BY <2>1 DEF SystemType, Mapped, Dropped
<1> QED
  BY <1>1, <1>2

LEMMA Invariant == Spec => []Inv
<1>1. Inv /\ [Next]_vars => Inv'
  <2> SUFFICES ASSUME Inv, [Next]_vars PROVE Inv'
    OBVIOUS
  <2>1. CASE UNCHANGED vars
    <3> USE <2>1 DEF vars, windows, context, mirrorVars
    <3>1. ListType' /\ Announced'
      BY Untouched DEF Inv
    <3> QED
      BY <3>1 DEF Inv, SystemType, Mapped, Dropped
  <2> QED
    BY <2>1, WindowsKeeps, EnumerateKeeps, AllAddsKeep, DispatchKeeps, RemovalKeeps,
       ClientKeeps
    DEF Next, Dispatch
<1> QED
  BY InitInv, <1>1, PTL DEF Spec

-----------------------------------------------------------------------------
(* Every variable of Windows, the source, the context and the client has    *)
(* its type, for any number of handles and messages.                        *)
THEOREM TypeCorrect == Spec => []TypeOK
BY Invariant, InvOneList, PTL

(* The context, the events the client was told, its dictionary, and the map *)
(* of a source that lives always hold the same devices, each once.          *)
THEOREM OneListCorrect == Spec => []OneList
BY Invariant, InvOneList, PTL

-----------------------------------------------------------------------------
(* What the client hears of is what DeviceLifecycle allows.                 *)

LEMMA AddAnnounces ==
  ASSUME Inv, NEW h, AddDevice(h)
  PROVE  Lifecycle!Announce
<1>1. /\ DOMAIN told' = DOMAIN told \cup {nextId} /\ told'[nextId] = "created"
      /\ \A i \in DOMAIN told : i # nextId => told'[i] = told[i]
  BY DEF AddDevice, Put
<1>2. \A i \in DOMAIN told : i < nextId
  BY DEF Inv, ListType, IsMap, Ids
<1> QED
  BY <1>1, <1>2 DEF Lifecycle!Announce, Lifecycle!Fresh, Inv, ListType

LEMMA RemovalAnnounces == Inv /\ Removal => Lifecycle!Announce
<1> SUFFICES ASSUME Inv, Removal PROVE Lifecycle!Announce
  OBVIOUS
<1> DEFINE gone == Gone(Head(messages).handle)
<1>1. /\ DOMAIN told' = DOMAIN told
      /\ \A i \in DOMAIN told : told'[i] = IF i \in gone THEN "removed" ELSE told[i]
  BY DEF Removal, TellRemoved
<1>2. \A i \in gone : told[i] = "created"
  BY DEF Inv, Announced, Gone
<1> QED
  BY <1>1, <1>2 DEF Lifecycle!Announce, Lifecycle!Fresh

LEMMA OthersSilent ==
  ASSUME [Next]_vars, ~Removal, \A h \in todo : ~AddDevice(h)
  PROVE  told' = told
BY DEF Next, vars, context, Windows, Attach, List, Detach, Press,
       Enumerate, Connect, ConnectFails, DropSource, ListRawDevices, ListFails,
       EnumDone, Add, EnumerateDevices, EnumerateFails, SkipKnown, AddThrows, SkipUnlisted, SkipOther,
       Dispatch, Arrival, Input, CreateContext, DrainEvents

(* The source implements the life cycle of DeviceLifecycle: ids are told    *)
(* in increasing order, and each is created once and removed at most once.  *)
THEOREM ImplementsLifecycle == Spec => RefinesLifecycle
<1>1. Init => Lifecycle!Init
  BY EmptyMapType DEF Init, Lifecycle!Init
<1>2. Inv /\ [Next]_vars => [Lifecycle!Announce]_told
  BY AddAnnounces, RemovalAnnounces, OthersSilent
<1> QED
  BY <1>1, <1>2, Invariant, PTL DEF Spec, RefinesLifecycle, Lifecycle!Spec

-----------------------------------------------------------------------------
(* What the devices are, once no message is left.                           *)

Waiting(type, h) ==
  \E k \in DOMAIN messages : messages[k].type = type /\ messages[k].handle = h

(* A device of the map is attached, or its removal is on its way; it was    *)
(* listed when it was looked up.                                            *)
Leaving ==
  \A h \in DOMAIN map : h \notin missed /\ (h \in present \/ Waiting("removal", h))

(* A handle whose removal is on its way is not attached again.              *)
Retired == \A h \in Handle : Waiting("removal", h) => h \in used \ present

(* A device that is attached and not in the map, nor was looked up in vain, *)
(* is still to be added: by the enumeration, by the call in progress, or    *)
(* for an arrival that waits.                                               *)
Adds(h) ==
  \/ pc \in {"connect", "list"}
  \/ h \in todo /\ (pc = "setup" \/ (pc = "add" /\ h \in setup))
Coming ==
  source # "dropped" =>
    \A h \in present \ (Other \cup missed \cup DOMAIN map) :
       Adds(h) \/ Waiting("arrival", h)

(* What the call in progress has in hand: the enumeration starts with an    *)
(* empty map, an arrival is about one device; those not listed are missed.  *)
InHand ==
  /\ pc \in {"connect", "list"} => source = "enumerating"
  /\ pc \in {"connect", "list"} \/ (pc = "setup" /\ source = "enumerating") => DOMAIN map = {}
  /\ pc = "setup" => todo \cap DOMAIN map = {}
  /\ pc = "add" => (todo \ setup) \subseteq missed /\ todo \cap setup \cap missed = {}
  /\ source = "running" => \A h, g \in todo : h = g
  /\ pc \in {"mirror", "idle"} => source # "enumerating"

Settles == Leaving /\ Retired /\ Coming /\ InHand

LEMMA InvSettledAgrees == Inv /\ Settles => SettledAgrees
<1> SUFFICES ASSUME Inv, Settles, pc = "idle", messages = <<>>, source = "running"
             PROVE  DOMAIN map = present \ (Other \cup missed)
  BY DEF SettledAgrees, Settled
<1>1. \A type, h : ~Waiting(type, h)
  BY DEF Waiting
<1>2. DOMAIN map \subseteq Handle \ Other
  BY DEF Inv, ListType, IsMap
<1>3. DOMAIN map \subseteq present \ (Other \cup missed)
  BY <1>1, <1>2 DEF Settles, Leaving
<1>4. present \ (Other \cup missed) \subseteq DOMAIN map
  BY <1>1 DEF Settles, Coming, Adds
<1> QED
  BY <1>3, <1>4

LEMMA InitSettles == Init => Settles
BY EmptyMapType
DEF Init, Settles, Leaving, Retired, Coming, InHand, Adds, Waiting

(* What waits after a message was posted, or nothing was, and after the     *)
(* first one was taken.                                                     *)
LEMMA SendWaits ==
  ASSUME SystemType, NEW g \in Handle \ Other,
         NEW sent \in {"arrival", "removal", "input"},
         messages' = Post(<<[type |-> sent, handle |-> g]>>)
  PROVE  /\ \A type, h : Waiting(type, h) => Waiting(type, h)'
         /\ \A type, h : Waiting(type, h)' => Waiting(type, h) \/ (type = sent /\ h = g)
         /\ pc # "connect" => Waiting(sent, g)'
<1> DEFINE m == [type |-> sent, handle |-> g]
<1>1. m \in Message /\ m.type = sent /\ m.handle = g
  BY DEF Message
<1>2. messages' = IF pc = "connect" THEN messages ELSE messages \o <<m>>
  BY DEF Post
<1> HIDE DEF m
<1>3. messages \in Seq(Message) /\ <<m>> \in Seq(Message)
  BY <1>1 DEF SystemType
<1>4. CASE pc = "connect"
  BY <1>2, <1>4 DEF Waiting
<1>5. CASE pc # "connect"
  <2>1. /\ DOMAIN messages' = 1 .. Len(messages) + 1
        /\ DOMAIN messages = 1 .. Len(messages) /\ Len(messages) \in Nat
        /\ \A k \in DOMAIN messages : messages'[k] = messages[k]
        /\ messages'[Len(messages) + 1] = m
    BY <1>2, <1>3, <1>5
  <2> QED
    BY <2>1, <1>1, <1>5 DEF Waiting
<1> QED
  BY <1>4, <1>5

LEMMA ChangeWaits ==
  ASSUME SystemType, NEW g \in Handle, NEW sent \in {"arrival", "removal"},
         messages' = Post(Change(g, sent))
  PROVE  /\ \A type, h : Waiting(type, h) => Waiting(type, h)'
         /\ \A type, h : Waiting(type, h)' => Waiting(type, h) \/ (type = sent /\ h = g)
         /\ pc # "connect" /\ g \notin Other => Waiting(sent, g)'
<1>1. CASE g \in Other
  <2>1. messages' = messages
    BY <1>1 DEF Change, Post, SystemType
  <2> QED
    BY <1>1, <2>1 DEF Waiting
<1>2. CASE g \notin Other
  <2>1. messages' = Post(<<[type |-> sent, handle |-> g]>>)
    BY <1>2 DEF Change
  <2>2. g \in Handle \ Other /\ sent \in {"arrival", "removal", "input"}
    BY <1>2
  <2> QED
    BY <2>1, <2>2, SendWaits
<1> QED
  BY <1>1, <1>2

LEMMA TakeWaits ==
  ASSUME SystemType, messages # <<>>, messages' = Tail(messages)
  PROVE  /\ \A type, h : Waiting(type, h)' => Waiting(type, h)
         /\ \A type, h : Waiting(type, h) =>
               \/ Waiting(type, h)'
               \/ Head(messages).type = type /\ Head(messages).handle = h
<1>1. /\ DOMAIN messages = 1 .. Len(messages) /\ Len(messages) \in Nat \ {0}
      /\ DOMAIN messages' = 1 .. Len(messages) - 1
      /\ \A k \in DOMAIN messages' : messages'[k] = messages[k + 1]
      /\ Head(messages) = messages[1]
  BY DEF SystemType
<1>2. \A k \in DOMAIN messages : k = 1 \/ k - 1 \in DOMAIN messages'
  BY <1>1
<1>3. \A k \in DOMAIN messages : k # 1 => messages'[k - 1] = messages[k]
  BY <1>1, <1>2
<1> QED
  BY <1>1, <1>2, <1>3 DEF Waiting

-----------------------------------------------------------------------------
(* Windows. *)

LEMMA WindowsSettles == Inv /\ Settles /\ Windows => Settles'
<1> SUFFICES ASSUME Inv, Settles, NEW g \in Handle,
                    Attach(g) \/ List(g) \/ Detach(g) \/ Press(g)
             PROVE  Settles'
  BY DEF Windows
<1> USE DEF Settles
<1>1. UNCHANGED <<map, pc, todo, source, setup, missed>>
  BY DEF Attach, List, Detach, Press
<1>2. InHand' /\ \A h : Adds(h)' <=> Adds(h)
  BY <1>1 DEF InHand, Adds
<1>3. SystemType
  BY DEF Inv
<1>4. CASE Attach(g)
  <2>1. /\ g \notin used /\ present' = present \cup {g} /\ used' = used \cup {g}
        /\ messages' = Post(Change(g, "arrival"))
    BY <1>4 DEF Attach
  <2>2. /\ \A type, h : Waiting(type, h) => Waiting(type, h)'
        /\ \A type, h : Waiting(type, h)' => Waiting(type, h) \/ (type = "arrival" /\ h = g)
        /\ pc # "connect" /\ g \notin Other => Waiting("arrival", g)'
    BY <2>1, <1>3, ChangeWaits
  <2>3. Leaving' /\ Retired'
    BY <1>1, <2>1, <2>2 DEF Leaving, Retired
  <2>4. Coming'
    BY <1>1, <1>2, <2>1, <2>2 DEF Coming, Adds
  <2> QED
    BY <1>2, <2>3, <2>4
<1>5. CASE List(g)
  <2>1. \A type, h : Waiting(type, h)' <=> Waiting(type, h)
    BY <1>5 DEF List, Waiting
  <2>2. present' = present /\ used' = used
    BY <1>5 DEF List
  <2> QED
    BY <1>1, <1>2, <2>1, <2>2 DEF Leaving, Retired, Coming
<1>6. CASE Detach(g)
  <2>1. /\ g \in used /\ present' = present \ {g} /\ used' = used
        /\ messages' = Post(Change(g, "removal"))
    BY <1>3, <1>6 DEF Detach, SystemType
  <2>2. /\ \A type, h : Waiting(type, h) => Waiting(type, h)'
        /\ \A type, h : Waiting(type, h)' => Waiting(type, h) \/ (type = "removal" /\ h = g)
        /\ pc # "connect" /\ g \notin Other => Waiting("removal", g)'
    BY <2>1, <1>3, ChangeWaits
  <2>3. pc = "connect" => DOMAIN map = {}
    BY DEF InHand
  <2>4. DOMAIN map \cap Other = {}
    BY DEF Inv, ListType, IsMap
  <2>5. Leaving'
    BY <1>1, <2>1, <2>2, <2>3, <2>4 DEF Leaving
  <2>6. Retired' /\ Coming'
    BY <1>1, <1>2, <2>1, <2>2 DEF Retired, Coming
  <2> QED
    BY <1>2, <2>5, <2>6
<1>7. CASE Press(g)
  <2>1. /\ g \notin Other /\ present' = present /\ used' = used
        /\ messages' = Post(<<[type |-> "input", handle |-> g]>>)
    BY <1>7 DEF Press
  <2>2. /\ \A type, h : Waiting(type, h) => Waiting(type, h)'
        /\ \A type, h : Waiting(type, h)' => Waiting(type, h) \/ (type = "input" /\ h = g)
    BY <2>1, <1>3, SendWaits
  <2> QED
    BY <1>1, <1>2, <2>1, <2>2 DEF Leaving, Retired, Coming
<1> QED
  BY <1>4, <1>5, <1>6, <1>7

-----------------------------------------------------------------------------
(* The enumeration. *)

LEMMA DropSettles ==
  ASSUME Settles, DropSource
  PROVE  Settles'
<1>1. \A type, h : ~Waiting(type, h)'
  BY DEF DropSource, Waiting
<1>2. DOMAIN map' = {}
  BY EmptyMapType DEF DropSource
<1> QED
  BY <1>1, <1>2 DEF DropSource, Settles, Leaving, Retired, Coming, InHand

LEMMA EnumerateSettles == Inv /\ Settles /\ Enumerate => Settles'
<1> SUFFICES ASSUME Inv, Settles, Enumerate PROVE Settles'
  OBVIOUS
<1> USE DEF Settles, windows
<1>1. CASE Connect
  <2>1. \A h : ~Waiting("removal", h)'
    BY <1>1 DEF Connect, Waiting
  <2>2. DOMAIN map' = {} /\ source' = "enumerating" /\ pc' = "list"
    BY <1>1 DEF Connect, InHand
  <2>3. todo' = todo /\ setup' = setup /\ missed' = missed
    BY <1>1 DEF Connect
  <2> QED
    BY <2>1, <2>2, <2>3 DEF Leaving, Retired, Coming, InHand, Adds
<1>2. CASE ConnectFails \/ ListFails
  BY <1>2, DropSettles DEF ConnectFails, ListFails
<1>3. CASE ListRawDevices
  <2>1. \A type, h : Waiting(type, h)' <=> Waiting(type, h)
    BY <1>3 DEF ListRawDevices, Waiting
  <2>2. Leaving' /\ Retired'
    BY <1>3, <2>1 DEF ListRawDevices, Leaving, Retired
  <2>3. Coming' /\ InHand'
    BY <1>3 DEF ListRawDevices, Coming, InHand, Adds
  <2> QED
    BY <2>2, <2>3
<1>4. CASE EnumDone
  <2>1. \A type, h : Waiting(type, h)' <=> Waiting(type, h)
    BY <1>4 DEF EnumDone, Waiting
  <2>2. Leaving' /\ Retired'
    BY <1>4, <2>1 DEF EnumDone, Leaving, Retired
  <2>3. Coming' /\ InHand'
    BY <1>4, <2>1 DEF EnumDone, Coming, InHand, Adds
  <2> QED
    BY <2>2, <2>3
<1> QED
  BY <1>1, <1>2, <1>3, <1>4 DEF Enumerate

LEMMA LookUpSettles == Settles /\ EnumerateDevices => Settles'
<1> SUFFICES ASSUME Settles, EnumerateDevices PROVE Settles'
  OBVIOUS
<1> USE DEF Settles, EnumerateDevices, windows, Enumerated
<1>1. \A type, h : Waiting(type, h)' <=> Waiting(type, h)
  BY DEF Waiting
<1>2. Leaving' /\ Retired'
  BY <1>1 DEF Leaving, Retired, InHand
<1>3. Coming'
  BY <1>1 DEF Coming, Adds
<1>4. InHand'
  BY DEF InHand
<1> QED
  BY <1>2, <1>3, <1>4

LEMMA LookUpFailsSettles == Inv /\ Settles /\ EnumerateFails => Settles'
<1> SUFFICES ASSUME Inv, Settles, EnumerateFails PROVE Settles'
  OBVIOUS
<1> USE DEF Settles, EnumerateFails, windows
<1>1. CASE source = "enumerating"
  BY <1>1, DropSettles
<1>2. CASE source # "enumerating"
  <2>1. \A type, h : Waiting(type, h)' <=> Waiting(type, h)
    BY <1>2 DEF Waiting
  <2>2. Leaving' /\ Retired'
    BY <1>2, <2>1 DEF Leaving, Retired, InHand
  <2>3. Coming'
    BY <1>2, <2>1 DEF Coming, Adds
  <2>4. InHand'
    BY <1>2 DEF InHand
  <2> QED
    BY <2>2, <2>3, <2>4
<1> QED
  BY <1>1, <1>2

-----------------------------------------------------------------------------
(* add_device. *)

(* The call for h returns, and h is in the map, or it is gone, or it is no  *)
(* keyboard or mouse, or it is not listed.                                  *)
LEMMA ReturnSettles ==
  ASSUME Inv, Settles, pc = "add", NEW h \in todo, AddReturns(h),
         UNCHANGED <<present, used, messages, source, missed>>,
         DOMAIN map \subseteq DOMAIN map', DOMAIN map' \subseteq DOMAIN map \cup {h},
         h \in DOMAIN map' => h \in DOMAIN map \/ h \in present \cap setup,
         h \in present => h \in Other \/ h \notin setup \/ h \in DOMAIN map'
  PROVE  Settles'
<1> USE DEF Settles
<1>1. \A type, x : Waiting(type, x)' <=> Waiting(type, x)
  BY DEF Waiting
<1>2. /\ todo \cap setup \cap missed = {} /\ (todo \ setup) \subseteq missed
      /\ source = "running" => \A x, g \in todo : x = g
  BY DEF InHand
<1>3. source \in {"enumerating", "running"}
  BY DEF Inv, SystemType, Dropped
<1>4. Leaving' /\ Retired'
  BY <1>1, <1>2 DEF Leaving, Retired
<1>5. Coming'
  BY <1>1, <1>2 DEF Coming, Adds, AddReturns
<1>6. InHand'
  BY <1>2, <1>3 DEF InHand, AddReturns
<1> QED
  BY <1>4, <1>5, <1>6

LEMMA AddSettles == Inv /\ Settles /\ Add => Settles'
<1> SUFFICES ASSUME Inv, Settles, Add PROVE Settles'
  OBVIOUS
<1> USE DEF windows, Adding, Already
<1>1. ASSUME NEW h \in todo, SkipKnown(h) \/ SkipUnlisted(h) \/ SkipOther(h)
      PROVE  Settles'
  BY <1>1, ReturnSettles DEF SkipKnown, SkipUnlisted, SkipOther, KeyboardOrMouse
<1>2. ASSUME NEW h \in todo, AddThrows(h) PROVE Settles'
  <2>1. CASE source = "enumerating"
    BY <1>2, <2>1, DropSettles DEF AddThrows
  <2>2. CASE source # "enumerating"
    BY <1>2, <2>2, ReturnSettles DEF AddThrows
  <2> QED
    BY <2>1, <2>2
<1>3. ASSUME NEW h \in todo, AddDevice(h) PROVE Settles'
  <2>1. DOMAIN map' = DOMAIN map \cup {h}
    BY <1>3 DEF AddDevice, Put
  <2> QED
    BY <1>3, <2>1, ReturnSettles DEF AddDevice
<1> QED
  BY <1>1, <1>2, <1>3, LookUpSettles, LookUpFailsSettles DEF Add

-----------------------------------------------------------------------------
(* The window procedure and the client. *)

LEMMA DispatchSettles == Inv /\ Settles /\ Dispatch => Settles'
<1> SUFFICES ASSUME Inv, Settles, Dispatch PROVE Settles'
  OBVIOUS
<1> USE DEF Settles, windows
<1> DEFINE m == Head(messages)
<1>1. /\ pc = "idle" /\ messages # <<>> /\ messages' = Tail(messages)
      /\ UNCHANGED <<present, used, source, setup, missed>>
  BY DEF Dispatch, Arrival, Removal, Input, Dispatching
<1>2. /\ \A type, h : Waiting(type, h)' => Waiting(type, h)
      /\ \A type, h : Waiting(type, h) =>
            Waiting(type, h)' \/ (m.type = type /\ m.handle = h)
  BY <1>1, TakeWaits DEF Inv
<1>3. source = "running" /\ Waiting(m.type, m.handle) /\ m.handle \in Handle
  <2>1. 1 \in DOMAIN messages /\ m = messages[1] /\ m \in Message
    BY <1>1 DEF Inv, SystemType
  <2> QED
    BY <1>1, <2>1 DEF Inv, SystemType, Dropped, InHand, Waiting, Message
<1>4. Retired'
  BY <1>1, <1>2 DEF Retired
<1>5. \A h : ~Adds(h)
  BY <1>1 DEF Adds
<1>6. CASE Arrival
  <2>1. m.type = "arrival" /\ map' = map
    BY <1>6 DEF Arrival, Dispatching
  <2>2. Leaving'
    BY <1>1, <1>2, <2>1 DEF Leaving
  <2>3. CASE m.handle \in DOMAIN map
    <3>1. UNCHANGED <<todo, pc>>
      BY <1>6, <2>3 DEF Arrival, Already
    <3>2. Coming'
      BY <1>1, <1>2, <1>5, <2>1, <2>3, <3>1 DEF Coming
    <3>3. InHand'
      BY <1>1, <2>1, <3>1 DEF InHand
    <3> QED
      BY <1>4, <2>2, <3>2, <3>3
  <2>4. CASE m.handle \notin DOMAIN map
    <3>1. todo' = {m.handle} /\ pc' = "setup"
      BY <1>6, <2>4 DEF Arrival, Already
    <3>2. Coming'
      BY <1>1, <1>2, <1>5, <2>1, <3>1 DEF Coming, Adds
    <3>3. InHand'
      BY <1>1, <1>3, <2>1, <2>4, <3>1 DEF InHand
    <3> QED
      BY <1>4, <2>2, <3>2, <3>3
  <2> QED
    BY <2>3, <2>4
<1>7. CASE Removal
  <2>1. /\ m.type = "removal" /\ UNCHANGED <<pc, todo>>
        /\ DOMAIN map' = DOMAIN map \ {m.handle}
    BY <1>7 DEF Removal, Dispatching, Drop, Restrict
  <2>2. m.handle \notin present
    BY <1>3, <2>1 DEF Retired
  <2>3. Leaving'
    BY <1>1, <1>2, <2>1 DEF Leaving
  <2>4. Coming'
    BY <1>1, <1>2, <1>5, <2>1, <2>2 DEF Coming
  <2>5. InHand'
    BY <1>1, <2>1 DEF InHand
  <2> QED
    BY <1>4, <2>3, <2>4, <2>5
<1>8. CASE Input
  <2>1. m.type = "input" /\ UNCHANGED <<pc, todo, map>>
    BY <1>8 DEF Input, Dispatching
  <2>2. Leaving' /\ Coming'
    BY <1>1, <1>2, <1>5, <2>1 DEF Leaving, Coming
  <2>3. InHand'
    BY <1>1, <2>1 DEF InHand
  <2> QED
    BY <1>4, <2>2, <2>3
<1> QED
  BY <1>6, <1>7, <1>8 DEF Dispatch

LEMMA RestSettles ==
  Settles /\ (CreateContext \/ DrainEvents \/ UNCHANGED vars) => Settles'
<1> SUFFICES ASSUME Settles, CreateContext \/ DrainEvents \/ UNCHANGED vars
             PROVE  Settles'
  OBVIOUS
<1> USE DEF Settles, windows
<1>1. /\ UNCHANGED <<present, used, messages, source, map, todo, setup, missed>>
      /\ pc' = pc \/ (pc = "mirror" /\ pc' = "idle")
  BY DEF CreateContext, DrainEvents, vars
<1>2. \A type, h : Waiting(type, h)' <=> Waiting(type, h)
  BY <1>1 DEF Waiting
<1>3. Leaving' /\ Retired'
  BY <1>1, <1>2 DEF Leaving, Retired
<1>4. Coming'
  BY <1>1, <1>2 DEF Coming, Adds
<1>5. InHand'
  BY <1>1 DEF InHand
<1> QED
  BY <1>3, <1>4, <1>5

(* Once every message is dispatched, the devices are the keyboards and mice *)
(* that are attached, but for those whose last look-up failed: SetupAPI did *)
(* not list them yet, or threw.  No arrival is lost between the window,     *)
(* which is there first, and the enumeration, and none is undone by a       *)
(* removal.                                                                 *)
THEOREM SettledCorrect == Spec => []SettledAgrees
<1>1. Inv /\ Settles /\ [Next]_vars => Settles'
  BY WindowsSettles, EnumerateSettles, AddSettles, DispatchSettles, RestSettles DEF Next
<1>2. Spec => []Settles
  BY InitSettles, <1>1, Invariant, PTL DEF Spec
<1> QED
  BY <1>2, Invariant, InvSettledAgrees, PTL
-----------------------------------------------------------------------------
(* Where SetupAPI keeps up.                                                 *)

AllRegistered == Settled => DOMAIN map = present \ Other

(* SetupAPI lists what is attached; only handles given out are looked up,   *)
(* and of those in vain only handles that are gone.                         *)
KeepsUp ==
  /\ listed = present /\ todo \subseteq used
  /\ \A type, h : Waiting(type, h) => h \in used
  /\ missed \subseteq used \ present

LEMMA WindowsKeepsUp == Upsets = {} /\ Inv /\ KeepsUp /\ Windows => KeepsUp'
<1> SUFFICES ASSUME Upsets = {}, Inv, KeepsUp, NEW g \in Handle,
                    Attach(g) \/ List(g) \/ Detach(g) \/ Press(g)
             PROVE  KeepsUp'
  BY DEF Windows
<1> USE DEF KeepsUp
<1>1. SystemType
  BY DEF Inv
<1>2. UNCHANGED <<todo, missed>>
  BY DEF Attach, List, Detach, Press
<1>3. CASE Attach(g)
  <2>1. \A type, h : Waiting(type, h)' => Waiting(type, h) \/ h = g
    BY <1>1, <1>3, ChangeWaits DEF Attach
  <2> QED
    BY <1>2, <1>3, <2>1 DEF Attach
<1>4. CASE List(g)
  BY <1>4 DEF List
<1>5. CASE Detach(g)
  <2>1. \A type, h : Waiting(type, h)' => Waiting(type, h) \/ h = g
    BY <1>1, <1>5, ChangeWaits DEF Detach
  <2>2. g \in used
    BY <1>1, <1>5 DEF Detach, SystemType
  <2> QED
    BY <1>2, <1>5, <2>1, <2>2 DEF Detach
<1>6. CASE Press(g)
  <2>1. \A type, h : Waiting(type, h)' => Waiting(type, h) \/ h = g
    BY <1>1, <1>6, SendWaits DEF Press
  <2>2. g \in used
    BY <1>1, <1>6 DEF Press, SystemType
  <2> QED
    BY <1>2, <1>6, <2>1, <2>2 DEF Press, windows
<1> QED
  BY <1>3, <1>4, <1>5, <1>6

(* The other steps leave Windows alone, look up what is attached or was     *)
(* announced, and post arrivals of devices that are attached.               *)
LEMMA OthersKeepUp ==
  ASSUME Upsets = {}, Inv, KeepsUp, [Next]_vars, ~Windows
  PROVE  KeepsUp'
<1> USE DEF KeepsUp
<1>1. UNCHANGED windows
  BY DEF Next, Enumerate, Connect, ConnectFails, DropSource, ListRawDevices, ListFails,
         EnumDone, Add, EnumerateDevices, EnumerateFails, SkipKnown, AddThrows,
         SkipUnlisted, SkipOther, AddDevice, Dispatch, Arrival, Removal, Input,
         CreateContext, DrainEvents, vars
<1>2. UNCHANGED <<present, used, listed>>
  BY <1>1 DEF windows
<1>3. SystemType
  BY DEF Inv
<1>4. CASE Dispatch
  <2>1. /\ messages # <<>> /\ messages' = Tail(messages) /\ missed' = missed
        /\ todo' = todo \/ todo' = {Head(messages).handle}
    BY <1>4 DEF Dispatch, Arrival, Removal, Input, Dispatching
  <2>2. \A type, h : Waiting(type, h)' => Waiting(type, h)
    BY <1>3, <2>1, TakeWaits
  <2>3. Waiting(Head(messages).type, Head(messages).handle)
    <3>1. 1 \in DOMAIN messages /\ Head(messages) = messages[1]
      BY <1>3, <2>1 DEF SystemType
    <3> QED
      BY <3>1 DEF Waiting
  <2> QED
    BY <1>2, <2>1, <2>2, <2>3
<1>5. CASE ~Dispatch
  <2>1. \A type, h : Waiting(type, h)' => h \in used
    <3>1. CASE Connect
      <4>1. \A k \in DOMAIN messages' : messages'[k].handle \in present
        <5>1. CASE messages' = <<>>
          BY <5>1
        <5>2. ASSUME NEW order \in [1 .. Cardinality(present \ Other) -> present \ Other],
                     messages' = [k \in DOMAIN order |->
                                    [type |-> "arrival", handle |-> order[k]]]
              PROVE  \A k \in DOMAIN messages' : messages'[k].handle \in present
          BY <5>2
        <5> QED
          BY <3>1, <5>1, <5>2 DEF Connect
      <4> QED
        BY <1>3, <4>1 DEF Waiting, SystemType
    <3>2. CASE ~Connect
      <4>1. messages' = messages \/ messages' = <<>>
        BY <1>5, <3>2 DEF Next, Enumerate, ConnectFails, DropSource, ListRawDevices,
           ListFails, EnumDone, Add, EnumerateDevices, EnumerateFails, SkipKnown,
           AddThrows, SkipUnlisted, SkipOther, AddDevice, CreateContext, DrainEvents, vars
      <4> QED
        BY <4>1 DEF Waiting
    <3> QED
      BY <3>1, <3>2
  <2>2. todo' \subseteq todo \cup present
    BY <1>5 DEF Next, Enumerate, Connect, ConnectFails, DropSource, ListRawDevices,
       ListFails, EnumDone, Add, EnumerateDevices, EnumerateFails, SkipKnown, AddThrows,
       SkipUnlisted, SkipOther, AddDevice, AddReturns, CreateContext, DrainEvents, vars
  <2>3. missed' \subseteq missed \cup (todo \ listed)
    BY <1>5 DEF Next, Enumerate, Connect, ConnectFails, DropSource, ListRawDevices,
       ListFails, EnumDone, Add, EnumerateDevices, EnumerateFails, SkipKnown, AddThrows,
       SkipUnlisted, SkipOther, AddDevice, CreateContext, DrainEvents, vars
  <2> QED
    BY <1>2, <1>3, <2>1, <2>2, <2>3 DEF SystemType
<1> QED
  BY <1>4, <1>5

(* Without upsets, when SetupAPI lists a device as soon as Raw Input does   *)
(* and does not fail, no device is looked up in vain: with every message    *)
(* dispatched each keyboard and mouse attached is in the map.               *)
THEOREM AllRegisteredCorrect == ASSUME Upsets = {} PROVE Spec => []AllRegistered
<1>1. Init => KeepsUp
  BY DEF Init, KeepsUp, Waiting
<1>2. Inv /\ KeepsUp /\ [Next]_vars => KeepsUp'
  BY WindowsKeepsUp, OthersKeepUp
<1>3. SettledAgrees /\ KeepsUp => AllRegistered
  BY DEF SettledAgrees, KeepsUp, AllRegistered
<1> QED
  BY <1>1, <1>2, <1>3, Invariant, SettledCorrect, PTL DEF Spec
=============================================================================
