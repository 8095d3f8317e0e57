------------------------- MODULE EvdevSource_proofs -------------------------
(***************************************************************************)
(* Proofs about EvdevSource for any set of names and descriptors, any      *)
(* bounds and any behaviour of the environment; and that no pad is lost,   *)
(* where the environment is calm.                                          *)
(***************************************************************************)
EXTENDS EvdevSource, SequenceTheorems, FiniteSetTheorems, TLAPS

(* What Drop and Emplace do to the type of a map. *)
LEMMA DropType ==
  ASSUME NEW f, NEW S, NEW T, IsMap(f, S, T), NEW keys
  PROVE  /\ IsMap(Drop(f, keys), S, T)
         /\ DOMAIN Drop(f, keys) = DOMAIN f \ keys
         /\ \A x \in DOMAIN f \ keys : Drop(f, keys)[x] = f[x]
BY DEF IsMap, Drop, Restrict

LEMMA EmplaceType ==
  ASSUME NEW f, NEW S, NEW T, IsMap(f, S, T), NEW k \in S, NEW v \in T
  PROVE  /\ IsMap(Emplace(f, k, v), S, T)
         /\ DOMAIN Emplace(f, k, v) = DOMAIN f \cup {k}
         /\ \A x \in DOMAIN f : Emplace(f, k, v)[x] = f[x]
         /\ k \notin DOMAIN f => Emplace(f, k, v)[k] = v
BY DEF IsMap, Emplace

LEMMA IsMapWiden ==
  ASSUME NEW f, NEW S, NEW T, NEW S1, NEW T1, IsMap(f, S, T),
         S \subseteq S1, T \subseteq T1
  PROVE  IsMap(f, S1, T1)
BY DEF IsMap

LEMMA InitType == Init => TypeOK
<1> SUFFICES ASSUME Init PROVE TypeOK
  OBVIOUS
<1>1. KernelType
  <2>1. gen \in [Name -> Nat]
    BY DEF Init
  <2>2. present \subseteq Name /\ udevQueue \subseteq Name
    BY DEF Init
  <2>3. udevDb \subseteq Name /\ access \subseteq Name
    BY <2>2 DEF Init
  <2> QED
    BY <2>1, <2>2, <2>3, EmptySeq DEF Init, KernelType
<1>2. ContextType
  BY DEF Init, ContextType, IsMap, EmptyMap
<1>3. MapType
  BY DEF Init, MapType, IsMap, EmptyMap
<1>4. SourceType
  BY EmptySeq DEF Init, SourceType
<1>5. LocalType
  BY EmptySeq DEF Init, LocalType
<1> QED
  BY <1>1, <1>2, <1>3, <1>4, <1>5 DEF TypeOK

-----------------------------------------------------------------------------
(* The environment changes the kernel only. *)

LEMMA EnvironmentLeaves ==
  Environment => UNCHANGED <<context, source, deviceMap, polled, pending, locals>>
BY DEF Environment, Plug, Unplug, UdevProcess, UdevForget, UdevOther, Press

LEMMA QueuedType ==
  ASSUME KernelType, NEW n \in Name, NEW mask \in {"create", "delete"}
  PROVE  Queued(mask, n) \in Seq(InotifyEvent)
BY AppendProperties DEF KernelType, Queued, InotifyEvent

LEMMA EnvironmentType == TypeOK /\ Environment => TypeOK'
<1> SUFFICES ASSUME TypeOK, Environment PROVE TypeOK'
  OBVIOUS
<1>1. ContextType' /\ MapType' /\ SourceType' /\ LocalType'
  BY EnvironmentLeaves
  DEF TypeOK, ContextType, MapType, SourceType, LocalType, IsMap, Ids,
      context, deviceMap, locals
<1>2. KernelType'
  <2> USE DEF TypeOK, KernelType
  <2>1. ASSUME NEW n \in Name, Plug(n) PROVE KernelType'
    BY <2>1, QueuedType DEF Plug
  <2>2. ASSUME NEW n \in Name, Unplug(n) PROVE KernelType'
    BY <2>2, QueuedType DEF Unplug
  <2>3. ASSUME NEW n \in Name, UdevProcess(n) PROVE KernelType'
    BY <2>3 DEF UdevProcess, Watching
  <2>4. ASSUME NEW n \in Name, UdevForget(n) PROVE KernelType'
    BY <2>4 DEF UdevForget
  <2>5. ASSUME UdevOther PROVE KernelType'
    BY <2>5 DEF UdevOther
  <2>6. ASSUME NEW i \in DOMAIN devices, Press(i) PROVE KernelType'
    BY <2>6 DEF Press, Handle, ContextType, IsMap
  <2> QED
    BY <2>1, <2>2, <2>3, <2>4, <2>5, <2>6 DEF Environment
<1> QED
  BY <1>1, <1>2 DEF TypeOK

-----------------------------------------------------------------------------
(* Type correctness of the library's steps. *)

LEMMA TailType ==
  ASSUME TypeOK, adding # <<>>
  PROVE  Tail(adding) \in Seq(Name) /\ Head(adding) \in Name
BY HeadTailProperties DEF TypeOK, LocalType

LEMMA ThrowType ==
  ASSUME TypeOK, NEW e \in {"ENOENT", "EACCES", "ENODEV"}, Throw(e)
  PROVE  TypeOK'
<1> USE DEF TypeOK
<1>1. LocalType'
  BY EmptySeq DEF Throw, LocalType
<1>2. ContextType'
  BY DEF Throw, ContextType, IsMap, Ids
<1>3. CASE source = "enumerating"
  <2>1. KernelType'
    BY <1>3, EmptySeq DEF Throw, KernelType
  <2>2. MapType'
    BY <1>3 DEF Throw, MapType, IsMap, EmptyMap
  <2>3. SourceType'
    BY <1>3, EmptySeq DEF Throw, SourceType
  <2> QED
    BY <1>1, <1>2, <2>1, <2>2, <2>3
<1>4. CASE source # "enumerating"
  <2>1. UNCHANGED <<kernel, source, deviceMap, polled, pending, nextId>>
    BY <1>4 DEF Throw, kernel, deviceMap
  <2>2. KernelType' /\ MapType' /\ SourceType'
    BY <2>1
    DEF KernelType, MapType, SourceType, kernel, deviceMap, IsMap, Ids
  <2> QED
    BY <1>1, <1>2, <2>2
<1> QED
  BY <1>3, <1>4

(* The steps that change nothing but the program counter and the locals. *)
LEMMA LocalStepType ==
  ASSUME TypeOK, LocalType',
         UNCHANGED <<kernel, context, source, deviceMap, polled, pending>>
  PROVE  TypeOK'
BY DEF TypeOK, KernelType, ContextType, MapType, SourceType, IsMap, Ids,
       kernel, context, deviceMap

LEMMA UnpollType ==
  ASSUME TypeOK, NEW fds
  PROVE  Unpoll(fds) \in [Fd -> Nat]
BY DEF TypeOK, SourceType, Unpoll

LEMMA RegisterType ==
  ASSUME TypeOK, Control, RegisterDevice
  PROVE  TypeOK'
<1> DEFINE n == handle.name
           fd == handle.fd
<1> USE DEF TypeOK
<1>1. handle \in Handle /\ n \in Name /\ fd \in Fd /\ adding # <<>>
  BY DEF RegisterDevice, Control, Handle
<1>2. nextId \in Nat \ {0} /\ nextId' = nextId + 1
  BY DEF RegisterDevice, ContextType, NextId
<1>3. Ids \subseteq Ids' /\ nextId \in Ids'
  BY <1>2 DEF Ids
<1>4. KernelType'
  BY DEF RegisterDevice, KernelType
<1>5. ContextType'
  <2>1. IsMap(devices', Ids', Handle)
    <3>1. IsMap(devices, Ids', Handle)
      BY <1>3, IsMapWiden DEF ContextType
    <3>2. IsMap(Drop(devices, GoneDevices(n)), Ids', Handle)
      BY <3>1, DropType
    <3> QED
      BY <1>1, <1>3, <3>2, EmplaceType DEF RegisterDevice
  <2>2. IsMap(told', Ids', {"created", "removed"})
    BY <1>3 DEF RegisterDevice, ContextType, IsMap, TellCreated, TellRemoved
  <2>3. uncommitted' \subseteq Ids'
    BY <1>3 DEF RegisterDevice, ContextType
  <2> QED
    BY <1>2, <2>1, <2>2, <2>3 DEF RegisterDevice, ContextType
<1>6. MapType'
  <2>1. /\ IsMap(nameToId, Name, Ids') /\ IsMap(idToName, Ids', Name)
        /\ IsMap(fdToId, Fd, Ids') /\ IsMap(idToFd, Ids', Fd)
    BY <1>3, IsMapWiden DEF MapType
  <2>2. /\ IsMap(Drop(nameToId, {n}), Name, Ids')
        /\ IsMap(Drop(idToName, Gone(n)), Ids', Name)
        /\ IsMap(Drop(fdToId, GoneFds(n)), Fd, Ids')
        /\ IsMap(Drop(idToFd, Gone(n)), Ids', Fd)
    BY <2>1, DropType
  <2>3. IsMap(nameToId', Name, Ids') /\ IsMap(idToName', Ids', Name)
    BY <1>1, <1>3, <2>2, EmplaceType DEF RegisterDevice
  <2>4. IsMap(fdToId', Fd, Ids') /\ IsMap(idToFd', Ids', Fd)
    BY <1>1, <1>3, <2>2, EmplaceType DEF RegisterDevice
  <2> QED
    BY <2>3, <2>4 DEF MapType
<1>7. SourceType'
  BY <1>1, UnpollType DEF RegisterDevice, SourceType, Poll
<1>8. LocalType'
  BY <1>1, TailType DEF RegisterDevice, LocalType
<1> QED
  BY <1>4, <1>5, <1>6, <1>7, <1>8

LEMMA DeleteType ==
  ASSUME TypeOK, InotifyDelete
  PROVE  TypeOK'
<1> DEFINE n == Head(inotify).name
<1> USE DEF TypeOK
<1>1. Ids' = Ids
  BY DEF InotifyDelete, Ids
<1>2. KernelType'
  BY HeadTailProperties DEF InotifyDelete, KernelType
<1>3. ContextType'
  <2>1. IsMap(devices', Ids', Handle)
    BY <1>1, DropType DEF InotifyDelete, ContextType
  <2>2. IsMap(told', Ids', {"created", "removed"})
    BY <1>1 DEF InotifyDelete, ContextType, IsMap, TellRemoved
  <2> QED
    BY <1>1, <2>1, <2>2 DEF InotifyDelete, ContextType
<1>4. MapType'
  BY <1>1, DropType DEF InotifyDelete, MapType
<1>5. SourceType'
  BY UnpollType DEF InotifyDelete, SourceType
<1>6. LocalType'
  BY DEF InotifyDelete, LocalType, locals
<1> QED
  BY <1>2, <1>3, <1>4, <1>5, <1>6

LEMMA HeadName ==
  ASSUME TypeOK, inotify # <<>>
  PROVE  Head(inotify) \in InotifyEvent /\ Head(inotify).name \in Name
<1>1. Head(inotify) \in InotifyEvent
  BY HeadTailProperties DEF TypeOK, KernelType
<1> QED
  BY <1>1 DEF InotifyEvent

LEMMA LibraryType ==
  ASSUME TypeOK, Control, Library
  PROVE  TypeOK'
<1>1. CASE EnumDevices
  <2>1. adding' \in Seq(Name)
    <3>1. PICK s \in [1..Cardinality(present) -> present] : adding' = s
      BY <1>1 DEF EnumDevices
    <3>2. Cardinality(present) \in Nat /\ present \subseteq Name
      BY ConstantsAssumption, FS_Subset, FS_CardinalityType
      DEF ConstantsAssumption, TypeOK, KernelType
    <3> QED
      BY <3>1, <3>2, IsASeq
  <2> QED
    BY <1>1, <2>1, LocalStepType DEF EnumDevices, TypeOK, LocalType
<1>2. CASE ResolvePath \/ ReadTag
  BY <1>2, LocalStepType DEF ResolvePath, ReadTag, TypeOK, LocalType
<1>3. CASE PathGone
  BY <1>3, ThrowType DEF PathGone
<1>4. CASE SkipUntagged \/ SkipInaccessible
  <2>1. adding # <<>>
    BY <1>4 DEF SkipUntagged, SkipInaccessible, Control
  <2> QED
    BY <1>4, <2>1, TailType, LocalStepType
    DEF SkipUntagged, SkipInaccessible, TypeOK, LocalType
<1>5. CASE OpenNode
  <2>1. adding # <<>>
    BY <1>5 DEF OpenNode, Control
  <2>2. PICK fd \in FreeFds :
          handle' = [name |-> Head(adding), gen |-> gen[Head(adding)], fd |-> fd]
    BY <1>5 DEF OpenNode
  <2>3. gen[Head(adding)] \in Nat
    BY <2>1, TailType DEF TypeOK, KernelType
  <2>4. handle' \in Handle
    BY <2>1, <2>2, <2>3, TailType DEF Handle, FreeFds
  <2> QED
    BY <1>5, <2>4, LocalStepType DEF OpenNode, TypeOK, LocalType
<1>6. CASE OpenFails
  BY <1>6, ThrowType DEF OpenFails
<1>7. CASE RegisterDevice
  BY <1>7, RegisterType
<1>8. CASE AddingDone
  BY <1>8, EmptySeq
  DEF AddingDone, TypeOK, KernelType, ContextType, MapType, SourceType,
      LocalType, IsMap, Ids, kernel, context, deviceMap
<1>9. CASE EmptyDrain \/ FinishDrain
  BY <1>9
  DEF EmptyDrain, FinishDrain, Commit, TypeOK, KernelType, ContextType, MapType,
      SourceType, LocalType, IsMap, Ids, kernel, deviceMap, locals
<1>10. CASE StartDrain \/ InotifyEmpty
  BY <1>10, LocalStepType
  DEF StartDrain, InotifyEmpty, ReadyFds, TypeOK, KernelType, LocalType
<1>11. CASE InotifyCreate
  <2>1. pending' \in Seq(Name) /\ inotify' \in Seq(InotifyEvent)
    <3>1. Tail(inotify) \in Seq(InotifyEvent)
      BY <1>11, HeadTailProperties DEF InotifyCreate, TypeOK, KernelType
    <3> QED
      BY <1>11, <3>1, HeadName, AppendProperties
      DEF InotifyCreate, Pend, TypeOK, SourceType
  <2> QED
    BY <1>11, <2>1
    DEF InotifyCreate, TypeOK, KernelType, ContextType, MapType, SourceType,
        LocalType, IsMap, Ids, context, deviceMap, locals
<1>12. CASE InotifyDelete
  BY <1>12, DeleteType
<1>13. CASE UdevSettled
  BY <1>13
  DEF UdevSettled, TypeOK, KernelType, ContextType, MapType, SourceType,
      LocalType, IsMap, Ids, context, deviceMap
<1>14. ASSUME NEW fd \in ready, SkipUnknown(fd) \/ NoMoreEvents(fd)
       PROVE  TypeOK'
  BY <1>14, LocalStepType DEF SkipUnknown, NoMoreEvents, Done, TypeOK, LocalType
<1>15. ASSUME NEW fd \in ready, NextEvent(fd)
       PROVE  TypeOK'
  <2>1. fdToId[fd] \in Ids
    BY <1>15 DEF NextEvent, Known, TypeOK, MapType, IsMap
  <2> QED
    BY <1>15, <2>1
    DEF NextEvent, TypeOK, KernelType, ContextType, MapType, SourceType,
        LocalType, IsMap, Ids, deviceMap, locals
<1>16. ASSUME NEW fd \in ready, NextEventFails(fd)
       PROVE  TypeOK'
  BY <1>16, ThrowType DEF NextEventFails
<1> QED
  BY <1>1, <1>2, <1>3, <1>4, <1>5, <1>6, <1>7, <1>8, <1>9, <1>10, <1>11, <1>12,
     <1>13, <1>14, <1>15, <1>16
  DEF Library, AddDevice, DrainEvents

-----------------------------------------------------------------------------
(* Control. *)

LEMMA ControlStep ==
  ASSUME TypeOK, Control, Next
  PROVE  Control'
<1> USE DEF Control, Watching, OpenFds
<1>1. CASE Environment
  BY <1>1, EnvironmentLeaves DEF context, locals
<1>2. ASSUME NEW e, Throw(e)
      PROVE  Control'
  BY <1>2 DEF Throw
<1>3. CASE EnumDevices
  BY <1>3 DEF EnumDevices, context
<1>4. CASE AddDevice
  <2>1. CASE PathGone \/ OpenFails
    BY <1>2, <2>1 DEF PathGone, OpenFails
  <2>2. CASE ResolvePath \/ ReadTag \/ SkipUntagged \/ SkipInaccessible
    BY <2>2 DEF ResolvePath, ReadTag, SkipUntagged, SkipInaccessible, context
  <2>3. CASE OpenNode
    <3>1. handle' \in Handle
      BY <2>3, LibraryType DEF OpenNode, Library, AddDevice, TypeOK, KernelType,
         LocalType, Handle, FreeFds
    <3>2. handle'.fd \notin OpenFds /\ devices' = devices
      BY <2>3 DEF OpenNode, FreeFds, context
    <3> QED
      BY <2>3, <3>1, <3>2 DEF OpenNode
  <2>4. CASE RegisterDevice
    BY <2>4 DEF RegisterDevice
  <2>5. CASE AddingDone
    BY <2>5 DEF AddingDone
  <2> QED
    BY <1>4, <2>1, <2>2, <2>3, <2>4, <2>5 DEF AddDevice
<1>5. CASE DrainEvents
  <2>1. ASSUME NEW fd \in ready, NextEventFails(fd)
        PROVE  Control'
    BY <1>2, <2>1 DEF NextEventFails
  <2>2. ASSUME NEW fd \in ready,
               SkipUnknown(fd) \/ NextEvent(fd) \/ NoMoreEvents(fd)
        PROVE  Control'
    BY <2>2 DEF SkipUnknown, NextEvent, NoMoreEvents, locals
  <2>3. CASE \/ EmptyDrain \/ StartDrain \/ InotifyCreate \/ InotifyDelete
             \/ InotifyEmpty \/ UdevSettled \/ FinishDrain
    BY <2>3 DEF EmptyDrain, StartDrain, InotifyCreate, InotifyDelete,
                InotifyEmpty, UdevSettled, FinishDrain, locals
  <2> QED
    BY <1>5, <2>1, <2>2, <2>3 DEF DrainEvents
<1> QED
  BY <1>1, <1>3, <1>4, <1>5 DEF Next, Library

(* TypeOK alone is not inductive: that add_device always has a name in hand *)
(* when it looks at Head(adding) is Control's.                              *)
LEMMA TypeAndControl == Spec => [](TypeOK /\ Control)
<1>1. Init => TypeOK /\ Control
  BY InitType DEF Init, Control, Watching
<1>2. TypeOK /\ Control /\ [Next]_vars => (TypeOK /\ Control)'
  <2>1. ASSUME TypeOK, Control, Next PROVE (TypeOK /\ Control)'
    BY <2>1, EnvironmentType, LibraryType, ControlStep DEF Next
  <2>2. ASSUME TypeOK, Control, UNCHANGED vars PROVE (TypeOK /\ Control)'
    BY <2>2
    DEF vars, kernel, context, deviceMap, locals, TypeOK, KernelType,
        ContextType, MapType, SourceType, LocalType, IsMap, Ids, Control,
        Watching, OpenFds
  <2> QED
    BY <2>1, <2>2
<1> QED
  BY <1>1, <1>2, PTL DEF Spec

(* Every reachable state has the types of the variables' declarations.     *)
THEOREM TypeCorrect == Spec => []TypeOK
BY TypeAndControl, PTL

-----------------------------------------------------------------------------
(* The device map. *)

(* evdev_source::remove_device keeps the maps in agreement, and takes every *)
(* device of the name with it.                                              *)
LEMMA RemoveAgrees ==
  ASSUME TypeOK, Watching, MapsAgree, NEW n \in Name
  PROVE  /\ GoneDevices(n) = Gone(n)
         /\ Agree(Drop(devices, GoneDevices(n)), Drop(nameToId, {n}),
                  Drop(idToName, Gone(n)), Drop(fdToId, GoneFds(n)),
                  Drop(idToFd, Gone(n)), Unpoll(GoneFds(n)))
         /\ \A i \in DOMAIN Drop(devices, GoneDevices(n)) :
               devices[i].name # n
<1> DEFINE devs == Drop(devices, GoneDevices(n))
           n2i == Drop(nameToId, {n})
           i2n == Drop(idToName, Gone(n))
           f2i == Drop(fdToId, GoneFds(n))
           i2f == Drop(idToFd, Gone(n))
           entries == Unpoll(GoneFds(n))
<1>1. Agree(devices, nameToId, idToName, fdToId, idToFd, polled)
  BY DEF MapsAgree
<1>2. GoneDevices(n) = Gone(n)
  BY <1>1 DEF Agree, GoneDevices, Gone, Registered
<1>3. \A i \in DOMAIN devices : i \in Gone(n) <=> devices[i].name = n
  BY <1>1 DEF Agree, Gone, Registered
<1>4. \A i \in DOMAIN devices : i \in Gone(n) <=> devices[i].fd \in GoneFds(n)
  BY <1>1, <1>2 DEF Agree, GoneFds, GoneDevices
<1>5. /\ DOMAIN devs = DOMAIN devices \ Gone(n)
      /\ \A i \in DOMAIN devs : devs[i] = devices[i]
  BY <1>2 DEF Drop, Restrict
<1>6. DOMAIN i2n = DOMAIN devs /\ DOMAIN i2f = DOMAIN devs
  BY <1>1, <1>5 DEF Agree, Drop, Restrict
<1>7. DOMAIN n2i = {devs[i].name : i \in DOMAIN devs}
  BY <1>1, <1>3, <1>5 DEF Agree, Drop, Restrict
<1>8. DOMAIN f2i = {devs[i].fd : i \in DOMAIN devs}
  BY <1>1, <1>4, <1>5 DEF Agree, Drop, Restrict
<1>9. ASSUME NEW i \in DOMAIN devs
      PROVE  /\ i2n[i] = devs[i].name /\ n2i[devs[i].name] = i
             /\ i2f[i] = devs[i].fd /\ f2i[devs[i].fd] = i
  BY <1>1, <1>3, <1>4, <1>5 DEF Agree, Drop, Restrict
<1>10. ASSUME NEW fd \in Fd
       PROVE  entries[fd] =
                 IF fd \in {devs[i].fd : i \in DOMAIN devs} THEN 1 ELSE 0
  <2>1. GoneFds(n) \subseteq DOMAIN fdToId
    BY <1>1, <1>2 DEF Agree, GoneFds, GoneDevices
  <2>2. fd \in {devs[i].fd : i \in DOMAIN devs}
           <=> fd \in DOMAIN fdToId /\ fd \notin GoneFds(n)
    BY <1>8 DEF Drop, Restrict
  <2>3. polled[fd] = IF fd \in DOMAIN fdToId THEN 1 ELSE 0
    BY <1>1 DEF Agree
  <2> QED
    BY <2>1, <2>2, <2>3 DEF Unpoll
<1>11. Agree(devs, n2i, i2n, f2i, i2f, entries)
  BY <1>6, <1>7, <1>8, <1>9, <1>10 DEF Agree
<1>12. \A i \in DOMAIN devs : devices[i].name # n
  BY <1>3, <1>5
<1> QED
  BY <1>2, <1>11, <1>12

(* evdev_device_map::add and poller::add keep the maps in agreement when    *)
(* the id, the name and the descriptor are new to them.                     *)
LEMMA AddAgrees ==
  ASSUME NEW devs, NEW n2i, NEW i2n, NEW f2i, NEW i2f, NEW entries,
         entries \in [Fd -> Nat],
         Agree(devs, n2i, i2n, f2i, i2f, entries),
         NEW i, i \notin DOMAIN devs, NEW h \in Handle,
         \A j \in DOMAIN devs : devs[j].name # h.name /\ devs[j].fd # h.fd
  PROVE  Agree(Emplace(devs, i, h), Emplace(n2i, h.name, i),
               Emplace(i2n, i, h.name), Emplace(f2i, h.fd, i),
               Emplace(i2f, i, h.fd), Poll(entries, h.fd))
<1> DEFINE devs1 == Emplace(devs, i, h)
           entries1 == Poll(entries, h.fd)
<1>1. /\ DOMAIN devs1 = DOMAIN devs \cup {i}
      /\ devs1[i] = h
      /\ \A j \in DOMAIN devs : devs1[j] = devs[j]
  BY DEF Emplace
<1>2. /\ DOMAIN Emplace(i2n, i, h.name) = DOMAIN devs1
      /\ DOMAIN Emplace(i2f, i, h.fd) = DOMAIN devs1
  BY <1>1 DEF Agree, Emplace
<1>3. DOMAIN Emplace(n2i, h.name, i) = {devs1[j].name : j \in DOMAIN devs1}
  <2>1. {devs1[j].name : j \in DOMAIN devs1}
           = {devs[j].name : j \in DOMAIN devs} \cup {h.name}
    BY <1>1
  <2> QED
    BY <2>1 DEF Agree, Emplace
<1>4. DOMAIN Emplace(f2i, h.fd, i) = {devs1[j].fd : j \in DOMAIN devs1}
  <2>1. {devs1[j].fd : j \in DOMAIN devs1}
           = {devs[j].fd : j \in DOMAIN devs} \cup {h.fd}
    BY <1>1
  <2> QED
    BY <2>1 DEF Agree, Emplace
<1>5. ASSUME NEW j \in DOMAIN devs1
      PROVE  /\ Emplace(i2n, i, h.name)[j] = devs1[j].name
             /\ Emplace(n2i, h.name, i)[devs1[j].name] = j
             /\ Emplace(i2f, i, h.fd)[j] = devs1[j].fd
             /\ Emplace(f2i, h.fd, i)[devs1[j].fd] = j
  <2>1. CASE j = i
    BY <1>1, <2>1 DEF Agree, Emplace
  <2>2. CASE j # i
    BY <1>1, <2>2 DEF Agree, Emplace
  <2> QED
    BY <2>1, <2>2
<1>6. ASSUME NEW fd \in Fd
      PROVE  entries1[fd] =
                IF fd \in {devs1[j].fd : j \in DOMAIN devs1} THEN 1 ELSE 0
  <2>1. h.fd \in Fd
    BY DEF Handle
  <2>2. CASE fd = h.fd
    <3>1. entries[fd] = 0
      BY <2>2 DEF Agree
    <3> QED
      BY <1>1, <2>1, <2>2, <3>1 DEF Poll
  <2>3. CASE fd # h.fd
    <3>1. entries1[fd] = entries[fd]
      BY <2>1, <2>3 DEF Poll
    <3>2. fd \in {devs1[j].fd : j \in DOMAIN devs1}
             <=> fd \in {devs[j].fd : j \in DOMAIN devs}
      BY <1>1, <2>3
    <3> QED
      BY <3>1, <3>2 DEF Agree
  <2> QED
    BY <2>2, <2>3
<1> QED
  BY <1>2, <1>3, <1>4, <1>5, <1>6 DEF Agree

LEMMA RegisterAgrees ==
  ASSUME TypeOK, Control, MapsAgree, RegisterDevice
  PROVE  MapsAgree'
<1> DEFINE n == handle.name
           devs == Drop(devices, GoneDevices(n))
<1>1. /\ Watching /\ handle \in Handle /\ n \in Name
      /\ handle.fd \notin OpenFds
  BY DEF RegisterDevice, Control, Handle
<1>2. /\ Agree(devs, Drop(nameToId, {n}), Drop(idToName, Gone(n)),
               Drop(fdToId, GoneFds(n)), Drop(idToFd, Gone(n)),
               Unpoll(GoneFds(n)))
      /\ \A i \in DOMAIN devs : devices[i].name # n
  BY <1>1, RemoveAgrees
<1>3. /\ DOMAIN devs \subseteq DOMAIN devices
      /\ \A i \in DOMAIN devs : devs[i] = devices[i]
  BY DEF Drop, Restrict
<1>4. nextId \notin DOMAIN devs
  BY <1>3 DEF TypeOK, ContextType, IsMap, Ids
<1>5. \A i \in DOMAIN devs : devs[i].name # n /\ devs[i].fd # handle.fd
  BY <1>1, <1>2, <1>3 DEF OpenFds
<1>6. Unpoll(GoneFds(n)) \in [Fd -> Nat]
  BY UnpollType
<1>7. Agree(devices', nameToId', idToName', fdToId', idToFd', polled')
  BY <1>1, <1>2, <1>4, <1>5, <1>6, AddAgrees DEF RegisterDevice
<1> QED
  BY <1>7 DEF MapsAgree

LEMMA MapsStep ==
  ASSUME TypeOK, Control, MapsAgree, Next
  PROVE  MapsAgree'
<1>1. ASSUME UNCHANGED <<devices, deviceMap, polled>>, Watching' => Watching
      PROVE  MapsAgree'
  BY <1>1 DEF MapsAgree, Agree, deviceMap
<1>2. CASE Environment
  BY <1>1, <1>2, EnvironmentLeaves DEF context, Watching
<1>3. ASSUME NEW e, Throw(e)
      PROVE  MapsAgree'
  <2>1. CASE source = "enumerating"
    BY <1>3, <2>1 DEF Throw, MapsAgree, Watching
  <2>2. CASE source # "enumerating"
    BY <1>1, <1>3, <2>2 DEF Throw, Watching
  <2> QED
    BY <2>1, <2>2
<1>4. CASE EnumDevices
  BY <1>1, <1>4 DEF EnumDevices, context, Watching
<1>5. CASE AddDevice
  <2>1. CASE PathGone \/ OpenFails
    BY <1>3, <2>1 DEF PathGone, OpenFails
  <2>2. CASE RegisterDevice
    BY <2>2, RegisterAgrees
  <2>3. CASE ResolvePath \/ ReadTag \/ SkipUntagged \/ SkipInaccessible \/ OpenNode
    BY <1>1, <2>3 DEF ResolvePath, ReadTag, SkipUntagged, SkipInaccessible,
                      OpenNode, context, Watching
  <2>4. CASE AddingDone
    BY <1>1, <2>4 DEF AddingDone, Control, context, Watching
  <2> QED
    BY <1>5, <2>1, <2>2, <2>3, <2>4 DEF AddDevice
<1>6. CASE DrainEvents
  <2>1. CASE InotifyDelete
    <3>1. Head(inotify).name \in Name
      BY <2>1, HeadName DEF InotifyDelete
    <3>2. Watching
      BY <2>1 DEF InotifyDelete, Control
    <3> QED
      BY <2>1, <3>1, <3>2, RemoveAgrees DEF InotifyDelete, MapsAgree
  <2>2. ASSUME NEW fd \in ready, NextEventFails(fd)
        PROVE  MapsAgree'
    BY <1>3, <2>2 DEF NextEventFails
  <2>3. ASSUME NEW fd \in ready,
               SkipUnknown(fd) \/ NextEvent(fd) \/ NoMoreEvents(fd)
        PROVE  MapsAgree'
    BY <1>1, <2>3 DEF SkipUnknown, NextEvent, NoMoreEvents, context, Watching
  <2>4. CASE \/ EmptyDrain \/ StartDrain \/ InotifyCreate \/ InotifyEmpty
             \/ UdevSettled \/ FinishDrain
    BY <1>1, <2>4 DEF EmptyDrain, StartDrain, InotifyCreate, InotifyEmpty,
                      UdevSettled, FinishDrain, context, Watching
  <2> QED
    BY <1>6, <2>1, <2>2, <2>3, <2>4 DEF DrainEvents
<1> QED
  BY <1>2, <1>4, <1>5, <1>6 DEF Next, Library

(* While the source lives its four maps, m_devices and m_poller agree: the  *)
(* look-ups asserted in remove_device and drain_events cannot fail.         *)
THEOREM MapsAlwaysAgree == Spec => []MapsAgree
<1>1. Init => MapsAgree
  BY DEF Init, MapsAgree, Agree, EmptyMap
<1>2. TypeOK /\ Control /\ MapsAgree /\ [Next]_vars => MapsAgree'
  <2>1. ASSUME TypeOK, Control, MapsAgree, Next PROVE MapsAgree'
    BY <2>1, MapsStep
  <2>2. ASSUME MapsAgree, UNCHANGED vars PROVE MapsAgree'
    BY <2>2 DEF vars, context, deviceMap, MapsAgree, Agree, Watching
  <2> QED
    BY <2>1, <2>2
<1> QED
  BY <1>1, <1>2, TypeAndControl, PTL DEF Spec

-----------------------------------------------------------------------------
(* Departures. *)

(* An event is not lost when another is queued behind it. *)
LEMMA QueuedKeeps ==
  ASSUME TypeOK, Watching, NEW n \in Name, NEW mask \in {"create", "delete"}
  PROVE  /\ \A k \in DOMAIN inotify :
               k \in DOMAIN Queued(mask, n) /\ Queued(mask, n)[k] = inotify[k]
         /\ \E k \in DOMAIN Queued(mask, n) :
               Queued(mask, n)[k] = [mask |-> mask, name |-> n]
<1> DEFINE e == [mask |-> mask, name |-> n]
<1>1. inotify \in Seq(InotifyEvent) /\ e \in InotifyEvent
  BY DEF TypeOK, KernelType, InotifyEvent
<1>2. Queued(mask, n) = Append(inotify, e)
  BY DEF Queued
<1>3. /\ DOMAIN inotify = 1 .. Len(inotify) /\ Len(inotify) \in Nat
      /\ DOMAIN Append(inotify, e) = 1 .. Len(inotify) + 1
  BY <1>1, AppendProperties, LenProperties
<1> QED
  BY <1>1, <1>2, <1>3, AppendProperties

(* Nor when the one before it is taken. *)
LEMMA TailKeeps ==
  ASSUME TypeOK, inotify # <<>>, NEW k \in DOMAIN inotify,
         inotify[k] # Head(inotify)
  PROVE  \E j \in DOMAIN Tail(inotify) : Tail(inotify)[j] = inotify[k]
<1>1. inotify \in Seq(InotifyEvent)
  BY DEF TypeOK, KernelType
<1>2. /\ DOMAIN inotify = 1 .. Len(inotify) /\ Len(inotify) \in Nat
      /\ DOMAIN Tail(inotify) = 1 .. Len(inotify) - 1
      /\ \A j \in 1 .. Len(inotify) - 1 : Tail(inotify)[j] = inotify[j + 1]
  BY <1>1, HeadTailProperties, LenProperties
<1>3. Head(inotify) = inotify[1]
  BY <1>1
<1>4. k - 1 \in 1 .. Len(inotify) - 1
  BY <1>2, <1>3
<1> QED
  BY <1>2, <1>4

LEMMA DepartureEnvironment ==
  ASSUME TypeOK, DepartureQueued, Environment
  PROVE  DepartureQueued'
<1>1. UNCHANGED <<devices, source>> /\ (Watching' <=> Watching)
  BY EnvironmentLeaves DEF context, Watching
<1>2. ASSUME UNCHANGED <<present, gen, inotify>>
      PROVE  DepartureQueued'
  BY <1>1, <1>2 DEF DepartureQueued, Alive
<1> SUFFICES ASSUME Watching, NEW i \in DOMAIN devices, ~Alive(devices[i])'
             PROVE  \E k \in DOMAIN inotify' :
                       inotify'[k] = [mask |-> "delete", name |-> devices[i].name]
  BY <1>1 DEF DepartureQueued
<1>3. devices[i] \in Handle
  BY DEF TypeOK, ContextType, IsMap
<1>4. ASSUME NEW n \in Name, Plug(n)
      PROVE  \E k \in DOMAIN inotify' :
                inotify'[k] = [mask |-> "delete", name |-> devices[i].name]
  <2>1. ~Alive(devices[i])
    BY <1>1, <1>3, <1>4 DEF Alive, Plug, Handle, TypeOK, KernelType
  <2> QED
    BY <1>4, <2>1, QueuedKeeps DEF DepartureQueued, Plug
<1>5. ASSUME NEW n \in Name, Unplug(n)
      PROVE  \E k \in DOMAIN inotify' :
                inotify'[k] = [mask |-> "delete", name |-> devices[i].name]
  <2>1. CASE ~Alive(devices[i])
    BY <1>5, <2>1, QueuedKeeps DEF DepartureQueued, Unplug
  <2>2. CASE Alive(devices[i])
    <3>1. devices[i].name = n
      BY <1>1, <1>5, <2>2 DEF Alive, Unplug
    <3> QED
      BY <1>5, <3>1, QueuedKeeps DEF Unplug
  <2> QED
    BY <2>1, <2>2
<1>6. ASSUME NEW n \in Name, UdevProcess(n) \/ UdevForget(n)
      PROVE  DepartureQueued'
  BY <1>2, <1>6 DEF UdevProcess, UdevForget
<1>7. ASSUME UdevOther
      PROVE  DepartureQueued'
  <2>1. UNCHANGED <<present, gen, inotify>>
    BY <1>7 DEF UdevOther
  <2> QED
    BY <1>2, <2>1
<1>8. ASSUME NEW j \in DOMAIN devices, Press(j)
      PROVE  DepartureQueued'
  BY <1>2, <1>8 DEF Press
<1> QED
  BY <1>1, <1>4, <1>5, <1>6, <1>7, <1>8 DEF Environment, DepartureQueued

LEMMA DepartureLibrary ==
  ASSUME TypeOK, Control, MapsAgree, DepartureQueued, Library
  PROVE  DepartureQueued'
<1>1. ASSUME UNCHANGED <<devices, present, gen, inotify>>, Watching' => Watching
      PROVE  DepartureQueued'
  BY <1>1 DEF DepartureQueued, Alive
<1>2. ASSUME NEW e, Throw(e)
      PROVE  DepartureQueued'
  <2>1. CASE source = "enumerating"
    BY <1>2, <2>1 DEF Throw, DepartureQueued, Watching
  <2>2. CASE source # "enumerating"
    BY <1>1, <1>2, <2>2 DEF Throw, Watching
  <2> QED
    BY <2>1, <2>2
<1>3. CASE EnumDevices
  BY <1>1, <1>3 DEF EnumDevices, kernel, context, Watching
<1>4. CASE AddDevice
  <2>1. CASE PathGone \/ OpenFails
    BY <1>2, <2>1 DEF PathGone, OpenFails
  <2>2. CASE ResolvePath \/ ReadTag \/ SkipUntagged \/ SkipInaccessible \/ OpenNode
    BY <1>1, <2>2 DEF ResolvePath, ReadTag, SkipUntagged, SkipInaccessible,
                      OpenNode, kernel, context, Watching
  <2>3. CASE AddingDone
    BY <1>1, <2>3 DEF AddingDone, Control, kernel, context, Watching
  <2>4. CASE RegisterDevice
    <3>1. nextId \notin DOMAIN devices
      BY DEF TypeOK, ContextType, IsMap, Ids
    <3>2. /\ DOMAIN devices' \subseteq DOMAIN devices \cup {nextId}
          /\ \A i \in DOMAIN devices \cap DOMAIN devices' :
                devices'[i] = devices[i]
          /\ devices'[nextId] = handle
      <4> DEFINE devs == Drop(devices, GoneDevices(handle.name))
      <4>1. devices' = Emplace(devs, nextId, handle)
        BY <2>4 DEF RegisterDevice
      <4>2. /\ DOMAIN devs \subseteq DOMAIN devices
            /\ \A i \in DOMAIN devs : devs[i] = devices[i]
        BY DEF Drop, Restrict
      <4> HIDE DEF devs
      <4> QED
        BY <4>1, <4>2, <3>1 DEF Emplace
    <3>3. \A i \in DOMAIN devices' :
             (~Alive(devices[i]))' => i \in DOMAIN devices /\ ~Alive(devices[i])
      BY <3>1, <3>2, <2>4 DEF RegisterDevice, Alive
    <3> QED
      BY <2>4, <3>2, <3>3 DEF RegisterDevice, DepartureQueued, Watching
  <2> QED
    BY <1>4, <2>1, <2>2, <2>3, <2>4 DEF AddDevice
<1>5. CASE InotifyCreate
  <2>1. UNCHANGED <<devices, present, gen, source>>
    BY <1>5 DEF InotifyCreate, context
  <2> SUFFICES ASSUME Watching, NEW i \in DOMAIN devices, ~Alive(devices[i])
               PROVE  \E j \in DOMAIN inotify' :
                         inotify'[j] = [mask |-> "delete", name |-> devices[i].name]
    BY <2>1 DEF DepartureQueued, Watching, Alive
  <2>2. PICK k \in DOMAIN inotify :
               inotify[k] = [mask |-> "delete", name |-> devices[i].name]
    BY DEF DepartureQueued
  <2>3. inotify[k] # Head(inotify)
    BY <1>5, <2>2 DEF InotifyCreate
  <2> QED
    BY <1>5, <2>2, <2>3, TailKeeps DEF InotifyCreate
<1>6. CASE InotifyDelete
  <2> DEFINE n == Head(inotify).name
  <2>1. Watching /\ n \in Name
    BY <1>6, HeadName DEF InotifyDelete, Control
  <2>2. /\ devices' = Drop(devices, GoneDevices(n))
        /\ UNCHANGED <<present, gen, source>>
    BY <1>6 DEF InotifyDelete
  <2> SUFFICES ASSUME NEW i \in DOMAIN devices', ~Alive(devices'[i])
               PROVE  \E j \in DOMAIN inotify' :
                         inotify'[j] = [mask |-> "delete", name |-> devices'[i].name]
    BY <2>2 DEF DepartureQueued, Watching, Alive
  <2>3. i \in DOMAIN devices /\ devices'[i] = devices[i] /\ devices[i].name # n
    BY <2>1, <2>2, RemoveAgrees DEF Drop, Restrict
  <2>4. PICK k \in DOMAIN inotify :
               inotify[k] = [mask |-> "delete", name |-> devices[i].name]
    BY <2>1, <2>3 DEF DepartureQueued
  <2>5. inotify[k] # Head(inotify)
    BY <2>3, <2>4
  <2> QED
    BY <1>6, <2>3, <2>4, <2>5, TailKeeps DEF InotifyDelete
<1>7. CASE \/ EmptyDrain \/ StartDrain \/ InotifyEmpty \/ UdevSettled
           \/ FinishDrain
  BY <1>1, <1>7 DEF EmptyDrain, StartDrain, InotifyEmpty, UdevSettled,
                    FinishDrain, kernel, context, Watching
<1>8. ASSUME NEW fd \in ready,
             SkipUnknown(fd) \/ NextEvent(fd) \/ NoMoreEvents(fd)
      PROVE  DepartureQueued'
  BY <1>1, <1>8 DEF SkipUnknown, NextEvent, NoMoreEvents, kernel, context,
                    Watching
<1>9. ASSUME NEW fd \in ready, NextEventFails(fd)
      PROVE  DepartureQueued'
  BY <1>2, <1>9 DEF NextEventFails
<1> QED
  BY <1>3, <1>4, <1>5, <1>6, <1>7, <1>8, <1>9 DEF Library, DrainEvents

(* While the source lives, a registered pad that is gone has its removal    *)
(* waiting in the inotify queue, whatever was skipped or thrown before.     *)
THEOREM DeparturesNeverLost == Spec => []DepartureQueued
<1>1. Init => DepartureQueued
  BY DEF Init, DepartureQueued, EmptyMap
<1>2. TypeOK /\ Control /\ MapsAgree /\ DepartureQueued /\ [Next]_vars
         => DepartureQueued'
  <2>1. ASSUME TypeOK, Control, MapsAgree, DepartureQueued, Next
        PROVE  DepartureQueued'
    BY <2>1, DepartureEnvironment, DepartureLibrary DEF Next
  <2>2. ASSUME DepartureQueued, UNCHANGED vars PROVE DepartureQueued'
    BY <2>2 DEF vars, kernel, context, DepartureQueued, Alive, Watching
  <2> QED
    BY <2>1, <2>2
<1> QED
  BY <1>1, <1>2, TypeAndControl, MapsAlwaysAgree, PTL DEF Spec

-----------------------------------------------------------------------------
(* The client and the life cycle. *)

(* Only two steps tell the client anything, and each tells it what they     *)
(* did to m_devices.                                                        *)
LEMMA SilentStep ==
  ASSUME Next, ~RegisterDevice, ~InotifyDelete
  PROVE  UNCHANGED <<devices, told>>
<1>1. CASE Environment
  BY <1>1, EnvironmentLeaves DEF context
<1>2. CASE EnumDevices
  BY <1>2 DEF EnumDevices, context
<1>3. CASE AddDevice
  BY <1>3 DEF AddDevice, ResolvePath, PathGone, ReadTag, SkipUntagged, OpenNode,
              OpenFails, SkipInaccessible, AddingDone, Throw, context
<1>4. CASE DrainEvents
  BY <1>4 DEF DrainEvents, EmptyDrain, StartDrain, InotifyCreate, InotifyEmpty,
              UdevSettled, FinishDrain, SkipUnknown, NextEvent, NoMoreEvents,
              NextEventFails, Throw, context
<1> QED
  BY <1>1, <1>2, <1>3, <1>4 DEF Next, Library

LEMMA ToldRegister ==
  ASSUME TypeOK, ClientAgrees, RegisterDevice
  PROVE  ClientAgrees' /\ Lifecycle!Announce
<1> DEFINE n == handle.name
           devs == Drop(devices, GoneDevices(n))
<1>1. /\ nextId \in Nat \ {0}
      /\ DOMAIN told \subseteq 1 .. nextId - 1
      /\ DOMAIN devices \subseteq 1 .. nextId - 1
  BY DEF TypeOK, ContextType, IsMap, Ids
<1>2. DOMAIN devices' = (DOMAIN devices \ GoneDevices(n)) \cup {nextId}
  BY DEF RegisterDevice, Emplace, Drop, Restrict
<1>3. /\ DOMAIN told' = DOMAIN told \cup {nextId}
      /\ told'[nextId] = "created"
      /\ \A i \in DOMAIN told :
            told'[i] = IF i \in GoneDevices(n) THEN "removed" ELSE told[i]
  BY <1>1 DEF RegisterDevice, TellCreated, TellRemoved
<1>4. GoneDevices(n) \subseteq DOMAIN devices
  BY DEF GoneDevices
<1>5. \A i \in GoneDevices(n) : i \in DOMAIN told /\ told[i] = "created"
  BY <1>4 DEF ClientAgrees
<1>6. ClientAgrees'
  BY <1>1, <1>2, <1>3, <1>5 DEF ClientAgrees
<1>7. Lifecycle!Announce
  BY <1>1, <1>3, <1>5 DEF Lifecycle!Announce, Lifecycle!Fresh
<1> QED
  BY <1>6, <1>7

LEMMA ToldDelete ==
  ASSUME ClientAgrees, InotifyDelete
  PROVE  ClientAgrees' /\ Lifecycle!Announce
<1> DEFINE n == Head(inotify).name
<1>1. DOMAIN devices' = DOMAIN devices \ GoneDevices(n)
  BY DEF InotifyDelete, Drop, Restrict
<1>2. /\ DOMAIN told' = DOMAIN told
      /\ \A i \in DOMAIN told :
            told'[i] = IF i \in GoneDevices(n) THEN "removed" ELSE told[i]
  BY DEF InotifyDelete, TellRemoved
<1>3. \A i \in GoneDevices(n) : i \in DOMAIN told /\ told[i] = "created"
  BY DEF ClientAgrees, GoneDevices
<1>4. ClientAgrees'
  BY <1>1, <1>2, <1>3 DEF ClientAgrees
<1>5. Lifecycle!Announce
  BY <1>2, <1>3 DEF Lifecycle!Announce, Lifecycle!Fresh
<1> QED
  BY <1>4, <1>5

LEMMA ToldStep ==
  ASSUME TypeOK, ClientAgrees, [Next]_vars
  PROVE  ClientAgrees' /\ [Lifecycle!Announce]_told
<1>1. CASE RegisterDevice
  BY <1>1, ToldRegister
<1>2. CASE InotifyDelete
  BY <1>2, ToldDelete
<1>3. CASE UNCHANGED vars \/ (Next /\ ~RegisterDevice /\ ~InotifyDelete)
  <2>1. UNCHANGED <<devices, told>>
    BY <1>3, SilentStep DEF vars, context
  <2> QED
    BY <2>1 DEF ClientAgrees
<1> QED
  BY <1>1, <1>2, <1>3

(* The list of active devices a client keeps from the device callback is    *)
(* m_devices at all times.                                                  *)
THEOREM ClientAlwaysAgrees == Spec => []ClientAgrees
<1>1. Init => ClientAgrees
  BY DEF Init, ClientAgrees, EmptyMap
<1>2. TypeOK /\ ClientAgrees /\ [Next]_vars => ClientAgrees'
  BY ToldStep
<1> QED
  BY <1>1, <1>2, TypeCorrect, PTL DEF Spec

(* The source implements the life cycle of DeviceLifecycle: ids are told    *)
(* in increasing order, and each is created once and removed at most once.  *)
THEOREM ImplementsLifecycle == Spec => RefinesLifecycle
<1>1. Init => Lifecycle!Init
  BY DEF Init, Lifecycle!Init, EmptyMap
<1>2. TypeOK /\ ClientAgrees /\ [Next]_vars => [Lifecycle!Announce]_told
  BY ToldStep
<1> QED
  BY <1>1, <1>2, TypeCorrect, ClientAlwaysAgrees, PTL
  DEF Spec, RefinesLifecycle, Lifecycle!Spec

-----------------------------------------------------------------------------
(* Arrivals, as long as nothing is plugged in while a settling is acted     *)
(* upon, udevd is done when the source starts, no pad is gone before it was *)
(* added, and udev makes every pad accessible: one that cannot be opened    *)
(* throws, and keeps those behind it in m_pending from being added.         *)
Calm ==
  /\ Upsets \cap {"early", "overlap", "flicker"} = {}
  /\ Joystick \subseteq Accessible

Created(n) == \E k \in DOMAIN inotify : inotify[k] = [mask |-> "create", name |-> n]
InAdd == pc \in {"canonical", "tag", "open", "probe"}

(* Where the library is, and what it holds there. *)
Places ==
  /\ pc = "list" => source = "enumerating"
  /\ pc \in {"idle", "inotify", "udev", "devices"} => source = "running"
  /\ ~InAdd => adding = <<>>
  /\ readyUdev => pc \in {"inotify", "udev"}
  /\ pc = "udev" => readyUdev /\ \A n \in Name : ~Created(n)
  /\ pc \in {"open", "probe"} => Head(adding) \in Joystick
  /\ pc = "probe" => handle.name = Head(adding) /\ Alive(handle)

(* udevd has done its work for the names that are not in its queue; those   *)
(* of pads in the queue were plugged in after the latest settling.          *)
UdevDone ==
  /\ udevDb \subseteq Joystick
  /\ \A n \in present \ udevQueue : /\ n \in Joystick => n \in udevDb
                                    /\ n \in Accessible => n \in access
  /\ settled \/ readyUdev \/ (source = "running" /\ adding # <<>>)
        => present \cap udevQueue = {}

(* What waits to be added is present, and udevd will settle for it. *)
Triggered ==
  /\ \A n \in Name : Created(n) => n \in present
  /\ Range(pending) \subseteq present /\ Range(adding) \subseteq present
  /\ (\E n \in Name : Created(n)) => udevQueue # {} \/ settled \/ readyUdev
  /\ pending # <<>> =>
        udevQueue # {} \/ settled \/ readyUdev \/ (source = "running" /\ InAdd)

(* No pad is forgotten: each is registered, or waits to be added. *)
Remembered ==
  /\ \A n \in present \cap Joystick :
        \/ pc = "list" \/ Created(n) \/ n \in Range(pending) \/ Registered(n)
        \/ source = "enumerating" /\ n \in Range(adding)
  /\ source = "enumerating" => \A n \in present \cap udevQueue : Created(n)
  /\ source = "running" /\ InAdd =>
        \A n \in Range(pending) \cap Joystick : n \in Range(adding) \/ Registered(n)
  /\ \A n \in present, k \in DOMAIN inotify :
        inotify[k] = [mask |-> "delete", name |-> n] =>
           \E j \in DOMAIN inotify :
              k < j /\ inotify[j] = [mask |-> "create", name |-> n]

Served == Watching => Places /\ UdevDone /\ Triggered /\ Remembered

(* What the queues hold, as sets. *)
LEMMA RangeHead ==
  ASSUME NEW S, NEW s \in Seq(S), s # <<>>
  PROVE  Range(s) = {Head(s)} \cup Range(Tail(s))
<1>1. /\ DOMAIN s = 1 .. Len(s) /\ Len(s) \in Nat \ {0} /\ Head(s) = s[1]
      /\ DOMAIN Tail(s) = 1 .. Len(s) - 1
      /\ \A j \in 1 .. Len(s) - 1 : Tail(s)[j] = s[j + 1]
  BY HeadTailProperties, LenProperties, EmptySeq
<1>2. \A k \in 1 .. Len(s) : k = 1 \/ k - 1 \in 1 .. Len(s) - 1
  BY <1>1
<1>3. \A j \in 1 .. Len(s) - 1 : j + 1 \in 1 .. Len(s)
  BY <1>1
<1>4. ASSUME NEW x \in Range(s) PROVE x = Head(s) \/ x \in Range(Tail(s))
  <2>1. PICK k \in 1 .. Len(s) : x = s[k]
    BY <1>1 DEF Range
  <2>2. CASE k = 1
    BY <1>1, <2>1, <2>2
  <2>3. CASE k - 1 \in 1 .. Len(s) - 1
    <3>1. Tail(s)[k - 1] = s[k]
      BY <1>1, <2>3
    <3> QED
      BY <1>1, <2>1, <2>3, <3>1 DEF Range
  <2> QED
    BY <1>2, <2>2, <2>3
<1>5. Head(s) \in Range(s)
  <2>1. 1 \in DOMAIN s
    BY <1>1
  <2> QED
    BY <1>1, <2>1 DEF Range
<1>6. ASSUME NEW x \in Range(Tail(s)) PROVE x \in Range(s)
  BY <1>1, <1>3, <1>6 DEF Range
<1> QED
  BY <1>4, <1>5, <1>6

LEMMA RangeAppend ==
  ASSUME NEW S, NEW s \in Seq(S), NEW x \in S
  PROVE  Range(Append(s, x)) = Range(s) \cup {x}
<1>1. /\ DOMAIN s = 1 .. Len(s) /\ Len(s) \in Nat
      /\ DOMAIN Append(s, x) = 1 .. Len(s) + 1
      /\ \A j \in 1 .. Len(s) : Append(s, x)[j] = s[j]
      /\ Append(s, x)[Len(s) + 1] = x
  BY AppendProperties, LenProperties
<1>2. 1 .. Len(s) + 1 = (1 .. Len(s)) \cup {Len(s) + 1}
  BY <1>1
<1> QED
  BY <1>1, <1>2 DEF Range

LEMMA RangeNone == Range(<<>>) = {}
BY EmptySeq DEF Range

(* The queue of m_inotify when an event is queued behind it. *)
LEMMA QueuedEvents ==
  ASSUME TypeOK, Watching, NEW n \in Name, NEW mask \in {"create", "delete"},
         inotify' = Queued(mask, n)
  PROVE  /\ DOMAIN inotify = 1 .. Len(inotify) /\ Len(inotify) \in Nat
         /\ DOMAIN inotify' = 1 .. Len(inotify) + 1
         /\ \A k \in 1 .. Len(inotify) : inotify'[k] = inotify[k]
         /\ inotify'[Len(inotify) + 1] = [mask |-> mask, name |-> n]
<1> DEFINE e == [mask |-> mask, name |-> n]
<1>1. inotify \in Seq(InotifyEvent) /\ e \in InotifyEvent
  BY DEF TypeOK, KernelType, InotifyEvent
<1>2. inotify' = Append(inotify, e)
  BY DEF Queued
<1> HIDE DEF e
<1>3. /\ DOMAIN inotify = 1 .. Len(inotify) /\ Len(inotify) \in Nat
      /\ DOMAIN Append(inotify, e) = 1 .. Len(inotify) + 1
      /\ \A k \in 1 .. Len(inotify) : Append(inotify, e)[k] = inotify[k]
      /\ Append(inotify, e)[Len(inotify) + 1] = e
  BY <1>1, AppendProperties, LenProperties
<1> QED
  BY <1>2, <1>3 DEF e

(* And when the one before it is taken. *)
LEMMA TakenEvents ==
  ASSUME TypeOK, inotify # <<>>, inotify' = Tail(inotify)
  PROVE  /\ DOMAIN inotify = 1 .. Len(inotify) /\ Len(inotify) \in Nat \ {0}
         /\ DOMAIN inotify' = 1 .. Len(inotify) - 1
         /\ \A k \in 1 .. Len(inotify) - 1 : inotify'[k] = inotify[k + 1]
         /\ Head(inotify) = inotify[1]
<1>1. inotify \in Seq(InotifyEvent)
  BY DEF TypeOK, KernelType
<1>2. /\ DOMAIN inotify = 1 .. Len(inotify) /\ Len(inotify) \in Nat \ {0}
      /\ DOMAIN Tail(inotify) = 1 .. Len(inotify) - 1
      /\ \A j \in 1 .. Len(inotify) - 1 : Tail(inotify)[j] = inotify[j + 1]
      /\ Head(inotify) = inotify[1]
  BY <1>1, HeadTailProperties, LenProperties, EmptySeq
<1> QED
  BY <1>2

(* The steps of the kernel and udevd. *)
LEMMA PlugServed ==
  ASSUME Calm, TypeOK, Control, Served, NEW n \in Name, Plug(n)
  PROVE  Served'
<1>1. /\ UNCHANGED <<udevDb, access, settled, source, nameToId, pending, pc,
                     adding, handle, readyUdev>>
      /\ n \notin present /\ present' = present \cup {n}
      /\ udevQueue' = udevQueue \cup {n}
      /\ inotify' = Queued("create", n)
  BY DEF Plug, context, deviceMap, locals
<1>2. ~settled /\ ~readyUdev /\ adding = <<>>
  BY DEF Plug, ActingOnSettle, Calm
<1> SUFFICES ASSUME Watching PROVE Served'
  BY <1>1 DEF Served, Watching
<1>3. Places /\ UdevDone /\ Triggered /\ Remembered
  BY DEF Served
<1>4. pc \notin {"udev", "tag", "open", "probe"}
  BY <1>2, <1>3 DEF Control, Places
<1>5. /\ DOMAIN inotify = 1 .. Len(inotify) /\ Len(inotify) \in Nat
      /\ DOMAIN inotify' = 1 .. Len(inotify) + 1
      /\ \A k \in 1 .. Len(inotify) : inotify'[k] = inotify[k]
      /\ inotify'[Len(inotify) + 1] = [mask |-> "create", name |-> n]
  BY <1>1, QueuedEvents
<1>6. \A m \in Name : Created(m)' <=> Created(m) \/ m = n
  BY <1>5 DEF Created
<1>7. Places'
  BY <1>1, <1>3, <1>4 DEF Places, InAdd
<1>8. UdevDone'
  BY <1>1, <1>2, <1>3 DEF UdevDone
<1>9. Triggered'
  BY <1>1, <1>3, <1>6 DEF Triggered, InAdd
<1>10. Remembered'
  <2>1. present \subseteq Name /\ present' \subseteq Name
    BY <1>1 DEF TypeOK, KernelType
  <2>2. \A m \in present' \cap Joystick :
           \/ pc' = "list" \/ Created(m)' \/ m \in Range(pending') \/ Registered(m)'
           \/ source' = "enumerating" /\ m \in Range(adding')
    BY <1>1, <1>3, <1>6, <2>1 DEF Remembered, Registered
  <2>3. source' = "enumerating" => \A m \in present' \cap udevQueue' : Created(m)'
    BY <1>1, <1>3, <1>6, <2>1 DEF Remembered
  <2>4. source' = "running" /\ InAdd' => \A m \in Range(pending') \cap Joystick :
             m \in Range(adding') \/ Registered(m)'
    BY <1>1, <1>3 DEF Remembered, InAdd, Registered
  <2>5. ASSUME NEW m \in present', NEW k \in DOMAIN inotify',
               inotify'[k] = [mask |-> "delete", name |-> m]
        PROVE  \E j \in DOMAIN inotify' :
                  k < j /\ inotify'[j] = [mask |-> "create", name |-> m]
    <3>1. k \in 1 .. Len(inotify) /\ inotify[k] = [mask |-> "delete", name |-> m]
      BY <1>5, <2>5
    <3>2. CASE m = n
      BY <1>5, <3>1, <3>2
    <3>3. CASE m # n
      <4>1. PICK j \in DOMAIN inotify :
                    k < j /\ inotify[j] = [mask |-> "create", name |-> m]
        BY <1>1, <1>3, <1>5, <3>1, <3>3 DEF Remembered
      <4>2. j \in DOMAIN inotify' /\ inotify'[j] = inotify[j]
        BY <1>5
      <4> QED
        BY <4>1, <4>2
    <3> QED
      BY <3>2, <3>3
  <2> QED
    BY <2>2, <2>3, <2>4, <2>5 DEF Remembered
<1> QED
  BY <1>7, <1>8, <1>9, <1>10 DEF Served

(* A pad that the source is still to add stays: only others leave. *)
LEMMA UnplugServed ==
  ASSUME Calm, TypeOK, Control, Served, NEW n \in Name, Unplug(n)
  PROVE  Served'
<1>1. /\ UNCHANGED <<gen, udevDb, settled, source, nameToId, pending, pc,
                     adding, handle, readyUdev>>
      /\ n \in present /\ present' = present \ {n}
      /\ access' = access \ {n} /\ udevQueue' = udevQueue \cup {n}
      /\ inotify' = Queued("delete", n)
  BY DEF Unplug, context, deviceMap, locals
<1>2. n \notin Arriving
  BY DEF Unplug, Calm
<1> SUFFICES ASSUME Watching PROVE Served'
  BY <1>1 DEF Served, Watching
<1>3. Places /\ UdevDone /\ Triggered /\ Remembered
  BY DEF Served
<1>4. ~Created(n) /\ n \notin Range(pending) /\ n \notin Range(adding)
  <2>1. ASSUME Created(n) PROVE FALSE
    <3>1. PICK k \in DOMAIN inotify : inotify[k] = [mask |-> "create", name |-> n]
      BY <2>1 DEF Created
    <3>2. inotify[k].mask = "create" /\ inotify[k].name = n
      BY <3>1
    <3> QED
      BY <1>2, <3>2 DEF Arriving
  <2> QED
    BY <1>2, <2>1 DEF Arriving
<1>5. /\ DOMAIN inotify = 1 .. Len(inotify) /\ Len(inotify) \in Nat
      /\ DOMAIN inotify' = 1 .. Len(inotify) + 1
      /\ \A k \in 1 .. Len(inotify) : inotify'[k] = inotify[k]
      /\ inotify'[Len(inotify) + 1] = [mask |-> "delete", name |-> n]
  BY <1>1, QueuedEvents
<1>6. \A m \in Name : Created(m)' <=> Created(m)
  BY <1>5 DEF Created
<1>7. Places'
  <2>1. adding # <<>> => Head(adding) # n
    BY <1>4, RangeHead DEF TypeOK, LocalType
  <2>2. pc = "probe" => Alive(handle)'
    BY <1>1, <1>3, <2>1 DEF Places, Alive, Control
  <2> QED
    BY <1>1, <1>3, <1>6, <2>2 DEF Places, InAdd
<1>8. UdevDone'
  BY <1>1, <1>3 DEF UdevDone
<1>9. Triggered'
  BY <1>1, <1>3, <1>4, <1>6 DEF Triggered, InAdd
<1>10. Remembered'
  <2>1. present \subseteq Name
    BY DEF TypeOK, KernelType
  <2>2. \A m \in present' \cap Joystick :
           \/ pc' = "list" \/ Created(m)' \/ m \in Range(pending') \/ Registered(m)'
           \/ source' = "enumerating" /\ m \in Range(adding')
    BY <1>1, <1>3, <1>6, <2>1 DEF Remembered, Registered
  <2>3. source' = "enumerating" => \A m \in present' \cap udevQueue' : Created(m)'
    BY <1>1, <1>3, <1>6, <2>1 DEF Remembered
  <2>4. source' = "running" /\ InAdd' => \A m \in Range(pending') \cap Joystick :
             m \in Range(adding') \/ Registered(m)'
    BY <1>1, <1>3 DEF Remembered, InAdd, Registered
  <2>5. ASSUME NEW m \in present', NEW k \in DOMAIN inotify',
               inotify'[k] = [mask |-> "delete", name |-> m]
        PROVE  \E j \in DOMAIN inotify' :
                  k < j /\ inotify'[j] = [mask |-> "create", name |-> m]
    <3>1. m # n /\ m \in present
      BY <1>1
    <3>2. k # Len(inotify) + 1
      BY <1>5, <2>5, <3>1
    <3>3. k \in DOMAIN inotify /\ inotify[k] = [mask |-> "delete", name |-> m]
      BY <1>5, <2>5, <3>2
    <3>4. PICK j \in DOMAIN inotify :
                  k < j /\ inotify[j] = [mask |-> "create", name |-> m]
      BY <1>3, <3>1, <3>3 DEF Remembered
    <3>5. j \in DOMAIN inotify' /\ inotify'[j] = inotify[j]
      BY <1>5
    <3> QED
      BY <3>4, <3>5
  <2> QED
    BY <2>2, <2>3, <2>4, <2>5 DEF Remembered
<1> QED
  BY <1>7, <1>8, <1>9, <1>10 DEF Served

LEMMA UdevServed ==
  ASSUME TypeOK, Served,
         \/ \E n \in Name : UdevProcess(n) \/ UdevForget(n)
         \/ UdevOther
  PROVE  Served'
<1>1. UNCHANGED <<present, gen, inotify, source, nameToId, pending, pc, adding,
                  handle, readyUdev>>
  BY DEF UdevProcess, UdevForget, UdevOther, context, deviceMap, locals
<1> SUFFICES ASSUME Watching PROVE Served'
  BY <1>1 DEF Served, Watching
<1>2. Places /\ UdevDone /\ Triggered /\ Remembered
  BY DEF Served
<1>3. Places'
  BY <1>1, <1>2 DEF Places, InAdd, Created, Alive
<1>4. /\ udevQueue' \subseteq udevQueue /\ (settled => settled')
      /\ udevQueue # {} => udevQueue' # {} \/ settled'
  <2>1. ASSUME NEW n \in Name, UdevProcess(n)
        PROVE  /\ udevQueue' = udevQueue \ {n}
               /\ settled \/ udevQueue' = {} => settled'
    BY <2>1 DEF UdevProcess
  <2>2. ASSUME NEW n \in Name, UdevForget(n)
        PROVE  udevQueue' = udevQueue /\ settled' = settled
    BY <2>2 DEF UdevForget
  <2>3. CASE UdevOther
    BY <2>3 DEF UdevOther
  <2> QED
    BY <2>1, <2>2, <2>3
<1>5. Triggered'
  BY <1>1, <1>2, <1>4 DEF Triggered, Created, InAdd
<1>6. Remembered'
  <2>1. \A n : Created(n)' <=> Created(n)
    BY <1>1 DEF Created
  <2>2. \A n : Registered(n)' <=> Registered(n)
    BY <1>1 DEF Registered
  <2>3. source' = "enumerating" => \A m \in present' \cap udevQueue' : Created(m)'
    BY <1>1, <1>2, <1>4, <2>1 DEF Remembered
  <2>4. \A m \in present' \cap Joystick :
           \/ pc' = "list" \/ Created(m)' \/ m \in Range(pending') \/ Registered(m)'
           \/ source' = "enumerating" /\ m \in Range(adding')
    BY <1>1, <1>2, <2>1, <2>2 DEF Remembered
  <2>5. source' = "running" /\ InAdd' => \A m \in Range(pending') \cap Joystick :
             m \in Range(adding') \/ Registered(m)'
    BY <1>1, <1>2, <2>2 DEF Remembered, InAdd
  <2>6. \A m \in present', k \in DOMAIN inotify' :
          inotify'[k] = [mask |-> "delete", name |-> m] =>
             \E j \in DOMAIN inotify' :
                k < j /\ inotify'[j] = [mask |-> "create", name |-> m]
    BY <1>1, <1>2 DEF Remembered
  <2> QED
    BY <2>3, <2>4, <2>5, <2>6 DEF Remembered
<1>7. UdevDone'
  <2>1. ASSUME NEW n \in Name, UdevProcess(n) PROVE UdevDone'
    <3>1. /\ udevQueue' = udevQueue \ {n}
          /\ udevDb' = IF n \in present \cap Joystick THEN udevDb \cup {n}
                                                      ELSE udevDb \ {n}
          /\ access' = IF n \in present \cap Accessible THEN access \cup {n}
                                                        ELSE access
          /\ settled' => settled \/ udevQueue' = {}
      BY <2>1 DEF UdevProcess
    <3> QED
      BY <1>1, <1>2, <3>1 DEF UdevDone
  <2>2. ASSUME NEW n \in Name, UdevForget(n) PROVE UdevDone'
    BY <1>1, <1>2, <2>2 DEF UdevDone, UdevForget
  <2>3. CASE UdevOther
    BY <1>1, <1>2, <2>3 DEF UdevDone, UdevOther
  <2> QED
    BY <2>1, <2>2, <2>3
<1> QED
  BY <1>2, <1>3, <1>5, <1>6, <1>7 DEF Served

(* The library's steps that only move the program counter. *)
LEMMA MoveServed ==
  ASSUME Served, Watching => Places',
         UNCHANGED <<present, udevQueue, udevDb, access, inotify, settled,
                     source, nameToId, pending, adding, readyUdev>>,
         pc' # "list" => pc # "list",
         pc = "list" => pc' = "list",
         InAdd' <=> InAdd
  PROVE  Served'
<1> SUFFICES ASSUME Watching PROVE Served'
  BY DEF Served, Watching
<1>1. Places /\ UdevDone /\ Triggered /\ Remembered
  BY DEF Served
<1>2. \A n : (Created(n)' <=> Created(n)) /\ (Registered(n)' <=> Registered(n))
  BY DEF Created, Registered
<1>3. UdevDone' /\ Triggered'
  BY <1>1, <1>2 DEF UdevDone, Triggered
<1>4. Remembered'
  BY <1>1, <1>2 DEF Remembered
<1> QED
  BY <1>1, <1>3, <1>4 DEF Served

LEMMA HeldHead ==
  ASSUME TypeOK, Served, Watching, adding # <<>>
  PROVE  /\ Range(adding) = {Head(adding)} \cup Range(Tail(adding))
         /\ Head(adding) \in present
<1>1. Range(adding) = {Head(adding)} \cup Range(Tail(adding))
  BY RangeHead DEF TypeOK, LocalType
<1> QED
  BY <1>1 DEF Served, Triggered

LEMMA ListServed ==
  ASSUME Served, EnumDevices
  PROVE  Served'
<1>1. /\ pc = "list" /\ pc' = "canonical" /\ Range(adding') = present
      /\ UNCHANGED <<present, gen, udevQueue, udevDb, access, inotify, settled,
                     source, nameToId, pending, handle, readyUdev>>
  BY DEF EnumDevices, kernel, deviceMap
<1> SUFFICES ASSUME Watching PROVE Served'
  BY <1>1 DEF Served, Watching
<1>2. Places /\ UdevDone /\ Triggered /\ Remembered
  BY DEF Served
<1>3. source = "enumerating" /\ ~readyUdev
  BY <1>1, <1>2 DEF Places
<1>4. \A n : (Created(n)' <=> Created(n)) /\ (Registered(n)' <=> Registered(n))
  BY <1>1 DEF Created, Registered
<1>5. Places'
  BY <1>1, <1>2, <1>3 DEF Places, InAdd
<1>6. UdevDone' /\ Triggered'
  BY <1>1, <1>2, <1>3, <1>4 DEF UdevDone, Triggered, InAdd
<1>7. Remembered'
  BY <1>1, <1>2, <1>3, <1>4 DEF Remembered
<1> QED
  BY <1>5, <1>6, <1>7 DEF Served

(* add_device leaves the name in hand: it is registered, or it is no pad,   *)
(* or its CREATE event is queued and it comes again.                        *)
LEMMA NextServed ==
  ASSUME TypeOK, Served, Watching, InAdd, adding # <<>>,
         adding' = Tail(adding), pc' = "canonical",
         UNCHANGED <<present, udevQueue, udevDb, access, inotify, settled,
                     source, pending, readyUdev>>,
         DOMAIN nameToId \subseteq DOMAIN nameToId',
         Head(adding) \in Joystick =>
            \/ Head(adding) \in DOMAIN nameToId'
            \/ source = "enumerating" /\ Created(Head(adding))
  PROVE  Served'
<1>1. Places /\ UdevDone /\ Triggered /\ Remembered
  BY DEF Served
<1> PICK n : n = Head(adding)
  OBVIOUS
<1>2. Range(adding) = {n} \cup Range(adding')
  BY HeldHead
<1>3. \A m : Created(m)' <=> Created(m)
  BY DEF Created
<1>4. /\ \A m : Registered(m) => Registered(m)'
      /\ n \in DOMAIN nameToId' => Registered(n)'
  BY DEF Registered
<1>5. Places'
  BY <1>1, <1>3 DEF Places, InAdd
<1>6. UdevDone'
  BY <1>1 DEF UdevDone
<1>7. Triggered'
  BY <1>1, <1>2, <1>3 DEF Triggered, InAdd
<1>8. Remembered'
  <2>1. ASSUME NEW m \in present' \cap Joystick
        PROVE  \/ pc' = "list" \/ Created(m)' \/ m \in Range(pending') \/ Registered(m)'
               \/ source' = "enumerating" /\ m \in Range(adding')
    <3>1. \/ Created(m) \/ m \in Range(pending) \/ Registered(m)
          \/ source = "enumerating" /\ m \in Range(adding)
      BY <1>1 DEF Remembered, InAdd
    <3>2. CASE source = "enumerating" /\ m \in Range(adding)
      BY <1>2, <1>3, <1>4, <3>2
    <3> QED
      BY <1>3, <1>4, <3>1, <3>2
  <2>2. source' = "enumerating" => \A m \in present' \cap udevQueue' : Created(m)'
    BY <1>1, <1>3 DEF Remembered
  <2>3. source' = "running" /\ InAdd' => \A m \in Range(pending') \cap Joystick :
             m \in Range(adding') \/ Registered(m)'
    BY <1>1, <1>2, <1>4 DEF Remembered
  <2>4. \A m \in present', k \in DOMAIN inotify' :
          inotify'[k] = [mask |-> "delete", name |-> m] =>
             \E j \in DOMAIN inotify' :
                k < j /\ inotify'[j] = [mask |-> "create", name |-> m]
    BY <1>1 DEF Remembered
  <2> QED
    BY <2>1, <2>2, <2>3, <2>4 DEF Remembered
<1> QED
  BY <1>5, <1>6, <1>7, <1>8 DEF Served

LEMMA SkipServed ==
  ASSUME TypeOK, Control, Served, SkipUntagged
  PROVE  Served'
<1> DEFINE h == Head(adding)
<1>1. Watching /\ InAdd /\ adding # <<>>
  BY DEF SkipUntagged, Control, InAdd
<1>2. Places /\ UdevDone /\ Triggered /\ Remembered
  BY <1>1 DEF Served
<1>3. h \in present /\ h \notin udevDb
  BY <1>1, HeldHead DEF SkipUntagged, Tagged
<1>4. source \in {"enumerating", "running"}
  BY <1>1 DEF Watching, TypeOK, SourceType
<1>5. h \in Joystick => source = "enumerating" /\ Created(h)
  <2>1. h \in Joystick => h \in udevQueue
    BY <1>2, <1>3 DEF UdevDone
  <2>2. CASE source = "running"
    BY <1>1, <1>2, <1>3, <2>1, <2>2 DEF UdevDone
  <2>3. CASE source = "enumerating"
    BY <1>2, <1>3, <2>1, <2>3 DEF Remembered
  <2> QED
    BY <1>4, <2>2, <2>3
<1> QED
  BY <1>1, <1>5, NextServed DEF SkipUntagged, kernel, deviceMap

LEMMA RegisterServed ==
  ASSUME TypeOK, Control, Served, RegisterDevice
  PROVE  Served'
<1>1. Watching /\ InAdd /\ adding # <<>>
  BY DEF RegisterDevice, Control, InAdd
<1>2. handle.name = Head(adding)
  BY <1>1 DEF Served, Places, RegisterDevice
<1>3. DOMAIN nameToId' = DOMAIN nameToId \cup {Head(adding)}
  BY <1>2 DEF RegisterDevice, Emplace, Drop, Restrict
<1>4. /\ adding' = Tail(adding) /\ pc' = "canonical"
      /\ UNCHANGED <<present, udevQueue, udevDb, access, inotify, settled,
                     source, pending, readyUdev>>
  BY DEF RegisterDevice
<1> QED
  BY <1>1, <1>3, <1>4, NextServed

(* add_device never throws once the source runs; while it enumerates, an   *)
(* exception drops the source.                                              *)
LEMMA AddServed ==
  ASSUME Calm, TypeOK, Control, Served, AddDevice
  PROVE  Served'
<1>1. Watching
  BY DEF AddDevice, ResolvePath, PathGone, ReadTag, SkipUntagged, OpenNode,
         OpenFails, SkipInaccessible, RegisterDevice, AddingDone, Control
<1>2. Places /\ UdevDone /\ Triggered /\ Remembered
  BY <1>1 DEF Served
<1>3. source \in {"enumerating", "running"}
  BY <1>1 DEF Watching, TypeOK, SourceType
<1>4. CASE ResolvePath
  <2>1. Places'
    BY <1>2, <1>4 DEF ResolvePath, Places, InAdd, Created, kernel
  <2> QED
    BY <1>4, <2>1, MoveServed DEF ResolvePath, InAdd, kernel, deviceMap
<1>5. CASE PathGone
  BY <1>1, <1>5, HeldHead DEF PathGone
<1>6. CASE ReadTag
  <2>1. Head(adding) \in Joystick
    BY <1>2, <1>6 DEF ReadTag, Tagged, UdevDone
  <2>2. Places'
    BY <1>2, <1>6, <2>1 DEF ReadTag, Places, InAdd, Created, kernel
  <2> QED
    BY <1>6, <2>2, MoveServed DEF ReadTag, InAdd, kernel, deviceMap
<1>7. CASE SkipUntagged
  BY <1>7, SkipServed
<1>8. CASE OpenNode
  <2>1. /\ handle'.name = Head(adding) /\ handle'.gen = gen[Head(adding)]
        /\ Head(adding) \in present
    BY <1>8 DEF OpenNode
  <2>2. Alive(handle)'
    BY <1>8, <2>1 DEF OpenNode, Alive, kernel
  <2>3. Places'
    BY <1>2, <1>8, <2>1, <2>2 DEF OpenNode, Places, InAdd, Created, kernel
  <2> QED
    BY <1>8, <2>3, MoveServed DEF OpenNode, InAdd, kernel, deviceMap
<1>9. CASE OpenFails
  <2>1. CASE source = "enumerating"
    BY <1>9, <2>1 DEF OpenFails, Throw, Served, Watching
  <2>2. CASE source = "running"
    <3>1. adding # <<>>
      BY <1>9 DEF OpenFails, Control
    <3>2. Head(adding) \in present /\ Head(adding) \in Joystick
      BY <1>1, <1>2, <1>9, <3>1, HeldHead DEF OpenFails, Places
    <3>3. Head(adding) \notin udevQueue
      BY <1>2, <2>2, <3>1, <3>2 DEF UdevDone
    <3>4. Head(adding) \in access
      BY <1>2, <3>2, <3>3 DEF UdevDone, Calm
    <3> QED
      BY <1>9, <3>2, <3>4 DEF OpenFails
  <2> QED
    BY <1>3, <2>1, <2>2
<1>10. CASE SkipInaccessible
  BY <1>2, <1>10 DEF SkipInaccessible, Places
<1>11. CASE RegisterDevice
  BY <1>11, RegisterServed
<1>12. CASE AddingDone
  <2>1. /\ UNCHANGED <<present, gen, udevQueue, udevDb, access, inotify, settled,
                       nameToId, adding, handle, readyUdev>>
        /\ pc = "canonical" /\ adding = <<>>
    BY <1>12 DEF AddingDone, kernel, deviceMap
  <2>2. ~readyUdev
    BY <1>2, <2>1 DEF Places
  <2>3. \A n : (Created(n)' <=> Created(n)) /\ (Registered(n)' <=> Registered(n))
    BY <2>1 DEF Created, Registered
  <2>4. \/ source = "enumerating" /\ source' = "running" /\ pc' = "idle"
           /\ pending' = pending
        \/ source = "running" /\ source' = "running" /\ pc' = "devices"
           /\ pending' = <<>>
    BY <1>3, <1>12 DEF AddingDone
  <2>5. \A m \in present \cap Joystick :
           Created(m) \/ m \in Range(pending') \/ Registered(m)
    BY <1>2, <2>1, <2>4, RangeNone DEF Remembered, InAdd
  <2>6. Places'
    BY <1>2, <2>1, <2>2, <2>4 DEF Places, InAdd
  <2>7. UdevDone'
    BY <1>2, <2>1, <2>2 DEF UdevDone
  <2>8. Triggered'
    BY <1>2, <2>1, <2>3, <2>4, RangeNone DEF Triggered, InAdd
  <2>9. Remembered'
    BY <1>2, <2>1, <2>3, <2>4, <2>5 DEF Remembered, InAdd
  <2> QED
    BY <2>6, <2>7, <2>8, <2>9 DEF Served
<1> QED
  BY <1>4, <1>5, <1>6, <1>7, <1>8, <1>9, <1>10, <1>11, <1>12 DEF AddDevice

(* process_inotify, one event of the queue. *)
LEMMA InotifyServed ==
  ASSUME TypeOK, Control, Served, InotifyCreate \/ InotifyDelete
  PROVE  Served'
<1> DEFINE n == Head(inotify).name
<1>1. /\ UNCHANGED <<present, gen, udevQueue, udevDb, access, settled, source,
                     pc, adding, handle, readyUdev>>
      /\ pc = "inotify" /\ inotify # <<>> /\ inotify' = Tail(inotify)
  BY DEF InotifyCreate, InotifyDelete, context, locals
<1> SUFFICES ASSUME Watching PROVE Served'
  BY <1>1 DEF Served, Watching
<1>2. Places /\ UdevDone /\ Triggered /\ Remembered
  BY DEF Served
<1>3. source = "running" /\ adding = <<>> /\ ~InAdd
  BY <1>1, <1>2 DEF Places, InAdd
<1>4. /\ DOMAIN inotify = 1 .. Len(inotify) /\ Len(inotify) \in Nat \ {0}
      /\ DOMAIN inotify' = 1 .. Len(inotify) - 1
      /\ \A k \in 1 .. Len(inotify) - 1 : inotify'[k] = inotify[k + 1]
      /\ Head(inotify) = inotify[1]
  BY <1>1, TakenEvents
<1>5. Head(inotify) \in InotifyEvent /\ n \in Name
  BY <1>1, HeadName
<1>6. ASSUME NEW e, NEW k \in DOMAIN inotify, inotify[k] = e, e # Head(inotify)
      PROVE  k - 1 \in DOMAIN inotify' /\ inotify'[k - 1] = e
  BY <1>4, <1>6
<1>7. ASSUME NEW k \in DOMAIN inotify'
      PROVE  k + 1 \in DOMAIN inotify /\ inotify[k + 1] = inotify'[k]
  BY <1>4
<1>8. \A m : Created(m)' => Created(m)
  BY <1>7 DEF Created
<1>9. \A m : Created(m) => Created(m)' \/ Head(inotify) = [mask |-> "create", name |-> m]
  BY <1>6 DEF Created
<1>10. Places'
  BY <1>1, <1>2 DEF Places, InAdd
<1>11. UdevDone'
  BY <1>1, <1>2 DEF UdevDone
<1>12. \A m \in present', k \in DOMAIN inotify' :
          inotify'[k] = [mask |-> "delete", name |-> m] =>
             \E j \in DOMAIN inotify' :
                k < j /\ inotify'[j] = [mask |-> "create", name |-> m]
  <2> SUFFICES ASSUME NEW m \in present, NEW k \in DOMAIN inotify',
                      inotify'[k] = [mask |-> "delete", name |-> m]
               PROVE  \E j \in DOMAIN inotify' :
                         k < j /\ inotify'[j] = [mask |-> "create", name |-> m]
    BY <1>1
  <2>1. k + 1 \in DOMAIN inotify /\ inotify[k + 1] = [mask |-> "delete", name |-> m]
    BY <1>7
  <2>2. PICK j \in DOMAIN inotify :
                k + 1 < j /\ inotify[j] = [mask |-> "create", name |-> m]
    BY <1>2, <2>1 DEF Remembered
  <2>3. j - 1 \in DOMAIN inotify' /\ k < j - 1 /\ inotify'[j - 1] = inotify[j]
    BY <1>4, <2>2
  <2> QED
    BY <2>2, <2>3
<1>13. CASE InotifyCreate
  <2>1. /\ pending' = Append(pending, n) /\ nameToId' = nameToId
        /\ Head(inotify).mask = "create"
    BY <1>13 DEF InotifyCreate, Pend, deviceMap
  <2>2. Range(pending') = Range(pending) \cup {n}
    BY <1>5, <2>1, RangeAppend DEF TypeOK, SourceType
  <2>3. Head(inotify) = [mask |-> "create", name |-> n]
    BY <1>5, <2>1 DEF InotifyEvent
  <2>4. Created(n)
    <3>1. 1 \in DOMAIN inotify
      BY <1>4
    <3> QED
      BY <1>4, <2>3, <3>1 DEF Created
  <2>5. \A m : Created(m) => Created(m)' \/ m \in Range(pending')
    <3>1. \A m : Head(inotify) = [mask |-> "create", name |-> m] => m = n
      OBVIOUS
    <3> QED
      BY <1>9, <2>2, <3>1
  <2>6. Triggered'
    BY <1>1, <1>2, <1>3, <1>5, <1>8, <2>2, <2>4 DEF Triggered, InAdd
  <2>7. \A m \in present' \cap Joystick :
           \/ pc' = "list" \/ Created(m)' \/ m \in Range(pending') \/ Registered(m)'
           \/ source' = "enumerating" /\ m \in Range(adding')
    BY <1>1, <1>2, <1>3, <2>1, <2>2, <2>5 DEF Remembered, Registered
  <2>8. Remembered'
    BY <1>1, <1>3, <1>12, <2>7 DEF Remembered, InAdd
  <2> QED
    BY <1>10, <1>11, <2>6, <2>8 DEF Served
<1>14. CASE InotifyDelete
  <2>1. /\ pending' = pending /\ Head(inotify).mask = "delete"
        /\ DOMAIN nameToId' = DOMAIN nameToId \ {n}
    BY <1>14 DEF InotifyDelete, Drop, Restrict
  <2>2. \A m : Created(m)' <=> Created(m)
    BY <1>8, <1>9, <2>1
  <2>3. n \in present => Created(n)
    <3>1. Head(inotify) = [mask |-> "delete", name |-> n] /\ 1 \in DOMAIN inotify
      BY <1>4, <1>5, <2>1 DEF InotifyEvent
    <3> QED
      BY <1>2, <1>4, <3>1 DEF Remembered, Created
  <2>4. Triggered'
    BY <1>1, <1>2, <2>1, <2>2 DEF Triggered, InAdd
  <2>5. \A m \in present' \cap Joystick :
           \/ pc' = "list" \/ Created(m)' \/ m \in Range(pending') \/ Registered(m)'
           \/ source' = "enumerating" /\ m \in Range(adding')
    BY <1>1, <1>2, <1>3, <2>1, <2>2, <2>3 DEF Remembered, Registered
  <2>6. Remembered'
    BY <1>1, <1>3, <1>12, <2>5 DEF Remembered, InAdd
  <2> QED
    BY <1>10, <1>11, <2>4, <2>6 DEF Served
<1> QED
  BY <1>13, <1>14

(* The other steps of drain_events. *)
LEMMA DrainServed ==
  ASSUME Calm, TypeOK, Control, Served, DrainEvents
  PROVE  Served'
<1>1. CASE InotifyCreate \/ InotifyDelete
  BY <1>1, InotifyServed
<1>2. CASE EmptyDrain
  <2>1. UNCHANGED <<kernel, source, deviceMap, pending, locals>>
    BY <1>2 DEF EmptyDrain
  <2>2. Served => Served'
    BY <2>1 DEF Served, Watching, Places, UdevDone, Triggered, Remembered, Created,
       Registered, InAdd, Alive, kernel, deviceMap, locals
  <2> QED
    BY <2>2
<1>3. CASE StartDrain
  <2>1. /\ UNCHANGED <<present, gen, udevQueue, udevDb, access, inotify, settled,
                       source, nameToId, pending, adding, handle>>
        /\ pc = "idle" /\ source = "running" /\ readyUdev' = settled
        /\ pc' = IF inotify # <<>> THEN "inotify"
                 ELSE IF settled THEN "udev" ELSE "devices"
    BY <1>3 DEF StartDrain, kernel, deviceMap
  <2>2. Places /\ UdevDone /\ Triggered /\ Remembered
    BY <2>1 DEF Served, Watching
  <2>3. adding = <<>> /\ ~readyUdev
    BY <2>1, <2>2 DEF Places, InAdd
  <2>4. \A n : (Created(n)' <=> Created(n)) /\ (Registered(n)' <=> Registered(n))
    BY <2>1 DEF Created, Registered
  <2>5. inotify = <<>> => \A n : ~Created(n)
    BY EmptySeq DEF Created
  <2>6. Places'
    BY <2>1, <2>3, <2>4, <2>5 DEF Places, InAdd
  <2>7. UdevDone'
    BY <2>1, <2>2, <2>3 DEF UdevDone
  <2>8. Triggered'
    BY <2>1, <2>2, <2>3, <2>4 DEF Triggered, InAdd
  <2>9. Remembered'
    BY <2>1, <2>2, <2>3, <2>4 DEF Remembered, InAdd
  <2> QED
    BY <2>6, <2>7, <2>8, <2>9 DEF Served
<1>4. CASE InotifyEmpty
  <2>1. /\ UNCHANGED <<present, gen, udevQueue, udevDb, access, inotify, settled,
                       source, nameToId, pending, adding, handle, readyUdev>>
        /\ pc = "inotify" /\ inotify = <<>>
        /\ pc' = IF readyUdev THEN "udev" ELSE "devices"
    BY <1>4 DEF InotifyEmpty, kernel, deviceMap
  <2>2. \A n : ~Created(n)
    BY <2>1, EmptySeq DEF Created
  <2>3. Watching => Places'
    BY <2>1, <2>2 DEF Served, Places, InAdd, Created
  <2> QED
    BY <2>1, <2>3, MoveServed DEF InAdd
<1>5. CASE UdevSettled
  <2>1. /\ UNCHANGED <<present, gen, udevQueue, udevDb, access, inotify, source,
                       nameToId, pending, handle>>
        /\ pc = "udev" /\ pc' = "canonical" /\ settled' = FALSE
        /\ readyUdev' = FALSE /\ adding' = pending
    BY <1>5 DEF UdevSettled, context, deviceMap
  <2>2. Watching
    BY <2>1 DEF Control
  <2>3. Places /\ UdevDone /\ Triggered /\ Remembered
    BY <2>2 DEF Served
  <2>4. source = "running" /\ readyUdev /\ \A n \in Name : ~Created(n)
    BY <2>1, <2>3 DEF Places
  <2>5. \A n : (Created(n)' <=> Created(n)) /\ (Registered(n)' <=> Registered(n))
    BY <2>1 DEF Created, Registered
  <2>6. Places'
    BY <2>1, <2>4, <2>3 DEF Places, InAdd
  <2>7. UdevDone'
    BY <2>1, <2>3, <2>4 DEF UdevDone
  <2>8. Triggered'
    BY <2>1, <2>3, <2>4, <2>5 DEF Triggered, InAdd
  <2>9. Remembered'
    BY <2>1, <2>3, <2>4, <2>5 DEF Remembered, InAdd
  <2> QED
    BY <2>6, <2>7, <2>8, <2>9 DEF Served
<1>6. CASE FinishDrain
  <2>1. /\ UNCHANGED <<kernel, source, deviceMap, pending, adding, handle,
                       readyUdev>>
        /\ pc = "devices" /\ pc' = "idle"
    BY <1>6 DEF FinishDrain
  <2>2. Watching => Places'
    BY <2>1 DEF Served, Places, InAdd, Created, kernel
  <2> QED
    BY <2>1, <2>2, MoveServed DEF InAdd, kernel, deviceMap
<1>7. ASSUME NEW fd \in ready, SkipUnknown(fd) \/ NoMoreEvents(fd) \/ NextEvent(fd)
      PROVE  Served'
  <2>1. UNCHANGED <<present, gen, udevQueue, udevDb, access, inotify, settled,
                    source, nameToId, pending, pc, adding, handle, readyUdev>>
    BY <1>7 DEF SkipUnknown, NoMoreEvents, NextEvent, kernel, deviceMap, locals
  <2>2. Watching => Places'
    BY <2>1 DEF Served, Places, InAdd, Created, Alive
  <2> QED
    BY <2>1, <2>2, MoveServed DEF InAdd
<1>8. ASSUME NEW fd \in ready, NextEventFails(fd)
      PROVE  Served'
  <2>1. pc = "devices" /\ Throw("ENODEV")
    BY <1>8 DEF NextEventFails
  <2>2. Watching
    BY <2>1 DEF Control
  <2>3. Places
    BY <2>2 DEF Served
  <2>4. source = "running" /\ adding = <<>> /\ ~readyUdev
    BY <2>1, <2>3 DEF Places, InAdd
  <2>5. /\ UNCHANGED <<present, udevQueue, udevDb, access, inotify, settled,
                       source, nameToId, pending, adding>>
        /\ readyUdev' = FALSE /\ pc' = "idle"
    BY <2>1, <2>4 DEF Throw, deviceMap
  <2>6. readyUdev' = readyUdev
    BY <2>3, <2>4, <2>5 DEF TypeOK, LocalType
  <2>7. Places'
    BY <2>3, <2>4, <2>5 DEF Places, InAdd
  <2> QED
    BY <2>1, <2>5, <2>6, <2>7, MoveServed DEF InAdd
<1> QED
  BY <1>1, <1>2, <1>3, <1>4, <1>5, <1>6, <1>7, <1>8 DEF DrainEvents

LEMMA ServedStep ==
  ASSUME Calm, TypeOK, Control, Served, [Next]_vars
  PROVE  Served'
<1>1. CASE Environment
  <2>1. ASSUME NEW i \in DOMAIN devices, Press(i)
        PROVE  Served'
    BY <2>1 DEF Press, Served, Watching, Places, UdevDone, Triggered, Remembered,
       Created, Registered, InAdd, Alive, deviceMap, locals
  <2> QED
    BY <1>1, <2>1, PlugServed, UnplugServed, UdevServed DEF Environment
<1>2. CASE Library
  BY <1>2, ListServed, AddServed, DrainServed DEF Library
<1>3. CASE UNCHANGED vars
  BY <1>3 DEF vars, kernel, deviceMap, locals, Served, Watching, Places, UdevDone,
     Triggered, Remembered, Created, Registered, InAdd, Alive
<1> QED
  BY <1>1, <1>2, <1>3 DEF Next

LEMMA InitServed ==
  ASSUME Calm, Init
  PROVE  Served
<1>1. udevQueue = {} /\ pending = <<>> /\ inotify = <<>> /\ adding = <<>>
  BY DEF Init, Calm
<1>2. /\ pc = "list" /\ source = "enumerating" /\ readyUdev = FALSE
      /\ settled = FALSE
      /\ udevDb = present \cap Joystick /\ access = present \cap Accessible
  BY <1>1 DEF Init
<1>3. \A n : ~Created(n)
  BY <1>1, EmptySeq DEF Created
<1>4. Places /\ UdevDone
  BY <1>1, <1>2 DEF Places, UdevDone, InAdd
<1>5. Triggered
  BY <1>1, <1>2, <1>3, RangeNone DEF Triggered
<1>6. Remembered
  BY <1>1, <1>2, EmptySeq DEF Remembered
<1> QED
  BY <1>4, <1>5, <1>6 DEF Served

LEMMA ServedQuiet ==
  ASSUME Served
  PROVE  NoLostDevice
<1> SUFFICES ASSUME Quiet, Watching, NEW n \in present \cap Joystick
             PROVE  Registered(n)
  BY DEF NoLostDevice
<1>1. /\ pc = "idle" /\ inotify = <<>> /\ ~settled /\ udevQueue = {}
      /\ Places /\ Triggered /\ Remembered
  BY DEF Quiet, Served
<1>2. source = "running" /\ ~readyUdev /\ ~InAdd
  BY <1>1 DEF Places, InAdd
<1>3. ~Created(n)
  BY <1>1, EmptySeq DEF Created
<1>4. n \notin Range(pending)
  BY <1>1, <1>2, RangeNone DEF Triggered
<1> QED
  BY <1>1, <1>2, <1>3, <1>4 DEF Remembered

(* When all is quiet every pad that is plugged in is registered, whatever   *)
(* else the environment did: pads plugged in again before udevd saw them    *)
(* leave, pulled out with unread input, foreign settlings of udevd.         *)
THEOREM NeverLost ==
  ASSUME Calm
  PROVE  Spec => []NoLostDevice
<1>1. Init => Served
  BY InitServed
<1>2. TypeOK /\ Control /\ Served /\ [Next]_vars => Served'
  BY ServedStep
<1>3. Served => NoLostDevice
  BY ServedQuiet
<1> QED
  BY <1>1, <1>2, <1>3, TypeAndControl, PTL DEF Spec
=============================================================================
