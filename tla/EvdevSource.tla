---------------------------- MODULE EvdevSource ----------------------------
(***************************************************************************)
(* Gamepads on Linux: evdev_source, its device map and poller, the parts   *)
(* of context it drives, and the kernel and udevd it races with.           *)
(*                                                                         *)
(* The library is single-threaded.  Everything the environment does (a pad *)
(* plugged in or pulled out, udevd working through its queue, a button     *)
(* pressed) may happen between any two system calls of the library, so the *)
(* program counter pc stops before each system call that looks at it.      *)
(*                                                                         *)
(* Names stand for the "event*" entries of /sys/class/input and /dev/input;*)
(* add_device returns at once, and changes nothing, for any other name.    *)
(***************************************************************************)
EXTENDS Naturals, Sequences, FiniteSets, Functions

CONSTANTS
    Name,        \* the eventN names
    Fd,          \* the descriptors the library's open() may return
    Joystick,    \* names whose device udev tags ID_INPUT_JOYSTICK
    Accessible,  \* names whose node udev makes writable for this user
    MaxPlugs,    \* bound: how often pads are plugged in, at the start included
    MaxPresses,  \* bound: how often input arrives
    MaxOther,    \* bound: how often udevd settles for devices not modelled
    Upsets       \* what the environment may do at an awkward moment:
                 \*   "early"    have udevd still at work when the source starts
                 \*   "overlap"  plug in while udev's settling is acted upon
                 \*   "replug"   plug in before udevd saw the removal
                 \*   "flicker"  unplug before the source is done adding
                 \*   "yank"     unplug with unread input

ASSUME ConstantsAssumption ==
    /\ IsFiniteSet(Name) /\ IsFiniteSet(Fd)
    /\ Joystick \subseteq Name /\ Accessible \subseteq Name
    /\ MaxPlugs \in Nat /\ MaxPresses \in Nat /\ MaxOther \in Nat
    /\ Upsets \subseteq {"early", "overlap", "replug", "flicker", "yank"}

VARIABLES
    \* the kernel and udevd
    present,     \* names plugged in
    gen,         \* how often each name was plugged in: its incarnation
    udevQueue,   \* names whose uevents udevd has not processed
    udevDb,      \* names tagged ID_INPUT_JOYSTICK in /run/udev/data
    access,      \* names whose node this user may open
    inotify,     \* queued events of m_inotify
    settled,     \* m_inotify_udev is readable: /run/udev/queue was deleted
    unread,      \* descriptors with input the library has not read
    presses,     \* input so far, for the bound MaxPresses
    others,      \* foreign settlings so far, for the bound MaxOther
    \* the context
    devices,     \* m_devices: id |-> the device's handle
    nextId,      \* m_next_unique_id
    told,        \* id |-> the last device event the client was told
    uncommitted, \* ids with input that no commit has made visible
    outcome,     \* of the last enumeration or drain: "ok" or an errno
    \* the source
    source,      \* "enumerating", then "running" or "dropped"
    nameToId, idToName, fdToId, idToFd,  \* m_device_map
    polled,      \* m_poller: how many entries each descriptor has
    pending,     \* m_pending
    \* locals of the call in progress
    pc,
    adding,      \* names still to be handed to add_device
    handle,      \* the evdev_handle add_device has opened
    ready,       \* device descriptors get_ready returned, not yet processed
    readyUdev    \* get_ready returned m_inotify_udev

kernel == <<present, gen, udevQueue, udevDb, access, inotify, settled,
            unread, presses, others>>
context == <<devices, nextId, told, uncommitted, outcome>>
deviceMap == <<nameToId, idToName, fdToId, idToFd>>
locals == <<pc, adding, handle, ready, readyUdev>>
vars == <<kernel, context, source, deviceMap, polled, pending, locals>>

-----------------------------------------------------------------------------
(* Handles, incarnations and unordered_map. *)

Handle == [name : Name, gen : Nat, fd : Fd]
NoHandle == [name |-> "none"]

(* The device node a handle was opened on still exists. *)
Alive(h) == h.name \in present /\ gen[h.name] = h.gen

OpenFds == {devices[i].fd : i \in DOMAIN devices}
FreeFds == Fd \ OpenFds

(* unordered_map::emplace keeps the value of a key that is already there. *)
Emplace(f, k, v) ==
    [x \in DOMAIN f \cup {k} |-> IF x \in DOMAIN f THEN f[x] ELSE v]
Drop(f, keys) == Restrict(f, DOMAIN f \ keys)
EmptyMap == [x \in {} |-> x]

Watching == source # "dropped"

(* Mistakes the runs must notice (see "mutants" in PROJECT.json): the       *)
(* counter is not advanced, only the latest arrival is remembered, the      *)
(* device of a name or its descriptor is not found, a new descriptor is not *)
(* polled, a removal is not announced, an arrival is announced as a         *)
(* removal.                                                                 *)
NextIdStuck == nextId
PendLatest(n) == <<n>>
GoneNone(n) == {}
GoneFdsNone(n) == {}
PollForgotten(entries, fd) == entries
TellRemovedNone(ids) == told
TellCreatedSwapped(log, i) ==
    [j \in DOMAIN log \cup {i} |-> IF j = i THEN "removed" ELSE log[j]]

Registered(n) == n \in DOMAIN nameToId

(* remove_device(n) is about these ids and descriptors, none if n is not in *)
(* the map; the context closes the handle of those it knows.                *)
Gone(n) == IF Registered(n) THEN {nameToId[n]} ELSE {}
GoneFds(n) == {idToFd[i] : i \in Gone(n)}
GoneDevices(n) == Gone(n) \cap DOMAIN devices
ClosedFds(n) == {devices[i].fd : i \in GoneDevices(n)}

(* get_next_id, vector::push_back on m_pending, and a descriptor of the     *)
(* ready list that is done with.                                            *)
NextId == nextId + 1
Pend(n) == Append(pending, n)
Done(fd) == ready \ {fd}

(* Joystick according to udev; a name gone since canonical reads as none. *)
Tagged(n) == n \in present \cap udevDb

(* poller::remove erases the first entry of a descriptor, poller::add      *)
(* appends one.                                                            *)
Unpoll(fds) ==
    [fd \in Fd |-> IF fd \in fds /\ polled[fd] > 0 THEN polled[fd] - 1
                                                   ELSE polled[fd]]
Poll(entries, fd) == [entries EXCEPT ![fd] = @ + 1]

(* notify_device reaches the client's device callback. *)
TellRemoved(ids) ==
    [i \in DOMAIN told |-> IF i \in ids THEN "removed" ELSE told[i]]
TellCreated(log, i) ==
    [j \in DOMAIN log \cup {i} |-> IF j = i THEN "created" ELSE log[j]]

-----------------------------------------------------------------------------
(* The environment. *)

(* The names the source has not finished adding: their CREATE event is     *)
(* queued, they wait in m_pending or in the listing of /sys/class/input.   *)
Arriving ==
    {inotify[k].name : k \in {j \in DOMAIN inotify : inotify[j].mask = "create"}}
        \cup Range(pending) \cup Range(adding)

(* The source is between discarding udev's notice and clearing m_pending,  *)
(* or will be before it looks at m_inotify again.                          *)
ActingOnSettle == settled \/ readyUdev \/ adding # <<>>

Queued(mask, n) ==
    IF Watching THEN Append(inotify, [mask |-> mask, name |-> n]) ELSE inotify

Plug(n) ==
    /\ n \notin present /\ SumFunction(gen) < MaxPlugs
    /\ ActingOnSettle => "overlap" \in Upsets
    /\ n \in udevQueue => "replug" \in Upsets
    /\ present' = present \cup {n}
    /\ gen' = [gen EXCEPT ![n] = @ + 1]
    /\ udevQueue' = udevQueue \cup {n}
    /\ inotify' = Queued("create", n)
    /\ UNCHANGED <<udevDb, access, settled, unread, presses, others,
                   context, source, deviceMap, polled, pending, locals>>

(* The db entry stays until udevd processes the removal: a name plugged in  *)
(* again at once is looked up with its former entry.                        *)
Unplug(n) ==
    /\ n \in present
    /\ n \in Arriving => "flicker" \in Upsets
    /\ (\E i \in DOMAIN devices : devices[i].name = n
                                  /\ devices[i].fd \in unread \cup ready)
          => "yank" \in Upsets
    /\ present' = present \ {n}
    /\ access' = access \ {n}
    /\ udevQueue' = udevQueue \cup {n}
    /\ inotify' = Queued("delete", n)
    /\ UNCHANGED <<gen, udevDb, settled, unread, presses, others,
                   context, source, deviceMap, polled, pending, locals>>

(* udevd processes the last uevent of n; when its queue runs empty it       *)
(* deletes /run/udev/queue, which m_inotify_udev reports.                   *)
UdevProcess(n) ==
    /\ n \in udevQueue
    /\ udevQueue' = udevQueue \ {n}
    /\ udevDb' = IF n \in present \cap Joystick THEN udevDb \cup {n}
                                                ELSE udevDb \ {n}
    /\ access' = IF n \in present \cap Accessible THEN access \cup {n}
                                                  ELSE access
    /\ settled' = (settled \/ (udevQueue' = {} /\ Watching))
    /\ UNCHANGED <<present, gen, inotify, unread, presses, others,
                   context, source, deviceMap, polled, pending, locals>>

(* udevd processes the removal of n while later uevents of n are queued. *)
UdevForget(n) ==
    /\ n \in udevQueue \cap udevDb
    /\ udevDb' = udevDb \ {n}
    /\ UNCHANGED <<present, gen, udevQueue, access, inotify, settled, unread,
                   presses, others,
                   context, source, deviceMap, polled, pending, locals>>

(* udevd handles a device of another subsystem and its queue runs empty. *)
UdevOther ==
    /\ udevQueue = {} /\ ~settled /\ Watching
    /\ others < MaxOther
    /\ others' = others + 1
    /\ settled' = TRUE
    /\ UNCHANGED <<present, gen, udevQueue, udevDb, access, inotify, unread,
                   presses,
                   context, source, deviceMap, polled, pending, locals>>

Press(i) ==
    /\ Alive(devices[i]) /\ devices[i].fd \notin unread
    /\ presses < MaxPresses
    /\ presses' = presses + 1
    /\ unread' = unread \cup {devices[i].fd}
    /\ UNCHANGED <<present, gen, udevQueue, udevDb, access, inotify, settled,
                   others,
                   context, source, deviceMap, polled, pending, locals>>

Environment ==
    \/ \E n \in Name : Plug(n) \/ Unplug(n) \/ UdevProcess(n) \/ UdevForget(n)
    \/ UdevOther
    \/ \E i \in DOMAIN devices : Press(i)

-----------------------------------------------------------------------------
(* An exception.  During enumeration context::add_source catches it and     *)
(* destroys the source, whose devices stay in the context; during a drain   *)
(* with_guard catches it and the API returns 0, before any commit.          *)

Throw(errno) ==
    /\ outcome' = errno
    /\ pc' = "idle"
    /\ adding' = <<>> /\ handle' = NoHandle
    /\ ready' = {} /\ readyUdev' = FALSE
    /\ UNCHANGED <<present, gen, udevQueue, udevDb, access, unread, presses,
                   others, devices, nextId, told, uncommitted>>
    /\ IF source = "enumerating"
       THEN /\ source' = "dropped"
            /\ nameToId' = EmptyMap /\ idToName' = EmptyMap
            /\ fdToId' = EmptyMap /\ idToFd' = EmptyMap
            /\ polled' = [fd \in Fd |-> 0]
            /\ pending' = <<>> /\ inotify' = <<>> /\ settled' = FALSE
       ELSE /\ UNCHANGED <<source, deviceMap, polled, pending, inotify, settled>>

-----------------------------------------------------------------------------
(* add_device, once for each name in adding. *)

(* The constructor has set the watches: list /sys/class/input, in any order.*)
EnumDevices ==
    /\ pc = "list"
    /\ adding' \in {s \in [1..Cardinality(present) -> present] :
                        Range(s) = present}
    /\ pc' = "canonical"
    /\ UNCHANGED <<kernel, context, source, deviceMap, polled, pending, handle,
                   ready, readyUdev>>

(* fs::canonical throws for a name that is gone; the reads of "dev" and     *)
(* "name" after it do not.                                                  *)
ResolvePath ==
    /\ pc = "canonical" /\ adding # <<>>
    /\ Head(adding) \in present
    /\ pc' = "tag"
    /\ UNCHANGED <<kernel, context, source, deviceMap, polled, pending, adding,
                   handle, ready, readyUdev>>

PathGone ==
    /\ pc = "canonical" /\ adding # <<>>
    /\ Head(adding) \notin present
    /\ Throw("ENOENT")

ReadTag ==
    /\ pc = "tag"
    /\ Tagged(Head(adding))
    /\ pc' = "open"
    /\ UNCHANGED <<kernel, context, source, deviceMap, polled, pending, adding,
                   handle, ready, readyUdev>>

(* Not a joystick, not yet known to be one, or gone since canonical: skip. *)
SkipUntagged ==
    /\ pc = "tag"
    /\ ~Tagged(Head(adding))
    /\ pc' = "canonical" /\ adding' = Tail(adding)
    /\ UNCHANGED <<kernel, context, source, deviceMap, polled, pending, handle,
                   ready, readyUdev>>

OpenNode ==
    /\ pc = "open"
    /\ Head(adding) \in present \cap access
    /\ \E fd \in FreeFds :
          handle' = [name |-> Head(adding), gen |-> gen[Head(adding)], fd |-> fd]
    /\ pc' = "probe"
    /\ UNCHANGED <<kernel, context, source, deviceMap, polled, pending, adding,
                   ready, readyUdev>>

OpenFails ==
    /\ pc = "open"
    /\ Head(adding) \notin present \cap access
    /\ Throw(IF Head(adding) \in present THEN "EACCES" ELSE "ENOENT")

(* libevdev_new_from_fd fails on a node that is gone: the handle is closed. *)
SkipInaccessible ==
    /\ pc = "probe" /\ ~Alive(handle)
    /\ handle' = NoHandle
    /\ pc' = "canonical" /\ adding' = Tail(adding)
    /\ UNCHANGED <<kernel, context, source, deviceMap, polled, pending, ready,
                   readyUdev>>

(* The device of an earlier incarnation of the name, if any, is removed and *)
(* the new one created and announced, mapped and polled.                    *)
RegisterDevice ==
    LET n == handle.name
        fd == handle.fd
    IN  /\ pc = "probe" /\ Alive(handle)
        /\ devices' = Emplace(Drop(devices, GoneDevices(n)), nextId, handle)
        /\ told' = TellCreated(TellRemoved(GoneDevices(n)), nextId)
        /\ nameToId' = Emplace(Drop(nameToId, {n}), n, nextId)
        /\ idToName' = Emplace(Drop(idToName, Gone(n)), nextId, n)
        /\ fdToId' = Emplace(Drop(fdToId, GoneFds(n)), fd, nextId)
        /\ idToFd' = Emplace(Drop(idToFd, Gone(n)), nextId, fd)
        /\ polled' = Poll(Unpoll(GoneFds(n)), fd)
        /\ nextId' = NextId
        /\ unread' = unread \ ClosedFds(n)
        /\ uncommitted' = uncommitted \ GoneDevices(n)
        /\ handle' = NoHandle
        /\ pc' = "canonical" /\ adding' = Tail(adding)
        /\ UNCHANGED <<present, gen, udevQueue, udevDb, access, inotify,
                       settled, presses, others, outcome, source,
                       pending, ready, readyUdev>>

(* All names are through: the source joins m_sources, or m_pending is       *)
(* cleared and the drain goes on with the devices.                          *)
AddingDone ==
    /\ pc = "canonical" /\ adding = <<>>
    /\ IF source = "enumerating"
       THEN source' = "running" /\ pc' = "idle" /\ UNCHANGED pending
       ELSE pending' = <<>> /\ pc' = "devices" /\ UNCHANGED source
    /\ UNCHANGED <<kernel, context, deviceMap, polled, adding, handle, ready,
                   readyUdev>>

AddDevice ==
    \/ ResolvePath \/ PathGone \/ ReadTag \/ SkipUntagged \/ OpenNode
    \/ OpenFails \/ SkipInaccessible \/ RegisterDevice \/ AddingDone

-----------------------------------------------------------------------------
(* drain_events. *)

ReadyFds == {fd \in unread : polled[fd] > 0}
HungUp == {fd \in OpenFds : /\ polled[fd] > 0
                            /\ \A i \in DOMAIN devices :
                                  Alive(devices[i]) => devices[i].fd # fd}

(* context::drain_events after its sources: every device commits. *)
Commit == uncommitted' = {} /\ outcome' = "ok"

(* The source is gone, or poll has nothing to report. *)
EmptyDrain ==
    /\ pc = "idle"
    /\ source = "dropped" \/ (inotify = <<>> /\ ~settled /\ ReadyFds \cup HungUp = {})
    /\ Commit
    /\ UNCHANGED <<kernel, devices, nextId, told, source, deviceMap,
                   polled, pending, locals>>

(* The two inotify descriptors come first in m_fds. *)
StartDrain ==
    /\ pc = "idle" /\ source = "running"
    /\ inotify # <<>> \/ settled \/ ReadyFds \cup HungUp # {}
    /\ ready' = ReadyFds
    /\ readyUdev' = settled
    /\ pc' = IF inotify # <<>> THEN "inotify"
             ELSE IF settled THEN "udev" ELSE "devices"
    /\ UNCHANGED <<kernel, context, source, deviceMap, polled, pending, adding,
                   handle>>

(* process_inotify, one event at a time. *)
InotifyCreate ==
    /\ pc = "inotify" /\ inotify # <<>>
    /\ Head(inotify).mask = "create"
    /\ pending' = Pend(Head(inotify).name)
    /\ inotify' = Tail(inotify)
    /\ UNCHANGED <<present, gen, udevQueue, udevDb, access, settled, unread,
                   presses, others, context, source, deviceMap, polled, locals>>

InotifyDelete ==
    LET n == Head(inotify).name
    IN  /\ pc = "inotify" /\ inotify # <<>>
        /\ Head(inotify).mask = "delete"
        /\ polled' = Unpoll(GoneFds(n))
        /\ devices' = Drop(devices, GoneDevices(n))
        /\ told' = TellRemoved(GoneDevices(n))
        /\ unread' = unread \ ClosedFds(n)
        /\ uncommitted' = uncommitted \ GoneDevices(n)
        /\ nameToId' = Drop(nameToId, {n})
        /\ idToName' = Drop(idToName, Gone(n))
        /\ fdToId' = Drop(fdToId, GoneFds(n))
        /\ idToFd' = Drop(idToFd, Gone(n))
        /\ inotify' = Tail(inotify)
        /\ UNCHANGED <<present, gen, udevQueue, udevDb, access, settled,
                       presses, others, nextId, outcome, source, pending,
                       locals>>

InotifyEmpty ==
    /\ pc = "inotify" /\ inotify = <<>>
    /\ pc' = IF readyUdev THEN "udev" ELSE "devices"
    /\ UNCHANGED <<kernel, context, source, deviceMap, polled, pending, adding,
                   handle, ready, readyUdev>>

(* process_inotify_udev discards its queue, then adds the pending names. *)
UdevSettled ==
    /\ pc = "udev"
    /\ settled' = FALSE
    /\ adding' = pending
    /\ readyUdev' = FALSE
    /\ pc' = "canonical"
    /\ UNCHANGED <<present, gen, udevQueue, udevDb, access, inotify, unread,
                   presses, others, context, source, deviceMap, polled, pending,
                   handle, ready>>

(* process_device: libevdev_next_event until it returns -EAGAIN.  The order *)
(* of the ready descriptors does not matter to the state between drains.    *)
Known(fd) == fd \in DOMAIN fdToId /\ fdToId[fd] \in DOMAIN devices
Device(fd) == devices[fdToId[fd]]

SkipUnknown(fd) ==
    /\ pc = "devices" /\ ~Known(fd)
    /\ ready' = Done(fd)
    /\ UNCHANGED <<kernel, context, source, deviceMap, polled, pending, pc,
                   adding, handle, readyUdev>>

NextEvent(fd) ==
    /\ pc = "devices" /\ Known(fd)
    /\ Alive(Device(fd)) /\ Device(fd).fd \in unread
    /\ unread' = unread \ {Device(fd).fd}
    /\ uncommitted' = uncommitted \cup {fdToId[fd]}
    /\ UNCHANGED <<present, gen, udevQueue, udevDb, access, inotify, settled,
                   presses, others, devices, nextId, told, outcome,
                   source, deviceMap, polled, pending, locals>>

NoMoreEvents(fd) ==
    /\ pc = "devices" /\ Known(fd)
    /\ Alive(Device(fd)) /\ Device(fd).fd \notin unread
    /\ ready' = Done(fd)
    /\ UNCHANGED <<kernel, context, source, deviceMap, polled, pending, pc,
                   adding, handle, readyUdev>>

NextEventFails(fd) ==
    /\ pc = "devices" /\ Known(fd) /\ ~Alive(Device(fd))
    /\ Throw("ENODEV")

(* Every mapped device has its post_update, then the context commits. *)
FinishDrain ==
    /\ pc = "devices" /\ ready = {}
    /\ pc' = "idle"
    /\ Commit
    /\ UNCHANGED <<kernel, devices, nextId, told, source, deviceMap,
                   polled, pending, adding, handle, ready, readyUdev>>

DrainEvents ==
    \/ EmptyDrain \/ StartDrain \/ InotifyCreate \/ InotifyDelete \/ InotifyEmpty
    \/ UdevSettled \/ FinishDrain
    \/ \E fd \in ready : \/ SkipUnknown(fd) \/ NextEvent(fd)
                         \/ NoMoreEvents(fd) \/ NextEventFails(fd)

Library == EnumDevices \/ AddDevice \/ DrainEvents

-----------------------------------------------------------------------------
Init ==
    /\ present \in SUBSET Name
    /\ gen = [n \in Name |-> IF n \in present THEN 1 ELSE 0]
    /\ udevQueue \in SUBSET present
    /\ udevQueue # {} => "early" \in Upsets
    /\ udevDb = (present \ udevQueue) \cap Joystick
    /\ access = (present \ udevQueue) \cap Accessible
    /\ inotify = <<>> /\ settled = FALSE
    /\ unread = {} /\ presses = 0 /\ others = 0
    /\ devices = EmptyMap /\ nextId = 1 /\ told = EmptyMap
    /\ uncommitted = {} /\ outcome = "ok"
    /\ source = "enumerating"
    /\ nameToId = EmptyMap /\ idToName = EmptyMap
    /\ fdToId = EmptyMap /\ idToFd = EmptyMap
    /\ polled = [fd \in Fd |-> 0]
    /\ pending = <<>>
    /\ pc = "list" /\ adding = <<>> /\ handle = NoHandle
    /\ ready = {} /\ readyUdev = FALSE

Next == Environment \/ Library

Spec == Init /\ [][Next]_vars

(* The client drains every frame, so the library always runs on; udevd     *)
(* works through its queue.  Nobody has to plug, unplug or press anything. *)
FairSpec ==
    /\ Spec
    /\ WF_vars(Library)
    /\ \A n \in Name : WF_vars(UdevProcess(n))

-----------------------------------------------------------------------------
(* Properties. *)

Ids == 1 .. nextId - 1

IsMap(f, S, T) ==
    /\ f = [x \in DOMAIN f |-> f[x]]
    /\ DOMAIN f \subseteq S
    /\ \A x \in DOMAIN f : f[x] \in T

InotifyEvent == [mask : {"create", "delete"}, name : Name]

KernelType ==
    /\ present \subseteq Name /\ gen \in [Name -> Nat]
    /\ udevQueue \subseteq Name /\ udevDb \subseteq Name /\ access \subseteq Name
    /\ inotify \in Seq(InotifyEvent)
    /\ settled \in BOOLEAN /\ unread \subseteq Fd
    /\ presses \in Nat /\ others \in Nat

ContextType ==
    /\ nextId \in Nat \ {0}
    /\ IsMap(devices, Ids, Handle)
    /\ IsMap(told, Ids, {"created", "removed"})
    /\ uncommitted \subseteq Ids
    /\ outcome \in {"ok", "ENOENT", "EACCES", "ENODEV"}

MapType ==
    /\ IsMap(nameToId, Name, Ids) /\ IsMap(idToName, Ids, Name)
    /\ IsMap(fdToId, Fd, Ids) /\ IsMap(idToFd, Ids, Fd)

SourceType ==
    /\ source \in {"enumerating", "running", "dropped"}
    /\ polled \in [Fd -> Nat]
    /\ pending \in Seq(Name)

LocalType ==
    /\ pc \in {"list", "canonical", "tag", "open", "probe", "idle", "inotify",
               "udev", "devices"}
    /\ adding \in Seq(Name)
    /\ handle \in Handle \cup {NoHandle}
    /\ ready \subseteq Fd /\ readyUdev \in BOOLEAN

(* The type invariant: every variable has its type, and the map, the       *)
(* devices and the client speak only of ids handed out by get_next_id.     *)
TypeOK == KernelType /\ ContextType /\ MapType /\ SourceType /\ LocalType

(* What the device map and the poller hold for the devices devs. *)
Agree(devs, n2i, i2n, f2i, i2f, entries) ==
    LET fds == {devs[i].fd : i \in DOMAIN devs}
    IN  /\ DOMAIN i2n = DOMAIN devs /\ DOMAIN i2f = DOMAIN devs
        /\ DOMAIN n2i = {devs[i].name : i \in DOMAIN devs}
        /\ DOMAIN f2i = fds
        /\ \A i \in DOMAIN devs :
              /\ i2n[i] = devs[i].name /\ n2i[devs[i].name] = i
              /\ i2f[i] = devs[i].fd /\ f2i[devs[i].fd] = i
        /\ \A fd \in Fd : entries[fd] = IF fd \in fds THEN 1 ELSE 0

(* The four maps of evdev_device_map, m_devices and m_poller tell one story *)
(* while the source lives: a mapped name has one device, opened for that    *)
(* name, whose descriptor is polled exactly once, and nothing else is       *)
(* mapped, owned or polled.  The assertions in remove_device and            *)
(* drain_events rest on it.                                                 *)
MapsAgree ==
    Watching => Agree(devices, nameToId, idToName, fdToId, idToFd, polled)

(* A registered pad that is gone has its removal queued: no event of       *)
(* process_inotify, no skipped notice and no exception loses a departure.  *)
DepartureQueued ==
    Watching =>
      \A i \in DOMAIN devices : ~Alive(devices[i]) =>
         \E k \in DOMAIN inotify :
            inotify[k] = [mask |-> "delete", name |-> devices[i].name]

(* The client's list of active devices, kept from the device callbacks, is *)
(* the context's.                                                          *)
ClientAgrees == DOMAIN devices = {i \in DOMAIN told : told[i] = "created"}

(* Where the library may be: a dropped source is never called, add_device  *)
(* has a name in hand, and the handle it probes owns a descriptor of its    *)
(* own.                                                                     *)
Control ==
    /\ ~Watching => pc = "idle"
    /\ pc \in {"tag", "open", "probe"} => adding # <<>>
    /\ pc = "probe" => handle \in Handle /\ handle.fd \notin OpenFds

(* Nothing to do until something new happens: the library waits, udevd's   *)
(* queue and both inotify queues are empty.                                *)
Quiet ==
    /\ pc = "idle" /\ inotify = <<>> /\ ~settled /\ udevQueue = {}

(* When all is quiet every pad that is plugged in and usable is registered: *)
(* the pad waited in m_pending until udev had settled, as the comment in    *)
(* process_inotify has it.                                                  *)
NoLostDevice ==
    Quiet /\ Watching =>
      \A n \in present \cap Joystick \cap Accessible : Registered(n)

(* Each id is told to the client once, in order, and retired for good: the *)
(* source implements the life cycle context promises for every device.     *)
Lifecycle == INSTANCE DeviceLifecycle WITH told <- told
RefinesLifecycle == Lifecycle!Spec

(* A pad that is gone is taken from the client, whatever else goes wrong in *)
(* a drain, as long as the source lives.                                    *)
Stale(n) == Registered(n) /\ ~Alive(devices[nameToId[n]])
DeparturesServed == \A n \in Name : Stale(n) ~> ~Stale(n)

(* A pad that is plugged in is registered, or unplugged again. *)
Unserved(n) == n \in present /\ (Registered(n) => Stale(n))
ArrivalsServed ==
    \A n \in Joystick \cap Accessible : Unserved(n) ~> ~Unserved(n)

(* Input of a registered pad is read and committed, or the pad is removed. *)
HasInput(n) == Registered(n) /\ devices[nameToId[n]].fd \in unread
InputServed ==
    \A n \in Name : HasInput(n) ~> ~HasInput(n) /\ uncommitted = {}
=============================================================================
