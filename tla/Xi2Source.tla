----------------------------- MODULE Xi2Source -----------------------------
(***************************************************************************)
(* Keyboards and mice on Linux: xi2_source, its device map, the X server   *)
(* it listens to, the context, and a Unity client that mirrors the devices.*)
(*                                                                         *)
(* The server numbers its slave devices and reuses the numbers.  It sends  *)
(* a hierarchy event, which lists every device, whenever a device comes,   *)
(* goes, or is enabled or disabled; the library reads the events in a      *)
(* drain, later, and queries the server again for a device that is new.    *)
(***************************************************************************)
EXTENDS UnityMirror, Sequences, FiniteSets

CONSTANTS
    Number,      \* the server's numbers for slave devices
    Xtest,       \* numbers of the server's XTEST devices
    MaxPlugs,    \* bound: how often a device is attached, at the start included
    MaxToggles,  \* bound: how often a device is enabled or disabled
    MaxQueue,    \* bound: the server does nothing while this many events wait
    MaxPresses   \* bound: how often input, or an event not asked for, arrives

ASSUME ConstantsAssumption ==
    /\ IsFiniteSet(Number) /\ Xtest \subseteq Number
    /\ MaxPlugs \in Nat /\ MaxToggles \in Nat /\ MaxQueue \in Nat /\ MaxPresses \in Nat

VARIABLES
    \* the X server and the kernel
    attached,    \* numbers of the slave devices
    gen,         \* how often each number was given out: its incarnation
    enabled,     \* numbers of the enabled devices
    node,        \* numbers whose event node is still in /sys/class/input
    namesUse,    \* the server names the use of a device it has removed
    events,      \* sent to the library and not read
    toggles, presses,  \* so far, for the bounds
    \* the context
    devices,     \* m_devices: id |-> the device
    nextId,      \* m_next_unique_id
    told,        \* id |-> the last of created and removed the client was told
    uncommitted, \* ids with input that no commit has made visible
    \* the source
    source,      \* "enumerating", then "running" or "dropped"
    map,         \* m_device_map: number |-> id
    \* locals of the call in progress
    pc,
    todo,        \* device or hierarchy infos still to be processed
    current      \* the device info a drain hands to add_device

server == <<attached, gen, enabled, node, namesUse, toggles, presses>>
context == <<devices, nextId, told, uncommitted>>
vars == <<server, events, context, source, map, pc, todo, current,
                   mirrorVars>>

-----------------------------------------------------------------------------
(* A device of the context; a device info, with the enabled flag that       *)
(* add_device's caller applies in the end; an info of a hierarchy event.    *)
Device == [num : Number, gen : Nat, usable : BOOLEAN]
DeviceInfo == [num : Number, gen : Nat, enabled : BOOLEAN, finally : BOOLEAN]
Change == [num : Number, flag : {"none", "added", "removed"},
           enabled : BOOLEAN, slave : BOOLEAN]
NoInfo == [num |-> "none"]

(* The ids remove_device(n) takes from the context: none if n is unmapped.  *)
Gone(n) == IF n \in DOMAIN map THEN {map[n]} ELSE {}

(* Mistakes the runs must notice (see "mutants" in PROJECT.json): the flag  *)
(* of a hierarchy event is not applied, no removal is recognised, nothing   *)
(* is committed, the counter is not advanced.                               *)
DiffersNever(change, i) == FALSE
RemovesNone(change) == FALSE
CommitForgotten == uncommitted
NextIdStuck == nextId

(* The usable flag a device is left with: its constructor sets the one of   *)
(* the query, on_hierarchy_event the one of the event afterwards.           *)
UsableAfter(info) == info.finally

(* Announcements: context::remove_device, context::add_device.              *)
TellRemoved(ids) ==
    [i \in DOMAIN told |-> IF i \in ids THEN "removed" ELSE told[i]]
TellCreated(log, i) == Put(log, i, "created")

(* get_next_id *)
NextId == nextId + 1

-----------------------------------------------------------------------------
(* The server.  Its life goes on without a library that has closed its      *)
(* display, which is left out.                                              *)

Sent(new) == IF pc = "connect" THEN events ELSE events \o new

(* The infos of a hierarchy event: every device, one of them flagged.       *)
Infos(nums, on, n, flag) ==
    {[num |-> m, flag |-> IF m = n THEN flag ELSE "none",
      enabled |-> m \in on, slave |-> TRUE] : m \in nums}
Hierarchy(infos) == [type |-> "hierarchy", infos |-> infos]

(* A device is added and, unless the server is on another terminal,         *)
(* enabled, in one go; the server waits for a queue that is too long.       *)
Room == Len(events) < MaxQueue /\ source # "dropped"

Plug(n, on) ==
    /\ n \notin attached /\ SumFunction(gen) < MaxPlugs /\ Room
    /\ attached' = attached \cup {n} /\ node' = node \cup {n}
    /\ gen' = [gen EXCEPT ![n] = @ + 1]
    /\ enabled' = IF on THEN enabled \cup {n} ELSE enabled
    /\ events' = Sent(<<Hierarchy(Infos(attached', enabled, n, "added"))>>
          \o IF on THEN <<Hierarchy(Infos(attached', enabled', n, "none"))>>
                   ELSE <<>>)
    /\ UNCHANGED <<namesUse, toggles, presses, context, source, map, pc, todo, current,
                   mirrorVars>>

(* The kernel removes the node at once, the server the device a bit later.  *)
Yank(n) ==
    /\ n \in node
    /\ node' = node \ {n}
    /\ UNCHANGED <<attached, gen, enabled, namesUse, toggles, presses, events,
                   context, source, map, pc, todo, current,
                   mirrorVars>>

(* The server disables the device and forgets it, in one go.  If it does    *)
(* not name the use of a removed device, is_slave_device takes the info for *)
(* a master's.                                                              *)
Detach(n) ==
    /\ n \in attached \ node /\ Room
    /\ attached' = attached \ {n} /\ enabled' = enabled \ {n}
    /\ LET forgotten == [num |-> n, flag |-> "removed", enabled |-> FALSE,
                         slave |-> namesUse]
           removal == Hierarchy(Infos(attached', enabled', n, "none")
                                  \cup {forgotten})
       IN  events' = Sent(
              IF n \in enabled
              THEN <<Hierarchy(Infos(attached, enabled', n, "none")), removal>>
              ELSE <<removal>>)
    /\ UNCHANGED <<gen, node, namesUse, toggles, presses, context,
                   source, map, pc, todo, current,
                   mirrorVars>>

(* The user, or a switch of terminals, enables or disables a device.        *)
Toggle(n) ==
    /\ n \in node /\ toggles < MaxToggles /\ Room
    /\ toggles' = toggles + 1
    /\ enabled' = IF n \in enabled THEN enabled \ {n} ELSE enabled \cup {n}
    /\ events' = Sent(<<Hierarchy(Infos(attached, enabled', n, "none"))>>)
    /\ UNCHANGED <<attached, gen, node, namesUse, presses, context, source, map,
                   pc, todo, current,
                   mirrorVars>>

Arrive(event) ==
    /\ presses < MaxPresses /\ Room
    /\ presses' = presses + 1
    /\ events' = Sent(<<event>>)
    /\ UNCHANGED <<attached, gen, enabled, node, namesUse, toggles, context,
                   source, map, pc, todo, current,
                   mirrorVars>>

Press(n) ==
    /\ n \in enabled \cap (node \cup Xtest)
    /\ Arrive([type |-> "raw", num |-> n, gen |-> gen[n]])

(* An event every X client gets, such as a changed keyboard mapping.        *)
Remap == Arrive([type |-> "other"])

Server ==
    \/ \E n \in Number \ Xtest :
          \/ \E on \in BOOLEAN : Plug(n, on)
          \/ Yank(n) \/ Detach(n) \/ Toggle(n)
    \/ \E n \in Number : Press(n)
    \/ Remap

-----------------------------------------------------------------------------
(* context::add_source: the constructor selects events, then the source     *)
(* enumerates.  An exception of either drops the source.                    *)

Connect ==
    /\ pc = "connect"
    /\ pc' = "enum"
    /\ UNCHANGED <<server, events, context, source, map, todo, current, mirrorVars>>

(* No extension, an old version, or events cannot be selected. *)
ConnectFails ==
    /\ pc = "connect"
    /\ source' = "dropped" /\ pc' = "list"
    /\ UNCHANGED <<server, events, context, map, todo, current, mirrorVars>>

Query(n) == [num |-> n, gen |-> gen[n], enabled |-> n \in enabled]
With(query, on) ==
    [num |-> query.num, gen |-> query.gen, enabled |-> query.enabled,
     finally |-> on]

EnumDevices ==
    /\ pc = "enum"
    /\ todo' = {With(Query(n), n \in enabled) : n \in attached}
    /\ pc' = "infos"
    /\ UNCHANGED <<server, events, context, source, map, current, mirrorVars>>

EnumDone ==
    /\ pc = "infos" /\ todo = {}
    /\ source' = "running" /\ pc' = "list"
    /\ UNCHANGED <<server, events, context, map, todo, current, mirrorVars>>

-----------------------------------------------------------------------------
(* add_device for the info in current.                                      *)

Interesting(n) == n \notin Xtest

(* Called from the loop of enum_devices, or by on_hierarchy_event.          *)
Offered ==
    IF pc = "infos" THEN todo ELSE IF pc = "add" THEN {current} ELSE {}
Return(info) ==
    /\ todo' = todo \ {info} /\ current' = NoInfo
    /\ pc' = IF pc = "add" THEN "drain" ELSE pc

SkipUninteresting(info) ==
    /\ ~Interesting(info.num)
    /\ Return(info)
    /\ UNCHANGED <<server, events, context, source, map, mirrorVars>>

(* The path of the device's node can be resolved, in the constructor.       *)
Resolves(n) == n \in attached \cap node

(* The device of the same number goes first.  The constructor announces a   *)
(* device that is disabled before anyone knows the id.                      *)
AddDevice(info) ==
    LET n == info.num
        removed == Removed(mirror, Gone(n))
        announced == IF info.enabled THEN removed
                                        ELSE Notified(removed, {nextId}, FALSE)
    IN  /\ Interesting(n) /\ Resolves(n)
        /\ nextId' = NextId
        /\ devices' = Put(Drop(devices, Gone(n)), nextId,
                          [num |-> n, gen |-> info.gen,
                           usable |-> UsableAfter(info)])
        /\ map' = Put(map, n, nextId)
        /\ told' = TellCreated(TellRemoved(Gone(n)), nextId)
        /\ uncommitted' = uncommitted \ Gone(n)
        /\ mirror' = Notified(announced, {nextId}, TRUE)
        /\ Return(info)
        /\ UNCHANGED <<server, events, source, mirrorReady>>

(* canonical throws: the former device is gone and the id is used up.  The  *)
(* enumeration drops the source, with its display; a drain gives up the     *)
(* rest of this event and the commit.                                       *)
AddThrows(info) ==
    LET n == info.num
        dropping == source = "enumerating"
    IN  /\ Interesting(n) /\ ~Resolves(n)
        /\ nextId' = NextId
        /\ devices' = Drop(devices, Gone(n))
        /\ told' = TellRemoved(Gone(n))
        /\ uncommitted' = uncommitted \ Gone(n)
        /\ mirror' = Removed(mirror, Gone(n))
        /\ source' = IF dropping THEN "dropped" ELSE source
        /\ map' = IF dropping THEN EmptyMap ELSE Drop(map, {n})
        /\ events' = IF dropping THEN <<>> ELSE events
        /\ pc' = IF dropping THEN "list" ELSE "idle"
        /\ todo' = {} /\ current' = NoInfo
        /\ UNCHANGED <<server, mirrorReady>>

Enumerate ==
    \/ Connect \/ ConnectFails \/ EnumDevices \/ EnumDone
    \/ \E info \in Offered :
          SkipUninteresting(info) \/ AddDevice(info) \/ AddThrows(info)

-----------------------------------------------------------------------------
(* The client, between the calls of the library.                            *)

CreateContext ==
    /\ pc = "list"
    /\ ListDevices(DOMAIN devices)
    /\ pc' = "idle"
    /\ UNCHANGED <<server, events, context, source, map, todo, current>>

(* context::find_first passes over devices that are not usable.             *)
FindFirst(i) ==
    /\ pc = "idle" /\ devices[i].usable
    /\ Found(i)
    /\ UNCHANGED <<server, events, context, source, map, pc, todo, current>>

Client ==
    \/ CreateContext
    \/ \E i \in DOMAIN devices : FindFirst(i)

-----------------------------------------------------------------------------
(* drain_events.                                                            *)

StartDrain ==
    /\ pc = "idle"
    /\ pc' = "drain"
    /\ UNCHANGED <<server, events, context, source, map, todo, current, mirrorVars>>

(* has_next_event, and the event it is for.                                 *)
Reading == pc = "drain" /\ todo = {} /\ events # <<>>

(* Raw events are for any device, masters and XTEST devices included.       *)
DeviceEvent ==
    LET e == Head(events)
    IN  /\ Reading /\ e.type = "raw"
        /\ events' = Tail(events)
        /\ uncommitted' = uncommitted \cup Gone(e.num)
        /\ UNCHANGED <<server, devices, nextId, told, source, map, pc, todo, current,
                   mirrorVars>>

SkipOther ==
    /\ Reading /\ Head(events).type = "other"
    /\ events' = Tail(events)
    /\ UNCHANGED <<server, context, source, map, pc, todo, current,
                   mirrorVars>>

HierarchyEvent ==
    /\ Reading /\ Head(events).type = "hierarchy"
    /\ events' = Tail(events)
    /\ todo' = Head(events).infos
    /\ UNCHANGED <<server, context, source, map, pc, current, mirrorVars>>

(* on_hierarchy_event, one info at a time.                                  *)
OnInfo(change) ==
    /\ pc = "drain" /\ change \in todo
    /\ todo' = todo \ {change}

Removes(change) == change.slave /\ change.flag = "removed"

Adds(change) == change.slave /\ change.flag = "added"

(* The infos that carry nothing but the enabled flag.                       *)
Unflagged == {change \in todo : change.slave /\ change.flag = "none"}

SkipInfo(change) ==
    /\ OnInfo(change)
    /\ ~Removes(change) /\ ~Adds(change) /\ change \notin Unflagged
    /\ UNCHANGED <<server, events, context, source, map, pc, current, mirrorVars>>

RemoveDevice(change) ==
    /\ OnInfo(change) /\ Removes(change)
    /\ devices' = Drop(devices, Gone(change.num))
    /\ told' = TellRemoved(Gone(change.num))
    /\ uncommitted' = uncommitted \ Gone(change.num)
    /\ map' = Drop(map, {change.num})
    /\ mirror' = Removed(mirror, Gone(change.num))
    /\ UNCHANGED <<server, events, nextId, source, pc, current,
                   mirrorReady>>

(* The device is queried when its event is read; it may be gone by then.    *)
QueryDevice(change) ==
    /\ OnInfo(change) /\ Adds(change)
    /\ IF change.num \in attached
       THEN current' = With(Query(change.num), change.enabled) /\ pc' = "add"
       ELSE UNCHANGED <<current, pc>>
    /\ UNCHANGED <<server, events, context, source, map, mirrorVars>>

(* set_usable *)
Differs(change, i) == change.enabled # devices[i].usable

(* The unflagged infos are independent of each other: they are applied      *)
(* together, before or after the one about the device that comes or goes.   *)
(* set_usable tells the client when the flag changes.                       *)
SetUsable ==
    LET flag(i) == {c \in Unflagged : c.num = devices[i].num}
        changed == {i \in DOMAIN devices :
                       \E c \in flag(i) : Differs(c, i)}
    IN  /\ pc = "drain" /\ Unflagged # {}
        /\ todo' = todo \ Unflagged
        /\ devices' = [i \in DOMAIN devices |->
                          IF i \in changed
                          THEN [devices[i] EXCEPT !.usable = ~@] ELSE devices[i]]
        /\ mirror' = Notified(mirror, changed, TRUE)
        /\ UNCHANGED <<server, events, nextId, told, uncommitted, source, map,
                       pc, current, mirrorReady>>

Committed == {}

(* No event is left; the context commits every device.                      *)
FinishDrain ==
    /\ pc = "drain" /\ todo = {}
    /\ events = <<>>
    /\ uncommitted' = Committed
    /\ pc' = "idle"
    /\ UNCHANGED <<server, events, devices, nextId, told, source, map, todo,
                   current, mirrorVars>>

DrainEvents ==
    \/ StartDrain \/ DeviceEvent \/ SkipOther \/ HierarchyEvent
    \/ SetUsable \/ FinishDrain
    \/ \E change \in todo : \/ SkipInfo(change) \/ RemoveDevice(change)
                            \/ QueryDevice(change)

Library == Enumerate \/ DrainEvents

-----------------------------------------------------------------------------
Init ==
    /\ attached \in SUBSET Number /\ Xtest \subseteq attached
    /\ gen = [n \in Number |-> IF n \in attached THEN 1 ELSE 0]
    /\ enabled \in SUBSET attached /\ Xtest \subseteq enabled
    /\ node = attached \ Xtest /\ namesUse \in BOOLEAN
    /\ events = <<>> /\ toggles = 0 /\ presses = 0
    /\ devices = EmptyMap /\ nextId = 1 /\ told = EmptyMap /\ uncommitted = {}
    /\ source = "enumerating" /\ map = EmptyMap
    /\ pc = "connect" /\ todo = {} /\ current = NoInfo
    /\ MirrorInit

Next == Server \/ Library \/ Client

Spec == Init /\ [][Next]_vars

(* The client lists the devices, then drains every frame.                   *)
FairSpec == Spec /\ WF_vars(Library) /\ WF_vars(CreateContext)

-----------------------------------------------------------------------------
(* Properties. *)

Ids == 1 .. nextId - 1

RawEvent == [type : {"raw"}, num : Number, gen : Nat]
OtherEvent == [type : {"other"}]
IsEvent(e) ==
    \/ e \in RawEvent \/ e \in OtherEvent
    \/ /\ e = Hierarchy(e.infos)
       /\ e.infos \subseteq Change

(* The type invariant. *)
TypeOK ==
    /\ attached \subseteq Number /\ gen \in [Number -> Nat]
    /\ enabled \subseteq attached /\ node \subseteq attached
    /\ namesUse \in BOOLEAN /\ toggles \in Nat /\ presses \in Nat
    /\ \A k \in DOMAIN events : IsEvent(events[k])
    /\ nextId \in Nat \ {0}
    /\ IsMap(devices, Ids, Device) /\ IsMap(told, Ids, {"created", "removed"})
    /\ uncommitted \subseteq Ids
    /\ source \in {"enumerating", "running", "dropped"}
    /\ IsMap(map, Number \ Xtest, Ids)
    /\ pc \in {"connect", "enum", "infos", "add", "list", "idle", "drain"}
    /\ todo \subseteq IF source = "running" THEN Change ELSE DeviceInfo
    /\ current \in DeviceInfo \cup {NoInfo}
    /\ MirrorType(Ids)

(* One list of devices: the context's, the one the client's dictionary has, *)
(* and the one the events told; a live source's map has each of them once.  *)
OneList ==
    /\ DOMAIN devices = {i \in DOMAIN told : told[i] = "created"}
    /\ mirrorReady => DOMAIN mirror = DOMAIN devices
    /\ uncommitted \subseteq DOMAIN devices
    /\ source # "dropped" =>
          /\ \A n \in DOMAIN map : map[n] \in DOMAIN devices
                                   /\ devices[map[n]].num = n
          /\ \A i \in DOMAIN devices : devices[i].num \in DOMAIN map
                                       /\ map[devices[i].num] = i

(* When every event has been read and no device hangs between kernel and    *)
(* server, each device of the server is registered in its present           *)
(* incarnation and is usable when it is enabled, and nothing else is usable.*)
Quiet == pc = "idle" /\ events = <<>> /\ attached \subseteq node \cup Xtest
SettledAgrees ==
    Quiet /\ source = "running" =>
      /\ \A n \in attached \ Xtest :
            /\ n \in DOMAIN map
            /\ devices[map[n]].gen = gen[n]
            /\ devices[map[n]].usable = (n \in enabled)
      /\ \A n \in DOMAIN map \ attached :
            ~namesUse /\ ~devices[map[n]].usable

(* Input never reaches a device older than the one it comes from, although  *)
(* numbers are reused and queries run ahead of the events, as long as the   *)
(* library can tell removals.                                               *)
RoutedForward ==
    [][DeviceEvent /\ namesUse =>
          \A i \in Gone(Head(events).num) :
             Head(events).gen <= devices[i].gen]_vars

(* The client knows the name of each device that is usable: it "might be    *)
(* empty, but will never be null".                                          *)
NamesKnown ==
    \A i \in DOMAIN mirror \cap DOMAIN devices :
       devices[i].usable => mirror[i] = "named"

(* Ids are told once, in order, and retired for good.                       *)
Lifecycle == INSTANCE DeviceLifecycle WITH told <- told
RefinesLifecycle == Lifecycle!Spec

(* Input that was read is committed, or its device removed, whatever the    *)
(* drains in between throw on.                                              *)
InputShown == uncommitted # {} ~> uncommitted = {}
=============================================================================
