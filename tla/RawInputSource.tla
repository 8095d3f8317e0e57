--------------------------- MODULE RawInputSource ---------------------------
(***************************************************************************)
(* Keyboards and mice on Windows: raw_input_source, its message window and *)
(* its device map, the context, and a Unity client that mirrors devices.   *)
(*                                                                         *)
(* Arrivals, removals and input are messages of a window.  The client      *)
(* dispatches them between the library's calls, so that devices come and   *)
(* go outside of drain_events, which does nothing but commit.  What a      *)
(* device is called is looked up in a list that SetupAPI makes anew for    *)
(* each arrival, and once for the whole first enumeration.                 *)
(***************************************************************************)
EXTENDS UnityMirror, Sequences, FiniteSets

CONSTANTS
    Handle,      \* handles of devices; Windows does not reuse them
    Other,       \* those of neither keyboards nor mice
    Nameless,    \* those SetupAPI has neither a name nor a description for
    Upsets,      \* "lag"    SetupAPI lists a device later than Raw Input
                 \* "throw"  a call of SetupAPI fails, e.g. as a device goes
    MaxMessages, \* bound: nothing happens while this many messages wait
    MaxInputs    \* bound: how often there is input

ASSUME RawAssumption ==
    /\ IsFiniteSet(Handle) /\ Other \subseteq Handle /\ Nameless \subseteq Handle
    /\ Upsets \subseteq {"lag", "throw"}
    /\ MaxMessages \in Nat /\ MaxInputs \in Nat

VARIABLES
    \* Windows
    present,     \* handles of attached devices
    used,        \* handles given out so far
    listed,      \* handles of the devices SetupAPI lists
    messages,    \* posted to the window and not dispatched
    inputs,      \* so far, for the bound
    \* the context
    devices,     \* m_devices: id |-> handle
    nextId,      \* m_next_unique_id
    told,        \* id |-> the last of created and removed the client was told
    uncommitted, \* ids with input that no commit has made visible
    \* the source
    source,      \* "enumerating", then "running" or "dropped"
    map,         \* m_device_map: handle |-> id
    \* locals of the call in progress
    pc,
    todo,        \* handles still to be added
    setup,       \* found_devices
    \* history
    missed       \* handles whose last look-up came before SetupAPI listed
                 \* them, or was ended by an exception

windows == <<present, used, listed, inputs>>
context == <<devices, nextId, told, uncommitted>>
vars == <<windows, messages, context, source, map, pc, todo, setup, missed, mirrorVars>>

-----------------------------------------------------------------------------
(* The ids remove_device(h) takes from the context: none if h is unmapped.  *)
Gone(h) == IF h \in DOMAIN map THEN {map[h]} ELSE {}

(* Mistakes the runs must notice (see "mutants" in PROJECT.json): a device  *)
(* in the map is added again, SetupAPI is not asked again, the counter is   *)
(* not advanced.                                                            *)
AlreadyNever(h) == FALSE
EnumeratedBefore == DOMAIN map
NextIdStuck == nextId

(* get_next_id *)
NextId == nextId + 1

TellRemoved(ids) ==
    [i \in DOMAIN told |-> IF i \in ids THEN "removed" ELSE told[i]]

-----------------------------------------------------------------------------
(* Windows.  The window's queue is there from the constructor on and while  *)
(* the source lives.                                                        *)

Post(new) == IF pc = "connect" THEN messages ELSE messages \o new
Room == Len(messages) < MaxMessages /\ source # "dropped"

(* Arrivals and removals are posted for registered usages only. *)
Change(h, type) == IF h \in Other THEN <<>> ELSE <<[type |-> type, handle |-> h]>>

Attach(h) ==
    /\ h \notin used /\ Room
    /\ present' = present \cup {h} /\ used' = used \cup {h}
    /\ \/ listed' = listed \cup {h}
       \/ "lag" \in Upsets /\ listed' = listed
    /\ messages' = Post(Change(h, "arrival"))
    /\ UNCHANGED <<inputs, context, source, map, pc, todo, setup, missed, mirrorVars>>

List(h) ==
    /\ h \in present \ listed
    /\ listed' = listed \cup {h}
    /\ UNCHANGED <<present, used, inputs, messages, context, source, map, pc, todo, setup,
                   missed, mirrorVars>>

Detach(h) ==
    /\ h \in present /\ Room
    /\ present' = present \ {h} /\ listed' = listed \ {h}
    /\ messages' = Post(Change(h, "removal"))
    /\ UNCHANGED <<used, inputs, context, source, map, pc, todo, setup, missed, mirrorVars>>

Press(h) ==
    /\ h \in present \ Other /\ inputs < MaxInputs /\ Room
    /\ inputs' = inputs + 1
    /\ messages' = Post(<<[type |-> "input", handle |-> h]>>)
    /\ UNCHANGED <<present, used, listed, context, source, map, pc, todo, setup, missed,
                   mirrorVars>>

Windows == \E h \in Handle : Attach(h) \/ List(h) \/ Detach(h) \/ Press(h)

-----------------------------------------------------------------------------
(* context::add_source.                                                     *)

(* The constructor registers the window; Windows may post an arrival for    *)
(* each device there is.                                                    *)
Connect ==
    /\ pc = "connect"
    /\ \/ messages' = <<>>
       \/ \E order \in [1 .. Cardinality(present \ Other) -> present \ Other] :
             /\ \A j, k \in DOMAIN order : order[j] = order[k] => j = k
             /\ messages' = [k \in DOMAIN order |->
                               [type |-> "arrival", handle |-> order[k]]]
    /\ pc' = "list"
    /\ UNCHANGED <<windows, context, source, map, todo, setup, missed, mirrorVars>>

(* The source is destroyed, and its window with the messages. *)
DropSource ==
    /\ source' = "dropped" /\ map' = EmptyMap
    /\ messages' = <<>> /\ todo' = {} /\ setup' = {} /\ pc' = "mirror"
    /\ UNCHANGED <<windows, context, missed, mirrorVars>>

(* No window, or it cannot be registered. *)
ConnectFails == pc = "connect" /\ DropSource

ListRawDevices ==
    /\ pc = "list"
    /\ todo' = present
    /\ pc' = "setup"
    /\ UNCHANGED <<windows, messages, context, source, map, setup, missed, mirrorVars>>

(* The number of devices changed behind the query of the buffer's size.     *)
ListFails == pc = "list" /\ DropSource

(* enumerate_devices: the loop does not go on to the next index behind a    *)
(* device without a name, and does not end.                                 *)
Enumerates == listed \cap Nameless = {}
Enumerated == listed

EnumerateDevices ==
    /\ pc = "setup" /\ Enumerates
    /\ setup' = Enumerated
    /\ missed' = (missed \ todo) \cup (todo \ listed)
    /\ pc' = "add"
    /\ UNCHANGED <<windows, messages, context, source, map, todo, mirrorVars>>

(* A call of SetupAPI fails, for whichever device the loop has come to: the *)
(* enumeration drops the source; an arrival is done with, and its device    *)
(* not added.                                                               *)
EnumerateFails ==
    /\ pc = "setup" /\ "throw" \in Upsets
    /\ IF source = "enumerating" THEN DropSource
       ELSE /\ missed' = missed \cup todo
            /\ todo' = {} /\ pc' = "idle"
            /\ UNCHANGED <<windows, messages, context, source, map, setup, mirrorVars>>

EnumDone ==
    /\ pc = "add" /\ todo = {} /\ source = "enumerating"
    /\ source' = "running" /\ pc' = "mirror" /\ setup' = {}
    /\ UNCHANGED <<windows, messages, context, map, todo, missed, mirrorVars>>

-----------------------------------------------------------------------------
(* add_device for one of todo: from the loop of enum_devices, or from the   *)
(* window procedure, after which the message is done with.                  *)

Already(h) == h \in DOMAIN map

AddReturns(h) ==
    /\ todo' = todo \ {h}
    /\ IF source = "running" THEN pc' = "idle" /\ setup' = {} ELSE UNCHANGED <<pc, setup>>

Adding(h) == pc = "add" /\ h \in todo

SkipKnown(h) ==
    /\ Adding(h) /\ Already(h)
    /\ AddReturns(h)
    /\ UNCHANGED <<windows, messages, context, source, map, missed, mirrorVars>>

(* The name of a device that is gone cannot be queried: the enumeration     *)
(* drops the source; from the window procedure the exception passes through *)
(* DispatchMessage, or is lost there.                                       *)
AddThrows(h) ==
    /\ Adding(h) /\ ~Already(h) /\ h \notin present
    /\ IF source = "enumerating" THEN DropSource
       ELSE /\ AddReturns(h)
            /\ UNCHANGED <<windows, messages, context, source, map, missed, mirrorVars>>

SkipUnlisted(h) ==
    /\ Adding(h) /\ ~Already(h) /\ h \in present \ setup
    /\ AddReturns(h)
    /\ UNCHANGED <<windows, messages, context, source, map, missed, mirrorVars>>

KeyboardOrMouse(h) == h \notin Other

SkipOther(h) ==
    /\ Adding(h) /\ ~Already(h) /\ h \in present \cap setup /\ ~KeyboardOrMouse(h)
    /\ AddReturns(h)
    /\ UNCHANGED <<windows, messages, context, source, map, missed, mirrorVars>>

AddDevice(h) ==
    /\ Adding(h) /\ ~Already(h) /\ h \in present \cap setup /\ KeyboardOrMouse(h)
    /\ nextId' = NextId
    /\ devices' = Put(devices, nextId, h)
    /\ told' = Put(told, nextId, "created")
    /\ map' = Put(map, h, nextId)
    /\ mirror' = Notified(mirror, {nextId}, TRUE)
    /\ AddReturns(h)
    /\ UNCHANGED <<windows, messages, uncommitted, source, missed, mirrorReady>>

Add ==
    \/ EnumerateDevices
    \/ EnumerateFails
    \/ \E h \in todo : \/ SkipKnown(h) \/ AddThrows(h) \/ SkipUnlisted(h)
                       \/ SkipOther(h) \/ AddDevice(h)

Enumerate == Connect \/ ConnectFails \/ ListRawDevices \/ ListFails \/ EnumDone

-----------------------------------------------------------------------------
(* The window procedure, while the client dispatches its messages.          *)

Dispatching(type) ==
    /\ pc = "idle" /\ messages # <<>>
    /\ Head(messages).type = type
    /\ messages' = Tail(messages)

Arrival ==
    LET h == Head(messages).handle
    IN  /\ Dispatching("arrival")
        /\ IF Already(h) THEN UNCHANGED <<todo, pc>>
                         ELSE todo' = {h} /\ pc' = "setup"
        /\ UNCHANGED <<windows, context, source, map, setup, missed, mirrorVars>>

Removal ==
    LET h == Head(messages).handle
    IN  /\ Dispatching("removal")
        /\ devices' = Drop(devices, Gone(h))
        /\ told' = TellRemoved(Gone(h))
        /\ uncommitted' = uncommitted \ Gone(h)
        /\ map' = Drop(map, {h})
        /\ mirror' = Removed(mirror, Gone(h))
        /\ UNCHANGED <<windows, nextId, source, pc, todo, setup, missed, mirrorReady>>

(* Input of a device that is not in the map is dropped. *)
Input ==
    /\ Dispatching("input")
    /\ uncommitted' = uncommitted \cup Gone(Head(messages).handle)
    /\ UNCHANGED <<windows, devices, nextId, told, source, map, pc, todo, setup, missed,
                   mirrorVars>>

Dispatch == Arrival \/ Removal \/ Input

-----------------------------------------------------------------------------
(* The client.                                                              *)

CreateContext ==
    /\ pc = "mirror"
    /\ ListDevices(DOMAIN devices)
    /\ pc' = "idle"
    /\ UNCHANGED <<windows, messages, context, source, map, todo, setup, missed>>

(* drain_events does nothing; the context commits. *)
DrainEvents ==
    /\ pc = "idle"
    /\ uncommitted' = {}
    /\ UNCHANGED <<windows, messages, devices, nextId, told, source, map, pc, todo, setup,
                   missed, mirrorVars>>

-----------------------------------------------------------------------------
Init ==
    /\ present \in SUBSET Handle /\ used = present /\ listed = present
    /\ messages = <<>> /\ inputs = 0
    /\ devices = EmptyMap /\ nextId = 1 /\ told = EmptyMap /\ uncommitted = {}
    /\ source = "enumerating" /\ map = EmptyMap
    /\ pc = "connect" /\ todo = {} /\ setup = {} /\ missed = {}
    /\ MirrorInit

Next == Windows \/ Enumerate \/ Add \/ Dispatch \/ CreateContext \/ DrainEvents

Spec == Init /\ [][Next]_vars

-----------------------------------------------------------------------------
(* Properties. *)

Ids == 1 .. nextId - 1

Message == [type : {"arrival", "removal", "input"}, handle : Handle \ Other]

(* The type invariant. *)
TypeOK ==
    /\ present \subseteq used /\ used \subseteq Handle /\ listed \subseteq present
    /\ messages \in Seq(Message) /\ inputs \in Nat
    /\ nextId \in Nat \ {0}
    /\ IsMap(devices, Ids, Handle \ Other) /\ IsMap(told, Ids, {"created", "removed"})
    /\ uncommitted \subseteq Ids
    /\ source \in {"enumerating", "running", "dropped"}
    /\ IsMap(map, Handle \ Other, Ids)
    /\ pc \in {"connect", "list", "setup", "add", "mirror", "idle"}
    /\ todo \subseteq Handle /\ setup \subseteq Handle /\ missed \subseteq Handle
    /\ MirrorType(Ids)

(* One list of devices: the context's, the one the client's dictionary has, *)
(* and the one the events told; a live source's map has each of them once,  *)
(* although arrivals are posted for devices that were enumerated as well.   *)
OneList ==
    /\ DOMAIN devices = {i \in DOMAIN told : told[i] = "created"}
    /\ mirrorReady => DOMAIN mirror = DOMAIN devices
    /\ uncommitted \subseteq DOMAIN devices
    /\ source # "dropped" =>
          /\ \A h \in DOMAIN map : map[h] \in DOMAIN devices /\ devices[map[h]] = h
          /\ \A i \in DOMAIN devices :
                devices[i] \in DOMAIN map /\ map[devices[i]] = i

(* With no message left, the devices are those attached, but for the ones   *)
(* whose last look-up failed, and that no arrival looked up again: an       *)
(* arrival, a removal and the enumeration never undo each other's work.     *)
Settled == pc = "idle" /\ messages = <<>> /\ source = "running"
SettledAgrees == Settled => DOMAIN map = present \ (Other \cup missed)

(* Ids are told once, in order, and retired for good, although arrivals are *)
(* announced again for devices that were enumerated.                        *)
Lifecycle == INSTANCE DeviceLifecycle WITH told <- told
RefinesLifecycle == Lifecycle!Spec
=============================================================================
