---------------------------- MODULE UnityMirror ----------------------------
(***************************************************************************)
(* The managed client of the library: InputState of the Unity bridge keeps *)
(* a dictionary of devices of its own, filled once from an enumeration and *)
(* kept from device callbacks afterwards.                                  *)
(*                                                                         *)
(* An entry is "named" when the metadata of the device could be read while *)
(* the entry was made, and "nameless" when the library did not know the id *)
(* yet: NativeDevice reads them once, in its constructor.                  *)
(***************************************************************************)
EXTENDS Naturals, Maps

VARIABLES
    mirrorReady,  \* _ready: the first enumeration is done
    mirror        \* _devices: id |-> "named" or "nameless"

mirrorVars == <<mirrorReady, mirror>>

(* Mistakes the runs must notice: an id is never dropped from the           *)
(* dictionary.                                                              *)
RemovedKept(m, ids) == m

(* GetDevice: the entries of ids, made now where there is none; known tells *)
(* whether Native.GetDevice finds them.                                     *)
GetDevice(m, ids, known) ==
    [j \in DOMAIN m \cup ids |->
        IF j \in DOMAIN m THEN m[j] ELSE IF known THEN "named" ELSE "nameless"]

(* DeviceCallbackImpl for "removed", and for any other event.               *)
Removed(m, ids) ==
    IF mirrorReady THEN Drop(m, ids) ELSE m
Notified(m, ids, known) ==
    IF mirrorReady THEN GetDevice(m, ids, known) ELSE m

(* CreateContext: each device of the native enumeration is looked up; no    *)
(* callback can come in between, but for the ones that are ignored.         *)
ListDevices(ids) ==
    /\ mirror' = [i \in ids |-> "named"]
    /\ mirrorReady' = TRUE

(* FindFirst: the callback, and Run after it, look i up in the dictionary.  *)
Found(i) ==
    /\ mirrorReady
    /\ mirror' = GetDevice(mirror, {i}, TRUE)
    /\ UNCHANGED mirrorReady

MirrorInit == mirrorReady = FALSE /\ mirror = EmptyMap

MirrorType(ids) ==
    /\ mirrorReady \in BOOLEAN
    /\ IsMap(mirror, ids, {"named", "nameless"})
=============================================================================
