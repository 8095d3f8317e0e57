---------------------------- MODULE ForceFeedback ----------------------------
(***************************************************************************)
(* The rumble effects of a gamepad on Linux and macOS: vibrate of          *)
(* evdev_device and of hidm_device, and the memory of the pad, which holds *)
(* few effects and is shared with other programs.                          *)
(*                                                                         *)
(* A call takes the effect of the call before it out of the memory, puts   *)
(* its own there, and starts it.  Each of the three may fail, and the pad  *)
(* may be pulled out before any of them; what m_last_effect says then is   *)
(* all the next call and the destructor know.                              *)
(***************************************************************************)
EXTENDS Integers, FiniteSets

CONSTANTS
    Slot,       \* effect ids, one for each place in the memory of the pad
    NoEffect,   \* -1 on Linux, a null pointer on macOS
    MaxCalls    \* bound: how often the client vibrates the pad

ASSUME SlotAssumption == IsFiniteSet(Slot) /\ NoEffect \notin Slot /\ MaxCalls \in Nat

VARIABLES
    backend,    \* "evdev" or "hidm"
    capable,    \* m_can_vibrate
    usable,     \* m_is_usable
    \* the pad
    attached,
    owner,      \* of the effect in each slot: "us", "other" or "nobody"
    playing,    \* the slots whose effects play
    \* the device
    alive,      \* the context has it
    last,       \* m_last_effect
    \* the call in progress
    pc,         \* "idle", or the step vibrate is at
    result,     \* of the last call: "none" yet, TRUE and FALSE as "yes" and "no"
    calls       \* so far, for the bound

fixed == <<backend, capable, usable>>
pad == <<attached, owner, playing>>
vars == <<fixed, pad, alive, last, pc, result, calls>>

-----------------------------------------------------------------------------
Ours == {s \in Slot : owner[s] = "us"}
Free == {s \in Slot : owner[s] = "nobody"}

(* A mistake the runs must notice (see "mutants" in PROJECT.json): the      *)
(* former effect is forgotten before it is known to be removed.             *)
AfterRemoveFailsForgotten == NoEffect

(* What m_last_effect is when the former effect could not be removed, when  *)
(* it was, and when the new one was made but could not be started.          *)
AfterRemoveFails == last
AfterRemoved == NoEffect
AfterCreated(s) == s

-----------------------------------------------------------------------------
(* The pad, and other programs.                                             *)

Unplug ==
    /\ attached
    /\ attached' = FALSE
    /\ owner' = [s \in Slot |-> "nobody"] /\ playing' = {}
    /\ UNCHANGED <<fixed, alive, last, pc, result, calls>>

EffectEnds(s) ==
    /\ s \in playing
    /\ playing' = playing \ {s}
    /\ UNCHANGED <<fixed, attached, owner, alive, last, pc, result, calls>>

OtherUploads(s) ==
    /\ attached /\ s \in Free
    /\ owner' = [owner EXCEPT ![s] = "other"]
    /\ UNCHANGED <<fixed, attached, playing, alive, last, pc, result, calls>>

OtherRemoves(s) ==
    /\ owner[s] = "other"
    /\ owner' = [owner EXCEPT ![s] = "nobody"]
    /\ UNCHANGED <<fixed, attached, playing, alive, last, pc, result, calls>>

Pad == Unplug \/ \E s \in Slot : EffectEnds(s) \/ OtherUploads(s) \/ OtherRemoves(s)

-----------------------------------------------------------------------------
(* rb_minput_vibrate: the arguments, a strength in whole units of a motor's *)
(* greatest, and the device, are checked first.                             *)

Valid(duration, left, right) ==
    /\ 0 <= duration /\ duration <= 32767
    /\ 0 <= left /\ left <= 1 /\ 0 <= right /\ right <= 1

CanVibrate == capable /\ usable

Vibrate(duration, left, right) ==
    /\ pc = "idle" /\ calls < MaxCalls
    /\ calls' = calls + 1
    /\ IF Valid(duration, left, right) /\ alive /\ CanVibrate
       THEN /\ pc' = IF last = NoEffect THEN "create" ELSE "remove"
            /\ result' = "none"
       ELSE pc' = pc /\ result' = "no"
    /\ UNCHANGED <<fixed, pad, alive, last>>

(* Ends the call, with an exception or FALSE: 0 for the client either way.  *)
Return(answer) == pc' = "idle" /\ result' = answer

RemoveLast ==
    /\ pc = "remove" /\ attached
    /\ owner' = [owner EXCEPT ![last] = "nobody"] /\ playing' = playing \ {last}
    /\ last' = AfterRemoved
    /\ pc' = "create"
    /\ UNCHANGED <<fixed, attached, alive, result, calls>>

(* Linux stops the effect before it tries to remove it.                     *)
RemoveFails ==
    /\ pc = "remove"
    /\ playing' \in {playing} \cup IF backend = "evdev" THEN {playing \ {last}} ELSE {}
    /\ last' = AfterRemoveFails
    /\ Return("no")
    /\ UNCHANGED <<fixed, attached, owner, alive, calls>>

CreateEffect ==
    /\ pc = "create" /\ attached
    /\ \E s \in Free :
          /\ owner' = [owner EXCEPT ![s] = "us"]
          /\ last' = AfterCreated(s)
    /\ pc' = "start"
    /\ UNCHANGED <<fixed, attached, playing, alive, result, calls>>

(* No memory, or no pad.                                                    *)
CreateFails ==
    /\ pc = "create"
    /\ last' = NoEffect
    /\ Return("no")
    /\ UNCHANGED <<fixed, pad, alive, calls>>

(* macOS starts it alone. *)
Start ==
    /\ pc = "start" /\ attached
    /\ playing' = IF backend = "hidm" THEN {last} ELSE playing \cup {last}
    /\ Return("yes")
    /\ UNCHANGED <<fixed, attached, owner, alive, last, calls>>

StartFails ==
    /\ pc = "start"
    /\ Return("no")
    /\ UNCHANGED <<fixed, pad, alive, last, calls>>

(* The context removes the device, in a drain or from the run loop, or when *)
(* it goes itself: Linux frees the effects of a descriptor that is closed,  *)
(* macOS is told to release the last one.                                   *)
DestroyDevice ==
    LET freed == IF backend = "evdev" THEN Ours ELSE Ours \cap {last}
    IN  /\ pc = "idle" /\ alive
        /\ alive' = FALSE /\ last' = NoEffect
        /\ owner' = [s \in Slot |-> IF s \in freed THEN "nobody" ELSE owner[s]]
        /\ playing' = playing \ freed
        /\ UNCHANGED <<fixed, attached, pc, result, calls>>

Device ==
    \/ \E duration \in {-1, 0, 32767, 32768}, left, right \in -1 .. 2 :
          Vibrate(duration, left, right)
    \/ RemoveLast \/ RemoveFails \/ CreateEffect \/ CreateFails
    \/ Start \/ StartFails \/ DestroyDevice

-----------------------------------------------------------------------------
Init ==
    /\ backend \in {"evdev", "hidm"} /\ capable \in BOOLEAN
    /\ usable \in IF backend = "evdev" THEN {TRUE} ELSE BOOLEAN
    /\ attached = TRUE
    /\ owner \in [Slot -> {"nobody", "other"}] /\ playing = {}
    /\ alive = TRUE /\ last = NoEffect
    /\ pc = "idle" /\ result = "none" /\ calls = 0

Next == Pad \/ Device

Spec == Init /\ [][Next]_vars

-----------------------------------------------------------------------------
(* Properties. *)

(* The type invariant. *)
TypeOK ==
    /\ backend \in {"evdev", "hidm"} /\ capable \in BOOLEAN /\ usable \in BOOLEAN
    /\ attached \in BOOLEAN
    /\ owner \in [Slot -> {"us", "other", "nobody"}] /\ playing \subseteq Slot
    /\ alive \in BOOLEAN /\ last \in Slot \cup {NoEffect}
    /\ pc \in {"idle", "remove", "create", "start"}
    /\ result \in {"none", "yes", "no"} /\ calls \in Nat

(* However the steps of the calls fail, the effect the device remembers is  *)
(* the only one it has in the memory of the pad, and is there as long as    *)
(* the pad is; what plays is that effect; and a device that is gone, or was *)
(* never to vibrate, has none.  Otherwise effects would pile up until the   *)
(* memory is full, or play on with nobody to stop them.                     *)
NoForgottenEffect ==
    /\ Ours = IF attached THEN {last} \ {NoEffect} ELSE {}
    /\ playing \subseteq Ours
    /\ ~alive \/ ~CanVibrate => Ours = {}
    /\ pc # "idle" => alive /\ CanVibrate
    /\ pc \in {"remove", "start"} => last # NoEffect
    /\ pc = "create" => last = NoEffect
=============================================================================
