---------------------------- MODULE XInputSource ----------------------------
(***************************************************************************)
(* The XInput source of Windows: a fixed number of slots, each a device    *)
(* that is never removed but becomes usable and unusable, polled by the    *)
(* drain of every frame, and the rumble each slot's motors are left in.    *)
(*                                                                         *)
(* A pad's whole state is one value: its axes are written together.  One   *)
(* axis stands for them; those derived from it are PadPipeline's business. *)
(***************************************************************************)
EXTENDS Integers

CONSTANTS
    Slots,        \* how many slots there are
    Value,        \* what a pad's state may be, 0 standing for a pad at rest
    Upsets,       \* "reuse"   a pad that is plugged in may report the packet
                  \*           number last read from its slot
                  \* "failure" XInputSetState may fail with a pad in the slot
    Calls,        \* API calls the client makes: "vibrate", "reset"
    MaxPackets,   \* bound: packet numbers
    MaxFailures,  \* bound: failures of XInputSetState
    MaxCalls      \* bound: API calls of the client

ASSUME XInputAssumption ==
    /\ Slots \in Nat \ {0}
    /\ 0 \in Value
    /\ Upsets \subseteq {"reuse", "failure"}
    /\ Calls \subseteq {"vibrate", "reset"}
    /\ MaxPackets \in Nat /\ MaxFailures \in Nat /\ MaxCalls \in Nat

Slot == 1 .. Slots

VARIABLES
    \* the pads
    connected, physical, packet,  \* of a slot: has it a pad, its state, and
                                  \* the packet number, new for every change
    motor,      \* the motors of the pad run
    elapsed,    \* steady_clock has passed the end of the slot's last effect
    \* xinput_device
    usable,     \* m_is_usable
    state,      \* m_state, the packet last read
    playing,    \* m_last_effect_playing
    next, current,  \* the frames of its axes
    \* the context and the client
    known,      \* what the client has last been told of a slot's usability
    pc, slot,   \* where the enumeration or the drain is
    prevPacket, \* local of update
    failures, calls,  \* for the bounds
    \* history, read by properties only
    trusted     \* slots whose axes were last written by a packet

pad == <<connected, physical, packet, motor, elapsed>>
device == <<usable, state, playing, next, current, known>>
control == <<pc, slot, prevPacket>>
bounds == <<failures, calls>>
vars == <<pad, device, control, bounds, trusted>>

Packet(n, v) == [number |-> n, value |-> v]

-----------------------------------------------------------------------------
(* Mistakes the runs must notice (see "mutants" in PROJECT.json): a loop     *)
(* runs one slot too far or starts one too late, only usable is told, a pad  *)
(* once usable stays so, the packet is compared with itself, a rumble is     *)
(* never found expired, and its flag is cleared before the motors are.       *)
MoreSlotsByOne == slot <= Slots
StartDrainLate ==
    /\ pc = "idle" /\ pc' = "read" /\ slot' = Slots
    /\ UNCHANGED <<pad, device, prevPacket, bounds, trusted>>
TellUsableOnly(s, u) ==
    /\ usable' = [usable EXCEPT ![s] = u]
    /\ known' = IF u THEN [known EXCEPT ![s] = "usable"] ELSE known
StaysUsable(s, u) ==
    /\ usable' = [usable EXCEPT ![s] = @ \/ u]
    /\ known' = IF u THEN [known EXCEPT ![s] = "usable"] ELSE known
NeverFresh(before, packetRead) == FALSE
NeverExpired(s) == FALSE
PlayingCleared(s) == [playing EXCEPT ![s] = FALSE]

-----------------------------------------------------------------------------
(* The pads. *)

(* A pad may be plugged in with inputs held. *)
Plug(s, v) ==
    /\ ~connected[s]
    /\ connected' = [connected EXCEPT ![s] = TRUE]
    /\ physical' = [physical EXCEPT ![s] = v]
    /\ \/ packet[s] < MaxPackets /\ packet' = [packet EXCEPT ![s] = @ + 1]
       \/ "reuse" \in Upsets /\ packet' = [packet EXCEPT ![s] = state[s].number]
    /\ UNCHANGED <<motor, elapsed, device, control, bounds, trusted>>

Unplug(s) ==
    /\ connected[s]
    /\ connected' = [connected EXCEPT ![s] = FALSE]
    /\ physical' = [physical EXCEPT ![s] = 0]
    /\ motor' = [motor EXCEPT ![s] = FALSE]
    /\ UNCHANGED <<packet, elapsed, device, control, bounds, trusted>>

Change(s, v) ==
    /\ connected[s] /\ v # physical[s] /\ packet[s] < MaxPackets
    /\ physical' = [physical EXCEPT ![s] = v]
    /\ packet' = [packet EXCEPT ![s] = @ + 1]
    /\ UNCHANGED <<connected, motor, elapsed, device, control, bounds, trusted>>

Elapse(s) ==
    /\ playing[s] /\ ~elapsed[s]
    /\ elapsed' = [elapsed EXCEPT ![s] = TRUE]
    /\ UNCHANGED <<connected, physical, packet, motor, device, control, bounds,
                   trusted>>

(* XInputGetState leaves the state alone when the slot has no pad. *)
GetState(s) ==
    IF connected[s] THEN Packet(packet[s], physical[s]) ELSE state[s]

(* XInputSetState. *)
SetStateSucceeds(s, power) ==
    /\ connected[s]
    /\ motor' = [motor EXCEPT ![s] = power]

SetStateFails(s) ==
    /\ connected[s] /\ "failure" \in Upsets /\ failures < MaxFailures
    /\ failures' = failures + 1

-----------------------------------------------------------------------------
(* device::set_usable. *)
Usability(u) == IF u THEN "usable" ELSE "unusable"
SetUsable(s, u) ==
    /\ usable' = [usable EXCEPT ![s] = u]
    /\ known' = IF u # usable[s] THEN [known EXCEPT ![s] = Usability(u)]
                                 ELSE known

(* The axes are written unless the packet is the one read before. *)
Fresh(before, packetRead) == packetRead.number # before

WriteAxes(s, before, packetRead) ==
    IF Fresh(before, packetRead)
    THEN /\ next' = [next EXCEPT ![s] = packetRead.value]
         /\ trusted' = trusted \cup {s}
    ELSE UNCHANGED <<next, trusted>>

MoreSlots == slot < Slots
ThenNextSlot(busy, done) ==
    IF MoreSlots THEN pc' = busy /\ slot' = slot + 1
                 ELSE pc' = done /\ slot' = 1

(* xinput_source::enum_devices makes the device of a slot; its constructor   *)
(* updates it.  A client that hears it is unusable hears so before created,  *)
(* and once more with created.                                               *)
CreateDevice ==
    /\ pc = "enum"
    /\ usable' = [usable EXCEPT ![slot] = connected[slot]]
    /\ known' = [known EXCEPT ![slot] = Usability(connected[slot])]
    /\ state' = [state EXCEPT ![slot] = GetState(slot)]
    /\ WriteAxes(slot, state[slot].number, GetState(slot))
    /\ ThenNextSlot("enum", "idle")
    /\ UNCHANGED <<pad, playing, current, prevPacket, bounds>>

-----------------------------------------------------------------------------
(* A drain: xinput_device::update of each slot, then the commit. *)

StartDrain ==
    /\ pc = "idle" /\ pc' = "read" /\ slot' = 1
    /\ UNCHANGED <<pad, device, prevPacket, bounds, trusted>>

Expired(s) == playing[s] /\ elapsed[s]

ReadState ==
    /\ pc = "read"
    /\ prevPacket' = state[slot].number
    /\ state' = [state EXCEPT ![slot] = GetState(slot)]
    /\ SetUsable(slot, connected[slot])
    /\ IF Expired(slot)
       THEN pc' = "stop" /\ UNCHANGED <<slot, next, trusted>>
       ELSE /\ WriteAxes(slot, state[slot].number, GetState(slot))
            /\ ThenNextSlot("read", "commit")
    /\ UNCHANGED <<pad, playing, current, bounds>>

(* The rumble is over: do_vibrate(0, 0), which may find the pad gone.        *)
StopMotors ==
    /\ pc = "stop"
    /\ \/ SetStateSucceeds(slot, FALSE) /\ UNCHANGED <<usable, known>>
       \/ ~connected[slot] /\ SetUsable(slot, FALSE) /\ UNCHANGED motor
    /\ playing' = [playing EXCEPT ![slot] = FALSE]
    /\ WriteAxes(slot, prevPacket, state[slot])
    /\ ThenNextSlot("read", "commit")
    /\ UNCHANGED <<connected, physical, packet, elapsed, state, current,
                   prevPacket, bounds>>

(* It throws: the axes of this slot keep what they were, the slots behind it *)
(* are not updated and nothing is committed in this drain.                   *)
PlayingAfterThrow(s) == playing
StopFails ==
    /\ pc = "stop"
    /\ SetStateFails(slot)
    /\ playing' = PlayingAfterThrow(slot)
    /\ trusted' = IF Fresh(prevPacket, state[slot]) THEN trusted \ {slot}
                                                     ELSE trusted
    /\ pc' = "idle" /\ slot' = 1
    /\ UNCHANGED <<pad, usable, state, next, current, known, prevPacket, calls>>

(* xinput_device::commit of every slot. *)
Commit ==
    /\ pc = "commit" /\ pc' = "idle"
    /\ current' = next
    /\ UNCHANGED <<pad, usable, state, playing, next, known, slot, prevPacket,
                   bounds, trusted>>

Library ==
    CreateDevice \/ StartDrain \/ ReadState \/ StopMotors \/ StopFails \/ Commit

-----------------------------------------------------------------------------
(* The client, between two drains. *)

Call(name) ==
    /\ pc = "idle" /\ name \in Calls /\ calls < MaxCalls
    /\ calls' = calls + 1
    /\ UNCHANGED <<connected, physical, packet, state, control>>

(* xinput_device::vibrate; power says whether a motor is to run.  The start  *)
(* and the duration are taken before the motors are asked to run.            *)
Vibrate(s, power) ==
    /\ Call("vibrate") /\ usable[s]
    /\ elapsed' = [elapsed EXCEPT ![s] = FALSE]
    /\ \/ /\ SetStateSucceeds(s, power)
          /\ playing' = [playing EXCEPT ![s] = TRUE]
          /\ UNCHANGED <<usable, known, failures>>
       \/ /\ ~connected[s]
          /\ SetUsable(s, FALSE)
          /\ playing' = [playing EXCEPT ![s] = FALSE]
          /\ UNCHANGED <<motor, failures>>
       \/ SetStateFails(s) /\ UNCHANGED <<motor, playing, usable, known>>
    /\ UNCHANGED <<next, current, trusted>>

ResetDevice(s) ==
    /\ Call("reset")
    /\ next' = [next EXCEPT ![s] = 0] /\ current' = [current EXCEPT ![s] = 0]
    /\ trusted' = trusted \ {s}
    /\ UNCHANGED <<motor, elapsed, usable, playing, known, failures>>

-----------------------------------------------------------------------------
Init ==
    /\ connected \in [Slot -> BOOLEAN]
    /\ physical \in [Slot -> Value] /\ packet \in [Slot -> {0, 1}]
    /\ \A s \in Slot : /\ physical[s] # 0 => connected[s]
                       /\ packet[s] = 0 => physical[s] = 0
    /\ motor = [s \in Slot |-> FALSE] /\ elapsed = [s \in Slot |-> FALSE]
    /\ usable = [s \in Slot |-> TRUE] /\ known = [s \in Slot |-> "nothing"]
    /\ state = [s \in Slot |-> Packet(0, 0)]
    /\ playing = [s \in Slot |-> FALSE]
    /\ next = [s \in Slot |-> 0] /\ current = [s \in Slot |-> 0]
    /\ pc = "enum" /\ slot = 1 /\ prevPacket = 0
    /\ failures = 0 /\ calls = 0
    /\ trusted = Slot

Next ==
    \/ Library
    \/ \E s \in Slot :
          \/ Unplug(s) \/ Elapse(s)
          \/ \E v \in Value : Plug(s, v) \/ Change(s, v)
          \/ \E power \in BOOLEAN : Vibrate(s, power)
          \/ ResetDevice(s)

Spec == Init /\ [][Next]_vars

(* The client drains every frame, a call runs on, and time passes. *)
FairSpec == Spec /\ WF_vars(Library) /\ \A s \in Slot : WF_vars(Elapse(s))

-----------------------------------------------------------------------------
(* Properties. *)

(* The type invariant. *)
TypeOK ==
    /\ connected \in [Slot -> BOOLEAN] /\ physical \in [Slot -> Value]
    /\ packet \in [Slot -> Nat]
    /\ motor \in [Slot -> BOOLEAN] /\ elapsed \in [Slot -> BOOLEAN]
    /\ usable \in [Slot -> BOOLEAN] /\ playing \in [Slot -> BOOLEAN]
    /\ state \in [Slot -> [number : Nat, value : Value]]
    /\ next \in [Slot -> Value] /\ current \in [Slot -> Value]
    /\ known \in [Slot -> {"nothing", "usable", "unusable"}]
    /\ pc \in {"enum", "idle", "read", "stop", "commit"}
    /\ slot \in Slot /\ prevPacket \in Nat
    /\ failures \in Nat /\ calls \in Nat
    /\ trusted \subseteq Slot

(* Motors that run belong to an effect update knows to be playing, through  *)
(* failures and pads that come and go, so its expiry will stop them.        *)
MotorTracked == \A s \in Slot : motor[s] => playing[s]

(* What the client has been told of a device's usability, by created,       *)
(* usable and unusable events, is what is_usable says.                      *)
Created(s) == pc # "enum" \/ s < slot
UsableAgrees == \A s \in Slot : Created(s) => known[s] = Usability(usable[s])

(* A pad whose last packet has been read has that packet's values on its    *)
(* axes, unless the client reset them or the update was cut short.          *)
Updating(s) == pc = "stop" /\ slot = s
Read(s) == connected[s] /\ state[s].number = packet[s] /\ ~Updating(s)
InSync ==
    "reuse" \notin Upsets =>
      \A s \in trusted : Read(s) => next[s] = physical[s]

(* A rumble ends: motors stop within the frames after its expiry.           *)
RumbleStops == \A s \in Slot : motor[s] ~> ~motor[s]

(* The client learns of a pad that stays, and of one that stays away.       *)
PresenceTold ==
    \A s \in Slot : \A present \in BOOLEAN :
       connected[s] = present
          ~> connected[s] # present \/ known[s] = Usability(present)

(* The state of a pad that stays is shown to the client, with the           *)
(* exceptions of InSync.                                                    *)
InputShown ==
    \A s \in Slot : \A v \in Value :
       connected[s] /\ physical[s] = v
          ~> ~connected[s] \/ physical[s] # v \/ s \notin trusted \/ current[s] = v
=============================================================================
