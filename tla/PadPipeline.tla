---------------------------- MODULE PadPipeline ----------------------------
(***************************************************************************)
(* The way of a gamepad's input on Linux, from the kernel's event buffer   *)
(* through libevdev and evdev_device to the values a client reads: the     *)
(* drain of one pad, post_update, the derived axes, the commit of a frame, *)
(* and the API calls that write axes.                                      *)
(*                                                                         *)
(* An axis is a button, a stick axis, one of the two halves derived from a *)
(* stick axis, or the d-pad axis derived from two buttons.  A value is an  *)
(* integer, Full standing for 1.0.  The vertical d-pad axis, made like the *)
(* horizontal one, and the triggers, mapped like a stick axis, add nothing.*)
(***************************************************************************)
EXTENDS Integers, Sequences, FiniteSets

CONSTANTS
    Button,         \* the buttons
    PadX, PadY,     \* the two among them that post_update counts differently
    Left, Right,    \* the two the d-pad axis is made of
    Stick,          \* the stick axes
    Reversed,       \* those whose direction is reversed (the vertical ones)
    DpadX,          \* the d-pad axis
    RawDown, RawUp, \* a stick axis ranges over -RawDown .. RawUp
    Deadzone,       \* its dead zone
    GarbageCount,   \* held buttons post_update takes for a garbage packet
    BufferSize,     \* events the kernel keeps for a reader
    ApiValues,      \* values a client writes
    Calls,          \* API calls the client makes: "set", "add", "commit", "reset"
    Upsets,         \* "held"     an input is held when the pad is opened
                    \* "failure"  reading another device throws
    MaxChanges,     \* bound: how often an input changes
    MaxCalls        \* bound: API calls and failures of other devices

Input == Button \cup Stick
Halves == Stick \X {"negative", "positive"}
Negative(s) == <<s, "negative">>
Positive(s) == <<s, "positive">>
Axis == Button \cup Stick \cup Halves \cup {DpadX}

ASSUME PadAssumption ==
    /\ IsFiniteSet(Button)
    /\ {PadX, PadY, Left, Right} \subseteq Button
    /\ PadX # PadY /\ Left # Right
    /\ Reversed \subseteq Stick
    /\ Button \cap Stick = {} /\ Halves \cap Input = {}
    /\ DpadX \notin Input \cup Halves /\ "dropped" \notin Input
    /\ RawDown \in Int /\ RawUp \in Int /\ Deadzone \in Nat
    /\ Deadzone < RawUp /\ Deadzone < RawDown
    /\ GarbageCount \in Nat \ {0} /\ BufferSize \in Nat \ {0, 1}
    /\ ApiValues \subseteq Int
    /\ Calls \subseteq {"set", "add", "commit", "reset"}
    /\ Upsets \subseteq {"held", "failure"}
    /\ MaxChanges \in Nat /\ MaxCalls \in Nat

VARIABLES
    physical,  \* what the pad's inputs are
    buffer,    \* the kernel's event buffer for this reader
    queue,     \* events libevdev has read and not returned
    resync,    \* libevdev has reported SYN_DROPPED
    next, current, previous,  \* the frames of every virtual_axis
    pc,        \* of the drain: "idle", "reading", "post", "commit"
    changes,   \* for the bound MaxChanges
    calls,     \* for the bound MaxCalls
    \* history, read by properties only
    shown,     \* current as the client saw it before this drain
    wiped,     \* post_update has reset the device in this drain
    trusted    \* inputs whose axis was last written by an event

libevdev == <<queue, resync>>
axes == <<next, current, previous>>
history == <<shown, wiped, trusted>>
vars == <<physical, buffer, libevdev, axes, pc, changes, calls, history>>

-----------------------------------------------------------------------------
(* Values. *)

Full == (RawUp - Deadzone) * (RawDown - Deadzone)

(* Mistakes the runs must notice (see "mutants" in PROJECT.json): a value is *)
(* not clamped, a stick is not reversed, derived axes or their zero is       *)
(* forgotten, the d-pad is not counted, both frames take the same value, the *)
(* pad is not polled.                                                        *)
ApplyDeadzoneUnclamped(value, absMax, over) ==
    IF value <= Deadzone THEN 0 ELSE (value - Deadzone) * over
Unreversed(s, raw) == raw
DerivedNone(v) == v
AtRestInputs == [a \in Input |-> 0]
HeldNoDpad(v) == Cardinality({b \in Button \ {PadY, Left, Right} : v[b] # 0})
ShiftBoth(v) == current' = v /\ previous' = v
PolledNever == {"post", "commit"}

(* apply_deadzone, in units of 1/Full: over is the length of the other side.*)
ApplyDeadzone(value, absMax, over) ==
    IF value <= Deadzone THEN 0
    ELSE ((IF value > absMax THEN absMax ELSE value) - Deadzone) * over

Directed(s, raw) == IF s \in Reversed THEN -raw ELSE raw

MapStick(s, raw) ==
    LET value == Directed(s, raw)
    IN  IF value < 0
        THEN -ApplyDeadzone(-value, RawDown, RawUp - Deadzone)
        ELSE ApplyDeadzone(value, RawUp, RawDown - Deadzone)

(* The value update gives the axis of an input. *)
MapInput(i, raw) ==
    IF i \in Stick THEN MapStick(i, raw) ELSE IF raw # 0 THEN Full ELSE 0

Raw(i) == IF i \in Stick THEN -RawDown .. RawUp ELSE {0, 1}

AtRest == [a \in Axis |-> 0]

(* derive_stick_pre_commit, applied to the next values. *)
Derived(v) ==
    [a \in Axis |->
       IF a \in Halves
       THEN LET value == v[a[1]]
            IN  IF a[2] = "positive"
                THEN IF value > 0 THEN value ELSE 0
                ELSE IF value > 0 THEN 0 ELSE -value
       ELSE IF a = DpadX
       THEN IF v[Left] # 0 THEN -v[Left] ELSE v[Right]
       ELSE v[a]]

(* post_update's count: pad_x is in its list twice, pad_y not at all. *)
HeldCount(v) ==
    Cardinality({b \in Button \ {PadY} : v[b] # 0})
      + (IF v[PadX] # 0 THEN 1 ELSE 0)

(* virtual_axis::commit of every axis. *)
Shift(v) == previous' = current /\ current' = v

(* NativeVirtualAxis, as the client reads it. *)
IsHeld(b) == current[b] # 0
PreviousHeld(b) == previous[b] # 0
IsUp(b) == ~IsHeld(b) /\ PreviousHeld(b)
IsDown(b) == IsHeld(b) /\ ~PreviousHeld(b)

-----------------------------------------------------------------------------
(* The kernel: an input changes and is reported.  A full buffer is emptied  *)
(* and holds SYN_DROPPED and the latest event from then on.                 *)

Event(i, raw) == [input |-> i, raw |-> raw]
Dropped == Event("dropped", 0)

Deliver(e) == IF Len(buffer) < BufferSize THEN Append(buffer, e)
                                          ELSE <<Dropped, e>>

Change(i, raw) ==
    /\ raw # physical[i] /\ changes < MaxChanges
    /\ physical' = [physical EXCEPT ![i] = raw]
    /\ buffer' = Deliver(Event(i, raw))
    /\ changes' = changes + 1
    /\ UNCHANGED <<libevdev, axes, pc, calls, history>>

-----------------------------------------------------------------------------
(* A drain.  poll finds this pad ready, or another descriptor only, or none.*)

Polled == IF buffer # <<>> THEN {"reading"} ELSE {"post", "commit"}

StartDrain ==
    /\ pc = "idle"
    /\ pc' \in Polled
    /\ shown' = current /\ wiped' = FALSE
    /\ UNCHANGED <<physical, buffer, libevdev, axes, changes, calls, trusted>>

(* libevdev_next_event in normal mode: after SYN_DROPPED it discards what   *)
(* it has read without returning it; it always reads what the kernel has.   *)
Pending == (IF resync THEN <<>> ELSE queue) \o buffer

ReadNothing ==
    /\ pc = "reading" /\ Pending = <<>>
    /\ queue' = <<>> /\ resync' = FALSE
    /\ pc' = "post"
    /\ UNCHANGED <<physical, buffer, axes, changes, calls, history>>

(* LIBEVDEV_READ_STATUS_SYNC ends the loop of process_device.               *)
ReadDropped ==
    /\ pc = "reading" /\ Pending # <<>> /\ Head(Pending) = Dropped
    /\ queue' = Tail(Pending) /\ buffer' = <<>> /\ resync' = TRUE
    /\ trusted' = {}
    /\ pc' = "post"
    /\ UNCHANGED <<physical, axes, changes, calls, shown, wiped>>

(* update_button and update_axis. *)
ReadEvent ==
    LET e == Head(Pending)
    IN  /\ pc = "reading" /\ Pending # <<>> /\ e # Dropped
        /\ queue' = Tail(Pending) /\ buffer' = <<>> /\ resync' = FALSE
        /\ next' = [next EXCEPT ![e.input] = MapInput(e.input, e.raw)]
        /\ trusted' = trusted \cup {e.input}
        /\ UNCHANGED <<physical, current, previous, pc, changes, calls, shown,
                       wiped>>

(* device::reset sets and commits a zero on every axis. *)
Reset ==
    /\ next' = AtRest /\ Shift(AtRest)
    /\ trusted' = {}

PostUpdate ==
    /\ pc = "post"
    /\ pc' = "commit"
    /\ IF HeldCount(next) >= GarbageCount
       THEN Reset /\ wiped' = TRUE
       ELSE UNCHANGED <<axes, trusted, wiped>>
    /\ UNCHANGED <<physical, buffer, libevdev, changes, calls, shown>>

(* Another device of the source fails before the post_update loop. *)
AnotherFails ==
    /\ pc = "post" /\ "failure" \in Upsets /\ calls < MaxCalls
    /\ pc' = "idle"
    /\ calls' = calls + 1
    /\ UNCHANGED <<physical, buffer, libevdev, axes, changes, history>>

(* evdev_device::commit. *)
Commit ==
    /\ pc = "commit"
    /\ next' = Derived(next) /\ Shift(Derived(next))
    /\ pc' = "idle"
    /\ UNCHANGED <<physical, buffer, libevdev, changes, calls, history>>

DrainEvents ==
    StartDrain \/ ReadNothing \/ ReadDropped \/ ReadEvent \/ PostUpdate \/ Commit

-----------------------------------------------------------------------------
(* The client, between two drains. *)

Call(name) ==
    /\ pc = "idle" /\ name \in Calls /\ calls < MaxCalls
    /\ calls' = calls + 1
    /\ UNCHANGED <<physical, buffer, libevdev, pc, changes, shown, wiped>>

SetValue(a, v) ==
    /\ Call("set")
    /\ next' = [next EXCEPT ![a] = v]
    /\ trusted' = trusted \ {a}
    /\ UNCHANGED <<current, previous>>

AddValue(a, v) ==
    /\ Call("add")
    /\ next' = [next EXCEPT ![a] = @ + v]
    /\ trusted' = trusted \ {a}
    /\ UNCHANGED <<current, previous>>

CommitValue(a) ==
    /\ Call("commit")
    /\ previous' = [previous EXCEPT ![a] = current[a]]
    /\ current' = [current EXCEPT ![a] = next[a]]
    /\ UNCHANGED <<next, trusted>>

(* rb_minput_reset_device, and rb_minput_reset for every device. *)
ResetDevice == Call("reset") /\ Reset

Client ==
    \/ \E a \in Axis : \/ CommitValue(a)
                       \/ \E v \in ApiValues : SetValue(a, v) \/ AddValue(a, v)
    \/ ResetDevice

-----------------------------------------------------------------------------
Init ==
    /\ physical \in [Input -> -RawDown .. RawUp]
    /\ \A i \in Input : /\ physical[i] \in Raw(i)
                        /\ physical[i] # 0 => "held" \in Upsets
    /\ buffer = <<>> /\ queue = <<>> /\ resync = FALSE
    /\ next = AtRest /\ current = AtRest /\ previous = AtRest
    /\ pc = "idle" /\ changes = 0 /\ calls = 0
    /\ shown = AtRest /\ wiped = FALSE
    /\ trusted = {i \in Input : physical[i] = 0}

Next ==
    \/ \E i \in Input : \E raw \in Raw(i) : Change(i, raw)
    \/ DrainEvents \/ AnotherFails \/ Client

Spec == Init /\ [][Next]_vars

(* The client drains every frame and a call runs on. *)
FairSpec == Spec /\ WF_vars(DrainEvents)

-----------------------------------------------------------------------------
(* Properties. *)

EventType == [input : Input, raw : Int] \cup {Dropped}

(* The type invariant. *)
TypeOK ==
    /\ physical \in [Input -> Int] /\ \A i \in Input : physical[i] \in Raw(i)
    /\ buffer \in Seq(EventType) /\ queue \in Seq(EventType)
    /\ Len(buffer) <= BufferSize /\ resync \in BOOLEAN
    /\ next \in [Axis -> Int] /\ current \in [Axis -> Int]
    /\ previous \in [Axis -> Int] /\ shown \in [Axis -> Int]
    /\ pc \in {"idle", "reading", "post", "commit"}
    /\ changes \in Nat /\ calls \in Nat
    /\ wiped \in BOOLEAN /\ trusted \subseteq Input

(* Axis values keep the documented range of [-1, 1] as long as the client   *)
(* writes none: the ends of the raw range differ, and a reversed stick's   *)
(* minimum exceeds its maximum.                                            *)
ValuesInRange ==
    Calls \cap {"set", "add"} = {} => \A a \in Axis : next[a] \in -Full .. Full

(* A frame tells one story about a stick and its halves, and about the     *)
(* d-pad and its buttons.                                                  *)
OneStory(v) ==
    /\ \A s \in Stick :
          /\ v[Positive(s)] - v[Negative(s)] = v[s]
          /\ v[Positive(s)] >= 0 /\ v[Negative(s)] >= 0
          /\ v[Positive(s)] = 0 \/ v[Negative(s)] = 0
    /\ v[DpadX] = IF v[Left] # 0 THEN -v[Left] ELSE v[Right]

(* Both frames the client reads do, through drains, garbage, failing       *)
(* drains, resets and writes to any axis, derived ones included, as long as *)
(* the client commits no single axis.                                      *)
DerivedAgree == "commit" \notin Calls => OneStory(current) /\ OneStory(previous)

(* A value matches an input: at rest inside the dead zone, and otherwise on *)
(* the side the input is on.                                               *)
Matches(i, v, raw) ==
    LET rest == IF i \in Stick THEN Deadzone ELSE 0
        side == IF i \in Reversed THEN -raw ELSE raw
    IN  (v > 0 <=> side > rest) /\ (v < 0 <=> side < -rest)

(* No input is lost: replaying what is on its way over the next values     *)
(* gives the pad's state, for every input the last write to which was an   *)
(* event, unless the kernel has dropped events.                            *)
OnItsWay == queue \o buffer
Lossless == ~resync /\ \A k \in DOMAIN OnItsWay : OnItsWay[k] # Dropped
LastOf(i, k) ==
    /\ OnItsWay[k].input = i
    /\ \A j \in DOMAIN OnItsWay : OnItsWay[j].input = i => j <= k
InSync ==
    Lossless =>
      \A i \in trusted :
         /\ \A k \in DOMAIN OnItsWay : LastOf(i, k) => OnItsWay[k].raw = physical[i]
         /\ (\A k \in DOMAIN OnItsWay : OnItsWay[k].input # i)
               => Matches(i, next[i], physical[i])

(* Buttons count as a garbage packet when this many of those post_update   *)
(* looks at are held; no frame shows the client such a packet.             *)
LooksLikeGarbage(v) ==
    Cardinality({b \in Button \ {PadY} : v[b] # 0}) >= GarbageCount
GarbageNeverShown == pc = "idle" => ~LooksLikeGarbage(current)

(* A button that was held in the last frame the client saw and is not in   *)
(* this one is up in this one; one that was not and is, is down.           *)
EdgesShown ==
    \A b \in Button :
       /\ shown[b] # 0 /\ ~IsHeld(b)' => IsUp(b)'
       /\ shown[b] = 0 /\ IsHeld(b)' => IsDown(b)'

(* A frame's previous values are what the client last saw as current, so    *)
(* that it sees each button go up and down, whatever failed in between,     *)
(* except where post_update reset the device.                               *)
WindowMovesOnce == [][Commit => wiped \/ (previous' = shown /\ EdgesShown)]_vars

(* The value of an input that stays is shown to the client, unless the     *)
(* last write to its axis was not an event.                                *)
InputShown ==
    \A i \in Input : \A raw \in Raw(i) :
       physical[i] = raw
          ~> physical[i] # raw \/ i \notin trusted \/ Matches(i, current[i], raw)
=============================================================================
