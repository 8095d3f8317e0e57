------------------------- MODULE KeyMousePipeline -------------------------
(***************************************************************************)
(* The way of the input of one keyboard, mouse or macOS gamepad to the     *)
(* axes a client reads: xi2_device on Linux, raw_input_device on Windows,  *)
(* hidm_device on macOS.                                                   *)
(*                                                                         *)
(* On Linux the input waits in the X connection and is read by a drain,    *)
(* which commits when nothing is left.  On Windows and macOS it waits in   *)
(* the client's message queue or run loop, which the client pumps between  *)
(* drains; a drain only commits.                                           *)
(*                                                                         *)
(* The tables of some hundred keys are cut down to the keys they treat     *)
(* differently: keys that share an axis, keys whose code depends on the    *)
(* locks or the layout, and keys that have no axis.                        *)
(***************************************************************************)
EXTENDS Integers, Sequences, FiniteSets

CONSTANTS
    Devices,      \* the devices looked at
    Reports,      \* sets of valuators that change together
    PadMax, PadDeadzone,  \* a stick ranges over -PadMax - 1 .. PadMax
    MaxEvents,    \* bound: what the user does with the device
    MaxQueue,     \* bound: the user waits while this many events are unread
    MaxFailures   \* bound: drains that throw on another device

(* The valuators of a mouse, numbered as the X drivers do. *)
Valuator == {"x", "y", "horizontal", "wheel"}
Number(v) == CASE v = "x" -> 0 [] v = "y" -> 1 [] v = "horizontal" -> 2 [] v = "wheel" -> 3

(* buttons is the number of them on a mouse, which has wheels when it has   *)
(* three; absolute is a tablet or the pointer of a virtual machine.         *)
DeviceType == [kind : {"x11", "raw", "hidm"}, sort : {"keyboard", "mouse", "pad"},
               buttons : Nat, absolute : BOOLEAN]

ASSUME PipelineAssumption ==
    /\ Devices \subseteq DeviceType
    /\ \A d \in Devices : /\ d.sort = "pad" => d.kind = "hidm"
                          /\ d.sort = "mouse" => d.buttons \in 2 .. 4
                          /\ d.absolute => d.kind # "hidm"
    /\ Reports \subseteq (SUBSET Valuator) \ {{}}
    /\ PadMax \in Nat /\ PadDeadzone \in Nat /\ PadDeadzone < PadMax
    /\ MaxEvents \in Nat /\ MaxQueue \in Nat /\ MaxFailures \in Nat

VARIABLES
    \* the device and its user
    dev,          \* what it is, for good
    held,         \* keys and buttons held down
    position,     \* where a stick is
    numLock,      \* Windows translates keypad keys by it
    layout,       \* of the keyboard
    queue,        \* events the library has not read
    \* the library
    next, current,  \* the frames of every virtual_axis
    hasLast,      \* raw_input_device::m_has_last_input
    pc,           \* "idle" or "draining"
    \* history and bounds
    moved, shown, lost,  \* motion made, committed and overwritten, by axis
    torn,         \* key axes a layout change may leave as they are
    events, failures

user == <<dev, held, position, numLock, layout>>
frames == <<next, current>>
history == <<moved, shown, lost, torn>>
vars == <<user, queue, frames, hasLast, pc, history, events, failures>>

-----------------------------------------------------------------------------
Keys ==
    IF dev.sort # "keyboard" THEN {}
    ELSE CASE dev.kind = "x11"  -> {"keypad7", "home", "begin", "letter", "media"}
           [] dev.kind = "raw"  -> {"keypad7", "home", "right_control", "letter", "media"}
           [] dev.kind = "hidm" -> {"comma", "keypad_comma", "letter", "media"}
Buttons ==
    CASE dev.sort = "mouse" ->
           {"left", "right"} \cup (IF dev.buttons > 2 THEN {"middle"} ELSE {})
                             \cup (IF dev.buttons > 3 THEN {"fourth"} ELSE {})
      [] dev.sort = "pad" -> {"dpad_up", "dpad_down"}
      [] OTHER -> {}
Valuators ==
    IF dev.sort # "mouse" THEN {} ELSE IF dev.buttons > 2 THEN Valuator ELSE {"x", "y"}

Motion == {"mouse_x", "mouse_y", "mouse_wheel"}
Negative(a) == CASE a = "mouse_x" -> "mouse_x_left"
                 [] a = "mouse_y" -> "mouse_y_down"
                 [] a = "mouse_wheel" -> "mouse_wheel_down"
                 [] a = "pad_left_stick_y" -> "pad_left_stick_down"
Positive(a) == CASE a = "mouse_x" -> "mouse_x_right"
                 [] a = "mouse_y" -> "mouse_y_up"
                 [] a = "mouse_wheel" -> "mouse_wheel_up"
                 [] a = "pad_left_stick_y" -> "pad_left_stick_up"
WithHalves(axes) == axes \cup {Negative(a) : a \in axes} \cup {Positive(a) : a \in axes}

Put(f, a, v) == [b \in DOMAIN f \cup {a} |-> IF b = a THEN v ELSE f[b]]
AddAxis(f, a) == IF a \in DOMAIN f THEN f ELSE Put(f, a, 0)

(* Mistakes the runs must notice (see "mutants" in PROJECT.json): keypad    *)
(* and navigation keys are not told apart, the values of a report are not   *)
(* taken one after the other, a drain ends before the queue is empty, a     *)
(* value outside of the range is not clamped.                               *)
FixupNone(vkey, isE0) == IF vkey = "CONTROL" THEN "RCONTROL" ELSE vkey
RawValueUnpacked(e, n) == 
    IF Number(n) < Len(e.values) THEN e.values[Number(n) + 1] ELSE 0
DrainOverEarly == TRUE
PadValueUnclamped(raw) ==
    LET value == -raw IN IF value < 0 THEN -(-value - PadDeadzone) ELSE value

-----------------------------------------------------------------------------
(* Linux. *)

Letter == IF layout = 1 THEN "key_q" ELSE "key_a"

(* The symbol is looked up in the present layout, without the locks.        *)
MapKeyCode(key) ==
    CASE key = "keypad7" -> "key_num_7"
      [] key \in {"home", "begin"} -> "key_home"
      [] key = "letter" -> Letter
      [] OTHER -> "none"

ButtonDetail(button) ==
    CASE button = "left" -> 1 [] button = "middle" -> 2
      [] button = "right" -> 3 [] button = "fourth" -> 8
MapButtonCode(detail) ==
    CASE detail = 1 -> "mouse_left" [] detail = 2 -> "mouse_middle"
      [] detail = 3 -> "mouse_right" [] detail = 8 -> "mouse_fourth"
      [] OTHER -> "none"

(* A mouse with wheels has four more buttons, 4 to 7, for them. *)
NumButtons == IF dev.buttons > 2 THEN dev.buttons + 4 ELSE dev.buttons

AddValuatorClasses ==
    WithHalves(IF dev.absolute THEN {} ELSE {"mouse_x", "mouse_y"})
      \cup (IF "wheel" \in Valuators THEN WithHalves({"mouse_wheel"}) ELSE {})
AddButtonClass ==
    (IF NumButtons >= 3 THEN {"mouse_left", "mouse_middle", "mouse_right"} ELSE {})
      \cup (IF NumButtons >= 8 THEN {"mouse_fourth"} ELSE {})
AddKeyClass == {MapKeyCode(key) : key \in Keys} \ {"none"}

-----------------------------------------------------------------------------
(* Windows. *)

(* The virtual key of a packet; a keypad key without NumLock is the         *)
(* navigation key on it, without the E0 flag of the real one.               *)
VKey(key) ==
    CASE key = "keypad7" -> IF numLock THEN "NUMPAD7" ELSE "HOME"
      [] key = "home" -> "HOME"
      [] key = "right_control" -> "CONTROL"
      [] key = "letter" -> IF layout = 1 THEN "Q" ELSE "A"
      [] OTHER -> "MEDIA"
IsE0(key) == key \in {"home", "right_control"}

Fixup(vkey, isE0) ==
    CASE vkey = "CONTROL" -> IF isE0 THEN "RCONTROL" ELSE "LCONTROL"
      [] vkey = "HOME" -> IF isE0 THEN "HOME" ELSE "NUMPAD7"
      [] OTHER -> vkey

VKeyCodes == [HOME |-> "key_home", NUMPAD7 |-> "key_num_7",
              LCONTROL |-> "key_left_control", RCONTROL |-> "key_right_control",
              Q |-> "key_q", A |-> "key_a"]
MapToInputCode(vkey) ==
    IF vkey \in DOMAIN VKeyCodes THEN VKeyCodes[vkey] ELSE "none"

(* The fake key of an escape sequence, 0xFF, is dropped. *)
RawCode(vkey, isE0) ==
    IF vkey = "FAKE" THEN "none" ELSE MapToInputCode(Fixup(vkey, isE0))

RawButton(button) ==
    CASE button = "left" -> "mouse_left" [] button = "right" -> "mouse_right"
      [] button = "middle" -> "mouse_middle" [] button = "fourth" -> "mouse_fourth"

RawAxes ==
    IF dev.sort = "keyboard" THEN {VKeyCodes[v] : v \in DOMAIN VKeyCodes}
    ELSE WithHalves(Motion) \cup {"mouse_left", "mouse_right"}
           \cup (IF dev.buttons > 2 THEN {"mouse_middle"} ELSE {})
           \cup (IF dev.buttons > 3 THEN {"mouse_fourth"} ELSE {})

-----------------------------------------------------------------------------
(* macOS: m_axis_map, from the element to its axis.                         *)

MouseElements ==
    LET usage == [left |-> 1, right |-> 2, middle |-> 3, fourth |-> 4]
        codes == <<"mouse_left", "mouse_right", "mouse_middle", "mouse_fourth">>
    IN  [e \in Buttons \cup (Valuators \ {"horizontal"}) |->
            CASE e = "x" -> "mouse_x" [] e = "y" -> "mouse_y" [] e = "wheel" -> "mouse_wheel"
              [] OTHER -> codes[usage[e]]]
KeyboardElements == [e \in Keys \ {"letter", "media"} |-> "key_comma"]
LetterElements == [e \in {"letter"} |-> "key_q"]
GamepadElements == [stick_y |-> "pad_left_stick_y", dpad_up |-> "pad_dpad_up",
                    dpad_down |-> "pad_dpad_down"]

AxisMap ==
    CASE dev.sort = "mouse" -> MouseElements
      [] dev.sort = "keyboard" ->
           [e \in DOMAIN KeyboardElements \cup DOMAIN LetterElements |->
              IF e \in DOMAIN LetterElements THEN LetterElements[e] ELSE KeyboardElements[e]]
      [] dev.sort = "pad" -> GamepadElements

HidmAxes ==
    LET axes == {AxisMap[e] : e \in DOMAIN AxisMap}
    IN  axes \cup WithHalves(axes \cap (Motion \cup {"pad_left_stick_y"}))
             \cup (IF dev.sort = "pad" THEN {"pad_dpad_y"} ELSE {})

(* apply_deadzone, in units of 1/(PadMax - PadDeadzone). *)
ApplyDeadzone(value) ==
    IF value <= PadDeadzone THEN 0
    ELSE (IF value > PadMax THEN PadMax ELSE value) - PadDeadzone

(* A vertical stick is reversed, its negative end is one further out. *)
PadValue(raw) ==
    LET value == -raw
    IN  IF value < 0 THEN -ApplyDeadzone(-value) ELSE ApplyDeadzone(value)

OnInput(element, value) ==
    IF element \notin DOMAIN AxisMap THEN next
    ELSE Put(next, AxisMap[element],
             IF AxisMap[element] = "pad_left_stick_y" THEN PadValue(value) ELSE value)

-----------------------------------------------------------------------------
(* The user.  How far a report moves each valuator; what it says.           *)

UpTo(mask, n) == Cardinality({o \in mask : Number(o) <= Number(n)})
Amount(n, d) == d * (Number(n) + 1)
AxisOf(n) == CASE n = "x" -> "mouse_x" [] n = "y" -> "mouse_y" [] n = "wheel" -> "mouse_wheel"
               [] OTHER -> "none"

Acts(new) ==
    /\ events < MaxEvents /\ Len(queue) < MaxQueue
    /\ events' = events + 1
    /\ queue' = queue \o new
    /\ UNCHANGED <<dev, frames, hasLast, pc, shown, lost, failures>>

KeyEvent(key, down) ==
    CASE dev.kind = "x11" -> [type |-> "x11_key", key |-> key, down |-> down]
      [] dev.kind = "raw" -> [type |-> "vkey", vkey |-> VKey(key), isE0 |-> IsE0(key),
                              down |-> down]
      [] dev.kind = "hidm" -> [type |-> "element", element |-> key,
                               value |-> IF down THEN 1 ELSE 0]

RawMouse(value, flag, down, up) ==
    [type |-> "raw_mouse", x |-> value[1], y |-> value[2], data |-> value[3],
     wheel |-> flag, down |-> down, up |-> up]

ButtonEvent(button, down) ==
    CASE dev.kind = "x11" -> [type |-> "x11_button", detail |-> ButtonDetail(button),
                              down |-> down]
      [] dev.kind = "raw" -> RawMouse(<<0, 0, 0>>, FALSE,
                                      IF down THEN {button} ELSE {},
                                      IF down THEN {} ELSE {button})
      [] dev.kind = "hidm" -> [type |-> "element", element |-> button,
                               value |-> IF down THEN 1 ELSE 0]

(* A keyboard on Windows repeats a key that is held. *)
Press(i) ==
    /\ i \in (Keys \cup Buttons) \ (IF dev.kind = "raw" /\ i \in Keys THEN {} ELSE held)
    /\ held' = held \cup {i}
    /\ Acts(<<IF i \in Keys THEN KeyEvent(i, TRUE) ELSE ButtonEvent(i, TRUE)>>)
    /\ UNCHANGED <<position, numLock, layout, moved, torn>>

Release(i) ==
    /\ i \in held
    /\ held' = held \ {i}
    /\ Acts(<<IF i \in Keys THEN KeyEvent(i, FALSE) ELSE ButtonEvent(i, FALSE)>>)
    /\ UNCHANGED <<position, numLock, layout, moved, torn>>

FakeKey ==
    /\ dev.kind = "raw" /\ dev.sort = "keyboard"
    /\ Acts(<<[type |-> "vkey", vkey |-> "FAKE", isE0 |-> TRUE, down |-> TRUE]>>)
    /\ UNCHANGED <<held, position, numLock, layout, moved, torn>>

SwitchNumLock ==
    /\ dev.kind = "raw" /\ dev.sort = "keyboard"
    /\ numLock' = ~numLock
    /\ Acts(<<>>)
    /\ UNCHANGED <<held, position, layout, moved, torn>>

(* A change of the layout, while keys are held or their events wait, may    *)
(* leave the axis of the former code, or of the new one, as it is.          *)
SwitchLayout ==
    /\ dev.kind # "hidm" /\ dev.sort = "keyboard"
    /\ layout' = 3 - layout
    /\ torn' = torn \cup
         IF "letter" \in held \/ \E k \in DOMAIN queue :
               queue[k].type = "x11_key" /\ queue[k].key = "letter"
         THEN {Letter, Letter'} ELSE {}
    /\ Acts(<<>>)
    /\ UNCHANGED <<held, position, numLock, moved>>

(* The values of a raw X event, packed.  A wheel also presses a button.     *)
Packed(mask, d) ==
    [k \in 1 .. Cardinality(mask) |->
        Amount(CHOOSE n \in mask : UpTo(mask, n) = k, d)]
MotionEvents(mask, d) ==
    LET in(n) == IF n \in mask THEN Amount(n, d) ELSE 0
        rolled == IF "wheel" \in mask THEN "wheel" ELSE "horizontal"
    IN  CASE dev.kind = "x11" ->
               <<[type |-> "x11_motion", mask |-> mask, values |-> Packed(mask, d)]>>
                 \o (IF "wheel" \in mask
                     THEN <<[type |-> "x11_button", detail |-> 4, down |-> TRUE]>>
                     ELSE <<>>)
          [] dev.kind = "raw" ->
               <<RawMouse(<<in("x"), in("y"), in(rolled)>>, "wheel" \in mask, {}, {})>>
          [] dev.kind = "hidm" ->
               [k \in 1 .. Cardinality(mask) |->
                  LET n == CHOOSE n \in mask : UpTo(mask, n) = k
                  IN  [type |-> "element", element |-> n, value |-> Amount(n, d)]]

Move(mask, d) ==
    /\ mask \subseteq Valuators
    /\ dev.kind = "raw" => ~({"horizontal", "wheel"} \subseteq mask)
    /\ moved' = [a \in Motion |->
          moved[a] + IF \E n \in mask : AxisOf(n) = a
                     THEN Amount(CHOOSE n \in mask : AxisOf(n) = a, d) ELSE 0]
    /\ Acts(MotionEvents(mask, d))
    /\ UNCHANGED <<held, position, numLock, layout, torn>>

Steer(raw) ==
    /\ dev.sort = "pad" /\ raw # position
    /\ position' = raw
    /\ Acts(<<[type |-> "element", element |-> "stick_y", value |-> raw]>>)
    /\ UNCHANGED <<held, numLock, layout, moved, torn>>

User ==
    \/ \E i \in Keys \cup Buttons : Press(i) \/ Release(i)
    \/ FakeKey \/ SwitchNumLock \/ SwitchLayout
    \/ \E mask \in Reports, d \in {-1, 1} : Move(mask, d)
    \/ \E raw \in -PadMax - 1 .. PadMax : Steer(raw)

-----------------------------------------------------------------------------
(* The updates of a device, as the next frame they leave.                   *)

(* A key or button that was not known when the device was made is added.    *)
SetLate(f, code, down) ==
    IF code = "none" THEN f ELSE Put(f, code, IF down THEN 1 ELSE 0)

RawValue(e, n) == e.values[UpTo(e.mask, n)]
UpdateMotion(e) ==
    [a \in DOMAIN next |->
        LET n == {v \in e.mask : AxisOf(v) = a}
        IN  IF n = {} \/ a = "none" THEN next[a]
            ELSE next[a] + RawValue(e, CHOOSE v \in n : TRUE)]

(* An absolute position is scaled to the screen, here to half of it, and    *)
(* compared with the unscaled position of the same packet.                  *)
Travelled(p) ==
    CASE ~dev.absolute -> p
      [] dev.absolute /\ hasLast -> (p \div 2) - p
      [] dev.absolute /\ ~hasLast -> 0

(* get_axis is not asked whether there is such an axis: Put would make one  *)
(* where the code has no object.                                            *)
UpdateMouse(e) ==
    LET axes == DOMAIN next \cup {RawButton(b) : b \in e.down \cup e.up}
    IN  [a \in axes |->
           CASE a = "mouse_x" -> next[a] + Travelled(e.x)
             [] a = "mouse_y" -> next[a] + Travelled(e.y)
             [] a = "mouse_wheel" -> next[a] + IF e.wheel THEN e.data ELSE 0
             [] \E b \in e.down : RawButton(b) = a -> 1
             [] \E b \in e.up \ e.down : RawButton(b) = a -> 0
             [] OTHER -> next[a]]

UpdateKeyboard(e) == SetLate(next, RawCode(e.vkey, e.isE0), e.down)

Updated(e) ==
    CASE e.type = "x11_key" -> SetLate(next, MapKeyCode(e.key), e.down)
      [] e.type = "x11_button" -> SetLate(next, MapButtonCode(e.detail), e.down)
      [] e.type = "x11_motion" -> UpdateMotion(e)
      [] e.type = "vkey" -> UpdateKeyboard(e)
      [] e.type = "raw_mouse" -> UpdateMouse(e)
      [] e.type = "element" -> OnInput(e.element, e.value)

(* The drain reads the X connection; the client pumps the other queues.     *)
Readable ==
    queue # <<>> /\ pc = IF dev.kind = "x11" THEN "draining" ELSE "idle"

Update ==
    LET e == Head(queue)
    IN  /\ Readable
        /\ queue' = Tail(queue)
        /\ next' = Updated(e)
        /\ current' = [a \in DOMAIN next' |-> IF a \in DOMAIN current THEN current[a] ELSE 0]
        /\ hasLast' = (hasLast \/ (e.type = "raw_mouse" /\ dev.absolute))
        /\ lost' = [a \in Motion |->
              lost[a] + IF /\ e.type = "element" /\ e.element \in DOMAIN AxisMap
                           /\ AxisMap[e.element] = a
                        THEN next[a] ELSE 0]
        /\ UNCHANGED <<user, pc, moved, shown, torn, events, failures>>

-----------------------------------------------------------------------------
(* The drain. *)

StartDrain ==
    /\ pc = "idle"
    /\ pc' = "draining"
    /\ UNCHANGED <<user, queue, frames, hasLast, history, events, failures>>

DrainOver == dev.kind = "x11" => queue = <<>>

(* derive_mouse_pre_commit and derive_stick_pre_commit: the vertical motion *)
(* is reversed, both halves of each axis follow it, and the d-pad's axis    *)
(* its buttons.                                                             *)
Reversed(f) == [a \in DOMAIN f |-> IF a = "mouse_y" THEN -f[a] ELSE f[a]]
Derived(f) ==
    LET whole == (Motion \cup {"pad_left_stick_y"}) \cap DOMAIN f
    IN  [a \in DOMAIN f |->
           CASE \E w \in whole : a = Positive(w) ->
                  LET w == CHOOSE w \in whole : a = Positive(w)
                  IN  IF f[w] > 0 THEN f[w] ELSE 0
             [] \E w \in whole : a = Negative(w) ->
                  LET w == CHOOSE w \in whole : a = Negative(w)
                  IN  IF f[w] > 0 THEN 0 ELSE -f[w]
             [] a = "pad_dpad_y" ->
                  IF f["pad_dpad_down"] # 0 THEN -f["pad_dpad_down"] ELSE f["pad_dpad_up"]
             [] OTHER -> f[a]]

(* derive_mouse_post_commit *)
PostCommit(f) == [a \in DOMAIN f |-> IF a \in Motion THEN 0 ELSE f[a]]

Commit ==
    LET committed == Derived(Reversed(next))
    IN  /\ pc = "draining" /\ DrainOver
        /\ current' = committed
        /\ next' = PostCommit(committed)
        /\ shown' = [a \in Motion |->
              IF a \notin DOMAIN committed THEN shown[a]
              ELSE LET step == committed[Positive(a)] - committed[Negative(a)]
                   IN  shown[a] + IF a = "mouse_y" THEN -step ELSE step]
        /\ pc' = "idle"
        /\ UNCHANGED <<user, queue, hasLast, moved, lost, torn, events, failures>>

(* Another source, or another device's update, throws.                      *)
DrainFails ==
    /\ pc = "draining" /\ failures < MaxFailures
    /\ failures' = failures + 1
    /\ pc' = "idle"
    /\ UNCHANGED <<user, queue, frames, hasLast, history, events>>

Drain == StartDrain \/ Commit \/ DrainFails

-----------------------------------------------------------------------------
Zero(axes) == [a \in axes |-> 0]

Axes ==
    CASE dev.kind = "x11" -> IF dev.sort = "keyboard" THEN AddKeyClass
                             ELSE AddValuatorClasses \cup AddButtonClass
      [] dev.kind = "raw" -> RawAxes
      [] dev.kind = "hidm" -> HidmAxes

Init ==
    /\ dev \in Devices
    /\ held = {} /\ position = 0 /\ layout = 1
    /\ numLock \in IF dev.kind = "raw" THEN BOOLEAN ELSE {TRUE}
    /\ queue = <<>>
    /\ next = Zero(Axes) /\ current = next
    /\ hasLast = FALSE /\ pc = "idle"
    /\ moved = Zero(Motion) /\ shown = Zero(Motion) /\ lost = Zero(Motion)
    /\ torn = {} /\ events = 0 /\ failures = 0

Next == User \/ Update \/ Drain

Spec == Init /\ [][Next]_vars

(* The client drains in every frame and, where there is one, pumps its      *)
(* queue in between.                                                        *)
ReadInDrain == dev.kind = "x11" /\ Update
Pump == dev.kind # "x11" /\ Update

FairSpec == Spec /\ WF_vars(StartDrain \/ ReadInDrain \/ Commit) /\ SF_vars(Pump)

-----------------------------------------------------------------------------
(* Properties. *)

PadRange == -(PadMax - PadDeadzone) .. PadMax - PadDeadzone

(* The type invariant: a gamepad's values stay within its range, and on     *)
(* Windows no update names an axis that the constructor did not make.       *)
TypeOK ==
    /\ dev \in Devices
    /\ held \subseteq Keys \cup Buttons /\ position \in -PadMax - 1 .. PadMax
    /\ numLock \in BOOLEAN /\ layout \in {1, 2} /\ hasLast \in BOOLEAN
    /\ next = [a \in DOMAIN next |-> next[a]] /\ DOMAIN current = DOMAIN next
    /\ \A a \in DOMAIN next : next[a] \in Int /\ current[a] \in Int
    /\ dev.sort = "pad" => \A a \in DOMAIN next : next[a] \in PadRange
    /\ dev.kind # "x11" => DOMAIN next = Axes
    /\ pc \in {"idle", "draining"}
    /\ {moved, shown, lost} \subseteq [Motion -> Int]
    /\ "none" \notin DOMAIN next /\ events \in Nat /\ failures \in Nat

CodeOf(i) ==
    CASE dev.kind = "x11" -> IF i \in Keys THEN MapKeyCode(i)
                             ELSE MapButtonCode(ButtonDetail(i))
      [] dev.kind = "raw" -> IF i \in Keys THEN RawCode(VKey(i), IsE0(i)) ELSE RawButton(i)
      [] dev.kind = "hidm" -> IF i \in DOMAIN AxisMap THEN AxisMap[i] ELSE "none"

(* With nothing unread, an axis is pressed only if a key that it stands for *)
(* is held, and is pressed if its only key is, whatever NumLock did in      *)
(* between; a stick's axis tells where the stick is.  A layout change while *)
(* the key is held is the exception.                                        *)
AxesFollowInputs ==
    queue = <<>> =>
      /\ \A i \in Keys \cup Buttons :
            LET c == CodeOf(i)
                sharing == {j \in Keys \cup Buttons : CodeOf(j) = c}
            IN  c \notin torn \cup {"none"} =>
                  IF c \in DOMAIN next
                  THEN /\ next[c] # 0 => sharing \cap held # {}
                       /\ sharing = {i} /\ i \in held => next[c] # 0
                  ELSE i \notin held
      /\ dev.sort = "pad" => next["pad_left_stick_y"] = PadValue(position)

(* No motion is lost or counted twice on its way to the committed halves of *)
(* an axis, across drains that fail in the middle; on macOS a report takes  *)
(* the place of one that no commit has shown yet.                           *)
Conserved ==
    queue = <<>> =>
      \A a \in Motion \cap DOMAIN next :
        \/ dev.absolute /\ a # "mouse_wheel"
        \/ /\ moved[a] = shown[a] + next[a] + lost[a]
           /\ dev.kind # "hidm" => lost[a] = 0

(* All motion is shown in the end. *)
MotionShown ==
    <>[](\A a \in Motion \cap DOMAIN next :
            \/ dev.absolute /\ a # "mouse_wheel"
            \/ moved[a] = shown[a] + lost[a])
=============================================================================
