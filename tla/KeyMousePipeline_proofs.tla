---------------------- MODULE KeyMousePipeline_proofs ----------------------
(***************************************************************************)
(* Proofs about KeyMousePipeline, for any devices, any reports and any     *)
(* bounds: the types, that no motion is lost or counted twice, and that    *)
(* the axes of keys, buttons and sticks follow them.                       *)
(***************************************************************************)
EXTENDS KeyMousePipeline, SequenceTheorems, FiniteSetTheorems, TLAPS

Stick == "pad_left_stick_y"

(* The axes of keys and buttons, and those that keep what is written to     *)
(* them until the next write.                                               *)
KeyCodes == {"key_num_7", "key_home", "key_q", "key_a", "key_left_control",
             "key_right_control", "key_comma"}
ButtonCodes == {"mouse_left", "mouse_right", "mouse_middle", "mouse_fourth",
                "pad_dpad_up", "pad_dpad_down"}
Codes == KeyCodes \cup ButtonCodes
Kept == Codes \cup {Stick}

(* What the device's events look like.                                      *)
X11Key == [type : {"x11_key"}, key : Keys, down : BOOLEAN]
X11Button == [type : {"x11_button"}, detail : {1, 2, 3, 4, 8}, down : BOOLEAN]
X11Motion ==
  {e \in [type : {"x11_motion"}, mask : SUBSET Valuator, values : Seq(Int)] :
      Len(e.values) = Cardinality(e.mask)}
VKeyEvent ==
  [type : {"vkey"}, vkey : {"NUMPAD7", "HOME", "CONTROL", "Q", "A", "MEDIA", "FAKE"},
   isE0 : BOOLEAN, down : BOOLEAN]
RawMouseEvent ==
  {e \in [type : {"raw_mouse"}, x : Int, y : Int, data : Int, wheel : BOOLEAN,
          down : SUBSET Buttons, up : SUBSET Buttons] : e.down = {} \/ e.up = {}}
KeyElement == [type : {"element"}, element : Keys \cup Buttons, value : {0, 1}]
MotionElement == [type : {"element"}, element : Valuators, value : Int]
StickElement ==
  [type : {"element"}, element : {"stick_y"}, value : -PadMax - 1 .. PadMax]

Event ==
  CASE dev.kind = "x11" -> X11Key \cup X11Button \cup X11Motion
    [] dev.kind = "raw" -> IF dev.sort = "keyboard" THEN VKeyEvent ELSE RawMouseEvent
    [] dev.kind = "hidm" -> KeyElement \cup MotionElement
                             \cup (IF dev.sort = "pad" THEN StickElement ELSE {})

(* Which of the axes that are kept an event writes, and what.               *)
Writes(e, c) ==
  \/ e.type = "x11_key" /\ MapKeyCode(e.key) = c
  \/ e.type = "x11_button" /\ MapButtonCode(e.detail) = c
  \/ e.type = "vkey" /\ RawCode(e.vkey, e.isE0) = c
  \/ e.type = "raw_mouse" /\ \E b \in e.down \cup e.up : RawButton(b) = c
  \/ e.type = "element" /\ e.element \in DOMAIN AxisMap /\ AxisMap[e.element] = c
Written(e) ==
  CASE e.type = "element" -> IF e.element = "stick_y" THEN PadValue(e.value) ELSE e.value
    [] e.type = "raw_mouse" -> IF e.down # {} THEN 1 ELSE 0
    [] OTHER -> IF e.down THEN 1 ELSE 0

(* The value c has when everything in s is read into f, and whether there   *)
(* is such an axis then.                                                    *)
ComesIn(s, f, c, v) ==
  \/ \E k \in DOMAIN s :
        /\ Writes(s[k], c) /\ Written(s[k]) = v
        /\ \A j \in DOMAIN s : k < j => ~Writes(s[j], c)
  \/ /\ \A j \in DOMAIN s : ~Writes(s[j], c)
     /\ c \in DOMAIN f /\ f[c] = v
HeardIn(s, f, c) == c \in DOMAIN f \/ \E k \in DOMAIN s : Writes(s[k], c)
Comes(c, v) == ComesIn(queue, next, c, v)
Heard(c) == HeardIn(queue, next, c)

(* How far an event moves an axis of motion.                                *)
Delta(e, a) ==
  CASE e.type = "x11_motion" ->
         IF \E n \in e.mask : AxisOf(n) = a
         THEN RawValue(e, CHOOSE n \in e.mask : AxisOf(n) = a) ELSE 0
    [] e.type = "raw_mouse" ->
         IF a = "mouse_x" THEN e.x ELSE IF a = "mouse_y" THEN e.y
         ELSE IF e.wheel THEN e.data ELSE 0
    [] e.type = "element" ->
         IF e.element \in DOMAIN AxisMap /\ AxisMap[e.element] = a THEN e.value ELSE 0
    [] OTHER -> 0

(* The axes, as far as a commit depends on them.                            *)
Frames ==
  /\ queue \in Seq(Event) /\ moved \in [Motion -> Int]
  /\ shown \in [Motion -> Int] /\ lost \in [Motion -> Int]
  /\ \A a \in (Motion \cup {Stick}) \cap DOMAIN next :
        Positive(a) \in DOMAIN next /\ Negative(a) \in DOMAIN next
  /\ "pad_dpad_y" \in DOMAIN next => {"pad_dpad_up", "pad_dpad_down"} \subseteq DOMAIN next
  /\ \A c \in Codes \cap DOMAIN next : next[c] \in {0, 1}
  /\ dev.kind # "hidm" => \A a \in Motion : lost[a] = 0

(* What was moved is what was shown, is in the next frame, was lost, or     *)
(* waits: sums is the running total over the events that wait.              *)
Counted(a) == a \in Motion \cap DOMAIN next /\ ~(dev.absolute /\ a # "mouse_wheel")
Adds(sums, s, a) ==
  /\ sums \in [0 .. Len(s) -> Int]
  /\ \A k \in 1 .. Len(s) :
        Delta(s[k], a) \in Int /\ sums[k] = sums[k - 1] + Delta(s[k], a)
Accounted(a) ==
  \E sums \in [0 .. Len(queue) -> Int] :
     /\ Adds(sums, queue, a)
     /\ sums[0] = shown[a] + next[a] + lost[a]
     /\ sums[Len(queue)] = moved[a]
Balanced == \A a \in Motion : Counted(a) => Accounted(a)

(* An axis comes to be pressed only for a key or button that is held, and   *)
(* comes to be pressed for one that has it alone; the stick's comes to tell *)
(* where the stick is.                                                      *)
Items == Keys \cup Buttons
Alone(i) == \A j \in Items : CodeOf(j) = CodeOf(i) => j = i
Follows ==
  /\ \A c \in Codes \ torn : Comes(c, 1) => \E i \in held : CodeOf(i) = c
  /\ \A i \in held : CodeOf(i) \notin torn \cup {"none"} =>
        Heard(CodeOf(i)) /\ (Alone(i) => Comes(CodeOf(i), 1))
  /\ dev.sort = "pad" => Comes(Stick, PadValue(position))

LEMMA DevFacts ==
  ASSUME dev \in Devices
  PROVE  /\ dev.kind \in {"x11", "raw", "hidm"}
         /\ dev.sort \in {"keyboard", "mouse", "pad"}
         /\ dev.sort = "pad" => dev.kind = "hidm"
         /\ dev.sort = "mouse" => dev.buttons \in 2 .. 4
         /\ dev.absolute => dev.kind # "hidm"
BY PipelineAssumption DEF PipelineAssumption, DeviceType

(* Everything about a device follows from what it is.                       *)
LEMMA DevFixed ==
  ASSUME UNCHANGED dev
  PROVE  /\ Keys' = Keys /\ Buttons' = Buttons /\ Valuators' = Valuators
         /\ Items' = Items /\ Event' = Event
BY DEF Keys, Buttons, Valuators, Items, Event, X11Key, X11Button, X11Motion,
       VKeyEvent, RawMouseEvent, KeyElement, MotionElement, StickElement

LEMMA AxisMapFixed ==
  ASSUME UNCHANGED dev
  PROVE  AxisMap' = AxisMap /\ RawAxes' = RawAxes /\ HidmAxes' = HidmAxes
<1>1. Keys' = Keys /\ Buttons' = Buttons /\ Valuators' = Valuators
  BY DevFixed
<1>2. MouseElements' = MouseElements
  BY <1>1 DEF MouseElements
<1>3. KeyboardElements' = KeyboardElements
  BY <1>1 DEF KeyboardElements
<1>4. AxisMap' = AxisMap
  BY <1>2, <1>3 DEF AxisMap
<1> QED
  BY <1>4 DEF RawAxes, HidmAxes

(* The axis of each element of a macOS device.                              *)
LEMMA ElementAxes ==
  ASSUME dev \in Devices, dev.kind = "hidm"
  PROVE  /\ dev.sort = "mouse" =>
              /\ DOMAIN AxisMap = Buttons \cup (Valuators \ {"horizontal"})
              /\ \A e \in Buttons : AxisMap[e] \in ButtonCodes
              /\ \A e \in Valuators \ {"horizontal"} : AxisMap[e] = AxisOf(e)
         /\ dev.sort = "keyboard" =>
              /\ DOMAIN AxisMap = {"comma", "keypad_comma", "letter"}
              /\ \A e \in DOMAIN AxisMap : AxisMap[e] \in KeyCodes
         /\ dev.sort = "pad" =>
              /\ DOMAIN AxisMap = {"stick_y", "dpad_up", "dpad_down"}
              /\ AxisMap["stick_y"] = Stick
              /\ AxisMap["dpad_up"] = "pad_dpad_up"
              /\ AxisMap["dpad_down"] = "pad_dpad_down"
<1>1. ASSUME dev.sort = "mouse"
      PROVE  /\ DOMAIN AxisMap = Buttons \cup (Valuators \ {"horizontal"})
             /\ \A e \in Buttons : AxisMap[e] \in ButtonCodes
             /\ \A e \in Valuators \ {"horizontal"} : AxisMap[e] = AxisOf(e)
  <2>1. AxisMap = MouseElements
    BY <1>1 DEF AxisMap
  <2>2. /\ Buttons \subseteq {"left", "right", "middle", "fourth"}
        /\ Valuators \subseteq {"x", "y", "horizontal", "wheel"}
    BY <1>1 DEF Buttons, Valuators, Valuator
  <2>3. /\ DOMAIN MouseElements = Buttons \cup (Valuators \ {"horizontal"})
        /\ \A e \in Buttons : MouseElements[e] \in ButtonCodes
    BY <2>2 DEF MouseElements, ButtonCodes
  <2>4. \A e \in Valuators \ {"horizontal"} : MouseElements[e] = AxisOf(e)
    BY <2>2 DEF MouseElements, AxisOf
  <2> QED
    BY <2>1, <2>3, <2>4
<1>2. ASSUME dev.sort = "keyboard"
      PROVE  /\ DOMAIN AxisMap = {"comma", "keypad_comma", "letter"}
             /\ \A e \in DOMAIN AxisMap : AxisMap[e] \in KeyCodes
  BY <1>2 DEF AxisMap, Keys, KeyboardElements, LetterElements, KeyCodes
<1>3. ASSUME dev.sort = "pad"
      PROVE  /\ DOMAIN AxisMap = {"stick_y", "dpad_up", "dpad_down"}
             /\ AxisMap["stick_y"] = Stick
             /\ AxisMap["dpad_up"] = "pad_dpad_up"
             /\ AxisMap["dpad_down"] = "pad_dpad_down"
  BY <1>3 DEF AxisMap, GamepadElements, Stick
<1> QED
  BY <1>1, <1>2, <1>3

(* The axis of an item.                                                     *)
LEMMA CodeOfItem ==
  ASSUME dev \in Devices, layout \in {1, 2}, NEW i \in Items
  PROVE  CodeOf(i) \in Codes \cup {"none"}
<1>1. CASE dev.kind = "x11"
  BY <1>1, DevFacts DEF CodeOf, Items, Keys, Buttons, MapKeyCode, Letter,
     MapButtonCode, ButtonDetail, Codes, KeyCodes, ButtonCodes
<1>2. CASE dev.kind = "raw"
  <2>1. CASE i \in Keys
    <3>1. VKey(i) \in {"NUMPAD7", "HOME", "CONTROL", "Q", "A", "MEDIA"}
      BY DEF VKey
    <3>2. RawCode(VKey(i), IsE0(i)) \in Codes \cup {"none"}
      BY <3>1 DEF RawCode, MapToInputCode, Fixup, VKeyCodes, Codes, KeyCodes
    <3> QED
      BY <1>2, <2>1, <3>2 DEF CodeOf
  <2>2. CASE i \notin Keys
    BY <1>2, <2>2, DevFacts DEF CodeOf, Items, Keys, Buttons, RawButton,
       Codes, ButtonCodes
  <2> QED
    BY <2>1, <2>2
<1>3. CASE dev.kind = "hidm"
  <2>1. i \in DOMAIN AxisMap => AxisMap[i] \in Codes
    <3>1. CASE dev.sort = "mouse"
      <4>1. i \in Buttons
        BY <3>1 DEF Items, Keys
      <4> QED
        BY <1>3, <3>1, <4>1, ElementAxes DEF Codes
    <3>2. CASE dev.sort = "keyboard"
      BY <1>3, <3>2, ElementAxes DEF Codes
    <3>3. CASE dev.sort = "pad"
      <4>1. i \in {"dpad_up", "dpad_down"}
        BY <3>3 DEF Items, Keys, Buttons
      <4> QED
        BY <1>3, <3>3, <4>1, ElementAxes DEF Codes, ButtonCodes
    <3> QED
      BY <3>1, <3>2, <3>3, DevFacts
  <2> QED
    BY <1>3, <2>1 DEF CodeOf
<1> QED
  BY <1>1, <1>2, <1>3, DevFacts

-----------------------------------------------------------------------------
(* What an update does to the next frame.                                   *)

Inv == TypeOK /\ Frames /\ Balanced /\ Follows

(* f, the next frame behind the event e, has the same axes but for those    *)
(* of keys and buttons, and only those that e writes or moves are changed.  *)
Renewed(e, f) ==
  /\ f = [a \in DOMAIN f |-> f[a]] /\ \A a \in DOMAIN f : f[a] \in Int
  /\ DOMAIN next \subseteq DOMAIN f /\ DOMAIN f \subseteq DOMAIN next \cup Codes
  /\ dev.kind # "x11" => DOMAIN f = DOMAIN next
  /\ dev.sort = "pad" => \A a \in DOMAIN f : f[a] \in PadRange
  /\ \A c \in Codes \cap DOMAIN f : f[c] \in {0, 1}
  /\ \A c \in Kept : Writes(e, c) => c \in DOMAIN f /\ f[c] = Written(e)
  /\ \A c \in Kept : ~Writes(e, c) /\ c \in DOMAIN f =>
        c \in DOMAIN next /\ f[c] = next[c]
  /\ \A a \in Motion : Counted(a) =>
        f[a] = (IF e.type = "element" /\ Writes(e, a) THEN 0 ELSE next[a]) + Delta(e, a)

(* The update of a key or button writes one axis, which may be new.         *)
LEMMA LateRenewed ==
  ASSUME TypeOK, Frames, NEW e,
         e.type \in {"x11_key", "x11_button", "vkey"}, e.down \in BOOLEAN,
         NEW code \in Codes \cup {"none"},
         \A c : Writes(e, c) <=> code = c,
         dev.kind # "x11" => code \in DOMAIN next \cup {"none"},
         dev.sort # "pad"
  PROVE  Renewed(e, SetLate(next, code, e.down))
<1> DEFINE f == SetLate(next, code, e.down)
<1> SUFFICES Renewed(e, f)
  OBVIOUS
<1>1. /\ Written(e) = IF e.down THEN 1 ELSE 0
      /\ \A a : Delta(e, a) = 0
      /\ e.type # "element"
  BY DEF Written, Delta
<1>2. /\ next = [a \in DOMAIN next |-> next[a]] /\ "none" \notin DOMAIN next
      /\ \A a \in DOMAIN next : next[a] \in Int
  BY DEF TypeOK
<1>3. CASE code = "none"
  <2>1. f = next
    BY <1>3 DEF SetLate
  <2>2. \A c \in Kept : ~Writes(e, c)
    BY <1>3 DEF Kept, Codes, KeyCodes, ButtonCodes, Stick
  <2> QED
    BY <1>1, <1>2, <2>1, <2>2 DEF Renewed, Frames, Counted
<1>4. CASE code \in Codes
  <2>1. code # "none" /\ code \notin Motion
    BY <1>4 DEF Codes, KeyCodes, ButtonCodes, Motion
  <2>2. /\ f = [a \in DOMAIN f |-> f[a]] /\ DOMAIN f = DOMAIN next \cup {code}
        /\ f[code] = Written(e) /\ \A a \in DOMAIN next \ {code} : f[a] = next[a]
    BY <1>1, <2>1 DEF SetLate, Put
  <2>3. Written(e) \in {0, 1}
    BY <1>1
  <2>4. \A a \in DOMAIN f : f[a] \in Int
    <3> HIDE DEF f
    <3> QED
      BY <1>2, <2>2, <2>3
  <2>5. \A c \in Codes \cap DOMAIN f : f[c] \in {0, 1}
    <3> HIDE DEF f
    <3> QED
      BY <2>2, <2>3 DEF Frames
  <2>6. /\ \A c \in Kept : Writes(e, c) => c \in DOMAIN f /\ f[c] = Written(e)
        /\ \A c \in Kept : ~Writes(e, c) /\ c \in DOMAIN f =>
              c \in DOMAIN next /\ f[c] = next[c]
    <3> HIDE DEF f
    <3> QED
      BY <2>2
  <2>7. \A a \in Motion : Counted(a) => f[a] = next[a] + Delta(e, a)
    <3> HIDE DEF f
    <3> QED
      BY <1>1, <1>2, <2>1, <2>2 DEF Counted
  <2>8. dev.kind # "x11" => DOMAIN f = DOMAIN next
    <3> HIDE DEF f
    <3> QED
      BY <2>1, <2>2
  <2> HIDE DEF f
  <2> QED
    BY <1>1, <1>4, <2>2, <2>4, <2>5, <2>6, <2>7, <2>8 DEF Renewed
<1> QED
  BY <1>3, <1>4

LEMMA KeyRenewed ==
  ASSUME TypeOK, Frames, NEW e \in Event,
         e.type \in {"x11_key", "x11_button", "vkey"}
  PROVE  Renewed(e, Updated(e))
<1>1. dev \in Devices /\ layout \in {1, 2}
  BY DEF TypeOK
<1>2. CASE e.type = "x11_key"
  <2>1. dev.kind = "x11" /\ e.key \in Keys /\ e.down \in BOOLEAN
    BY <1>1, <1>2, DevFacts DEF Event, X11Key, X11Button, X11Motion, VKeyEvent,
       RawMouseEvent, KeyElement, MotionElement, StickElement
  <2>2. MapKeyCode(e.key) \in Codes \cup {"none"}
    BY DEF MapKeyCode, Letter, Codes, KeyCodes
  <2>3. \A c : Writes(e, c) <=> MapKeyCode(e.key) = c
    BY <1>2 DEF Writes
  <2>4. Updated(e) = SetLate(next, MapKeyCode(e.key), e.down)
    BY <1>2 DEF Updated
  <2> QED
    BY <1>1, <1>2, <2>1, <2>2, <2>3, <2>4, DevFacts, LateRenewed
<1>3. CASE e.type = "x11_button"
  <2>1. dev.kind = "x11" /\ e.detail \in {1, 2, 3, 4, 8} /\ e.down \in BOOLEAN
    BY <1>1, <1>3, DevFacts DEF Event, X11Key, X11Button, X11Motion, VKeyEvent,
       RawMouseEvent, KeyElement, MotionElement, StickElement
  <2>2. MapButtonCode(e.detail) \in Codes \cup {"none"}
    BY DEF MapButtonCode, Codes, ButtonCodes
  <2>3. \A c : Writes(e, c) <=> MapButtonCode(e.detail) = c
    BY <1>3 DEF Writes
  <2>4. Updated(e) = SetLate(next, MapButtonCode(e.detail), e.down)
    BY <1>3 DEF Updated
  <2> QED
    BY <1>1, <1>3, <2>1, <2>2, <2>3, <2>4, DevFacts, LateRenewed
<1>4. CASE e.type = "vkey"
  <2>1. dev.kind = "raw" /\ dev.sort = "keyboard" /\ e \in VKeyEvent
    BY <1>1, <1>4, DevFacts DEF Event, X11Key, X11Button, X11Motion, VKeyEvent,
       RawMouseEvent, KeyElement, MotionElement, StickElement
  <2>2. e.vkey \in {"NUMPAD7", "HOME", "CONTROL", "Q", "A", "MEDIA", "FAKE"}
        /\ e.down \in BOOLEAN
    BY <2>1 DEF VKeyEvent
  <2>3. RawCode(e.vkey, e.isE0) \in {VKeyCodes[v] : v \in DOMAIN VKeyCodes} \cup {"none"}
    BY DEF RawCode, MapToInputCode
  <2>4. {VKeyCodes[v] : v \in DOMAIN VKeyCodes} \subseteq Codes
    BY DEF VKeyCodes, Codes, KeyCodes
  <2>5. DOMAIN next = {VKeyCodes[v] : v \in DOMAIN VKeyCodes}
    BY <2>1 DEF TypeOK, Axes, RawAxes
  <2>6. \A c : Writes(e, c) <=> RawCode(e.vkey, e.isE0) = c
    BY <1>4 DEF Writes
  <2>7. Updated(e) = SetLate(next, RawCode(e.vkey, e.isE0), e.down)
    BY <1>4 DEF Updated, UpdateKeyboard
  <2> QED
    BY <1>4, <2>1, <2>2, <2>3, <2>4, <2>5, <2>6, <2>7, LateRenewed
<1> QED
  BY <1>2, <1>3, <1>4

(* A report of a mouse moves the axes of its valuators.                     *)
LEMMA AxisOfOne ==
  ASSUME NEW m \in Valuator, NEW n \in Valuator, AxisOf(m) = AxisOf(n),
         AxisOf(n) \in Motion
  PROVE  m = n
BY DEF Valuator, AxisOf, Motion

LEMMA MotionNotKept ==
  /\ Motion \cap Kept = {}
  /\ "none" \notin Motion \cup Kept /\ "pad_dpad_y" \notin Motion \cup Kept
BY DEF Motion, Kept, Codes, KeyCodes, ButtonCodes, Stick

(* The values of a report, one for each valuator in its mask.               *)
LEMMA UpToBounds ==
  ASSUME NEW mask \in SUBSET Valuator, NEW n \in mask
  PROVE  /\ Cardinality(mask) \in Nat
         /\ UpTo(mask, n) \in 1 .. Cardinality(mask)
<1> DEFINE below == {o \in mask : Number(o) <= Number(n)}
<1>1. IsFiniteSet(Valuator)
  <2>1. Valuator = {"x"} \cup {"y"} \cup {"horizontal"} \cup {"wheel"}
    BY DEF Valuator
  <2> QED
    BY <2>1, FS_Singleton, FS_Union
<1>2. IsFiniteSet(mask) /\ IsFiniteSet(below)
  BY <1>1, FS_Subset
<1>3. Number(n) \in Nat
  BY DEF Number, Valuator
<1>4. n \in below
  BY <1>3
<1>5. Cardinality(below) <= Cardinality(mask)
  BY <1>2, FS_Subset
<1>6. Cardinality(below) # 0 /\ Cardinality(below) \in Nat /\ Cardinality(mask) \in Nat
  BY <1>2, <1>4, FS_EmptySet, FS_CardinalityType
<1> QED
  BY <1>5, <1>6 DEF UpTo

LEMMA UpToOne ==
  ASSUME NEW mask \in SUBSET Valuator, NEW m \in mask, NEW n \in mask,
         UpTo(mask, m) = UpTo(mask, n)
  PROVE  m = n
<1> DEFINE below(o) == {p \in mask : Number(p) <= Number(o)}
<1>1. \A p \in Valuator : Number(p) \in Nat
  BY DEF Number, Valuator
<1>2. \A p, q \in Valuator : Number(p) = Number(q) => p = q
  BY DEF Number, Valuator
<1>3. IsFiniteSet(Valuator)
  <2>1. Valuator = {"x"} \cup {"y"} \cup {"horizontal"} \cup {"wheel"}
    BY DEF Valuator
  <2> QED
    BY <2>1, FS_Singleton, FS_Union
<1>4. ASSUME NEW p \in mask, NEW q \in mask, UpTo(mask, p) = UpTo(mask, q),
             Number(p) < Number(q)
      PROVE  FALSE
  <2>1. below(p) \subseteq below(q) /\ q \in below(q) /\ q \notin below(p)
    BY <1>1, <1>4
  <2>2. IsFiniteSet(below(q))
    BY <1>3, FS_Subset
  <2>3. Cardinality(below(p)) = Cardinality(below(q))
    BY <1>4 DEF UpTo
  <2> QED
    BY <2>1, <2>2, <2>3, FS_Subset
<1>5. Number(m) < Number(n) \/ Number(n) < Number(m) \/ Number(m) = Number(n)
  BY <1>1
<1> QED
  BY <1>2, <1>4, <1>5

LEMMA MotionRenewed ==
  ASSUME TypeOK, Frames, NEW e \in Event, e.type = "x11_motion"
  PROVE  Renewed(e, Updated(e))
<1> DEFINE f == UpdateMotion(e)
<1>1. dev \in Devices
  BY DEF TypeOK
<1>2. dev.kind = "x11" /\ e \in X11Motion
  BY <1>1, DevFacts DEF Event, X11Key, X11Button, X11Motion, VKeyEvent,
     RawMouseEvent, KeyElement, MotionElement, StickElement
<1>3. /\ e.mask \in SUBSET Valuator /\ e.values \in Seq(Int)
      /\ Len(e.values) = Cardinality(e.mask)
  BY <1>2 DEF X11Motion
<1>4. \A n \in e.mask : RawValue(e, n) \in Int
  <2> SUFFICES ASSUME NEW n \in e.mask PROVE RawValue(e, n) \in Int
    OBVIOUS
  <2>1. UpTo(e.mask, n) \in 1 .. Len(e.values)
    BY <1>3, UpToBounds
  <2> QED
    BY <1>3, <2>1 DEF RawValue
<1>5. \A c : ~Writes(e, c)
  BY DEF Writes
<1>6. ASSUME NEW a \in DOMAIN next
      PROVE  f[a] = next[a] \/ \E n \in e.mask : AxisOf(n) = a /\ f[a] = next[a] + RawValue(e, n)
  <2> DEFINE n == {v \in e.mask : AxisOf(v) = a}
  <2>1. CASE n = {} \/ a = "none"
    BY <2>1 DEF UpdateMotion
  <2>2. CASE ~(n = {} \/ a = "none")
    <3>1. (CHOOSE v \in n : TRUE) \in n
      BY <2>2
    <3>2. f[a] = next[a] + RawValue(e, CHOOSE v \in n : TRUE)
      BY <2>2 DEF UpdateMotion
    <3> QED
      BY <3>1, <3>2
  <2> QED
    BY <2>1, <2>2
<1>7. DOMAIN f = DOMAIN next /\ f = [a \in DOMAIN f |-> f[a]]
  BY DEF UpdateMotion
<1>8. \A a \in DOMAIN f : f[a] \in Int
  BY <1>4, <1>6, <1>7 DEF TypeOK
<1>9. \A c \in Kept \cap DOMAIN f : f[c] = next[c]
  <2>1. \A n \in e.mask : AxisOf(n) \in Motion \cup {"none"}
    BY DEF AxisOf, Motion
  <2> QED
    BY <1>6, <1>7, <2>1, MotionNotKept
<1>10. \A a \in Motion : Counted(a) => f[a] = next[a] + Delta(e, a)
  <2> SUFFICES ASSUME NEW a \in Motion, Counted(a)
               PROVE  f[a] = next[a] + Delta(e, a)
    OBVIOUS
  <2>1. a \in DOMAIN next /\ next[a] \in Int /\ a # "none"
    BY MotionNotKept DEF Counted, TypeOK
  <2>2. CASE \E n \in e.mask : AxisOf(n) = a
    <3>1. PICK n \in e.mask : AxisOf(n) = a
      BY <2>2
    <3>2. \A m \in e.mask : AxisOf(m) = a => m = n
      BY <1>3, <3>1, AxisOfOne
    <3>3. (CHOOSE m \in e.mask : AxisOf(m) = a) = n
      BY <3>1, <3>2
    <3>4. Delta(e, a) = RawValue(e, n)
      BY <2>2, <3>3 DEF Delta
    <3>5. {v \in e.mask : AxisOf(v) = a} = {n}
      BY <3>1, <3>2
    <3>6. f[a] = next[a] + RawValue(e, n)
      BY <2>1, <3>5 DEF UpdateMotion
    <3> QED
      BY <3>4, <3>6
  <2>3. CASE ~\E n \in e.mask : AxisOf(n) = a
    <3>1. Delta(e, a) = 0
      BY <2>3 DEF Delta
    <3> QED
      BY <1>6, <2>1, <2>3, <3>1
  <2> QED
    BY <2>2, <2>3
<1>11. Updated(e) = f
  BY DEF Updated
<1>12. \A c \in Codes \cap DOMAIN f : f[c] \in {0, 1}
  BY <1>7, <1>9 DEF Frames, Kept
<1>13. dev.sort # "pad"
  BY <1>1, <1>2, DevFacts
<1> HIDE DEF f
<1>14. Renewed(e, f)
  BY <1>2, <1>5, <1>7, <1>8, <1>9, <1>10, <1>12, <1>13 DEF Renewed
<1> QED
  BY <1>11, <1>14

LEMMA RawMouseRenewed ==
  ASSUME TypeOK, Frames, NEW e \in Event, e.type = "raw_mouse"
  PROVE  Renewed(e, Updated(e))
<1> DEFINE f == UpdateMouse(e)
<1>1. dev \in Devices
  BY DEF TypeOK
<1>2. dev.kind = "raw" /\ dev.sort = "mouse" /\ e \in RawMouseEvent
  BY <1>1, DevFacts DEF Event, X11Key, X11Button, X11Motion, VKeyEvent,
     RawMouseEvent, KeyElement, MotionElement, StickElement
<1>3. /\ e.x \in Int /\ e.y \in Int /\ e.data \in Int /\ e.wheel \in BOOLEAN
      /\ e.down \subseteq Buttons /\ e.up \subseteq Buttons
      /\ e.down = {} \/ e.up = {}
  BY <1>2 DEF RawMouseEvent
<1>4. \A b \in Buttons : RawButton(b) \in ButtonCodes /\ RawButton(b) \in DOMAIN next
  <2>1. DOMAIN next = RawAxes
    BY <1>2 DEF TypeOK, Axes
  <2>2. dev.buttons \in 2 .. 4
    BY <1>1, <1>2, DevFacts
  <2>3. \A b \in Buttons : RawButton(b) \in RawAxes
    BY <1>2, <2>2 DEF RawAxes, RawButton, Buttons
  <2>4. \A b \in Buttons : RawButton(b) \in ButtonCodes
    BY <1>2 DEF RawButton, Buttons, ButtonCodes
  <2> QED
    BY <2>1, <2>3, <2>4
<1>5. DOMAIN f = DOMAIN next /\ f = [a \in DOMAIN f |-> f[a]]
  <2>1. {RawButton(b) : b \in e.down \cup e.up} \subseteq DOMAIN next
    BY <1>3, <1>4
  <2> QED
    BY <2>1 DEF UpdateMouse
<1>6. ASSUME NEW a \in DOMAIN f
      PROVE  f[a] = CASE a = "mouse_x" -> next[a] + Travelled(e.x)
             [] a = "mouse_y" -> next[a] + Travelled(e.y)
             [] a = "mouse_wheel" -> next[a] + IF e.wheel THEN e.data ELSE 0
             [] \E b \in e.down : RawButton(b) = a -> 1
             [] \E b \in e.up \ e.down : RawButton(b) = a -> 0
             [] OTHER -> next[a]
  BY DEF UpdateMouse
<1>7. \A c \in ButtonCodes : c \in Kept /\ c \notin Motion
  BY MotionNotKept DEF Kept, Codes
<1> HIDE DEF f
<1>8. ASSUME NEW c \in DOMAIN f, c \notin Motion
      PROVE  /\ Writes(e, c) => f[c] = Written(e)
             /\ ~Writes(e, c) => f[c] = next[c]
  <2>1. Writes(e, c) <=> \E b \in e.down \cup e.up : RawButton(b) = c
    BY DEF Writes
  <2>2. Written(e) = IF e.down # {} THEN 1 ELSE 0
    BY DEF Written
  <2>3. c \notin {"mouse_x", "mouse_y", "mouse_wheel"}
    BY <1>8 DEF Motion
  <2>4. CASE e.down = {}
    BY <1>3, <1>6, <1>8, <2>1, <2>2, <2>3, <2>4
  <2>5. CASE e.up = {}
    BY <1>3, <1>6, <1>8, <2>1, <2>2, <2>3, <2>5
  <2> QED
    BY <1>3, <2>4, <2>5
<1>9. ASSUME NEW a \in Motion \cap DOMAIN f
      PROVE  /\ a = "mouse_x" => f[a] = next[a] + Travelled(e.x)
             /\ a = "mouse_y" => f[a] = next[a] + Travelled(e.y)
             /\ a = "mouse_wheel" => f[a] = next[a] + IF e.wheel THEN e.data ELSE 0
  <2>1. ~\E b \in e.down \cup e.up : RawButton(b) = a
    BY <1>3, <1>4, <1>7, <1>9
  <2> QED
    BY <1>6, <1>9, <2>1
<1>10. Travelled(e.x) \in Int /\ Travelled(e.y) \in Int
  <2>1. \A p \in Int : p \div 2 \in Int
    OBVIOUS
  <2> QED
    BY <1>3, <2>1 DEF Travelled
<1>11. \A a \in DOMAIN f : f[a] \in Int
  <2>1. \A a \in DOMAIN f : next[a] \in Int
    BY <1>5 DEF TypeOK
  <2>2. \A a \in DOMAIN f \ Motion : f[a] \in Int
    <3>1. Written(e) \in Int
      BY DEF Written
    <3> QED
      BY <1>8, <2>1, <3>1
  <2>3. \A a \in DOMAIN f \cap Motion : f[a] \in Int
    BY <1>3, <1>9, <1>10, <2>1 DEF Motion
  <2> QED
    BY <2>2, <2>3
<1>12. \A c \in Kept : Writes(e, c) => c \in DOMAIN f
  BY <1>3, <1>4, <1>5 DEF Writes
<1>13. \A c \in Codes \cap DOMAIN f : f[c] \in {0, 1}
  <2>1. Written(e) \in {0, 1}
    BY DEF Written
  <2> QED
    BY <1>5, <1>8, <2>1, MotionNotKept DEF Frames, Kept
<1>14. \A a \in Motion : Counted(a) => f[a] = next[a] + Delta(e, a)
  <2> SUFFICES ASSUME NEW a \in Motion, Counted(a) PROVE f[a] = next[a] + Delta(e, a)
    OBVIOUS
  <2>1. a \in DOMAIN f /\ ~(dev.absolute /\ a # "mouse_wheel")
    BY <1>5 DEF Counted
  <2>2. ~dev.absolute => Travelled(e.x) = e.x /\ Travelled(e.y) = e.y
    BY DEF Travelled
  <2> QED
    BY <1>9, <2>1, <2>2 DEF Motion, Delta
<1>15. Renewed(e, f)
  BY <1>2, <1>5, <1>8, <1>11, <1>12, <1>13, <1>14, MotionNotKept DEF Renewed
<1>16. Updated(e) = f
  BY DEF Updated, f
<1> QED
  BY <1>15, <1>16

LEMMA PadValueRange ==
  ASSUME NEW raw \in -PadMax - 1 .. PadMax
  PROVE  PadValue(raw) \in PadRange
BY PipelineAssumption DEF PipelineAssumption, PadValue, ApplyDeadzone, PadRange

(* An element of a macOS device sets its axis.                              *)
LEMMA ElementRenewed ==
  ASSUME TypeOK, Frames, NEW e \in Event, e.type = "element"
  PROVE  Renewed(e, Updated(e))
<1> DEFINE f == OnInput(e.element, e.value)
           axis == AxisMap[e.element]
           v == IF axis = Stick THEN PadValue(e.value) ELSE e.value
<1>1. dev \in Devices
  BY DEF TypeOK
<1>2. /\ dev.kind = "hidm"
      /\ \/ e.element \in Items /\ e.value \in {0, 1}
         \/ e.element \in Valuators /\ e.value \in Int
         \/ dev.sort = "pad" /\ e.element = "stick_y" /\ e.value \in -PadMax - 1 .. PadMax
  BY <1>1, DevFacts DEF Event, X11Key, X11Button, X11Motion, VKeyEvent,
     RawMouseEvent, KeyElement, MotionElement, StickElement, Items
<1>3. DOMAIN next = HidmAxes /\ next = [a \in DOMAIN next |-> next[a]]
  BY <1>2 DEF TypeOK, Axes
<1>4. \A c : Writes(e, c) <=> e.element \in DOMAIN AxisMap /\ axis = c
  BY DEF Writes
<1>5. Updated(e) = f
  BY DEF Updated
<1>6. CASE e.element \notin DOMAIN AxisMap
  <2>1. f = next /\ \A c : ~Writes(e, c)
    BY <1>4, <1>6 DEF OnInput
  <2>2. \A a : Delta(e, a) = 0
    BY <1>6 DEF Delta
  <2> QED
    BY <1>3, <1>5, <2>1, <2>2 DEF Renewed, TypeOK, Frames, Counted
<1>7. CASE e.element \in DOMAIN AxisMap
  <2>1. axis \in DOMAIN next
    BY <1>3, <1>7 DEF HidmAxes
  <2>2. /\ DOMAIN f = DOMAIN next /\ f = [a \in DOMAIN f |-> f[a]]
        /\ f[axis] = v /\ \A a \in DOMAIN next \ {axis} : f[a] = next[a]
    BY <1>7, <2>1 DEF OnInput, Put, Stick
  <2>3. axis = Stick => e.element = "stick_y" /\ dev.sort = "pad"
    BY <1>1, <1>2, <1>7, ElementAxes, DevFacts
    DEF Stick, KeyCodes, ButtonCodes, AxisOf, Valuators, Valuator
  <2>4. e.element = "stick_y" => axis = Stick /\ dev.sort = "pad"
    BY <1>1, <1>2, <1>7, ElementAxes, DevFacts
    DEF Buttons, Valuators, Valuator
  <2>5. axis \in Codes => e.value \in {0, 1}
    <3>1. CASE e.element \in Valuators
      <4>1. dev.sort = "mouse" /\ e.element \in Valuators \ {"horizontal"}
        BY <1>1, <1>2, <1>7, <3>1, ElementAxes DEF Valuators, Valuator, Buttons
      <4>2. axis = AxisOf(e.element)
        BY <1>1, <1>2, <4>1, ElementAxes
      <4> QED
        BY <4>2, MotionNotKept, <4>1 DEF AxisOf, Valuators, Valuator, Motion, Kept
    <3>2. CASE e.element = "stick_y"
      BY <2>4, <3>2, MotionNotKept DEF Stick, Codes, KeyCodes, ButtonCodes
    <3> QED
      BY <1>2, <3>1, <3>2
  <2>6. v = Written(e)
    BY <2>3, <2>4 DEF Written
  <2>7. v \in Int /\ (dev.sort = "pad" => v \in PadRange)
    <3>1. CASE axis = Stick
      <4>1. "stick_y" \notin Items \cup Valuators
        BY <2>3, <3>1 DEF Items, Keys, Buttons, Valuators
      <4>2. e.value \in -PadMax - 1 .. PadMax
        BY <1>2, <2>3, <3>1, <4>1
      <4> QED
        BY <3>1, <4>2, PadValueRange DEF PadRange
    <3>2. CASE axis # Stick
      BY <3>2, <1>2, <2>4, PipelineAssumption DEF PipelineAssumption, PadRange, Valuators
    <3> QED
      BY <3>1, <3>2
  <2>8. \A a \in Motion : Counted(a) =>
           f[a] = (IF Writes(e, a) THEN 0 ELSE next[a]) + Delta(e, a)
    <3> SUFFICES ASSUME NEW a \in Motion, Counted(a)
                 PROVE  f[a] = (IF Writes(e, a) THEN 0 ELSE next[a]) + Delta(e, a)
      OBVIOUS
    <3>1. a \in DOMAIN next /\ next[a] \in Int /\ a # Stick
      BY MotionNotKept DEF Counted, TypeOK, Kept
    <3>2. Delta(e, a) = IF axis = a THEN e.value ELSE 0
      BY <1>7 DEF Delta
    <3>3. axis = a => v = e.value
      BY <3>1
    <3>4. CASE axis = a
      BY <1>4, <1>7, <2>2, <2>7, <3>2, <3>3, <3>4
    <3>5. CASE axis # a
      BY <1>4, <2>2, <3>1, <3>2, <3>5
    <3> QED
      BY <3>4, <3>5
  <2> HIDE DEF f, v, axis
  <2>9. \A c \in Codes \cap DOMAIN f : f[c] \in {0, 1}
    <3>1. axis \in Codes => v \in {0, 1}
      BY <2>5 DEF v, Codes, KeyCodes, ButtonCodes, Stick
    <3> QED
      BY <2>2, <3>1 DEF Frames
  <2>10. \A a \in DOMAIN f : f[a] \in Int
    BY <2>2, <2>7 DEF TypeOK
  <2>11. dev.sort = "pad" => \A a \in DOMAIN f : f[a] \in PadRange
    BY <2>2, <2>7 DEF TypeOK
  <2>12. \A c \in Kept : Writes(e, c) => c \in DOMAIN f /\ f[c] = Written(e)
    BY <1>4, <2>1, <2>2, <2>6
  <2>13. \A c \in Kept : ~Writes(e, c) /\ c \in DOMAIN f =>
            c \in DOMAIN next /\ f[c] = next[c]
    BY <1>4, <1>7, <2>2
  <2>14. Renewed(e, f)
    BY <2>2, <2>8, <2>9, <2>10, <2>11, <2>12, <2>13 DEF Renewed
  <2> QED
    BY <1>5, <2>14
<1> QED
  BY <1>6, <1>7

LEMMA UpdatedRenewed ==
  ASSUME TypeOK, Frames, NEW e \in Event
  PROVE  Renewed(e, Updated(e))
<1>1. e.type \in {"x11_key", "x11_button", "x11_motion", "vkey", "raw_mouse", "element"}
  BY DevFacts DEF TypeOK, Event, X11Key, X11Button, X11Motion, VKeyEvent,
     RawMouseEvent, KeyElement, MotionElement, StickElement
<1> QED
  BY <1>1, KeyRenewed, MotionRenewed, RawMouseRenewed, ElementRenewed

-----------------------------------------------------------------------------
(* Events that are queued and read.                                         *)

LEMMA ConcatElements ==
  ASSUME NEW S, NEW s \in Seq(S), NEW t \in Seq(S)
  PROVE  /\ Len(s) \in Nat /\ Len(t) \in Nat
         /\ DOMAIN s = 1 .. Len(s) /\ DOMAIN t = 1 .. Len(t)
         /\ s \o t \in Seq(S) /\ Len(s \o t) = Len(s) + Len(t)
         /\ DOMAIN (s \o t) = 1 .. Len(s) + Len(t)
         /\ \A k \in 1 .. Len(s) : (s \o t)[k] = s[k]
         /\ \A k \in 1 .. Len(t) : (s \o t)[Len(s) + k] = t[k]
<1>1. /\ Len(s) \in Nat /\ Len(t) \in Nat
      /\ DOMAIN s = 1 .. Len(s) /\ DOMAIN t = 1 .. Len(t)
  BY LenProperties
<1>2. s \o t \in Seq(S) /\ Len(s \o t) = Len(s) + Len(t)
  BY ConcatProperties
<1>3. \A i \in 1 .. Len(s) + Len(t) :
         (s \o t)[i] = IF i <= Len(s) THEN s[i] ELSE t[i - Len(s)]
  BY ConcatProperties
<1>4. DOMAIN (s \o t) = 1 .. Len(s) + Len(t)
  BY <1>2, LenProperties
<1>5. \A k \in 1 .. Len(s) : (s \o t)[k] = s[k]
  BY <1>1, <1>3
<1>6. ASSUME NEW k \in 1 .. Len(t) PROVE (s \o t)[Len(s) + k] = t[k]
  <2>1. /\ Len(s) + k \in 1 .. Len(s) + Len(t) /\ ~(Len(s) + k <= Len(s))
        /\ Len(s) + k - Len(s) = k
    BY <1>1
  <2> QED
    BY <1>3, <2>1
<1> QED
  BY <1>1, <1>2, <1>4, <1>5, <1>6

LEMMA TailElements ==
  ASSUME NEW S, NEW s \in Seq(S), s # <<>>
  PROVE  /\ DOMAIN s = 1 .. Len(s) /\ Len(s) \in Nat \ {0} /\ Head(s) = s[1]
         /\ Head(s) \in S /\ Tail(s) \in Seq(S) /\ Len(Tail(s)) = Len(s) - 1
         /\ DOMAIN Tail(s) = 1 .. Len(s) - 1
         /\ \A k \in 1 .. Len(s) - 1 : Tail(s)[k] = s[k + 1]
BY HeadTailProperties, LenProperties, EmptySeq

LEMMA ComesConcat ==
  ASSUME NEW S, NEW s \in Seq(S), NEW t \in Seq(S), NEW f, NEW c, NEW v,
         \A k \in DOMAIN t : ~Writes(t[k], c)
  PROVE  /\ ComesIn(s \o t, f, c, v) <=> ComesIn(s, f, c, v)
         /\ HeardIn(s, f, c) => HeardIn(s \o t, f, c)
<1> DEFINE u == s \o t
<1>1. /\ Len(s) \in Nat /\ Len(t) \in Nat
      /\ DOMAIN s = 1 .. Len(s) /\ DOMAIN t = 1 .. Len(t)
      /\ DOMAIN u = 1 .. Len(s) + Len(t)
      /\ \A k \in 1 .. Len(s) : u[k] = s[k]
      /\ \A k \in 1 .. Len(t) : u[Len(s) + k] = t[k]
  BY ConcatElements
<1> HIDE DEF u
<1>2. \A k \in DOMAIN s : k \in DOMAIN u /\ u[k] = s[k]
  BY <1>1
<1>3. ASSUME NEW k \in DOMAIN u, Writes(u[k], c)
      PROVE  k \in DOMAIN s /\ u[k] = s[k]
  <2>1. k \in 1 .. Len(s) \/ k - Len(s) \in 1 .. Len(t)
    BY <1>1
  <2>2. CASE k - Len(s) \in 1 .. Len(t)
    <3>1. u[Len(s) + (k - Len(s))] = t[k - Len(s)] /\ Len(s) + (k - Len(s)) = k
      BY <1>1, <2>2
    <3> QED
      BY <1>1, <1>3, <2>2, <3>1
  <2> QED
    BY <1>1, <2>1, <2>2
<1>4. ComesIn(u, f, c, v) <=> ComesIn(s, f, c, v)
  BY <1>2, <1>3 DEF ComesIn
<1>5. HeardIn(s, f, c) => HeardIn(u, f, c)
  BY <1>2 DEF HeardIn
<1> QED
  BY <1>4, <1>5 DEF u

LEMMA ComesLast ==
  ASSUME NEW S, NEW s \in Seq(S), NEW t \in Seq(S),
         NEW f, NEW c, NEW v
  PROVE  Len(t) = 1 /\ Writes(t[1], c) =>
           /\ ComesIn(s \o t, f, c, v) <=> Written(t[1]) = v
           /\ HeardIn(s \o t, f, c)
<1> DEFINE u == s \o t
<1>1. /\ Len(s) \in Nat /\ Len(t) \in Nat
      /\ DOMAIN s = 1 .. Len(s) /\ DOMAIN t = 1 .. Len(t)
      /\ DOMAIN u = 1 .. Len(s) + Len(t)
      /\ \A k \in 1 .. Len(s) : u[k] = s[k]
      /\ \A k \in 1 .. Len(t) : u[Len(s) + k] = t[k]
  BY ConcatElements
<1> HIDE DEF u
<1> SUFFICES ASSUME Len(t) = 1, Writes(t[1], c)
             PROVE  /\ ComesIn(u, f, c, v) <=> Written(t[1]) = v
                    /\ HeardIn(u, f, c)
  BY DEF u
<1>2. /\ Len(s) \in Nat /\ DOMAIN u = 1 .. Len(s) + 1 /\ u[Len(s) + 1] = t[1]
  BY <1>1
<1>3. \A k \in DOMAIN u : k # Len(s) + 1 => k < Len(s) + 1
  BY <1>2
<1>4. \A k \in DOMAIN u : ~(Len(s) + 1 < k)
  BY <1>2
<1>5. Len(s) + 1 \in DOMAIN u
  BY <1>2
<1>6. ComesIn(u, f, c, v) <=> Written(t[1]) = v
  BY <1>2, <1>3, <1>4, <1>5 DEF ComesIn
<1>7. HeardIn(u, f, c)
  BY <1>2, <1>5 DEF HeardIn
<1> QED
  BY <1>6, <1>7

LEMMA ComesTail ==
  ASSUME NEW S, NEW s \in Seq(S), s # <<>>, NEW f, NEW g, NEW c, NEW v,
         DOMAIN f \subseteq DOMAIN g,
         Writes(Head(s), c) => c \in DOMAIN g /\ g[c] = Written(Head(s)),
         ~Writes(Head(s), c) /\ c \in DOMAIN g => c \in DOMAIN f /\ g[c] = f[c]
  PROVE  /\ ComesIn(Tail(s), g, c, v) <=> ComesIn(s, f, c, v)
         /\ HeardIn(s, f, c) => HeardIn(Tail(s), g, c)
<1> DEFINE t == Tail(s)
           h == Head(s)
<1>1. /\ DOMAIN s = 1 .. Len(s) /\ Len(s) \in Nat \ {0} /\ h = s[1]
      /\ DOMAIN t = 1 .. Len(s) - 1 /\ \A k \in 1 .. Len(s) - 1 : t[k] = s[k + 1]
  BY TailElements
<1> HIDE DEF t, h
<1>2. \A k \in DOMAIN t : k + 1 \in DOMAIN s /\ k + 1 # 1 /\ s[k + 1] = t[k]
  BY <1>1
<1>3. \A k \in DOMAIN s : k = 1 \/ (k - 1 \in DOMAIN t /\ t[k - 1] = s[k])
  BY <1>1
<1>4. 1 \in DOMAIN s /\ \A k \in DOMAIN s : k \in Int /\ ~(k < 1) /\ (k # 1 => 1 < k)
  BY <1>1
<1>5. \A k \in DOMAIN t : k \in Int
  BY <1>1
<1>6. ASSUME NEW k \in DOMAIN t
      PROVE  (\A j \in DOMAIN t : k < j => ~Writes(t[j], c))
                <=> (\A j \in DOMAIN s : k + 1 < j => ~Writes(s[j], c))
  <2>1. ASSUME \A j \in DOMAIN t : k < j => ~Writes(t[j], c), NEW j \in DOMAIN s, k + 1 < j
        PROVE  ~Writes(s[j], c)
    <3>1. k < j - 1 /\ j # 1
      BY <2>1, <1>1
    <3> QED
      BY <1>3, <2>1, <3>1
  <2>2. ASSUME \A j \in DOMAIN s : k + 1 < j => ~Writes(s[j], c), NEW j \in DOMAIN t, k < j
        PROVE  ~Writes(t[j], c)
    <3>1. k + 1 < j + 1
      BY <2>2, <1>5
    <3> QED
      BY <1>2, <2>2, <3>1
  <2> QED
    BY <2>1, <2>2
<1>7. (\A j \in DOMAIN s : 1 < j => ~Writes(s[j], c))
         <=> \A j \in DOMAIN t : ~Writes(t[j], c)
  <2>1. ASSUME \A j \in DOMAIN s : 1 < j => ~Writes(s[j], c), NEW j \in DOMAIN t
        PROVE  ~Writes(t[j], c)
    <3>1. 1 < j + 1
      BY <1>1
    <3> QED
      BY <1>2, <2>1, <3>1
  <2>2. ASSUME \A j \in DOMAIN t : ~Writes(t[j], c), NEW j \in DOMAIN s, 1 < j
        PROVE  ~Writes(s[j], c)
    BY <1>3, <2>2
  <2> QED
    BY <2>1, <2>2
<1>8. ComesIn(t, g, c, v) => ComesIn(s, f, c, v)
  <2>1. ASSUME NEW k \in DOMAIN t, Writes(t[k], c), Written(t[k]) = v,
               \A j \in DOMAIN t : k < j => ~Writes(t[j], c)
        PROVE  ComesIn(s, f, c, v)
    BY <1>2, <1>6, <2>1 DEF ComesIn
  <2>2. ASSUME \A j \in DOMAIN t : ~Writes(t[j], c), c \in DOMAIN g, g[c] = v
        PROVE  ComesIn(s, f, c, v)
    <3>1. CASE Writes(h, c)
      BY <1>1, <1>4, <1>7, <2>2, <3>1 DEF ComesIn, h
    <3>2. CASE ~Writes(h, c)
      <4>1. \A j \in DOMAIN s : ~Writes(s[j], c)
        BY <1>1, <1>3, <2>2, <3>2
      <4> QED
        BY <2>2, <3>2, <4>1 DEF ComesIn, h
    <3> QED
      BY <3>1, <3>2
  <2> QED
    BY <2>1, <2>2 DEF ComesIn
<1>9. ComesIn(s, f, c, v) => ComesIn(t, g, c, v)
  <2>1. ASSUME NEW k \in DOMAIN s, Writes(s[k], c), Written(s[k]) = v,
               \A j \in DOMAIN s : k < j => ~Writes(s[j], c)
        PROVE  ComesIn(t, g, c, v)
    <3>1. CASE k = 1
      BY <1>1, <1>7, <2>1, <3>1 DEF ComesIn, h
    <3>2. CASE k # 1
      <4>1. k - 1 \in DOMAIN t /\ t[k - 1] = s[k] /\ k - 1 + 1 = k
        BY <1>3, <1>4, <3>2
      <4> QED
        BY <1>6, <2>1, <4>1 DEF ComesIn
    <3> QED
      BY <3>1, <3>2
  <2>2. ASSUME \A j \in DOMAIN s : ~Writes(s[j], c), c \in DOMAIN f, f[c] = v
        PROVE  ComesIn(t, g, c, v)
    <3>1. ~Writes(h, c) /\ \A j \in DOMAIN t : ~Writes(t[j], c)
      BY <1>1, <1>2, <1>4, <2>2
    <3> QED
      BY <2>2, <3>1 DEF ComesIn, h
  <2> QED
    BY <2>1, <2>2 DEF ComesIn
<1>10. HeardIn(s, f, c) => HeardIn(t, g, c)
  BY <1>1, <1>3 DEF HeardIn, h
<1> QED
  BY <1>8, <1>9, <1>10 DEF t

(* The running totals of motion.                                            *)
LEMMA AddsConcat ==
  ASSUME NEW S, NEW s \in Seq(S), NEW t \in Seq(S), NEW a, NEW p, NEW q,
         Adds(p, s, a), Adds(q, t, a), q[0] = 0
  PROVE  \E r : /\ Adds(r, s \o t, a) /\ r[0] = p[0]
                /\ r[Len(s \o t)] = p[Len(s)] + q[Len(t)]
<1> DEFINE u == s \o t
           r == [k \in 0 .. Len(u) |-> IF k <= Len(s) THEN p[k] ELSE p[Len(s)] + q[k - Len(s)]]
<1>1. /\ Len(s) \in Nat /\ Len(t) \in Nat
      /\ Len(u) = Len(s) + Len(t)
      /\ \A k \in 1 .. Len(s) : u[k] = s[k]
      /\ \A k \in 1 .. Len(t) : u[Len(s) + k] = t[k]
  BY ConcatElements
<1>2. /\ p \in [0 .. Len(s) -> Int] /\ q \in [0 .. Len(t) -> Int]
      /\ \A k \in 1 .. Len(s) : Delta(s[k], a) \in Int /\ p[k] = p[k - 1] + Delta(s[k], a)
      /\ \A k \in 1 .. Len(t) : Delta(t[k], a) \in Int /\ q[k] = q[k - 1] + Delta(t[k], a)
  BY DEF Adds
<1> HIDE DEF u
<1>3. r \in [0 .. Len(u) -> Int]
  <2>1. ASSUME NEW k \in 0 .. Len(u)
        PROVE  (IF k <= Len(s) THEN p[k] ELSE p[Len(s)] + q[k - Len(s)]) \in Int
    <3>1. CASE k <= Len(s)
      <4>1. k \in 0 .. Len(s)
        BY <1>1, <3>1
      <4>2. p[k] \in Int
        BY <1>2, <4>1
      <4> QED
        BY <3>1, <4>2
    <3>2. CASE ~(k <= Len(s))
      <4>1. k - Len(s) \in 0 .. Len(t) /\ Len(s) \in 0 .. Len(s)
        BY <1>1, <3>2
      <4>2. p[Len(s)] \in Int /\ q[k - Len(s)] \in Int
        BY <1>2, <4>1
      <4> QED
        BY <3>2, <4>2
    <3> QED
      BY <3>1, <3>2
  <2> QED
    BY <2>1
<1>4. ASSUME NEW k \in 1 .. Len(u)
      PROVE  Delta(u[k], a) \in Int /\ r[k] = r[k - 1] + Delta(u[k], a)
  <2>1. CASE k <= Len(s)
    <3>1. k \in 1 .. Len(s) /\ k \in 0 .. Len(u) /\ k - 1 \in 0 .. Len(u) /\ k - 1 <= Len(s)
      BY <1>1, <2>1
    <3>2. r[k] = p[k] /\ r[k - 1] = p[k - 1]
      BY <2>1, <3>1
    <3> QED
      BY <1>1, <1>2, <3>1, <3>2
  <2>2. CASE k = Len(s) + 1
    <3>1. /\ 1 \in 1 .. Len(t) /\ k \in 0 .. Len(u) /\ k - 1 \in 0 .. Len(u) /\ k - 1 = Len(s)
          /\ ~(k <= Len(s)) /\ k - Len(s) = 1
      BY <1>1, <2>2
    <3>2. r[k] = p[Len(s)] + q[1] /\ r[k - 1] = p[Len(s)]
      BY <3>1
    <3>3. Delta(t[1], a) \in Int /\ q[1] = q[0] + Delta(t[1], a) /\ u[k] = t[1]
      BY <1>1, <1>2, <2>2, <3>1
    <3>4. q[1] = Delta(t[1], a)
      BY <3>3
    <3> QED
      BY <3>2, <3>3, <3>4
  <2>3. CASE k > Len(s) + 1
    <3> DEFINE j == k - Len(s)
    <3>1. /\ j \in 1 .. Len(t) /\ j - 1 \in 0 .. Len(t) /\ k \in 0 .. Len(u)
          /\ k - 1 \in 0 .. Len(u) /\ ~(k <= Len(s)) /\ ~(k - 1 <= Len(s))
          /\ k - 1 - Len(s) = j - 1 /\ k = Len(s) + j
      BY <1>1, <2>3
    <3>2. r[k] = p[Len(s)] + q[j] /\ r[k - 1] = p[Len(s)] + q[j - 1]
      BY <3>1
    <3>3. Delta(t[j], a) \in Int /\ q[j] = q[j - 1] + Delta(t[j], a)
      BY <1>2, <3>1
    <3>4. u[k] = t[j]
      BY <1>1, <3>1
    <3>5. Len(s) \in 0 .. Len(s) /\ j \in 0 .. Len(t)
      BY <1>1, <3>1
    <3>6. q[j - 1] \in Int /\ p[Len(s)] \in Int
      BY <1>2, <3>1, <3>5
    <3> HIDE DEF j, r
    <3> QED
      BY <3>2, <3>3, <3>4, <3>6
  <2> QED
    BY <1>1, <2>1, <2>2, <2>3
<1>5. r[0] = p[0]
  BY <1>1
<1>6. r[Len(u)] = p[Len(s)] + q[Len(t)]
  <2>1. CASE Len(t) = 0
    <3>1. Len(u) = Len(s) /\ Len(u) \in 0 .. Len(u) /\ p[Len(s)] \in Int
      BY <1>1, <1>2, <2>1
    <3> QED
      BY <2>1, <3>1
  <2>2. CASE Len(t) # 0
    <3>1. ~(Len(u) <= Len(s)) /\ Len(u) \in 0 .. Len(u) /\ Len(u) - Len(s) = Len(t)
      BY <1>1, <2>2
    <3> QED
      BY <3>1
  <2> QED
    BY <2>1, <2>2
<1> HIDE DEF r
<1>7. Adds(r, u, a)
  BY <1>3, <1>4 DEF Adds
<1> QED
  BY <1>5, <1>6, <1>7 DEF u

LEMMA AddsTail ==
  ASSUME NEW S, NEW s \in Seq(S), s # <<>>, NEW a, NEW p, Adds(p, s, a)
  PROVE  \E r : /\ Adds(r, Tail(s), a) /\ r[0] = p[0] + Delta(Head(s), a)
                /\ r[Len(Tail(s))] = p[Len(s)]
<1> DEFINE t == Tail(s)
           r == [k \in 0 .. Len(t) |-> p[k + 1]]
<1>1. /\ Len(s) \in Nat \ {0} /\ Head(s) = s[1] /\ Len(t) = Len(s) - 1
      /\ \A k \in 1 .. Len(s) - 1 : t[k] = s[k + 1]
  BY TailElements
<1>2. /\ p \in [0 .. Len(s) -> Int]
      /\ \A k \in 1 .. Len(s) : Delta(s[k], a) \in Int /\ p[k] = p[k - 1] + Delta(s[k], a)
  BY DEF Adds
<1> HIDE DEF t
<1>3. r \in [0 .. Len(t) -> Int]
  <2>1. \A k \in 0 .. Len(t) : k + 1 \in 0 .. Len(s)
    BY <1>1
  <2> QED
    BY <1>2, <2>1
<1>4. ASSUME NEW k \in 1 .. Len(t)
      PROVE  Delta(t[k], a) \in Int /\ r[k] = r[k - 1] + Delta(t[k], a)
  <2>1. /\ k \in 0 .. Len(t) /\ k - 1 \in 0 .. Len(t) /\ k + 1 \in 1 .. Len(s)
        /\ k - 1 + 1 = k /\ k + 1 - 1 = k /\ k \in 1 .. Len(s) - 1
    BY <1>1
  <2>2. r[k] = p[k + 1] /\ r[k - 1] = p[k]
    BY <2>1
  <2>3. /\ Delta(s[k + 1], a) \in Int /\ p[k + 1] = p[k] + Delta(s[k + 1], a)
        /\ t[k] = s[k + 1]
    BY <1>1, <1>2, <2>1
  <2> HIDE DEF r
  <2> QED
    BY <2>2, <2>3
<1>5. r[0] = p[0] + Delta(Head(s), a)
  <2>1. 0 \in 0 .. Len(t) /\ 1 \in 1 .. Len(s) /\ 0 + 1 = 1 /\ 1 - 1 = 0
    BY <1>1
  <2>2. r[0] = p[1]
    BY <2>1
  <2>3. p[1] = p[0] + Delta(s[1], a)
    BY <1>2, <2>1
  <2> HIDE DEF r
  <2> QED
    BY <1>1, <2>2, <2>3
<1>6. r[Len(t)] = p[Len(s)]
  <2>1. Len(t) \in 0 .. Len(t) /\ Len(t) + 1 = Len(s)
    BY <1>1
  <2> QED
    BY <2>1
<1> HIDE DEF r
<1>7. Adds(r, t, a)
  BY <1>3, <1>4 DEF Adds
<1> QED
  BY <1>5, <1>6, <1>7 DEF t

-----------------------------------------------------------------------------
(* The initial state.                                                       *)

LEMMA Halves ==
  ASSUME NEW axes \in SUBSET (Motion \cup {Stick})
  PROVE  /\ \A a \in axes : Positive(a) \in WithHalves(axes) /\ Negative(a) \in WithHalves(axes)
         /\ WithHalves(axes) \cap (Motion \cup {Stick}) = axes
         /\ WithHalves(axes) \cap {"none", "pad_dpad_y"} = {}
<1>1. \A a \in axes : /\ Positive(a) \notin Motion \cup {Stick, "none", "pad_dpad_y"}
                      /\ Negative(a) \notin Motion \cup {Stick, "none", "pad_dpad_y"}
  BY DEF Positive, Negative, Motion, Stick
<1>2. axes \cap {"none", "pad_dpad_y"} = {}
  BY DEF Motion, Stick
<1> QED
  BY <1>1, <1>2 DEF WithHalves

(* The axes a device is made with.                                          *)
LEMMA AxesShape ==
  ASSUME dev \in Devices
  PROVE  /\ "none" \notin Axes
         /\ \A a \in (Motion \cup {Stick}) \cap Axes :
               Positive(a) \in Axes /\ Negative(a) \in Axes
         /\ "pad_dpad_y" \in Axes => {"pad_dpad_up", "pad_dpad_down"} \subseteq Axes
         /\ dev.sort = "pad" => Stick \in Axes
<1>1. CASE dev.kind = "x11" /\ dev.sort = "keyboard"
  <2>1. Axes \subseteq KeyCodes
    BY <1>1 DEF Axes, AddKeyClass, MapKeyCode, Letter, KeyCodes
  <2> QED
    BY <1>1, <2>1 DEF KeyCodes, Motion, Stick
<1>2. CASE dev.kind = "x11" /\ dev.sort # "keyboard"
  <2> DEFINE m == IF dev.absolute THEN {} ELSE {"mouse_x", "mouse_y"}
             w == IF "wheel" \in Valuators THEN {"mouse_wheel"} ELSE {}
             A == WithHalves(m)
             B == WithHalves(w)
  <2>1. m \in SUBSET (Motion \cup {Stick}) /\ w \in SUBSET (Motion \cup {Stick})
    BY DEF Motion
  <2>2. \E C \in SUBSET ButtonCodes : AddButtonClass = C
    BY DEF AddButtonClass, ButtonCodes
  <2>3. WithHalves({}) = {}
    BY DEF WithHalves
  <2>4. Axes = A \cup B \cup AddButtonClass
    BY <1>2, <2>3 DEF Axes, AddValuatorClasses
  <2>5. ButtonCodes \cap (Motion \cup {Stick, "none", "pad_dpad_y"}) = {}
    BY DEF ButtonCodes, Motion, Stick
  <2> HIDE DEF m, w
  <2>6. /\ \A a \in m : Positive(a) \in A /\ Negative(a) \in A
        /\ A \cap (Motion \cup {Stick}) = m /\ A \cap {"none", "pad_dpad_y"} = {}
    BY <2>1, Halves
  <2>7. /\ \A a \in w : Positive(a) \in B /\ Negative(a) \in B
        /\ B \cap (Motion \cup {Stick}) = w /\ B \cap {"none", "pad_dpad_y"} = {}
    BY <2>1, Halves
  <2>8. dev.sort # "pad"
    BY <1>2, DevFacts
  <2> HIDE DEF A, B
  <2> QED
    BY <2>2, <2>4, <2>5, <2>6, <2>7, <2>8
<1>3. CASE dev.kind = "raw" /\ dev.sort = "keyboard"
  <2>1. Axes \subseteq KeyCodes
    BY <1>3 DEF Axes, RawAxes, VKeyCodes, KeyCodes
  <2> QED
    BY <1>3, <2>1 DEF KeyCodes, Motion, Stick
<1>4. CASE dev.kind = "raw" /\ dev.sort # "keyboard"
  <2> DEFINE A == WithHalves(Motion)
  <2>1. \E C \in SUBSET ButtonCodes : Axes = A \cup C
    <3> DEFINE C == {"mouse_left", "mouse_right"}
           \cup (IF dev.buttons > 2 THEN {"mouse_middle"} ELSE {})
           \cup (IF dev.buttons > 3 THEN {"mouse_fourth"} ELSE {})
    <3>1. C \in SUBSET ButtonCodes
      BY DEF ButtonCodes
    <3>2. Axes = A \cup C
      BY <1>4 DEF Axes, RawAxes
    <3> QED
      BY <3>1, <3>2
  <2>2. ButtonCodes \cap (Motion \cup {Stick, "none", "pad_dpad_y"}) = {}
    BY DEF ButtonCodes, Motion, Stick
  <2>3. /\ \A a \in Motion : Positive(a) \in A /\ Negative(a) \in A
        /\ A \cap (Motion \cup {Stick}) = Motion /\ A \cap {"none", "pad_dpad_y"} = {}
    BY Halves
  <2>4. dev.sort # "pad"
    BY <1>4, DevFacts
  <2> HIDE DEF A
  <2> QED
    BY <2>1, <2>2, <2>3, <2>4
<1>5. CASE dev.kind = "hidm"
  <2> DEFINE D == DOMAIN AxisMap
             axes == {AxisMap[e] : e \in D}
             m == axes \cap (Motion \cup {"pad_left_stick_y"})
             A == WithHalves(m)
             P == IF dev.sort = "pad" THEN {"pad_dpad_y"} ELSE {}
  <2>1. Axes = axes \cup A \cup P
    BY <1>5 DEF Axes, HidmAxes
  <2>2. axes \subseteq Codes \cup Motion \cup {Stick}
    <3>1. CASE dev.sort = "mouse"
      <4>1. \A e \in Valuators \ {"horizontal"} : AxisOf(e) \in Motion
        BY DEF Valuators, Valuator, AxisOf, Motion
      <4> QED
        BY <1>5, <3>1, <4>1, ElementAxes DEF Codes
    <3>2. CASE dev.sort = "keyboard"
      BY <1>5, <3>2, ElementAxes DEF Codes
    <3>3. CASE dev.sort = "pad"
      BY <1>5, <3>3, ElementAxes DEF Codes, ButtonCodes
    <3> QED
      BY <3>1, <3>2, <3>3, DevFacts
  <2>3. m \in SUBSET (Motion \cup {Stick}) /\ m = axes \cap (Motion \cup {Stick})
    BY DEF Stick
  <2>4. dev.sort = "pad" => {Stick, "pad_dpad_up", "pad_dpad_down"} \subseteq axes
    BY <1>5, ElementAxes
  <2> HIDE DEF axes, m
  <2>5. /\ \A a \in m : Positive(a) \in A /\ Negative(a) \in A
        /\ A \cap (Motion \cup {Stick}) = m /\ A \cap {"none", "pad_dpad_y"} = {}
    BY <2>3, Halves
  <2>6. (Codes \cup Motion \cup {Stick}) \cap {"none", "pad_dpad_y"} = {}
    BY DEF Codes, KeyCodes, ButtonCodes, Motion, Stick
  <2> HIDE DEF A
  <2>7. P \cap (Motion \cup {Stick, "none"}) = {}
    BY DEF Motion, Stick
  <2> QED
    BY <2>1, <2>2, <2>3, <2>4, <2>5, <2>6, <2>7
<1> QED
  BY <1>1, <1>2, <1>3, <1>4, <1>5, DevFacts

LEMMA InitInv == Init => Inv
<1> SUFFICES ASSUME Init PROVE Inv
  OBVIOUS
<1>1. dev \in Devices /\ held = {} /\ queue = <<>> /\ position = 0
  BY DEF Init
<1>2. /\ next = [a \in Axes |-> 0] /\ current = next /\ DOMAIN next = Axes
      /\ \A a \in DOMAIN next : next[a] = 0
  BY DEF Init, Zero
<1>3. PadValue(0) = 0 /\ 0 \in PadRange /\ 0 \in -PadMax - 1 .. PadMax
  BY PipelineAssumption DEF PipelineAssumption, PadValue, ApplyDeadzone, PadRange
<1>4. /\ {moved, shown, lost} \subseteq [Motion -> Int]
      /\ \A a \in Motion : moved[a] = 0 /\ shown[a] = 0 /\ lost[a] = 0
  BY DEF Init, Zero
<1>5. TypeOK
  <2>1. /\ numLock \in BOOLEAN /\ layout \in {1, 2} /\ hasLast \in BOOLEAN
        /\ pc \in {"idle", "draining"} /\ events \in Nat /\ failures \in Nat
    BY DEF Init
  <2>2. next = [a \in DOMAIN next |-> next[a]] /\ DOMAIN current = DOMAIN next
    BY <1>2
  <2>3. \A a \in DOMAIN next : next[a] \in Int /\ current[a] \in Int /\ next[a] \in PadRange
    BY <1>2, <1>3
  <2>4. "none" \notin DOMAIN next
    BY <1>1, <1>2, AxesShape
  <2> QED
    BY <1>1, <1>2, <1>3, <1>4, <2>1, <2>2, <2>3, <2>4 DEF TypeOK
<1>6. queue \in Seq(Event) /\ DOMAIN queue = {} /\ Len(queue) = 0
  BY <1>1
<1>7. Frames
  BY <1>1, <1>2, <1>4, <1>6, AxesShape DEF Frames
<1>8. Balanced
  <2> SUFFICES ASSUME NEW a \in Motion, Counted(a) PROVE Accounted(a)
    BY DEF Balanced
  <2> DEFINE sums == [k \in 0 .. 0 |-> 0]
  <2>1. sums \in [0 .. Len(queue) -> Int] /\ sums[0] = 0 /\ 1 .. Len(queue) = {}
    BY <1>6
  <2> HIDE DEF sums
  <2>2. Adds(sums, queue, a)
    BY <2>1 DEF Adds
  <2>3. next[a] = 0
    BY <1>2 DEF Counted
  <2>4. sums[0] = shown[a] + next[a] + lost[a] /\ sums[Len(queue)] = moved[a]
    BY <1>4, <1>6, <2>1, <2>3
  <2> QED
    BY <2>1, <2>2, <2>4 DEF Accounted
<1>9. Follows
  <2>1. \A c : ~Comes(c, 1)
    BY <1>2, <1>6 DEF Comes, ComesIn
  <2>2. dev.sort = "pad" => Comes(Stick, 0)
    BY <1>1, <1>2, <1>6, AxesShape DEF Comes, ComesIn
  <2> QED
    BY <1>1, <1>3, <2>1, <2>2 DEF Follows
<1> QED
  BY <1>5, <1>7, <1>8, <1>9 DEF Inv

-----------------------------------------------------------------------------
(* The user's actions.                                                      *)

(* The event of a key or button writes its axis, and moves none.            *)
LEMMA ItemEvent ==
  ASSUME dev \in Devices, layout \in {1, 2}, NEW i \in Items, NEW down \in BOOLEAN
  PROVE  LET e == IF i \in Keys THEN KeyEvent(i, down) ELSE ButtonEvent(i, down)
         IN  /\ e \in Event
             /\ \A c \in Kept : Writes(e, c) <=> CodeOf(i) = c
             /\ Written(e) = IF down THEN 1 ELSE 0
             /\ \A a \in Motion : Delta(e, a) = 0
<1> DEFINE e == IF i \in Keys THEN KeyEvent(i, down) ELSE ButtonEvent(i, down)
<1> SUFFICES /\ e \in Event
             /\ \A c \in Kept : Writes(e, c) <=> CodeOf(i) = c
             /\ Written(e) = IF down THEN 1 ELSE 0
             /\ \A a \in Motion : Delta(e, a) = 0
  OBVIOUS
<1>1. CASE dev.kind = "x11" /\ i \in Keys
  <2>1. e = [type |-> "x11_key", key |-> i, down |-> down]
    BY <1>1 DEF KeyEvent
  <2>2. CodeOf(i) = MapKeyCode(i)
    BY <1>1 DEF CodeOf
  <2> HIDE DEF e
  <2>3. e \in X11Key
    BY <1>1, <2>1 DEF X11Key
  <2> QED
    BY <1>1, <2>1, <2>2, <2>3 DEF Event, Writes, Written, Delta
<1>2. CASE dev.kind = "x11" /\ i \notin Keys
  <2>1. e = [type |-> "x11_button", detail |-> ButtonDetail(i), down |-> down]
    BY <1>2 DEF ButtonEvent
  <2>2. CodeOf(i) = MapButtonCode(ButtonDetail(i))
    BY <1>2 DEF CodeOf
  <2>3. i \in {"left", "right", "middle", "fourth"}
    BY <1>2, DevFacts DEF Items, Buttons
  <2>4. ButtonDetail(i) \in {1, 2, 3, 4, 8}
    BY <2>3 DEF ButtonDetail
  <2> HIDE DEF e
  <2>5. e \in X11Button
    BY <2>1, <2>4 DEF X11Button
  <2> QED
    BY <1>2, <2>1, <2>2, <2>5 DEF Event, Writes, Written, Delta
<1>3. CASE dev.kind = "raw" /\ i \in Keys
  <2>1. e = [type |-> "vkey", vkey |-> VKey(i), isE0 |-> IsE0(i), down |-> down]
    BY <1>3 DEF KeyEvent
  <2>2. CodeOf(i) = RawCode(VKey(i), IsE0(i))
    BY <1>3 DEF CodeOf
  <2>3. VKey(i) \in {"NUMPAD7", "HOME", "CONTROL", "Q", "A", "MEDIA", "FAKE"}
    BY DEF VKey
  <2>4. IsE0(i) \in BOOLEAN
    BY DEF IsE0
  <2> HIDE DEF e
  <2>5. e \in VKeyEvent
    BY <2>1, <2>3, <2>4 DEF VKeyEvent
  <2>6. dev.sort = "keyboard"
    BY <1>3 DEF Keys
  <2> QED
    BY <1>3, <2>1, <2>2, <2>5, <2>6 DEF Event, Writes, Written, Delta
<1>4. CASE dev.kind = "raw" /\ i \notin Keys
  <2> DEFINE dn == IF down THEN {i} ELSE {}
             up == IF down THEN {} ELSE {i}
  <2>1. e = RawMouse(<<0, 0, 0>>, FALSE, dn, up)
    BY <1>4 DEF ButtonEvent
  <2>2. CodeOf(i) = RawButton(i)
    BY <1>4 DEF CodeOf
  <2>3. /\ dn \subseteq Buttons /\ up \subseteq Buttons /\ dn \cup up = {i}
        /\ dn = {} \/ up = {}
        /\ dn # {} <=> down
    BY <1>4 DEF Items
  <2> HIDE DEF e, dn, up
  <2>4. e = [type |-> "raw_mouse", x |-> 0, y |-> 0, data |-> 0, wheel |-> FALSE,
             down |-> dn, up |-> up]
    BY <2>1 DEF RawMouse
  <2>5. e \in RawMouseEvent
    BY <2>3, <2>4 DEF RawMouseEvent
  <2>6. dev.sort # "keyboard"
    BY <1>4 DEF Items, Buttons
  <2>7. e \in Event
    BY <1>4, <2>5, <2>6 DEF Event
  <2>8. \A c \in Kept : Writes(e, c) <=> CodeOf(i) = c
    BY <2>2, <2>3, <2>4 DEF Writes
  <2>9. Written(e) = IF down THEN 1 ELSE 0
    BY <2>3, <2>4 DEF Written
  <2>10. \A a \in Motion : Delta(e, a) = 0
    BY <2>4 DEF Delta
  <2> QED
    BY <2>7, <2>8, <2>9, <2>10
<1>5. CASE dev.kind = "hidm"
  <2>1. e = [type |-> "element", element |-> i, value |-> IF down THEN 1 ELSE 0]
    BY <1>5 DEF KeyEvent, ButtonEvent
  <2>2. CodeOf(i) = IF i \in DOMAIN AxisMap THEN AxisMap[i] ELSE "none"
    BY <1>5 DEF CodeOf
  <2>3. i # "stick_y"
    BY <1>5 DEF Items, Keys, Buttons
  <2> HIDE DEF e
  <2>4. e \in KeyElement
    BY <2>1 DEF KeyElement, Items
  <2>5. e \in Event
    BY <1>5, <2>4 DEF Event
  <2>6. \A c \in Kept : Writes(e, c) <=> CodeOf(i) = c
    BY <2>1, <2>2, MotionNotKept DEF Writes
  <2>7. Written(e) = IF down THEN 1 ELSE 0
    BY <2>1, <2>3 DEF Written
  <2>8. CodeOf(i) \notin Motion
    BY CodeOfItem, MotionNotKept DEF Kept
  <2>9. \A a \in Motion : Delta(e, a) = 0
    BY <2>1, <2>2, <2>8 DEF Delta
  <2> QED
    BY <2>5, <2>6, <2>7, <2>9
<1> QED
  BY <1>1, <1>2, <1>3, <1>4, <1>5, DevFacts

(* The axis of an item, and of an event, depend on the device and the       *)
(* layout alone: NumLock does not matter.                                   *)
LEMMA CodeOfFixed ==
  ASSUME TypeOK, UNCHANGED <<dev, layout>>, numLock' \in BOOLEAN
  PROVE  /\ \A i : CodeOf(i)' = CodeOf(i) /\ Alone(i)' = Alone(i)
         /\ \A e, c : Writes(e, c)' <=> Writes(e, c)
<1>1. dev \in Devices /\ layout \in {1, 2}
  BY DEF TypeOK
<1>2. Keys' = Keys /\ Buttons' = Buttons /\ Items' = Items
  BY DevFixed
<1>3. AxisMap' = AxisMap
  BY AxisMapFixed
<1>4. \A key : MapKeyCode(key)' = MapKeyCode(key)
  BY DEF MapKeyCode, Letter
<1>5. \A i : RawCode(VKey(i), IsE0(i))' = RawCode(VKey(i), IsE0(i))
  BY DEF VKey, IsE0, RawCode, Fixup, MapToInputCode, VKeyCodes
<1>6. \A i : CodeOf(i)' = CodeOf(i)
  BY <1>1, <1>2, <1>3, <1>4, <1>5, DevFacts DEF CodeOf
<1>7. \A i : Alone(i)' = Alone(i)
  BY <1>2, <1>6 DEF Alone
<1>8. \A e, c : Writes(e, c)' <=> Writes(e, c)
  BY <1>3, <1>4 DEF Writes
<1> QED
  BY <1>6, <1>7, <1>8

LEMMA DeltaFixed ==
  ASSUME UNCHANGED dev
  PROVE  /\ \A e, a : Delta(e, a)' = Delta(e, a)
         /\ \A sums, s, a : Adds(sums, s, a)' <=> Adds(sums, s, a)
<1>1. AxisMap' = AxisMap
  BY AxisMapFixed
<1>2. \A e, a : Delta(e, a)' = Delta(e, a)
  BY <1>1 DEF Delta, RawValue
<1> QED
  BY <1>2 DEF Adds

(* What an action of the user preserves, whatever it queues.                *)
LEMMA QueuedTypeOK ==
  ASSUME TypeOK, NEW new, Acts(new), held' \subseteq Items,
         position' \in -PadMax - 1 .. PadMax, numLock' \in BOOLEAN, layout' \in {1, 2},
         moved' \in [Motion -> Int]
  PROVE  TypeOK'
<1>1. UNCHANGED <<dev, next, current, hasLast, pc, shown, lost, failures>> /\ events' = events + 1
  BY DEF Acts, frames
<1>2. Keys' = Keys /\ Buttons' = Buttons
  BY <1>1, DevFixed
<1>3. dev.kind # "x11" => Axes' = Axes
  <2>1. RawAxes' = RawAxes /\ HidmAxes' = HidmAxes
    BY <1>1, AxisMapFixed
  <2> QED
    BY <1>1, <2>1, DevFacts DEF Axes, TypeOK
<1>4. PadRange' = PadRange /\ events' \in Nat
  BY <1>1 DEF PadRange, TypeOK
<1> QED
  BY <1>1, <1>2, <1>3, <1>4 DEF TypeOK, Items

LEMMA QueuedBalanced ==
  ASSUME Frames, Balanced, NEW new \in Seq(Event), Acts(new),
         moved' \in [Motion -> Int],
         \A a \in Motion : Counted(a) =>
            \E q : Adds(q, new, a) /\ q[0] = 0 /\ moved'[a] = moved[a] + q[Len(new)]
  PROVE  Frames' /\ Balanced'
<1>1. /\ UNCHANGED <<dev, next, shown, lost>> /\ queue' = queue \o new
      /\ queue \in Seq(Event)
  BY DEF Acts, frames, Frames
<1>2. Event' = Event
  BY <1>1, DevFixed
<1>3. queue' \in Seq(Event)
  BY <1>1, ConcatElements
<1>4. Frames'
  BY <1>1, <1>2, <1>3 DEF Frames
<1>5. ASSUME NEW a \in Motion, Counted(a) PROVE Accounted(a)'
  <2>1. PICK p \in [0 .. Len(queue) -> Int] :
           /\ Adds(p, queue, a) /\ p[0] = shown[a] + next[a] + lost[a]
           /\ p[Len(queue)] = moved[a]
    BY <1>5 DEF Balanced, Accounted
  <2>2. PICK q : Adds(q, new, a) /\ q[0] = 0 /\ moved'[a] = moved[a] + q[Len(new)]
    BY <1>5
  <2>3. PICK r : /\ Adds(r, queue \o new, a) /\ r[0] = p[0]
                 /\ r[Len(queue \o new)] = p[Len(queue)] + q[Len(new)]
    BY <1>1, <2>1, <2>2, AddsConcat
  <2>4. r \in [0 .. Len(queue') -> Int]
    BY <1>1, <2>3 DEF Adds
  <2>5. Adds(r, queue', a)
    BY <1>1, <2>3
  <2>6. r[0] = shown'[a] + next'[a] + lost'[a] /\ r[Len(queue')] = moved'[a]
    BY <1>1, <2>1, <2>2, <2>3
  <2>7. \A sums, s : Adds(sums, s, a)' <=> Adds(sums, s, a)
    BY <1>1, DeltaFixed
  <2>8. Adds(r, queue, a)'
    BY <2>5, <2>7
  <2> QED
    BY <2>4, <2>6, <2>8 DEF Accounted
<1>6. \A a : Counted(a)' <=> Counted(a)
  BY <1>1 DEF Counted
<1> QED
  BY <1>4, <1>5, <1>6 DEF Balanced

(* Events that move nothing.                                                *)
LEMMA StillBalanced ==
  ASSUME Frames, Balanced, NEW new \in Seq(Event), Acts(new), UNCHANGED moved,
         \A k \in DOMAIN new, a \in Motion : Delta(new[k], a) = 0
  PROVE  Frames' /\ Balanced'
<1> DEFINE q == [k \in 0 .. Len(new) |-> 0]
<1>1. Len(new) \in Nat /\ DOMAIN new = 1 .. Len(new)
  BY LenProperties
<1>2. \A k \in 1 .. Len(new) : q[k] = 0 /\ q[k - 1] = 0
  <2>1. \A k \in 1 .. Len(new) : k \in 0 .. Len(new) /\ k - 1 \in 0 .. Len(new)
    BY <1>1
  <2> QED
    BY <2>1
<1>3. q \in [0 .. Len(new) -> Int] /\ q[0] = 0 /\ q[Len(new)] = 0
  BY <1>1
<1> HIDE DEF q
<1>4. ASSUME NEW a \in Motion PROVE Adds(q, new, a)
  <2>1. \A k \in 1 .. Len(new) : Delta(new[k], a) = 0
    BY <1>1
  <2> QED
    BY <1>2, <1>3, <2>1 DEF Adds
<1>5. \A a \in Motion : moved'[a] = moved[a] + q[Len(new)]
  BY <1>3 DEF Frames
<1>6. moved' \in [Motion -> Int]
  BY DEF Frames
<1> QED
  BY <1>3, <1>4, <1>5, <1>6, QueuedBalanced

(* What is to come of an axis, when nothing is queued that writes it.       *)
LEMMA ComesFixed ==
  ASSUME TypeOK, UNCHANGED <<dev, layout>>, numLock' \in BOOLEAN
  PROVE  /\ \A s, f, c, v : ComesIn(s, f, c, v)' <=> ComesIn(s, f, c, v)
         /\ \A s, f, c : HeardIn(s, f, c)' <=> HeardIn(s, f, c)
<1>1. \A e, c : Writes(e, c)' <=> Writes(e, c)
  BY CodeOfFixed
<1> QED
  BY <1>1 DEF ComesIn, HeardIn

LEMMA ComesQueued ==
  ASSUME TypeOK, Frames, NEW new \in Seq(Event), Acts(new), UNCHANGED layout,
         numLock' \in BOOLEAN, NEW c
  PROVE  /\ (\A k \in DOMAIN new : ~Writes(new[k], c)) =>
               /\ \A v : Comes(c, v)' <=> Comes(c, v)
               /\ Heard(c) => Heard(c)'
         /\ Len(new) = 1 /\ Writes(new[1], c) =>
               /\ \A v : Comes(c, v)' <=> Written(new[1]) = v
               /\ Heard(c)'
<1>1. UNCHANGED <<dev, next>> /\ queue' = queue \o new /\ queue \in Seq(Event)
  BY DEF Acts, frames, Frames
<1>2. /\ \A v : Comes(c, v)' <=> ComesIn(queue \o new, next, c, v)
      /\ Heard(c)' <=> HeardIn(queue \o new, next, c)
  BY <1>1, ComesFixed DEF Comes, Heard
<1>3. (\A k \in DOMAIN new : ~Writes(new[k], c)) =>
         /\ \A v : ComesIn(queue \o new, next, c, v) <=> ComesIn(queue, next, c, v)
         /\ HeardIn(queue, next, c) => HeardIn(queue \o new, next, c)
  BY <1>1, ComesConcat
<1>4. Len(new) = 1 /\ Writes(new[1], c) =>
         /\ \A v : ComesIn(queue \o new, next, c, v) <=> Written(new[1]) = v
         /\ HeardIn(queue \o new, next, c)
  BY <1>1, ComesLast
<1> QED
  BY <1>2, <1>3, <1>4 DEF Comes, Heard

(* As long as the user does nothing and what is to come of the axes stays.  *)
LEMMA StillFollows ==
  ASSUME TypeOK, Follows, UNCHANGED <<dev, held, position, layout, torn>>,
         numLock' \in BOOLEAN,
         \A c \in Kept : /\ \A v : Comes(c, v)' <=> Comes(c, v)
                         /\ Heard(c) => Heard(c)'
  PROVE  Follows'
<1>1. \A i : CodeOf(i)' = CodeOf(i) /\ Alone(i)' = Alone(i)
  BY CodeOfFixed
<1>2. \A i \in held : CodeOf(i) \in Codes \cup {"none"}
  BY CodeOfItem DEF TypeOK, Items
<1>3. \A c \in Codes \ torn' : Comes(c, 1)' => \E i \in held' : CodeOf(i)' = c
  BY <1>1 DEF Follows, Kept
<1>4. \A i \in held' : CodeOf(i)' \notin torn' \cup {"none"} =>
         Heard(CodeOf(i))' /\ (Alone(i)' => Comes(CodeOf(i), 1)')
  <2> SUFFICES ASSUME NEW i \in held, CodeOf(i) \notin torn \cup {"none"}
               PROVE  Heard(CodeOf(i))' /\ (Alone(i) => Comes(CodeOf(i), 1)')
    BY <1>1
  <2> DEFINE c == CodeOf(i)
  <2>1. c \in Kept /\ Heard(c) /\ (Alone(i) => Comes(c, 1))
    BY <1>2 DEF Follows, Kept
  <2>2. PICK d : d = c
    OBVIOUS
  <2>3. Heard(d)' /\ (Alone(i) => Comes(d, 1)')
    BY <2>1, <2>2
  <2>4. d = CodeOf(i)'
    BY <1>1, <2>2
  <2> QED
    BY <2>3, <2>4
<1>5. (dev.sort = "pad")' => Comes(Stick, PadValue(position))'
  <2>1. PICK p : p = PadValue(position)
    OBVIOUS
  <2>2. Stick \in Kept /\ PadValue(position)' = p
    BY <2>1 DEF Kept, PadValue, ApplyDeadzone
  <2>3. dev.sort = "pad" => Comes(Stick, p)'
    BY <2>1, <2>2 DEF Follows
  <2> QED
    BY <2>2, <2>3
<1> QED
  BY <1>3, <1>4, <1>5 DEF Follows

LEMMA QuietFollows ==
  ASSUME TypeOK, Frames, Follows, NEW new \in Seq(Event), Acts(new),
         UNCHANGED <<held, position, layout, torn>>, numLock' \in BOOLEAN,
         \A k \in DOMAIN new, c \in Kept : ~Writes(new[k], c)
  PROVE  Follows'
<1>1. UNCHANGED dev
  BY DEF Acts
<1>2. \A c \in Kept : /\ \A v : Comes(c, v)' <=> Comes(c, v)
                      /\ Heard(c) => Heard(c)'
  BY ComesQueued
<1>3. UNCHANGED <<dev, held, position, layout, torn>>
  BY <1>1
<1> QED
  BY <1>2, <1>3, StillFollows

LEMMA ItemFollows ==
  ASSUME TypeOK, Frames, Follows, NEW i \in Items, NEW down \in BOOLEAN,
         Acts(<<IF i \in Keys THEN KeyEvent(i, down) ELSE ButtonEvent(i, down)>>),
         held' = IF down THEN held \cup {i} ELSE held \ {i},
         UNCHANGED <<position, numLock, layout, torn>>
  PROVE  Follows'
<1> DEFINE e == IF i \in Keys THEN KeyEvent(i, down) ELSE ButtonEvent(i, down)
           new == <<e>>
           code == CodeOf(i)
<1>1. UNCHANGED dev
  BY DEF Acts
<1>2. dev \in Devices /\ layout \in {1, 2} /\ numLock' \in BOOLEAN /\ held \subseteq Items
  BY DEF TypeOK, Items
<1>3. /\ e \in Event
      /\ \A c \in Kept : Writes(e, c) <=> code = c
      /\ Written(e) = IF down THEN 1 ELSE 0
  BY <1>2, ItemEvent
<1>4. code \in Codes \cup {"none"}
  BY <1>2, CodeOfItem
<1>5. \A j : CodeOf(j)' = CodeOf(j) /\ Alone(j)' = Alone(j)
  BY <1>1, <1>2, CodeOfFixed
<1>6. Acts(new)
  OBVIOUS
<1> HIDE DEF e, code
<1>7. new \in Seq(Event) /\ Len(new) = 1 /\ new[1] = e /\ DOMAIN new = {1}
  BY <1>3
<1> HIDE DEF new
<1>8. \A c \in Kept : c # code =>
         /\ \A v : Comes(c, v)' <=> Comes(c, v)
         /\ Heard(c) => Heard(c)'
  BY <1>2, <1>3, <1>6, <1>7, ComesQueued
<1>9. code \in Kept => /\ \A v : Comes(code, v)' <=> (IF down THEN 1 ELSE 0) = v
                       /\ Heard(code)'
  <2>1. PICK d : d = code
    OBVIOUS
  <2>2. d \in Kept => Writes(new[1], d)
    BY <1>3, <1>7, <2>1
  <2>3. d \in Kept => /\ \A v : Comes(d, v)' <=> Written(new[1]) = v
                      /\ Heard(d)'
    BY <1>2, <1>6, <1>7, <2>2, ComesQueued
  <2>4. d = code'
    BY <1>5, <2>1 DEF code
  <2> QED
    BY <1>3, <1>7, <2>1, <2>3, <2>4
<1>10. ASSUME NEW c \in Codes \ torn', Comes(c, 1)'
       PROVE  \E j \in held' : CodeOf(j)' = c
  <2>1. CASE c = code
    <3>1. down
      <4>1. c = code'
        BY <1>5, <2>1 DEF code
      <4> QED
        BY <1>9, <1>10, <2>1, <4>1 DEF Kept
    <3> QED
      BY <1>5, <2>1, <3>1 DEF code
  <2>2. CASE c # code
    <3>1. PICK j \in held : CodeOf(j) = c
      BY <1>8, <1>10, <2>2 DEF Follows, Kept
    <3>2. j \in held'
      BY <2>2, <3>1 DEF code
    <3> QED
      BY <1>5, <3>1, <3>2
  <2> QED
    BY <2>1, <2>2
<1>11. ASSUME NEW j \in held', CodeOf(j)' \notin torn' \cup {"none"}
       PROVE  Heard(CodeOf(j))' /\ (Alone(j)' => Comes(CodeOf(j), 1)')
  <2>1. PICK d : d = CodeOf(j)
    OBVIOUS
  <2>2. d = CodeOf(j)' /\ j \in Items /\ d \notin torn \cup {"none"}
    BY <1>2, <1>5, <1>11, <2>1
  <2>3. d \in Kept /\ d \in Codes
    BY <1>2, <2>1, <2>2, CodeOfItem DEF Kept
  <2>4. Heard(d)' /\ (Alone(j) => Comes(d, 1)')
    <3>1. CASE d = code
      <4>1. d = code'
        BY <1>5, <3>1 DEF code
      <4>2. Alone(j) => down
        BY <1>11, <2>1, <3>1 DEF Alone, code
      <4> QED
        BY <1>9, <2>3, <3>1, <4>1, <4>2
    <3>2. CASE d # code
      <4>1. j \in held
        BY <1>11, <2>1, <3>2 DEF code
      <4>2. Heard(d) /\ (Alone(j) => Comes(d, 1))
        BY <2>1, <2>2, <4>1 DEF Follows
      <4> QED
        BY <1>8, <2>3, <3>2, <4>2
    <3> QED
      BY <3>1, <3>2
  <2> QED
    BY <1>5, <2>2, <2>4
<1>12. (dev.sort = "pad")' => Comes(Stick, PadValue(position))'
  <2>1. PICK p : p = PadValue(position)
    OBVIOUS
  <2>2. Stick \in Kept /\ Stick # code /\ PadValue(position)' = p
    BY <1>4, <2>1 DEF Kept, PadValue, ApplyDeadzone, Codes, KeyCodes, ButtonCodes, Stick
  <2>3. dev.sort = "pad" => Comes(Stick, p)'
    BY <1>8, <2>1, <2>2 DEF Follows
  <2> QED
    BY <1>1, <2>2, <2>3
<1> QED
  BY <1>10, <1>11, <1>12 DEF Follows

LEMMA ItemInv ==
  ASSUME Inv, NEW i \in Items, Press(i) \/ Release(i)
  PROVE  Inv'
<1>1. PICK down \in BOOLEAN :
         /\ Acts(<<IF i \in Keys THEN KeyEvent(i, down) ELSE ButtonEvent(i, down)>>)
         /\ held' = IF down THEN held \cup {i} ELSE held \ {i}
  BY DEF Press, Release
<1>2. /\ UNCHANGED <<position, numLock, layout, moved, torn>>
      /\ TypeOK /\ Frames /\ Balanced /\ Follows
  BY DEF Press, Release, Inv
<1> DEFINE e == IF i \in Keys THEN KeyEvent(i, down) ELSE ButtonEvent(i, down)
<1>3. dev \in Devices /\ layout \in {1, 2} /\ held \subseteq Items
  BY <1>2 DEF TypeOK, Items
<1>4. e \in Event /\ \A a \in Motion : Delta(e, a) = 0
  BY <1>3, ItemEvent
<1>5. held' \subseteq Items
  BY <1>1, <1>3
<1>6. Follows'
  BY <1>1, <1>2, ItemFollows
<1>7. position' \in -PadMax - 1 .. PadMax /\ numLock' \in BOOLEAN /\ layout' \in {1, 2}
      /\ moved' \in [Motion -> Int]
  BY <1>2 DEF TypeOK
<1>8. Acts(<<e>>)
  BY <1>1
<1> HIDE DEF e
<1>9. TypeOK'
  BY <1>2, <1>5, <1>7, <1>8, QueuedTypeOK
<1>10. <<e>> \in Seq(Event) /\ \A k \in DOMAIN <<e>>, a \in Motion : Delta(<<e>>[k], a) = 0
  BY <1>4
<1>11. Frames' /\ Balanced'
  BY <1>2, <1>8, <1>10, StillBalanced
<1> QED
  BY <1>6, <1>9, <1>11 DEF Inv

(* An action that queues at most an event nobody sees.                      *)
LEMMA QuietInv ==
  ASSUME Inv, NEW new \in Seq(Event), Acts(new),
         UNCHANGED <<held, position, layout, moved, torn>>, numLock' \in BOOLEAN,
         \A k \in DOMAIN new : /\ \A c \in Kept : ~Writes(new[k], c)
                               /\ \A a \in Motion : Delta(new[k], a) = 0
  PROVE  Inv'
<1>1. TypeOK /\ Frames /\ Balanced /\ Follows
  BY DEF Inv
<1>2. held' \subseteq Items /\ position' \in -PadMax - 1 .. PadMax /\ layout' \in {1, 2}
      /\ moved' \in [Motion -> Int]
  BY <1>1 DEF TypeOK, Items
<1>3. TypeOK'
  BY <1>1, <1>2, QueuedTypeOK
<1>4. Frames' /\ Balanced'
  BY <1>1, StillBalanced
<1>5. Follows'
  BY <1>1, QuietFollows
<1> QED
  BY <1>3, <1>4, <1>5 DEF Inv

LEMMA FakeKeyInv ==
  ASSUME Inv, FakeKey
  PROVE  Inv'
<1> DEFINE e == [type |-> "vkey", vkey |-> "FAKE", isE0 |-> TRUE, down |-> TRUE]
<1>1. /\ dev.kind = "raw" /\ dev.sort = "keyboard" /\ Acts(<<e>>)
      /\ UNCHANGED <<held, position, numLock, layout, moved, torn>>
  BY DEF FakeKey
<1>2. e \in Event
  BY <1>1 DEF Event, VKeyEvent
<1>3. \A c \in Kept : ~Writes(e, c)
  BY MotionNotKept DEF Writes, RawCode
<1>4. \A a \in Motion : Delta(e, a) = 0
  BY DEF Delta
<1>5. numLock' \in BOOLEAN
  BY <1>1 DEF Inv, TypeOK
<1> HIDE DEF e
<1>6. <<e>> \in Seq(Event) /\ \A k \in DOMAIN <<e>> : <<e>>[k] = e
  BY <1>2
<1> QED
  BY <1>1, <1>3, <1>4, <1>5, <1>6, QuietInv

LEMMA SwitchNumLockInv ==
  ASSUME Inv, SwitchNumLock
  PROVE  Inv'
<1>1. /\ Acts(<<>>) /\ numLock' \in BOOLEAN
      /\ UNCHANGED <<held, position, layout, moved, torn>>
  BY DEF SwitchNumLock
<1>2. <<>> \in Seq(Event) /\ DOMAIN <<>> = {}
  OBVIOUS
<1> QED
  BY <1>1, <1>2, QuietInv

LEMMA SwitchLayoutInv ==
  ASSUME Inv, SwitchLayout
  PROVE  Inv'
<1>1. TypeOK /\ Frames /\ Balanced /\ Follows
  BY DEF Inv
<1>2. /\ dev.kind # "hidm" /\ dev.sort = "keyboard"
      /\ layout' = 3 - layout /\ Acts(<<>>)
      /\ UNCHANGED <<held, position, numLock, moved>>
  BY DEF SwitchLayout
<1>3. <<>> \in Seq(Event) /\ DOMAIN <<>> = {}
  OBVIOUS
<1>4. /\ dev \in Devices /\ layout \in {1, 2} /\ layout' \in {1, 2}
      /\ held' \subseteq Items /\ position' \in -PadMax - 1 .. PadMax
      /\ numLock' \in BOOLEAN /\ moved' \in [Motion -> Int]
  BY <1>1, <1>2 DEF TypeOK, Items
<1>5. TypeOK'
  BY <1>1, <1>2, <1>4, QueuedTypeOK
<1>6. Frames' /\ Balanced'
  BY <1>1, <1>2, <1>3, StillBalanced
<1>7. UNCHANGED <<dev, next, queue>>
  <2>1. queue \in Seq(Event) /\ queue' = queue \o <<>> /\ UNCHANGED <<dev, next>>
    BY <1>1, <1>2 DEF Acts, frames, Frames
  <2> QED
    BY <2>1, ConcatEmptySeq
<1>8. Keys' = Keys /\ Items' = Items /\ AxisMap' = AxisMap
  BY <1>7, DevFixed, AxisMapFixed
<1>9. /\ torn \subseteq torn'
      /\ "letter" \in held => {"key_q", "key_a"} \subseteq torn'
      /\ \A k \in DOMAIN queue : queue[k].type = "x11_key" /\ queue[k].key = "letter" =>
            {"key_q", "key_a"} \subseteq torn'
  <2>1. {Letter, Letter'} = {"key_q", "key_a"}
    BY <1>2, <1>4 DEF Letter
  <2> QED
    BY <2>1 DEF SwitchLayout
<1>10. \A k \in DOMAIN queue, c \in Codes \ torn' :
          Writes(queue[k], c)' <=> Writes(queue[k], c)
  <2> SUFFICES ASSUME NEW k \in DOMAIN queue, NEW c \in Codes \ torn', NEW e, e = queue[k]
               PROVE  Writes(e, c)' <=> Writes(e, c)
    BY <1>7
  <2>1. e.type = "x11_key" => (MapKeyCode(e.key)' = c <=> MapKeyCode(e.key) = c)
    <3>1. CASE e.key = "letter"
      BY <1>9, <3>1 DEF MapKeyCode, Letter
    <3>2. CASE e.key # "letter"
      BY <3>2 DEF MapKeyCode
    <3> QED
      BY <3>1, <3>2
  <2> QED
    BY <1>8, <2>1 DEF Writes
<1>11. \A c \in Codes \ torn' : /\ \A v : Comes(c, v)' <=> Comes(c, v)
                                /\ Heard(c)' <=> Heard(c)
  BY <1>7, <1>10 DEF Comes, Heard, ComesIn, HeardIn
<1>12. \A i \in Items \ {"letter"} :
          CodeOf(i)' = CodeOf(i) /\ CodeOf(i) \notin {"key_q", "key_a"}
  <2>1. CASE dev.kind = "x11"
    BY <1>2, <1>7, <1>8, <2>1 DEF CodeOf, Items, Buttons, Keys, MapKeyCode
  <2>2. CASE dev.kind = "raw"
    <3> SUFFICES ASSUME NEW i \in Items \ {"letter"}
                 PROVE  CodeOf(i)' = CodeOf(i) /\ CodeOf(i) \notin {"key_q", "key_a"}
      OBVIOUS
    <3>1. i \in Keys
      BY <1>2 DEF Items, Buttons
    <3>2. VKey(i)' = VKey(i) /\ VKey(i) \in {"NUMPAD7", "HOME", "CONTROL", "MEDIA"}
      BY <1>2, <2>2, <3>1 DEF VKey, Keys
    <3>3. RawCode(VKey(i), IsE0(i))' = RawCode(VKey(i), IsE0(i))
      BY <3>2 DEF RawCode, MapToInputCode, Fixup, IsE0
    <3>4. RawCode(VKey(i), IsE0(i)) \notin {"key_q", "key_a"}
      BY <3>2 DEF RawCode, MapToInputCode, Fixup, VKeyCodes
    <3> QED
      BY <1>7, <1>8, <2>2, <3>1, <3>3, <3>4 DEF CodeOf
  <2> QED
    BY <1>2, <1>4, <2>1, <2>2, DevFacts
<1>13. CodeOf("letter") \in {"key_q", "key_a", "none"}
       /\ CodeOf("letter")' \in {"key_q", "key_a", "none"}
  <2>1. "letter" \in Keys
    BY <1>2, <1>4, DevFacts DEF Keys
  <2>2. CASE dev.kind = "x11"
    BY <1>7, <1>8, <2>1, <2>2 DEF CodeOf, MapKeyCode, Letter
  <2>3. CASE dev.kind = "raw"
    <3>1. VKey("letter") \in {"Q", "A"} /\ VKey("letter")' \in {"Q", "A"}
      BY DEF VKey
    <3>2. /\ RawCode(VKey("letter"), IsE0("letter")) \in {"key_q", "key_a"}
          /\ RawCode(VKey("letter"), IsE0("letter"))' \in {"key_q", "key_a"}
      BY <3>1 DEF RawCode, MapToInputCode, Fixup, VKeyCodes
    <3> QED
      BY <1>7, <1>8, <2>1, <2>3, <3>2 DEF CodeOf
  <2> QED
    BY <1>2, <1>4, <2>2, <2>3, DevFacts
<1>14. ASSUME NEW c \in Codes \ torn', Comes(c, 1)'
       PROVE  \E i \in held' : CodeOf(i)' = c
  <2>1. PICK i \in held : CodeOf(i) = c
    BY <1>1, <1>9, <1>11, <1>14 DEF Follows
  <2>2. i # "letter"
    BY <1>9, <1>13, <1>14, <2>1 DEF Codes, KeyCodes, ButtonCodes
  <2> QED
    BY <1>2, <1>4, <1>12, <2>1, <2>2
<1>15. ASSUME NEW i \in held', CodeOf(i)' \notin torn' \cup {"none"}
       PROVE  Heard(CodeOf(i))' /\ (Alone(i)' => Comes(CodeOf(i), 1)')
  <2>1. i # "letter" /\ i \in held /\ i \in Items
    BY <1>2, <1>4, <1>9, <1>13, <1>15
  <2>2. PICK d : d = CodeOf(i)
    OBVIOUS
  <2>3. d = CodeOf(i)' /\ d \notin torn' \cup {"none"} /\ d \notin torn
    BY <1>9, <1>12, <1>15, <2>1, <2>2
  <2>4. d \in Codes
    BY <1>4, <2>1, <2>2, <2>3, CodeOfItem
  <2>5. Alone(i)' => Alone(i)
    <3> SUFFICES ASSUME Alone(i)', NEW j \in Items, CodeOf(j) = CodeOf(i)
                 PROVE  j = i
      BY DEF Alone
    <3>1. j # "letter"
      BY <1>12, <1>13, <2>1, <2>2, <2>3
    <3>2. CodeOf(j)' = CodeOf(i)'
      BY <1>12, <2>1, <3>1
    <3> QED
      BY <1>8, <3>2 DEF Alone
  <2>6. Heard(d) /\ (Alone(i) => Comes(d, 1))
    BY <1>1, <2>1, <2>2, <2>3 DEF Follows
  <2>7. Heard(d)' /\ (Alone(i) => Comes(d, 1)')
    BY <1>11, <2>3, <2>4, <2>6
  <2> QED
    BY <2>3, <2>5, <2>7
<1>16. Follows'
  BY <1>2, <1>7, <1>14, <1>15 DEF Follows
<1> QED
  BY <1>5, <1>6, <1>16 DEF Inv

LEMMA SteerInv ==
  ASSUME Inv, NEW raw \in -PadMax - 1 .. PadMax, Steer(raw)
  PROVE  Inv'
<1> DEFINE e == [type |-> "element", element |-> "stick_y", value |-> raw]
           new == <<e>>
<1>1. TypeOK /\ Frames /\ Balanced /\ Follows
  BY DEF Inv
<1>2. /\ dev.sort = "pad" /\ position' = raw /\ Acts(new)
      /\ UNCHANGED <<held, numLock, layout, moved, torn>>
  BY DEF Steer
<1>3. /\ dev \in Devices /\ dev.kind = "hidm" /\ layout \in {1, 2} /\ held \subseteq Items
      /\ numLock' \in BOOLEAN /\ layout' \in {1, 2} /\ held' \subseteq Items
      /\ moved' \in [Motion -> Int]
  BY <1>1, <1>2, DevFacts DEF TypeOK, Items
<1>4. TypeOK'
  <2> HIDE DEF new
  <2> QED
    BY <1>1, <1>2, <1>3, QueuedTypeOK
<1>5. e \in Event
  <2>1. e \in StickElement
    BY DEF StickElement
  <2> QED
    BY <1>2, <1>3, <2>1 DEF Event
<1>6. \A c : Writes(e, c) <=> c = Stick
  <2>1. "stick_y" \in DOMAIN AxisMap /\ AxisMap["stick_y"] = Stick
    BY <1>2, <1>3, ElementAxes
  <2> QED
    BY <2>1 DEF Writes
<1>7. Written(e) = PadValue(raw)
  BY DEF Written
<1>8. \A a \in Motion : Delta(e, a) = 0
  <2>1. AxisMap["stick_y"] = Stick
    BY <1>2, <1>3, ElementAxes
  <2> QED
    BY <2>1 DEF Delta, Motion, Stick
<1> HIDE DEF e
<1>9. new \in Seq(Event) /\ Len(new) = 1 /\ new[1] = e /\ DOMAIN new = {1}
  BY <1>5
<1> HIDE DEF new
<1>10. Frames' /\ Balanced'
  BY <1>1, <1>2, <1>8, <1>9, StillBalanced
<1>11. UNCHANGED dev
  BY <1>2 DEF Acts
<1>12. \A i : CodeOf(i)' = CodeOf(i) /\ Alone(i)' = Alone(i)
  BY <1>1, <1>2, <1>3, <1>11, CodeOfFixed
<1>13. \A c \in Codes : /\ \A v : Comes(c, v)' <=> Comes(c, v)
                        /\ Heard(c) => Heard(c)'
  <2> SUFFICES ASSUME NEW c \in Codes
               PROVE  /\ \A v : Comes(c, v)' <=> Comes(c, v)
                      /\ Heard(c) => Heard(c)'
    OBVIOUS
  <2>1. c # Stick
    BY DEF Codes, KeyCodes, ButtonCodes, Stick
  <2>2. \A k \in DOMAIN new : ~Writes(new[k], c)
    BY <1>6, <1>9, <2>1
  <2> QED
    BY <1>1, <1>2, <1>3, <1>9, <2>2, ComesQueued
<1>14. \A i \in held : CodeOf(i) \in Codes \cup {"none"}
  BY <1>3, CodeOfItem
<1>15. \A c \in Codes \ torn' : Comes(c, 1)' => \E i \in held' : CodeOf(i)' = c
  BY <1>1, <1>2, <1>12, <1>13 DEF Follows
<1>16. ASSUME NEW i \in held', CodeOf(i)' \notin torn' \cup {"none"}
       PROVE  Heard(CodeOf(i))' /\ (Alone(i)' => Comes(CodeOf(i), 1)')
  <2>1. PICK d : d = CodeOf(i)
    OBVIOUS
  <2>2. d = CodeOf(i)' /\ d \notin torn \cup {"none"} /\ i \in held
    BY <1>2, <1>12, <1>16, <2>1
  <2>3. d \in Codes /\ Heard(d) /\ (Alone(i) => Comes(d, 1))
    BY <1>1, <1>14, <2>1, <2>2 DEF Follows
  <2>4. Heard(d)' /\ (Alone(i) => Comes(d, 1)')
    BY <1>13, <2>3
  <2> QED
    BY <1>12, <2>2, <2>4
<1>17. (dev.sort = "pad")' => Comes(Stick, PadValue(position))'
  <2>1. PICK p : p = PadValue(raw)
    OBVIOUS
  <2>2. PadValue(position)' = p
    BY <1>2, <2>1 DEF PadValue, ApplyDeadzone
  <2>3. Writes(new[1], Stick) /\ Written(new[1]) = p
    BY <1>6, <1>7, <1>9, <2>1
  <2>4. Comes(Stick, p)'
    BY <1>1, <1>2, <1>3, <1>9, <2>3, ComesQueued DEF Stick
  <2> QED
    BY <2>2, <2>4
<1>18. Follows'
  BY <1>15, <1>16, <1>17 DEF Follows
<1> QED
  BY <1>4, <1>10, <1>18 DEF Inv

(* Every place in a report is that of one valuator.                         *)
LEMMA UpToAll ==
  ASSUME NEW mask \in SUBSET Valuator, NEW k \in 1 .. Cardinality(mask)
  PROVE  \E n \in mask : UpTo(mask, n) = k
<1> DEFINE f == [n \in mask |-> UpTo(mask, n)]
<1>1. IsFiniteSet(mask)
  <2>1. Valuator = {"x"} \cup {"y"} \cup {"horizontal"} \cup {"wheel"}
    BY DEF Valuator
  <2>2. IsFiniteSet(Valuator)
    BY <2>1, FS_Singleton, FS_Union
  <2> QED
    BY <2>2, FS_Subset
<1>2. Cardinality(mask) \in Nat
  BY <1>1, FS_CardinalityType
<1>3. f \in Injection(mask, 1 .. Cardinality(mask))
  <2>1. \A m, n \in mask : f[m] = f[n] => m = n
    BY UpToOne
  <2>2. f \in [mask -> 1 .. Cardinality(mask)]
    BY UpToBounds
  <2> HIDE DEF f
  <2> QED
    BY <2>1, <2>2 DEF Injection, IsInjective
<1>4. /\ IsFiniteSet(1 .. Cardinality(mask))
      /\ Cardinality(1 .. Cardinality(mask)) = Cardinality(mask)
  BY <1>2, FS_Interval
<1>5. f \in Surjection(mask, 1 .. Cardinality(mask))
  <2> HIDE DEF f
  <2> QED
    BY <1>3, <1>4, FS_Injection
<1>6. \E n \in mask : f[n] = k
  <2> HIDE DEF f
  <2> QED
    BY <1>5 DEF Surjection
<1> QED
  BY <1>6

LEMMA PackedValues ==
  ASSUME NEW mask \in SUBSET Valuator, NEW d \in {-1, 1}
  PROVE  /\ Packed(mask, d) \in Seq(Int) /\ Len(Packed(mask, d)) = Cardinality(mask)
         /\ \A n \in mask : Amount(n, d) \in Int
                            /\ Packed(mask, d)[UpTo(mask, n)] = Amount(n, d)
<1> DEFINE c == Cardinality(mask)
           at(k) == CHOOSE n \in mask : UpTo(mask, n) = k
           p == [k \in 1 .. c |-> Amount(at(k), d)]
<1>1. \A n \in Valuator : Amount(n, d) \in Int
  BY DEF Amount, Number, Valuator
<1>2. \A k \in 1 .. c : at(k) \in mask /\ UpTo(mask, at(k)) = k
  BY UpToAll
<1>3. c \in Nat
  <2>1. Valuator = {"x"} \cup {"y"} \cup {"horizontal"} \cup {"wheel"}
    BY DEF Valuator
  <2>2. IsFiniteSet(Valuator)
    BY <2>1, FS_Singleton, FS_Union
  <2> QED
    BY <2>2, FS_Subset, FS_CardinalityType
<1>4. Packed(mask, d) = p
  BY DEF Packed
<1>5. \A n \in mask : UpTo(mask, n) \in 1 .. c /\ at(UpTo(mask, n)) = n
  <2> SUFFICES ASSUME NEW n \in mask
               PROVE  UpTo(mask, n) \in 1 .. c /\ at(UpTo(mask, n)) = n
    OBVIOUS
  <2>1. UpTo(mask, n) \in 1 .. c
    BY UpToBounds
  <2>2. at(UpTo(mask, n)) \in mask /\ UpTo(mask, at(UpTo(mask, n))) = UpTo(mask, n)
    BY <1>2, <2>1
  <2> HIDE DEF at
  <2> QED
    BY <2>1, <2>2, UpToOne
<1> HIDE DEF at
<1>6. \A k \in 1 .. c : Amount(at(k), d) \in Int
  BY <1>1, <1>2
<1>7. p \in Seq(Int) /\ Len(p) = c
  <2>1. p \in [1 .. c -> Int]
    BY <1>6
  <2> HIDE DEF p
  <2> QED
    BY <1>3, <2>1, LenProperties, SeqDef
<1>8. \A n \in mask : p[UpTo(mask, n)] = Amount(n, d)
  BY <1>5
<1> QED
  BY <1>1, <1>4, <1>7, <1>8

(* How far a report moves an axis.                                          *)
Travel(mask, d, a) ==
  IF \E n \in mask : AxisOf(n) = a
  THEN Amount(CHOOSE n \in mask : AxisOf(n) = a, d) ELSE 0

LEMMA TravelOf ==
  ASSUME NEW mask \in SUBSET Valuator, NEW d \in {-1, 1}, NEW a \in Motion
  PROVE  /\ \A n \in mask : AxisOf(n) = a =>
               (CHOOSE m \in mask : AxisOf(m) = a) = n /\ Travel(mask, d, a) = Amount(n, d)
         /\ (\A n \in mask : AxisOf(n) # a) => Travel(mask, d, a) = 0
         /\ Travel(mask, d, a) \in Int
<1>1. ASSUME NEW n \in mask, AxisOf(n) = a
      PROVE  (CHOOSE m \in mask : AxisOf(m) = a) = n /\ Travel(mask, d, a) = Amount(n, d)
  <2>1. \A m \in mask : AxisOf(m) = a => m = n
    BY <1>1, AxisOfOne
  <2>2. (CHOOSE m \in mask : AxisOf(m) = a) = n
    BY <1>1, <2>1
  <2> QED
    BY <1>1, <2>2 DEF Travel
<1>2. (\A n \in mask : AxisOf(n) # a) => Travel(mask, d, a) = 0
  BY DEF Travel
<1>3. \A n \in mask : Amount(n, d) \in Int
  BY DEF Amount, Number, Valuator
<1> QED
  BY <1>1, <1>2, <1>3

(* What the events of a report are: they move each axis by as much as the   *)
(* report does, and write no axis that is kept.                             *)
Reported(new, mask, d) ==
  /\ new \in Seq(Event)
  /\ \A k \in DOMAIN new, c \in Kept : ~Writes(new[k], c)
  /\ \A a \in Motion : Counted(a) =>
        \E q : Adds(q, new, a) /\ q[0] = 0 /\ q[Len(new)] = Travel(mask, d, a)

LEMMA X11Report ==
  ASSUME TypeOK, dev.kind = "x11", NEW mask \in SUBSET Valuators, NEW d \in {-1, 1}
  PROVE  Reported(MotionEvents(mask, d), mask, d)
<1> DEFINE m == [type |-> "x11_motion", mask |-> mask, values |-> Packed(mask, d)]
           b == [type |-> "x11_button", detail |-> 4, down |-> TRUE]
           new == MotionEvents(mask, d)
<1>1. mask \in SUBSET Valuator
  BY DEF Valuators, Valuator
<1>2. m \in Event /\ b \in Event
  <2>1. Packed(mask, d) \in Seq(Int) /\ Len(Packed(mask, d)) = Cardinality(mask)
    BY <1>1, PackedValues
  <2>2. m \in X11Motion
    BY <1>1, <2>1 DEF X11Motion
  <2>3. b \in X11Button
    BY DEF X11Button
  <2> QED
    BY <2>2, <2>3 DEF Event
<1>3. \A c \in Kept : ~Writes(m, c) /\ ~Writes(b, c)
  BY MotionNotKept DEF Writes, MapButtonCode
<1>4. \A a \in Motion : Delta(m, a) = Travel(mask, d, a) /\ Delta(b, a) = 0
  <2> SUFFICES ASSUME NEW a \in Motion
               PROVE  Delta(m, a) = Travel(mask, d, a) /\ Delta(b, a) = 0
    OBVIOUS
  <2>1. Delta(b, a) = 0
    BY DEF Delta
  <2>2. CASE \A n \in mask : AxisOf(n) # a
    BY <1>1, <2>1, <2>2, TravelOf DEF Delta
  <2>3. CASE \E n \in mask : AxisOf(n) = a
    <3>1. PICK n \in mask : AxisOf(n) = a
      BY <2>3
    <3>2. (CHOOSE o \in mask : AxisOf(o) = a) = n /\ Travel(mask, d, a) = Amount(n, d)
      BY <1>1, <3>1, TravelOf
    <3>3. Packed(mask, d)[UpTo(mask, n)] = Amount(n, d)
      BY <1>1, PackedValues
    <3>4. Delta(m, a) = RawValue(m, n)
      BY <2>3, <3>2 DEF Delta
    <3>5. RawValue(m, n) = Packed(mask, d)[UpTo(mask, n)]
      BY DEF RawValue
    <3> QED
      BY <2>1, <3>2, <3>3, <3>4, <3>5
  <2> QED
    BY <2>2, <2>3
<1>5. new = <<m>> \o IF "wheel" \in mask THEN <<b>> ELSE <<>>
  BY DEF MotionEvents
<1> HIDE DEF m, b, new
<1>6. /\ new \in Seq(Event) /\ Len(new) \in {1, 2} /\ DOMAIN new = 1 .. Len(new)
      /\ new[1] = m /\ (Len(new) = 2 => new[2] = b)
  <2>1. <<m>> \in Seq(Event) /\ <<b>> \in Seq(Event) /\ <<>> \in Seq(Event)
    BY <1>2
  <2>2. Len(<<m>>) = 1 /\ Len(<<b>>) = 1 /\ <<m>>[1] = m /\ <<b>>[1] = b
    OBVIOUS
  <2>3. CASE "wheel" \in mask
    <3>1. new = <<m>> \o <<b>>
      BY <1>5, <2>3
    <3> QED
      BY <2>1, <2>2, <3>1
  <2>4. CASE "wheel" \notin mask
    <3>1. new = <<m>>
      BY <1>5, <2>1, <2>4, ConcatEmptySeq
    <3> QED
      BY <2>1, <2>2, <3>1
  <2> QED
    BY <2>3, <2>4
<1>7. \A k \in DOMAIN new : new[k] = m \/ new[k] = b
  BY <1>6
<1>8. ASSUME NEW a \in Motion
      PROVE  \E q : Adds(q, new, a) /\ q[0] = 0 /\ q[Len(new)] = Travel(mask, d, a)
  <2> DEFINE w == Travel(mask, d, a)
             q == [k \in 0 .. Len(new) |-> IF k = 0 THEN 0 ELSE w]
  <2>1. w \in Int
    BY <1>1, TravelOf
  <2>2. Delta(m, a) = w /\ Delta(b, a) = 0
    BY <1>4
  <2> HIDE DEF w
  <2>3. q \in [0 .. Len(new) -> Int] /\ q[0] = 0 /\ q[1] = w /\ q[Len(new)] = w
    BY <1>6, <2>1
  <2>4. Len(new) = 2 => q[2] = w
    BY <2>3
  <2> HIDE DEF q
  <2>5. \A k \in 1 .. Len(new) : Delta(new[k], a) \in Int /\ q[k] = q[k - 1] + Delta(new[k], a)
    <3>1. CASE Len(new) = 1
      BY <1>6, <2>1, <2>2, <2>3, <3>1
    <3>2. CASE Len(new) = 2
      <4>1. Delta(new[1], a) \in Int /\ q[1] = q[1 - 1] + Delta(new[1], a)
        BY <1>6, <2>1, <2>2, <2>3
      <4>2. Delta(new[2], a) \in Int /\ q[2] = q[2 - 1] + Delta(new[2], a)
        BY <1>6, <2>1, <2>2, <2>3, <2>4, <3>2
      <4>3. 1 .. Len(new) = {1, 2}
        BY <3>2
      <4> QED
        BY <4>1, <4>2, <4>3
    <3> QED
      BY <1>6, <3>1, <3>2
  <2>6. Adds(q, new, a)
    BY <2>3, <2>5 DEF Adds
  <2> QED
    BY <2>3, <2>6 DEF w
<1> QED
  BY <1>3, <1>6, <1>7, <1>8 DEF Reported, new

LEMMA RawReport ==
  ASSUME TypeOK, dev.kind = "raw", NEW mask \in SUBSET Valuators, NEW d \in {-1, 1},
         ~({"horizontal", "wheel"} \subseteq mask), dev.sort = "mouse"
  PROVE  Reported(MotionEvents(mask, d), mask, d)
<1> DEFINE in(n) == IF n \in mask THEN Amount(n, d) ELSE 0
           rolled == IF "wheel" \in mask THEN "wheel" ELSE "horizontal"
           e == RawMouse(<<in("x"), in("y"), in(rolled)>>, "wheel" \in mask, {}, {})
           new == MotionEvents(mask, d)
<1>1. mask \in SUBSET Valuator
  BY DEF Valuators, Valuator
<1>2. \A n \in Valuator : in(n) \in Int
  BY DEF Amount, Number, Valuator
<1>3. new = <<e>>
  BY DEF MotionEvents
<1>4. e = [type |-> "raw_mouse", x |-> in("x"), y |-> in("y"), data |-> in(rolled),
           wheel |-> "wheel" \in mask, down |-> {}, up |-> {}]
  BY DEF RawMouse
<1>5. \A a \in Motion : Travel(mask, d, a) = CASE a = "mouse_x" -> in("x")
                                               [] a = "mouse_y" -> in("y")
                                               [] a = "mouse_wheel" -> in("wheel")
  <2> SUFFICES ASSUME NEW a \in Motion, NEW n \in Valuator, AxisOf(n) = a
               PROVE  Travel(mask, d, a) = in(n)
    BY DEF Motion, AxisOf, Valuator
  <2>1. CASE n \in mask
    BY <1>1, <2>1, TravelOf
  <2>2. CASE n \notin mask
    <3>1. \A m \in mask : AxisOf(m) # a
      BY <1>1, <2>2, AxisOfOne
    <3> QED
      BY <1>1, <2>2, <3>1, TravelOf
  <2> QED
    BY <2>1, <2>2
<1>6. in("x") \in Int /\ in("y") \in Int /\ in(rolled) \in Int
      /\ ("wheel" \in mask => in(rolled) = in("wheel"))
      /\ ("wheel" \notin mask => in("wheel") = 0)
  BY <1>2 DEF Valuator
<1> HIDE DEF in, rolled, e, new
<1>7. \A a \in Motion : Delta(e, a) = Travel(mask, d, a) /\ Delta(e, a) \in Int
  <2>1. \A a \in Motion : Delta(e, a) =
           IF a = "mouse_x" THEN in("x") ELSE IF a = "mouse_y" THEN in("y")
           ELSE IF "wheel" \in mask THEN in(rolled) ELSE 0
    BY <1>4 DEF Delta
  <2> QED
    BY <1>5, <1>6, <2>1 DEF Motion
<1>8. e \in Event
  <2>1. e \in RawMouseEvent
    BY <1>4, <1>6 DEF RawMouseEvent
  <2> QED
    BY <2>1 DEF Event
<1>9. \A c : ~Writes(e, c)
  BY <1>4 DEF Writes
<1>10. new \in Seq(Event) /\ Len(new) = 1 /\ new[1] = e /\ DOMAIN new = {1}
  BY <1>3, <1>8
<1>11. ASSUME NEW a \in Motion
       PROVE  \E q : Adds(q, new, a) /\ q[0] = 0 /\ q[Len(new)] = Travel(mask, d, a)
  <2> DEFINE w == Travel(mask, d, a)
             q == [k \in 0 .. Len(new) |-> IF k = 0 THEN 0 ELSE w]
  <2>1. Delta(e, a) = w /\ w \in Int
    BY <1>7
  <2> HIDE DEF w
  <2>2. q \in [0 .. Len(new) -> Int] /\ q[0] = 0 /\ q[1] = w
    BY <1>10, <2>1
  <2> HIDE DEF q
  <2>3. \A k \in 1 .. Len(new) : Delta(new[k], a) \in Int /\ q[k] = q[k - 1] + Delta(new[k], a)
    BY <1>10, <2>1, <2>2
  <2>4. Adds(q, new, a)
    BY <2>2, <2>3 DEF Adds
  <2> QED
    BY <1>10, <2>2, <2>4 DEF w
<1> QED
  BY <1>9, <1>10, <1>11 DEF Reported, new

LEMMA HidmReport ==
  ASSUME TypeOK, dev.kind = "hidm", NEW mask \in SUBSET Valuators, NEW d \in {-1, 1},
         dev.sort = "mouse"
  PROVE  Reported(MotionEvents(mask, d), mask, d)
<1> DEFINE last == Cardinality(mask)
           at(k) == CHOOSE n \in mask : UpTo(mask, n) = k
           event(k) == [type |-> "element", element |-> at(k), value |-> Amount(at(k), d)]
           new == MotionEvents(mask, d)
<1>1. mask \in SUBSET Valuator /\ dev \in Devices
  BY DEF Valuators, Valuator, TypeOK
<1>2. new = [k \in 1 .. last |-> event(k)]
  BY DEF MotionEvents
<1>3. \A k \in 1 .. last : at(k) \in mask /\ UpTo(mask, at(k)) = k
  BY <1>1, UpToAll
<1>4. last \in Nat /\ \A n \in mask : UpTo(mask, n) \in 1 .. last
  <2>1. \A n \in mask : UpTo(mask, n) \in 1 .. last
    BY <1>1, UpToBounds
  <2>2. Valuator = {"x"} \cup {"y"} \cup {"horizontal"} \cup {"wheel"}
    BY DEF Valuator
  <2>3. IsFiniteSet(Valuator)
    BY <2>2, FS_Singleton, FS_Union
  <2> QED
    BY <1>1, <2>1, <2>3, FS_Subset, FS_CardinalityType
<1>5. \A n \in Valuator : Amount(n, d) \in Int
  BY DEF Amount, Number, Valuator
<1> HIDE DEF at, last
<1>6. \A k \in 1 .. last : event(k) \in Event
  <2> SUFFICES ASSUME NEW k \in 1 .. last PROVE event(k) \in Event
    OBVIOUS
  <2>1. at(k) \in Valuators /\ Amount(at(k), d) \in Int
    BY <1>1, <1>3, <1>5
  <2>2. event(k) \in MotionElement
    BY <2>1 DEF MotionElement
  <2> QED
    BY <2>2 DEF Event
<1>7. \A n \in mask : /\ n \in DOMAIN AxisMap <=> n # "horizontal"
                      /\ n # "horizontal" => AxisMap[n] = AxisOf(n)
                      /\ AxisOf(n) \in Motion \cup {"none"}
                      /\ n = "horizontal" => AxisOf(n) = "none"
  <2>1. /\ DOMAIN AxisMap = Buttons \cup (Valuators \ {"horizontal"})
        /\ \A e \in Valuators \ {"horizontal"} : AxisMap[e] = AxisOf(e)
    BY <1>1, ElementAxes
  <2>2. "horizontal" \notin Buttons
    BY DEF Buttons
  <2>3. /\ \A n \in Valuator : AxisOf(n) \in Motion \cup {"none"}
        /\ AxisOf("horizontal") = "none"
    BY DEF AxisOf, Motion, Valuator
  <2> QED
    BY <1>1, <2>1, <2>2, <2>3
<1>8. \A k \in 1 .. last, c \in Kept : ~Writes(event(k), c)
  <2> SUFFICES ASSUME NEW k \in 1 .. last, NEW c \in Kept PROVE ~Writes(event(k), c)
    OBVIOUS
  <2>1. at(k) \in mask
    BY <1>3
  <2>2. at(k) \in DOMAIN AxisMap => AxisMap[at(k)] # c
    BY <1>7, <2>1, MotionNotKept
  <2> QED
    BY <2>2 DEF Writes
<1>9. \A k \in 1 .. last, a \in Motion :
         Delta(event(k), a) = IF AxisOf(at(k)) = a THEN Amount(at(k), d) ELSE 0
  <2> SUFFICES ASSUME NEW k \in 1 .. last, NEW a \in Motion
               PROVE  Delta(event(k), a) = IF AxisOf(at(k)) = a THEN Amount(at(k), d) ELSE 0
    OBVIOUS
  <2>1. at(k) \in mask
    BY <1>3
  <2>2. (at(k) \in DOMAIN AxisMap /\ AxisMap[at(k)] = a) <=> AxisOf(at(k)) = a
    BY <1>7, <2>1, MotionNotKept
  <2> QED
    BY <2>2 DEF Delta
<1> HIDE DEF event, new
<1>10. new \in Seq(Event) /\ Len(new) = last /\ DOMAIN new = 1 .. last
       /\ \A k \in 1 .. last : new[k] = event(k)
  <2>1. new \in [1 .. last -> Event]
    BY <1>2, <1>6
  <2>2. new \in Seq(Event)
    BY <1>4, <2>1, SeqDef
  <2>3. Len(new) = last
    BY <1>4, <2>1, <2>2, LenProperties
  <2> QED
    BY <1>2, <2>1, <2>2, <2>3
<1>11. ASSUME NEW a \in Motion
       PROVE  \E q : Adds(q, new, a) /\ q[0] = 0 /\ q[Len(new)] = Travel(mask, d, a)
  <2>1. CASE \A n \in mask : AxisOf(n) # a
    <3> DEFINE q == [k \in 0 .. last |-> 0]
    <3>1. q \in [0 .. Len(new) -> Int] /\ q[0] = 0 /\ q[last] = 0
          /\ \A k \in 1 .. last : q[k] = 0 /\ q[k - 1] = 0
      <4>1. \A k \in 1 .. last : k \in 0 .. last /\ k - 1 \in 0 .. last
        BY <1>4
      <4> QED
        BY <1>4, <1>10, <4>1
    <3> HIDE DEF q
    <3>2. \A k \in 1 .. last : Delta(new[k], a) = 0
      BY <1>3, <1>9, <1>10, <2>1
    <3>3. Adds(q, new, a)
      BY <1>10, <3>1, <3>2 DEF Adds
    <3>4. Travel(mask, d, a) = 0
      BY <1>1, <2>1, TravelOf
    <3> QED
      BY <1>10, <3>1, <3>3, <3>4
  <2>2. CASE \E n \in mask : AxisOf(n) = a
    <3>1. PICK n \in mask : AxisOf(n) = a
      BY <2>2
    <3> DEFINE w == Amount(n, d)
               m == UpTo(mask, n)
               q == [k \in 0 .. last |-> IF m <= k THEN w ELSE 0]
    <3>2. w \in Int /\ m \in 1 .. last /\ Travel(mask, d, a) = w
      BY <1>1, <1>4, <1>5, <3>1, TravelOf
    <3>3. \A k \in 1 .. last : Delta(new[k], a) = IF k = m THEN w ELSE 0
      <4> SUFFICES ASSUME NEW k \in 1 .. last
                   PROVE  Delta(new[k], a) = IF k = m THEN w ELSE 0
        OBVIOUS
      <4>1. at(k) \in mask /\ UpTo(mask, at(k)) = k
        BY <1>3
      <4>2. k = m => at(k) = n
        BY <1>1, <4>1, UpToOne
      <4>3. AxisOf(at(k)) = a => at(k) = n
        BY <1>1, <3>1, <4>1, AxisOfOne
      <4>4. Delta(new[k], a) = IF AxisOf(at(k)) = a THEN Amount(at(k), d) ELSE 0
        BY <1>9, <1>10
      <4>5. AxisOf(at(k)) = a <=> k = m
        BY <3>1, <4>1, <4>2, <4>3
      <4> QED
        BY <4>2, <4>4, <4>5
    <3> HIDE DEF w, m
    <3>4. q \in [0 .. Len(new) -> Int] /\ q[0] = 0 /\ q[last] = w
      BY <1>4, <1>10, <3>2
    <3>5. \A k \in 1 .. last : q[k] = q[k - 1] + IF k = m THEN w ELSE 0
      <4> SUFFICES ASSUME NEW k \in 1 .. last
                   PROVE  q[k] = q[k - 1] + IF k = m THEN w ELSE 0
        OBVIOUS
      <4>1. k \in 0 .. last /\ k - 1 \in 0 .. last /\ k \in Int /\ m \in Int
        BY <1>4, <3>2
      <4>2. q[k] = (IF m <= k THEN w ELSE 0) /\ q[k - 1] = IF m <= k - 1 THEN w ELSE 0
        BY <4>1
      <4> HIDE DEF q
      <4> QED
        BY <3>2, <4>1, <4>2
    <3> HIDE DEF q
    <3>6. Adds(q, new, a)
      BY <1>10, <3>2, <3>3, <3>4, <3>5 DEF Adds
    <3> QED
      BY <1>10, <3>2, <3>4, <3>6
  <2> QED
    BY <2>1, <2>2
<1>12. \A k \in DOMAIN new, c \in Kept : ~Writes(new[k], c)
  BY <1>8, <1>10
<1> QED
  BY <1>10, <1>11, <1>12 DEF Reported, new

LEMMA MoveInv ==
  ASSUME Inv, NEW mask \in Reports, NEW d \in {-1, 1}, Move(mask, d)
  PROVE  Inv'
<1>1. TypeOK /\ Frames /\ Balanced /\ Follows
  BY DEF Inv
<1> DEFINE new == MotionEvents(mask, d)
<1>2. /\ mask \in SUBSET Valuators /\ mask \in SUBSET Valuator /\ mask # {}
      /\ dev.kind = "raw" => ~({"horizontal", "wheel"} \subseteq mask)
      /\ moved' = [a \in Motion |-> moved[a] + Travel(mask, d, a)]
      /\ Acts(new)
      /\ UNCHANGED <<held, position, numLock, layout, torn>>
  BY PipelineAssumption DEF PipelineAssumption, Move, Travel
<1>3. /\ dev \in Devices /\ held' \subseteq Items /\ position' \in -PadMax - 1 .. PadMax
      /\ numLock' \in BOOLEAN /\ layout' \in {1, 2}
  BY <1>1, <1>2 DEF TypeOK, Items
<1>4. moved' \in [Motion -> Int]
  <2>1. \A a \in Motion : moved[a] \in Int /\ Travel(mask, d, a) \in Int
    BY <1>1, <1>2, TravelOf DEF Frames
  <2> QED
    BY <1>2, <2>1
<1>5. Reported(new, mask, d)
  <2>1. dev.sort = "mouse"
    BY <1>2 DEF Valuators
  <2> QED
    BY <1>1, <1>2, <1>3, <2>1, DevFacts, X11Report, RawReport, HidmReport
<1> HIDE DEF new
<1>6. TypeOK'
  BY <1>1, <1>2, <1>3, <1>4, QueuedTypeOK
<1>7. \A a \in Motion : Counted(a) =>
         \E q : Adds(q, new, a) /\ q[0] = 0 /\ moved'[a] = moved[a] + q[Len(new)]
  BY <1>2, <1>5 DEF Reported
<1>8. new \in Seq(Event) /\ \A k \in DOMAIN new, c \in Kept : ~Writes(new[k], c)
  BY <1>5 DEF Reported
<1>9. Frames' /\ Balanced'
  BY <1>1, <1>2, <1>4, <1>7, <1>8, QueuedBalanced
<1>10. Follows'
  BY <1>1, <1>2, <1>3, <1>8, QuietFollows
<1> QED
  BY <1>6, <1>9, <1>10 DEF Inv

-----------------------------------------------------------------------------
(* The library's steps.                                                     *)

LEMMA UpdateInv ==
  ASSUME Inv, Update
  PROVE  Inv'
<1>1. TypeOK /\ Frames /\ Balanced /\ Follows
  BY DEF Inv
<1> DEFINE e == Head(queue)
<1>2. /\ queue # <<>> /\ queue \in Seq(Event) /\ queue' = Tail(queue)
      /\ next' = Updated(e)
      /\ current' = [a \in DOMAIN next' |-> IF a \in DOMAIN current THEN current[a] ELSE 0]
      /\ hasLast' = (hasLast \/ (e.type = "raw_mouse" /\ dev.absolute))
      /\ lost' = [a \in Motion |->
            lost[a] + IF /\ e.type = "element" /\ e.element \in DOMAIN AxisMap
                         /\ AxisMap[e.element] = a
                      THEN next[a] ELSE 0]
      /\ UNCHANGED <<user, pc, moved, shown, torn, events, failures>>
  BY <1>1 DEF Update, Readable, Frames
<1>3. UNCHANGED <<dev, held, position, numLock, layout>>
  BY <1>2 DEF user
<1>4. e \in Event /\ Tail(queue) \in Seq(Event)
  BY <1>2, TailElements
<1> HIDE DEF e
<1>5. Renewed(e, next')
  BY <1>1, <1>2, <1>4, UpdatedRenewed
<1>6. /\ next' = [a \in DOMAIN next' |-> next'[a]] /\ \A a \in DOMAIN next' : next'[a] \in Int
      /\ DOMAIN next \subseteq DOMAIN next' /\ DOMAIN next' \subseteq DOMAIN next \cup Codes
      /\ dev.kind # "x11" => DOMAIN next' = DOMAIN next
      /\ dev.sort = "pad" => \A a \in DOMAIN next' : next'[a] \in PadRange
      /\ \A c \in Codes \cap DOMAIN next' : next'[c] \in {0, 1}
  BY <1>5 DEF Renewed
<1>7. /\ \A c \in Kept : Writes(e, c) => c \in DOMAIN next' /\ next'[c] = Written(e)
      /\ \A c \in Kept : ~Writes(e, c) /\ c \in DOMAIN next' =>
            c \in DOMAIN next /\ next'[c] = next[c]
      /\ \A a \in Motion : Counted(a) =>
            next'[a] = (IF e.type = "element" /\ Writes(e, a) THEN 0 ELSE next[a]) + Delta(e, a)
  BY <1>5 DEF Renewed
<1>8. Keys' = Keys /\ Buttons' = Buttons /\ Items' = Items /\ Event' = Event
      /\ AxisMap' = AxisMap
  BY <1>3, DevFixed, AxisMapFixed
<1>9. dev.kind # "x11" => Axes' = Axes
  <2>1. RawAxes' = RawAxes /\ HidmAxes' = HidmAxes
    BY <1>3, AxisMapFixed
  <2> QED
    BY <1>1, <1>3, <2>1, DevFacts DEF Axes, TypeOK
<1>10. e.type = "element" => dev.kind = "hidm"
  BY <1>1, <1>4, DevFacts DEF TypeOK, Event, X11Key, X11Button, X11Motion, VKeyEvent,
     RawMouseEvent, KeyElement, MotionElement, StickElement
<1>11. \A a \in Motion : lost'[a] = lost[a] +
          IF e.type = "element" /\ Writes(e, a) THEN next[a] ELSE 0
  BY <1>2 DEF Writes
<1>12. \A a \in Motion : e.type = "element" /\ Writes(e, a) => a \in DOMAIN next
  <2> SUFFICES ASSUME NEW a \in Motion, e.type = "element", Writes(e, a)
               PROVE  a \in DOMAIN next
    OBVIOUS
  <2>1. a \in {AxisMap[i] : i \in DOMAIN AxisMap}
    BY DEF Writes
  <2>2. DOMAIN next = HidmAxes
    BY <1>1, <1>10 DEF TypeOK, Axes
  <2> QED
    BY <2>1, <2>2 DEF HidmAxes
<1>13. lost' \in [Motion -> Int]
  <2>1. \A a \in Motion : lost[a] \in Int
    BY <1>1 DEF Frames
  <2>2. \A a \in Motion : lost'[a] \in Int
    BY <1>1, <1>11, <1>12, <2>1 DEF TypeOK
  <2>3. lost' = [a \in Motion |-> lost'[a]]
    BY <1>2
  <2> QED
    BY <2>2, <2>3
<1>14. TypeOK'
  <2>1. DOMAIN current' = DOMAIN next' /\ \A a \in DOMAIN next' : current'[a] \in Int
    BY <1>1, <1>2 DEF TypeOK
  <2>2. hasLast' \in BOOLEAN
    BY <1>1, <1>2 DEF TypeOK
  <2>3. "none" \notin DOMAIN next'
    BY <1>1, <1>6, MotionNotKept DEF TypeOK, Kept
  <2>4. PadRange' = PadRange
    BY DEF PadRange
  <2>5. dev.kind # "x11" => DOMAIN next' = Axes'
    BY <1>1, <1>6, <1>9 DEF TypeOK
  <2>6. dev.sort = "pad" => \A a \in DOMAIN next' : next'[a] \in PadRange
    BY <1>6
  <2>7. {moved', shown', lost'} \subseteq [Motion -> Int]
    BY <1>1, <1>2, <1>13 DEF Frames
  <2>8. held \subseteq Keys \cup Buttons /\ numLock \in BOOLEAN /\ layout \in {1, 2}
        /\ dev \in Devices /\ position \in -PadMax - 1 .. PadMax
        /\ pc \in {"idle", "draining"} /\ events \in Nat /\ failures \in Nat
    BY <1>1 DEF TypeOK
  <2> QED
    BY <1>2, <1>3, <1>6, <1>8, <2>1, <2>2, <2>3, <2>4, <2>5, <2>6, <2>7, <2>8 DEF TypeOK
<1>15. (Motion \cup {Stick, "pad_dpad_y"}) \cap Codes = {}
  BY DEF Motion, Stick, Codes, KeyCodes, ButtonCodes
<1>16. Frames'
  <2>1. queue' \in Seq(Event') /\ moved' \in [Motion -> Int] /\ shown' \in [Motion -> Int]
    BY <1>1, <1>2, <1>4, <1>8 DEF Frames
  <2>2. \A a \in (Motion \cup {Stick}) \cap DOMAIN next' :
           Positive(a) \in DOMAIN next' /\ Negative(a) \in DOMAIN next'
    BY <1>1, <1>6, <1>15 DEF Frames
  <2>3. "pad_dpad_y" \in DOMAIN next' => {"pad_dpad_up", "pad_dpad_down"} \subseteq DOMAIN next'
    BY <1>1, <1>6, <1>15 DEF Frames
  <2>4. dev.kind # "hidm" => \A a \in Motion : lost'[a] = 0
    BY <1>1, <1>10, <1>11 DEF Frames
  <2> QED
    BY <1>3, <1>6, <1>13, <2>1, <2>2, <2>3, <2>4 DEF Frames
<1>17. ASSUME NEW a \in Motion, Counted(a)' PROVE Accounted(a)'
  <2>1. Counted(a)
    BY <1>3, <1>6, <1>15, <1>17 DEF Counted
  <2>2. PICK p \in [0 .. Len(queue) -> Int] :
           /\ Adds(p, queue, a) /\ p[0] = shown[a] + next[a] + lost[a]
           /\ p[Len(queue)] = moved[a]
    BY <1>1, <2>1 DEF Balanced, Accounted
  <2>3. PICK r : /\ Adds(r, Tail(queue), a) /\ r[0] = p[0] + Delta(e, a)
                 /\ r[Len(Tail(queue))] = p[Len(queue)]
    BY <1>2, <2>2, AddsTail DEF e
  <2>4. Delta(e, a) \in Int
    <3>1. Len(queue) \in Nat \ {0} /\ e = queue[1]
      BY <1>2, TailElements DEF e
    <3>2. 1 \in 1 .. Len(queue)
      BY <3>1
    <3> QED
      BY <2>2, <3>1, <3>2 DEF Adds
  <2>5. shown[a] \in Int /\ next[a] \in Int /\ lost[a] \in Int
    BY <1>1, <2>1 DEF Counted, TypeOK, Frames
  <2>6. r[0] = shown'[a] + next'[a] + lost'[a]
    BY <1>2, <1>7, <1>11, <2>1, <2>2, <2>3, <2>4, <2>5
  <2>7. r \in [0 .. Len(queue') -> Int] /\ r[Len(queue')] = moved'[a]
    BY <1>2, <2>2, <2>3 DEF Adds
  <2>8. \A sums, s : Adds(sums, s, a)' <=> Adds(sums, s, a)
    BY <1>3, DeltaFixed
  <2>9. Adds(r, queue, a)'
    BY <1>2, <2>3, <2>8
  <2> QED
    BY <2>6, <2>7, <2>9 DEF Accounted
<1>18. Balanced'
  BY <1>17 DEF Balanced
<1>19. numLock' \in BOOLEAN
  BY <1>1, <1>3 DEF TypeOK
<1>20. \A c \in Kept : /\ \A v : Comes(c, v)' <=> Comes(c, v)
                       /\ Heard(c) => Heard(c)'
  <2> SUFFICES ASSUME NEW c \in Kept, NEW v
               PROVE  /\ Comes(c, v)' <=> Comes(c, v)
                      /\ Heard(c) => Heard(c)'
    OBVIOUS
  <2>1. /\ Comes(c, v)' <=> ComesIn(Tail(queue), next', c, v)
        /\ Heard(c)' <=> HeardIn(Tail(queue), next', c)
    BY <1>1, <1>2, <1>3, <1>19, ComesFixed DEF Comes, Heard
  <2>2. /\ ComesIn(Tail(queue), next', c, v) <=> ComesIn(queue, next, c, v)
        /\ HeardIn(queue, next, c) => HeardIn(Tail(queue), next', c)
    <3>1. PICK f : f = next'
      OBVIOUS
    <3>2. /\ DOMAIN next \subseteq DOMAIN f
          /\ Writes(Head(queue), c) => c \in DOMAIN f /\ f[c] = Written(Head(queue))
          /\ ~Writes(Head(queue), c) /\ c \in DOMAIN f => c \in DOMAIN next /\ f[c] = next[c]
      BY <1>6, <1>7, <3>1 DEF e
    <3>3. /\ ComesIn(Tail(queue), f, c, v) <=> ComesIn(queue, next, c, v)
          /\ HeardIn(queue, next, c) => HeardIn(Tail(queue), f, c)
      BY <1>2, <3>2, ComesTail
    <3> QED
      BY <3>1, <3>3
  <2> QED
    BY <2>1, <2>2 DEF Comes, Heard
<1>21. Follows'
  BY <1>1, <1>2, <1>3, <1>19, <1>20, StillFollows
<1> QED
  BY <1>14, <1>16, <1>18, <1>21 DEF Inv

(* A commit shows what it finds of motion, and leaves the axes that are     *)
(* kept as they are.                                                        *)
LEMMA CommitInv ==
  ASSUME Inv, Commit
  PROVE  Inv'
<1> DEFINE f == Reversed(next)
           h == Derived(f)
           g == PostCommit(h)
           whole == (Motion \cup {Stick}) \cap DOMAIN f
<1>1. TypeOK /\ Frames /\ Balanced /\ Follows
  BY DEF Inv
<1>2. /\ current' = h /\ next' = g
      /\ shown' = [a \in Motion |->
            IF a \notin DOMAIN h THEN shown[a]
            ELSE LET step == h[Positive(a)] - h[Negative(a)]
                 IN  shown[a] + IF a = "mouse_y" THEN -step ELSE step]
      /\ pc' = "idle"
      /\ UNCHANGED <<user, queue, hasLast, moved, lost, torn, events, failures>>
  BY DEF Commit
<1>3. UNCHANGED <<dev, held, position, numLock, layout>>
  BY <1>2 DEF user
<1>4. /\ DOMAIN f = DOMAIN next
      /\ \A a \in DOMAIN next : f[a] = IF a = "mouse_y" THEN -next[a] ELSE next[a]
  BY DEF Reversed
<1>5. DOMAIN h = DOMAIN f
  BY DEF Derived
<1>6. ASSUME NEW a \in DOMAIN f
       PROVE  /\ (\E w \in whole : a = Positive(w)) =>
                    \E w \in whole : a = Positive(w) /\ h[a] = IF f[w] > 0 THEN f[w] ELSE 0
              /\ (~\E w \in whole : a = Positive(w)) /\ (\E w \in whole : a = Negative(w)) =>
                    \E w \in whole : a = Negative(w) /\ h[a] = IF f[w] > 0 THEN 0 ELSE -f[w]
              /\ ~(\E w \in whole : a = Positive(w) \/ a = Negative(w)) =>
                    h[a] = IF a = "pad_dpad_y"
                           THEN IF f["pad_dpad_down"] # 0 THEN -f["pad_dpad_down"]
                                ELSE f["pad_dpad_up"]
                           ELSE f[a]
  <2>1. ASSUME \E w \in whole : a = Positive(w)
        PROVE  \E w \in whole : a = Positive(w) /\ h[a] = IF f[w] > 0 THEN f[w] ELSE 0
    <3> DEFINE x == CHOOSE w \in whole : a = Positive(w)
    <3>1. x \in whole /\ a = Positive(x)
      BY <2>1
    <3>2. (~\E w \in whole : a = Negative(w)) /\ a # "pad_dpad_y"
      BY <2>1 DEF Positive, Negative, Motion, Stick
    <3>3. h[a] = IF f[x] > 0 THEN f[x] ELSE 0
      BY <2>1, <3>2 DEF Derived, Stick
    <3> QED
      BY <3>1, <3>3
  <2>2. ASSUME ~\E w \in whole : a = Positive(w), \E w \in whole : a = Negative(w)
        PROVE  \E w \in whole : a = Negative(w) /\ h[a] = IF f[w] > 0 THEN 0 ELSE -f[w]
    <3> DEFINE x == CHOOSE w \in whole : a = Negative(w)
    <3>1. x \in whole /\ a = Negative(x)
      BY <2>2
    <3>2. a # "pad_dpad_y"
      BY <2>2 DEF Negative, Motion, Stick
    <3>3. h[a] = IF f[x] > 0 THEN 0 ELSE -f[x]
      BY <2>2, <3>2 DEF Derived, Stick
    <3> QED
      BY <3>1, <3>3
  <2>3. ASSUME ~\E w \in whole : a = Positive(w) \/ a = Negative(w)
        PROVE  h[a] = IF a = "pad_dpad_y"
                      THEN IF f["pad_dpad_down"] # 0 THEN -f["pad_dpad_down"]
                           ELSE f["pad_dpad_up"]
                      ELSE f[a]
    BY <2>3 DEF Derived, Stick
  <2> QED
    BY <2>1, <2>2, <2>3
<1>7. /\ DOMAIN g = DOMAIN h /\ g = [a \in DOMAIN g |-> g[a]]
      /\ \A a \in DOMAIN h : g[a] = IF a \in Motion THEN 0 ELSE h[a]
  BY DEF PostCommit
<1>8. /\ \A w \in whole : w \in DOMAIN next /\ w \in Motion \cup {Stick}
      /\ \A a \in DOMAIN next : next[a] \in Int /\ f[a] \in Int
  BY <1>1, <1>4 DEF TypeOK
<1> HIDE DEF f, h, g
<1>9. \A w \in Motion \cup {Stick} :
         /\ Positive(w) \notin Motion \cup Kept \cup {"pad_dpad_y"}
         /\ Negative(w) \notin Motion \cup Kept \cup {"pad_dpad_y"}
  BY DEF Positive, Negative, Motion, Kept, Codes, KeyCodes, ButtonCodes, Stick
<1>10. \A w, x \in Motion \cup {Stick} :
         /\ Positive(w) # Negative(x)
         /\ Positive(w) = Positive(x) => w = x
         /\ Negative(w) = Negative(x) => w = x
  BY DEF Positive, Negative, Motion, Stick
<1>11. \A a \in DOMAIN next : a \in Motion \cup Kept => h[a] = f[a]
  <2> SUFFICES ASSUME NEW a \in DOMAIN next, a \in Motion \cup Kept PROVE h[a] = f[a]
    OBVIOUS
  <2>1. (~\E w \in whole : a = Positive(w)) /\ (~\E w \in whole : a = Negative(w))
    BY <1>8, <1>9
  <2>2. a # "pad_dpad_y"
    BY MotionNotKept
  <2> QED
    BY <1>4, <1>6, <2>1, <2>2
<1>12. ASSUME NEW w \in Motion \cup {Stick}, w \in DOMAIN next
       PROVE  /\ Positive(w) \in DOMAIN next /\ Negative(w) \in DOMAIN next
              /\ h[Positive(w)] = IF f[w] > 0 THEN f[w] ELSE 0
              /\ h[Negative(w)] = IF f[w] > 0 THEN 0 ELSE -f[w]
  <2>1. Positive(w) \in DOMAIN next /\ Negative(w) \in DOMAIN next /\ w \in whole
    BY <1>1, <1>4, <1>12 DEF Frames
  <2>2. \A x \in whole : /\ Positive(w) = Positive(x) => x = w
                         /\ Negative(w) = Negative(x) => x = w
                         /\ Negative(w) # Positive(x)
    BY <1>8, <1>10
  <2> HIDE DEF whole
  <2>3. h[Positive(w)] = IF f[w] > 0 THEN f[w] ELSE 0
    <3>1. PICK a : a = Positive(w)
      OBVIOUS
    <3>2. a \in DOMAIN f /\ \E x \in whole : a = Positive(x)
      BY <1>4, <2>1, <3>1
    <3>3. \E x \in whole : a = Positive(x) /\ h[a] = IF f[x] > 0 THEN f[x] ELSE 0
      BY <1>6, <3>2
    <3> QED
      BY <2>2, <3>1, <3>3
  <2>4. h[Negative(w)] = IF f[w] > 0 THEN 0 ELSE -f[w]
    <3>1. PICK a : a = Negative(w)
      OBVIOUS
    <3>2. /\ a \in DOMAIN f /\ \E x \in whole : a = Negative(x)
          /\ ~\E x \in whole : a = Positive(x)
      BY <1>4, <2>1, <2>2, <3>1
    <3>3. \E x \in whole : a = Negative(x) /\ h[a] = IF f[x] > 0 THEN 0 ELSE -f[x]
      BY <1>6, <3>2
    <3> QED
      BY <2>2, <3>1, <3>3
  <2> QED
    BY <2>1, <2>3, <2>4
<1>13. ASSUME NEW a \in DOMAIN next
       PROVE  \/ h[a] = f[a] \/ h[a] = 0
              \/ \E b \in DOMAIN next : h[a] = f[b] \/ h[a] = -f[b]
  <2>1. CASE \E w \in whole : a = Positive(w)
    BY <1>4, <1>8, <1>12, <2>1
  <2>2. CASE \E w \in whole : a = Negative(w)
    BY <1>4, <1>8, <1>12, <2>2
  <2>3. CASE (~\E w \in whole : a = Positive(w)) /\ (~\E w \in whole : a = Negative(w))
             /\ a = "pad_dpad_y"
    <3>1. {"pad_dpad_up", "pad_dpad_down"} \subseteq DOMAIN next
      BY <1>1, <2>3 DEF Frames
    <3>2. h[a] = IF f["pad_dpad_down"] # 0 THEN -f["pad_dpad_down"] ELSE f["pad_dpad_up"]
      BY <1>4, <1>6, <2>3
    <3> QED
      BY <3>1, <3>2
  <2>4. CASE (~\E w \in whole : a = Positive(w)) /\ (~\E w \in whole : a = Negative(w))
             /\ a # "pad_dpad_y"
    BY <1>4, <1>6, <2>4
  <2> QED
    BY <2>1, <2>2, <2>3, <2>4
<1>14. \A a \in DOMAIN next : h[a] \in Int /\ g[a] \in Int
  <2> SUFFICES ASSUME NEW a \in DOMAIN next PROVE h[a] \in Int /\ g[a] \in Int
    OBVIOUS
  <2>1. h[a] \in Int
    BY <1>8, <1>13
  <2> QED
    BY <1>4, <1>5, <1>7, <2>1
<1>15. dev.sort = "pad" => \A a \in DOMAIN next : g[a] \in PadRange
  <2> SUFFICES ASSUME dev.sort = "pad", NEW a \in DOMAIN next PROVE g[a] \in PadRange
    OBVIOUS
  <2>1. 0 \in PadRange /\ \A v \in PadRange : -v \in PadRange
    BY PipelineAssumption DEF PipelineAssumption, PadRange
  <2>2. \A b \in DOMAIN next : next[b] \in PadRange
    BY <1>1 DEF TypeOK
  <2>3. \A b \in DOMAIN next : f[b] \in PadRange
    BY <1>4, <2>1, <2>2
  <2>4. h[a] \in PadRange
    BY <1>13, <2>1, <2>3
  <2> QED
    BY <1>4, <1>5, <1>7, <2>1, <2>4
<1>16. DOMAIN next' = DOMAIN next /\ \A c \in Kept \cap DOMAIN next : next'[c] = next[c]
  <2>1. ASSUME NEW c \in Kept \cap DOMAIN next PROVE g[c] = next[c]
    <3>1. c \notin Motion /\ c # "mouse_y"
      BY MotionNotKept DEF Motion
    <3> QED
      BY <1>4, <1>5, <1>7, <1>11, <3>1
  <2> QED
    BY <1>2, <1>4, <1>5, <1>7, <2>1
<1>17. \A a \in Motion :
          /\ a \in DOMAIN next => shown'[a] = shown[a] + next[a] /\ next'[a] = 0
          /\ a \notin DOMAIN next => shown'[a] = shown[a]
  <2> SUFFICES ASSUME NEW a \in Motion
               PROVE  /\ a \in DOMAIN next => shown'[a] = shown[a] + next[a] /\ next'[a] = 0
                      /\ a \notin DOMAIN next => shown'[a] = shown[a]
    OBVIOUS
  <2>1. CASE a \notin DOMAIN next
    BY <1>2, <1>4, <1>5, <2>1
  <2>2. CASE a \in DOMAIN next
    <3>1. h[Positive(a)] - h[Negative(a)] = f[a]
      BY <1>8, <1>12, <2>2
    <3>2. shown'[a] = shown[a] + IF a = "mouse_y" THEN -f[a] ELSE f[a]
      BY <1>2, <1>4, <1>5, <2>2, <3>1
    <3>3. (IF a = "mouse_y" THEN -f[a] ELSE f[a]) = next[a]
      BY <1>4, <1>8, <2>2
    <3>4. next'[a] = 0
      BY <1>2, <1>4, <1>5, <1>7, <2>2
    <3> QED
      BY <2>2, <3>2, <3>3, <3>4
  <2> QED
    BY <2>1, <2>2
<1>18. shown' \in [Motion -> Int]
  <2>1. \A a \in Motion : shown[a] \in Int
    BY <1>1 DEF Frames
  <2>2. \A a \in Motion : shown'[a] \in Int
    BY <1>8, <1>17, <2>1
  <2>3. shown' = [a \in Motion |-> shown'[a]]
    BY <1>2
  <2> QED
    BY <2>2, <2>3
<1>19. Keys' = Keys /\ Buttons' = Buttons /\ Items' = Items /\ Event' = Event
  BY <1>3, DevFixed
<1>20. TypeOK'
  <2>1. dev.kind # "x11" => Axes' = Axes
    <3>1. RawAxes' = RawAxes /\ HidmAxes' = HidmAxes
      BY <1>3, AxisMapFixed
    <3> QED
      BY <1>1, <1>3, <3>1, DevFacts DEF Axes, TypeOK
  <2>2. PadRange' = PadRange
    BY DEF PadRange
  <2>3. dev.kind # "x11" => DOMAIN next' = Axes'
    BY <1>1, <1>16, <2>1 DEF TypeOK
  <2>4. /\ next' = [a \in DOMAIN next' |-> next'[a]] /\ DOMAIN current' = DOMAIN next'
        /\ \A a \in DOMAIN next' : next'[a] \in Int /\ current'[a] \in Int
    BY <1>2, <1>7, <1>14, <1>16
  <2>5. dev.sort = "pad" => \A a \in DOMAIN next' : next'[a] \in PadRange
    BY <1>2, <1>15, <1>16
  <2>6. {moved', shown', lost'} \subseteq [Motion -> Int]
    BY <1>1, <1>2, <1>18 DEF Frames
  <2>7. held \subseteq Keys \cup Buttons /\ numLock \in BOOLEAN /\ layout \in {1, 2}
        /\ dev \in Devices /\ position \in -PadMax - 1 .. PadMax /\ hasLast \in BOOLEAN
        /\ events \in Nat /\ failures \in Nat /\ "none" \notin DOMAIN next
    BY <1>1 DEF TypeOK
  <2> QED
    BY <1>2, <1>3, <1>16, <1>19, <2>2, <2>3, <2>4, <2>5, <2>6, <2>7 DEF TypeOK
<1>21. Frames'
  <2>1. \A c \in Codes \cap DOMAIN next' : next'[c] \in {0, 1}
    BY <1>1, <1>16 DEF Frames, Kept
  <2> QED
    BY <1>1, <1>2, <1>3, <1>16, <1>18, <1>19, <2>1 DEF Frames
<1>22. ASSUME NEW a \in Motion, Counted(a)' PROVE Accounted(a)'
  <2>1. Counted(a) /\ a \in DOMAIN next
    BY <1>3, <1>16, <1>22 DEF Counted
  <2>2. PICK p \in [0 .. Len(queue) -> Int] :
           /\ Adds(p, queue, a) /\ p[0] = shown[a] + next[a] + lost[a]
           /\ p[Len(queue)] = moved[a]
    BY <1>1, <2>1 DEF Balanced, Accounted
  <2>3. shown[a] \in Int /\ next[a] \in Int /\ lost[a] \in Int
    BY <1>1, <1>8, <2>1 DEF Frames
  <2>4. p[0] = shown'[a] + next'[a] + lost'[a]
    BY <1>2, <1>17, <2>1, <2>2, <2>3
  <2>5. Adds(p, queue, a)'
    BY <1>2, <1>3, <2>2, DeltaFixed
  <2> QED
    BY <1>2, <2>2, <2>4, <2>5 DEF Accounted
<1>23. Balanced'
  BY <1>22 DEF Balanced
<1>24. numLock' \in BOOLEAN
  BY <1>1, <1>3 DEF TypeOK
<1>25. \A e, c : Writes(e, c)' <=> Writes(e, c)
  BY <1>1, <1>3, <1>24, CodeOfFixed
<1>26. \A c \in Kept : /\ \A v : Comes(c, v)' <=> Comes(c, v)
                       /\ Heard(c) => Heard(c)'
  BY <1>2, <1>16, <1>25 DEF Comes, Heard, ComesIn, HeardIn
<1>27. Follows'
  BY <1>1, <1>2, <1>3, <1>24, <1>26, StillFollows
<1> QED
  BY <1>20, <1>21, <1>23, <1>27 DEF Inv

(* What Inv is about does not change when a drain starts or fails.          *)
LEMMA DrainInv ==
  ASSUME Inv, StartDrain \/ DrainFails \/ UNCHANGED vars
  PROVE  Inv'
<1>1. TypeOK /\ Frames /\ Balanced /\ Follows
  BY DEF Inv
<1>2. /\ UNCHANGED <<dev, held, position, numLock, layout, queue, next, current, hasLast,
                     moved, shown, lost, torn, events>>
      /\ pc' \in {"idle", "draining"} /\ failures' \in Nat
  BY <1>1 DEF StartDrain, DrainFails, vars, user, frames, history, TypeOK
<1>3. Keys' = Keys /\ Buttons' = Buttons /\ Items' = Items /\ Event' = Event
  BY <1>2, DevFixed
<1>4. dev.kind # "x11" => Axes' = Axes
  <2>1. RawAxes' = RawAxes /\ HidmAxes' = HidmAxes
    BY <1>2, AxisMapFixed
  <2> QED
    BY <1>1, <1>2, <2>1, DevFacts DEF Axes, TypeOK
<1>5. TypeOK'
  BY <1>1, <1>2, <1>3, <1>4 DEF TypeOK, PadRange
<1>6. Frames'
  BY <1>1, <1>2, <1>3 DEF Frames
<1>7. Balanced'
  <2>1. \A sums, s, a : Adds(sums, s, a)' <=> Adds(sums, s, a)
    BY <1>2, DeltaFixed
  <2> QED
    BY <1>1, <1>2, <2>1 DEF Balanced, Accounted, Counted
<1>8. numLock' \in BOOLEAN
  BY <1>1, <1>2 DEF TypeOK
<1>9. \A c \in Kept : /\ \A v : Comes(c, v)' <=> Comes(c, v)
                      /\ Heard(c) => Heard(c)'
  BY <1>1, <1>2, <1>8, ComesFixed DEF Comes, Heard
<1>10. Follows'
  BY <1>1, <1>2, <1>8, <1>9, StillFollows
<1> QED
  BY <1>5, <1>6, <1>7, <1>10 DEF Inv

LEMMA NextInv == Inv /\ [Next]_vars => Inv'
<1> SUFFICES ASSUME Inv, [Next]_vars PROVE Inv'
  OBVIOUS
<1>1. CASE User
  BY <1>1, ItemInv, FakeKeyInv, SwitchNumLockInv, SwitchLayoutInv, MoveInv, SteerInv
  DEF User, Items
<1>2. CASE Update
  BY <1>2, UpdateInv
<1>3. CASE Commit
  BY <1>3, CommitInv
<1>4. CASE StartDrain \/ DrainFails \/ UNCHANGED vars
  BY <1>4, DrainInv
<1> QED
  BY <1>1, <1>2, <1>3, <1>4 DEF Next, Drain

LEMMA Invariant == Spec => []Inv
<1> QED
  BY InitInv, NextInv, PTL DEF Spec

-----------------------------------------------------------------------------
(* A gamepad's values stay in their range, and on Windows and macOS no      *)
(* update names an axis that the device was not made with.                  *)
THEOREM TypeCorrect == Spec => []TypeOK
<1>1. Inv => TypeOK
  BY DEF Inv
<1> QED
  BY <1>1, Invariant, PTL

(* No motion is lost or counted twice on its way from the device to the     *)
(* committed halves of an axis, whatever drains fail in between.            *)
THEOREM ConservedCorrect == Spec => []Conserved
<1>1. Inv => Conserved
  <2> SUFFICES ASSUME Inv, queue = <<>>, NEW a \in Motion \cap DOMAIN next,
                      ~(dev.absolute /\ a # "mouse_wheel")
               PROVE  /\ moved[a] = shown[a] + next[a] + lost[a]
                      /\ dev.kind # "hidm" => lost[a] = 0
    BY DEF Conserved
  <2>1. Accounted(a)
    BY DEF Inv, Balanced, Counted
  <2>2. Len(queue) = 0
    OBVIOUS
  <2>3. moved[a] = shown[a] + next[a] + lost[a]
    BY <2>1, <2>2 DEF Accounted
  <2> QED
    BY <2>3 DEF Inv, Frames
<1> QED
  BY <1>1, Invariant, PTL

(* With nothing unread, the axes of keys, buttons and sticks tell what the  *)
(* user holds.                                                              *)
THEOREM FollowsCorrect == Spec => []AxesFollowInputs
<1>1. Inv => AxesFollowInputs
  <2> SUFFICES ASSUME Inv, queue = <<>> PROVE AxesFollowInputs
    BY DEF AxesFollowInputs
  <2>1. TypeOK /\ Frames /\ Follows /\ dev \in Devices /\ layout \in {1, 2}
        /\ held \subseteq Items
    BY DEF Inv, TypeOK, Items
  <2>2. DOMAIN queue = {}
    OBVIOUS
  <2>3. \A c : /\ \A v : Comes(c, v) <=> c \in DOMAIN next /\ next[c] = v
               /\ Heard(c) <=> c \in DOMAIN next
    BY <2>2 DEF Comes, ComesIn, Heard, HeardIn
  <2>4. ASSUME NEW i \in Items, NEW c, c = CodeOf(i), c \notin torn \cup {"none"},
               NEW sharing, sharing = {j \in Items : CodeOf(j) = c}
        PROVE  IF c \in DOMAIN next
               THEN /\ next[c] # 0 => sharing \cap held # {}
                    /\ sharing = {i} /\ i \in held => next[c] # 0
               ELSE i \notin held
    <3>1. c \in Codes
      BY <2>1, <2>4, CodeOfItem
    <3>2. ASSUME c \in DOMAIN next, next[c] # 0 PROVE sharing \cap held # {}
      <4>1. next[c] = 1
        BY <2>1, <3>1, <3>2 DEF Frames
      <4>2. PICK j \in held : CodeOf(j) = c
        BY <2>1, <2>3, <2>4, <3>1, <3>2, <4>1 DEF Follows
      <4> QED
        BY <2>1, <2>4, <4>2
    <3>3. ASSUME c \in DOMAIN next, sharing = {i}, i \in held PROVE next[c] # 0
      <4>1. Alone(i)
        BY <2>4, <3>3 DEF Alone
      <4> QED
        BY <2>1, <2>3, <2>4, <3>3, <4>1 DEF Follows
    <3>4. i \in held => c \in DOMAIN next
      BY <2>1, <2>3, <2>4 DEF Follows
    <3> QED
      BY <3>2, <3>3, <3>4
  <2>5. dev.sort = "pad" => next["pad_left_stick_y"] = PadValue(position)
    BY <2>1, <2>3 DEF Follows, Stick
  <2> QED
    BY <2>4, <2>5 DEF AxesFollowInputs, Items
<1> QED
  BY <1>1, Invariant, PTL
=============================================================================
