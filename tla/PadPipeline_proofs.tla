------------------------- MODULE PadPipeline_proofs -------------------------
(***************************************************************************)
(* Proofs about PadPipeline for any buttons and sticks, any ranges, any    *)
(* size of the kernel's buffer and any calls of the client.                *)
(***************************************************************************)
EXTENDS PadPipeline, SequenceTheorems, FiniteSetTheorems, TLAPS

-----------------------------------------------------------------------------
(* Axes and values. *)

LEMMA AxisKinds ==
  /\ Input \subseteq Axis /\ Halves \subseteq Axis /\ DpadX \in Axis
  /\ Left \in Button /\ Right \in Button /\ PadX \in Button
  /\ Button \subseteq Input /\ Stick \subseteq Input
  /\ \A i \in Input : i \notin Halves /\ i # DpadX
  /\ DpadX \notin Halves
BY PadAssumption DEF Axis, Input

LEMMA AtRestType == AtRest \in [Axis -> Int]
BY DEF AtRest

LEMMA ProductPositive ==
  ASSUME NEW m \in Int, NEW n \in Int, m > 0, n > 0
  PROVE  m * n \in Int /\ m * n > 0
OBVIOUS

LEMMA ProductMonotone ==
  ASSUME NEW m \in Int, NEW n \in Int, NEW k \in Int, m <= k, n > 0
  PROVE  m * n <= k * n
OBVIOUS

LEMMA ApplyDeadzoneBounds ==
  ASSUME NEW value \in Int, NEW absMax \in Int, NEW over \in Int,
         absMax > Deadzone, over > 0
  PROVE  /\ ApplyDeadzone(value, absMax, over) \in Int
         /\ ApplyDeadzone(value, absMax, over) >= 0
         /\ ApplyDeadzone(value, absMax, over) > 0 <=> value > Deadzone
         /\ ApplyDeadzone(value, absMax, over) <= (absMax - Deadzone) * over
<1> DEFINE clamped == IF value > absMax THEN absMax ELSE value
<1>1. Deadzone \in Int /\ clamped \in Int /\ clamped <= absMax
  BY PadAssumption
<1>2. (absMax - Deadzone) * over > 0
  BY <1>1, ProductPositive
<1>3. CASE value <= Deadzone
  BY <1>1, <1>2, <1>3 DEF ApplyDeadzone
<1>4. CASE value > Deadzone
  <2>1. clamped - Deadzone > 0 /\ clamped - Deadzone \in Int
    BY <1>1, <1>4
  <2>2. (clamped - Deadzone) * over > 0 /\ (clamped - Deadzone) * over \in Int
    BY <2>1, ProductPositive
  <2>3. (clamped - Deadzone) * over <= (absMax - Deadzone) * over
    BY <1>1, <2>1, ProductMonotone
  <2>4. ApplyDeadzone(value, absMax, over) = (clamped - Deadzone) * over
    BY <1>1, <1>4 DEF ApplyDeadzone
  <2> HIDE DEF clamped
  <2> QED
    BY <1>4, <2>2, <2>3, <2>4
<1> QED
  BY <1>1, <1>3, <1>4

LEMMA FullPositive == Full \in Int /\ Full > 0
<1>1. /\ RawUp - Deadzone \in Int /\ RawUp - Deadzone > 0
      /\ RawDown - Deadzone \in Int /\ RawDown - Deadzone > 0
  BY PadAssumption
<1> QED
  BY <1>1, ProductPositive DEF Full

(* A mapped value is on its input's side and within [-1, 1]. *)
LEMMA MapInputFits ==
  ASSUME NEW i \in Input, NEW raw \in Int
  PROVE  /\ MapInput(i, raw) \in Int
         /\ MapInput(i, raw) \in -Full .. Full
         /\ raw \in Raw(i) => Matches(i, MapInput(i, raw), raw)
<1>1. /\ RawUp - Deadzone \in Int /\ RawUp - Deadzone > 0
      /\ RawDown - Deadzone \in Int /\ RawDown - Deadzone > 0
      /\ Deadzone \in Nat /\ RawUp \in Int /\ RawDown \in Int
  BY PadAssumption
<1>2. Full \in Int /\ Full > 0
  BY FullPositive
<1>3. Full = (RawDown - Deadzone) * (RawUp - Deadzone)
  BY <1>1 DEF Full
<1>4. CASE i \in Stick
  <2> DEFINE value == Directed(i, raw)
  <2>1. value \in Int
    BY DEF Directed
  <2>2. MapInput(i, raw) = MapStick(i, raw)
    BY <1>4 DEF MapInput
  <2>3. CASE value < 0
    <3> DEFINE w == ApplyDeadzone(-value, RawDown, RawUp - Deadzone)
    <3> DEFINE n == -value
    <3>n. n \in Int
      BY <2>1
    <3> HIDE DEF n
    <3>b. /\ ApplyDeadzone(n, RawDown, RawUp - Deadzone) \in Int
          /\ ApplyDeadzone(n, RawDown, RawUp - Deadzone) >= 0
          /\ ApplyDeadzone(n, RawDown, RawUp - Deadzone) > 0 <=> n > Deadzone
          /\ ApplyDeadzone(n, RawDown, RawUp - Deadzone) <= Full
      <4>1. RawDown > Deadzone /\ RawUp - Deadzone > 0
        BY <1>1
      <4> DEFINE over == RawUp - Deadzone
      <4>2. over \in Int /\ over > 0 /\ Full = (RawDown - Deadzone) * over
        BY <1>1, <1>3
      <4> HIDE DEF over
      <4>3. /\ ApplyDeadzone(n, RawDown, over) \in Int
            /\ ApplyDeadzone(n, RawDown, over) >= 0
            /\ ApplyDeadzone(n, RawDown, over) > 0 <=> n > Deadzone
            /\ ApplyDeadzone(n, RawDown, over) <= Full
        BY <1>1, <3>n, <4>1, <4>2, ApplyDeadzoneBounds
      <4> QED
        BY <4>3 DEF over
    <3>1. /\ w \in Int /\ w >= 0 /\ w <= Full
          /\ w > 0 <=> -value > Deadzone
      BY <3>b DEF n
    <3>2. MapStick(i, raw) = -w
      BY <2>3 DEF MapStick
    <3> HIDE DEF w
    <3> QED
      BY <1>1, <1>2, <1>4, <2>1, <2>2, <2>3, <3>1, <3>2 DEF Matches, Directed
  <2>4. CASE ~(value < 0)
    <3> DEFINE w == ApplyDeadzone(value, RawUp, RawDown - Deadzone)
    <3> HIDE DEF value
    <3>1. /\ w \in Int /\ w >= 0 /\ w <= Full
          /\ w > 0 <=> value > Deadzone
      <4> DEFINE over == RawDown - Deadzone
      <4>2. over \in Int /\ over > 0 /\ Full = (RawUp - Deadzone) * over
        BY <1>1 DEF Full
      <4> HIDE DEF over
      <4>3. /\ ApplyDeadzone(value, RawUp, over) \in Int
            /\ ApplyDeadzone(value, RawUp, over) >= 0
            /\ ApplyDeadzone(value, RawUp, over) > 0 <=> value > Deadzone
            /\ ApplyDeadzone(value, RawUp, over) <= Full
        BY <1>1, <2>1, <4>2, ApplyDeadzoneBounds
      <4> QED
        BY <4>3 DEF over
    <3>2. MapStick(i, raw) = w
      BY <2>4 DEF MapStick, value
    <3> HIDE DEF w
    <3> QED
      BY <1>1, <1>2, <1>4, <2>1, <2>2, <2>4, <3>1, <3>2
      DEF Matches, Directed, value
  <2> QED
    BY <2>3, <2>4
<1>5. CASE i \notin Stick
  <2>1. i \notin Reversed
    BY <1>5, PadAssumption
  <2>2. MapInput(i, raw) = IF raw # 0 THEN Full ELSE 0
    BY <1>5 DEF MapInput
  <2> QED
    BY <1>2, <1>5, <2>1, <2>2 DEF Raw, Matches
<1> QED
  BY <1>4, <1>5

(* derive_stick_pre_commit leaves inputs alone and makes a frame tell one   *)
(* story.                                                                   *)
LEMMA DerivedFits ==
  ASSUME NEW v \in [Axis -> Int]
  PROVE  /\ Derived(v) \in [Axis -> Int]
         /\ \A i \in Input : Derived(v)[i] = v[i]
         /\ OneStory(Derived(v))
<1>1. \A i \in Input : Derived(v)[i] = v[i]
  BY AxisKinds DEF Derived
<1>2. \A s \in Stick :
        /\ Derived(v)[Positive(s)] = IF v[s] > 0 THEN v[s] ELSE 0
        /\ Derived(v)[Negative(s)] = IF v[s] > 0 THEN 0 ELSE -v[s]
  BY AxisKinds DEF Derived, Halves, Positive, Negative
<1>3. Derived(v)[DpadX] = IF v[Left] # 0 THEN -v[Left] ELSE v[Right]
  BY AxisKinds DEF Derived
<1>4. Derived(v) \in [Axis -> Int]
  <2>1. \A a \in Halves : a[1] \in Axis /\ v[a[1]] \in Int
    BY AxisKinds DEF Halves
  <2> QED
    BY <2>1, AxisKinds DEF Derived
<1>5. \A s \in Stick : v[s] \in Int
  BY AxisKinds
<1> QED
  BY <1>1, <1>2, <1>3, <1>4, <1>5, AxisKinds DEF OneStory

LEMMA AtRestStory == OneStory(AtRest)
BY AxisKinds DEF OneStory, AtRest, Halves, Positive, Negative

-----------------------------------------------------------------------------
(* Type correctness. *)

LEMMA PendingType ==
  ASSUME TypeOK
  PROVE  /\ Pending \in Seq(EventType)
         /\ Pending # <<>> =>
              /\ Head(Pending) \in EventType /\ Tail(Pending) \in Seq(EventType)
<1>1. (IF resync THEN <<>> ELSE queue) \in Seq(EventType)
  BY EmptySeq DEF TypeOK
<1>2. Pending \in Seq(EventType)
  BY <1>1, ConcatProperties DEF TypeOK, Pending
<1> QED
  BY <1>2, HeadTailProperties

(* What libevdev returns and is not SYN_DROPPED is an input's event. *)
LEMMA EventShape ==
  ASSUME NEW e \in EventType, e # Dropped
  PROVE  e.input \in Input /\ e.raw \in Int
BY DEF EventType

LEMMA DeliverType ==
  ASSUME TypeOK, NEW i \in Input, NEW raw \in Int
  PROVE  /\ Deliver(Event(i, raw)) \in Seq(EventType)
         /\ Len(Deliver(Event(i, raw))) <= BufferSize
<1>1. Event(i, raw) \in EventType /\ Dropped \in EventType
  BY DEF Event, EventType
<1>2. BufferSize \in Nat /\ BufferSize >= 2 /\ Len(buffer) \in Nat
  BY PadAssumption, LenProperties DEF TypeOK
<1>3. CASE Len(buffer) < BufferSize
  BY <1>1, <1>2, <1>3, AppendProperties DEF Deliver, TypeOK
<1>4. CASE ~(Len(buffer) < BufferSize)
  <2>1. Deliver(Event(i, raw)) = <<Dropped, Event(i, raw)>>
    BY <1>4 DEF Deliver
  <2> HIDE DEF Dropped
  <2> QED
    BY <1>1, <1>2, <2>1
<1> QED
  BY <1>3, <1>4

LEMMA PhysicalIsRaw ==
  ASSUME NEW i \in Input, NEW raw \in Raw(i)
  PROVE  raw \in Int
BY PadAssumption DEF Raw

LEMMA InitType == Init => TypeOK
<1> SUFFICES ASSUME Init PROVE TypeOK
  OBVIOUS
<1>1. physical \in [Input -> Int]
  BY PadAssumption DEF Init
<1>2. /\ buffer \in Seq(EventType) /\ queue \in Seq(EventType)
      /\ Len(buffer) = 0
  BY EmptySeq DEF Init
<1>3. trusted \subseteq Input /\ \A i \in Input : physical[i] \in Raw(i)
  BY DEF Init
<1>4. BufferSize >= 0
  BY PadAssumption
<1> HIDE DEF AtRest
<1> QED
  BY <1>1, <1>2, <1>3, <1>4, AtRestType DEF Init, TypeOK

LEMMA NextType ==
  ASSUME TypeOK, [Next]_vars
  PROVE  TypeOK'
<1> USE DEF TypeOK
<1>1. ASSUME NEW i \in Input, NEW raw \in Raw(i), Change(i, raw)
      PROVE  TypeOK'
  <2>1. raw \in Int
    BY PhysicalIsRaw
  <2>2. /\ physical' \in [Input -> Int]
        /\ \A j \in Input : physical'[j] \in Raw(j)
    BY <1>1, <2>1 DEF Change
  <2>3. buffer' \in Seq(EventType) /\ Len(buffer') <= BufferSize
    BY <1>1, <2>1, DeliverType DEF Change
  <2>4. changes' \in Nat
    BY <1>1 DEF Change
  <2> QED
    BY <1>1, <2>2, <2>3, <2>4 DEF Change, libevdev, axes, history, Raw
<1>2. CASE StartDrain
  BY <1>2 DEF StartDrain, Polled, libevdev, axes, Raw
<1>3. CASE ReadNothing
  BY <1>3, EmptySeq DEF ReadNothing, axes, history, Raw
<1>4. CASE ReadDropped
  <2>1. queue' \in Seq(EventType) /\ buffer' \in Seq(EventType) /\ Len(buffer') = 0
    BY <1>4, PendingType, EmptySeq DEF ReadDropped
  <2> QED
    BY <1>4, <2>1, PadAssumption DEF ReadDropped, axes, Raw
<1>5. CASE ReadEvent
  <2> DEFINE e == Head(Pending)
  <2>1. queue' \in Seq(EventType) /\ buffer' \in Seq(EventType) /\ Len(buffer') = 0
    BY <1>5, PendingType, EmptySeq DEF ReadEvent
  <2>2. e.input \in Input /\ e.raw \in Int
    BY <1>5, PendingType, EventShape DEF ReadEvent
  <2>3. next' \in [Axis -> Int]
    BY <1>5, <2>2, AxisKinds, MapInputFits DEF ReadEvent
  <2>4. trusted' \subseteq Input
    BY <1>5, <2>2 DEF ReadEvent
  <2>5. /\ resync' = FALSE
        /\ UNCHANGED <<physical, current, previous, pc, changes, calls, shown,
                       wiped>>
    BY <1>5 DEF ReadEvent
  <2>6. BufferSize >= 0
    BY PadAssumption
  <2> QED
    BY <2>1, <2>3, <2>4, <2>5, <2>6 DEF Raw
<1>6. CASE PostUpdate
  BY <1>6, AtRestType DEF PostUpdate, Reset, Shift, libevdev, axes, Raw
<1>7. CASE Commit
  BY <1>7, DerivedFits DEF Commit, Shift, libevdev, history, Raw
<1>8. CASE AnotherFails
  BY <1>8 DEF AnotherFails, libevdev, axes, history, Raw
<1>9. CASE Client
  <2>1. ASSUME NEW a \in Axis, CommitValue(a)
        PROVE  TypeOK'
    BY <2>1 DEF CommitValue, Call, libevdev, Raw
  <2>2. ASSUME NEW a \in Axis, NEW v \in ApiValues, SetValue(a, v)
        PROVE  TypeOK'
    BY <2>2, PadAssumption DEF SetValue, Call, libevdev, Raw
  <2>3. ASSUME NEW a \in Axis, NEW v \in ApiValues, AddValue(a, v)
        PROVE  TypeOK'
    BY <2>3, PadAssumption DEF AddValue, Call, libevdev, Raw
  <2>4. CASE ResetDevice
    BY <2>4, AtRestType DEF ResetDevice, Call, Reset, Shift, libevdev, Raw
  <2> QED
    BY <1>9, <2>1, <2>2, <2>3, <2>4 DEF Client
<1>10. CASE UNCHANGED vars
  BY <1>10 DEF vars, libevdev, axes, history, Raw
<1> QED
  BY <1>1, <1>2, <1>3, <1>4, <1>5, <1>6, <1>7, <1>8, <1>9, <1>10
  DEF Next, DrainEvents

(* In every state of the pipeline the variables have their types, the       *)
(* kernel's buffer is within its size and every input is within its range.  *)
THEOREM TypeCorrect == Spec => []TypeOK
<1>1. Init => TypeOK
  BY InitType
<1>2. TypeOK /\ [Next]_vars => TypeOK'
  BY NextType
<1> QED
  BY <1>1, <1>2, PTL DEF Spec

-----------------------------------------------------------------------------
(* Derived axes.  Each frame the client reads was shifted out of one that   *)
(* Derived or Reset made, so both tell one story.                           *)

StoryInv == OneStory(current) /\ OneStory(previous)

(* Both frames agree about a stick and its halves and about the d-pad and   *)
(* its buttons, if no single axis is committed: derive_stick_pre_commit.    *)
THEOREM DerivedCorrect == Spec => []DerivedAgree
<1>0. CASE "commit" \in Calls
  <2>1. DerivedAgree
    BY <1>0 DEF DerivedAgree
  <2> QED
    BY <2>1, PTL
<1>a. CASE "commit" \notin Calls
  <2>1. Init => StoryInv
    BY AtRestStory DEF Init, StoryInv
  <2>2. TypeOK /\ StoryInv /\ [Next]_vars => StoryInv'
    <3> SUFFICES ASSUME TypeOK, StoryInv, [Next]_vars PROVE StoryInv'
      OBVIOUS
    <3>1. CASE UNCHANGED axes
      BY <3>1 DEF axes, StoryInv, OneStory
    <3>2. CASE Reset
      BY <3>2, AtRestStory DEF Reset, Shift, StoryInv, OneStory
    <3>3. CASE Commit
      <4>1. OneStory(Derived(next))
        BY DerivedFits DEF TypeOK
      <4>2. current' = Derived(next) /\ previous' = current
        BY <3>3 DEF Commit, Shift
      <4> QED
        BY <4>1, <4>2 DEF StoryInv, OneStory
    <3>4. CASE UNCHANGED <<current, previous>>
      BY <3>4 DEF StoryInv, OneStory
    <3>5. ~\E a \in Axis : CommitValue(a)
      BY <1>a DEF CommitValue, Call
    <3> QED
      BY <3>1, <3>2, <3>3, <3>4, <3>5
      DEF Next, DrainEvents, Client, Change, StartDrain, ReadNothing,
          ReadDropped, ReadEvent, PostUpdate, AnotherFails, SetValue, AddValue,
          ResetDevice, vars, axes
  <2>3. StoryInv => DerivedAgree
    BY DEF StoryInv, DerivedAgree
  <2> QED
    BY <2>1, <2>2, <2>3, TypeCorrect, PTL DEF Spec
<1> QED
  BY <1>0, <1>a

-----------------------------------------------------------------------------
(* The frame window.  Within a drain current is what the client saw, unless *)
(* post_update has reset the device.                                        *)

WindowInv == pc # "idle" => wiped \/ current = shown

(* A drain moves the window once: what becomes previous is what the client  *)
(* last read as current, and the edges follow, except where post_update     *)
(* reset the device.                                                        *)
THEOREM WindowCorrect == Spec => WindowMovesOnce
<1>1. Init => WindowInv
  BY DEF Init, WindowInv
<1>2. WindowInv /\ [Next]_vars => WindowInv'
  <2> SUFFICES ASSUME WindowInv, [Next]_vars PROVE WindowInv'
    OBVIOUS
  <2> USE DEF WindowInv
  <2>1. CASE pc' = "idle"
    BY <2>1
  <2>2. CASE StartDrain
    BY <2>2 DEF StartDrain, axes
  <2>3. CASE PostUpdate
    BY <2>3 DEF PostUpdate, Reset, axes
  <2>4. CASE ReadNothing \/ ReadDropped \/ ReadEvent
    BY <2>4 DEF ReadNothing, ReadDropped, ReadEvent, axes, history
  <2>5. CASE \E i \in Input : \E raw \in Raw(i) : Change(i, raw)
    BY <2>5 DEF Change, axes, history
  <2>6. CASE Client
    BY <2>6 DEF Client, SetValue, AddValue, CommitValue, ResetDevice, Call
  <2>7. CASE UNCHANGED vars
    BY <2>7 DEF vars, axes, history
  <2> QED
    BY <2>1, <2>2, <2>3, <2>4, <2>5, <2>6, <2>7
    DEF Next, DrainEvents, Commit, AnotherFails
<1>3. WindowInv /\ [Next]_vars
        => [Commit => wiped \/ (previous' = shown /\ EdgesShown)]_vars
  <2> SUFFICES ASSUME WindowInv, Commit, ~wiped
               PROVE  previous' = shown /\ EdgesShown
    OBVIOUS
  <2>1. previous' = shown
    BY DEF WindowInv, Commit, Shift
  <2> QED
    BY <2>1 DEF EdgesShown, IsHeld, IsUp, IsDown, PreviousHeld
<1> QED
  BY <1>1, <1>2, <1>3, PTL DEF Spec, WindowMovesOnce

-----------------------------------------------------------------------------
(* Garbage packets.  A drain that runs to its commit goes through           *)
(* post_update or had nothing to read; between drains the client's frame is *)
(* the next one, so what post_update let pass stays passed.                 *)

GarbageInv ==
  /\ pc = "idle" => \A b \in Button : current[b] = next[b]
  /\ pc \in {"idle", "commit"} => ~LooksLikeGarbage(next)

LEMMA HeldInt ==
  ASSUME NEW v
  PROVE  Cardinality({b \in Button \ {PadY} : v[b] # 0}) \in Nat
<1>1. IsFiniteSet({b \in Button \ {PadY} : v[b] # 0})
  BY PadAssumption, FS_Subset
<1> QED
  BY <1>1, FS_CardinalityType

LEMMA PassedIsNoGarbage ==
  ASSUME NEW v, ~(HeldCount(v) >= GarbageCount)
  PROVE  ~LooksLikeGarbage(v)
BY HeldInt, PadAssumption DEF HeldCount, LooksLikeGarbage

LEMMA SameButtonsLookAlike ==
  ASSUME NEW v, NEW w, \A b \in Button : v[b] = w[b]
  PROVE  LooksLikeGarbage(v) <=> LooksLikeGarbage(w)
<1>1. {b \in Button \ {PadY} : v[b] # 0} = {b \in Button \ {PadY} : w[b] # 0}
  OBVIOUS
<1> QED
  BY <1>1 DEF LooksLikeGarbage

LEMMA AtRestIsNoGarbage == ~LooksLikeGarbage(AtRest)
<1>1. {b \in Button \ {PadY} : AtRest[b] # 0} = {}
  BY AxisKinds DEF AtRest
<1> QED
  BY <1>1, FS_EmptySet, PadAssumption DEF LooksLikeGarbage

(* No frame shows a garbage packet, if no drain fails on another device and *)
(* the client writes no values of its own: evdev_device::post_update.       *)
THEOREM GarbageCorrect ==
  ASSUME "failure" \notin Upsets, Calls \cap {"set", "add"} = {}
  PROVE  Spec => []GarbageNeverShown
<1>1. Init => GarbageInv
  BY AtRestIsNoGarbage DEF Init, GarbageInv
<1>2. TypeOK /\ GarbageInv /\ [Next]_vars => GarbageInv'
  <2> SUFFICES ASSUME TypeOK, GarbageInv, [Next]_vars PROVE GarbageInv'
    OBVIOUS
  <2>1. CASE Reset
    <3>1. next' = AtRest /\ current' = AtRest
      BY <2>1 DEF Reset, Shift
    <3> QED
      BY <3>1, AtRestIsNoGarbage DEF GarbageInv
  <2>2. CASE Commit
    <3> DEFINE v == Derived(next)
    <3>1. next' = v /\ current' = v /\ ~LooksLikeGarbage(next)
      BY <2>2 DEF Commit, Shift, GarbageInv
    <3>2. \A b \in Button : v[b] = next[b]
      BY DerivedFits, AxisKinds DEF TypeOK
    <3>3. ~LooksLikeGarbage(v)
      BY <3>1, <3>2, SameButtonsLookAlike
    <3> QED
      BY <3>1, <3>3 DEF GarbageInv
  <2>3. CASE PostUpdate /\ ~Reset
    <3>1. next' = next /\ ~(HeldCount(next) >= GarbageCount) /\ pc' = "commit"
      BY <2>3 DEF PostUpdate, axes
    <3> QED
      BY <3>1, PassedIsNoGarbage DEF GarbageInv
  <2>4. CASE StartDrain
    BY <2>4 DEF StartDrain, Polled, axes, GarbageInv
  <2>5. CASE ReadNothing \/ ReadDropped \/ ReadEvent
    BY <2>5 DEF ReadNothing, ReadDropped, ReadEvent, GarbageInv
  <2>6. CASE UNCHANGED <<axes, pc>>
    BY <2>6 DEF axes, GarbageInv
  <2>7. ASSUME NEW a \in Axis, CommitValue(a)
        PROVE  GarbageInv'
    <3>1. /\ next' = next /\ pc' = pc /\ pc = "idle"
          /\ current' = [current EXCEPT ![a] = next[a]]
      BY <2>7 DEF CommitValue, Call
    <3>2. \A b \in Button : current'[b] = next[b]
      BY <3>1, AxisKinds DEF TypeOK, GarbageInv
    <3> QED
      BY <3>1, <3>2 DEF GarbageInv
  <2>8. ~\E a \in Axis : \E v \in ApiValues : SetValue(a, v) \/ AddValue(a, v)
    BY DEF SetValue, AddValue, Call
  <2>9. ~AnotherFails
    BY DEF AnotherFails
  <2> QED
    BY <2>1, <2>2, <2>3, <2>4, <2>5, <2>6, <2>7, <2>8, <2>9
    DEF Next, DrainEvents, Change, Client, ResetDevice, vars
<1>3. TypeOK /\ GarbageInv => GarbageNeverShown
  <2> SUFFICES ASSUME GarbageInv, pc = "idle" PROVE ~LooksLikeGarbage(current)
    BY DEF GarbageNeverShown
  <2> QED
    BY SameButtonsLookAlike DEF GarbageInv
<1> QED
  BY <1>1, <1>2, <1>3, TypeCorrect, PTL DEF Spec

-----------------------------------------------------------------------------
(* Values.  Every event maps into [-1, 1], and so do the derived axes of    *)
(* such values.                                                             *)

RangeInv == \A a \in Axis : next[a] \in -Full .. Full

LEMMA DerivedRange ==
  ASSUME NEW v \in [Axis -> Int], \A a \in Axis : v[a] \in -Full .. Full
  PROVE  \A a \in Axis : Derived(v)[a] \in -Full .. Full
<1>1. \A a \in Halves : a[1] \in Axis
  BY AxisKinds DEF Halves
<1> HIDE DEF Full
<1> QED
  BY <1>1, FullPositive, AxisKinds DEF Derived

(* No axis leaves [-1, 1] while the client writes none: apply_deadzone      *)
(* clamps, whatever the ends of the raw range and of a reversed stick.      *)
THEOREM RangeCorrect == Spec => []ValuesInRange
<1>0. CASE Calls \cap {"set", "add"} # {}
  <2>1. ValuesInRange
    BY <1>0 DEF ValuesInRange
  <2> QED
    BY <2>1, PTL
<1>a. CASE Calls \cap {"set", "add"} = {}
  <2>1. Init => RangeInv
    BY FullPositive DEF Init, RangeInv, AtRest
  <2>2. TypeOK /\ RangeInv /\ [Next]_vars => RangeInv'
    <3> SUFFICES ASSUME TypeOK, RangeInv, [Next]_vars PROVE RangeInv'
      OBVIOUS
    <3>1. CASE Reset
      <4>1. next' = AtRest
        BY <3>1 DEF Reset
      <4> QED
        BY <4>1, FullPositive DEF RangeInv, AtRest
    <3>2. CASE Commit
      <4>1. next' = Derived(next)
        BY <3>2 DEF Commit
      <4> QED
        BY <4>1, DerivedRange DEF RangeInv, TypeOK
    <3>3. CASE ReadEvent
      <4> DEFINE e == Head(Pending)
                 value == MapInput(e.input, e.raw)
      <4>1. e.input \in Input /\ e.raw \in Int
        BY <3>3, PendingType, EventShape DEF ReadEvent
      <4>2. value \in -Full .. Full
        BY <4>1, MapInputFits
      <4>3. next' = [next EXCEPT ![e.input] = value]
        BY <3>3 DEF ReadEvent
      <4> HIDE DEF value
      <4> QED
        BY <4>2, <4>3 DEF RangeInv, TypeOK
    <3>4. CASE UNCHANGED next
      BY <3>4 DEF RangeInv
    <3>5. ~\E a \in Axis : \E v \in ApiValues : SetValue(a, v) \/ AddValue(a, v)
      BY <1>a DEF SetValue, AddValue, Call
    <3> QED
      BY <3>1, <3>2, <3>3, <3>4, <3>5
      DEF Next, DrainEvents, Client, Change, StartDrain, ReadNothing,
          ReadDropped, PostUpdate, AnotherFails, CommitValue, ResetDevice, vars,
          axes
  <2>3. RangeInv => ValuesInRange
    BY DEF RangeInv, ValuesInRange
  <2> QED
    BY <2>1, <2>2, <2>3, TypeCorrect, PTL DEF Spec
<1> QED
  BY <1>0, <1>a

-----------------------------------------------------------------------------
(* Inputs that are lost.  In what libevdev will return, as long as nothing   *)
(* is dropped from it, the last event of an input is what the input is.      *)

Intact(s) == \A k \in DOMAIN s : s[k] # Dropped
NoneOf(i, s) == \A k \in DOMAIN s : s[k].input # i
Truthful(s, inputs) ==
  Intact(s) =>
    \A k \in DOMAIN s :
      (\A j \in DOMAIN s : s[j].input = s[k].input => j <= k)
        => s[k].raw = inputs[s[k].input]

SyncInv ==
  /\ Truthful(Pending, physical)
  /\ resync => trusted = {}
  /\ \A i \in trusted :
       Intact(Pending) /\ NoneOf(i, Pending) => Matches(i, next[i], physical[i])

(* Reading an event keeps the rest truthful, and an event with no later one *)
(* of its input is what the input is.                                       *)
LEMMA TruthfulTail ==
  ASSUME NEW s \in Seq(EventType), s # <<>>, Head(s) # Dropped,
         NEW inputs, Truthful(s, inputs)
  PROVE  /\ Truthful(Tail(s), inputs)
         /\ Intact(Tail(s)) /\ NoneOf(Head(s).input, Tail(s))
              => Head(s).raw = inputs[Head(s).input]
         /\ \A i : i # Head(s).input /\ NoneOf(i, Tail(s)) => NoneOf(i, s)
         /\ Intact(Tail(s)) => Intact(s)
<1>1. /\ Len(s) \in Nat /\ Len(s) > 0 /\ DOMAIN s = 1 .. Len(s)
      /\ Head(s) = s[1]
      /\ Tail(s) \in Seq(EventType) /\ Len(Tail(s)) = Len(s) - 1
      /\ \A k \in 1 .. Len(Tail(s)) : Tail(s)[k] = s[k + 1]
  BY HeadTailProperties, LenProperties, EmptySeq
<1>2. DOMAIN Tail(s) = 1 .. Len(s) - 1
  BY <1>1, LenProperties
<1>3. \A k \in DOMAIN s : k = 1 \/ (k - 1 \in DOMAIN Tail(s) /\ s[k] = Tail(s)[k - 1])
  BY <1>1, <1>2
<1>4. \A k \in DOMAIN Tail(s) : k + 1 \in DOMAIN s /\ Tail(s)[k] = s[k + 1]
  BY <1>1, <1>2
<1>5. Intact(Tail(s)) => Intact(s)
  BY <1>1, <1>3 DEF Intact
<1>6. \A i : i # Head(s).input /\ NoneOf(i, Tail(s)) => NoneOf(i, s)
  BY <1>1, <1>3 DEF NoneOf
<1>7. ASSUME Intact(Tail(s)), NoneOf(Head(s).input, Tail(s))
      PROVE  Head(s).raw = inputs[Head(s).input]
  <2>1. \A j \in DOMAIN s : s[j].input = s[1].input => j <= 1
    <3> SUFFICES ASSUME NEW j \in DOMAIN s, s[j].input = s[1].input PROVE j = 1
      BY <1>1
    <3>1. \A m \in DOMAIN Tail(s) : Tail(s)[m].input # s[1].input
      BY <1>1, <1>7 DEF NoneOf
    <3> QED
      BY <1>3, <3>1
  <2> QED
    BY <1>1, <1>5, <1>7, <2>1 DEF Truthful
<1>8. Truthful(Tail(s), inputs)
  <2> SUFFICES ASSUME Intact(Tail(s)), NEW k \in DOMAIN Tail(s),
                      \A j \in DOMAIN Tail(s) :
                         Tail(s)[j].input = Tail(s)[k].input => j <= k
               PROVE  Tail(s)[k].raw = inputs[Tail(s)[k].input]
    BY DEF Truthful
  <2>1. k + 1 \in DOMAIN s /\ Tail(s)[k] = s[k + 1]
    BY <1>4
  <2>2. \A j \in DOMAIN s : s[j].input = s[k + 1].input => j <= k + 1
    <3> SUFFICES ASSUME NEW j \in DOMAIN s, s[j].input = s[k + 1].input
                 PROVE  j <= k + 1
      OBVIOUS
    <3>1. j \in Int /\ k \in Nat
      BY <1>1, <1>2
    <3>2. CASE j = 1
      BY <3>1, <3>2
    <3>3. CASE j - 1 \in DOMAIN Tail(s) /\ s[j] = Tail(s)[j - 1]
      <4>1. j - 1 <= k
        BY <2>1, <3>3
      <4> QED
        BY <3>1, <4>1
    <3> QED
      BY <1>3, <3>2, <3>3
  <2> QED
    BY <1>5, <2>1, <2>2 DEF Truthful
<1> QED
  BY <1>5, <1>6, <1>7, <1>8

(* The kernel's report of a change that fits into its buffer. *)
LEMMA TruthfulAppend ==
  ASSUME NEW s \in Seq(EventType), NEW inputs \in [Input -> Int],
         NEW i \in Input, NEW raw \in Int, Truthful(s, inputs)
  PROVE  /\ Truthful(Append(s, Event(i, raw)), [inputs EXCEPT ![i] = raw])
         /\ ~NoneOf(i, Append(s, Event(i, raw)))
         /\ \A j : NoneOf(j, Append(s, Event(i, raw))) => NoneOf(j, s)
         /\ Intact(Append(s, Event(i, raw))) => Intact(s)
<1> DEFINE e == Event(i, raw)
           t == Append(s, e)
           new == [inputs EXCEPT ![i] = raw]
<1>1. e \in EventType /\ e.input = i /\ e.raw = raw
  BY DEF Event, EventType
<1>2. Len(s) \in Nat /\ DOMAIN s = 1 .. Len(s)
  BY LenProperties
<1> HIDE DEF e
<1>3. /\ DOMAIN t = 1 .. Len(s) + 1
      /\ t[Len(s) + 1] = e
      /\ \A k \in DOMAIN s : t[k] = s[k]
  BY <1>1, <1>2, AppendProperties, LenProperties
<1> HIDE DEF t
<1>4. \A k \in DOMAIN s : k \in DOMAIN t
  BY <1>2, <1>3
<1>5. Intact(t) => Intact(s)
  BY <1>3, <1>4 DEF Intact
<1>6. ~NoneOf(i, t) /\ \A j : NoneOf(j, t) => NoneOf(j, s)
  BY <1>1, <1>2, <1>3, <1>4 DEF NoneOf
<1>7. Truthful(t, new)
  <2> SUFFICES ASSUME Intact(t), NEW k \in DOMAIN t,
                      \A j \in DOMAIN t : t[j].input = t[k].input => j <= k
               PROVE  t[k].raw = new[t[k].input]
    BY DEF Truthful
  <2>1. CASE k = Len(s) + 1
    BY <1>1, <1>3, <2>1
  <2>2. CASE k # Len(s) + 1
    <3>1. k \in DOMAIN s /\ t[k] = s[k] /\ k < Len(s) + 1
      BY <1>2, <1>3, <2>2
    <3>2. s[k] \in EventType /\ s[k] # Dropped
      BY <1>2, <1>5, <3>1, ElementOfSeq DEF Intact
    <3>3. s[k].input \in Input
      BY <3>2, EventShape
    <3>4. s[k].input # i
      BY <1>1, <1>2, <1>3, <3>1
    <3>5. \A j \in DOMAIN s : s[j].input = s[k].input => j <= k
      BY <1>3, <1>4, <3>1
    <3>6. s[k].raw = inputs[s[k].input]
      BY <1>5, <3>1, <3>5 DEF Truthful
    <3> QED
      BY <3>1, <3>3, <3>4, <3>6
  <2> QED
    BY <2>1, <2>2
<1> QED
  BY <1>5, <1>6, <1>7 DEF t, e

LEMMA PendingAfterChange ==
  ASSUME TypeOK, SyncInv, NEW i \in Input, NEW raw \in Raw(i), Change(i, raw)
  PROVE  /\ Truthful(Pending', physical')
         /\ \A j \in Input :
              Intact(Pending') /\ NoneOf(j, Pending')
                => j # i /\ Intact(Pending) /\ NoneOf(j, Pending)
<1> DEFINE read == IF resync THEN <<>> ELSE queue
           e == Event(i, raw)
<1>1. /\ read \in Seq(EventType) /\ buffer \in Seq(EventType)
      /\ e \in EventType /\ Dropped \in EventType /\ raw \in Int
      /\ Pending = read \o buffer /\ Pending \in Seq(EventType)
  BY EmptySeq, PendingType, PhysicalIsRaw
  DEF TypeOK, Event, EventType, Pending
<1>2. Pending' = read \o Deliver(e) /\ physical' = [physical EXCEPT ![i] = raw]
  BY DEF Change, Pending, libevdev
<1> HIDE DEF read
<1>3. CASE Len(buffer) < BufferSize
  <2>1. Pending' = Append(Pending, e)
    <3> HIDE DEF e
    <3>1. Append(buffer, e) = buffer \o <<e>> /\ <<e>> \in Seq(EventType)
      BY <1>1, AppendIsConcat
    <3>2. Append(Pending, e) = Pending \o <<e>>
      BY <1>1, AppendIsConcat
    <3>3. read \o (buffer \o <<e>>) = (read \o buffer) \o <<e>>
      BY <1>1, <3>1, ConcatAssociative
    <3> QED
      BY <1>1, <1>2, <1>3, <3>1, <3>2, <3>3 DEF Deliver
  <2>2. physical \in [Input -> Int] /\ Truthful(Pending, physical)
    BY DEF TypeOK, SyncInv
  <2>3. /\ Truthful(Append(Pending, e), [physical EXCEPT ![i] = raw])
        /\ ~NoneOf(i, Append(Pending, e))
        /\ \A j : NoneOf(j, Append(Pending, e)) => NoneOf(j, Pending)
        /\ Intact(Append(Pending, e)) => Intact(Pending)
    BY <1>1, <2>2, TruthfulAppend
  <2> HIDE DEF e
  <2> QED
    BY <1>2, <2>1, <2>3
<1>4. CASE ~(Len(buffer) < BufferSize)
  <2> DEFINE t == <<Dropped, e>>
  <2>1. Pending' = read \o t
    BY <1>2, <1>4 DEF Deliver
  <2>2. t \in Seq(EventType) /\ Len(t) = 2 /\ t[1] = Dropped
    <3> HIDE DEF e, Dropped
    <3> QED
      BY <1>1
  <2> HIDE DEF t
  <2>3. Len(read) \in Nat
    BY <1>1, LenProperties
  <2>4. Len(read \o t) = Len(read) + 2 /\ (read \o t)[Len(read) + 1] = t[1]
    <3>1. /\ Len(read \o t) = Len(read) + Len(t)
          /\ \A j \in 1 .. Len(read) + Len(t) :
               (read \o t)[j] = IF j <= Len(read) THEN read[j] ELSE t[j - Len(read)]
      BY <1>1, <2>2, ConcatProperties
    <3>2. Len(read) + 1 \in 1 .. Len(read) + Len(t)
      BY <2>2, <2>3
    <3>3. ~(Len(read) + 1 <= Len(read)) /\ (Len(read) + 1) - Len(read) = 1
      BY <2>3
    <3> QED
      BY <2>2, <3>1, <3>2, <3>3
  <2>5. Len(read) + 1 \in DOMAIN (read \o t)
    BY <1>1, <2>2, <2>3, <2>4, ConcatProperties, LenProperties
  <2>6. ~Intact(Pending')
    BY <2>1, <2>2, <2>4, <2>5 DEF Intact
  <2> QED
    BY <2>6 DEF Truthful
<1> QED
  BY <1>3, <1>4

LEMMA InitSync == Init => SyncInv
<1> SUFFICES ASSUME Init PROVE SyncInv
  OBVIOUS
<1>1. Pending = <<>> /\ DOMAIN Pending = {}
  BY DEF Init, Pending
<1>2. \A i \in trusted : next[i] = 0 /\ physical[i] = 0
  BY AxisKinds DEF Init, AtRest
<1>3. \A i \in trusted : Matches(i, next[i], physical[i])
  BY <1>2, PadAssumption DEF Matches
<1> QED
  BY <1>1, <1>3 DEF Init, SyncInv, Truthful

LEMMA NextSync ==
  ASSUME TypeOK, SyncInv, [Next]_vars
  PROVE  SyncInv'
<1> USE DEF SyncInv
<1>1. ASSUME NEW i \in Input, NEW raw \in Raw(i), Change(i, raw)
      PROVE  SyncInv'
  <2>1. /\ next' = next /\ trusted' = trusted /\ resync' = resync
        /\ \A j \in Input : j # i => physical'[j] = physical[j]
    BY <1>1 DEF Change, libevdev, axes, history, TypeOK
  <2>2. trusted \subseteq Input
    BY DEF TypeOK
  <2> QED
    BY <1>1, <2>1, <2>2, PendingAfterChange
<1>2. CASE ReadNothing
  <2>1. Pending' = <<>>
    BY <1>2 DEF ReadNothing, Pending
  <2>2. Pending = <<>> /\ physical' = physical /\ next' = next
        /\ trusted' = trusted /\ resync' = FALSE
    BY <1>2 DEF ReadNothing, axes, history
  <2> QED
    BY <2>1, <2>2
<1>3. CASE ReadDropped
  <2>1. Pending' = <<>> /\ trusted' = {} /\ DOMAIN Pending' = {}
    BY <1>3 DEF ReadDropped, Pending
  <2> QED
    BY <2>1 DEF Truthful
<1>4. CASE ReadEvent
  <2> DEFINE e == Head(Pending)
  <2>1. /\ Pending \in Seq(EventType) /\ Pending # <<>> /\ e # Dropped
        /\ Tail(Pending) \in Seq(EventType)
        /\ e.input \in Input /\ e.raw \in Int
    BY <1>4, PendingType, EventShape DEF ReadEvent
  <2>2. Pending' = Tail(Pending)
    BY <1>4, <2>1, ConcatEmptySeq DEF ReadEvent, Pending
  <2>3. /\ physical' = physical /\ resync' = FALSE
        /\ trusted' = trusted \cup {e.input}
        /\ next' = [next EXCEPT ![e.input] = MapInput(e.input, e.raw)]
    BY <1>4 DEF ReadEvent
  <2>4. /\ Truthful(Tail(Pending), physical)
        /\ Intact(Tail(Pending)) /\ NoneOf(e.input, Tail(Pending))
             => e.raw = physical[e.input]
        /\ \A i : i # e.input /\ NoneOf(i, Tail(Pending)) => NoneOf(i, Pending)
        /\ Intact(Tail(Pending)) => Intact(Pending)
    BY <2>1, TruthfulTail
  <2>5. ASSUME NEW i \in trusted', Intact(Pending'), NoneOf(i, Pending')
        PROVE  Matches(i, next'[i], physical'[i])
    <3>1. CASE i = e.input
      <4>1. e.raw = physical[i] /\ physical[i] \in Raw(i) /\ i \in Input
        BY <2>1, <2>2, <2>4, <2>5, <3>1 DEF TypeOK
      <4>2. next'[i] = MapInput(i, physical[i])
        BY <2>1, <2>3, <3>1, <4>1, AxisKinds DEF TypeOK
      <4>3. Matches(i, MapInput(i, physical[i]), physical[i])
        BY <4>1, PhysicalIsRaw, MapInputFits
      <4> QED
        BY <2>3, <4>2, <4>3
    <3>2. CASE i # e.input
      <4>1. i \in trusted /\ i \in Axis
        BY <2>3, <2>5, <3>2, AxisKinds DEF TypeOK
      <4>2. next'[i] = next[i]
        BY <2>3, <3>2, <4>1 DEF TypeOK
      <4>3. Intact(Pending) /\ NoneOf(i, Pending)
        BY <2>2, <2>4, <2>5, <3>2
      <4> QED
        BY <2>3, <4>1, <4>2, <4>3
    <3> QED
      BY <3>1, <3>2
  <2> QED
    BY <2>2, <2>3, <2>4, <2>5
<1>5. CASE Commit
  <2>1. \A i \in Input : next'[i] = next[i]
    BY <1>5, DerivedFits DEF Commit, TypeOK
  <2>2. trusted \subseteq Input
    BY DEF TypeOK
  <2> QED
    BY <1>5, <2>1, <2>2 DEF Commit, Pending, libevdev, history
<1>6. CASE Reset /\ UNCHANGED <<physical, buffer, libevdev>>
  BY <1>6 DEF Reset, Pending, libevdev
<1>7. CASE UNCHANGED <<physical, buffer, libevdev, next, trusted>>
  BY <1>7 DEF Pending, libevdev
<1>8. ASSUME NEW a \in Axis, NEW v \in ApiValues, SetValue(a, v) \/ AddValue(a, v)
      PROVE  SyncInv'
  <2>1. /\ UNCHANGED <<physical, buffer, libevdev>>
        /\ trusted' = trusted \ {a}
        /\ \A i \in Axis : i # a => next'[i] = next[i]
    BY <1>8 DEF SetValue, AddValue, Call, TypeOK
  <2>2. trusted \subseteq Axis
    BY AxisKinds DEF TypeOK
  <2> QED
    BY <2>1, <2>2 DEF Pending, libevdev
<1> QED
  BY <1>1, <1>2, <1>3, <1>4, <1>5, <1>6, <1>7, <1>8
  DEF Next, DrainEvents, Client, StartDrain, PostUpdate, AnotherFails,
      CommitValue, ResetDevice, Call, vars, axes, history

(* No input is lost that the kernel has not dropped: replaying what is on   *)
(* its way over the next values gives the pad's state (process_device).     *)
THEOREM SyncCorrect == Spec => []InSync
<1>1. TypeOK /\ SyncInv /\ [Next]_vars => SyncInv'
  BY NextSync
<1>2. SyncInv => InSync
  <2> SUFFICES ASSUME SyncInv, Lossless, NEW i \in trusted
               PROVE  /\ \A k \in DOMAIN OnItsWay :
                            LastOf(i, k) => OnItsWay[k].raw = physical[i]
                      /\ (\A k \in DOMAIN OnItsWay : OnItsWay[k].input # i)
                            => Matches(i, next[i], physical[i])
    BY DEF InSync
  <2>1. Pending = OnItsWay
    BY DEF Pending, OnItsWay, Lossless
  <2>2. Intact(OnItsWay)
    BY DEF Intact, Lossless
  <2> QED
    BY <2>1, <2>2 DEF SyncInv, Truthful, LastOf, NoneOf
<1> QED
  BY <1>1, <1>2, InitSync, TypeCorrect, PTL DEF Spec
=============================================================================
