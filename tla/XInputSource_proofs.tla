------------------------ MODULE XInputSource_proofs ------------------------
(***************************************************************************)
(* Proofs about XInputSource for any number of slots, any states of a pad, *)
(* any calls and failures, and any bounds.                                 *)
(***************************************************************************)
EXTENDS XInputSource, TLAPS

StateType == [number : Nat, value : Value]

(* What XInputGetState returns is a packet. *)
LEMMA GetStateType ==
  ASSUME TypeOK, NEW s \in Slot
  PROVE  GetState(s) \in StateType
BY DEF TypeOK, GetState, Packet, StateType

(* Writing axes keeps them well formed. *)
LEMMA WriteAxesType ==
  ASSUME TypeOK, NEW s \in Slot, NEW before, NEW read \in StateType,
         WriteAxes(s, before, read)
  PROVE  next' \in [Slot -> Value] /\ trusted' \subseteq Slot
<1>1. read.value \in Value
  BY DEF StateType
<1> QED
  BY <1>1 DEF TypeOK, WriteAxes

(* The loop over the slots stays within them and passes over none. *)
LEMMA NextSlotType ==
  ASSUME slot \in Slot, NEW busy, NEW done, busy # done,
         ThenNextSlot(busy, done)
  PROVE  /\ slot' \in Slot /\ pc' \in {busy, done}
         /\ pc' = busy => slot' = slot + 1
         /\ pc' # busy => slot = Slots
BY XInputAssumption DEF ThenNextSlot, MoreSlots, Slot

(* set_usable keeps what the client knows well formed, and true. *)
LEMMA SetUsableFits ==
  ASSUME TypeOK, NEW s \in Slot, NEW u \in BOOLEAN, SetUsable(s, u)
  PROVE  /\ usable' \in [Slot -> BOOLEAN]
         /\ known' \in [Slot -> {"nothing", "usable", "unusable"}]
         /\ \A r \in Slot : known[r] = Usability(usable[r])
                              => known'[r] = Usability(usable'[r])
<1>1. Usability(u) \in {"usable", "unusable"}
  BY DEF Usability
<1>2. /\ usable' \in [Slot -> BOOLEAN]
      /\ known' \in [Slot -> {"nothing", "usable", "unusable"}]
  BY <1>1 DEF TypeOK, SetUsable
<1>3. ASSUME NEW r \in Slot, known[r] = Usability(usable[r])
      PROVE  known'[r] = Usability(usable'[r])
  <2>1. CASE r = s /\ u # usable[s]
    BY <1>2, <2>1 DEF TypeOK, SetUsable
  <2>2. CASE r = s /\ u = usable[s]
    BY <1>2, <1>3, <2>2 DEF TypeOK, SetUsable
  <2>3. CASE r # s
    BY <1>2, <1>3, <2>3 DEF TypeOK, SetUsable
  <2> QED
    BY <2>1, <2>2, <2>3
<1> QED
  BY <1>2, <1>3

-----------------------------------------------------------------------------
(* Type correctness. *)

LEMMA InitType == Init => TypeOK
<1> SUFFICES ASSUME Init PROVE TypeOK
  OBVIOUS
<1>1. 0 \in Value /\ 1 \in Slot
  BY XInputAssumption DEF Slot
<1> QED
  BY <1>1 DEF Init, TypeOK, Packet

LEMMA NextType == TypeOK /\ [Next]_vars => TypeOK'
<1> SUFFICES ASSUME TypeOK, [Next]_vars PROVE TypeOK'
  OBVIOUS
<1>1. CASE CreateDevice
  <2>1. GetState(slot) \in StateType /\ slot \in Slot
    BY GetStateType DEF TypeOK
  <2>2. next' \in [Slot -> Value] /\ trusted' \subseteq Slot
    BY <1>1, <2>1, WriteAxesType DEF CreateDevice
  <2>3. slot' \in Slot /\ pc' \in {"enum", "idle"}
    BY <1>1, <2>1, NextSlotType DEF CreateDevice
  <2>4. state' \in [Slot -> StateType] /\ usable' \in [Slot -> BOOLEAN]
    BY <1>1, <2>1 DEF CreateDevice, TypeOK, StateType
  <2>5. known' \in [Slot -> {"nothing", "usable", "unusable"}]
    BY <1>1, <2>1 DEF CreateDevice, TypeOK, Usability
  <2> QED
    BY <1>1, <2>2, <2>3, <2>4, <2>5 DEF CreateDevice, TypeOK, StateType, pad, bounds
<1>2. CASE StartDrain
  BY <1>2, XInputAssumption
  DEF StartDrain, TypeOK, Slot, pad, device, bounds
<1>3. CASE ReadState
  <2>1. /\ GetState(slot) \in StateType /\ slot \in Slot
        /\ connected[slot] \in BOOLEAN /\ state[slot].number \in Nat
    BY GetStateType DEF TypeOK
  <2>2. next' \in [Slot -> Value] /\ trusted' \subseteq Slot
    BY <1>3, <2>1, WriteAxesType DEF ReadState, TypeOK
  <2>3. slot' \in Slot /\ pc' \in {"read", "stop", "commit"}
    BY <1>3, <2>1, NextSlotType DEF ReadState, TypeOK
  <2>4. state' \in [Slot -> StateType] /\ prevPacket' \in Nat
    BY <1>3, <2>1 DEF ReadState, TypeOK, StateType
  <2>5. /\ usable' \in [Slot -> BOOLEAN]
        /\ known' \in [Slot -> {"nothing", "usable", "unusable"}]
    BY <1>3, <2>1, SetUsableFits DEF ReadState
  <2> QED
    BY <1>3, <2>2, <2>3, <2>4, <2>5 DEF ReadState, TypeOK, StateType, pad, bounds
<1>4. CASE StopMotors
  <2>1. /\ state[slot] \in StateType /\ slot \in Slot
    BY DEF TypeOK, StateType
  <2>2. next' \in [Slot -> Value] /\ trusted' \subseteq Slot
    BY <1>4, <2>1, WriteAxesType DEF StopMotors
  <2>3. slot' \in Slot /\ pc' \in {"read", "commit"}
    BY <1>4, <2>1, NextSlotType DEF StopMotors
  <2>4. /\ usable' \in [Slot -> BOOLEAN]
        /\ known' \in [Slot -> {"nothing", "usable", "unusable"}]
    BY <1>4, <2>1, SetUsableFits DEF StopMotors, TypeOK
  <2>5. motor' \in [Slot -> BOOLEAN] /\ playing' \in [Slot -> BOOLEAN]
    BY <1>4, <2>1 DEF StopMotors, SetStateSucceeds, TypeOK
  <2> QED
    BY <1>4, <2>2, <2>3, <2>4, <2>5 DEF StopMotors, TypeOK, bounds
<1>5. CASE StopFails
  BY <1>5, XInputAssumption
  DEF StopFails, SetStateFails, PlayingAfterThrow, TypeOK, Slot, pad
<1>6. CASE Commit
  BY <1>6 DEF Commit, TypeOK, pad, bounds
<1>7. ASSUME NEW s \in Slot, NEW power \in BOOLEAN, Vibrate(s, power)
      PROVE  TypeOK'
  <2>1. /\ usable' \in [Slot -> BOOLEAN]
        /\ known' \in [Slot -> {"nothing", "usable", "unusable"}]
    BY <1>7, SetUsableFits DEF Vibrate, TypeOK
  <2>2. /\ elapsed' \in [Slot -> BOOLEAN] /\ motor' \in [Slot -> BOOLEAN]
        /\ playing' \in [Slot -> BOOLEAN]
        /\ failures' \in Nat /\ calls' \in Nat
    <3>1. elapsed' \in [Slot -> BOOLEAN] /\ calls' \in Nat
      BY <1>7 DEF Vibrate, Call, TypeOK
    <3>2. motor' \in [Slot -> BOOLEAN] /\ playing' \in [Slot -> BOOLEAN]
      BY <1>7 DEF Vibrate, SetStateSucceeds, TypeOK
    <3>3. failures' \in Nat
      <4>1. failures' = failures \/ failures' = failures + 1
        BY <1>7 DEF Vibrate, SetStateFails
      <4> QED
        BY <4>1 DEF TypeOK
    <3> QED
      BY <3>1, <3>2, <3>3
  <2> QED
    BY <1>7, <2>1, <2>2 DEF Vibrate, Call, TypeOK, control
<1>8. ASSUME NEW s \in Slot, ResetDevice(s)
      PROVE  TypeOK'
  BY <1>8, XInputAssumption DEF ResetDevice, Call, TypeOK, control
<1>9. ASSUME NEW s \in Slot, NEW v \in Value, Plug(s, v)
      PROVE  TypeOK'
  BY <1>9 DEF Plug, TypeOK, device, control, bounds
<1>10. ASSUME NEW s \in Slot, NEW v \in Value, Change(s, v)
       PROVE  TypeOK'
  BY <1>10 DEF Change, TypeOK, device, control, bounds
<1>11. ASSUME NEW s \in Slot, Unplug(s) \/ Elapse(s)
       PROVE  TypeOK'
  <2>1. CASE Unplug(s)
    BY <2>1, XInputAssumption DEF Unplug, TypeOK, device, control, bounds
  <2>2. CASE Elapse(s)
    BY <2>2 DEF Elapse, TypeOK, device, control, bounds
  <2> QED
    BY <1>11, <2>1, <2>2
<1>12. CASE UNCHANGED vars
  BY <1>12 DEF vars, pad, device, control, bounds, TypeOK
<1> QED
  BY <1>1, <1>2, <1>3, <1>4, <1>5, <1>6, <1>7, <1>8, <1>9, <1>10, <1>11, <1>12
  DEF Next, Library

(* Type correctness: the loops stay within the slots, packets are packets.  *)
THEOREM TypeCorrect == Spec => []TypeOK
BY InitType, NextType, PTL DEF Spec

-----------------------------------------------------------------------------
(* Motors.  A motor that runs needs a pad, so an effect on a pad that is     *)
(* gone may be forgotten.                                                    *)

MotorInv == \A s \in Slot : motor[s] => playing[s] /\ connected[s]

(* Whatever fails, and whenever pads come and go, a motor that runs is known *)
(* to be playing.                                                            *)
THEOREM MotorCorrect == Spec => []MotorTracked
<1>1. Init => MotorInv
  BY DEF Init, MotorInv
<1>2. TypeOK /\ MotorInv /\ [Next]_vars => MotorInv'
  <2> SUFFICES ASSUME TypeOK, MotorInv, [Next]_vars PROVE MotorInv'
    OBVIOUS
  <2>1. CASE StopMotors
    BY <2>1 DEF StopMotors, SetStateSucceeds, MotorInv, TypeOK
  <2>2. CASE StopFails
    BY <2>2 DEF StopFails, PlayingAfterThrow, MotorInv, pad
  <2>3. ASSUME NEW s \in Slot, NEW power \in BOOLEAN, Vibrate(s, power)
        PROVE  MotorInv'
    BY <2>3 DEF Vibrate, Call, SetStateSucceeds, MotorInv, TypeOK
  <2>4. ASSUME NEW s \in Slot, Unplug(s)
        PROVE  MotorInv'
    BY <2>4 DEF Unplug, MotorInv, TypeOK, device
  <2>5. ASSUME NEW s \in Slot, NEW v \in Value, Plug(s, v)
        PROVE  MotorInv'
    BY <2>5 DEF Plug, MotorInv, TypeOK, device
  <2>6. CASE UNCHANGED <<motor, playing, connected>>
    BY <2>6 DEF MotorInv
  <2> QED
    BY <2>1, <2>2, <2>3, <2>4, <2>5, <2>6
    DEF Next, Library, CreateDevice, StartDrain, ReadState, Commit, Elapse,
        Change, ResetDevice, Call, vars, pad, device
<1>3. MotorInv => MotorTracked
  BY DEF MotorInv, MotorTracked
<1> QED
  BY <1>1, <1>2, <1>3, TypeCorrect, PTL DEF Spec

-----------------------------------------------------------------------------
(* Usability. *)

(* The client's view of a device's usability is the device's.                *)
THEOREM UsableCorrect == Spec => []UsableAgrees
<1>1. Init => UsableAgrees
  BY DEF Init, UsableAgrees, Created, Slot
<1>2. TypeOK /\ UsableAgrees /\ [Next]_vars => UsableAgrees'
  <2> SUFFICES ASSUME TypeOK, UsableAgrees, [Next]_vars,
                      NEW r \in Slot, Created(r)'
               PROVE  known'[r] = Usability(usable'[r])
    BY DEF UsableAgrees, Usability
  <2>1. CASE CreateDevice
    <3>1. slot \in Slot /\ slot \in Int /\ r \in Int /\ Slots \in Int /\ r <= Slots
      BY XInputAssumption DEF TypeOK, Slot
    <3>2. /\ pc' = "enum" => slot' = slot + 1
          /\ pc' # "enum" => slot = Slots
      BY <2>1, NextSlotType DEF CreateDevice, TypeOK
    <3>3. r < slot \/ r = slot
      BY <3>1, <3>2 DEF Created
    <3>4. CASE r = slot
      BY <2>1, <3>4 DEF CreateDevice, TypeOK
    <3>5. CASE r < slot
      <4>1. r # slot /\ Created(r)
        BY <3>1, <3>5 DEF Created
      <4>2. known'[r] = known[r] /\ usable'[r] = usable[r]
        BY <2>1, <4>1 DEF CreateDevice, TypeOK
      <4> QED
        BY <4>1, <4>2 DEF UsableAgrees
    <3> QED
      BY <3>3, <3>4, <3>5
  <2>2. CASE ~CreateDevice
    <3>1. Created(r)
      BY <2>2
      DEF Next, Library, StartDrain, ReadState, StopMotors, StopFails, Commit,
          Vibrate, ResetDevice, Call, Plug, Unplug, Change, Elapse, vars,
          control, Created
    <3>2. known[r] = Usability(usable[r])
      BY <3>1 DEF UsableAgrees
    <3>3. CASE \E s \in Slot, u \in BOOLEAN : SetUsable(s, u)
      BY <3>2, <3>3, SetUsableFits
    <3>4. CASE UNCHANGED <<usable, known>>
      BY <3>2, <3>4
    <3>5. slot \in Slot /\ connected[slot] \in BOOLEAN
      BY DEF TypeOK
    <3> QED
      BY <2>2, <3>3, <3>4, <3>5
      DEF Next, Library, StartDrain, ReadState, StopMotors, StopFails, Commit,
          Vibrate, ResetDevice, Plug, Unplug, Change, Elapse, vars, device
  <2> QED
    BY <2>1, <2>2
<1> QED
  BY <1>1, <1>2, TypeCorrect, PTL DEF Spec

-----------------------------------------------------------------------------
(* Packets.  Without reuse, a packet number stands for one state of the pad, *)
(* and the axes of a slot hold the packet last read, or an update is under   *)
(* way that will write them.                                                 *)

SyncInv ==
  /\ \A s \in Slot : state[s].number <= packet[s]
  /\ \A s \in Slot : connected[s] /\ state[s].number = packet[s]
                       => state[s].value = physical[s]
  /\ \A s \in trusted : \/ Updating(s) /\ Fresh(prevPacket, state[s])
                        \/ next[s] = state[s].value

(* What XInputGetState returns keeps to the invariant. *)
LEMMA GetStateInSync ==
  ASSUME TypeOK, SyncInv, NEW s \in Slot
  PROVE  /\ GetState(s).number \in Nat /\ GetState(s).number <= packet[s]
         /\ connected[s] => GetState(s).value = physical[s]
         /\ GetState(s).number = state[s].number => GetState(s).value = state[s].value
         /\ ~connected[s] => GetState(s) = state[s]
<1>1. packet[s] \in Nat /\ state[s].number \in Nat /\ state[s].number <= packet[s]
  BY DEF TypeOK, SyncInv
<1>2. CASE connected[s]
  <2>1. GetState(s).number = packet[s] /\ GetState(s).value = physical[s]
    BY <1>2 DEF GetState, Packet
  <2> QED
    BY <1>1, <1>2, <2>1 DEF SyncInv
<1>3. CASE ~connected[s]
  BY <1>1, <1>3 DEF GetState
<1> QED
  BY <1>2, <1>3

(* A new packet number is one that has not been read. *)
LEMMA NewPacketInSync ==
  ASSUME TypeOK, SyncInv, NEW s \in Slot, NEW v \in Value,
         UNCHANGED <<state, next, trusted, control>>,
         packet' = [packet EXCEPT ![s] = @ + 1],
         physical' = [physical EXCEPT ![s] = v],
         connected' = [connected EXCEPT ![s] = TRUE]
  PROVE  SyncInv'
<1>1. packet'[s] = packet[s] + 1 /\ packet[s] \in Nat /\ state[s].number \in Nat
  BY DEF TypeOK
<1>2. \A k \in Slot \ {s} : /\ packet'[k] = packet[k] /\ physical'[k] = physical[k]
                            /\ connected'[k] = connected[k]
  BY DEF TypeOK
<1>3. state'[s].number < packet'[s]
  BY <1>1 DEF SyncInv
<1>4. /\ \A k \in Slot : state'[k].number <= packet'[k]
      /\ \A k \in Slot : connected'[k] /\ state'[k].number = packet'[k]
                           => state'[k].value = physical'[k]
  BY <1>1, <1>2, <1>3 DEF SyncInv
<1> QED
  BY <1>4 DEF SyncInv, Updating, Fresh, control

(* A pad whose last packet has been read has its values on its axes.         *)
THEOREM SyncCorrect == Spec => []InSync
<1>1. CASE "reuse" \in Upsets
  <2>1. TypeOK => InSync
    BY <1>1 DEF InSync
  <2> QED
    BY <2>1, TypeCorrect, PTL
<1>2. CASE "reuse" \notin Upsets
  <2>1. Init => SyncInv
    <3> SUFFICES ASSUME Init PROVE SyncInv
      OBVIOUS
    <3>1. \A s \in Slot : packet[s] \in {0, 1} /\ (packet[s] = 0 => physical[s] = 0)
      BY DEF Init
    <3> QED
      BY <3>1 DEF Init, SyncInv, Packet
  <2>2. TypeOK /\ SyncInv /\ [Next]_vars => SyncInv'
    <3> SUFFICES ASSUME TypeOK, SyncInv, [Next]_vars PROVE SyncInv'
      OBVIOUS
    <3>1. CASE CreateDevice
      <4>1. slot \in Slot /\ state[slot].number \in Nat
        BY DEF TypeOK
      <4> DEFINE new == GetState(slot)
      <4>2. /\ new.number \in Nat /\ new.number <= packet[slot]
            /\ connected[slot] => new.value = physical[slot]
            /\ new.number = state[slot].number => new.value = state[slot].value
            /\ ~connected[slot] => new = state[slot]
        BY <4>1, GetStateInSync
      <4>3. /\ state' = [state EXCEPT ![slot] = new]
            /\ UNCHANGED <<connected, physical, packet>>
        BY <3>1 DEF CreateDevice, pad
      <4> HIDE DEF new
      <4>4. state'[slot] = new /\ \A s \in Slot \ {slot} : state'[s] = state[s]
        BY <4>1, <4>3 DEF TypeOK
      <4>5. /\ \A s \in Slot : state'[s].number <= packet'[s]
            /\ \A s \in Slot : connected'[s] /\ state'[s].number = packet'[s]
                                 => state'[s].value = physical'[s]
        BY <4>2, <4>3, <4>4 DEF SyncInv
      <4>6. ASSUME NEW s \in trusted', WriteAxes(slot, state[slot].number, new),
                   ~Updating(slot)
            PROVE  next'[s] = state'[s].value
        <5>1. CASE s = slot /\ new.number # state[slot].number
          BY <4>1, <4>4, <4>6, <5>1 DEF WriteAxes, Fresh, TypeOK
        <5>2. CASE s = slot /\ new.number = state[slot].number
          <6>1. s \in trusted /\ next'[s] = next[s]
            BY <4>6, <5>2 DEF WriteAxes, Fresh
          <6> QED
            BY <4>2, <4>4, <4>6, <5>2, <6>1 DEF SyncInv
        <5>3. CASE s # slot
          <6>1. s \in trusted /\ s \in Slot /\ next'[s] = next[s]
            BY <4>6, <5>3 DEF WriteAxes, TypeOK
          <6> QED
            BY <4>4, <5>3, <6>1 DEF SyncInv, Updating
        <5> QED
          BY <5>1, <5>2, <5>3
      <4>7. ~Updating(slot)
        BY <3>1 DEF CreateDevice, Updating
      <4>8. WriteAxes(slot, state[slot].number, new)
        BY <3>1 DEF CreateDevice, new
      <4> QED
        BY <4>5, <4>6, <4>7, <4>8 DEF SyncInv
    <3>2. CASE StartDrain
      BY <3>2 DEF StartDrain, SyncInv, Updating, Fresh, pad, device
    <3>3. CASE ReadState
      <4>1. slot \in Slot /\ state[slot].number \in Nat
        BY DEF TypeOK
      <4> DEFINE new == GetState(slot)
      <4>2. /\ new.number \in Nat /\ new.number <= packet[slot]
            /\ connected[slot] => new.value = physical[slot]
            /\ new.number = state[slot].number => new.value = state[slot].value
            /\ ~connected[slot] => new = state[slot]
        BY <4>1, GetStateInSync
      <4>3. /\ state' = [state EXCEPT ![slot] = new]
            /\ UNCHANGED <<connected, physical, packet>>
        BY <3>3 DEF ReadState, pad
      <4> HIDE DEF new
      <4>4. state'[slot] = new /\ \A s \in Slot \ {slot} : state'[s] = state[s]
        BY <4>1, <4>3 DEF TypeOK
      <4>5. /\ \A s \in Slot : state'[s].number <= packet'[s]
            /\ \A s \in Slot : connected'[s] /\ state'[s].number = packet'[s]
                                 => state'[s].value = physical'[s]
        BY <4>2, <4>3, <4>4 DEF SyncInv
      <4>6. ASSUME NEW s \in trusted', WriteAxes(slot, state[slot].number, new),
                   ~Updating(slot)
            PROVE  next'[s] = state'[s].value
        <5>1. CASE s = slot /\ new.number # state[slot].number
          BY <4>1, <4>4, <4>6, <5>1 DEF WriteAxes, Fresh, TypeOK
        <5>2. CASE s = slot /\ new.number = state[slot].number
          <6>1. s \in trusted /\ next'[s] = next[s]
            BY <4>6, <5>2 DEF WriteAxes, Fresh
          <6> QED
            BY <4>2, <4>4, <4>6, <5>2, <6>1 DEF SyncInv
        <5>3. CASE s # slot
          <6>1. s \in trusted /\ s \in Slot /\ next'[s] = next[s]
            BY <4>6, <5>3 DEF WriteAxes, TypeOK
          <6> QED
            BY <4>4, <5>3, <6>1 DEF SyncInv, Updating
        <5> QED
          BY <5>1, <5>2, <5>3
      <4>7. ~Updating(slot)
        BY <3>3 DEF ReadState, Updating
      <4>8. CASE WriteAxes(slot, state[slot].number, new)
        BY <4>5, <4>6, <4>7, <4>8 DEF SyncInv
      <4>9. CASE /\ pc' = "stop" /\ UNCHANGED <<slot, next, trusted>>
                 /\ prevPacket' = state[slot].number
        <5> SUFFICES ASSUME NEW s \in trusted,
                            ~(Updating(s)' /\ Fresh(prevPacket, state[s])')
                     PROVE  next[s] = state'[s].value
          BY <4>5, <4>9 DEF SyncInv
        <5>1. next[s] = state[s].value /\ s \in Slot
          BY <3>3 DEF SyncInv, ReadState, Updating, TypeOK
        <5>2. CASE s = slot
          <6>1. new.number = state[slot].number
            BY <4>4, <4>9, <5>2 DEF Updating, Fresh
          <6> QED
            BY <4>2, <4>4, <5>1, <5>2, <6>1
        <5>3. CASE s # slot
          BY <4>4, <5>1, <5>3
        <5> QED
          BY <5>2, <5>3
      <4> QED
        BY <3>3, <4>8, <4>9 DEF ReadState, new
    <3>4. CASE StopMotors
      <4>1. /\ UNCHANGED <<connected, physical, packet, state>>
            /\ WriteAxes(slot, prevPacket, state[slot]) /\ slot \in Slot
        BY <3>4 DEF StopMotors, TypeOK
      <4>2. ASSUME NEW s \in trusted'
            PROVE  next'[s] = state[s].value
        <5>1. CASE s = slot /\ Fresh(prevPacket, state[slot])
          BY <4>1, <5>1 DEF WriteAxes, TypeOK
        <5>2. CASE ~(s = slot /\ Fresh(prevPacket, state[slot]))
          <6>1. s \in trusted /\ s \in Slot /\ next'[s] = next[s]
            BY <4>1, <5>2 DEF WriteAxes, TypeOK
          <6> QED
            BY <5>2, <6>1 DEF SyncInv, Updating
        <5> QED
          BY <5>1, <5>2
      <4> QED
        BY <4>1, <4>2 DEF SyncInv
    <3>5. CASE StopFails
      <4>1. /\ UNCHANGED <<connected, physical, packet, state, next>>
            /\ trusted' = IF Fresh(prevPacket, state[slot])
                          THEN trusted \ {slot} ELSE trusted
        BY <3>5 DEF StopFails, pad
      <4>2. ASSUME NEW s \in trusted'
            PROVE  next[s] = state[s].value
        BY <4>1, <4>2 DEF SyncInv, Updating
      <4> QED
        BY <4>1, <4>2 DEF SyncInv
    <3>6. CASE Commit
      BY <3>6 DEF Commit, SyncInv, Updating, Fresh, pad
    <3>7. ASSUME NEW s \in Slot, ResetDevice(s) PROVE SyncInv'
      <4>1. /\ UNCHANGED <<connected, physical, packet, state, control>>
            /\ trusted' = trusted \ {s} /\ next' = [next EXCEPT ![s] = 0]
        BY <3>7 DEF ResetDevice, Call
      <4>2. \A k \in trusted' : k \in trusted /\ next'[k] = next[k]
        BY <4>1 DEF TypeOK
      <4> QED
        BY <4>1, <4>2 DEF SyncInv, Updating, Fresh, control
    <3>8. ASSUME NEW s \in Slot, NEW v \in Value, Plug(s, v) PROVE SyncInv'
      <4>1. /\ UNCHANGED <<state, next, trusted, control>>
            /\ packet' = [packet EXCEPT ![s] = @ + 1]
            /\ physical' = [physical EXCEPT ![s] = v]
            /\ connected' = [connected EXCEPT ![s] = TRUE]
        BY <1>2, <3>8 DEF Plug, device
      <4> QED
        BY <4>1, NewPacketInSync
    <3>9. ASSUME NEW s \in Slot, NEW v \in Value, Change(s, v) PROVE SyncInv'
      <4>1. /\ UNCHANGED <<state, next, trusted, control>>
            /\ packet' = [packet EXCEPT ![s] = @ + 1]
            /\ physical' = [physical EXCEPT ![s] = v]
            /\ connected' = [connected EXCEPT ![s] = TRUE]
        BY <3>9 DEF Change, device, TypeOK
      <4> QED
        BY <4>1, NewPacketInSync
    <3>10. ASSUME NEW s \in Slot, Unplug(s) PROVE SyncInv'
      <4>1. /\ UNCHANGED <<packet, state, next, trusted, control>>
            /\ physical' = [physical EXCEPT ![s] = 0]
            /\ connected' = [connected EXCEPT ![s] = FALSE]
        BY <3>10 DEF Unplug, device
      <4>2. \A k \in Slot : connected'[k] => connected[k] /\ physical'[k] = physical[k]
        BY <4>1 DEF TypeOK
      <4> QED
        BY <4>1, <4>2 DEF SyncInv, Updating, Fresh, control
    <3>11. CASE UNCHANGED <<connected, physical, packet, state, next, trusted,
                            control>>
      BY <3>11 DEF SyncInv, Updating, Fresh, control
    <3> QED
      BY <3>1, <3>2, <3>3, <3>4, <3>5, <3>6, <3>7, <3>8, <3>9, <3>10, <3>11
      DEF Next, Library, Vibrate, Call, Elapse, vars, pad, device
  <2>3. TypeOK /\ SyncInv => InSync
    BY DEF InSync, SyncInv, TypeOK, Read
  <2> QED
    BY <2>1, <2>2, <2>3, TypeCorrect, PTL DEF Spec
<1> QED
  BY <1>1, <1>2
=============================================================================
