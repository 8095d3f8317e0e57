------------------------ MODULE ForceFeedback_proofs ------------------------
(***************************************************************************)
(* Proofs about ForceFeedback, for any size of the effect memory and any   *)
(* number of calls: the types, and that no effect is forgotten.            *)
(***************************************************************************)
EXTENDS ForceFeedback, TLAPS

Inv == TypeOK /\ NoForgottenEffect

LEMMA InitInv == Init => Inv
<1> SUFFICES ASSUME Init PROVE Inv
  OBVIOUS
<1> USE SlotAssumption DEF Init
<1>1. TypeOK
  <2>1. usable \in BOOLEAN
    BY Zenon
  <2>2. owner \in [Slot -> {"us", "other", "nobody"}]
    OBVIOUS
  <2> QED
    BY <2>1, <2>2 DEF TypeOK
<1>2. Ours = {}
  BY DEF Ours
<1> QED
  BY <1>1, <1>2 DEF Inv, NoForgottenEffect
LEMMA PadInv == Inv /\ Pad => Inv'
<1> SUFFICES ASSUME Inv, Pad PROVE Inv'
  OBVIOUS
<1> USE DEF Inv, TypeOK, NoForgottenEffect, Ours, fixed, CanVibrate
<1>1. CASE Unplug
  BY <1>1 DEF Unplug
<1>2. ASSUME NEW s \in Slot, EffectEnds(s) PROVE Inv'
  BY <1>2 DEF EffectEnds
<1>3. ASSUME NEW s \in Slot, OtherUploads(s) PROVE Inv'
  BY <1>3 DEF OtherUploads, Free
<1>4. ASSUME NEW s \in Slot, OtherRemoves(s) PROVE Inv'
  BY <1>4 DEF OtherRemoves
<1> QED
  BY <1>1, <1>2, <1>3, <1>4 DEF Pad

LEMMA DeviceInv == Inv /\ Device => Inv'
<1> SUFFICES ASSUME Inv, Device PROVE Inv'
  OBVIOUS
<1> USE SlotAssumption
    DEF Inv, TypeOK, NoForgottenEffect, Ours, fixed, pad, CanVibrate, Return
<1>1. ASSUME NEW duration, NEW left, NEW right, Vibrate(duration, left, right)
      PROVE  Inv'
  BY <1>1 DEF Vibrate
<1>2. CASE RemoveLast
  BY <1>2 DEF RemoveLast, AfterRemoved
<1>3. CASE RemoveFails
  BY <1>3 DEF RemoveFails, AfterRemoveFails
<1>4. CASE CreateEffect
  BY <1>4 DEF CreateEffect, AfterCreated, Free
<1>5. CASE CreateFails
  BY <1>5 DEF CreateFails
<1>6. CASE Start
  BY <1>6 DEF Start
<1>7. CASE StartFails
  BY <1>7 DEF StartFails
<1>8. CASE DestroyDevice
  BY <1>8 DEF DestroyDevice
<1> QED
  BY <1>1, <1>2, <1>3, <1>4, <1>5, <1>6, <1>7, <1>8 DEF Device

LEMMA Invariant == Spec => []Inv
<1>1. Inv /\ [Next]_vars => Inv'
  <2>1. Inv /\ UNCHANGED vars => Inv'
    BY DEF Inv, TypeOK, NoForgottenEffect, Ours, CanVibrate, vars, fixed, pad
  <2> QED
    BY <2>1, PadInv, DeviceInv DEF Next
<1> QED
  BY InitInv, <1>1, PTL DEF Spec

(* Type correctness of every reachable state: the effect that is remembered *)
(* is a slot of the pad's memory or none.                                   *)
THEOREM TypeCorrect == Spec => []TypeOK
BY Invariant, PTL DEF Inv

(* Whatever step of whatever call fails, and whatever the pad and other     *)
(* programs do, an effect in the memory of the pad is the one remembered.   *)
THEOREM NothingForgotten == Spec => []NoForgottenEffect
BY Invariant, PTL DEF Inv
=============================================================================
