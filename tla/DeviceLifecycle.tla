-------------------------- MODULE DeviceLifecycle --------------------------
(***************************************************************************)
(* What context::add_device and context::remove_device promise to a client *)
(* whatever source calls them: the client hears of a device once, with an  *)
(* id above every id it has heard before, and hears at most one removal of *)
(* it, after which that id is never used again.                            *)
(*                                                                         *)
(* told[i] is the last of the events "created" and "removed" the device    *)
(* callback received for id i; an id outside DOMAIN told was never heard   *)
(* of.  The sources whose devices come and go refine this module.          *)
(***************************************************************************)
EXTENDS Naturals

VARIABLE told

Init == DOMAIN told = {}

(* The ids the client hears of for the first time in this step. *)
Fresh == DOMAIN told' \ DOMAIN told

(* One step of a source announces any mix of arrivals and departures. *)
Announce ==
    /\ DOMAIN told \subseteq DOMAIN told'
    /\ \A i \in DOMAIN told :
          told'[i] # told[i] => told[i] = "created" /\ told'[i] = "removed"
    /\ \A i \in Fresh :
          /\ told'[i] = "created"
          /\ \A j \in DOMAIN told : j < i

Spec == Init /\ [][Announce]_told
=============================================================================
