---------------------------- MODULE MCHidmSource ----------------------------
(* Small instances of HidmSource for TLC. *)
EXTENDS HidmSource, TLC

CONSTANTS pad, mouse, keypad, hub, x, y, z
=============================================================================
