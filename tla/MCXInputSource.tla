--------------------------- MODULE MCXInputSource ---------------------------
(* Small instances of XInputSource for TLC. *)
EXTENDS XInputSource
=============================================================================
