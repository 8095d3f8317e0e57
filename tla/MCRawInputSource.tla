-------------------------- MODULE MCRawInputSource --------------------------
(* Small instances of RawInputSource for TLC. *)
EXTENDS RawInputSource, TLC

CONSTANTS kbd, mouse, tablet
=============================================================================
