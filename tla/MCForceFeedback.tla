--------------------------- MODULE MCForceFeedback ---------------------------
(* Small instances of ForceFeedback for TLC. *)
EXTENDS ForceFeedback, TLC

CONSTANTS a, b, c
=============================================================================
