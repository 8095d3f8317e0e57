--------------------------- MODULE MCPadPipeline ---------------------------
(* Small instances of PadPipeline for TLC. *)
EXTENDS PadPipeline

CONSTANTS x, y, left, right, sx, sy, dpad_x
=============================================================================
