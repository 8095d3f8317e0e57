---------------------------- MODULE MCXi2Source ----------------------------
(* Small instances of Xi2Source for TLC. *)
EXTENDS Xi2Source, TLC

CONSTANTS kbd, mouse, xtest
=============================================================================
