-------------------------- MODULE MCEvdevSource --------------------------
(* Small instances of EvdevSource for TLC. *)
EXTENDS EvdevSource, TLC

CONSTANTS n1, n2, f1, f2, f3
=============================================================================
