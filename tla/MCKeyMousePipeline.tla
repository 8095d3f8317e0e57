------------------------- MODULE MCKeyMousePipeline -------------------------
(* Small instances of KeyMousePipeline for TLC. *)
EXTENDS KeyMousePipeline, TLC

Hardware(kinds, sort, buttons, absolute) ==
    [kind : kinds, sort : {sort}, buttons : buttons, absolute : {absolute}]

(* Keyboards, mice around the limits of the tables of buttons, pointers     *)
(* that report positions, and a gamepad.                                    *)
MCDevices ==
    Hardware({"x11", "raw", "hidm"}, "keyboard", {0}, FALSE)
    \cup Hardware({"raw"}, "mouse", {2, 3, 4}, FALSE)
    \cup Hardware({"x11"}, "mouse", {2, 4}, FALSE)
    \cup Hardware({"hidm"}, "mouse", {4}, FALSE)
    \cup Hardware({"x11", "raw"}, "mouse", {3}, TRUE)
    \cup Hardware({"hidm"}, "pad", {0}, FALSE)
=============================================================================
