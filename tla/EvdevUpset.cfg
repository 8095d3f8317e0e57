\* Two pads, at any moment, with the library and udevd scheduled fairly.
SPECIFICATION FairSpec
CONSTANTS
    n1 = n1  n2 = n2
    f1 = f1  f2 = f2  f3 = f3
    Name = {n1, n2}
    Fd = {f1, f2, f3}
    Joystick = {n1, n2}
    Accessible = {n1, n2}
    MaxPlugs = 2
    MaxPresses = 1
    MaxOther = 0
    Upsets = {"early", "overlap", "replug", "flicker", "yank"}
INVARIANTS
    TypeOK
    MapsAgree
    DepartureQueued
    ClientAgrees
PROPERTIES
    RefinesLifecycle
    DeparturesServed
