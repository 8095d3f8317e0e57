\* Two pads whose arrivals wait for each other, all scheduled fairly.
SPECIFICATION FairSpec
CONSTANTS
    n1 = n1  n2 = n2
    f1 = f1  f2 = f2  f3 = f3
    Name = {n1, n2}
    Fd = {f1, f2, f3}
    Joystick = {n1, n2}
    Accessible = {n1, n2}
    MaxPlugs = 3
    MaxPresses = 1
    MaxOther = 1
    Upsets = {}
INVARIANT NoLostDevice
PROPERTIES
    ArrivalsServed
    InputServed
