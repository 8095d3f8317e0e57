\* A second pad arrives while the first one's settling is acted upon.
SPECIFICATION Spec
CONSTANTS
    n1 = n1  n2 = n2
    f1 = f1  f2 = f2  f3 = f3
    Name = {n1, n2}
    Fd = {f1, f2, f3}
    Joystick = {n1, n2}
    Accessible = {n1, n2}
    MaxPlugs = 3
    MaxPresses = 0
    MaxOther = 0
    Upsets = {"overlap"}
INVARIANT NoLostDevice
