\* A keyboard is attached that the server does not enable.
SPECIFICATION Spec
CONSTANTS
    kbd = kbd  mouse = mouse  xtest = xtest
    Number = {kbd, xtest}
    Xtest = {xtest}
    MaxPlugs = 2
    MaxToggles = 1
    MaxQueue = 3
    MaxPresses = 0
INVARIANT NamesKnown
