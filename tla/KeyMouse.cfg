\* Every kind of keyboard, mouse and pad, with three acts of its user.
SPECIFICATION FairSpec
CONSTANTS
    Devices <- MCDevices
    Reports = {{"x", "y"}, {"y", "horizontal"}, {"x", "wheel"}}
    PadMax = 3
    PadDeadzone = 1
    MaxEvents = 3
    MaxQueue = 2
    MaxFailures = 1
INVARIANTS
    TypeOK
    AxesFollowInputs
    Conserved
PROPERTY MotionShown
