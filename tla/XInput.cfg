\* Two slots whose pads come and go, rumble and fail to stop.
SPECIFICATION FairSpec
CONSTANTS
    Slots = 2
    Value = {0, 1}
    Upsets = {"failure"}
    Calls = {"vibrate", "reset"}
    MaxPackets = 2
    MaxFailures = 1
    MaxCalls = 1
INVARIANTS
    TypeOK
    MotorTracked
    UsableAgrees
    InSync
PROPERTIES
    RumbleStops
    PresenceTold
    InputShown
