\* Garbage packets and dropped events; no drain fails, and the client resets
\* and commits axes.
SPECIFICATION FairSpec
CONSTANTS
    x = x  y = y  left = left  right = right  sx = sx  sy = sy
    dpad_x = dpad_x
    Button = {x, y, left, right}
    PadX = x
    PadY = y
    Left = left
    Right = right
    Stick = {sy}
    Reversed = {sy}
    DpadX = dpad_x
    RawDown = 3
    RawUp = 2
    Deadzone = 1
    GarbageCount = 3
    BufferSize = 2
    ApiValues = {}
    Calls = {"reset", "commit"}
    Upsets = {}
    MaxChanges = 3
    MaxCalls = 1
INVARIANTS
    GarbageNeverShown
    ValuesInRange
PROPERTY InputShown
