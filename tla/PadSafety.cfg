\* Every upset and every API call but commit of a single axis.
SPECIFICATION Spec
CONSTANTS
    x = x  y = y  left = left  right = right  sx = sx  sy = sy
    dpad_x = dpad_x
    Button = {x, y, left, right}
    PadX = x
    PadY = y
    Left = left
    Right = right
    Stick = {sy}
    Reversed = {sy}
    DpadX = dpad_x
    RawDown = 2
    RawUp = 2
    Deadzone = 1
    GarbageCount = 3
    BufferSize = 2
    ApiValues = {1}
    Calls = {"set", "add", "reset"}
    Upsets = {"held", "failure"}
    MaxChanges = 3
    MaxCalls = 1
INVARIANTS
    TypeOK
    DerivedAgree
    InSync
PROPERTY WindowMovesOnce
