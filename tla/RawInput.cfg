\* A keyboard, a mouse and a device of another type that come and go.
SPECIFICATION Spec
CONSTANTS
    kbd = kbd  mouse = mouse  tablet = tablet
    Handle = {kbd, mouse, tablet}
    Other = {tablet}
    Nameless = {}
    Upsets = {"lag", "throw"}
    MaxMessages = 5
    MaxInputs = 2
INVARIANTS
    OneList
    SettledAgrees
PROPERTY RefinesLifecycle
