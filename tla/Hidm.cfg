\* Devices that come and go, one without axes and one without a name, and one
\* object address less than there are devices.
SPECIFICATION Spec
CONSTANTS
    pad = pad  mouse = mouse  keypad = keypad  hub = hub  x = x  y = y  z = z
    Service = {pad, mouse, keypad, hub}
    Address = {x, y, z}
    Nameless = {hub}
    Axisless = {keypad}
    MaxInputs = 2
\* The client may destroy the context.
CHECK_DEADLOCK FALSE
INVARIANTS
    OneList
    SettledAgrees
PROPERTY RefinesLifecycle
