\* A pad with room for three effects, and four calls.
SPECIFICATION Spec
CONSTANTS
    a = a  b = b  c = c
    Slot = {a, b, c}
    NoEffect = NoEffect
    MaxCalls = 4
\* The pad may be gone for good.
CHECK_DEADLOCK FALSE
INVARIANTS
    NoForgottenEffect
