\* Two objects besides the heartbeat packet's.
SPECIFICATION Spec
CONSTANTS
    Buffers = {p, q, r}
    Packet = p
    Bytes = {x, y}
    MaxSize = 2
SYMMETRY Alike
INVARIANTS CountsReferences
PROPERTIES EachItsOwn
CHECK_DEADLOCK FALSE
