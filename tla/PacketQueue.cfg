\* Lossy, reordering network, no duplicates; two wraps.
SPECIFICATION Spec
CONSTANTS
    SeqMod = 6
    Packets <- AcrossTwoWraps
    MaxSkew = 2
    Copies = 1
    LateWrap = FALSE
INVARIANTS NothingLost FiledRight
PROPERTIES ContiguousIsCalled AwakeConsumerIsJoined DeliversInOrder
CHECK_DEADLOCK FALSE
