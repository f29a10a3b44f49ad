\* Packets around a wrap, at both edges of the windows and beyond them, and a
\* restart ahead and behind.
SPECIFICATION ReceiverSpec
CONSTANTS
    SeqMod = 32
    MaxDropout = 4
    MaxMisorder = 3
    Positions = {20, 21, 30, 31, 32, 33, 34, 36, 37}
    MaxSkew = 20
    MaxPackets = 5
    MaxPacketAge = 5
    MaxNackPackets = 2
    MaxNackRetries = 10
    SendNackDelay = 1
INVARIANTS ExtendedRight LostIsMissing
PROPERTIES TwoSequentialAccepted FeedsNearPackets
CHECK_DEADLOCK FALSE
