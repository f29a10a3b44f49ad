\* Sequence numbers and timestamps wrap; a deque of three packets; round-trip times of
\* half a millisecond, of one and a half, and of two, which the uint16_t cannot hold.
SPECIFICATION SenderSpec
CONSTANTS
    SeqMod = 7
    TsMod = 5
    MaxItems = 3
    MaxAge = 1
    FirstSeq = 5
    MaxTsJump = 1
    MaxSlots = 4
    Bits = 2
    DefaultRtt = 1
    PerMs = 2
    RttMod = 2
    Rtts = {1, 3, 4}
    Nacks <- MCNacks
INVARIANTS Retrievable WithinAge AnswersTheNack NotTwiceInRtt
PROPERTY DropsForCause
