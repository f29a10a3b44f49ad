\* Gaps of up to four numbers and a list of three: it makes room and is cleared.
SPECIFICATION Spec
CONSTANTS
    SeqMod = 21
    MaxPacketAge = 5
    MaxNackPackets = 3
    MaxNackRetries = 10
    SendNackDelay = 1
    AskAgain = 0
    MaxAhead = 5
    MaxBehind = 6
INVARIANTS KeysAreOrdered ListIsWhatIsMissing
PROPERTIES AskedInTime RetransmittedWasAsked
CHECK_DEADLOCK FALSE
