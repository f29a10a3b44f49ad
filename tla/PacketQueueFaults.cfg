\* A network that may hand over each packet twice, and a packet after one of
\* the next wrap.
SPECIFICATION Spec
CONSTANTS
    SeqMod = 5
    Packets <- AcrossOneWrap
    MaxSkew = 2
    Copies = 2
    LateWrap = TRUE
INVARIANT LateWrapStalls
PROPERTIES StaleHeadBlocks
CHECK_DEADLOCK FALSE
