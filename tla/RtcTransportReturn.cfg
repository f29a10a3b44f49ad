\* One application that creates a receiver while a packet arrives.
SPECIFICATION Spec
CONSTANTS
    Apps = {app1}
    Loop = loop
    Ssrcs = {s1, s2}
    None = none
    MaxCalls = 2
    MaxPackets = 1
PROPERTIES CallsReturn
CHECK_DEADLOCK FALSE
