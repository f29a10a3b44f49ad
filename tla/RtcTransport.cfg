\* Two applications that make three calls while two packets arrive; both hangs occur.
SPECIFICATION Spec
CONSTANTS
    Apps = {app1, app2}
    Loop = loop
    Ssrcs = {s1, s2}
    None = none
    MaxCalls = 3
    MaxPackets = 2
INVARIANTS ReachableIsReady TimersHaveAnOwner LiveIsReferenced
PROPERTIES CallsReturnOrHang
CHECK_DEADLOCK FALSE
