\* Two threads that post up to two tasks each, and the owner.
SPECIFICATION ThreadSpec
CONSTANTS
    Callers = {app, timer}
    Owner = owner
    MaxPosts = 2
INVARIANTS SignalNotLost ExitLeavesNothing
PROPERTIES WaitersAreAnswered ExecutesInOrder
CHECK_DEADLOCK FALSE
