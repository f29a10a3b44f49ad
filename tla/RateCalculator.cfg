\* A ring of three items that turns more than twice.
SPECIFICATION RateSpec
CONSTANTS
    WindowItems = 3
    ItemSize = 2
    Sizes = {1}
    MaxTime = 14
INVARIANTS RateIsOfWindow
CHECK_DEADLOCK FALSE
