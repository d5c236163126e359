SPECIFICATION Spec
CONSTANTS
    Tip = {b1, b2}
    NoTip = none
    MaxJob = 4
INVARIANTS
    ExtendsTip
CHECK_DEADLOCK FALSE
