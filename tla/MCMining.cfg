SPECIFICATION Spec
CONSTANTS
    Tip = {b1, b2}
    NoTip = none
    MaxJob = 4
INVARIANTS
    TypeOK
    ClosedOnce
    TornOnly
PROPERTIES
    FollowsTip
CHECK_DEADLOCK FALSE
