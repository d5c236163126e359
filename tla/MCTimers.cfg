SPECIFICATION FairSpec
CONSTANTS
    Timer = {"close", "ping", "retry"}
    Oneshot = {"close"}
    Interval <- MCInterval
    Resettable = {"close", "retry"}
    MaxElapsed = 2
    NotATimer = "none"
INVARIANTS
    NeverLost
PROPERTIES
    Punctual
