SPECIFICATION FairSpec
CONSTANTS
    MaxId = 3
    Addr = {"x", "y"}
    Seeds = {"x"}
    MaxConns = {1, 2}
    None = "none"
INVARIANTS
    ScoresFit
    LimitHolds
PROPERTIES
    HandshakesEnd
CHECK_DEADLOCK FALSE
