SPECIFICATION Spec
CONSTANTS
    Block = {"g", "a1", "t2"}
    Genesis = "g"
    Parent <- MCParent
    Id <- MCId
    Pow <- MCPow
    Verdict <- MCVerdict
    Own = {}
    Peer = {"q", "q1"}
    Key <- MCKey
    ChainId = {c1, c2, c3}
    World <- DelayWorlds
    None = none
PROPERTIES
    RequestsEnd
CHECK_DEADLOCK FALSE
