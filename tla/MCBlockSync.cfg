SPECIFICATION Spec
CONSTANTS
    Block = {"g", "a1", "a2", "b2", "h2", "t2", "w2", "d1", "m1"}
    Genesis = "g"
    Parent <- MCParent
    Id <- MCId
    Pow <- MCPow
    Verdict <- MCVerdict
    Own = {"m1"}
    Peer = {"p", "q", "q1"}
    Key <- MCKey
    ChainId = {c1, c2, c3}
    World <- Worlds
    None = none
SYMMETRY Addresses
INVARIANTS
    TypeOK
    NeverExits
    AttachedWhereItSays
    ChainIsSound
    OnlyHeightsHurt
    NoOrphans
CHECK_DEADLOCK FALSE
