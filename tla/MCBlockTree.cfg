SPECIFICATION Spec
CONSTANTS
    Block <- MCBlock
    Genesis = "g"
    Parent <- MCParent
    Id <- MCId
    Pow <- MCPow
    NoTip = "none"
INVARIANTS
    TypeOK
    StoreIsTree
    SettledOnHeaviest
    NeverExits
    MainChainIsPath
PROPERTIES
    NothingLost
    HandlerReturns
    HeaviestChainSpec
