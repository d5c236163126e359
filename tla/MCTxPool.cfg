SPECIFICATION Spec
CONSTANTS
    Block <- MCBlock
    Genesis = "g"
    Parent <- MCParent
    Id <- MCId
    Pow <- MCPow
    Txs <- MCTxs
    Miner <- MCMiner
    Tx <- MCTx
    WORD = 128
    World <- Worlds
    LIFE = 2
    WINDOW = 1
    MAX_TOPIC = 1
    MAX_JOIN = 1
    MAX_REPLY = 3
    BLOCK_REWARD = 20
    TOTAL = 100
    Reserve = "fund"
    Author = "A"
    AuthorName = "author"
    None = "none"
INVARIANTS
    TypeOK
    ListedOnce
    PoolFitsChain
    PlanHolds
    OnlyLiarsPunished
    WalletsAndPeersAgree
PROPERTIES
    NothingLocked
    ReadyNotDropped
