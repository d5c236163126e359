SPECIFICATION ChainSpec
CONSTANTS
    Block <- MCBlock
    Genesis = "g"
    Parent <- MCParent
    Id <- MCId
    Pow <- MCPow
    NoTip = "none"
    Txs <- MCTxs
    Miner <- MCMiner
    LIFE = 2
    WINDOW = 1
    MAX_TOPIC = 2
    MAX_JOIN = 2
    MAX_REPLY = 3
    BLOCK_REWARD = 20
    TOTAL = 100
    Reserve = "fund"
    Author = "A"
    AuthorName = "author"
    None = "none"
INVARIANTS
    LedgerIsReplay
    Conservation
    NoOverdraft
    TxOnce
    NeverStuck
    ListsAgree
