------------------------------- MODULE Chain -------------------------------
(***************************************************************************)
(* BlockTree with the ledger of Ledger: what each step of the walk over    *)
(* the block tree does to accounts, topics and the transaction window, and *)
(* so which blocks verify. Adds what only the ledger brings: the trial of  *)
(* mine_tx, the slow half of rollback, and the exits of the process when a *)
(* block that was accepted before does not apply again.                    *)
(***************************************************************************)
EXTENDS BlockTree, Rebuild, FiniteSets

CONSTANTS
    Txs,        \* Txs[b]: the transactions of b, in order
    Miner       \* Miner[b]: the pubkey that found b

\* A transaction is read from a block with one of five types, and its id is
\* the hash of what it says: equal ids are equal transactions.
ASSUME ChainAssumption ==
    /\ Txs[Genesis] = <<>>
    /\ \A b \in Block : Txs[b] \in Seq({Txs[b][i] : i \in DOMAIN Txs[b]})
    /\ \A b \in Block : \A i \in DOMAIN Txs[b] :
          /\ Txs[b][i].type \in {"reg", "send", "topic", "reply", "reward"}
          /\ Txs[b][i].bid \in Nat
    /\ \A b, c \in Block : \A i \in DOMAIN Txs[b], j \in DOMAIN Txs[c] :
          Txs[b][i].id = Txs[c][j].id => Txs[b][i] = Txs[c][j]

VARIABLES
    ledger,         \* see Ledger
    m_miner_reward, \* blocks whose m_miner_reward flag is set
    slow            \* what the slow loop of rollback rebuilt, <<>> outside it

ledgerVars == <<ledger, m_miner_reward, slow>>
chainVars == <<vars, ledgerVars>>

ChainInit ==
    /\ Init
    /\ ledger = GenesisLedger
    /\ m_miner_reward = {}
    /\ slow = <<>>

-----------------------------------------------------------------------------
\* Transactions that leave the window when x is put on the main chain.
Retiring(x) ==
    IF Retires(Id[x]) THEN TxIds(Txs[m_block_by_id[Index(Id[x])]]) ELSE {}

Outcome(x) == ApplyBlock(ledger, Id[x], Miner[x], Txs[x], Retiring(x))

Verifies(x) == Outcome(x).ok /\ Outcome(x).ledger.sane

TakeOutcome(x) ==
    /\ ledger' = Outcome(x).ledger
    /\ m_miner_reward' = IF Outcome(x).rewarded THEN m_miner_reward \cup {x}
                                                ELSE m_miner_reward \ {x}
    /\ UNCHANGED slow

\* ASKCOIN_EXIT, with the state it leaves.
Exit ==
    /\ phase' = "exit"
    /\ UNCHANGED <<memory, db, target, ledgerVars>>

ChainBeginDetail(b) == BeginDetail(b) /\ UNCHANGED ledgerVars

\* finish_detail: the block verifies against the ledger.
ChainAccept(x) == Accept(x) /\ Verifies(x) /\ TakeOutcome(x)

\* Mutant: the rejected block was written to leveldb before it was tested.
ChainRejectStored(x) ==
    /\ phase = "detail" /\ OnPath(x) /\ x \notin m_blocks
    /\ ~ Outcome(x).ok /\ Outcome(x).ledger.sane
    /\ phase' = "check"
    /\ db' = db \cup {x}
    /\ ledger' = Outcome(x).ledger
    /\ UNCHANGED <<memory, target, m_miner_reward, slow>>

\* finish_detail: it does not, and what was done of it is undone.
ChainReject(x) ==
    /\ Reject(x)
    /\ ~ Outcome(x).ok
    /\ Outcome(x).ledger.sane
    /\ ledger' = Outcome(x).ledger
    /\ UNCHANGED <<m_miner_reward, slow>>

\* proc_topic_expired or proc_tx_map returned false.
RetireFails(x) ==
    /\ phase = "detail"
    /\ OnPath(x)
    /\ x \notin m_blocks
    /\ ~ Outcome(x).ledger.sane
    /\ Exit

ChainReapply(x) == Reapply(x) /\ Verifies(x) /\ TakeOutcome(x)

\* switch_chain, switch_to_most_difficult or start: a block of the database
\* does not apply.
ReapplyFails(x) ==
    /\ phase \in {"detail", "return", "load"}
    /\ OnPath(x)
    /\ x \in m_blocks
    /\ ~ Verifies(x)
    /\ Exit

\* The fast loop of rollback.
FastRollback ==
    /\ slow = <<>>
    /\ CanUndoFast(ledger, Id[m_cur_block])
    /\ Rollback
    /\ ledger' = UndoBlock(ledger, Id[m_cur_block], Miner[m_cur_block],
                           Txs[m_cur_block], m_cur_block \in m_miner_reward)
    /\ UNCHANGED <<m_miner_reward, slow>>

Cross == CHOOSE a \in Ancestors[m_cur_block] \cap Ancestors[Goal] :
            \A x \in Ancestors[m_cur_block] \cap Ancestors[Goal] : Id[x] <= Id[a]

\* The slow loop: what the blocks to come retired is rebuilt from disk.
RebuildSaved ==
    /\ phase \in {"detail", "return"}
    /\ m_cur_block \notin Ancestors[Goal]
    /\ IF slow = <<>> THEN ~ CanUndoFast(ledger, Id[m_cur_block])
                      ELSE Id[m_cur_block] <= slow.stop
    /\ slow' = LET chain == [i \in 0 .. Id[m_cur_block] |-> Txs[m_block_by_id[i]]]
               IN  Rebuilt(chain, Id[m_cur_block], Id[Cross])
    /\ UNCHANGED <<vars, ledger, m_miner_reward>>

SlowRollback ==
    /\ slow # <<>>
    /\ Id[m_cur_block] > slow.stop
    /\ Rollback
    /\ ledger' = UndoBlockSlow(ledger, Id[m_cur_block], Miner[m_cur_block],
                    Txs[m_cur_block], m_cur_block \in m_miner_reward, slow)
    /\ slow' = IF m_cur_block' = Cross THEN <<>> ELSE slow
    /\ UNCHANGED m_miner_reward

ChainAfterDetail == AfterDetail /\ UNCHANGED ledgerVars

ChainArrive == Arrive /\ UNCHANGED ledgerVars

\* mine_tx: the pool (m_uv_2_txs, here the transactions of some block that
\* are in the window) is applied on top of the main chain and undone.
MineTx(b) ==
    /\ phase = "idle"
    /\ \A i \in DOMAIN Txs[b] : InWindow(Txs[b][i], Id[m_cur_block] + 1)
    /\ LET id == Id[m_cur_block] + 1
           old == IF Retires(id) THEN TxIds(Txs[m_block_by_id[Index(id)]]) ELSE {}
           t == Trial(ledger, id, Txs[b], old)
       IN  IF t.ledger.sane
           THEN /\ ledger' = t.ledger
                /\ UNCHANGED <<vars, m_miner_reward, slow>>
           ELSE Exit

\* mined_new_block: the mine thread closed a block over transactions that
\* passed the trial on this very main chain. It applies, or the process exits.
ChainMinedNewBlock(b) ==
    /\ phase = "idle"
    /\ b # Genesis /\ b \notin m_blocks /\ Parent[b] = m_cur_block
    /\ Registered(ledger, Miner[b])
    /\ Trial(ledger, Id[b], Txs[b], Retiring(b)).mined = Txs[b]
    /\ IF Verifies(b) THEN MinedNewBlock(b) /\ TakeOutcome(b) ELSE Exit

ChainCrash ==
    /\ Crash
    /\ ledger' = GenesisLedger
    /\ m_miner_reward' = {}
    /\ slow' = <<>>

ChainStart(b) == Start(b) /\ UNCHANGED ledgerVars

ChainWork ==
    \/ FastRollback \/ RebuildSaved \/ SlowRollback
    \/ ChainAfterDetail \/ ChainArrive
    \/ \E x \in Block : \/ ChainReapply(x) \/ ReapplyFails(x)
                        \/ ChainAccept(x) \/ ChainReject(x) \/ RetireFails(x)

ChainNext ==
    \/ ChainWork
    \/ \E b \in Block : \/ ChainBeginDetail(b) \/ MineTx(b)
                        \/ ChainMinedNewBlock(b) \/ ChainStart(b)
    \/ ChainCrash

\* No fairness: that the walk ends is shown for BlockTree.
ChainSpec == ChainInit /\ [][ChainNext]_chainVars

-----------------------------------------------------------------------------
(* Properties.                                                             *)

\* What leaves the window at b, read off the ancestors of b alone.
RetiringOn(b) ==
    IF Retires(Id[b])
    THEN TxIds(Txs[CHOOSE a \in Ancestors[b] : Id[a] = Index(Id[b])])
    ELSE {}

\* What a node that only ever saw the chain to b holds.
Replay[b \in Block] ==
    IF b = Genesis THEN GenesisLedger
    ELSE ApplyBlock(Replay[Parent[b]], Id[b], Miner[b], Txs[b], RetiringOn(b)).ledger

\* A ledger without what is kept for undoing.
Book(L) == [L EXCEPT !.rollback_topics = <<>>, !.rollback_txs = <<>>]

\* However the node came to its main chain, over rollbacks, half-verified
\* blocks, trials of mine_tx and restarts, its accounts, topics, lists and
\* transaction window are those of a replay from genesis: two nodes on one
\* chain agree, and a restart changes nothing.
LedgerIsReplay ==
    phase # "exit" => Book(ledger) = Book(Replay[m_cur_block])

\* check_balance: the accounts and the live topics hold all coins, always.
Conservation ==
    LET accounts == MapThenSumSet(LAMBDA a : ledger.balance[a], DOMAIN ledger.balance)
        topics == MapThenSumSet(LAMBDA k : ledger.topics[k].balance, ToSet(ledger.topic_list))
    IN  accounts + topics = TOTAL

\* No unsigned balance is ever driven below zero, on the way back either.
NoOverdraft ==
    /\ \A a \in DOMAIN ledger.balance : ledger.balance[a] >= 0
    /\ \A k \in DOMAIN ledger.topics : ledger.topics[k].balance >= 0

\* A transaction is in at most one block of the main chain, and once in it,
\* although only the last LIFE + 1 blocks are remembered in m_tx_map.
TxOnce ==
    \A x, y \in m_in_main_chain :
        \A i \in DOMAIN Txs[x], j \in DOMAIN Txs[y] :
            Txs[x][i].id = Txs[y][j].id => x = y /\ i = j

\* The process never exits because a block it accepted before does not
\* apply again, or because lists that should agree do not: the loops that
\* apply stored blocks test what finish_detail tested, with ASKCOIN_EXIT.
NeverStuck == phase # "exit"

\* The topic maps and lists tell one story: m_topic_list, in order of age,
\* holds the live topics, each is in its owner's list in that order, and an
\* account has a topic among its joined ones exactly if it is a member, by a
\* transaction that is still in the window.
ListsAgree ==
    LET L == ledger
        live == DOMAIN L.topics
    IN  /\ ToSet(L.topic_list) = live /\ Len(L.topic_list) = Cardinality(live)
        /\ \A i, j \in DOMAIN L.topic_list : i < j =>
              L.topics[L.topic_list[i]].block_id <= L.topics[L.topic_list[j]].block_id
        /\ \A a \in DOMAIN L.own : L.own[a] =
              SelectSeq(L.topic_list, LAMBDA k : L.topics[k].owner = a)
        /\ \A a \in DOMAIN L.joined :
              ToSet(L.joined[a]) = {k \in live : a \in Members(L.topics[k])}
        /\ \A k \in live : \A i \in DOMAIN L.topics[k].members :
              L.topics[k].members[i].tx \in L.tx_map

\* Whatever the reason the process exited or died for, the blocks it stored
\* replay from genesis: a restart never exits for one of them.
ReloadNeverExits == [][phase = "load" => phase' # "exit"]_chainVars
=============================================================================
