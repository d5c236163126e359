----------------------------- MODULE BlockTree -----------------------------
(***************************************************************************)
(* The block tree of one node and the walk of its main chain over it:      *)
(* the message thread in Blockchain::finish_detail (node.cpp), with        *)
(* switch_chain, rollback and switch_to_most_difficult (blockchain.cpp),   *)
(* mined_new_block, and the reload of the tree from leveldb in start.      *)
(*                                                                         *)
(* One action is one iteration of the loops of that code, because leveldb  *)
(* is written once per accepted block and the process can die between two  *)
(* writes. What the transactions of a block do, and so whether it          *)
(* verifies, is left open here: module Chain adds the ledger.              *)
(***************************************************************************)
EXTENDS Naturals

CONSTANTS
    Block,      \* every block that can ever exist, genesis included
    Genesis,    \* the genesis block, id 0
    Parent,     \* Parent[b]: the block whose hash is the pre_hash of b
    Id,         \* Id[b]: height of b
    Pow,        \* Pow[b]: m_accum_pow, work of the whole chain up to b
    NoTip       \* not a block: the tip HeaviestChain sees while busy

ASSUME BlockAssumption ==
    /\ Genesis \in Block
    /\ Parent \in [Block -> Block]
    /\ Id \in [Block -> Nat]
    /\ Pow \in [Block -> Nat]
    /\ NoTip \notin Block

\* add_difficulty_from: work is strictly positive and adds up along a chain.
ASSUME TreeAssumption ==
    /\ Id[Genesis] = 0
    /\ \A b \in Block \ {Genesis} :
          /\ Id[b] = Id[Parent[b]] + 1
          /\ Pow[b] > Pow[Parent[b]]

VARIABLES
    m_blocks,               \* blocks known in memory
    m_block_by_id,          \* height -> block of the main chain
    m_in_main_chain,        \* blocks whose m_in_main_chain flag is set
    m_cur_block,            \* end of the chain the ledger stands at
    m_most_difficult_block, \* the heaviest block ever applied
    db,                     \* blocks in leveldb, each listed by its parent
    phase,                  \* where the message thread is
    target                  \* the pending block finish_detail works towards

memory == <<m_blocks, m_block_by_id, m_in_main_chain, m_cur_block,
            m_most_difficult_block>>
vars == <<memory, db, phase, target>>

(***************************************************************************)
(* "idle": do_message waits for the next message. "detail": finish_detail, *)
(* switch_chain included. "check": the test that follows finish_detail.    *)
(* "return": switch_to_most_difficult. "load": start replays the main      *)
(* chain. "exit": ASKCOIN_EXIT after finish_detail. "down": no process.    *)
(***************************************************************************)
Phase == {"idle", "detail", "check", "return", "load", "exit", "down"}

\* Walk from b to genesis.
Ancestors[b \in Block] ==
    IF b = Genesis THEN {Genesis} ELSE {b} \cup Ancestors[Parent[b]]

\* Block::difficult_than_me
Harder(a, b) == Pow[a] > Pow[b]

Insert(map, id, b) ==
    [i \in DOMAIN map \cup {id} |-> IF i \in DOMAIN map THEN map[i] ELSE b]

Erase(map, id) == [i \in DOMAIN map \ {id} |-> map[i]]

\* Mutant: the end of the main chain is not set.
InitWithoutTip ==
    /\ m_blocks = {Genesis} /\ m_block_by_id = [i \in {0} |-> Genesis]
    /\ m_in_main_chain = {Genesis} /\ m_cur_block = NoTip
    /\ m_most_difficult_block = Genesis /\ db = {Genesis}
    /\ phase = "idle" /\ target = Genesis

Init ==
    /\ m_blocks = {Genesis}
    /\ m_block_by_id = [i \in {0} |-> Genesis]
    /\ m_in_main_chain = {Genesis}
    /\ m_cur_block = Genesis
    /\ m_most_difficult_block = Genesis
    /\ db = {Genesis}
    /\ phase = "idle"
    /\ target = Genesis

-----------------------------------------------------------------------------
(* The block the walk of this phase leads to, and the next block on it.    *)

Goal == IF phase = "detail" THEN target ELSE m_most_difficult_block

OnPath(x) == x # Genesis /\ Parent[x] = m_cur_block /\ x \in Ancestors[Goal]

\* Mutants: the heaviest block is not updated; the block is not written.
AddBlockKeepsBest(x) ==
    /\ m_blocks' = m_blocks \cup {x}
    /\ m_block_by_id' = Insert(m_block_by_id, Id[x], x)
    /\ m_in_main_chain' = m_in_main_chain \cup {x}
    /\ m_cur_block' = x
    /\ db' = db \cup {x}
    /\ UNCHANGED m_most_difficult_block

AddBlockUnsaved(x) ==
    /\ m_blocks' = m_blocks \cup {x}
    /\ m_block_by_id' = Insert(m_block_by_id, Id[x], x)
    /\ m_in_main_chain' = m_in_main_chain \cup {x}
    /\ m_cur_block' = x
    /\ m_most_difficult_block' =
          IF Harder(x, m_most_difficult_block) THEN x
                                               ELSE m_most_difficult_block
    /\ UNCHANGED db

\* A block that is new to this node ends the main chain and is written,
\* with the children list of its parent, in one leveldb batch.
AddBlock(x) ==
    /\ m_blocks' = m_blocks \cup {x}
    /\ m_block_by_id' = Insert(m_block_by_id, Id[x], x)
    /\ m_in_main_chain' = m_in_main_chain \cup {x}
    /\ m_cur_block' = x
    /\ m_most_difficult_block' =
          IF Harder(x, m_most_difficult_block) THEN x
                                               ELSE m_most_difficult_block
    /\ db' = db \cup {x}

\* BLOCK_DETAIL_RSP brings the last missing block of a pending chain that
\* is heavier than everything applied so far. Blocks of the chain before it
\* that are still unknown are already held by the request.
BeginDetail(b) ==
    /\ phase = "idle"
    /\ b \notin m_blocks
    /\ Harder(b, m_most_difficult_block)
    /\ phase' = "detail"
    /\ target' = b
    /\ UNCHANGED <<memory, db>>

\* Mutant: the flag of the block stays set.
RollbackKeepsFlag ==
    /\ phase \in {"detail", "return"}
    /\ m_cur_block # Genesis
    /\ m_cur_block \notin Ancestors[Goal]
    /\ m_block_by_id' = Erase(m_block_by_id, Id[m_cur_block])
    /\ m_cur_block' = Parent[m_cur_block]
    /\ UNCHANGED <<m_blocks, m_in_main_chain, m_most_difficult_block, db,
                   phase, target>>

\* Mutant: a block that leaves the main chain is deleted from leveldb.
RollbackDeletes ==
    /\ phase \in {"detail", "return"}
    /\ m_cur_block # Genesis
    /\ m_cur_block \notin Ancestors[Goal]
    /\ m_in_main_chain' = m_in_main_chain \ {m_cur_block}
    /\ m_block_by_id' = Erase(m_block_by_id, Id[m_cur_block])
    /\ m_cur_block' = Parent[m_cur_block]
    /\ db' = db \ {m_cur_block}
    /\ UNCHANGED <<m_blocks, m_most_difficult_block, phase, target>>

\* One iteration of rollback(cross_id): the end of the main chain is not on
\* the way to the goal (and, cross_id being unsigned, is not genesis).
Rollback ==
    /\ phase \in {"detail", "return"}
    /\ m_cur_block # Genesis
    /\ m_cur_block \notin Ancestors[Goal]
    /\ m_in_main_chain' = m_in_main_chain \ {m_cur_block}
    /\ m_block_by_id' = Erase(m_block_by_id, Id[m_cur_block])
    /\ m_cur_block' = Parent[m_cur_block]
    /\ UNCHANGED <<m_blocks, m_most_difficult_block, db, phase, target>>

\* One iteration over db_blocks in switch_chain and switch_to_most_difficult,
\* or over block_chain in start: a block applied before is applied again.
Reapply(x) ==
    /\ phase \in {"detail", "return", "load"}
    /\ OnPath(x)
    /\ x \in m_blocks
    /\ m_cur_block' = x
    /\ m_in_main_chain' = m_in_main_chain \cup {x}
    /\ m_block_by_id' = Insert(m_block_by_id, Id[x], x)
    /\ UNCHANGED <<m_blocks, m_most_difficult_block, db, phase, target>>

\* One iteration of finish_detail: a pending block verifies and is stored.
Accept(x) ==
    /\ phase = "detail"
    /\ OnPath(x)
    /\ x \notin m_blocks
    /\ AddBlock(x)
    /\ phase' = IF x = target THEN "check" ELSE "detail"
    /\ UNCHANGED target

\* A pending block does not verify: finish_detail undoes it, punishes the
\* peers of the request and returns.
Reject(x) ==
    /\ phase = "detail"
    /\ OnPath(x)
    /\ x \notin m_blocks
    /\ phase' = "check"
    /\ UNCHANGED <<memory, db, target>>

\* Mutant: after a failed chain the node stays where it is.
AfterDetailStays ==
    /\ phase = "check"
    /\ phase' = IF Harder(m_cur_block, m_most_difficult_block) THEN "exit" ELSE "idle"
    /\ UNCHANGED <<memory, db, target>>

\* The handler of BLOCK_DETAIL_RSP after finish_detail returned.
AfterDetail ==
    /\ phase = "check"
    /\ phase' = IF Harder(m_cur_block, m_most_difficult_block) THEN "exit"
                ELSE IF Pow[m_cur_block] = Pow[m_most_difficult_block]
                THEN "idle" ELSE "return"
    /\ UNCHANGED <<memory, db, target>>

\* Mutant: a restart does not end.
ArriveFromSwitch ==
    /\ phase = "return"
    /\ m_cur_block = m_most_difficult_block
    /\ phase' = "idle"
    /\ UNCHANGED <<memory, db, target>>

\* switch_to_most_difficult, or the reload in start, has reached its goal.
Arrive ==
    /\ phase \in {"return", "load"}
    /\ m_cur_block = m_most_difficult_block
    /\ phase' = "idle"
    /\ UNCHANGED <<memory, db, target>>

\* mined_new_block: the mine thread found a block on top of the main chain.
MinedNewBlock(b) ==
    /\ phase = "idle"
    /\ b # Genesis
    /\ b \notin m_blocks
    /\ Parent[b] = m_cur_block
    /\ AddBlock(b)
    /\ UNCHANGED <<phase, target>>

\* The process dies between two leveldb writes: memory is gone.
Crash ==
    /\ phase # "down"
    /\ phase' = "down"
    /\ m_blocks' = {Genesis}
    /\ m_block_by_id' = [i \in {0} |-> Genesis]
    /\ m_in_main_chain' = {Genesis}
    /\ m_cur_block' = Genesis
    /\ m_most_difficult_block' = Genesis
    /\ UNCHANGED <<db, target>>

\* Mutant: the longest chain is taken, not the heaviest.
StartOnLongest(b) ==
    /\ phase = "down"
    /\ b \in db
    /\ \A x \in db : Id[x] <= Id[b]
    /\ m_blocks' = db
    /\ m_most_difficult_block' = b
    /\ phase' = "load"
    /\ UNCHANGED <<m_block_by_id, m_in_main_chain, m_cur_block, db, target>>

\* start: the tree is read from leveldb along the children lists and the
\* first strictly heaviest block met becomes the end of the main chain,
\* which phase "load" then replays from genesis. (start sets m_cur_block and
\* the flags of that chain before the replay; nothing reads them during it,
\* and here they follow it.)
Start(b) ==
    /\ phase = "down"
    /\ b \in db
    /\ \A x \in db : Pow[x] <= Pow[b]
    /\ m_blocks' = db
    /\ m_most_difficult_block' = b
    /\ phase' = "load"
    /\ UNCHANGED <<m_block_by_id, m_in_main_chain, m_cur_block, db, target>>

Work == \/ Rollback \/ AfterDetail \/ Arrive
        \/ \E x \in Block : Reapply(x) \/ Accept(x) \/ Reject(x)

Next ==
    \/ Work
    \/ \E b \in Block : BeginDetail(b) \/ MinedNewBlock(b) \/ Start(b)
    \/ Crash

\* The message thread runs its handler to the end. Messages, mined blocks,
\* crashes and restarts come when they come.
Fairness == WF_vars(Work)

Spec == Init /\ [][Next]_vars /\ Fairness

-----------------------------------------------------------------------------
(* Properties.                                                             *)

\* Types of the variables of the block tree.
TypeOK ==
    /\ m_blocks \subseteq Block
    /\ m_in_main_chain \subseteq Block
    /\ DOMAIN m_block_by_id \subseteq Nat
    /\ \A i \in DOMAIN m_block_by_id : m_block_by_id[i] \in Block
    /\ m_cur_block \in Block
    /\ m_most_difficult_block \in Block
    /\ db \subseteq Block
    /\ phase \in Phase
    /\ target \in Block

\* Whatever instant the process dies at, a stored block can be reached from
\* genesis through stored blocks, so start, which only follows children
\* lists, finds every block that was ever accepted. In memory the same
\* holds, and memory and disk agree while the process runs.
StoreIsTree ==
    /\ Genesis \in db
    /\ \A b \in db \ {Genesis} : Parent[b] \in db
    /\ phase # "down" => m_blocks = db

\* A settled node stands on a block no stored block outweighs, whatever
\* forks it followed, rejected half-way or was restarted in the middle of.
SettledOnHeaviest ==
    phase = "idle" => \A b \in db : Pow[b] <= Pow[m_cur_block]

\* The assertion after finish_detail (node.cpp:2812) never fires: the block
\* the ledger stands at is never heavier than m_most_difficult_block.
NeverExits == phase # "exit"

\* m_block_by_id and the m_in_main_chain flags, updated at five places,
\* describe exactly one path from genesis to m_cur_block: a flag left on a
\* stale branch, or an entry of a stale branch that shadows a new one,
\* breaks it.
MainChainIsPath ==
    /\ m_cur_block \in m_in_main_chain
    /\ m_in_main_chain \subseteq m_blocks
    /\ \A b \in m_in_main_chain \ {Genesis} : Parent[b] \in m_in_main_chain
    /\ \A b \in m_in_main_chain :
          /\ Id[b] <= Id[m_cur_block]
          /\ Id[b] \in DOMAIN m_block_by_id
          /\ m_block_by_id[Id[b]] = b
    /\ DOMAIN m_block_by_id = 0 .. Id[m_cur_block]

\* No step, a crash included, loses an accepted block.
NothingLost == [][db \subseteq db']_vars

\* The message thread always gets back to its loop: every walk of the main
\* chain ends.
HandlerReturns == (phase \notin {"idle", "down"}) ~> (phase \in {"idle", "down"})

\* The node implements HeaviestChain.
HC == INSTANCE HeaviestChain WITH
          stored <- db,
          tip    <- IF phase = "idle" THEN m_cur_block ELSE NoTip
HeaviestChainSpec == HC!Spec
=============================================================================
