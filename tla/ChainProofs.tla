---------------------------- MODULE ChainProofs ----------------------------
(***************************************************************************)
(* Proofs about BlockTree and Chain, for every tree of blocks and every    *)
(* assignment of work that TreeAssumption admits. First the block tree by  *)
(* itself, which takes every block to verify, and its refinement of        *)
(* HeaviestChain. Then Chain: what the tree promises without a ledger still*)
(* holds when the ledger decides which blocks verify and ends the process  *)
(* where a stored one does not, no transaction is on the main chain twice, *)
(* all coins are always in the accounts and live topics and no balance is  *)
(* overdrawn, for every tree and content of blocks and every LIFE.         *)
(*                                                                         *)
(* The second result follows only the transaction window of the ledger     *)
(* (m_tx_map and what is kept to bring retired transactions back), through *)
(* the loops over the transactions and topics of a block. The last two     *)
(* follow the past of the main chain: where each of its blocks can be led  *)
(* back to.                                                                *)
(***************************************************************************)
EXTENDS Chain, LedgerProofs

(***************************************************************************)
(* The block tree by itself                                                *)
(***************************************************************************)

\* m_most_difficult_block is known and no known block outweighs it.
BestIsHeaviest ==
    /\ m_most_difficult_block \in m_blocks
    /\ \A b \in m_blocks : Pow[b] <= Pow[m_most_difficult_block]

\* Between two messages the main chain ends in a block of that same work.
IdleIsHeaviest ==
    phase = "idle" => Pow[m_cur_block] = Pow[m_most_difficult_block]

\* A dead process remembers nothing: start begins with genesis alone.
DownIsEmpty == phase = "down" => m_blocks = {Genesis}

\* What is inductive about the tree. SettledOnHeaviest alone is not: it
\* speaks of idle states only, and what makes a walk end well is that
\* m_most_difficult_block outweighs every known block all along it. Nothing
\* here hangs on the process living on, so Chain, which adds more reasons
\* for it to exit, keeps it as well.
TreeInv ==
    /\ TypeOK
    /\ StoreIsTree
    /\ BestIsHeaviest
    /\ IdleIsHeaviest
    /\ DownIsEmpty
    /\ MainChainIsPath

\* The inductive invariant.
IInv == TreeInv /\ NeverExits

-----------------------------------------------------------------------------
\* Initially the node knows genesis and stands on it.
LEMMA InitTreeInv == Init => TreeInv
<1>. SUFFICES ASSUME Init PROVE TreeInv
  OBVIOUS
<1>. USE BlockAssumption, TreeAssumption
<1>1. TypeOK
  BY DEF Init, TypeOK, Phase
<1>2. StoreIsTree /\ BestIsHeaviest /\ IdleIsHeaviest /\ DownIsEmpty
  BY DEF Init, StoreIsTree, BestIsHeaviest, IdleIsHeaviest, DownIsEmpty
<1>3. MainChainIsPath
  BY DEF Init, MainChainIsPath
<1>. QED
  BY <1>1, <1>2, <1>3 DEF TreeInv

\* Putting one more block, a child of m_cur_block, at the end of the main
\* chain keeps it one path.
LEMMA ExtendPath ==
    ASSUME TypeOK, MainChainIsPath,
           NEW x \in Block, x # Genesis, Parent[x] = m_cur_block,
           m_cur_block' = x,
           m_in_main_chain' = m_in_main_chain \cup {x},
           m_block_by_id' = Insert(m_block_by_id, Id[x], x),
           m_in_main_chain' \subseteq m_blocks'
    PROVE  MainChainIsPath'
<1>. USE BlockAssumption, TreeAssumption
<1>1. Id[x] = Id[m_cur_block] + 1 /\ Id[m_cur_block] \in Nat /\ Id[x] \in Nat
  BY DEF TypeOK
<1>2. Id[x] \notin DOMAIN m_block_by_id
  BY <1>1 DEF MainChainIsPath
<1>3. DOMAIN m_block_by_id' = 0 .. Id[x]
  BY <1>1 DEF MainChainIsPath, Insert
<1>4. ASSUME NEW b \in m_in_main_chain'
      PROVE  Id[b] <= Id[x] /\ Id[b] \in DOMAIN m_block_by_id' /\ m_block_by_id'[Id[b]] = b
  <2>1. CASE b = x
    BY <1>1, <1>2, <2>1 DEF Insert
  <2>2. CASE b # x
    <3>1. b \in m_in_main_chain /\ b \in Block
      BY <2>2 DEF TypeOK
    <3>2. Id[b] <= Id[m_cur_block] /\ Id[b] \in DOMAIN m_block_by_id
          /\ m_block_by_id[Id[b]] = b /\ Id[b] \in Nat
      BY <3>1 DEF MainChainIsPath
    <3>. QED
      BY <1>1, <3>2 DEF Insert
  <2>. QED
    BY <2>1, <2>2
<1>5. \A b \in m_in_main_chain' \ {Genesis} : Parent[b] \in m_in_main_chain'
  BY DEF MainChainIsPath
<1>. QED
  BY <1>3, <1>4, <1>5 DEF MainChainIsPath

\* Taking the last block off the main chain keeps it one path.
LEMMA ShrinkPath ==
    ASSUME TypeOK, MainChainIsPath,
           m_cur_block # Genesis,
           m_cur_block' = Parent[m_cur_block],
           m_in_main_chain' = m_in_main_chain \ {m_cur_block},
           m_block_by_id' = Erase(m_block_by_id, Id[m_cur_block]),
           m_blocks' = m_blocks
    PROVE  MainChainIsPath'
<1>. USE BlockAssumption, TreeAssumption
<1>. DEFINE p == Parent[m_cur_block]
<1>1. p \in Block /\ p # m_cur_block /\ Id[m_cur_block] = Id[p] + 1
      /\ Id[p] \in Nat /\ p \in m_in_main_chain
  BY DEF TypeOK, MainChainIsPath
<1>2. DOMAIN m_block_by_id' = 0 .. Id[p]
  BY <1>1 DEF MainChainIsPath, Erase
<1>3. ASSUME NEW b \in m_in_main_chain'
      PROVE  /\ Id[b] <= Id[p] /\ Id[b] \in DOMAIN m_block_by_id'
             /\ m_block_by_id'[Id[b]] = b
             /\ b # Genesis => Parent[b] \in m_in_main_chain'
  <2>1. b \in m_in_main_chain /\ b # m_cur_block /\ b \in Block /\ Id[b] \in Nat
    BY DEF TypeOK
  <2>2. Id[b] <= Id[m_cur_block] /\ Id[b] \in DOMAIN m_block_by_id
        /\ m_block_by_id[Id[b]] = b
        /\ m_block_by_id[Id[m_cur_block]] = m_cur_block
    BY <2>1 DEF MainChainIsPath
  <2>3. Id[b] # Id[m_cur_block]
    BY <2>1, <2>2
  <2>4. Id[b] <= Id[p]
    BY <1>1, <2>1, <2>2, <2>3
  <2>5. m_block_by_id'[Id[b]] = b /\ Id[b] \in DOMAIN m_block_by_id'
    BY <2>2, <2>3 DEF Erase
  <2>6. ASSUME b # Genesis PROVE Parent[b] \in m_in_main_chain'
    <3>1. Parent[b] \in m_in_main_chain
      BY <2>1, <2>6 DEF MainChainIsPath
    <3>2. Id[b] = Id[Parent[b]] + 1 /\ Id[Parent[b]] \in Nat
      BY <2>1, <2>6
    <3>3. Parent[b] # m_cur_block
      BY <1>1, <2>1, <2>4, <3>2
    <3>. QED
      BY <3>1, <3>3
  <2>. QED
    BY <2>4, <2>5, <2>6
<1>4. p \in m_in_main_chain' /\ m_in_main_chain' \subseteq m_blocks'
  BY <1>1 DEF MainChainIsPath
<1>. QED
  BY <1>2, <1>3, <1>4 DEF MainChainIsPath

\* The end of the main chain is known and never outweighs the heaviest.
LEMMA CurIsKnown ==
    ASSUME TreeInv
    PROVE  /\ m_cur_block \in m_blocks
           /\ m_cur_block \in Block /\ m_most_difficult_block \in Block
           /\ Pow[m_cur_block] <= Pow[m_most_difficult_block]
           /\ Pow[m_cur_block] \in Nat /\ Pow[m_most_difficult_block] \in Nat
BY BlockAssumption DEF TreeInv, TypeOK, MainChainIsPath, BestIsHeaviest

\* Appending a new block keeps everything but what phase it happens in.
LEMMA AppendInv ==
    ASSUME TreeInv, phase # "down",
           NEW x \in Block, x # Genesis, x \notin m_blocks,
           Parent[x] = m_cur_block, AddBlock(x)
    PROVE  /\ m_blocks' \subseteq Block /\ m_in_main_chain' \subseteq Block
           /\ DOMAIN m_block_by_id' \subseteq Nat
           /\ \A i \in DOMAIN m_block_by_id' : m_block_by_id'[i] \in Block
           /\ m_cur_block' \in Block /\ m_most_difficult_block' \in Block
           /\ db' \subseteq Block
           /\ Genesis \in db' /\ m_blocks' = db'
           /\ \A b \in db' \ {Genesis} : Parent[b] \in db'
           /\ BestIsHeaviest' /\ MainChainIsPath'
<1>. USE BlockAssumption, TreeAssumption
<1>1. m_blocks = db /\ m_cur_block \in db
  BY CurIsKnown DEF TreeInv, StoreIsTree
<1>2. BestIsHeaviest'
  <2>1. Pow[x] \in Nat /\ Pow[m_most_difficult_block] \in Nat
        /\ \A b \in m_blocks : Pow[b] \in Nat
    BY DEF TreeInv, TypeOK
  <2>. QED
    BY <2>1 DEF TreeInv, BestIsHeaviest, AddBlock, Harder
<1>3. m_in_main_chain' \subseteq m_blocks'
  BY DEF TreeInv, MainChainIsPath, AddBlock
<1>4. MainChainIsPath'
  BY <1>3, ExtendPath DEF TreeInv, AddBlock
<1>5. /\ DOMAIN m_block_by_id' \subseteq Nat
      /\ \A i \in DOMAIN m_block_by_id' : m_block_by_id'[i] \in Block
  BY DEF TreeInv, TypeOK, AddBlock, Insert
<1>6. Genesis \in db' /\ m_blocks' = db' /\ \A b \in db' \ {Genesis} : Parent[b] \in db'
  BY <1>1 DEF TreeInv, StoreIsTree, AddBlock
<1>. QED
  BY <1>2, <1>4, <1>5, <1>6 DEF TreeInv, TypeOK, AddBlock
-----------------------------------------------------------------------------
\* One step per action.
LEMMA NextTreeInv == TreeInv /\ [Next]_vars => TreeInv'
<1>. SUFFICES ASSUME TreeInv, [Next]_vars PROVE TreeInv'
  OBVIOUS
<1>. USE BlockAssumption, TreeAssumption
<1>1. ASSUME NEW b \in Block, BeginDetail(b) PROVE TreeInv'
  BY <1>1 DEF BeginDetail, memory, TreeInv, TypeOK, Phase, StoreIsTree, BestIsHeaviest,
     IdleIsHeaviest, DownIsEmpty, MainChainIsPath
<1>2. ASSUME Rollback PROVE TreeInv'
  <2>1. m_cur_block # Genesis
    BY <1>2 DEF Rollback
  <2>2. MainChainIsPath'
    BY <1>2, <2>1, ShrinkPath DEF Rollback, TreeInv
  <2>3. TypeOK'
    BY <1>2 DEF Rollback, TreeInv, TypeOK, Erase
  <2>. QED
    BY <1>2, <2>2, <2>3 DEF Rollback, TreeInv, StoreIsTree, BestIsHeaviest,
       IdleIsHeaviest, DownIsEmpty
<1>3. ASSUME NEW x \in Block, Reapply(x) PROVE TreeInv'
  <2>1. MainChainIsPath'
    <3>1. m_in_main_chain' \subseteq m_blocks'
      BY <1>3 DEF Reapply, TreeInv, MainChainIsPath
    <3>. QED
      BY <1>3, <3>1, ExtendPath DEF Reapply, OnPath, TreeInv
  <2>2. TypeOK'
    BY <1>3 DEF Reapply, TreeInv, TypeOK, Insert
  <2>. QED
    BY <1>3, <2>1, <2>2 DEF Reapply, TreeInv, StoreIsTree, BestIsHeaviest,
       IdleIsHeaviest, DownIsEmpty
<1>4. ASSUME NEW x \in Block, Accept(x) PROVE TreeInv'
  <2>1. phase = "detail" /\ phase' \in {"check", "detail"} /\ target' = target
    BY <1>4 DEF Accept
  <2>2. x # Genesis /\ x \notin m_blocks /\ Parent[x] = m_cur_block /\ AddBlock(x)
    BY <1>4 DEF Accept, OnPath
  <2>. HIDE <1>4
  <2>. QED
    BY <2>1, <2>2, AppendInv DEF TreeInv, TypeOK, Phase, StoreIsTree,
       IdleIsHeaviest, DownIsEmpty
<1>5. ASSUME NEW x \in Block, Reject(x) PROVE TreeInv'
  BY <1>5 DEF Reject, memory, TreeInv, TypeOK, Phase, StoreIsTree, BestIsHeaviest,
     IdleIsHeaviest, DownIsEmpty, MainChainIsPath
<1>6. ASSUME AfterDetail PROVE TreeInv'
  <2>1. ~ Harder(m_cur_block, m_most_difficult_block)
    BY CurIsKnown DEF Harder
  <2>2. \/ phase' = "return"
        \/ phase' = "idle" /\ Pow[m_cur_block] = Pow[m_most_difficult_block]
    BY <1>6, <2>1 DEF AfterDetail
  <2>3. phase # "down" /\ UNCHANGED <<memory, db, target>>
    BY <1>6 DEF AfterDetail
  <2>. QED
    BY <2>2, <2>3 DEF memory, TreeInv, TypeOK, Phase, StoreIsTree, BestIsHeaviest,
       IdleIsHeaviest, DownIsEmpty, MainChainIsPath
<1>7. ASSUME Arrive PROVE TreeInv'
  BY <1>7 DEF Arrive, memory, TreeInv, TypeOK, Phase, StoreIsTree, BestIsHeaviest,
     IdleIsHeaviest, DownIsEmpty, MainChainIsPath
<1>8. ASSUME NEW b \in Block, MinedNewBlock(b) PROVE TreeInv'
  <2>1. phase = "idle" /\ phase' = "idle" /\ target' = target
    BY <1>8 DEF MinedNewBlock
  <2>2. b # Genesis /\ b \notin m_blocks /\ Parent[b] = m_cur_block /\ AddBlock(b)
    BY <1>8 DEF MinedNewBlock
  <2>3. IdleIsHeaviest'
    <3>1. Pow[m_cur_block] = Pow[m_most_difficult_block]
      BY <2>1 DEF TreeInv, IdleIsHeaviest
    <3>2. Pow[b] > Pow[m_cur_block]
      BY <2>2
    <3>. QED
      BY <2>2, <3>1, <3>2 DEF IdleIsHeaviest, AddBlock, Harder
  <2>. HIDE <1>8
  <2>. QED
    BY <2>1, <2>2, <2>3, AppendInv DEF TreeInv, TypeOK, Phase, StoreIsTree,
       DownIsEmpty
<1>9. ASSUME Crash PROVE TreeInv'
  <2>1. TypeOK' /\ StoreIsTree'
    BY <1>9 DEF Crash, TreeInv, TypeOK, Phase, StoreIsTree
  <2>2. BestIsHeaviest' /\ IdleIsHeaviest' /\ DownIsEmpty'
    BY <1>9 DEF Crash, BestIsHeaviest, IdleIsHeaviest, DownIsEmpty
  <2>3. MainChainIsPath'
    BY <1>9 DEF Crash, MainChainIsPath
  <2>. QED
    BY <2>1, <2>2, <2>3 DEF TreeInv
<1>10. ASSUME NEW b \in Block, Start(b) PROVE TreeInv'
  <2>1. TypeOK' /\ StoreIsTree'
    BY <1>10 DEF Start, TreeInv, TypeOK, Phase, StoreIsTree
  <2>2. BestIsHeaviest' /\ IdleIsHeaviest' /\ DownIsEmpty'
    BY <1>10 DEF Start, BestIsHeaviest, IdleIsHeaviest, DownIsEmpty
  <2>3. m_blocks = {Genesis} /\ Genesis \in db
    BY <1>10 DEF Start, TreeInv, DownIsEmpty, StoreIsTree
  <2>4. MainChainIsPath'
    BY <1>10, <2>3 DEF Start, TreeInv, MainChainIsPath
  <2>. QED
    BY <2>1, <2>2, <2>4 DEF TreeInv
<1>11. ASSUME UNCHANGED vars PROVE TreeInv'
  BY <1>11 DEF vars, memory, TreeInv, TypeOK, StoreIsTree, BestIsHeaviest,
     IdleIsHeaviest, DownIsEmpty, MainChainIsPath
<1>. QED
  BY <1>1, <1>2, <1>3, <1>4, <1>5, <1>6, <1>7, <1>8, <1>9, <1>10, <1>11
     DEF Next, Work

\* The one step that can end the process compares the end of the main chain
\* with the heaviest block, and finds it no heavier.
LEMMA StaysAlive == TreeInv /\ NeverExits /\ [Next]_vars => NeverExits'
<1>. SUFFICES ASSUME TreeInv, NeverExits, [Next]_vars PROVE NeverExits'
  OBVIOUS
<1>1. ASSUME AfterDetail PROVE NeverExits'
  <2>1. ~ Harder(m_cur_block, m_most_difficult_block)
    BY CurIsKnown DEF Harder
  <2>. QED
    BY <1>1, <2>1 DEF AfterDetail, NeverExits
<1>2. ASSUME NEW x \in Block, Accept(x) PROVE NeverExits'
  BY <1>2 DEF Accept, NeverExits
<1>. QED
  BY <1>1, <1>2 DEF NeverExits, Next, Work, Rollback, Reapply, Reject, Arrive,
     BeginDetail, MinedNewBlock, Start, Crash, vars

-----------------------------------------------------------------------------
\* Every reachable state satisfies the inductive invariant.
THEOREM Invariance == Spec => []IInv
<1>1. Init => IInv
  BY InitTreeInv DEF IInv, Init, NeverExits
<1>2. IInv /\ [Next]_vars => IInv'
  BY NextTreeInv, StaysAlive DEF IInv
<1>. QED
  BY <1>1, <1>2, PTL DEF Spec

\* The types of the block tree's variables, for every tree of blocks.
THEOREM TypeCorrect == Spec => []TypeOK
<1>1. IInv => TypeOK
  BY DEF IInv, TreeInv
<1>. QED
  BY <1>1, Invariance, PTL

\* Whenever the process dies, every accepted block can be reached from
\* genesis on disk, and memory holds the blocks of the disk while it runs.
THEOREM StoreIsAlwaysTree == Spec => []StoreIsTree
<1>1. IInv => StoreIsTree
  BY DEF IInv, TreeInv
<1>. QED
  BY <1>1, Invariance, PTL

\* do_message never waits for its next message on a chain that a stored
\* block outweighs: forks, rejected blocks, ties, crashes and restarts end
\* on a heaviest block.
THEOREM AlwaysSettledOnHeaviest == Spec => []SettledOnHeaviest
<1>1. IInv => SettledOnHeaviest
  BY BlockAssumption
     DEF IInv, TreeInv, IdleIsHeaviest, BestIsHeaviest, StoreIsTree, SettledOnHeaviest
<1>. QED
  BY <1>1, Invariance, PTL

\* The assertion of node.cpp:2812 after finish_detail cannot fail.
THEOREM AssertionHolds == Spec => []NeverExits
<1>1. IInv => NeverExits
  BY DEF IInv
<1>. QED
  BY <1>1, Invariance, PTL

\* m_block_by_id and the m_in_main_chain flags always describe the one path
\* from genesis to m_cur_block.
THEOREM AlwaysMainChainIsPath == Spec => []MainChainIsPath
<1>1. IInv => MainChainIsPath
  BY DEF IInv, TreeInv
<1>. QED
  BY <1>1, Invariance, PTL

\* No step removes a block from the disk.
THEOREM StoreGrows == Spec => NothingLost
<1>1. [Next]_vars => [db \subseteq db']_vars
  BY DEF Next, Work, BeginDetail, Rollback, Reapply, Accept, Reject, AddBlock,
     AfterDetail, Arrive, MinedNewBlock, Crash, Start, vars, memory
<1>. QED
  BY <1>1, PTL DEF Spec, NothingLost

-----------------------------------------------------------------------------
(* Refinement: a step of BlockTree is a step of HeaviestChain or none.     *)

\* The initial states of the two specifications agree.
LEMMA InitRefines == Init => HC!Init
BY BlockAssumption DEF Init, HC!Init

\* One step per action, on states of the inductive invariant.
LEMMA NextRefines == TreeInv /\ TreeInv' /\ [Next]_vars => [HC!Next]_(HC!vars)
<1>. SUFFICES ASSUME TreeInv, TreeInv', [Next]_vars PROVE [HC!Next]_(HC!vars)
  OBVIOUS
<1>. USE BlockAssumption, TreeAssumption
<1>1. m_cur_block \in Block /\ m_cur_block' \in Block
      /\ m_cur_block # NoTip /\ m_cur_block' # NoTip
  BY DEF TreeInv, TypeOK
<1>2. SettledOnHeaviest' /\ m_cur_block' \in m_blocks'
  BY DEF TreeInv, IdleIsHeaviest, BestIsHeaviest, StoreIsTree, SettledOnHeaviest,
     MainChainIsPath
<1>3. ASSUME phase # "idle", phase' = "idle", db' = db, m_blocks' = m_blocks,
             phase # "down"
      PROVE  HC!Settle(m_cur_block')
  BY <1>1, <1>2, <1>3 DEF HC!Settle, HC!Heaviest, SettledOnHeaviest, TreeInv, StoreIsTree
<1>4. ASSUME phase = "idle", phase' # "idle", db' = db
      PROVE  HC!Unsettle
  BY <1>1, <1>4 DEF HC!Unsettle
<1>5. ASSUME phase # "idle", phase' # "idle", db' = db
      PROVE  UNCHANGED HC!vars
  BY <1>5 DEF HC!vars
<1>6. ASSUME NEW b \in Block, BeginDetail(b) PROVE HC!Next
  BY <1>4, <1>6 DEF BeginDetail, HC!Next
<1>7. ASSUME Rollback PROVE UNCHANGED HC!vars
  BY <1>5, <1>7 DEF Rollback
<1>8. ASSUME NEW x \in Block, Reapply(x) PROVE UNCHANGED HC!vars
  BY <1>5, <1>8 DEF Reapply
<1>9. ASSUME NEW x \in Block, Accept(x) PROVE HC!Next
  <2>1. HC!Store(x)
    BY <1>9, CurIsKnown DEF Accept, AddBlock, OnPath, TreeInv, StoreIsTree, HC!Store
  <2>. QED
    BY <2>1 DEF HC!Next
<1>10. ASSUME NEW x \in Block, Reject(x) PROVE UNCHANGED HC!vars
  BY <1>5, <1>10 DEF Reject
<1>11. ASSUME AfterDetail PROVE HC!Next \/ UNCHANGED HC!vars
  <2>1. phase = "check" /\ db' = db /\ m_blocks' = m_blocks
    BY <1>11 DEF AfterDetail, memory
  <2>. QED
    BY <1>1, <1>3, <1>5, <2>1 DEF HC!Next
<1>12. ASSUME Arrive PROVE HC!Next
  <2>1. phase # "idle" /\ phase # "down" /\ phase' = "idle" /\ db' = db
        /\ m_blocks' = m_blocks
    BY <1>12 DEF Arrive, memory
  <2>. QED
    BY <1>1, <1>3, <2>1 DEF HC!Next
<1>13. ASSUME NEW b \in Block, MinedNewBlock(b) PROVE HC!Next
  <2>1. HC!Extend(b)
    BY <1>1, <1>13 DEF MinedNewBlock, AddBlock, TreeInv, StoreIsTree, HC!Extend
  <2>. QED
    BY <2>1 DEF HC!Next
<1>14. ASSUME Crash PROVE HC!Next \/ UNCHANGED HC!vars
  BY <1>4, <1>5, <1>14 DEF Crash, HC!Next
<1>15. ASSUME NEW b \in Block, Start(b) PROVE UNCHANGED HC!vars
  BY <1>5, <1>15 DEF Start
<1>16. ASSUME UNCHANGED vars PROVE UNCHANGED HC!vars
  BY <1>16 DEF vars, memory, HC!vars
<1>. QED
  BY <1>6, <1>7, <1>8, <1>9, <1>10, <1>11, <1>12, <1>13, <1>14, <1>15, <1>16
     DEF Next, Work

\* BlockTree implements HeaviestChain: behind crashes, rollbacks and caches
\* the node is a store that only grows and a tip that is always heaviest.
THEOREM Refinement == Spec => HeaviestChainSpec
<1>1. Init => HC!Init
  BY InitRefines
<1>2. IInv /\ IInv' /\ [Next]_vars => [HC!Next]_(HC!vars)
  BY NextRefines DEF IInv
<1>. QED
  BY <1>1, <1>2, Invariance, PTL DEF Spec, HC!Spec, HeaviestChainSpec

(***************************************************************************)
(* The block tree under the ledger                                         *)
(***************************************************************************)

\* ASKCOIN_EXIT takes nothing of the tree with it.
TreeExit == phase # "down" /\ phase' = "exit" /\ UNCHANGED <<memory, db, target>>

\* What a step of Chain does to the tree is a step of BlockTree, or an exit.
LEMMA StepOrExit == ASSUME [ChainNext]_chainVars PROVE [Next]_vars \/ TreeExit
<1> SUFFICES ASSUME ~ UNCHANGED vars PROVE Next \/ TreeExit
    OBVIOUS
<1>1. ChainNext
    BY DEF chainVars
<1>2. ASSUME NEW x \in Block, ReapplyFails(x) \/ RetireFails(x) PROVE TreeExit
    BY <1>2 DEF ReapplyFails, RetireFails, Exit, TreeExit
<1>3. ASSUME NEW x \in Block, ChainReapply(x) \/ ChainAccept(x) \/ ChainReject(x)
      PROVE  Next
    BY <1>3 DEF ChainReapply, ChainAccept, ChainReject, Next, Work
<1>4. ASSUME ChainAfterDetail \/ ChainArrive \/ FastRollback \/ SlowRollback \/ ChainCrash
      PROVE  Next
    BY <1>4 DEF ChainAfterDetail, ChainArrive, FastRollback, SlowRollback, ChainCrash, Next, Work
<1>5. ~ RebuildSaved
    BY DEF RebuildSaved
<1>6. ASSUME NEW b \in Block, ChainBeginDetail(b) \/ ChainStart(b) PROVE Next
    BY <1>6 DEF ChainBeginDetail, ChainStart, Next
<1>7. ASSUME NEW b \in Block, MineTx(b) PROVE TreeExit
    <2>1. phase = "idle" /\ (UNCHANGED vars \/ Exit)
        BY <1>7 DEF MineTx
    <2> QED
        BY <2>1 DEF Exit, TreeExit
<1>8. ASSUME NEW b \in Block, ChainMinedNewBlock(b) PROVE Next \/ TreeExit
    <2>1. phase = "idle" /\ (MinedNewBlock(b) \/ Exit)
        BY <1>8 DEF ChainMinedNewBlock
    <2> QED
        BY <2>1 DEF Exit, TreeExit, Next
<1> QED
    BY <1>1, <1>2, <1>3, <1>4, <1>5, <1>6, <1>7, <1>8 DEF ChainNext, ChainWork

\* The block tree stays sound whatever the process exits for.
LEMMA ChainKeepsTree == TreeInv /\ [ChainNext]_chainVars => TreeInv'
<1> SUFFICES ASSUME TreeInv, [ChainNext]_chainVars PROVE TreeInv'
    OBVIOUS
<1>1. CASE [Next]_vars
    BY <1>1, NextTreeInv
<1>2. CASE TreeExit
    BY <1>2 DEF TreeExit, memory, TreeInv, TypeOK, Phase, StoreIsTree, BestIsHeaviest,
       IdleIsHeaviest, DownIsEmpty, MainChainIsPath
<1> QED
    BY <1>1, <1>2, StepOrExit

\* For HeaviestChain an exit is the start of work that does not end.
LEMMA ChainStepRefines == TreeInv /\ TreeInv' /\ [ChainNext]_chainVars => [HC!Next]_(HC!vars)
<1> SUFFICES ASSUME TreeInv, TreeInv', [ChainNext]_chainVars PROVE [HC!Next]_(HC!vars)
    OBVIOUS
<1>1. CASE [Next]_vars
    BY <1>1, NextRefines
<1>2. CASE TreeExit
    <2>1. phase' # "idle" /\ db' = db
        BY <1>2 DEF TreeExit
    <2>2. m_cur_block # NoTip
        BY BlockAssumption DEF TreeInv, TypeOK
    <2>3. phase = "idle" => HC!Unsettle
        BY <2>1, <2>2 DEF HC!Unsettle
    <2>4. phase # "idle" => UNCHANGED HC!vars
        BY <2>1 DEF HC!vars
    <2> QED
        BY <2>3, <2>4 DEF HC!Next
<1> QED
    BY <1>1, <1>2, StepOrExit

-----------------------------------------------------------------------------
\* In every reachable state of the node with its ledger the block tree, its
\* main chain and the store fit each other, whatever verified or did not.
THEOREM TreeInvariance == ChainSpec => []TreeInv
<1>1. ChainInit => TreeInv
    BY InitTreeInv DEF ChainInit
<1>2. TreeInv /\ [ChainNext]_chainVars => TreeInv'
    BY ChainKeepsTree
<1> QED
    BY <1>1, <1>2, PTL DEF ChainSpec

\* However blocks verify or fail and whenever the process is lost, do_message
\* waits for its next message only on a chain no stored block outweighs.
THEOREM ChainSettledOnHeaviest == ChainSpec => []SettledOnHeaviest
<1>1. TreeInv => SettledOnHeaviest
    BY BlockAssumption
       DEF TreeInv, IdleIsHeaviest, BestIsHeaviest, StoreIsTree, SettledOnHeaviest
<1> QED
    BY <1>1, TreeInvariance, PTL

\* m_block_by_id and the m_in_main_chain flags describe one path with the
\* ledger as well, also while rollback rebuilds what it lost.
THEOREM ChainMainChainIsPath == ChainSpec => []MainChainIsPath
<1>1. TreeInv => MainChainIsPath
    BY DEF TreeInv
<1> QED
    BY <1>1, TreeInvariance, PTL

\* The node with its ledger implements HeaviestChain: what it stores only
\* grows, and where it settles no stored block outweighs the tip. Rejected
\* blocks, trials of mine_tx, slow rollbacks and exits do not show.
THEOREM ChainRefinement == ChainSpec => HeaviestChainSpec
<1>1. ChainInit => HC!Init
    BY InitRefines DEF ChainInit
<1>2. TreeInv /\ TreeInv' /\ [ChainNext]_chainVars => [HC!Next]_(HC!vars)
    BY ChainStepRefines
<1> QED
    BY <1>1, <1>2, TreeInvariance, PTL DEF ChainSpec, HC!Spec, HeaviestChainSpec

-----------------------------------------------------------------------------
(* The window of a ledger: the transactions it remembers, and what it kept *)
(* to bring the older ones back.                                           *)

\* A ledger with a window. The list of topics is here because the loops over
\* it run as long as it is.
Window(L) ==
    /\ {"tx_map", "topic_list", "rollback_topics", "rollback_txs", "sane"} \subseteq DOMAIN L
    /\ IsList(L.topic_list)
    /\ DOMAIN L.rollback_topics = DOMAIN L.rollback_txs
    /\ \A i \in DOMAIN L.rollback_topics : IsList(L.rollback_topics[i])

\* M is L but for the transactions in the window.
SameKept(L, M) ==
    /\ Window(M)
    /\ M.rollback_topics = L.rollback_topics
    /\ M.rollback_txs = L.rollback_txs
    /\ M.sane = L.sane

Types == {"reg", "send", "topic", "reply", "reward"}

\* A payment.
LEMMA CreditKeeps ==
    ASSUME NEW L, Window(L), NEW a, NEW n
    PROVE  /\ SameKept(L, Credit(L, a, n)) /\ Credit(L, a, n).tx_map = L.tx_map
           /\ Credit(L, a, n).topic_list = L.topic_list
           /\ DOMAIN Credit(L, a, n) = DOMAIN L
BY DEF Window, SameKept, Credit

\* A payment from one account to another, and the fee.
LEMMA MoveKeeps ==
    ASSUME NEW L, Window(L), NEW a, NEW b, NEW n
    PROVE  SameKept(L, Move(L, a, b, n)) /\ Move(L, a, b, n).tx_map = L.tx_map
<1>1. SameKept(L, Credit(L, a, 0 - n)) /\ Credit(L, a, 0 - n).tx_map = L.tx_map
    BY CreditKeeps
<1>2. Window(Credit(L, a, 0 - n))
    BY <1>1 DEF SameKept
<1>3. /\ SameKept(Credit(L, a, 0 - n), Move(L, a, b, n))
      /\ Move(L, a, b, n).tx_map = Credit(L, a, 0 - n).tx_map
    BY <1>2, CreditKeeps DEF Move
<1> QED
    BY <1>1, <1>3 DEF SameKept

\* The fee, taken and given back.
LEMMA FeeKeeps ==
    ASSUME NEW L, Window(L), NEW a
    PROVE  /\ SameKept(L, PayFee(L, a)) /\ PayFee(L, a).tx_map = L.tx_map
           /\ SameKept(L, RefundFee(L, a)) /\ RefundFee(L, a).tx_map = L.tx_map
<1>1. SameKept(L, PayFee(L, a)) /\ PayFee(L, a).tx_map = L.tx_map
    <2> DEFINE M == Credit(L, Patron(L, a), 1)
    <2>1. SameKept(L, M) /\ M.tx_map = L.tx_map
        BY CreditKeeps
    <2>2. Window(M)
        BY <2>1 DEF SameKept
    <2>3. SameKept(M, PayFee(L, a)) /\ PayFee(L, a).tx_map = M.tx_map
        BY <2>2, CreditKeeps DEF PayFee
    <2> QED
        BY <2>1, <2>3 DEF SameKept
<1>2. SameKept(L, RefundFee(L, a)) /\ RefundFee(L, a).tx_map = L.tx_map
    <2> DEFINE M == Credit(L, a, FEE)
    <2>1. SameKept(L, M) /\ M.tx_map = L.tx_map
        BY CreditKeeps
    <2>2. Window(M)
        BY <2>1 DEF SameKept
    <2>3. SameKept(M, RefundFee(L, a)) /\ RefundFee(L, a).tx_map = M.tx_map
        BY <2>2, CreditKeeps DEF RefundFee
    <2> QED
        BY <2>1, <2>3 DEF SameKept
<1> QED
    BY <1>1, <1>2

\* What the five types of transaction do to accounts and topics.
LEMMA DoKeeps ==
    ASSUME NEW L, Window(L), NEW tx, NEW id
    PROVE  /\ SameKept(L, DoReg(L, tx)) /\ DoReg(L, tx).tx_map = L.tx_map
           /\ SameKept(L, DoSend(L, tx)) /\ DoSend(L, tx).tx_map = L.tx_map
           /\ SameKept(L, DoTopic(L, tx, id)) /\ DoTopic(L, tx, id).tx_map = L.tx_map
           /\ SameKept(L, DoReply(L, tx)) /\ DoReply(L, tx).tx_map = L.tx_map
           /\ SameKept(L, DoReward(L, tx)) /\ DoReward(L, tx).tx_map = L.tx_map
<1>1. SameKept(L, DoReg(L, tx)) /\ DoReg(L, tx).tx_map = L.tx_map
    BY DEF DoReg, Window, SameKept
<1>2. SameKept(L, DoSend(L, tx)) /\ DoSend(L, tx).tx_map = L.tx_map
    BY MoveKeeps DEF DoSend
<1>3. SameKept(L, DoTopic(L, tx, id)) /\ DoTopic(L, tx, id).tx_map = L.tx_map
    <2> DEFINE M == Credit(L, tx.from, 0 - tx.amount)
    <2>1. SameKept(L, M) /\ M.tx_map = L.tx_map /\ DOMAIN M = DOMAIN L
          /\ M.topic_list = L.topic_list
        BY CreditKeeps
    <2> HIDE DEF M
    <2>2. IsList(Append(M.topic_list, tx.id))
        BY <2>1, AppendIs DEF Window
    <2> QED
        BY <2>1, <2>2 DEF DoTopic, M, Window, SameKept
<1>4. SameKept(L, DoReply(L, tx)) /\ DoReply(L, tx).tx_map = L.tx_map
    <2> DEFINE M == IF Joins(L, tx)
                    THEN [L EXCEPT !.joined[tx.from] = Append(@, tx.topic),
                                   !.topics[tx.topic].members = AddMember(@, tx)]
                    ELSE L
    <2>1. SameKept(L, M) /\ M.tx_map = L.tx_map
        BY DEF Window, SameKept
    <2>2. DoReply(L, tx) =
            [M EXCEPT !.topics[tx.topic].replies =
                Append(@, [key |-> tx.id, type |-> 0, owner |-> tx.from, balance |-> 0])]
        BY DEF DoReply
    <2> HIDE DEF M
    <2> QED
        BY <2>1, <2>2 DEF Window, SameKept
<1>5. SameKept(L, DoReward(L, tx)) /\ DoReward(L, tx).tx_map = L.tx_map
    <2> DEFINE M == Credit(L, ReplyOwner(L.topics[tx.topic], tx.reply_to), tx.amount)
    <2>1. SameKept(L, M) /\ M.tx_map = L.tx_map
        BY CreditKeeps
    <2> HIDE DEF M
    <2> QED
        BY <2>1 DEF DoReward, M, Window, SameKept
<1> QED
    BY <1>1, <1>2, <1>3, <1>4, <1>5

\* And what undoing them does.
LEMMA UndoKeeps ==
    ASSUME NEW L, Window(L), NEW tx
    PROVE  /\ SameKept(L, UndoReg(L, tx)) /\ UndoReg(L, tx).tx_map = L.tx_map
           /\ SameKept(L, UndoSend(L, tx)) /\ UndoSend(L, tx).tx_map = L.tx_map
           /\ SameKept(L, UndoTopic(L, tx)) /\ UndoTopic(L, tx).tx_map = L.tx_map
           /\ SameKept(L, UndoReply(L, tx)) /\ UndoReply(L, tx).tx_map = L.tx_map
           /\ SameKept(L, UndoReward(L, tx)) /\ UndoReward(L, tx).tx_map = L.tx_map
<1>1. SameKept(L, UndoReg(L, tx)) /\ UndoReg(L, tx).tx_map = L.tx_map
    BY DEF UndoReg, Window, SameKept
<1>2. SameKept(L, UndoSend(L, tx)) /\ UndoSend(L, tx).tx_map = L.tx_map
    BY MoveKeeps DEF UndoSend
<1>3. SameKept(L, UndoTopic(L, tx)) /\ UndoTopic(L, tx).tx_map = L.tx_map
    <2> DEFINE M == Credit(L, tx.from, tx.amount)
    <2>1. SameKept(L, M) /\ M.tx_map = L.tx_map /\ DOMAIN M = DOMAIN L
          /\ M.topic_list = L.topic_list
        BY CreditKeeps
    <2> HIDE DEF M
    <2>2. IsList(Front(M.topic_list))
        BY <2>1, FrontIs DEF Window
    <2> QED
        BY <2>1, <2>2 DEF UndoTopic, M, Window, SameKept
<1>4. SameKept(L, UndoReply(L, tx)) /\ UndoReply(L, tx).tx_map = L.tx_map
    <2> DEFINE M == [L EXCEPT !.topics[tx.topic].replies = Front(@)]
    <2>1. SameKept(L, M) /\ M.tx_map = L.tx_map
        BY DEF Window, SameKept
    <2>2. \/ UndoReply(L, tx) = M
          \/ UndoReply(L, tx) = [M EXCEPT !.joined[tx.from] = Front(@),
                                          !.topics[tx.topic].members = Front(@)]
        BY DEF UndoReply
    <2> HIDE DEF M
    <2> QED
        BY <2>1, <2>2 DEF Window, SameKept
<1>5. SameKept(L, UndoReward(L, tx)) /\ UndoReward(L, tx).tx_map = L.tx_map
    <2> DEFINE M == Credit(L, ReplyOwner(L.topics[tx.topic], tx.reply_to), 0 - tx.amount)
    <2>1. SameKept(L, M) /\ M.tx_map = L.tx_map
        BY CreditKeeps
    <2> HIDE DEF M
    <2> QED
        BY <2>1 DEF UndoReward, M, Window, SameKept
<1> QED
    BY <1>1, <1>2, <1>3, <1>4, <1>5

\* A transaction that is applied enters the window, and changes nothing else
\* of it.
LEMMA ApplyNotes ==
    ASSUME NEW L, Window(L), NEW tx, tx.type \in Types, NEW id
    PROVE  SameKept(L, Apply(L, tx, id)) /\ Apply(L, tx, id).tx_map = L.tx_map \cup {tx.id}
<1> DEFINE F == PayFee(L, tx.from)
           M == CASE tx.type = "reg"    -> DoReg(F, tx)
                  [] tx.type = "send"   -> DoSend(F, tx)
                  [] tx.type = "topic"  -> DoTopic(F, tx, id)
                  [] tx.type = "reply"  -> DoReply(F, tx)
                  [] tx.type = "reward" -> DoReward(F, tx)
<1>1. SameKept(L, F) /\ F.tx_map = L.tx_map
    BY FeeKeeps
<1> HIDE DEF F
<1>2. Window(F)
    BY <1>1 DEF SameKept
<1>3. M \in {DoReg(F, tx), DoSend(F, tx), DoTopic(F, tx, id), DoReply(F, tx), DoReward(F, tx)}
    BY DEF Types
<1>4. Apply(L, tx, id) = [M EXCEPT !.tx_map = @ \cup {tx.id}]
    BY DEF Apply, F
<1> HIDE DEF M
<1>5. SameKept(F, M) /\ M.tx_map = F.tx_map
    BY <1>2, <1>3, DoKeeps
<1> QED
    BY <1>1, <1>4, <1>5 DEF Window, SameKept

\* One that is undone leaves it.
LEMMA UndoForgets ==
    ASSUME NEW L, Window(L), NEW tx, tx.type \in Types
    PROVE  SameKept(L, Undo(L, tx)) /\ Undo(L, tx).tx_map = L.tx_map \ {tx.id}
<1> DEFINE M == CASE tx.type = "reg"    -> UndoReg(L, tx)
                  [] tx.type = "send"   -> UndoSend(L, tx)
                  [] tx.type = "topic"  -> UndoTopic(L, tx)
                  [] tx.type = "reply"  -> UndoReply(L, tx)
                  [] tx.type = "reward" -> UndoReward(L, tx)
           N == [M EXCEPT !.tx_map = @ \ {tx.id}]
<1>1. M \in {UndoReg(L, tx), UndoSend(L, tx), UndoTopic(L, tx), UndoReply(L, tx),
             UndoReward(L, tx)}
    BY DEF Types
<1>2. Undo(L, tx) = RefundFee(N, tx.from)
    BY DEF Undo
<1> HIDE DEF M
<1>3. SameKept(L, M) /\ M.tx_map = L.tx_map
    BY <1>1, UndoKeeps
<1>4. SameKept(L, N) /\ N.tx_map = L.tx_map \ {tx.id}
    BY <1>3 DEF Window, SameKept
<1> HIDE DEF N
<1>5. Window(N)
    BY <1>4 DEF SameKept
<1>6. SameKept(N, Undo(L, tx)) /\ Undo(L, tx).tx_map = N.tx_map
    BY <1>2, <1>5, FeeKeeps
<1> QED
    BY <1>4, <1>6 DEF SameKept

-----------------------------------------------------------------------------
(* The loops over the transactions of a block. From the ledger L after     *)
(* retirement, those in d were applied and made the ledger M.              *)

\* A transaction is one in the sense of LedgerProofs if those of the blocks are.
TypedBlocks == \A b \in Block : \A i \in DOMAIN Txs[b] : IsTx(Txs[b][i])
Valid(tx) == tx.type \in Types /\ (TypedBlocks => IsTx(tx))

Known(d) == IsList(d) /\ \A k \in DOMAIN d : Valid(d[k])

Placed(L, M, d, id) ==
    /\ Window(L) /\ SameKept(L, M) /\ Known(d)
    /\ M.tx_map = L.tx_map \cup TxIds(d)
    /\ \A k \in DOMAIN d : InWindow(d[k], id) /\ d[k].id \notin L.tx_map
    /\ \A j, k \in DOMAIN d : d[j].id = d[k].id => j = k
    /\ TypedBlocks /\ Shaped(L) /\ IsBook(L) /\ id \in Int => Settled(L, M, d)

\* U is the book L again, memberships apart.
Wholly(L, U, id) ==
    TypedBlocks /\ Shaped(L) /\ IsBook(L) /\ id \in Int =>
        Keeps(L, U) /\ Core(U) = Core(L)

\* One more that CanApply lets through.
LEMMA PlaceOne ==
    ASSUME NEW L, NEW M, NEW d, NEW id, Placed(L, M, d, id),
           NEW tx, Valid(tx), CanApply(M, tx, id)
    PROVE  /\ Placed(L, Apply(M, tx, id), Append(d, tx), id)
           /\ Len(Append(d, tx)) = Len(d) + 1
           /\ \A k \in 1 .. Len(d) : Append(d, tx)[k] = d[k]
           /\ Append(d, tx)[Len(d) + 1] = tx
<1> DEFINE e == Append(d, tx)
           N == Apply(M, tx, id)
<1>1. Window(M) /\ SameKept(L, M) /\ Window(L) /\ IsList(d)
    BY DEF Placed, SameKept, Known
<1>2. /\ IsList(e) /\ Len(e) = Len(d) + 1 /\ e[Len(d) + 1] = tx
      /\ \A k \in 1 .. Len(d) : e[k] = d[k]
    BY <1>1, AppendIs
<1>3. SameKept(M, N) /\ N.tx_map = M.tx_map \cup {tx.id}
    BY <1>1, ApplyNotes DEF Valid
<1>4. tx.id \notin M.tx_map /\ InWindow(tx, id)
    BY DEF CanApply
<1>5. Len(d) \in Nat /\ DOMAIN d = 1 .. Len(d) /\ DOMAIN e = 1 .. Len(d) + 1
    BY <1>1, <1>2, ListIs
<1> HIDE DEF e, N
<1>6. TxIds(e) = TxIds(d) \cup {tx.id}
    BY <1>2, <1>5 DEF TxIds
<1>7. SameKept(L, N) /\ N.tx_map = L.tx_map \cup TxIds(e)
    BY <1>1, <1>3, <1>6 DEF Placed, SameKept
<1>8. ASSUME NEW k \in DOMAIN e
      PROVE  (k \in 1 .. Len(d) /\ e[k] = d[k]) \/ (k = Len(d) + 1 /\ e[k] = tx)
    BY <1>2, <1>5
<1>9. \A k \in DOMAIN e : Valid(e[k]) /\ InWindow(e[k], id) /\ e[k].id \notin L.tx_map
    BY <1>4, <1>5, <1>8 DEF Placed, Known
<1>10. \A k \in 1 .. Len(d) : d[k].id # tx.id
    BY <1>4, <1>5 DEF Placed, TxIds
<1>11. ASSUME NEW j \in DOMAIN e, NEW k \in DOMAIN e, e[j].id = e[k].id PROVE j = k
    BY <1>5, <1>8, <1>10, <1>11 DEF Placed
<1>12. ASSUME TypedBlocks, Shaped(L), IsBook(L), id \in Int PROVE Settled(L, N, e)
    <2>1. Settled(L, M, d) /\ IsTx(tx)
        BY <1>12 DEF Placed, Valid
    <2> QED
        BY <1>1, <1>12, <2>1, SettledOne DEF N, e
<1>13. Placed(L, N, e, id)
    BY <1>1, <1>2, <1>7, <1>9, <1>11, <1>12 DEF Placed, Known
<1> QED
    BY <1>2, <1>13 DEF e, N

ApplyTurn(id, s, tx) ==
    IF s.ok /\ CanApply(s.ledger, tx, id)
    THEN [s EXCEPT !.ledger = Apply(@, tx, id), !.done = Append(@, tx)]
    ELSE [s EXCEPT !.ok = FALSE]
PassTurn(id, r, tx) ==
    IF CanApply(r.ledger, tx, id)
    THEN [r EXCEPT !.ledger = Apply(@, tx, id), !.mined = Append(@, tx)]
    ELSE [r EXCEPT !.left = Append(@, tx)]

ApplyLoop == INSTANCE FoldFacts WITH op <- ApplyTurn
PassLoop == INSTANCE FoldFacts WITH op <- PassTurn

\* finish_detail placed the first transactions of the block, all of them if
\* it verifies.
Applying(L, id, txs, i, s) ==
    /\ DOMAIN s = {"ok", "ledger", "done"} /\ s.ok \in BOOLEAN
    /\ Placed(L, s.ledger, s.done, id)
    /\ s.ok => Len(s.done) = i /\ \A k \in 1 .. i : s.done[k] = txs[k]

\* The loop over the transactions of a block.
LEMMA ApplyAllPlaces ==
    ASSUME NEW L, Window(L), NEW id, NEW txs, Known(txs)
    PROVE  Applying(L, id, txs, Len(txs), ApplyAll(L, id, txs))
<1> DEFINE base == [ok |-> TRUE, ledger |-> L, done |-> <<>>]
           n == Len(txs)
<1>1. n \in Nat /\ DOMAIN txs = 1 .. n
    BY ListIs DEF Known
<1>2. PICK run : ApplyLoop!IsRun(id, base, txs, run) /\ ApplyLoop!Fold(id, base, txs) = run[n]
    BY <1>1, ApplyLoop!FoldRuns
<1>3. ApplyLoop!Fold(id, base, txs) = ApplyAll(L, id, txs)
    BY DEF ApplyLoop!Fold, ApplyLoop!MapThenFoldSet, ApplyLoop!Greatest,
           FoldLeft, MapThenFoldSet, Max, ApplyAll, ApplyTurn
<1> DEFINE T == {i \in 0 .. n : Applying(L, id, txs, i, run[i])}
<1>4. 0 \in T
    <2>1. run[0] = base
        BY <1>2 DEF ApplyLoop!IsRun
    <2>2. Known(<<>>) /\ TxIds(<<>>) = {} /\ DOMAIN <<>> = {} /\ Len(<<>>) = 0
        BY DEF Known, IsList, TxIds
    <2>3. SameKept(L, L)
        BY DEF SameKept
    <2>4. Placed(L, L, <<>>, id)
        BY <2>2, <2>3, SettledNone DEF Placed
    <2>5. Applying(L, id, txs, 0, base)
        BY <2>2, <2>4 DEF Applying
    <2> QED
        BY <1>1, <2>1, <2>5
<1> HIDE DEF base
<1>5. ASSUME NEW i \in 0 .. n, i < n, Applying(L, id, txs, i, run[i])
      PROVE  Applying(L, id, txs, i + 1, run[i + 1])
    <2> DEFINE s == run[i]
               tx == txs[i + 1]
               t == run[i + 1]
    <2>1. i + 1 \in 1 .. n /\ (i + 1) - 1 = i /\ i \in Nat
        BY <1>1, <1>5
    <2>2. t = ApplyTurn(id, s, tx)
        BY <1>2, <2>1 DEF ApplyLoop!IsRun
    <2>3. Valid(tx)
        BY <1>1, <2>1 DEF Known
    <2>4. Applying(L, id, txs, i, s)
        BY <1>5
    <2> HIDE DEF s, t
    <2>5. CASE s.ok /\ CanApply(s.ledger, tx, id)
        <3>1. t = [s EXCEPT !.ledger = Apply(@, tx, id), !.done = Append(@, tx)]
            BY <2>2, <2>5 DEF ApplyTurn
        <3>2. /\ DOMAIN t = {"ok", "ledger", "done"} /\ t.ok = s.ok
              /\ t.ledger = Apply(s.ledger, tx, id) /\ t.done = Append(s.done, tx)
            BY <2>4, <3>1 DEF Applying
        <3>3. /\ Placed(L, t.ledger, t.done, id) /\ Len(t.done) = Len(s.done) + 1
              /\ \A k \in 1 .. Len(s.done) : t.done[k] = s.done[k]
              /\ t.done[Len(s.done) + 1] = tx
            BY <2>3, <2>4, <2>5, <3>2, PlaceOne DEF Applying
        <3>4. Len(s.done) = i /\ \A k \in 1 .. i : s.done[k] = txs[k]
            BY <2>4, <2>5 DEF Applying
        <3>5. Len(t.done) = i + 1 /\ \A k \in 1 .. i + 1 : t.done[k] = txs[k]
            BY <2>1, <3>3, <3>4
        <3> QED
            BY <2>4, <3>2, <3>3, <3>5 DEF Applying, t
    <2>6. CASE ~ (s.ok /\ CanApply(s.ledger, tx, id))
        <3>1. t = [s EXCEPT !.ok = FALSE]
            BY <2>2, <2>6 DEF ApplyTurn
        <3>2. /\ DOMAIN t = {"ok", "ledger", "done"} /\ t.ok = FALSE
              /\ t.ledger = s.ledger /\ t.done = s.done
            BY <2>4, <3>1 DEF Applying
        <3> QED
            BY <2>4, <3>2 DEF Applying, t
    <2> QED
        BY <2>5, <2>6 DEF t
<1>6. \A i \in 0 .. n : i \in T /\ i < n => i + 1 \in T
    BY <1>1, <1>5
<1> HIDE DEF T
<1>7. 0 .. n \subseteq T
    BY <1>1, <1>4, <1>6, ApplyLoop!Induct
<1>8. Applying(L, id, txs, n, run[n])
    BY <1>1, <1>7 DEF T
<1> QED
    BY <1>2, <1>3, <1>8

\* The loop that takes the transactions of d back: their ids leave the window.
LEMMA UndoAllForgets ==
    ASSUME NEW L, Window(L), NEW d, Known(d)
    PROVE  SameKept(L, UndoAll(L, d)) /\ UndoAll(L, d).tx_map = L.tx_map \ TxIds(d)
<1> DEFINE r == Reverse(d)
           n == Len(r)
           Gone(i) == {r[k].id : k \in 1 .. i}
<1>1. /\ n \in Nat /\ DOMAIN r = 1 .. n /\ DOMAIN d = 1 .. n
      /\ \A k \in 1 .. n : r[k].type \in Types
      /\ {r[k].id : k \in 1 .. n} = TxIds(d)
    <2>1. IsList(d) /\ Len(d) \in Nat /\ DOMAIN d = 1 .. Len(d)
        BY ListIs DEF Known
    <2>2. /\ IsList(r) /\ Len(r) = Len(d) /\ \A k \in DOMAIN d : r[k] \in {d[j] : j \in DOMAIN d}
          /\ {r[k].id : k \in DOMAIN d} = {d[k].id : k \in DOMAIN d}
        BY <2>1, ReverseIs
    <2> HIDE DEF r
    <2>3. DOMAIN r = 1 .. n /\ DOMAIN d = 1 .. n /\ n \in Nat
        BY <2>1, <2>2, ListIs
    <2>4. \A k \in 1 .. n : r[k].type \in Types
        BY <2>2, <2>3 DEF Known, Valid
    <2> QED
        BY <2>2, <2>3, <2>4 DEF TxIds
<1> HIDE DEF r
<1>2. PICK run : UndoLoop!IsRun(0, L, r, run) /\ UndoLoop!Fold(0, L, r) = run[n]
    BY <1>1, UndoLoop!FoldRuns
<1>3. UndoLoop!Fold(0, L, r) = UndoAll(L, d)
    BY DEF UndoLoop!Fold, UndoLoop!MapThenFoldSet, UndoLoop!Greatest,
           FoldLeft, MapThenFoldSet, Max, UndoAll, UndoTurn, r
<1> DEFINE T == {i \in 0 .. n : SameKept(L, run[i]) /\ run[i].tx_map = L.tx_map \ Gone(i)}
<1>4. 0 \in T
    <2>1. run[0] = L
        BY <1>2 DEF UndoLoop!IsRun
    <2>2. Gone(0) = {}
        OBVIOUS
    <2> QED
        BY <1>1, <2>1, <2>2 DEF SameKept
<1>5. ASSUME NEW i \in 0 .. n, i < n, SameKept(L, run[i]), run[i].tx_map = L.tx_map \ Gone(i)
      PROVE  SameKept(L, run[i + 1]) /\ run[i + 1].tx_map = L.tx_map \ Gone(i + 1)
    <2>1. i + 1 \in 1 .. n /\ (i + 1) - 1 = i /\ i \in Nat
        BY <1>1, <1>5
    <2>2. run[i + 1] = Undo(run[i], r[i + 1])
        BY <1>2, <2>1 DEF UndoLoop!IsRun, UndoTurn
    <2>3. r[i + 1].type \in Types /\ Window(run[i])
        BY <1>1, <1>5, <2>1 DEF SameKept
    <2>4. SameKept(run[i], run[i + 1]) /\ run[i + 1].tx_map = run[i].tx_map \ {r[i + 1].id}
        BY <2>2, <2>3, UndoForgets
    <2>5. Gone(i + 1) = Gone(i) \cup {r[i + 1].id}
        BY <2>1
    <2> QED
        BY <1>5, <2>4, <2>5 DEF SameKept
<1>6. \A i \in 0 .. n : i \in T /\ i < n => i + 1 \in T
    BY <1>1, <1>5
<1> HIDE DEF T
<1>7. 0 .. n \subseteq T
    BY <1>1, <1>4, <1>6, UndoLoop!Induct
<1> QED
    BY <1>1, <1>2, <1>3, <1>7 DEF T

\* What was placed and is taken back was never there.
LEMMA PlacedUndone ==
    ASSUME NEW L, NEW M, NEW d, NEW id, Placed(L, M, d, id)
    PROVE  /\ SameKept(L, UndoAll(M, d)) /\ UndoAll(M, d).tx_map = L.tx_map
           /\ Wholly(L, UndoAll(M, d), id)
<1>1. Window(M) /\ Known(d) /\ SameKept(L, M)
    BY DEF Placed, SameKept
<1>2. SameKept(M, UndoAll(M, d)) /\ UndoAll(M, d).tx_map = M.tx_map \ TxIds(d)
    BY <1>1, UndoAllForgets
<1>3. M.tx_map \ TxIds(d) = L.tx_map
    BY DEF Placed, TxIds
<1>4. ASSUME TypedBlocks, Shaped(L), IsBook(L), id \in Int
      PROVE  Keeps(L, UndoAll(M, d)) /\ Core(UndoAll(M, d)) = Core(L)
    <2>1. Settled(L, M, d)
        BY <1>4 DEF Placed
    <2>2. Keeps(L, M) /\ Shaped(M) /\ UndoesTo(Core(L), Core(M), d)
        BY <2>1 DEF Settled, Keeps
    <2>3. Keeps(M, UndoAll(M, d)) /\ Core(UndoAll(M, d)) = Core(L)
        BY <2>2 DEF UndoesTo
    <2> QED
        BY <2>2, <2>3 DEF Keeps
<1> QED
    BY <1>1, <1>2, <1>3, <1>4 DEF SameKept, Wholly

\* A state of mine_tx: what was placed, and what is left to try.
Trying(L, id, s) ==
    /\ DOMAIN s = {"ledger", "mined", "left"}
    /\ Placed(L, s.ledger, s.mined, id) /\ Known(s.left)

\* One pass over what is left.
LEMMA PassTries ==
    ASSUME NEW L, NEW id, NEW s, Trying(L, id, s)
    PROVE  Trying(L, id, TrialPass(s, id))
<1> DEFINE base == [s EXCEPT !.left = <<>>]
           txs == s.left
           n == Len(txs)
<1>1. n \in Nat /\ DOMAIN txs = 1 .. n /\ Known(txs)
    BY ListIs DEF Known, Trying
<1>2. PICK run : PassLoop!IsRun(id, base, txs, run) /\ PassLoop!Fold(id, base, txs) = run[n]
    BY <1>1, PassLoop!FoldRuns
<1>3. PassLoop!Fold(id, base, txs) = TrialPass(s, id)
    BY DEF PassLoop!Fold, PassLoop!MapThenFoldSet, PassLoop!Greatest,
           FoldLeft, MapThenFoldSet, Max, TrialPass, PassTurn
<1> DEFINE T == {i \in 0 .. n : Trying(L, id, run[i])}
<1>4. 0 \in T
    <2>1. run[0] = base
        BY <1>2 DEF PassLoop!IsRun
    <2>2. Known(<<>>)
        BY DEF Known, IsList
    <2>3. Trying(L, id, base)
        BY <2>2 DEF Trying
    <2> QED
        BY <1>1, <2>1, <2>3
<1> HIDE DEF base, txs
<1>5. ASSUME NEW i \in 0 .. n, i < n, Trying(L, id, run[i])
      PROVE  Trying(L, id, run[i + 1])
    <2> DEFINE r == run[i]
               tx == txs[i + 1]
               t == run[i + 1]
    <2>1. i + 1 \in 1 .. n /\ (i + 1) - 1 = i
        BY <1>1, <1>5
    <2>2. t = PassTurn(id, r, tx)
        BY <1>2, <2>1 DEF PassLoop!IsRun
    <2>3. Valid(tx)
        BY <1>1, <2>1 DEF Known
    <2>4. Trying(L, id, r)
        BY <1>5
    <2> HIDE DEF r, t, tx
    <2>5. CASE CanApply(r.ledger, tx, id)
        <3>1. /\ DOMAIN t = {"ledger", "mined", "left"} /\ t.left = r.left
              /\ t.ledger = Apply(r.ledger, tx, id) /\ t.mined = Append(r.mined, tx)
            BY <2>2, <2>4, <2>5 DEF PassTurn, Trying
        <3>2. Placed(L, t.ledger, t.mined, id)
            BY <2>3, <2>4, <2>5, <3>1, PlaceOne DEF Trying
        <3> QED
            BY <2>4, <3>1, <3>2 DEF Trying, t
    <2>6. CASE ~ CanApply(r.ledger, tx, id)
        <3>1. /\ DOMAIN t = {"ledger", "mined", "left"} /\ t.left = Append(r.left, tx)
              /\ t.ledger = r.ledger /\ t.mined = r.mined
            BY <2>2, <2>4, <2>6 DEF PassTurn, Trying
        <3>2. /\ IsList(r.left) /\ Len(r.left) \in Nat /\ DOMAIN r.left = 1 .. Len(r.left)
              /\ \A k \in DOMAIN r.left : Valid(r.left[k])
            BY <2>4, ListIs DEF Trying, Known
        <3>3. /\ IsList(t.left) /\ DOMAIN t.left = 1 .. Len(r.left) + 1
              /\ \A k \in 1 .. Len(r.left) : t.left[k] = r.left[k]
              /\ t.left[Len(r.left) + 1] = tx
            BY <3>1, <3>2, AppendIs, ListIs
        <3>4. Known(t.left)
            BY <2>3, <3>2, <3>3 DEF Known
        <3> QED
            BY <2>4, <3>1, <3>4 DEF Trying, t
    <2> QED
        BY <2>5, <2>6 DEF t
<1>6. \A i \in 0 .. n : i \in T /\ i < n => i + 1 \in T
    BY <1>1, <1>5
<1> HIDE DEF T
<1>7. 0 .. n \subseteq T
    BY <1>1, <1>4, <1>6, PassLoop!Induct
<1>8. Trying(L, id, run[n])
    BY <1>1, <1>7 DEF T
<1> QED
    BY <1>2, <1>3, <1>8

\* mine_tx leaves with the window it began with.
LEMMA TrialUndone ==
    ASSUME NEW L, Window(L), NEW id, NEW pool, Known(pool), NEW old
    PROVE  LET R == Retire(L, id, old)
           IN  Window(R) => \E U : /\ SameKept(R, U) /\ U.tx_map = R.tx_map
                                   /\ Wholly(R, U, id)
                                   /\ Trial(L, id, pool, old).ledger = Restore(U, id)
<1> DEFINE R == Retire(L, id, old)
           s == [ledger |-> R, mined |-> <<>>, left |-> pool]
           t == TrialPass(TrialPass(TrialPass(s, id), id), id)
           U == UndoAll(t.ledger, t.mined)
<1> SUFFICES ASSUME Window(R)
             PROVE  /\ SameKept(R, U) /\ U.tx_map = R.tx_map /\ Wholly(R, U, id)
                    /\ Trial(L, id, pool, old).ledger = Restore(U, id)
    OBVIOUS
<1>1. Trial(L, id, pool, old).ledger = Restore(U, id)
    BY DEF Trial
<1> HIDE DEF R
<1>2. Known(<<>>) /\ TxIds(<<>>) = {} /\ DOMAIN <<>> = {}
    BY DEF Known, IsList, TxIds
<1>3. Placed(R, R, <<>>, id)
    BY <1>2, SettledNone DEF Placed, SameKept
<1>4. Trying(R, id, s)
    BY <1>3 DEF Trying
<1> HIDE DEF s
<1>5. Trying(R, id, t)
    BY <1>4, PassTries
<1> HIDE DEF t
<1>6. SameKept(R, U) /\ U.tx_map = R.tx_map /\ Wholly(R, U, id)
    BY <1>5, PlacedUndone DEF Trying
<1> QED
    BY <1>1, <1>6

-----------------------------------------------------------------------------
(* The loops over topics.                                                  *)

\* Topics are expiring: from the ledger L, n of the list at least are left.
Expiring(L, K, n) ==
    /\ {"tx_map", "topic_list", "rollback_topics", "rollback_txs", "sane"} \subseteq DOMAIN K
    /\ K.tx_map = L.tx_map /\ K.rollback_txs = L.rollback_txs
    /\ DOMAIN K.rollback_topics = DOMAIN L.rollback_topics
    /\ IsList(K.topic_list) /\ Len(K.topic_list) >= n
    /\ \A i \in DOMAIN K.rollback_topics : IsList(K.rollback_topics[i])

\* One topic expires.
LEMMA ExpireOne ==
    ASSUME NEW L, NEW K, NEW n \in Nat, Expiring(L, K, n + 1), NEW i, NEW key
    PROVE  Expiring(L, ExpireTopic(K, i, key), n)
<1> DEFINE t == K.topics[key]
           C == Credit(K, Reserve, t.balance)
           saved == [key |-> key, topic |-> t]
           M == ExpireTopic(K, i, key)
<1>1. Len(K.topic_list) \in Nat
    BY ListIs DEF Expiring
<1>2. CASE M = [K EXCEPT !.sane = FALSE]
    BY <1>1, <1>2 DEF Expiring
<1>3. CASE M = [C EXCEPT
            !.topics     = Without(@, key),
            !.topic_list = Tail(@),
            !.own[t.owner] = Tail(@),
            !.joined = [a \in DOMAIN @ |->
                           IF a \in Members(t) THEN RemoveFirst(@[a], key) ELSE @[a]],
            !.rollback_topics[i] = <<saved>> \o @]
    <2>1. /\ DOMAIN C = DOMAIN K /\ C.tx_map = K.tx_map /\ C.topic_list = K.topic_list
          /\ C.rollback_topics = K.rollback_topics /\ C.rollback_txs = K.rollback_txs
        BY DEF Credit, Expiring
    <2>2. IsList(Tail(K.topic_list)) /\ Len(Tail(K.topic_list)) >= n
        <3>1. Len(K.topic_list) # 0
            BY <1>1 DEF Expiring
        <3>2. IsList(Tail(K.topic_list)) /\ Len(Tail(K.topic_list)) = Len(K.topic_list) - 1
            BY <3>1, TailIs DEF Expiring
        <3> QED
            BY <1>1, <3>2 DEF Expiring
    <2> HIDE DEF C, t, saved
    <2>3. /\ DOMAIN M = DOMAIN K /\ M.tx_map = K.tx_map /\ M.topic_list = Tail(K.topic_list)
          /\ M.rollback_txs = K.rollback_txs
          /\ M.rollback_topics = [K.rollback_topics EXCEPT ![i] = <<saved>> \o @]
        <3> HIDE DEF M
        <3>1. "rollback_topics" \in DOMAIN C
            BY <2>1 DEF Expiring
        <3>2. "topic_list" \in DOMAIN C
            BY <2>1 DEF Expiring
        <3>3. DOMAIN M = DOMAIN C /\ M.tx_map = C.tx_map /\ M.rollback_txs = C.rollback_txs
            BY <1>3
        <3>4. M.topic_list = Tail(C.topic_list)
            BY <1>3, <3>2
        <3>5. M.rollback_topics = [C.rollback_topics EXCEPT ![i] = <<saved>> \o @]
            BY <1>3, <3>1
        <3> QED
            BY <2>1, <3>3, <3>4, <3>5
    <2>4. ASSUME NEW j \in DOMAIN K.rollback_topics PROVE IsList(M.rollback_topics[j])
        <3>1. IsList(K.rollback_topics[j])
            BY DEF Expiring
        <3>2. IsList(<<saved>> \o K.rollback_topics[j])
            BY <3>1, PrependIs
        <3> QED
            BY <2>3, <3>1, <3>2
    <2>5. DOMAIN M.rollback_topics = DOMAIN K.rollback_topics
        BY <2>3
    <2> HIDE DEF M
    <2> QED
        BY <2>2, <2>3, <2>4, <2>5 DEF Expiring, M
<1> QED
    BY <1>2, <1>3 DEF ExpireTopic

\* The loop of proc_topic_expired.
LEMMA ExpireAll ==
    ASSUME NEW M, NEW i, NEW s, IsList(s), Expiring(M, M, Len(s))
    PROVE  Expiring(M, ExpireEach(M, i, s), 0)
<1> DEFINE n == Len(s)
           F == ExpireEach(M, i, s)
<1>1. n \in Nat /\ DOMAIN s = 1 .. n
    BY ListIs
<1>2. PICK run : ExpireLoop!IsRun(i, M, s, run) /\ ExpireLoop!Fold(i, M, s) = run[n]
    BY <1>1, ExpireLoop!FoldRuns
<1>3. ExpireLoop!Fold(i, M, s) = F
    BY DEF ExpireLoop!Fold, ExpireLoop!MapThenFoldSet, ExpireLoop!Greatest,
           FoldLeft, MapThenFoldSet, Max, ExpireTurn, ExpireEach
<1> HIDE DEF F
<1> DEFINE T == {j \in 0 .. n : Expiring(M, run[j], n - j)}
<1>4. 0 \in T
    <2>1. run[0] = M /\ n - 0 = n
        BY <1>1, <1>2 DEF ExpireLoop!IsRun
    <2> QED
        BY <1>1, <2>1
<1>5. ASSUME NEW j \in 0 .. n, j < n, Expiring(M, run[j], n - j)
      PROVE  Expiring(M, run[j + 1], n - (j + 1))
    <2>1. j + 1 \in 1 .. n /\ (j + 1) - 1 = j /\ n - (j + 1) \in Nat
          /\ n - j = (n - (j + 1)) + 1
        BY <1>1, <1>5
    <2>2. run[j + 1] = ExpireTopic(run[j], i, s[j + 1])
        BY <1>2, <2>1 DEF ExpireLoop!IsRun, ExpireTurn
    <2>3. Expiring(M, run[j], (n - (j + 1)) + 1)
        BY <1>5, <2>1
    <2> QED
        BY <2>1, <2>2, <2>3, ExpireOne
<1>6. \A j \in 0 .. n : j \in T /\ j < n => j + 1 \in T
    BY <1>1, <1>5
<1> HIDE DEF T
<1>7. 0 .. n \subseteq T
    BY <1>1, <1>4, <1>6, ExpireLoop!Induct
<1>8. Expiring(M, run[n], 0)
    <2>1. n \in 0 .. n /\ n - n = 0
        BY <1>1
    <2> QED
        BY <1>7, <2>1 DEF T
<1> QED
    BY <1>2, <1>3, <1>8 DEF F

\* What block id retires leaves the window, and is kept for rollback.
LEMMA RetireIs ==
    ASSUME NEW L, Window(L), NEW id, NEW old
    PROVE  LET M == Retire(L, id, old)
           IN  /\ ~ Retires(id) => M = L
               /\ Retires(id) =>
                    /\ Window(M) /\ M.tx_map = L.tx_map \ old
                    /\ M.rollback_txs =
                          With(Without(L.rollback_txs, id - (2 * LIFE + 1)), Index(id), old)
<1>1. ~ Retires(id) => Retire(L, id, old) = L
    BY DEF Retire, ProcTopicExpired, ProcTxMap
<1>2. ASSUME Retires(id)
      PROVE  /\ Window(Retire(L, id, old)) /\ Retire(L, id, old).tx_map = L.tx_map \ old
             /\ Retire(L, id, old).rollback_txs =
                  With(Without(L.rollback_txs, id - (2 * LIFE + 1)), Index(id), old)
    <2> DEFINE g == id - (2 * LIFE + 1)
               topics == With(Without(L.rollback_topics, g), Index(id), <<>>)
               M == [L EXCEPT !.rollback_topics = topics]
               s == Expired(L, id)
               P == ProcTopicExpired(L, id)
               N == Retire(L, id, old)
    <2>1. P = ExpireEach(M, Index(id), s)
        BY <1>2 DEF ProcTopicExpired, ExpireEach
    <2>2. N = [P EXCEPT !.rollback_txs = With(Without(@, g), Index(id), old),
                        !.tx_map = @ \ old,
                        !.sane   = @ /\ old \subseteq P.tx_map]
        BY <1>2 DEF Retire, ProcTxMap
    <2>3. IsList(s) /\ Len(s) <= Len(L.topic_list) /\ Len(L.topic_list) \in Nat
        BY ExpiredIs, ListIs DEF Window
    <2>4. /\ DOMAIN topics = (DOMAIN L.rollback_topics \ {g}) \cup {Index(id)}
          /\ \A i \in DOMAIN topics : IsList(topics[i])
        <3>1. IsList(<<>>)
            BY DEF IsList
        <3> QED
            BY <3>1 DEF With, Without, Window
    <2> HIDE DEF topics, s, P, N, g
    <2>5. /\ DOMAIN M = DOMAIN L /\ M.rollback_topics = topics
          /\ M.tx_map = L.tx_map /\ M.topic_list = L.topic_list
          /\ M.rollback_txs = L.rollback_txs
        BY DEF Window
    <2> HIDE DEF M
    <2>6. Expiring(M, M, Len(s))
        BY <2>3, <2>4, <2>5 DEF Expiring, Window
    <2>7. Expiring(M, P, 0)
        BY <2>1, <2>3, <2>6, ExpireAll
    <2>8. /\ DOMAIN N = DOMAIN P /\ N.topic_list = P.topic_list
          /\ N.rollback_topics = P.rollback_topics
          /\ N.tx_map = P.tx_map \ old
          /\ N.rollback_txs = With(Without(P.rollback_txs, g), Index(id), old)
        BY <2>2, <2>7 DEF Expiring
    <2>9. N.tx_map = L.tx_map \ old
        BY <2>5, <2>7, <2>8 DEF Expiring
    <2>10. N.rollback_txs = With(Without(L.rollback_txs, g), Index(id), old)
        BY <2>5, <2>7, <2>8 DEF Expiring
    <2>11. DOMAIN N.rollback_txs = (DOMAIN L.rollback_txs \ {g}) \cup {Index(id)}
        BY <2>10 DEF With, Without
    <2>12. DOMAIN N.rollback_topics = DOMAIN topics
        BY <2>5, <2>7, <2>8 DEF Expiring
    <2>13. Window(N)
        BY <2>4, <2>7, <2>8, <2>11, <2>12 DEF Window, Expiring
    <2> QED
        BY <2>9, <2>10, <2>13 DEF N, g
<1> QED
    BY <1>1, <1>2

\* A topic that is brought back does not touch the window.
LEMMA RestoreOne ==
    ASSUME NEW L, Window(L), NEW saved
    PROVE  SameKept(L, RestoreTopic(L, saved)) /\ RestoreTopic(L, saved).tx_map = L.tx_map
<1> DEFINE C == Credit(L, Reserve, 0 - saved.topic.balance)
           M == RestoreTopic(L, saved)
<1>1. /\ DOMAIN C = DOMAIN L /\ C.tx_map = L.tx_map /\ C.topic_list = L.topic_list
      /\ C.rollback_topics = L.rollback_topics /\ C.rollback_txs = L.rollback_txs
      /\ C.sane = L.sane
    BY CreditKeeps DEF SameKept
<1>2. IsList(<<saved.key>> \o L.topic_list)
    BY PrependIs DEF Window
<1>3. M = [C EXCEPT
            !.topics     = With(@, saved.key, saved.topic),
            !.topic_list = <<saved.key>> \o @,
            !.own[saved.topic.owner] = <<saved.key>> \o @,
            !.joined = [a \in DOMAIN @ |->
                IF a \in Members(saved.topic) THEN <<saved.key>> \o @[a] ELSE @[a]]]
    BY DEF RestoreTopic
<1> HIDE DEF C
<1>4. /\ DOMAIN M = DOMAIN L /\ M.tx_map = L.tx_map
      /\ M.topic_list = <<saved.key>> \o L.topic_list
      /\ M.rollback_topics = L.rollback_topics /\ M.rollback_txs = L.rollback_txs
      /\ M.sane = L.sane
    BY <1>1, <1>3 DEF Window
<1> QED
    BY <1>2, <1>4 DEF SameKept, Window

\* The loop that brings topics back.
LEMMA RestoreAll ==
    ASSUME NEW L, Window(L), NEW saved, IsList(saved)
    PROVE  LET M == FoldLeft(RestoreTopic, L, saved)
           IN  SameKept(L, M) /\ M.tx_map = L.tx_map
<1> DEFINE n == Len(saved)
           F == FoldLeft(RestoreTopic, L, saved)
<1>1. n \in Nat /\ DOMAIN saved = 1 .. n
    BY ListIs
<1>2. PICK run : RestoreLoop!IsRun(0, L, saved, run) /\ RestoreLoop!Fold(0, L, saved) = run[n]
    BY <1>1, RestoreLoop!FoldRuns
<1>3. RestoreLoop!Fold(0, L, saved) = F
    BY DEF RestoreLoop!Fold, RestoreLoop!MapThenFoldSet,
           RestoreLoop!Greatest, FoldLeft, MapThenFoldSet, Max, RestoreTurn
<1> HIDE DEF F
<1> DEFINE T == {j \in 0 .. n : SameKept(L, run[j]) /\ run[j].tx_map = L.tx_map}
<1>4. 0 \in T
    <2>1. run[0] = L
        BY <1>2 DEF RestoreLoop!IsRun
    <2> QED
        BY <1>1, <2>1 DEF SameKept
<1>5. ASSUME NEW j \in 0 .. n, j < n, SameKept(L, run[j]), run[j].tx_map = L.tx_map
      PROVE  SameKept(L, run[j + 1]) /\ run[j + 1].tx_map = L.tx_map
    <2>1. j + 1 \in 1 .. n /\ (j + 1) - 1 = j
        BY <1>1, <1>5
    <2>2. run[j + 1] = RestoreTopic(run[j], saved[j + 1])
        BY <1>2, <2>1 DEF RestoreLoop!IsRun, RestoreTurn
    <2>3. Window(run[j])
        BY <1>5 DEF SameKept
    <2>4. SameKept(run[j], run[j + 1]) /\ run[j + 1].tx_map = run[j].tx_map
        BY <2>2, <2>3, RestoreOne
    <2> QED
        BY <1>5, <2>4 DEF SameKept
<1>6. \A j \in 0 .. n : j \in T /\ j < n => j + 1 \in T
    BY <1>1, <1>5
<1> HIDE DEF T
<1>7. 0 .. n \subseteq T
    BY <1>1, <1>4, <1>6, RestoreLoop!Induct
<1>8. SameKept(L, run[n]) /\ run[n].tx_map = L.tx_map
    BY <1>1, <1>7 DEF T
<1> QED
    BY <1>2, <1>3, <1>8 DEF F

\* What was retired at block id comes back, if it was kept.
LEMMA RestoreIs ==
    ASSUME NEW L, Window(L), NEW id
    PROVE  LET M == Restore(L, id)
           IN  /\ id <= LIFE + 1 => M = L
               /\ ~ id <= LIFE + 1 =>
                    /\ Window(M) /\ M.sane = L.sane
                    /\ M.tx_map = L.tx_map \cup Kept(L.rollback_txs, Index(id), {})
                    /\ M.rollback_txs = Without(L.rollback_txs, Index(id))
<1>1. id <= LIFE + 1 => Restore(L, id) = L
    BY DEF Restore
<1>2. ASSUME ~ id <= LIFE + 1
      PROVE  /\ Window(Restore(L, id)) /\ Restore(L, id).sane = L.sane
             /\ Restore(L, id).tx_map = L.tx_map \cup Kept(L.rollback_txs, Index(id), {})
             /\ Restore(L, id).rollback_txs = Without(L.rollback_txs, Index(id))
    <2> DEFINE k == Index(id)
               saved == Kept(L.rollback_topics, k, <<>>)
               F == FoldLeft(RestoreTopic, L, saved)
               M == Restore(L, id)
    <2>1. IsList(saved)
        <3>1. IsList(<<>>)
            BY DEF IsList
        <3> QED
            BY <3>1 DEF Kept, Window
    <2>2. M = [[F EXCEPT !.tx_map = @ \cup Kept(L.rollback_txs, k, {})] EXCEPT
                 !.rollback_topics = Without(@, k), !.rollback_txs = Without(@, k)]
        BY <1>2 DEF Restore, RestoreSaved
    <2> HIDE DEF saved
    <2>3. SameKept(L, F) /\ F.tx_map = L.tx_map
        BY <2>1, RestoreAll
    <2> HIDE DEF F, M, k
    <2>4. /\ DOMAIN M = DOMAIN F /\ M.topic_list = F.topic_list /\ M.sane = F.sane
          /\ M.tx_map = F.tx_map \cup Kept(L.rollback_txs, k, {})
          /\ M.rollback_topics = Without(F.rollback_topics, k)
          /\ M.rollback_txs = Without(F.rollback_txs, k)
        BY <2>2, <2>3 DEF SameKept, Window
    <2>5. Window(M)
        BY <2>3, <2>4 DEF SameKept, Window, Without
    <2> QED
        BY <2>3, <2>4, <2>5 DEF SameKept, M, k
<1> QED
    BY <1>1, <1>2

-----------------------------------------------------------------------------
(* Whole blocks.                                                           *)

\* Nothing was forgotten from L to M, and nothing more is kept for rollback.
KeepsWindow(L, M) ==
    /\ Window(M) /\ L.tx_map \subseteq M.tx_map
    /\ DOMAIN M.rollback_txs \subseteq DOMAIN L.rollback_txs
    /\ \A i \in DOMAIN M.rollback_txs : M.rollback_txs[i] = L.rollback_txs[i]

\* What retired and comes back was never gone.
LEMMA RetiredRestored ==
    ASSUME NEW L, Window(L), NEW id \in Nat, NEW old, NEW U,
           SameKept(Retire(L, id, old), U), U.tx_map = Retire(L, id, old).tx_map
    PROVE  KeepsWindow(L, Restore(U, id))
<1> DEFINE R == Retire(L, id, old)
           M == Restore(U, id)
           g == id - (2 * LIFE + 1)
           k == Index(id)
<1>1. LIFE \in Nat /\ Window(U)
    BY LedgerAssumption DEF SameKept
<1>2. CASE Retires(id)
    <2>1. /\ Window(R) /\ R.tx_map = L.tx_map \ old
          /\ R.rollback_txs = With(Without(L.rollback_txs, g), k, old)
        BY <1>2, RetireIs
    <2>2. ~ id <= LIFE + 1
        BY <1>1, <1>2 DEF Retires
    <2>3. /\ Window(M) /\ M.tx_map = U.tx_map \cup Kept(U.rollback_txs, k, {})
          /\ M.rollback_txs = Without(U.rollback_txs, k)
        BY <1>1, <2>2, RestoreIs
    <2> HIDE DEF R, M, g, k
    <2>4. U.rollback_txs = R.rollback_txs /\ U.tx_map = R.tx_map
        BY DEF SameKept, R
    <2>5. Kept(U.rollback_txs, k, {}) = old
        BY <2>1, <2>4 DEF Kept, With
    <2>6. L.tx_map \subseteq M.tx_map
        BY <2>1, <2>3, <2>4, <2>5
    <2>7. DOMAIN U.rollback_txs = (DOMAIN L.rollback_txs \ {g}) \cup {k}
        BY <2>1, <2>4 DEF With, Without
    <2>8. /\ DOMAIN M.rollback_txs = DOMAIN U.rollback_txs \ {k}
          /\ \A i \in DOMAIN M.rollback_txs : M.rollback_txs[i] = U.rollback_txs[i]
        BY <2>3 DEF Without
    <2>9. \A i \in DOMAIN L.rollback_txs \ {g, k} : U.rollback_txs[i] = L.rollback_txs[i]
        BY <2>1, <2>4 DEF With, Without
    <2> QED
        BY <2>3, <2>6, <2>7, <2>8, <2>9 DEF KeepsWindow, M
<1>3. CASE ~ Retires(id)
    <2>1. R = L
        BY <1>3, RetireIs
    <2>2. id <= LIFE + 1
        BY <1>1, <1>3 DEF Retires
    <2>3. M = U
        BY <1>1, <2>2, RestoreIs
    <2> HIDE DEF R, M
    <2>4. SameKept(L, U) /\ U.tx_map = L.tx_map
        BY <2>1 DEF R
    <2> QED
        BY <2>3, <2>4 DEF KeepsWindow, SameKept, M
<1> QED
    BY <1>2, <1>3

\* Retirement leaves a window.
LEMMA RetireWindow ==
    ASSUME NEW L, Window(L), NEW id, NEW old
    PROVE  Window(Retire(L, id, old))
BY RetireIs

\* mine_tx forgets nothing.
LEMMA TrialKeeps ==
    ASSUME NEW L, Window(L), NEW id \in Nat, NEW pool, Known(pool), NEW old
    PROVE  KeepsWindow(L, Trial(L, id, pool, old).ledger)
<1>1. Window(Retire(L, id, old))
    BY RetireWindow
<1>2. PICK U : /\ SameKept(Retire(L, id, old), U) /\ U.tx_map = Retire(L, id, old).tx_map
               /\ Trial(L, id, pool, old).ledger = Restore(U, id)
    BY <1>1, TrialUndone
<1> QED
    BY <1>2, RetiredRestored

\* The reward of the miner, paid and taken back.
LEMMA MinerKeeps ==
    ASSUME NEW L, Window(L), NEW miner, NEW n, NEW rewarded
    PROVE  /\ SameKept(L, PayMiner(L, miner, n)) /\ PayMiner(L, miner, n).tx_map = L.tx_map
           /\ SameKept(L, UnpayMiner(L, miner, n, rewarded))
           /\ UnpayMiner(L, miner, n, rewarded).tx_map = L.tx_map
<1>1. SameKept(L, PayMiner(L, miner, n)) /\ PayMiner(L, miner, n).tx_map = L.tx_map
    <2> DEFINE M == Credit(L, miner, n)
    <2>1. SameKept(L, M) /\ M.tx_map = L.tx_map /\ Window(M)
        BY CreditKeeps DEF SameKept
    <2>2. PayMiner(L, miner, n) \in {M, Move(M, Reserve, miner, BLOCK_REWARD)}
        BY DEF PayMiner
    <2> HIDE DEF M
    <2>3. /\ SameKept(M, Move(M, Reserve, miner, BLOCK_REWARD))
          /\ Move(M, Reserve, miner, BLOCK_REWARD).tx_map = M.tx_map
        BY <2>1, MoveKeeps
    <2> QED
        BY <2>1, <2>2, <2>3 DEF SameKept
<1>2. /\ SameKept(L, UnpayMiner(L, miner, n, rewarded))
      /\ UnpayMiner(L, miner, n, rewarded).tx_map = L.tx_map
    <2> DEFINE M == IF rewarded THEN Move(L, miner, Reserve, BLOCK_REWARD) ELSE L
    <2>1. SameKept(L, M) /\ M.tx_map = L.tx_map
        BY MoveKeeps DEF SameKept
    <2> HIDE DEF M
    <2>2. Window(M)
        BY <2>1 DEF SameKept
    <2>3. /\ SameKept(M, Credit(M, miner, 0 - n)) /\ Credit(M, miner, 0 - n).tx_map = M.tx_map
        BY <2>2, CreditKeeps
    <2> QED
        BY <2>1, <2>3 DEF SameKept, UnpayMiner, M
<1> QED
    BY <1>1, <1>2

\* The transactions of d are new to L, each once, and of this height.
Fresh(L, d, id) ==
    /\ \A k \in DOMAIN d : InWindow(d[k], id) /\ d[k].id \notin L.tx_map
    /\ \A j, k \in DOMAIN d : d[j].id = d[k].id => j = k

\* A block that verifies brings its transactions into the window; one that
\* does not leaves it as it was.
LEMMA ApplyBlockIs ==
    ASSUME NEW L, Window(L), NEW id \in Nat, NEW miner, NEW txs, Known(txs), NEW old
    PROVE  LET out == ApplyBlock(L, id, miner, txs, old)
               R == Retire(L, id, old)
           IN  /\ out.ok => /\ SameKept(R, out.ledger) /\ Fresh(R, txs, id)
                            /\ out.ledger.tx_map = R.tx_map \cup TxIds(txs)
               /\ ~ out.ok => KeepsWindow(L, out.ledger)
<1> DEFINE R == Retire(L, id, old)
           s == ApplyAll(R, id, txs)
           out == ApplyBlock(L, id, miner, txs, old)
<1>1. Window(R)
    BY RetireWindow
<1>2. CASE ~ Registered(L, miner)
    <2>1. out.ok = FALSE /\ out.ledger = L
        BY <1>2 DEF ApplyBlock
    <2>2. KeepsWindow(L, L)
        BY DEF KeepsWindow
    <2> QED
        BY <2>1, <2>2
<1>3. CASE Registered(L, miner)
    <2>1. out = IF s.ok
                THEN [ok |-> TRUE, ledger |-> PayMiner(s.ledger, miner, Len(txs)),
                      rewarded |-> GetsReward(s.ledger)]
                ELSE [ok |-> FALSE, ledger |-> Restore(UndoAll(s.ledger, s.done), id),
                      rewarded |-> FALSE]
        BY <1>3 DEF ApplyBlock
    <2> HIDE DEF R, out
    <2>2. Applying(R, id, txs, Len(txs), s)
        BY <1>1, ApplyAllPlaces
    <2> HIDE DEF s
    <2>3. CASE s.ok
        <3>1. out.ok = TRUE /\ out.ledger = PayMiner(s.ledger, miner, Len(txs))
            BY <2>1, <2>3
        <3>2. Placed(R, s.ledger, s.done, id)
            BY <2>2 DEF Applying
        <3>3. Len(s.done) = Len(txs) /\ \A k \in 1 .. Len(txs) : s.done[k] = txs[k]
            BY <2>2, <2>3 DEF Applying
        <3>4. Window(s.ledger) /\ SameKept(R, s.ledger) /\ Known(s.done)
            BY <3>2 DEF Placed, SameKept
        <3>5. DOMAIN s.done = 1 .. Len(txs) /\ DOMAIN txs = 1 .. Len(txs)
            BY <3>3, <3>4, ListIs DEF Known
        <3>6. TxIds(s.done) = TxIds(txs)
            BY <3>3, <3>5 DEF TxIds
        <3>7. Fresh(R, txs, id)
            BY <3>2, <3>3, <3>5 DEF Placed, Fresh
        <3>8. /\ SameKept(s.ledger, PayMiner(s.ledger, miner, Len(txs)))
              /\ PayMiner(s.ledger, miner, Len(txs)).tx_map = s.ledger.tx_map
            BY <3>4, MinerKeeps
        <3>9. s.ledger.tx_map = R.tx_map \cup TxIds(txs)
            BY <3>2, <3>6 DEF Placed
        <3>10. SameKept(R, out.ledger) /\ out.ledger.tx_map = R.tx_map \cup TxIds(txs)
            BY <3>1, <3>4, <3>8, <3>9 DEF SameKept
        <3> QED
            BY <3>1, <3>7, <3>10 DEF R, out
    <2>4. CASE ~ s.ok
        <3>1. out.ok = FALSE /\ out.ledger = Restore(UndoAll(s.ledger, s.done), id)
            BY <2>1, <2>4
        <3>2. /\ SameKept(R, UndoAll(s.ledger, s.done))
              /\ UndoAll(s.ledger, s.done).tx_map = R.tx_map
            BY <2>2, PlacedUndone DEF Applying
        <3>3. KeepsWindow(L, out.ledger)
            BY <3>1, <3>2, RetiredRestored DEF R
        <3> QED
            BY <3>1, <3>3 DEF out
    <2> QED
        BY <2>3, <2>4
<1> QED
    BY <1>2, <1>3

\* What rollback undoes of a block before it restores what retired.
LEMMA UndoTxsIs ==
    ASSUME NEW L, Window(L), NEW miner, NEW txs, Known(txs), NEW rewarded
    PROVE  LET U == UndoTxs(L, miner, txs, rewarded)
           IN  SameKept(L, U) /\ U.tx_map = L.tx_map \ TxIds(txs)
<1> DEFINE M == UnpayMiner(L, miner, Len(txs), rewarded)
           U == UndoTxs(L, miner, txs, rewarded)
<1>1. SameKept(L, M) /\ M.tx_map = L.tx_map
    BY MinerKeeps
<1>2. U = UndoAll(M, txs)
    BY DEF UndoTxs
<1> HIDE DEF M, U
<1>3. SameKept(M, U) /\ U.tx_map = M.tx_map \ TxIds(txs)
    BY <1>1, <1>2, UndoAllForgets DEF SameKept
<1> QED
    BY <1>1, <1>3 DEF SameKept, U

-----------------------------------------------------------------------------
(* Whole blocks and the books.                                             *)

\* Of what is kept to bring topics back, M has no more than L.
KeepsOnly(L, M) ==
    \A k \in DOMAIN M.rollback_topics :
        k \in DOMAIN L.rollback_topics /\ M.rollback_topics[k] = L.rollback_topics[k]

\* M has the accounts, balances and topics of L, memberships apart.
Unmoved(L, M) == Shaped(M) /\ Core(M) = Core(L) /\ KeepsOnly(L, M)

\* What retired and comes back leaves the book of before.
LEMMA CoreRestored ==
    ASSUME NEW L, Shaped(L), IsBook(L), NEW id \in Nat, NEW old, Retire(L, id, old).sane,
           NEW U, Keeps(Retire(L, id, old), U), Core(U) = Core(Retire(L, id, old))
    PROVE  Unmoved(L, Restore(U, id))
<1> DEFINE R == Retire(L, id, old)
           M == Restore(U, id)
           r == Index(id)
<1>1. LIFE \in Nat /\ (Retires(id) <=> ~ id <= LIFE + 1)
    BY LedgerAssumption DEF Retires
<1>2. /\ ~ Retires(id) => R = L
      /\ Retires(id) => /\ r \in DOMAIN R.rollback_topics /\ KeepsBelow(L, R, r)
                        /\ BringsTo(Core(L), Core(R), R.rollback_topics[r])
    BY RetireBook
<1>3. Shaped(U) /\ U.rollback_topics = R.rollback_topics /\ Core(U) = Core(R)
    BY DEF Keeps
<1> HIDE DEF R, r
<1>4. /\ id <= LIFE + 1 => Core(U) = Core(L)
      /\ ~ id <= LIFE + 1 => /\ r \in DOMAIN U.rollback_topics
                             /\ BringsTo(Core(L), Core(U), U.rollback_topics[r])
    BY <1>1, <1>2, <1>3
<1>5. /\ Shaped(M) /\ Core(M) = Core(L)
      /\ id <= LIFE + 1 => M.rollback_topics = U.rollback_topics
      /\ ~ id <= LIFE + 1 => M.rollback_topics = Without(U.rollback_topics, r)
    BY <1>3, <1>4, RestoreBook DEF r
<1> HIDE DEF M
<1>6. KeepsOnly(L, M)
    BY <1>1, <1>2, <1>3, <1>5 DEF KeepsOnly, KeepsBelow, Without
<1> QED
    BY <1>5, <1>6 DEF Unmoved, M

\* mine_tx leaves the book of before.
THEOREM TrialBook ==
    ASSUME TypedBlocks, NEW L, Window(L), Shaped(L), IsBook(L),
           NEW id \in Nat, NEW pool, Known(pool), NEW old,
           Trial(L, id, pool, old).ledger.sane
    PROVE  Unmoved(L, Trial(L, id, pool, old).ledger)
<1> DEFINE R == Retire(L, id, old)
<1>1. Window(R)
    BY RetireWindow
<1>2. PICK U : /\ SameKept(R, U) /\ Wholly(R, U, id)
               /\ Trial(L, id, pool, old).ledger = Restore(U, id)
    BY <1>1, TrialUndone
<1>3. R.sane
    <2>1. Window(U) /\ U.sane = R.sane
        BY <1>2 DEF SameKept
    <2>2. Restore(U, id).sane = U.sane
        BY <2>1, RestoreIs
    <2> QED
        BY <1>2, <2>1, <2>2
<1>4. Shaped(R) /\ IsBook(R)
    BY <1>3, RetireBook
<1>5. Keeps(R, U) /\ Core(U) = Core(R)
    BY <1>2, <1>4 DEF Wholly
<1> QED
    BY <1>2, <1>3, <1>5, CoreRestored

\* Undoing block id leads from any ledger of core D, if it kept the topics
\* of saved for it, to core C.
Link(C, D, id, miner, txs, rewarded, saved) ==
    \A K : /\ Shaped(K) /\ Core(K) = D
           /\ ~ id <= LIFE + 1 => /\ Index(id) \in DOMAIN K.rollback_topics
                                  /\ K.rollback_topics[Index(id)] = saved
           => LET M == UndoBlock(K, id, miner, txs, rewarded)
              IN  Shaped(M) /\ Core(M) = C /\ KeepsOnly(K, M)

\* A block that verifies makes a book of a book, with as many coins, and one
\* that undoing the block leads back from.
THEOREM BlockBook ==
    ASSUME TypedBlocks, NEW L, Window(L), Shaped(L), IsBook(L),
           NEW id \in Nat, NEW miner, NEW txs, Known(txs), NEW old,
           ApplyBlock(L, id, miner, txs, old).ok,
           ApplyBlock(L, id, miner, txs, old).ledger.sane
    PROVE  LET out == ApplyBlock(L, id, miner, txs, old)
               M == out.ledger
           IN  /\ Shaped(M) /\ IsBook(M) /\ Coins(M) = Coins(L) /\ out.rewarded \in BOOLEAN
               /\ ~ Retires(id) => KeepsOnly(L, M)
               /\ Retires(id) => Index(id) \in DOMAIN M.rollback_topics
               /\ KeepsBelow(L, M, Index(id))
               /\ Link(Core(L), Core(M), id, miner, txs, out.rewarded,
                       M.rollback_topics[Index(id)])
<1> DEFINE R == Retire(L, id, old)
           s == ApplyAll(R, id, txs)
           N == s.ledger
           out == ApplyBlock(L, id, miner, txs, old)
           M == out.ledger
           n == Len(txs)
           r == Index(id)
<1>1. LIFE \in Nat /\ id \in Int /\ (Retires(id) <=> ~ id <= LIFE + 1)
    BY LedgerAssumption DEF Retires
<1>2. miner \in DOMAIN L.referrer /\ s.ok
    BY DEF ApplyBlock, Registered
<1>3. M = PayMiner(N, miner, n) /\ out.rewarded = GetsReward(N)
    BY <1>2 DEF ApplyBlock, Registered
<1>4. Window(R)
    BY RetireWindow
<1>5. Applying(R, id, txs, n, s)
    BY <1>4, ApplyAllPlaces
<1> HIDE DEF s
<1>6. Placed(R, N, s.done, id) /\ SameKept(R, N) /\ Window(N)
    BY <1>5 DEF Applying, Placed, SameKept
<1>7. s.done = txs
    <2>1. IsList(s.done) /\ IsList(txs) /\ Len(s.done) = n /\ \A k \in 1 .. n : s.done[k] = txs[k]
        BY <1>2, <1>5, <1>6 DEF Applying, Placed, Known
    <2> DEFINE d == s.done
               S == {d[k] : k \in DOMAIN d} \cup {txs[k] : k \in DOMAIN txs}
    <2>2. d \in Seq(S) /\ txs \in Seq(S)
        BY <2>1 DEF IsList
    <2> HIDE DEF d, S
    <2> QED
        BY <2>1, <2>2, SeqEqual DEF d
<1>8. R.sane
    <2> HIDE DEF N, M, out, n
    <2>1. SameKept(N, PayMiner(N, miner, n))
        BY <1>6, MinerKeeps
    <2>2. M.sane = N.sane
        BY <1>3, <2>1 DEF SameKept
    <2> QED
        BY <1>6, <2>2 DEF SameKept, M, out
<1>9. /\ Shaped(R) /\ IsBook(R) /\ Coins(R) = Coins(L) /\ R.referrer = L.referrer
      /\ ~ Retires(id) => R = L
      /\ Retires(id) => /\ r \in DOMAIN R.rollback_topics /\ KeepsBelow(L, R, r)
                        /\ BringsTo(Core(L), Core(R), R.rollback_topics[r])
    BY <1>8, RetireBook
<1> HIDE DEF R
<1>10. Settled(R, N, txs)
    BY <1>1, <1>6, <1>7, <1>9 DEF Placed
<1>11. /\ Keeps(R, N) /\ Shaped(N) /\ IsBook(N) /\ Coins(N) = Coins(R) - n
       /\ miner \in DOMAIN N.referrer /\ UndoesTo(Core(R), Core(N), txs)
    BY <1>2, <1>9, <1>10 DEF Settled, Keeps
<1>12. n \in Nat /\ GetsReward(N) \in BOOLEAN
    <2>1. Reserve \in DOMAIN N.referrer \cup {Reserve} /\ BLOCK_REWARD \in Nat
        BY LedgerAssumption
    <2>2. N.balance[Reserve] \in Nat
        BY <1>11, <2>1 DEF IsBook
    <2> QED
        BY <2>1, <2>2, ListIs DEF Known, GetsReward
<1> HIDE DEF out, n, r, N
<1>13. Keeps(N, M) /\ IsBook(M) /\ Coins(M) = Coins(N) + n
    BY <1>3, <1>11, <1>12, MinerPaid
<1> HIDE DEF M
<1>14. Coins(M) = Coins(L)
    <2>1. Coins(R) \in Int /\ Coins(N) \in Int
        BY <1>9, <1>11, CoinsAre
    <2> QED
        BY <1>9, <1>11, <1>12, <1>13, <2>1
<1>15. Shaped(M) /\ M.rollback_topics = R.rollback_topics
    BY <1>11, <1>13 DEF Keeps
<1>16. /\ ~ Retires(id) => KeepsOnly(L, M)
       /\ Retires(id) => r \in DOMAIN M.rollback_topics
       /\ KeepsBelow(L, M, r)
    BY <1>9, <1>15 DEF KeepsOnly, KeepsBelow
<1>17. Link(Core(L), Core(M), id, miner, txs, out.rewarded, M.rollback_topics[r])
    <2> SUFFICES ASSUME NEW K, Shaped(K), Core(K) = Core(M),
                        ~ id <= LIFE + 1 =>
                            /\ r \in DOMAIN K.rollback_topics
                            /\ K.rollback_topics[r] = M.rollback_topics[r]
                 PROVE  LET B == UndoBlock(K, id, miner, txs, out.rewarded)
                        IN  Shaped(B) /\ Core(B) = Core(L) /\ KeepsOnly(K, B)
        BY DEF Link, r
    <2> DEFINE P == UnpayMiner(K, miner, n, out.rewarded)
               Q == UndoAll(P, txs)
               B == UndoBlock(K, id, miner, txs, out.rewarded)
    <2>1. B = Restore(Q, id)
        BY DEF UndoBlock, UndoTxs, n
    <2>2. Keeps(K, P) /\ Core(P) = Core(N)
        BY <1>3, <1>11, <1>12, MinerUndone
    <2> HIDE DEF P, B
    <2>3. Shaped(P) /\ Keeps(P, Q) /\ Core(Q) = Core(R)
        BY <1>11, <2>2 DEF Keeps, UndoesTo
    <2> HIDE DEF Q
    <2>4. Shaped(Q) /\ Q.rollback_topics = K.rollback_topics
        BY <2>2, <2>3 DEF Keeps
    <2>5. /\ id <= LIFE + 1 => Core(Q) = Core(L)
          /\ ~ id <= LIFE + 1 => /\ r \in DOMAIN Q.rollback_topics
                                 /\ BringsTo(Core(L), Core(Q), Q.rollback_topics[r])
        BY <1>1, <1>9, <1>15, <2>3, <2>4
    <2>6. /\ Shaped(B) /\ Core(B) = Core(L)
          /\ id <= LIFE + 1 => B.rollback_topics = Q.rollback_topics
          /\ ~ id <= LIFE + 1 => B.rollback_topics = Without(Q.rollback_topics, r)
        BY <2>1, <2>4, <2>5, RestoreBook DEF r
    <2>7. KeepsOnly(K, B)
        BY <2>4, <2>6 DEF KeepsOnly, Without
    <2> QED
        BY <2>6, <2>7 DEF B
<1> QED
    BY <1>3, <1>12, <1>13, <1>14, <1>15, <1>16, <1>17 DEF M, out, r

\* One that does not leaves the book of before, unless the process exits.
THEOREM BlockRefused ==
    ASSUME TypedBlocks, NEW L, Window(L), Shaped(L), IsBook(L),
           NEW id \in Nat, NEW miner, NEW txs, Known(txs), NEW old,
           ~ ApplyBlock(L, id, miner, txs, old).ok,
           ApplyBlock(L, id, miner, txs, old).ledger.sane
    PROVE  Unmoved(L, ApplyBlock(L, id, miner, txs, old).ledger)
<1> DEFINE R == Retire(L, id, old)
           s == ApplyAll(R, id, txs)
           U == UndoAll(s.ledger, s.done)
           out == ApplyBlock(L, id, miner, txs, old)
<1>1. CASE ~ Registered(L, miner)
    <2>1. out.ledger = L
        BY <1>1 DEF ApplyBlock
    <2> QED
        BY <2>1 DEF Unmoved, KeepsOnly
<1>2. CASE Registered(L, miner)
    <2>1. out.ledger = Restore(U, id)
        BY <1>2 DEF ApplyBlock
    <2>2. Window(R)
        BY RetireWindow
    <2>3. Applying(R, id, txs, Len(txs), s)
        BY <2>2, ApplyAllPlaces
    <2> HIDE DEF s
    <2>4. SameKept(R, U) /\ Wholly(R, U, id)
        BY <2>3, PlacedUndone DEF Applying
    <2> HIDE DEF U, out
    <2>5. R.sane
        <3>1. Window(U) /\ U.sane = R.sane
            BY <2>4 DEF SameKept
        <3>2. Restore(U, id).sane = U.sane
            BY <3>1, RestoreIs
        <3> QED
            BY <2>1, <3>1, <3>2 DEF out
    <2>6. Shaped(R) /\ IsBook(R)
        BY <2>5, RetireBook
    <2>7. Keeps(R, U) /\ Core(U) = Core(R)
        BY <2>4, <2>6 DEF Wholly
    <2>8. Unmoved(L, Restore(U, id))
        BY <2>5, <2>7, CoreRestored
    <2> QED
        BY <2>1, <2>8 DEF out
<1> QED
    BY <1>1, <1>2

-----------------------------------------------------------------------------
(* The main chain, as the contents c of its blocks by height, up to h.     *)

(***************************************************************************)
(* What makes TxOnce inductive: m_tx_map holds the blocks a transaction of *)
(* the next one may repeat, because both are near its block_id; and of the *)
(* blocks that retired, what was kept for rollback is all of them, so that *)
(* m_tx_map holds the right blocks again after one step back.              *)
(***************************************************************************)
Remembers(c, h, L) ==
    \A i \in 0 .. h : i + LIFE >= h => TxIds(c[i]) \subseteq L.tx_map

KeptForRollback(c, h, L) ==
    \A i \in DOMAIN L.rollback_txs :
        i \in Nat /\ i >= 1 /\ i + LIFE + 1 <= h /\ TxIds(c[i]) \subseteq L.rollback_txs[i]

NearHeight(c, h) ==
    \A i \in 0 .. h : \A k \in DOMAIN c[i] : InWindow(c[i][k], i)

OnceEach(c, h) ==
    \A i, j \in 0 .. h : \A k \in DOMAIN c[i], l \in DOMAIN c[j] :
        c[i][k].id = c[j][l].id => i = j /\ k = l

Recent(c, h, L) ==
    /\ h \in Nat /\ Window(L)
    /\ c[0] = <<>> /\ \A i \in 0 .. h : Known(c[i])
    /\ NearHeight(c, h) /\ OnceEach(c, h)
    /\ Remembers(c, h, L) /\ KeptForRollback(c, h, L)

\* A ledger that forgets nothing is as good.
LEMMA RecentKeeps ==
    ASSUME NEW c, NEW h, NEW L, NEW M, Recent(c, h, L), KeepsWindow(L, M)
    PROVE  Recent(c, h, M)
<1>1. Remembers(c, h, M)
    BY DEF Recent, Remembers, KeepsWindow
<1>2. KeptForRollback(c, h, M)
    BY DEF Recent, KeptForRollback, KeepsWindow
<1> QED
    BY <1>1, <1>2 DEF Recent, KeepsWindow

\* The transactions of txs are those of no other block but by their id.
SameById(c, h, txs) ==
    /\ \A k \in DOMAIN txs : txs[k].bid \in Nat
    /\ \A i \in 0 .. h : \A k \in DOMAIN c[i], l \in DOMAIN txs :
          c[i][k].id = txs[l].id => c[i][k] = txs[l]

\* A block that verifies repeats no transaction of the chain below it: one
\* it could repeat is of a block that m_tx_map still holds.
LEMMA NewToChain ==
    ASSUME NEW c, NEW h, NEW L, Recent(c, h, L),
           NEW txs, SameById(c, h, txs), NEW R, Fresh(R, txs, h + 1),
           \A i \in 0 .. h : i + LIFE >= h + 1 => TxIds(c[i]) \subseteq R.tx_map,
           NEW i \in 0 .. h, NEW k \in DOMAIN c[i], NEW l \in DOMAIN txs
    PROVE  c[i][k].id # txs[l].id
<1> SUFFICES ASSUME c[i][k].id = txs[l].id PROVE FALSE
    OBVIOUS
<1> DEFINE x == txs[l]
<1>1. LIFE \in Nat /\ WINDOW \in Nat /\ 2 * WINDOW <= LIFE
    BY LedgerAssumption
<1>2. c[i][k] = x /\ x.bid \in Nat /\ h \in Nat /\ i \in Nat
    BY DEF SameById, Recent
<1>3. InWindow(c[i][k], i) /\ InWindow(txs[l], h + 1) /\ x.id \notin R.tx_map
    BY DEF Recent, NearHeight, Fresh
<1>4. x.bid <= i + WINDOW /\ x.bid + WINDOW >= h + 1
    BY <1>2, <1>3 DEF InWindow
<1>5. i + LIFE >= h + 1
    BY <1>1, <1>2, <1>4
<1>6. c[i][k].id \in TxIds(c[i])
    BY DEF TxIds
<1> QED
    BY <1>2, <1>3, <1>5, <1>6

\* The main chain grows by a block that verifies.
LEMMA RecentGrows ==
    ASSUME NEW c, NEW h, NEW L, Recent(c, h, L), NEW miner,
           NEW txs, Known(txs), SameById(c, h, txs), NEW old,
           old = IF Retires(h + 1) THEN TxIds(c[Index(h + 1)]) ELSE {},
           ApplyBlock(L, h + 1, miner, txs, old).ok,
           NEW d, \A i \in 0 .. h : d[i] = c[i], d[h + 1] = txs
    PROVE  Recent(d, h + 1, ApplyBlock(L, h + 1, miner, txs, old).ledger)
<1> DEFINE R == Retire(L, h + 1, old)
           M == ApplyBlock(L, h + 1, miner, txs, old).ledger
           g == h + 1 - (2 * LIFE + 1)
           r == Index(h + 1)
<1>1. h \in Nat /\ h + 1 \in Nat /\ Window(L) /\ LIFE \in Nat /\ 0 \in 0 .. h
      /\ \A i \in 0 .. h + 1 : i \in 0 .. h \/ i = h + 1
    BY LedgerAssumption DEF Recent
<1>2. /\ SameKept(R, M) /\ Fresh(R, txs, h + 1)
      /\ M.tx_map = R.tx_map \cup TxIds(txs)
    BY <1>1, ApplyBlockIs
<1>3. r = h - LIFE /\ (Retires(h + 1) => r \in 0 .. h /\ r >= 1)
    BY <1>1 DEF Index, Retires
<1>4. ~ Retires(h + 1) => R = L
    BY <1>1, RetireIs
<1>5. Retires(h + 1) =>
        /\ R.tx_map = L.tx_map \ TxIds(c[r])
        /\ R.rollback_txs = With(Without(L.rollback_txs, g), r, TxIds(c[r]))
    BY <1>1, RetireIs
<1> HIDE DEF R, M, g, r
<1>6. ASSUME NEW i \in 0 .. h, i + LIFE >= h + 1 PROVE TxIds(c[i]) \subseteq R.tx_map
    <2>1. TxIds(c[i]) \subseteq L.tx_map
        BY <1>1, <1>6 DEF Recent, Remembers
    <2>2. CASE Retires(h + 1)
        <3>1. i # r /\ r \in 0 .. h
            BY <1>1, <1>3, <1>6, <2>2
        <3>2. \A k \in DOMAIN c[i], l \in DOMAIN c[r] : c[i][k].id # c[r][l].id
            BY <3>1 DEF Recent, OnceEach
        <3>3. TxIds(c[i]) \cap TxIds(c[r]) = {}
            BY <3>2 DEF TxIds
        <3> QED
            BY <1>5, <2>1, <2>2, <3>3
    <2> QED
        BY <1>4, <2>1, <2>2
<1>7. ASSUME NEW i \in 0 .. h, NEW k \in DOMAIN c[i], NEW l \in DOMAIN txs
      PROVE  c[i][k].id # txs[l].id
    BY <1>2, <1>6, NewToChain
<1>8. NearHeight(d, h + 1)
    BY <1>1, <1>2 DEF Recent, NearHeight, Fresh
<1>9. OnceEach(d, h + 1)
    <2> SUFFICES ASSUME NEW i \in 0 .. h + 1, NEW j \in 0 .. h + 1,
                        NEW k \in DOMAIN d[i], NEW l \in DOMAIN d[j], d[i][k].id = d[j][l].id
                 PROVE  i = j /\ k = l
        BY DEF OnceEach
    <2>1. CASE i \in 0 .. h /\ j \in 0 .. h
        BY <2>1 DEF Recent, OnceEach
    <2>2. CASE i \in 0 .. h /\ j = h + 1
        BY <1>7, <2>2
    <2>3. CASE i = h + 1 /\ j \in 0 .. h
        BY <1>7, <2>3
    <2>4. CASE i = h + 1 /\ j = h + 1
        BY <1>2, <2>4 DEF Fresh
    <2> QED
        BY <1>1, <2>1, <2>2, <2>3, <2>4
<1>10. Remembers(d, h + 1, M)
    <2> SUFFICES ASSUME NEW i \in 0 .. h + 1, i + LIFE >= h + 1
                 PROVE  TxIds(d[i]) \subseteq M.tx_map
        BY DEF Remembers
    <2>1. CASE i \in 0 .. h
        BY <1>2, <1>6, <2>1
    <2>2. CASE i = h + 1
        BY <1>2, <2>2
    <2> QED
        BY <1>1, <2>1, <2>2
<1>11. KeptForRollback(d, h + 1, M)
    <2>1. M.rollback_txs = R.rollback_txs
        BY <1>2 DEF SameKept
    <2>2. ASSUME NEW i \in DOMAIN L.rollback_txs
          PROVE  /\ i \in Nat /\ i >= 1 /\ i + LIFE + 1 <= h /\ i \in 0 .. h
                 /\ TxIds(d[i]) \subseteq L.rollback_txs[i]
        <3>1. i \in Nat /\ i >= 1 /\ i + LIFE + 1 <= h /\ TxIds(c[i]) \subseteq L.rollback_txs[i]
            BY DEF Recent, KeptForRollback
        <3>2. i \in 0 .. h
            BY <1>1, <3>1
        <3> QED
            BY <3>1, <3>2
    <2>3. CASE Retires(h + 1)
        <3>1. DOMAIN M.rollback_txs \subseteq DOMAIN L.rollback_txs \cup {r}
              /\ M.rollback_txs[r] = TxIds(c[r])
              /\ \A i \in DOMAIN M.rollback_txs \ {r} : M.rollback_txs[i] = L.rollback_txs[i]
            BY <1>5, <2>1, <2>3 DEF With, Without
        <3>2. r \in Nat /\ r >= 1 /\ r + LIFE + 1 <= h + 1 /\ d[r] = c[r]
            BY <1>1, <1>3, <2>3
        <3>3. ASSUME NEW i \in DOMAIN M.rollback_txs
              PROVE  i \in Nat /\ i >= 1 /\ i + LIFE + 1 <= h + 1
                     /\ TxIds(d[i]) \subseteq M.rollback_txs[i]
            <4>1. CASE i = r
                BY <3>1, <3>2, <4>1
            <4>2. CASE i # r
                <5>1. i \in DOMAIN L.rollback_txs /\ M.rollback_txs[i] = L.rollback_txs[i]
                    BY <3>1, <4>2
                <5> QED
                    BY <1>1, <2>2, <5>1
            <4> QED
                BY <4>1, <4>2
        <3> QED
            BY <3>3 DEF KeptForRollback
    <2>4. CASE ~ Retires(h + 1)
        <3>1. M.rollback_txs = L.rollback_txs
            BY <1>4, <2>1, <2>4
        <3> QED
            BY <1>1, <2>2, <3>1 DEF KeptForRollback
    <2> QED
        BY <2>3, <2>4
<1>12. d[0] = <<>> /\ \A i \in 0 .. h + 1 : Known(d[i])
    BY <1>1 DEF Recent
<1>13. Window(M)
    BY <1>2 DEF SameKept
<1> QED
    BY <1>1, <1>8, <1>9, <1>10, <1>11, <1>12, <1>13 DEF Recent, M

\* The main chain shrinks by one turn of the fast loop of rollback.
LEMMA RecentShrinks ==
    ASSUME NEW c, NEW h, NEW L, Recent(c, h, L), h # 0, CanUndoFast(L, h),
           NEW miner, NEW rewarded,
           NEW d, \A i \in 0 .. h - 1 : d[i] = c[i]
    PROVE  Recent(d, h - 1, UndoBlock(L, h, miner, c[h], rewarded))
<1> DEFINE U == UndoTxs(L, miner, c[h], rewarded)
           M == UndoBlock(L, h, miner, c[h], rewarded)
           r == Index(h)
<1>1. /\ h \in Nat /\ h - 1 \in Nat /\ Window(L) /\ LIFE \in Nat
      /\ 0 \in 0 .. h - 1 /\ h \in 0 .. h /\ \A i \in 0 .. h - 1 : i \in 0 .. h /\ i # h
    BY LedgerAssumption DEF Recent
<1>2. SameKept(L, U) /\ U.tx_map = L.tx_map \ TxIds(c[h])
    BY <1>1, UndoTxsIs DEF Recent
<1>3. M = Restore(U, h)
    BY DEF UndoBlock
<1>4. h <= LIFE + 1 => M = U
    BY <1>2, <1>3, RestoreIs DEF SameKept
<1>5. ~ h <= LIFE + 1 =>
        /\ Window(M) /\ M.tx_map = U.tx_map \cup Kept(U.rollback_txs, r, {})
        /\ M.rollback_txs = Without(U.rollback_txs, r)
    BY <1>2, <1>3, RestoreIs DEF SameKept
<1>6. r = h - (LIFE + 1)
    BY DEF Index
<1> HIDE DEF U, M, r
<1>7. U.rollback_txs = L.rollback_txs
    BY <1>2 DEF SameKept
<1>8. Window(M) /\ U.tx_map \subseteq M.tx_map
    BY <1>2, <1>4, <1>5 DEF SameKept
<1>9. Remembers(d, h - 1, M)
    <2> SUFFICES ASSUME NEW i \in 0 .. h - 1, i + LIFE >= h - 1
                 PROVE  TxIds(c[i]) \subseteq M.tx_map
        BY DEF Remembers
    <2>1. CASE i + LIFE >= h
        <3>1. TxIds(c[i]) \subseteq L.tx_map
            BY <1>1, <2>1 DEF Recent, Remembers
        <3>2. \A k \in DOMAIN c[i], l \in DOMAIN c[h] : c[i][k].id # c[h][l].id
            BY <1>1 DEF Recent, OnceEach
        <3>3. TxIds(c[i]) \cap TxIds(c[h]) = {}
            BY <3>2 DEF TxIds
        <3> QED
            BY <1>2, <1>8, <3>1, <3>3
    <2>2. CASE ~ i + LIFE >= h
        <3>1. i = r
            BY <1>1, <1>6, <2>2
        <3>2. CASE h <= LIFE + 1
            <4>1. i = 0
                BY <1>1, <1>6, <3>1, <3>2
            <4>2. TxIds(c[i]) = {}
                BY <4>1 DEF Recent, TxIds
            <4> QED
                BY <4>2
        <3>3. CASE ~ h <= LIFE + 1
            <4>1. r \in DOMAIN L.rollback_topics
                BY <1>1, <3>3 DEF CanUndoFast, r
            <4>2. r \in DOMAIN L.rollback_txs /\ TxIds(c[r]) \subseteq L.rollback_txs[r]
                BY <1>1, <4>1 DEF Recent, KeptForRollback, Window
            <4>3. Kept(U.rollback_txs, r, {}) = L.rollback_txs[r]
                BY <1>7, <4>2 DEF Kept
            <4> QED
                BY <1>5, <3>1, <3>3, <4>2, <4>3
        <3> QED
            BY <3>2, <3>3
    <2> QED
        BY <2>1, <2>2
<1>10. KeptForRollback(d, h - 1, M)
    <2> SUFFICES ASSUME NEW i \in DOMAIN M.rollback_txs
                 PROVE  i \in Nat /\ i >= 1 /\ i + LIFE + 1 <= h - 1
                        /\ TxIds(d[i]) \subseteq M.rollback_txs[i]
        BY DEF KeptForRollback
    <2>1. i \in DOMAIN L.rollback_txs /\ M.rollback_txs[i] = L.rollback_txs[i]
          /\ (~ h <= LIFE + 1 => i # r)
        <3>1. CASE h <= LIFE + 1
            BY <1>4, <1>7, <3>1
        <3>2. CASE ~ h <= LIFE + 1
            BY <1>5, <1>7, <3>2 DEF Without
        <3> QED
            BY <3>1, <3>2
    <2>2. i \in Nat /\ i >= 1 /\ i + LIFE + 1 <= h /\ TxIds(c[i]) \subseteq L.rollback_txs[i]
        BY <2>1 DEF Recent, KeptForRollback
    <2>3. i # r
        BY <1>1, <2>1, <2>2
    <2>4. i + LIFE + 1 <= h - 1
        BY <1>1, <1>6, <2>2, <2>3
    <2>5. i \in 0 .. h - 1
        BY <1>1, <2>2, <2>4
    <2> QED
        BY <2>1, <2>2, <2>4, <2>5
<1>11. NearHeight(d, h - 1)
    BY <1>1 DEF Recent, NearHeight
<1>12. OnceEach(d, h - 1)
    BY <1>1 DEF Recent, OnceEach
<1>13. d[0] = <<>> /\ \A i \in 0 .. h - 1 : Known(d[i])
    BY <1>1 DEF Recent
<1> QED
    BY <1>1, <1>8, <1>9, <1>10, <1>11, <1>12, <1>13 DEF Recent, M

-----------------------------------------------------------------------------
(* The steps of Chain.                                                     *)

\* The transactions on the main chain, by height.
Content == [i \in DOMAIN m_block_by_id |-> Txs[m_block_by_id[i]]]

\* The inductive invariant behind TxOnce.
OnceInv == TreeInv /\ Recent(Content, Id[m_cur_block], ledger)

\* The transactions of a block are a sequence of transactions.
LEMMA TxsAreKnown == ASSUME NEW b \in Block PROVE Known(Txs[b])
BY ChainAssumption DEF Known, IsList, Types, Valid, TypedBlocks

\* The main chain has a block at each height.
LEMMA ContentIs ==
    ASSUME TreeInv
    PROVE  /\ Id[m_cur_block] \in Nat /\ DOMAIN m_block_by_id = 0 .. Id[m_cur_block]
           /\ \A i \in 0 .. Id[m_cur_block] :
                m_block_by_id[i] \in Block /\ Content[i] = Txs[m_block_by_id[i]]
BY BlockAssumption DEF TreeInv, TypeOK, MainChainIsPath, Content

\* Initially, and after a crash, there is genesis and its ledger.
LEMMA GenesisRecent ==
    ASSUME NEW c, DOMAIN c = {0}, c[0] = <<>>
    PROVE  Recent(c, 0, GenesisLedger)
<1> DEFINE L == GenesisLedger
<1>1. /\ {"tx_map", "topic_list", "rollback_topics", "rollback_txs", "sane"} \subseteq DOMAIN L
      /\ L.topic_list = <<>> /\ L.rollback_topics = <<>> /\ L.rollback_txs = <<>>
    BY DEF GenesisLedger
<1> HIDE DEF L
<1>2. IsList(<<>>) /\ DOMAIN <<>> = {} /\ Known(<<>>) /\ TxIds(<<>>) = {}
    BY DEF IsList, Known, TxIds
<1>3. Window(L)
    BY <1>1, <1>2 DEF Window
<1>4. 0 .. 0 = {0} /\ 0 \in Nat
    OBVIOUS
<1> QED
    BY <1>1, <1>2, <1>3, <1>4
       DEF Recent, NearHeight, OnceEach, Remembers, KeptForRollback, L

\* A block that verifies is put on the main chain.
LEMMA GrowStep ==
    ASSUME OnceInv, NEW x \in Block, x # Genesis, Parent[x] = m_cur_block,
           m_cur_block' = x, m_block_by_id' = Insert(m_block_by_id, Id[x], x),
           Verifies(x), TakeOutcome(x)
    PROVE  Recent(Content, Id[m_cur_block], ledger)'
<1> DEFINE h == Id[m_cur_block]
           c == Content
           d == Content'
<1>1. /\ h \in Nat /\ DOMAIN m_block_by_id = 0 .. h /\ m_cur_block \in Block
      /\ \A i \in 0 .. h : m_block_by_id[i] \in Block /\ c[i] = Txs[m_block_by_id[i]]
    BY ContentIs DEF OnceInv, TreeInv, TypeOK
<1>2. Id[x] = h + 1
    BY TreeAssumption
<1>3. h + 1 \notin 0 .. h
    BY <1>1
<1>4. (\A i \in 0 .. h : d[i] = c[i]) /\ d[h + 1] = Txs[x]
    BY <1>1, <1>2, <1>3 DEF Content, Insert
<1>5. Recent(c, h, ledger)
    BY DEF OnceInv
<1>6. Retiring(x) = IF Retires(h + 1) THEN TxIds(c[Index(h + 1)]) ELSE {}
    <2>1. ASSUME Retires(h + 1) PROVE Index(h + 1) \in 0 .. h
        BY <1>1, <2>1, LedgerAssumption DEF Retires, Index
    <2> QED
        BY <1>1, <1>2, <2>1 DEF Retiring
<1>7. SameById(c, h, Txs[x])
    BY <1>1, ChainAssumption DEF SameById
<1>8. /\ ApplyBlock(ledger, h + 1, Miner[x], Txs[x], Retiring(x)).ok
      /\ ledger' = ApplyBlock(ledger, h + 1, Miner[x], Txs[x], Retiring(x)).ledger
    BY <1>2 DEF Verifies, TakeOutcome, Outcome
<1>9. Known(Txs[x])
    BY TxsAreKnown
<1> HIDE DEF c, d, h
<1>10. Recent(d, h + 1, ledger')
    BY <1>4, <1>5, <1>6, <1>7, <1>8, <1>9, RecentGrows
<1> QED
    BY <1>2, <1>10 DEF d

\* A turn of the fast loop of rollback.
LEMMA ShrinkStep ==
    ASSUME OnceInv, FastRollback
    PROVE  Recent(Content, Id[m_cur_block], ledger)'
<1> DEFINE h == Id[m_cur_block]
           c == Content
           d == Content'
<1>1. /\ h \in Nat /\ DOMAIN m_block_by_id = 0 .. h /\ m_cur_block \in Block
      /\ \A i \in 0 .. h : m_block_by_id[i] \in Block /\ c[i] = Txs[m_block_by_id[i]]
    BY ContentIs DEF OnceInv, TreeInv, TypeOK
<1>2. /\ m_cur_block # Genesis /\ m_cur_block' = Parent[m_cur_block]
      /\ m_block_by_id' = Erase(m_block_by_id, h) /\ CanUndoFast(ledger, h)
      /\ ledger' = UndoBlock(ledger, h, Miner[m_cur_block], Txs[m_cur_block],
                             m_cur_block \in m_miner_reward)
    BY DEF FastRollback, Rollback
<1>3. Id[m_cur_block'] = h - 1 /\ h # 0
    <2>1. Id[m_cur_block] = Id[Parent[m_cur_block]] + 1 /\ Id[Parent[m_cur_block]] \in Nat
        BY <1>1, <1>2, BlockAssumption, TreeAssumption
    <2> QED
        BY <1>2, <2>1
<1>4. \A i \in 0 .. h - 1 : d[i] = c[i]
    <2>1. \A i \in 0 .. h - 1 : i \in 0 .. h /\ i # h
        BY <1>1
    <2> QED
        BY <1>1, <1>2, <2>1 DEF Content, Erase
<1>5. c[h] = Txs[m_cur_block]
    <2>1. m_block_by_id[h] = m_cur_block /\ h \in 0 .. h
        BY <1>1 DEF OnceInv, TreeInv, MainChainIsPath
    <2> QED
        BY <1>1, <2>1
<1>6. Recent(c, h, ledger)
    BY DEF OnceInv
<1> HIDE DEF c, d, h
<1>7. Recent(d, h - 1, ledger')
    BY <1>2, <1>3, <1>4, <1>5, <1>6, RecentShrinks
<1> QED
    BY <1>3, <1>7 DEF d

\* A step that leaves the main chain alone and forgets nothing.
LEMMA StayStep ==
    ASSUME OnceInv, UNCHANGED <<m_cur_block, m_block_by_id>>, KeepsWindow(ledger, ledger')
    PROVE  Recent(Content, Id[m_cur_block], ledger)'
<1>1. Recent(Content, Id[m_cur_block], ledger')
    BY RecentKeeps DEF OnceInv
<1>2. Content' = Content
    BY DEF Content
<1> QED
    BY <1>1, <1>2

\* And one that leaves the ledger alone too.
LEMMA SameStep ==
    ASSUME OnceInv, UNCHANGED <<m_cur_block, m_block_by_id, ledger>>
    PROVE  Recent(Content, Id[m_cur_block], ledger)'
<1>1. KeepsWindow(ledger, ledger')
    BY DEF OnceInv, Recent, KeepsWindow
<1> QED
    BY <1>1, StayStep

\* One step per action. The slow loop of rollback is never entered.
LEMMA NextOnce == OnceInv /\ slow = <<>> /\ [ChainNext]_chainVars => OnceInv'
<1> SUFFICES ASSUME OnceInv, slow = <<>>, [ChainNext]_chainVars
             PROVE  Recent(Content, Id[m_cur_block], ledger)'
    BY ChainKeepsTree DEF OnceInv
<1> DEFINE Fits == Recent(Content, Id[m_cur_block], ledger)'
           Stays == UNCHANGED <<m_cur_block, m_block_by_id, ledger>>
<1>1. ASSUME FastRollback PROVE Fits
    BY <1>1, ShrinkStep
<1>2. ASSUME RebuildSaved PROVE Stays
    BY <1>2 DEF RebuildSaved, vars, memory
<1>3. ~ SlowRollback
    BY DEF SlowRollback
<1>4. ASSUME ChainAfterDetail \/ ChainArrive PROVE Stays
    BY <1>4 DEF ChainAfterDetail, ChainArrive, AfterDetail, Arrive, memory, ledgerVars
<1>5. ASSUME NEW x \in Block, ChainReapply(x) PROVE Fits
    <2>1. /\ x # Genesis /\ Parent[x] = m_cur_block /\ m_cur_block' = x
          /\ m_block_by_id' = Insert(m_block_by_id, Id[x], x)
          /\ Verifies(x) /\ TakeOutcome(x)
        BY <1>5 DEF ChainReapply, Reapply, OnPath
    <2> QED
        BY <2>1, GrowStep
<1>6. ASSUME NEW x \in Block, ReapplyFails(x) \/ RetireFails(x) PROVE Stays
    BY <1>6 DEF ReapplyFails, RetireFails, Exit, memory, ledgerVars
<1>7. ASSUME NEW x \in Block, ChainAccept(x) PROVE Fits
    <2>1. /\ x # Genesis /\ Parent[x] = m_cur_block /\ m_cur_block' = x
          /\ m_block_by_id' = Insert(m_block_by_id, Id[x], x)
          /\ Verifies(x) /\ TakeOutcome(x)
        BY <1>7 DEF ChainAccept, Accept, OnPath, AddBlock
    <2> QED
        BY <2>1, GrowStep
<1>8. ASSUME NEW x \in Block, ChainReject(x) PROVE Fits
    <2>1. /\ UNCHANGED <<m_cur_block, m_block_by_id>>
          /\ ~ ApplyBlock(ledger, Id[x], Miner[x], Txs[x], Retiring(x)).ok
          /\ ledger' = ApplyBlock(ledger, Id[x], Miner[x], Txs[x], Retiring(x)).ledger
        BY <1>8 DEF ChainReject, Reject, memory, Outcome
    <2>2. Window(ledger) /\ Id[x] \in Nat /\ Known(Txs[x])
        BY BlockAssumption, TxsAreKnown DEF OnceInv, Recent
    <2>3. KeepsWindow(ledger, ledger')
        BY <2>1, <2>2, ApplyBlockIs
    <2> QED
        BY <2>1, <2>3, StayStep
<1>9. ASSUME NEW b \in Block, ChainBeginDetail(b) \/ ChainStart(b) PROVE Stays
    BY <1>9 DEF ChainBeginDetail, ChainStart, BeginDetail, Start, memory, ledgerVars
<1>10. ASSUME NEW b \in Block, MineTx(b) PROVE Fits
    <2> DEFINE id == Id[m_cur_block] + 1
               old == IF Retires(id) THEN TxIds(Txs[m_block_by_id[Index(id)]]) ELSE {}
               t == Trial(ledger, id, Txs[b], old)
    <2>1. (ledger' = t.ledger /\ UNCHANGED vars) \/ Exit
        BY <1>10 DEF MineTx
    <2>2. CASE Exit
        <3>1. Stays
            BY <2>2 DEF Exit, memory, ledgerVars
        <3> QED
            BY <3>1, SameStep
    <2>3. CASE ledger' = t.ledger /\ UNCHANGED vars
        <3>1. Window(ledger) /\ id \in Nat /\ Known(Txs[b])
            BY TxsAreKnown DEF OnceInv, Recent
        <3> HIDE DEF id, old
        <3>2. KeepsWindow(ledger, ledger')
            BY <2>3, <3>1, TrialKeeps
        <3>3. UNCHANGED <<m_cur_block, m_block_by_id>>
            BY <2>3 DEF vars, memory
        <3> QED
            BY <3>2, <3>3, StayStep
    <2> QED
        BY <2>1, <2>2, <2>3
<1>11. ASSUME NEW b \in Block, ChainMinedNewBlock(b) PROVE Fits
    <2>1. (MinedNewBlock(b) /\ Verifies(b) /\ TakeOutcome(b)) \/ Exit
        BY <1>11 DEF ChainMinedNewBlock
    <2>2. CASE Exit
        <3>1. Stays
            BY <2>2 DEF Exit, memory, ledgerVars
        <3> QED
            BY <3>1, SameStep
    <2>3. CASE MinedNewBlock(b) /\ Verifies(b) /\ TakeOutcome(b)
        <3>1. /\ b # Genesis /\ Parent[b] = m_cur_block /\ m_cur_block' = b
              /\ m_block_by_id' = Insert(m_block_by_id, Id[b], b)
            BY <2>3 DEF MinedNewBlock, AddBlock
        <3> QED
            BY <2>3, <3>1, GrowStep
    <2> QED
        BY <2>1, <2>2, <2>3
<1>12. ASSUME ChainCrash PROVE Fits
    <2>1. /\ m_cur_block' = Genesis /\ m_block_by_id' = [i \in {0} |-> Genesis]
          /\ ledger' = GenesisLedger
        BY <1>12 DEF ChainCrash, Crash
    <2>2. DOMAIN Content' = {0} /\ Content'[0] = <<>>
        BY <2>1, ChainAssumption DEF Content
    <2>3. Id[m_cur_block'] = 0
        BY <2>1, TreeAssumption
    <2>4. Recent(Content', 0, GenesisLedger)
        BY <2>2, GenesisRecent
    <2> QED
        BY <2>1, <2>3, <2>4
<1>13. CASE UNCHANGED chainVars
    BY <1>13, SameStep DEF chainVars, vars, memory, ledgerVars
<1>14. Stays => Fits
    BY SameStep
<1> HIDE DEF Fits, Stays
<1>15. ASSUME ChainWork PROVE Fits
    <2>1. ASSUME NEW x \in Block, \/ ChainReapply(x) \/ ReapplyFails(x)
                                   \/ ChainAccept(x) \/ ChainReject(x) \/ RetireFails(x)
          PROVE  Fits
        BY <1>5, <1>6, <1>7, <1>8, <1>14, <2>1
    <2> QED
        BY <1>1, <1>2, <1>3, <1>4, <1>14, <1>15, <2>1 DEF ChainWork
<1>16. ASSUME NEW b \in Block, \/ ChainBeginDetail(b) \/ MineTx(b)
                                \/ ChainMinedNewBlock(b) \/ ChainStart(b)
       PROVE  Fits
    BY <1>9, <1>10, <1>11, <1>14, <1>16
<1>17. ASSUME ChainNext PROVE Fits
    BY <1>12, <1>15, <1>16, <1>17 DEF ChainNext
<1> QED
    BY <1>13, <1>17 DEF Fits

-----------------------------------------------------------------------------
\* As long as rollback stays in its fast loop, the window of the ledger fits
\* the main chain.
THEOREM OnceInvariance == ChainSpec /\ [](slow = <<>>) => []OnceInv
<1>1. ChainInit => OnceInv
    <2> SUFFICES ASSUME ChainInit PROVE OnceInv
        OBVIOUS
    <2>1. TreeInv /\ m_cur_block = Genesis /\ m_block_by_id = [i \in {0} |-> Genesis]
          /\ ledger = GenesisLedger
        BY InitTreeInv DEF ChainInit, Init
    <2>2. DOMAIN Content = {0} /\ Content[0] = <<>>
        BY <2>1, ChainAssumption DEF Content
    <2>3. Recent(Content, 0, GenesisLedger)
        BY <2>2, GenesisRecent
    <2> QED
        BY <2>1, <2>3, TreeAssumption DEF OnceInv
<1>2. OnceInv /\ slow = <<>> /\ [ChainNext]_chainVars => OnceInv'
    BY NextOnce
<1> QED
    BY <1>1, <1>2, PTL DEF ChainSpec

\* A transaction is in one block of the main chain at most, and once in it,
\* over rejected blocks, trials of mine_tx, fast rollbacks and restarts, for
\* every LIFE and WINDOW of the ledger: what m_tx_map has forgotten is too old
\* to come again. (Its slow loop may forget more: run slow_rollback.)
THEOREM AlwaysTxOnce == ChainSpec /\ [](slow = <<>>) => []TxOnce
<1>1. OnceInv => TxOnce
    <2> SUFFICES ASSUME OnceInv, NEW x \in m_in_main_chain, NEW y \in m_in_main_chain,
                        NEW k \in DOMAIN Txs[x], NEW l \in DOMAIN Txs[y],
                        Txs[x][k].id = Txs[y][l].id
                 PROVE  x = y /\ k = l
        BY DEF TxOnce
    <2> DEFINE h == Id[m_cur_block]
    <2>1. /\ m_block_by_id[Id[x]] = x /\ Id[x] \in 0 .. h
          /\ m_block_by_id[Id[y]] = y /\ Id[y] \in 0 .. h
        BY DEF OnceInv, TreeInv, MainChainIsPath
    <2>2. Content[Id[x]] = Txs[x] /\ Content[Id[y]] = Txs[y]
        BY <2>1, ContentIs DEF OnceInv
    <2>3. OnceEach(Content, h)
        BY DEF OnceInv, Recent
    <2>4. Id[x] = Id[y] /\ k = l
        BY <2>1, <2>2, <2>3 DEF OnceEach
    <2> QED
        BY <2>1, <2>4
<1> QED
    BY <1>1, OnceInvariance, PTL

\* What block x is to retire is in the window: proc_tx_map, and with it the
\* process, does not fail over a transaction that it misses, unless the slow
\* loop of rollback lost it (run slow_rollback).
RetiredIsRemembered ==
    \A x \in Block : x # Genesis /\ Parent[x] = m_cur_block => Retiring(x) \subseteq ledger.tx_map

\* The exits for what proc_tx_map returns are not reached otherwise: what
\* retires with the next block, whichever it is, is what m_tx_map holds.
THEOREM ProcTxMapNeverFails == ChainSpec /\ [](slow = <<>>) => []RetiredIsRemembered
<1>1. OnceInv => RetiredIsRemembered
    <2> SUFFICES ASSUME OnceInv, NEW x \in Block, x # Genesis, Parent[x] = m_cur_block
                 PROVE  Retiring(x) \subseteq ledger.tx_map
        BY DEF RetiredIsRemembered
    <2> DEFINE h == Id[m_cur_block]
               r == Index(Id[x])
    <2>1. h \in Nat /\ Id[x] = h + 1 /\ LIFE \in Nat
        BY ContentIs, TreeAssumption, LedgerAssumption DEF OnceInv
    <2>2. CASE Retires(Id[x])
        <3>1. r \in 0 .. h /\ r + LIFE >= h
            BY <2>1, <2>2 DEF Retires, Index
        <3>2. TxIds(Content[r]) \subseteq ledger.tx_map
            BY <3>1 DEF OnceInv, Recent, Remembers
        <3>3. Retiring(x) = TxIds(Content[r])
            BY <2>2, <3>1, ContentIs DEF OnceInv, Retiring
        <3> QED
            BY <3>2, <3>3
    <2>3. CASE ~ Retires(Id[x])
        BY <2>3 DEF Retiring
    <2> QED
        BY <2>2, <2>3
<1> QED
    BY <1>1, OnceInvariance, PTL
-----------------------------------------------------------------------------
(* The books of the main chain.                                            *)

(***************************************************************************)
(* That rollback leaves a book cannot be seen from the ledger it starts    *)
(* from: it takes back what was done long ago, on the word of the block.   *)
(* What makes it inductive is the past of the main chain: the core H[i] of *)
(* the ledger at each height i, and the topics S[i] that block i retired.  *)
(* Undoing block i leads from H[i] to H[i - 1], whatever else the ledger   *)
(* holds, and what is kept for rollback is what was retired.               *)
(***************************************************************************)
Books(H, h) == \A i \in 0 .. h : Shaped(H[i]) /\ IsBook(H[i]) /\ Coins(H[i]) = TOTAL

Linked(H, S, h, path, paid) ==
    \A i \in 1 .. h : Link(H[i - 1], H[i], i, Miner[path[i]], Txs[path[i]], path[i] \in paid, S[i])

SavedIs(S, L) ==
    \A j \in DOMAIN L.rollback_topics : L.rollback_topics[j] = S[j + LIFE + 1]

\* L is the ledger at height h of the main chain path, whose blocks in paid
\* have the flag of the reward.
Backed(path, paid, h, L) ==
    /\ Shaped(L) /\ \A i \in 0 .. h : Id[path[i]] = i
    /\ \E H, S : /\ Books(H, h) /\ H[h] = Core(L)
                 /\ Linked(H, S, h, path, paid) /\ SavedIs(S, L)

\* It is a book of all coins.
LEMMA BackedIsBook ==
    ASSUME NEW path, NEW paid, NEW h \in Nat, NEW L, Backed(path, paid, h, L)
    PROVE  Shaped(L) /\ IsBook(L) /\ Coins(L) = TOTAL
<1>1. PICK H : Books(H, h) /\ H[h] = Core(L)
    BY DEF Backed
<1>2. h \in 0 .. h
    OBVIOUS
<1>3. IsBook(Core(L)) /\ Coins(Core(L)) = TOTAL
    BY <1>1, <1>2 DEF Books
<1> QED
    BY <1>3, CoreIs, BookAlike DEF Backed

\* It may be replaced by one that holds the same accounts and topics.
LEMMA BackedStays ==
    ASSUME NEW path, NEW paid, NEW h, NEW L, Backed(path, paid, h, L), NEW M, Unmoved(L, M)
    PROVE  Backed(path, paid, h, M)
<1>1. PICK H, S : /\ Books(H, h) /\ H[h] = Core(L)
                  /\ Linked(H, S, h, path, paid) /\ SavedIs(S, L)
    BY DEF Backed
<1>2. SavedIs(S, M)
    BY <1>1 DEF SavedIs, Unmoved, KeepsOnly
<1> QED
    BY <1>1, <1>2 DEF Backed, Unmoved

\* Nothing is kept of blocks that are still in the window.
KeptBelow(L, h) == \A j \in DOMAIN L.rollback_topics : j \in Nat /\ j + LIFE + 1 <= h

\* The path p is path, of height g - 1, and x.
Prolongs(p, path, g, x) ==
    (\A i \in 0 .. g - 1 : p[i] = path[i]) /\ p[g] = x /\ Id[x] = g

\* The blocks in q are those in paid, and x if it is.
Flagged(q, paid, x, is) == q = IF is THEN paid \cup {x} ELSE paid \ {x}

\* A block that verifies is put on top.
LEMMA BackedGrows ==
    ASSUME TypedBlocks, NEW path, NEW paid, NEW h \in Nat, NEW g, g = h + 1,
           NEW L, Backed(path, paid, h, L), Window(L), KeptBelow(L, h),
           NEW x, Known(Txs[x]), NEW old,
           ApplyBlock(L, g, Miner[x], Txs[x], old).ok,
           ApplyBlock(L, g, Miner[x], Txs[x], old).ledger.sane,
           NEW p, Prolongs(p, path, g, x),
           NEW q, Flagged(q, paid, x, ApplyBlock(L, g, Miner[x], Txs[x], old).rewarded)
    PROVE  Backed(p, q, g, ApplyBlock(L, g, Miner[x], Txs[x], old).ledger)
<1> DEFINE out == ApplyBlock(L, g, Miner[x], Txs[x], old)
           M == out.ledger
           r == Index(g)
<1>1. PICK H, S : /\ Books(H, h) /\ H[h] = Core(L)
                  /\ Linked(H, S, h, path, paid) /\ SavedIs(S, L)
    BY DEF Backed
<1>2. Shaped(L) /\ IsBook(L) /\ Coins(L) = TOTAL
    BY BackedIsBook
<1>3. g \in Nat /\ LIFE \in Nat
    BY LedgerAssumption
<1>5. (\A i \in 0 .. h : p[i] = path[i]) /\ p[g] = x /\ Id[x] = g
    BY DEF Prolongs
<1>4. /\ Shaped(M) /\ IsBook(M) /\ Coins(M) = Coins(L)
      /\ out.rewarded \in BOOLEAN /\ KeepsBelow(L, M, r)
      /\ Link(Core(L), Core(M), g, Miner[x], Txs[x], out.rewarded, M.rollback_topics[r])
    BY <1>2, <1>3, BlockBook
<1>6. r + LIFE + 1 = g /\ r \in Int
    BY <1>3 DEF Index
<1>7. (x \in q) = out.rewarded /\ \A i \in 0 .. h : (p[i] \in q) = (path[i] \in paid)
    <2>1. \A i \in 0 .. h : path[i] # x
        BY <1>5 DEF Backed
    <2> QED
        BY <1>4, <1>5, <2>1 DEF Flagged
<1> HIDE DEF out, M, r
<1> DEFINE G == [i \in 0 .. g |-> IF i = g THEN Core(M) ELSE H[i]]
           T == [i \in 1 .. g |-> IF i = g THEN M.rollback_topics[r] ELSE S[i]]
<1>8. /\ G[g] = Core(M) /\ \A i \in 0 .. h : G[i] = H[i]
      /\ T[g] = M.rollback_topics[r] /\ \A i \in 1 .. h : T[i] = S[i]
    BY <1>3
<1> HIDE DEF G, T
<1>9. Books(G, g)
    <2>1. Shaped(Core(M)) /\ IsBook(Core(M)) /\ Coins(Core(M)) = TOTAL
        BY <1>2, <1>4, CoreIs, BookAlike
    <2>2. \A i \in 0 .. g : i \in 0 .. h \/ i = g
        OBVIOUS
    <2> QED
        BY <1>1, <1>8, <2>1, <2>2 DEF Books
<1>10. Linked(G, T, g, p, q)
    <2> SUFFICES ASSUME NEW i \in 1 .. g
                 PROVE  Link(G[i - 1], G[i], i, Miner[p[i]], Txs[p[i]], p[i] \in q, T[i])
        BY DEF Linked
    <2>1. CASE i = g
        <3>1. G[i - 1] = Core(L)
            <4>1. i - 1 = h /\ h \in 0 .. h
                BY <2>1
            <4> QED
                BY <1>1, <1>8, <4>1
        <3>2. G[i] = Core(M) /\ p[i] = x /\ (p[i] \in q) = out.rewarded /\ T[i] = M.rollback_topics[r]
            BY <1>5, <1>7, <1>8, <2>1
        <3> QED
            BY <1>4, <2>1, <3>1, <3>2
    <2>2. CASE i # g
        <3>1. i \in 1 .. h /\ i \in 0 .. h /\ i - 1 \in 0 .. h
            BY <2>2
        <3>2. /\ G[i - 1] = H[i - 1] /\ G[i] = H[i] /\ p[i] = path[i]
              /\ (p[i] \in q) = (path[i] \in paid) /\ T[i] = S[i]
            BY <1>5, <1>7, <1>8, <3>1
        <3>3. Link(H[i - 1], H[i], i, Miner[path[i]], Txs[path[i]], path[i] \in paid, S[i])
            BY <1>1, <3>1 DEF Linked
        <3> QED
            BY <3>2, <3>3
    <2> QED
        BY <2>1, <2>2
<1>11. SavedIs(T, M)
    <2> SUFFICES ASSUME NEW j \in DOMAIN M.rollback_topics
                 PROVE  M.rollback_topics[j] = T[j + LIFE + 1]
        BY DEF SavedIs
    <2>1. CASE j = r
        BY <1>6, <1>8, <2>1
    <2>2. CASE j # r
        <3>1. j \in DOMAIN L.rollback_topics /\ M.rollback_topics[j] = L.rollback_topics[j]
            BY <1>4, <2>2 DEF KeepsBelow
        <3>2. j + LIFE + 1 \in 1 .. h
            BY <1>3, <3>1 DEF KeptBelow
        <3> QED
            BY <1>1, <1>8, <3>1, <3>2 DEF SavedIs
    <2> QED
        BY <2>1, <2>2
<1>12. \A i \in 0 .. g : Id[p[i]] = i
    <2>1. \A i \in 0 .. g : i \in 0 .. h \/ i = g
        OBVIOUS
    <2> QED
        BY <1>5, <2>1 DEF Backed
<1> QED
    BY <1>4, <1>8, <1>9, <1>10, <1>11, <1>12 DEF Backed, M, out

\* A turn of the fast loop of rollback takes the last one off.
LEMMA BackedShrinks ==
    ASSUME NEW path, NEW paid, NEW h \in Nat, h # 0, NEW L, Backed(path, paid, h, L),
           CanUndoFast(L, h), NEW x, path[h] = x,
           NEW p, \A i \in 0 .. h - 1 : p[i] = path[i]
    PROVE  Backed(p, paid, h - 1, UndoBlock(L, h, Miner[x], Txs[x], x \in paid))
<1> DEFINE M == UndoBlock(L, h, Miner[x], Txs[x], x \in paid)
           r == Index(h)
<1>1. PICK H, S : /\ Books(H, h) /\ H[h] = Core(L)
                  /\ Linked(H, S, h, path, paid) /\ SavedIs(S, L)
    BY DEF Backed
<1>2. /\ h \in 1 .. h /\ LIFE \in Nat /\ h - 1 \in 0 .. h
      /\ \A i \in 0 .. h - 1 : i \in 0 .. h
      /\ \A i \in 1 .. h - 1 : i \in 1 .. h /\ i \in 0 .. h - 1
    BY LedgerAssumption
<1>3. Link(H[h - 1], H[h], h, Miner[x], Txs[x], x \in paid, S[h])
    BY <1>1, <1>2 DEF Linked
<1>4. ~ h <= LIFE + 1 => r \in DOMAIN L.rollback_topics /\ L.rollback_topics[r] = S[h]
    <2> SUFFICES ASSUME ~ h <= LIFE + 1
                 PROVE  r \in DOMAIN L.rollback_topics /\ L.rollback_topics[r] = S[h]
        OBVIOUS
    <2>1. r \in DOMAIN L.rollback_topics
        BY <1>2 DEF CanUndoFast
    <2>2. r + LIFE + 1 = h
        BY <1>2 DEF Index
    <2> QED
        BY <1>1, <2>1, <2>2 DEF SavedIs
<1>5. Shaped(M) /\ Core(M) = H[h - 1] /\ KeepsOnly(L, M)
    BY <1>1, <1>3, <1>4 DEF Link, Backed
<1> HIDE DEF M
<1>6. SavedIs(S, M)
    BY <1>1, <1>5 DEF SavedIs, KeepsOnly
<1>7. Books(H, h - 1)
    BY <1>1, <1>2 DEF Books
<1>8. Linked(H, S, h - 1, p, paid)
    BY <1>1, <1>2 DEF Linked
<1>9. \A i \in 0 .. h - 1 : Id[p[i]] = i
    BY <1>2 DEF Backed
<1> QED
    BY <1>5, <1>6, <1>7, <1>8, <1>9 DEF Backed, M

\* The inductive invariant behind Conservation and NoOverdraft.
BookInv == OnceInv /\ Backed(m_block_by_id, m_miner_reward, Id[m_cur_block], ledger)

\* The sum over nothing, and over one.
LEMMA SmallSums ==
    ASSUME NEW f, NEW x, f[x] \in Int
    PROVE  SumOver(f, {}) = 0 /\ SumOver(f, {x}) = f[x]
<1>1. SumOver(f, {}) = 0
    <2>1. IsFiniteSet({})
        BY FS_EmptySet
    <2>2. PICK g : IsSum(f, SUBSET {}, g)
        BY <2>1, SumExists
    <2>3. SumOver(f, {}) = g[{}]
        BY <2>1, <2>2, SumIs
    <2>4. {} \in SUBSET {}
        OBVIOUS
    <2>5. g[{}] = 0
        BY <2>2, <2>4 DEF IsSum
    <2> QED
        BY <2>3, <2>5
<1>2. SumOver(f, {x}) = f[x] + SumOver(f, {x} \ {x})
    <2>1. IsFiniteSet({x}) /\ (\A y \in {x} : f[y] \in Int) /\ x \in {x}
        BY FS_Singleton
    <2> QED
        BY <2>1, SumOverIs
<1>3. {x} \ {x} = {}
    OBVIOUS
<1> QED
    BY <1>1, <1>2, <1>3

\* All coins are there at genesis, in two accounts.
LEMMA GenesisBook ==
    ASSUME Author \in Pubkey, Reserve \notin Pubkey
    PROVE  LET L == GenesisLedger IN Shaped(L) /\ IsBook(L) /\ Coins(L) = TOTAL
<1> DEFINE L == GenesisLedger
           B == L.balance
<1>1. /\ IsRecord(L) /\ L.topics = <<>> /\ L.topic_list = <<>> /\ L.by_id = <<Author>>
      /\ L.referrer = [a \in {Author} |-> None] /\ L.own = [a \in {Author} |-> <<>>]
      /\ L.name = [a \in {Reserve, Author} |-> IF a = Author THEN AuthorName ELSE Reserve]
      /\ L.balance = [a \in {Reserve, Author} |-> TOTAL \div 2]
    BY DEF GenesisLedger, IsRecord, Fields
<1>2. TOTAL \div 2 \in Nat /\ TOTAL \div 2 + TOTAL \div 2 = TOTAL /\ Reserve # Author
    BY LedgerAssumption
<1> HIDE DEF L
<1>3. DOMAIN L.topics = {} /\ BareAll(L.topics) = <<>> /\ Shaped(L)
    <2>1. DOMAIN L.topics = {} /\ IsFcn(L.topics)
        BY <1>1 DEF IsFcn
    <2> QED
        BY <1>1, <2>1 DEF Shaped, ShapedTopics, BareAll
<1>4. People(L)
    <2>1. DOMAIN L.referrer = {Author} /\ IsFiniteSet({Author})
        BY <1>1, FS_Singleton
    <2>2. IsFcn(L.referrer) /\ L.referrer[Author] = None
        BY <1>1 DEF IsFcn
    <2>3. IsFcn(L.name) /\ DOMAIN L.name = {Author} \cup {Reserve}
        BY <1>1 DEF IsFcn
    <2>4. L.by_id \in Seq(Pubkey) /\ L.own \in [{Author} -> Seq(Hash)]
        BY <1>1
    <2> QED
        BY <2>1, <2>2, <2>3, <2>4 DEF People
<1>5. Live(DOMAIN L.referrer, BareAll(L.topics), L.topic_list)
    <2>1. IsFiniteSet({}) /\ {} \subseteq Hash /\ <<>> \in Seq(Hash) /\ DOMAIN <<>> = {}
        BY FS_EmptySet
    <2>2. <<>> \in [{} -> BareTopic(DOMAIN L.referrer)]
        OBVIOUS
    <2>3. {L.topic_list[i] : i \in DOMAIN L.topic_list} = {}
        BY <1>1, <2>1
    <2> QED
        BY <1>1, <1>3, <2>1, <2>2, <2>3 DEF Live
<1>6. IsBook(L)
    <2>1. L.balance \in [DOMAIN L.referrer \cup {Reserve} -> Nat]
        BY <1>1, <1>2
    <2> QED
        BY <1>4, <1>5, <2>1 DEF IsBook
<1>7. Total(B) = TOTAL
    <2>1. DOMAIN B = {Reserve, Author} /\ B[Reserve] = TOTAL \div 2 /\ B[Author] = TOTAL \div 2
        BY <1>1
    <2> HIDE DEF B
    <2>2. SumOver(B, {Reserve, Author}) = B[Reserve] + SumOver(B, {Reserve, Author} \ {Reserve})
        <3>1. IsFiniteSet({Reserve, Author})
            <4>1. IsFiniteSet({Author}) /\ {Reserve, Author} = {Author} \cup {Reserve}
                BY FS_Singleton
            <4> QED
                BY <4>1, FS_AddElement
        <3>2. \A x \in {Reserve, Author} : B[x] \in Int
            BY <1>2, <2>1
        <3> QED
            BY <3>1, <3>2, SumOverIs
    <2>3. {Reserve, Author} \ {Reserve} = {Author}
        BY <1>2
    <2>4. SumOver(B, {Author}) = B[Author]
        BY <1>2, <2>1, SmallSums
    <2> QED
        BY <1>2, <2>1, <2>2, <2>3, <2>4 DEF Total
<1>8. Total(TopicCoins(BareAll(L.topics))) = 0
    <2>1. DOMAIN TopicCoins(<<>>) = {}
        BY DEF TopicCoins
    <2>2. SumOver([x \in {0} |-> 0], {}) = 0
        BY SmallSums
    <2> DEFINE f == TopicCoins(<<>>)
    <2> HIDE DEF f
    <2>3. SumOver(f, {}) = SumOver([x \in {0} |-> 0], {})
        BY FS_EmptySet, SumSame
    <2> QED
        BY <1>3, <2>1, <2>2, <2>3 DEF Total, f
<1> QED
    BY <1>2, <1>3, <1>6, <1>7, <1>8 DEF Coins, L

\* Initially, and after a crash.
LEMMA GenesisBacked ==
    ASSUME Author \in Pubkey, Reserve \notin Pubkey, NEW path, Id[path[0]] = 0, NEW paid
    PROVE  Backed(path, paid, 0, GenesisLedger)
<1> DEFINE L == GenesisLedger
           H == [i \in {0} |-> Core(L)]
           S == <<>>
<1>1. Shaped(L) /\ IsBook(L) /\ Coins(L) = TOTAL
    BY GenesisBook
<1>2. L.rollback_topics = <<>> /\ DOMAIN <<>> = {}
    BY DEF GenesisLedger
<1> HIDE DEF L
<1>3. Shaped(Core(L)) /\ IsBook(Core(L)) /\ Coins(Core(L)) = TOTAL
    BY <1>1, CoreIs, BookAlike
<1>4. 0 .. 0 = {0} /\ 1 .. 0 = {} /\ H[0] = Core(L)
    OBVIOUS
<1> HIDE DEF H, S
<1>5. Books(H, 0) /\ Linked(H, S, 0, path, paid) /\ SavedIs(S, L)
    BY <1>2, <1>3, <1>4 DEF Books, Linked, SavedIs
<1> QED
    BY <1>1, <1>4, <1>5 DEF Backed, L

\* A block that verifies is put on the main chain.
LEMMA GrowBook ==
    ASSUME TypedBlocks, BookInv, NEW x \in Block, x # Genesis, Parent[x] = m_cur_block,
           m_cur_block' = x, m_block_by_id' = Insert(m_block_by_id, Id[x], x),
           Verifies(x), TakeOutcome(x)
    PROVE  Backed(m_block_by_id, m_miner_reward, Id[m_cur_block], ledger)'
<1> DEFINE h == Id[m_cur_block]
           g == Id[x]
           out == ApplyBlock(ledger, g, Miner[x], Txs[x], Retiring(x))
<1>1. h \in Nat /\ DOMAIN m_block_by_id = 0 .. h /\ g = h + 1
    BY ContentIs, TreeAssumption DEF BookInv, OnceInv
<1>2. g \notin 0 .. h
    BY <1>1
<1>3. (\A i \in 0 .. h : m_block_by_id'[i] = m_block_by_id[i]) /\ m_block_by_id'[g] = x
    BY <1>1, <1>2 DEF Insert
<1>4. /\ out.ok /\ out.ledger.sane /\ ledger' = out.ledger
      /\ m_miner_reward' = IF out.rewarded THEN m_miner_reward \cup {x} ELSE m_miner_reward \ {x}
    BY <1>1 DEF Verifies, TakeOutcome, Outcome
<1>5. Window(ledger) /\ \A j \in DOMAIN ledger.rollback_topics : j \in Nat /\ j + LIFE + 1 <= h
    BY DEF BookInv, OnceInv, Recent, Window, KeptForRollback
<1>6. Known(Txs[x]) /\ Backed(m_block_by_id, m_miner_reward, h, ledger)
    BY TxsAreKnown DEF BookInv
<1> DEFINE path == m_block_by_id
           paid == m_miner_reward
           L == ledger
           old == Retiring(x)
           p == m_block_by_id'
           q == m_miner_reward'
<1>7. /\ h \in Nat /\ g = h + 1 /\ Backed(path, paid, h, L) /\ Window(L) /\ Known(Txs[x])
      /\ KeptBelow(L, h) /\ Prolongs(p, path, g, x)
      /\ ApplyBlock(L, g, Miner[x], Txs[x], old).ok
      /\ ApplyBlock(L, g, Miner[x], Txs[x], old).ledger.sane
      /\ Flagged(q, paid, x, ApplyBlock(L, g, Miner[x], Txs[x], old).rewarded)
    <2>1. g - 1 = h
        BY <1>1
    <2> QED
        BY <1>1, <1>3, <1>4, <1>5, <1>6, <2>1 DEF KeptBelow, Prolongs, Flagged
<1> HIDE DEF h, g, path, paid, L, old, p, q
<1>8. Backed(p, q, g, ApplyBlock(L, g, Miner[x], Txs[x], old).ledger)
    BY <1>7, BackedGrows
<1> QED
    BY <1>1, <1>4, <1>8 DEF p, q, L, old, g

\* A turn of the fast loop of rollback.
LEMMA ShrinkBook ==
    ASSUME BookInv, FastRollback
    PROVE  Backed(m_block_by_id, m_miner_reward, Id[m_cur_block], ledger)'
<1> DEFINE h == Id[m_cur_block]
           x == m_cur_block
<1>1. h \in Nat /\ DOMAIN m_block_by_id = 0 .. h /\ x \in Block
    BY ContentIs DEF BookInv, OnceInv, TreeInv, TypeOK
<1>2. /\ x # Genesis /\ m_cur_block' = Parent[x] /\ m_miner_reward' = m_miner_reward
      /\ m_block_by_id' = Erase(m_block_by_id, h) /\ CanUndoFast(ledger, h)
      /\ ledger' = UndoBlock(ledger, h, Miner[x], Txs[x], x \in m_miner_reward)
    BY DEF FastRollback, Rollback
<1>3. Id[m_cur_block'] = h - 1 /\ h # 0
    <2>1. Id[x] = Id[Parent[x]] + 1 /\ Id[Parent[x]] \in Nat
        BY <1>1, <1>2, BlockAssumption, TreeAssumption
    <2> QED
        BY <1>2, <2>1
<1>4. \A i \in 0 .. h - 1 : m_block_by_id'[i] = m_block_by_id[i]
    <2>1. \A i \in 0 .. h - 1 : i \in 0 .. h /\ i # h
        BY <1>1
    <2> QED
        BY <1>1, <1>2, <2>1 DEF Erase
<1>5. m_block_by_id[h] = x
    BY DEF BookInv, OnceInv, TreeInv, MainChainIsPath
<1>6. Backed(m_block_by_id, m_miner_reward, h, ledger)
    BY DEF BookInv
<1> HIDE DEF h, x
<1>7. Backed(m_block_by_id', m_miner_reward, h - 1, ledger')
    BY <1>1, <1>2, <1>3, <1>4, <1>5, <1>6, BackedShrinks
<1> QED
    BY <1>2, <1>3, <1>7

\* A step that leaves the main chain alone, and the accounts and topics.
LEMMA StayBook ==
    ASSUME BookInv, UNCHANGED <<m_cur_block, m_block_by_id, m_miner_reward>>,
           Unmoved(ledger, ledger')
    PROVE  Backed(m_block_by_id, m_miner_reward, Id[m_cur_block], ledger)'
<1>1. Backed(m_block_by_id, m_miner_reward, Id[m_cur_block], ledger')
    BY BackedStays DEF BookInv
<1> QED
    BY <1>1

\* And one that leaves the ledger alone too.
LEMMA SameBook ==
    ASSUME BookInv, UNCHANGED <<m_cur_block, m_block_by_id, m_miner_reward, ledger>>
    PROVE  Backed(m_block_by_id, m_miner_reward, Id[m_cur_block], ledger)'
BY DEF BookInv

\* One step per action.
LEMMA NextBook ==
    ASSUME Author \in Pubkey, Reserve \notin Pubkey, TypedBlocks
    PROVE  BookInv /\ slow = <<>> /\ [ChainNext]_chainVars => BookInv'
<1> SUFFICES ASSUME BookInv, slow = <<>>, [ChainNext]_chainVars
             PROVE  Backed(m_block_by_id, m_miner_reward, Id[m_cur_block], ledger)'
    BY NextOnce DEF BookInv
<1> DEFINE Fits == Backed(m_block_by_id, m_miner_reward, Id[m_cur_block], ledger)'
           Stays == UNCHANGED <<m_cur_block, m_block_by_id, m_miner_reward, ledger>>
<1>0. Window(ledger) /\ Shaped(ledger) /\ IsBook(ledger) /\ Id[m_cur_block] \in Nat
    <2>1. Id[m_cur_block] \in Nat
        BY ContentIs DEF BookInv, OnceInv
    <2> QED
        BY <2>1, BackedIsBook DEF BookInv, OnceInv, Recent
<1>1. ASSUME FastRollback PROVE Fits
    BY <1>1, ShrinkBook
<1>2. ASSUME RebuildSaved PROVE Stays
    BY <1>2 DEF RebuildSaved, vars, memory
<1>3. ~ SlowRollback
    BY DEF SlowRollback
<1>4. ASSUME ChainAfterDetail \/ ChainArrive PROVE Stays
    BY <1>4 DEF ChainAfterDetail, ChainArrive, AfterDetail, Arrive, memory, ledgerVars
<1>5. ASSUME NEW x \in Block, ChainReapply(x) PROVE Fits
    <2>1. /\ x # Genesis /\ Parent[x] = m_cur_block /\ m_cur_block' = x
          /\ m_block_by_id' = Insert(m_block_by_id, Id[x], x)
          /\ Verifies(x) /\ TakeOutcome(x)
        BY <1>5 DEF ChainReapply, Reapply, OnPath
    <2> QED
        BY <2>1, GrowBook
<1>6. ASSUME NEW x \in Block, ReapplyFails(x) \/ RetireFails(x) PROVE Stays
    BY <1>6 DEF ReapplyFails, RetireFails, Exit, memory, ledgerVars
<1>7. ASSUME NEW x \in Block, ChainAccept(x) PROVE Fits
    <2>1. /\ x # Genesis /\ Parent[x] = m_cur_block /\ m_cur_block' = x
          /\ m_block_by_id' = Insert(m_block_by_id, Id[x], x)
          /\ Verifies(x) /\ TakeOutcome(x)
        BY <1>7 DEF ChainAccept, Accept, OnPath, AddBlock
    <2> QED
        BY <2>1, GrowBook
<1>8. ASSUME NEW x \in Block, ChainReject(x) PROVE Fits
    <2> DEFINE out == ApplyBlock(ledger, Id[x], Miner[x], Txs[x], Retiring(x))
    <2>1. /\ UNCHANGED <<m_cur_block, m_block_by_id, m_miner_reward>>
          /\ ~ out.ok /\ out.ledger.sane /\ ledger' = out.ledger
        BY <1>8 DEF ChainReject, Reject, memory, Outcome
    <2>2. Id[x] \in Nat /\ Known(Txs[x])
        BY BlockAssumption, TxsAreKnown
    <2>3. Unmoved(ledger, out.ledger)
        BY <1>0, <2>1, <2>2, BlockRefused
    <2> HIDE DEF out
    <2> QED
        BY <2>1, <2>3, StayBook
<1>9. ASSUME NEW b \in Block, ChainBeginDetail(b) \/ ChainStart(b) PROVE Stays
    BY <1>9 DEF ChainBeginDetail, ChainStart, BeginDetail, Start, memory, ledgerVars
<1>10. ASSUME NEW b \in Block, MineTx(b) PROVE Fits
    <2> DEFINE id == Id[m_cur_block] + 1
               old == IF Retires(id) THEN TxIds(Txs[m_block_by_id[Index(id)]]) ELSE {}
               t == Trial(ledger, id, Txs[b], old)
    <2>1. \/ t.ledger.sane /\ ledger' = t.ledger /\ UNCHANGED <<vars, m_miner_reward>>
          \/ Exit
        BY <1>10 DEF MineTx
    <2>2. CASE Exit
        <3>1. Stays
            BY <2>2 DEF Exit, memory, ledgerVars
        <3> QED
            BY <3>1, SameBook
    <2>3. CASE t.ledger.sane /\ ledger' = t.ledger /\ UNCHANGED <<vars, m_miner_reward>>
        <3>1. id \in Nat /\ Known(Txs[b])
            BY <1>0, TxsAreKnown
        <3> HIDE DEF id, old
        <3>2. Unmoved(ledger, t.ledger)
            BY <1>0, <2>3, <3>1, TrialBook
        <3>3. UNCHANGED <<m_cur_block, m_block_by_id, m_miner_reward>>
            BY <2>3 DEF vars, memory
        <3> QED
            BY <2>3, <3>2, <3>3, StayBook
    <2> QED
        BY <2>1, <2>2, <2>3
<1>11. ASSUME NEW b \in Block, ChainMinedNewBlock(b) PROVE Fits
    <2>1. (MinedNewBlock(b) /\ Verifies(b) /\ TakeOutcome(b)) \/ Exit
        BY <1>11 DEF ChainMinedNewBlock
    <2>2. CASE Exit
        <3>1. Stays
            BY <2>2 DEF Exit, memory, ledgerVars
        <3> QED
            BY <3>1, SameBook
    <2>3. CASE MinedNewBlock(b) /\ Verifies(b) /\ TakeOutcome(b)
        <3>1. /\ b # Genesis /\ Parent[b] = m_cur_block /\ m_cur_block' = b
              /\ m_block_by_id' = Insert(m_block_by_id, Id[b], b)
            BY <2>3 DEF MinedNewBlock, AddBlock
        <3> QED
            BY <2>3, <3>1, GrowBook
    <2> QED
        BY <2>1, <2>2, <2>3
<1>12. ASSUME ChainCrash PROVE Fits
    <2>1. /\ m_cur_block' = Genesis /\ m_block_by_id' = [i \in {0} |-> Genesis]
          /\ ledger' = GenesisLedger
        BY <1>12 DEF ChainCrash, Crash
    <2>2. Id[m_cur_block'] = 0 /\ Id[m_block_by_id'[0]] = 0
        BY <2>1, TreeAssumption
    <2>3. Backed(m_block_by_id', m_miner_reward', 0, GenesisLedger)
        BY <2>2, GenesisBacked
    <2> QED
        BY <2>1, <2>2, <2>3
<1>13. CASE UNCHANGED chainVars
    BY <1>13, SameBook DEF chainVars, vars, memory, ledgerVars
<1>14. Stays => Fits
    BY SameBook
<1> HIDE DEF Fits, Stays
<1>15. ASSUME ChainWork PROVE Fits
    <2>1. ASSUME NEW x \in Block, \/ ChainReapply(x) \/ ReapplyFails(x)
                                   \/ ChainAccept(x) \/ ChainReject(x) \/ RetireFails(x)
          PROVE  Fits
        BY <1>5, <1>6, <1>7, <1>8, <1>14, <2>1
    <2> QED
        BY <1>1, <1>2, <1>3, <1>4, <1>14, <1>15, <2>1 DEF ChainWork
<1>16. ASSUME NEW b \in Block, \/ ChainBeginDetail(b) \/ MineTx(b)
                                \/ ChainMinedNewBlock(b) \/ ChainStart(b)
       PROVE  Fits
    BY <1>9, <1>10, <1>11, <1>14, <1>16
<1>17. ASSUME ChainNext PROVE Fits
    BY <1>12, <1>15, <1>16, <1>17 DEF ChainNext
<1> QED
    BY <1>13, <1>17 DEF Fits

-----------------------------------------------------------------------------
\* Every reachable ledger is what its main chain made of genesis, step by
\* step, and can be led back the same way, as long as rollback stays in its
\* fast loop.
THEOREM BookInvariance ==
    ASSUME Author \in Pubkey, Reserve \notin Pubkey, TypedBlocks
    PROVE  ChainSpec /\ [](slow = <<>>) => []BookInv
<1>1. ChainInit => BookInv
    <2> SUFFICES ASSUME ChainInit PROVE BookInv
        OBVIOUS
    <2>1. /\ TreeInv /\ m_cur_block = Genesis /\ m_block_by_id = [i \in {0} |-> Genesis]
          /\ ledger = GenesisLedger
        BY InitTreeInv DEF ChainInit, Init
    <2>2. DOMAIN Content = {0} /\ Content[0] = <<>>
        BY <2>1, ChainAssumption DEF Content
    <2>3. Recent(Content, 0, GenesisLedger)
        BY <2>2, GenesisRecent
    <2>4. Id[m_cur_block] = 0 /\ Id[m_block_by_id[0]] = 0
        BY <2>1, TreeAssumption
    <2>5. Backed(m_block_by_id, m_miner_reward, 0, GenesisLedger)
        BY <2>4, GenesisBacked
    <2> QED
        BY <2>1, <2>3, <2>4, <2>5 DEF BookInv, OnceInv
<1>2. BookInv /\ slow = <<>> /\ [ChainNext]_chainVars => BookInv'
    BY NextBook
<1> QED
    BY <1>1, <1>2, PTL DEF ChainSpec

\* The balance of the topics by their keys.
LiveCoins(L) == MapThenSumSet(LAMBDA k : L.topics[k].balance, ToSet(L.topic_list))

\* What Conservation adds up are the coins of the book.
LEMMA CoinsAreAll ==
    ASSUME NEW L, IsBook(L)
    PROVE  Coins(L) = Total(L.balance) + LiveCoins(L)
<1> DEFINE T == BareAll(L.topics)
           f == TopicCoins(T)
           D == DOMAIN L.topics
<1>1. ToSet(L.topic_list) = D /\ DOMAIN T = D /\ DOMAIN f = D /\ IsFiniteSet(D)
    <2>1. DOMAIN T = D /\ DOMAIN f = DOMAIN T
        BY BareIs DEF TopicCoins
    <2>2. Live(DOMAIN L.referrer, T, L.topic_list)
        BY DEF IsBook
    <2>3. ToSet(L.topic_list) = DOMAIN T /\ IsFiniteSet(DOMAIN T)
        BY <2>2 DEF Live, ToSet
    <2> QED
        BY <2>1, <2>3
<1>2. \A k \in D : f[k] = L.topics[k].balance
    BY DEF TopicCoins, BareAll, Bare
<1> HIDE DEF f, D
<1>3. PICK g : IsSum(f, SUBSET D, g)
    BY <1>1, SumExists
<1>4. Total(f) = g[D]
    BY <1>1, <1>3, SumIs DEF Total
<1>5. LiveCoins(L) = g[D]
    <2> DEFINE e == [k \in D |-> L.topics[k].balance]
               h == CHOOSE h : h = [s \in SUBSET D |-> IF s = {} THEN 0
                        ELSE L.topics[OneOf(s)].balance + h[s \ {OneOf(s)}]]
    <2>1. LiveCoins(L) = h[D]
        BY <1>1 DEF LiveCoins, MapThenSumSet, MapThenFoldSet, OneOf
    <2>2. \A s \in SUBSET D : s # {} => f[OneOf(s)] = L.topics[OneOf(s)].balance
        BY <1>2 DEF OneOf
    <2>3. g = [s \in SUBSET D |-> IF s = {} THEN 0
                        ELSE L.topics[OneOf(s)].balance + g[s \ {OneOf(s)}]]
        BY <1>3, <2>2 DEF IsSum
    <2>4. h = [s \in SUBSET D |-> IF s = {} THEN 0
                        ELSE L.topics[OneOf(s)].balance + h[s \ {OneOf(s)}]]
        BY <2>3
    <2> HIDE DEF h
    <2>5. IsSum(f, SUBSET D, h)
        BY <2>2, <2>4 DEF IsSum
    <2>6. D \subseteq D
        OBVIOUS
    <2>7. h[D] = g[D]
        BY <1>1, <1>3, <2>5, <2>6, SumUnique
    <2> QED
        BY <2>1, <2>7
<1> QED
    BY <1>4, <1>5 DEF Coins, f

\* Accounts and live topics hold all coins in every reachable state, over
\* rejected blocks, trials of mine_tx, fast rollbacks and restarts, whatever
\* the blocks say: no operation of the ledger, and none that takes one back,
\* makes a coin or loses one.
THEOREM AlwaysConserved ==
    ASSUME Author \in Pubkey, Reserve \notin Pubkey, TypedBlocks
    PROVE  ChainSpec /\ [](slow = <<>>) => []Conservation
<1>1. BookInv => Conservation
    <2> SUFFICES ASSUME BookInv PROVE Conservation
        OBVIOUS
    <2>1. IsBook(ledger) /\ Coins(ledger) = TOTAL
        BY ContentIs, BackedIsBook DEF BookInv, OnceInv
    <2>2. Total(ledger.balance) + LiveCoins(ledger) = TOTAL
        BY <2>1, CoinsAreAll
    <2> QED
        BY <2>2 DEF Conservation, Total, SumOver, LiveCoins
<1> QED
    BY <1>1, BookInvariance, PTL

\* No balance of an account or a topic is driven below zero, where the code
\* subtracts unsigned numbers, on the way forward, where it tests, or on the
\* way back, where it does not.
THEOREM NeverOverdrawn ==
    ASSUME Author \in Pubkey, Reserve \notin Pubkey, TypedBlocks
    PROVE  ChainSpec /\ [](slow = <<>>) => []NoOverdraft
<1>1. BookInv => NoOverdraft
    <2> SUFFICES ASSUME BookInv PROVE NoOverdraft
        OBVIOUS
    <2> DEFINE T == BareAll(ledger.topics)
    <2>1. IsBook(ledger)
        BY ContentIs, BackedIsBook DEF BookInv, OnceInv
    <2>2. \A a \in DOMAIN ledger.balance : ledger.balance[a] >= 0
        BY <2>1 DEF IsBook
    <2>3. ASSUME NEW k \in DOMAIN ledger.topics PROVE ledger.topics[k].balance >= 0
        <3>1. DOMAIN T = DOMAIN ledger.topics /\ T[k].balance = ledger.topics[k].balance
            <4>1. DOMAIN T = DOMAIN ledger.topics /\ T[k] = Bare(ledger.topics[k])
                BY DEF BareAll
            <4> QED
                BY <4>1 DEF Bare
        <3>2. T \in [DOMAIN T -> BareTopic(DOMAIN ledger.referrer)]
            BY <2>1 DEF IsBook, Live
        <3> HIDE DEF T
        <3>3. T[k].balance \in Nat
            BY <3>1, <3>2 DEF BareTopic
        <3> QED
            BY <3>1, <3>3
    <2> QED
        BY <2>2, <2>3 DEF NoOverdraft
<1> QED
    BY <1>1, BookInvariance, PTL
=============================================================================
