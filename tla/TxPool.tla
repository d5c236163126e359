------------------------------- MODULE TxPool -------------------------------
(***************************************************************************)
(* The pool of unverified transactions: how a transaction gets in, from a  *)
(* peer (TX_BROADCAST in do_peer_message, net/p2p/node.cpp), from a wallet *)
(* (net/api/wsock_node.cpp) or from the console (do_command), and what     *)
(* do_uv_tx (blockchain.cpp) makes of the pool when the chain moved.       *)
(*                                                                         *)
(* The chain is a fixed tree of blocks that verify; the ledger at a block  *)
(* is that of a replay (Chain shows that the node has it). All runs in the *)
(* message thread; what interleaves is messages and moves of the chain,    *)
(* for do_uv_tx runs once after a batch of messages.                       *)
(***************************************************************************)
EXTENDS Ledger, FiniteSets

CONSTANTS
    Block, Genesis, Parent, Id, Pow,    \* the tree, as in BlockTree
    Txs, Miner,     \* transactions of a block and who found it, as in Chain
    Tx,             \* transactions
    WORD,           \* 2^64: sums of coins are taken modulo this
    World           \* what a behaviour is given, one of several, see world

ASSUME TxPoolAssumption ==
    /\ Genesis \in Block /\ Parent \in [Block -> Block]
    /\ Id \in [Block -> Nat] /\ Pow \in [Block -> Nat] /\ Id[Genesis] = 0
    /\ \A b \in Block \ {Genesis} : Id[b] = Id[Parent[b]] + 1
    /\ Txs \in [Block -> Seq(Tx)] /\ Txs[Genesis] = <<>>
    /\ World \subseteq [blocks : SUBSET Block, fork : SUBSET Block, txs : SUBSET Tx,
                        clear : BOOLEAN]
    /\ WORD \in Nat /\ FEE < WORD
    /\ \A s, t \in Tx : s.id = t.id => s = t
    /\ \A tx \in Tx : /\ tx.type \in {"reg", "send", "topic", "reply", "reward"}
                      /\ tx.bid \in Nat
                      /\ tx.type \in {"send", "topic", "reward"} => tx.amount \in 0..(WORD - 1)
                      /\ tx.type = "reward" => tx.reply_to # None

VARIABLES
    world,              \* constant: blocks and transactions there are, the blocks
                        \* where branches leave, and whether clear_uv_tx is given
    cur,                \* m_cur_block
    L,                  \* the ledger there
    m_block_changed,    \* do_uv_tx is due
    pool                \* see Init

vars == <<world, cur, L, m_block_changed, pool>>

\* Path[b]: b and its ancestors.
Path[b \in Block] == IF b = Genesis THEN {b} ELSE {b} \cup Path[Parent[b]]

At(b, id) == CHOOSE a \in Path[b] : Id[a] = id

\* The ids that leave the window with the block after b.
Old(b) == IF Retires(Id[b] + 1)
          THEN {tx.id : tx \in ToSet(Txs[At(b, Index(Id[b] + 1))])} ELSE {}

\* The ledger of a node whose main chain ends in b.
Replay[b \in Block] ==
    IF b = Genesis THEN GenesisLedger
    ELSE ApplyBlock(Replay[Parent[b]], Id[b], Miner[b], Txs[b], Old(Parent[b])).ledger

Ledgers == [b \in Block |-> Replay[b]]     \* TLC evaluates it once

\* The blocks of the tree verify.
ASSUME BlocksVerify ==
    \A b \in Block \ {Genesis} :
        ApplyBlock(Ledgers[Parent[b]], Id[b], Miner[b], Txs[b], Old(Parent[b])).ok

Height == Id[cur] + 1       \* of the next block

User == {Author} \cup {tx.who : tx \in {t \in Tx : t.type = "reg"}}
Topic == {tx.id : tx \in {t \in Tx : t.type = "topic"}}

Init ==
    /\ world \in World
    /\ cur = Genesis /\ L = GenesisLedger
    /\ m_block_changed = TRUE
    /\ pool = [m_uv_1_txs |-> <<>>,     \* waiting for what they depend on
               m_uv_2_txs |-> <<>>,     \* ready to be mined
               m_uv_3_txs |-> {},       \* confirmed not long ago
               m_uv_tx_ids |-> {}, m_uv_account_names |-> {},
               m_uv_account_pubkeys |-> {},
               m_uv_spend |-> [a \in User |-> 0],
               m_uv_topic |-> [a \in User |-> 0],
               m_uv_join_topic |-> [a \in User |-> 0],
               m_uv_reply |-> [k \in Topic |-> 0],
               m_uv_reward |-> [k \in Topic |-> 0],
               anew |-> FALSE,          \* history: counts were lost, see Fresh
               wrapped |-> FALSE,       \* history: a sum passed WORD, see Ready
               joins |-> {},            \* replies with m_uv_join_topic set
               punished |-> {}]         \* transactions a peer was punished for

-----------------------------------------------------------------------------
(* What a transaction is worth on the chain as it is, the window apart.    *)

Live(tx) == tx.topic \in DOMAIN L.topics

\* The topic ends before the next block.
Over(tx) == Live(tx) /\ L.topics[tx.topic].block_id + LIFE < Height

(* The coins of a ready transaction are counted in uint64. A peer may name  *)
(* any amount below 2^64, and no sum is tested: it wraps.                  *)

Cost(tx) == IF tx.type \in {"send", "topic"} THEN (tx.amount + FEE) % WORD ELSE FEE

Lacks(p, tx, amount) == L.balance[tx.from] < (amount + p.m_uv_spend[tx.from]) % WORD

LacksForReward(p, tx) ==
    L.topics[tx.topic].balance < (tx.amount + p.m_uv_reward[tx.topic]) % WORD

\* Mutant: an answer to a reply that has not arrived is taken for a bad one.
MissingNever(t, tx) == FALSE

\* The reply that is answered may come in a block still.
Missing(t, tx) == tx.reply_to # None /\ ~HasReply(t, tx.reply_to)

Full(p, tx) == Len(L.topics[tx.topic].replies) + p.m_uv_reply[tx.topic] >= MAX_REPLY

JoinsTooMany(p, tx) ==
    Joins(L, tx) /\ Len(L.joined[tx.from]) + p.m_uv_join_topic[tx.from] >= MAX_JOIN

JudgeReg(p, tx) ==
    IF ~Registered(L, tx.from) \/ Lacks(p, tx, FEE) THEN "wait" ELSE "ready"

JudgeSend(p, tx) ==
    IF \/ ~Registered(L, tx.from)
       \/ Lacks(p, tx, Cost(tx))
       \/ ~Registered(L, tx.to)
    THEN "wait" ELSE "ready"

JudgeTopic(p, tx) ==
    IF ~Registered(L, tx.from) THEN "wait"
    ELSE IF Len(L.own[tx.from]) + p.m_uv_topic[tx.from] >= MAX_TOPIC THEN "drop"
    ELSE IF Lacks(p, tx, Cost(tx)) THEN "wait" ELSE "ready"

JudgeReply(p, tx) ==
    IF ~Live(tx) THEN "wait"
    ELSE IF Over(tx) THEN "drop"
    ELSE LET t == L.topics[tx.topic]
         IN  IF Missing(t, tx) THEN "wait"
             ELSE IF tx.reply_to # None /\ ~IsPlain(t, tx.reply_to) THEN "punish"
             ELSE IF Full(p, tx) THEN "drop"
             ELSE IF ~Registered(L, tx.from) \/ Lacks(p, tx, FEE) THEN "wait"
             ELSE IF JoinsTooMany(p, tx) THEN "drop" ELSE "ready"

JudgeReward(p, tx) ==
    IF ~Registered(L, tx.from) \/ Lacks(p, tx, FEE + tx.amount) \/ ~Live(tx)
    THEN "wait"
    ELSE LET t == L.topics[tx.topic]
         IN  IF Over(tx) THEN "drop"
             ELSE IF t.owner # tx.from THEN "punish"
             ELSE IF Full(p, tx) \/ LacksForReward(p, tx) THEN "drop"
             ELSE IF Missing(t, tx) THEN "wait"
             ELSE IF ~IsPlain(t, tx.reply_to) \/ ReplyOwner(t, tx.reply_to) = tx.from
             THEN "punish" ELSE "ready"

Judge(p, tx) ==
    CASE tx.type = "reg"    -> JudgeReg(p, tx)
      [] tx.type = "send"   -> JudgeSend(p, tx)
      [] tx.type = "topic"  -> JudgeTopic(p, tx)
      [] tx.type = "reply"  -> JudgeReply(p, tx)
      [] tx.type = "reward" -> JudgeReward(p, tx)

\* No use for it on this chain any more, or not again.
Useless(tx) ==
    \/ ~InWindow(tx, Height)
    \/ tx.id \in L.tx_map
    \/ tx.type = "reg" /\ ~CanReg(L, tx)
    \/ tx.type = "topic" /\ tx.id \in DOMAIN L.topics

-----------------------------------------------------------------------------
(* Ready transactions are counted in the account and in the topic.         *)

Plus(f, x, n) == [f EXCEPT ![x] = @ + n]
PlusCoins(f, x, n) == [f EXCEPT ![x] = (@ + n) % WORD]
\* Mutant: no care for accounts that were made anew.
LessBelow(f, x, n) == [f EXCEPT ![x] = @ - n]

Less(f, x, n) == [f EXCEPT ![x] = IF @ >= n THEN @ - n ELSE 0]

One(b) == IF b THEN 1 ELSE 0
OnTopic(tx) == tx.type \in {"reply", "reward"}

\* With tx a sum of coins passes the end of a word.
Wraps(p, tx) ==
    \/ p.m_uv_spend[tx.from] + FEE
          + (IF tx.type \in {"send", "topic"} THEN tx.amount ELSE 0) >= WORD
    \/ tx.type = "reward" /\ p.m_uv_reward[tx.topic] + tx.amount >= WORD

\* Mutant: the coins a reward takes from its topic are not counted.
ReadyUnpaid(p, tx) ==
    LET joins == tx.type = "reply" /\ Joins(L, tx)
        q == [p EXCEPT
                !.m_uv_2_txs = Append(@, tx),
                !.m_uv_spend = PlusCoins(@, tx.from, Cost(tx)),
                !.m_uv_topic = Plus(@, tx.from, One(tx.type = "topic")),
                !.m_uv_join_topic = Plus(@, tx.from, One(joins)),
                !.joins = IF joins THEN @ \cup {tx.id} ELSE @]
    IN  IF OnTopic(tx) THEN [q EXCEPT !.m_uv_reply = Plus(@, tx.topic, 1)] ELSE q

Ready(p, tx) ==
    LET joins == tx.type = "reply" /\ Joins(L, tx)
        q == [p EXCEPT
                !.m_uv_2_txs = Append(@, tx),
                !.m_uv_spend = PlusCoins(@, tx.from, Cost(tx)),
                !.m_uv_topic = Plus(@, tx.from, One(tx.type = "topic")),
                !.m_uv_join_topic = Plus(@, tx.from, One(joins)),
                !.joins = IF joins THEN @ \cup {tx.id} ELSE @,
                !.wrapped = @ \/ Wraps(p, tx)]
    IN  IF ~OnTopic(tx) THEN q
        ELSE [q EXCEPT !.m_uv_reply = Plus(@, tx.topic, 1),
                       !.m_uv_reward = PlusCoins(@, tx.topic,
                            IF tx.type = "reward" THEN tx.amount ELSE 0)]

\* Mutant: only the coins are given back.
ReleaseAccountSpend(p, tx) ==
    IF ~Registered(L, tx.from) THEN p
    ELSE [p EXCEPT !.m_uv_spend = Less(@, tx.from, Cost(tx))]

\* The account, if it exists, gets back what the transaction had counted.
ReleaseAccount(p, tx) ==
    IF ~Registered(L, tx.from) THEN p
    ELSE [p EXCEPT
            !.m_uv_spend = Less(@, tx.from, Cost(tx)),
            !.m_uv_topic = Less(@, tx.from, One(tx.type = "topic")),
            !.m_uv_join_topic = Less(@, tx.from, One(tx.id \in p.joins))]

\* Mutant: a reward that leaves the pool is not taken off the topic.
ReleaseTopicSlot(p, tx) ==
    IF ~OnTopic(tx) \/ ~Live(tx) THEN p
    ELSE [p EXCEPT !.m_uv_reply = Less(@, tx.topic, 1)]

\* The topic likewise.
ReleaseTopic(p, tx) ==
    IF ~OnTopic(tx) \/ ~Live(tx) THEN p
    ELSE [p EXCEPT !.m_uv_reply = Less(@, tx.topic, 1),
                   !.m_uv_reward = Less(@, tx.topic,
                        IF tx.type = "reward" THEN tx.amount ELSE 0)]

Release(p, tx) == ReleaseTopic(ReleaseAccount(p, tx), tx)

\* The transaction may be sent again.
Forget(p, tx) ==
    LET q == [p EXCEPT !.m_uv_tx_ids = @ \ {tx.id}, !.joins = @ \ {tx.id}]
    IN  IF tx.type # "reg" THEN q
        ELSE [q EXCEPT !.m_uv_account_names = @ \ {tx.name},
                       !.m_uv_account_pubkeys = @ \ {tx.who}]

Remember(p, tx) ==
    LET q == [p EXCEPT !.m_uv_tx_ids = @ \cup {tx.id}]
    IN  IF tx.type # "reg" THEN q
        ELSE [q EXCEPT !.m_uv_account_names = @ \cup {tx.name},
                       !.m_uv_account_pubkeys = @ \cup {tx.who}]

Wait(p, tx) == [p EXCEPT !.m_uv_1_txs = Append(@, tx)]
Punish(p, tx) == [p EXCEPT !.punished = @ \cup {tx}]

-----------------------------------------------------------------------------
(* do_uv_tx.                                                               *)

\* One turn of the loop over m_uv_1_txs, which p holds without tx.
LookAtWaiting(p, tx) ==
    IF Useless(tx) THEN Forget(p, tx)
    ELSE CASE Judge(p, tx) = "wait"   -> Wait(p, tx)
           [] Judge(p, tx) = "drop"   -> Forget(p, tx)
           [] Judge(p, tx) = "punish" -> Forget(Punish(p, tx), tx)
           [] Judge(p, tx) = "ready"  -> Ready(p, tx)

\* Mutant: a transaction of a block is not told from one to be mined.
LookAtReadyWindow(p, tx) ==
    IF (OnTopic(tx) /\ Over(tx)) \/ ~InWindow(tx, Height) THEN Forget(Release(p, tx), tx)
    ELSE [p EXCEPT !.m_uv_2_txs = Append(@, tx)]

\* Mutant: the window is that of the block after the next.
LookAtReadyEarly(p, tx) ==
    IF (OnTopic(tx) /\ Over(tx)) \/ ~InWindow(tx, Height + 1)
    THEN Forget(Release(p, tx), tx)
    ELSE IF tx.id \in L.tx_map
    THEN [Forget(Release(p, tx), tx) EXCEPT !.m_uv_3_txs = @ \cup {tx}]
    ELSE IF tx.type = "reg" /\ ~CanReg(L, tx)
    THEN Forget(Release(p, tx), tx)
    ELSE [p EXCEPT !.m_uv_2_txs = Append(@, tx)]

\* One turn of the loop over m_uv_2_txs.
LookAtReady(p, tx) ==
    IF (OnTopic(tx) /\ Over(tx)) \/ ~InWindow(tx, Height)
    THEN Forget(Release(p, tx), tx)
    ELSE IF tx.id \in L.tx_map
    THEN [Forget(Release(p, tx), tx) EXCEPT !.m_uv_3_txs = @ \cup {tx}]
    ELSE IF tx.type = "reg" /\ ~CanReg(L, tx)
    THEN Forget(Release(p, tx), tx)
    ELSE [p EXCEPT !.m_uv_2_txs = Append(@, tx)]

\* The three loops; mine_tx, which follows, leaves the pool alone.
Looked(p) ==
    LET first == FoldLeft(LookAtWaiting, [p EXCEPT !.m_uv_1_txs = <<>>], p.m_uv_1_txs)
        second == FoldLeft(LookAtReady, [first EXCEPT !.m_uv_2_txs = <<>>],
                           first.m_uv_2_txs)
    IN  [second EXCEPT !.m_uv_3_txs = {tx \in @ : InWindow(tx, Height)}]

do_uv_tx ==
    /\ m_block_changed
    /\ m_block_changed' = FALSE
    /\ pool' = Looked(pool)
    /\ UNCHANGED <<cur, L>>

\* mine_tx: what the next block would hold.
Mined(txs) == Trial(L, Height, txs, Old(cur)).mined

-----------------------------------------------------------------------------
(* TX_BROADCAST.                                                           *)

\* The tests on the way to m_uv_tx_ids.insert, none of which leaves a trace.
Unknown(tx) ==
    /\ tx.id \notin L.tx_map /\ tx.id \notin pool.m_uv_tx_ids
    /\ InWindow(tx, Height)

UnknownReg(tx) ==
    /\ ~Registered(L, tx.who) /\ tx.who \notin pool.m_uv_account_pubkeys
    /\ CanReg(L, tx) /\ tx.name \notin pool.m_uv_account_names

UnknownTopic(tx) == tx.id \notin DOMAIN L.topics

\* Mutant: a name that is taken in the pool may be taken again.
NewsUnnamed(tx) ==
    /\ Unknown(tx)
    /\ tx.type = "topic" => UnknownTopic(tx)

News(tx) ==
    /\ Unknown(tx)
    /\ tx.type = "reg" => UnknownReg(tx)
    /\ tx.type = "topic" => UnknownTopic(tx)

\* The id is remembered before the transaction is judged: one that is refused
\* stays known, although it is in no list.
Taken(tx, verdict) ==
    LET p == Remember(pool, tx)
    IN  CASE verdict = "wait"   -> Wait(p, tx)
          [] verdict = "ready"  -> Ready(p, tx)
          [] verdict = "drop"   -> p
          [] verdict = "punish" -> Punish(p, tx)

BroadcastReg(tx) == tx.type = "reg" /\ pool' = Taken(tx, JudgeReg(pool, tx))
BroadcastSend(tx) == tx.type = "send" /\ pool' = Taken(tx, JudgeSend(pool, tx))
BroadcastTopic(tx) == tx.type = "topic" /\ pool' = Taken(tx, JudgeTopic(pool, tx))
BroadcastReply(tx) == tx.type = "reply" /\ pool' = Taken(tx, JudgeReply(pool, tx))
BroadcastReward(tx) == tx.type = "reward" /\ pool' = Taken(tx, JudgeReward(pool, tx))

TxBroadcast(tx) ==
    /\ News(tx)
    /\ \/ BroadcastReg(tx) \/ BroadcastSend(tx) \/ BroadcastTopic(tx)
       \/ BroadcastReply(tx) \/ BroadcastReward(tx)
    /\ UNCHANGED <<cur, L, m_block_changed>>

-----------------------------------------------------------------------------
(* A wallet submits a transaction: the error it is told, or "none", and    *)
(* "close" where the connection is closed.                                 *)

RefusedReg(p, tx) ==
    IF Registered(L, tx.who) \/ tx.who \in p.m_uv_account_pubkeys THEN "PUBKEY_EXIST"
    ELSE IF ~InWindow(tx, Height) THEN "SIGN_EXPIRED"
    ELSE IF (\E a \in DOMAIN L.name : L.name[a] = tx.name) \/ tx.name \in p.m_uv_account_names
    THEN "NAME_EXIST"
    ELSE IF ~Registered(L, tx.from) THEN "REFERRER_NOT_EXIST"
    ELSE IF Lacks(p, tx, FEE) THEN "REFERRER_BALANCE_NOT_ENOUGH" ELSE "none"

RefusedSend(p, tx) ==
    IF Lacks(p, tx, Cost(tx)) THEN "BALANCE_NOT_ENOUGH"
    ELSE IF ~Registered(L, tx.to) THEN "RECEIVER_NOT_EXIST" ELSE "none"

RefusedTopic(p, tx) ==
    IF tx.id \in DOMAIN L.topics THEN "TOPIC_EXIST"
    ELSE IF Len(L.own[tx.from]) + p.m_uv_topic[tx.from] >= MAX_TOPIC
    THEN "TOPIC_NUM_EXCEED_LIMIT"
    ELSE IF Lacks(p, tx, Cost(tx)) THEN "BALANCE_NOT_ENOUGH" ELSE "none"

RefusedReply(p, tx) ==
    IF ~Live(tx) \/ Over(tx) THEN "TOPIC_NOT_EXIST"
    ELSE LET t == L.topics[tx.topic]
         IN  IF Missing(t, tx) THEN "REPLY_NOT_EXIST"
             ELSE IF tx.reply_to # None /\ ~IsPlain(t, tx.reply_to) THEN "close"
             ELSE IF Full(p, tx) THEN "REPLY_NUM_EXCEED_LIMIT"
             ELSE IF Lacks(p, tx, FEE) THEN "BALANCE_NOT_ENOUGH"
             ELSE IF JoinsTooMany(p, tx) THEN "JOINED_TOPIC_NUM_EXCEED_LIMIT"
             ELSE "none"

RefusedReward(p, tx) ==
    IF Lacks(p, tx, FEE + tx.amount) THEN "BALANCE_NOT_ENOUGH"
    ELSE IF ~Live(tx) \/ Over(tx) THEN "TOPIC_NOT_EXIST"
    ELSE LET t == L.topics[tx.topic]
         IN  IF t.owner # tx.from THEN "close"
             ELSE IF Full(p, tx) THEN "REPLY_NUM_EXCEED_LIMIT"
             ELSE IF LacksForReward(p, tx) THEN "TOPIC_BALANCE_NOT_ENOUGH"
             ELSE IF Missing(t, tx) THEN "REPLY_NOT_EXIST"
             ELSE IF ~IsPlain(t, tx.reply_to) \/ ReplyOwner(t, tx.reply_to) = tx.from
             THEN "close" ELSE "none"

RefusedUser(p, tx) ==
    IF ~InWindow(tx, Height) THEN "TX_EXPIRED"
    ELSE IF ~Registered(L, tx.from) THEN "PUBKEY_NOT_REGISTERED"
    ELSE CASE tx.type = "send"   -> RefusedSend(p, tx)
           [] tx.type = "topic"  -> RefusedTopic(p, tx)
           [] tx.type = "reply"  -> RefusedReply(p, tx)
           [] tx.type = "reward" -> RefusedReward(p, tx)

\* Mutant: a wallet may submit what waits in the pool.
RefusedConfirmed(p, tx) ==
    IF tx.id \in L.tx_map THEN "TX_EXIST"
    ELSE IF tx.type = "reg" THEN RefusedReg(p, tx) ELSE RefusedUser(p, tx)

Refused(p, tx) ==
    IF tx.id \in L.tx_map \/ tx.id \in p.m_uv_tx_ids THEN "TX_EXIST"
    ELSE IF tx.type = "reg" THEN RefusedReg(p, tx) ELSE RefusedUser(p, tx)

Submit(tx) ==
    /\ Refused(pool, tx) = "none"
    /\ pool' = Ready(Remember(pool, tx), tx)
    /\ UNCHANGED <<cur, L, m_block_changed>>

(* The console makes transactions for the next block only, or, for a       *)
(* registration, for the block the referrer signed.                        *)

ConsoleSend(tx) ==
    /\ tx.type = "send" /\ tx.bid = Height
    /\ Registered(L, tx.from) /\ ~Lacks(pool, tx, Cost(tx)) /\ Registered(L, tx.to)
    /\ tx.id \notin L.tx_map \cup pool.m_uv_tx_ids

ConsoleReg(tx) ==
    /\ tx.type = "reg" /\ InWindow(tx, Height)
    /\ CanReg(L, tx) /\ tx.name \notin pool.m_uv_account_names
    /\ tx.who \notin pool.m_uv_account_pubkeys
    /\ Registered(L, tx.from) /\ ~Lacks(pool, tx, FEE)
    /\ tx.id \notin L.tx_map \cup pool.m_uv_tx_ids

Console(tx) ==
    /\ ConsoleSend(tx) \/ ConsoleReg(tx)
    /\ pool' = Ready(Remember(pool, tx), tx)
    /\ UNCHANGED <<cur, L, m_block_changed>>

\* import_privkey and enable_mine: the job for the miner is due anew.
NewKey ==
    /\ ~m_block_changed /\ m_block_changed' = TRUE
    /\ UNCHANGED <<cur, L, pool>>

ClearUvTx ==
    /\ world.clear
    /\ pool' = [pool EXCEPT !.m_uv_1_txs = <<>>, !.m_uv_2_txs = <<>>]
    /\ UNCHANGED <<cur, L, m_block_changed>>

-----------------------------------------------------------------------------
(* The chain moves: back to f, then on to b. b may be where it came from:  *)
(* the way there was then taken back to a heavier block that failed.       *)

Created(f) == {tx.id : tx \in {t \in UNION {ToSet(Txs[a]) : a \in Path[f]} : t.type = "topic"}}

\* Account and Topic objects that are made again begin without counts: all but
\* these accounts and topics.
Fresh(p, accounts, topics) ==
    LET Keep(fn, kept) == [x \in DOMAIN fn |-> IF x \in kept THEN fn[x] ELSE 0]
    IN  [p EXCEPT !.anew = @ \/ \E tx \in ToSet(p.m_uv_2_txs) :
                                   \/ tx.from \notin accounts
                                   \/ OnTopic(tx) /\ tx.topic \notin topics,
                  !.m_uv_spend = Keep(@, accounts),
                  !.m_uv_topic = Keep(@, accounts),
                  !.m_uv_join_topic = Keep(@, accounts),
                  !.m_uv_reply = Keep(@, topics),
                  !.m_uv_reward = Keep(@, topics)]

Reorganise(f, b) ==
    /\ f \in Path[cur] \cap (world.fork \cup {cur}) /\ f \in Path[b]
    /\ <<f, b>> # <<cur, cur>>
    /\ Pow[b] >= Pow[cur]
    /\ cur' = b /\ L' = Ledgers[b]
    /\ m_block_changed' = TRUE
    /\ pool' = Fresh(pool, DOMAIN Ledgers[f].referrer, Created(f))

Next ==
    /\ \/ \E tx \in world.txs : TxBroadcast(tx) \/ Submit(tx) \/ Console(tx)
       \/ \E f, b \in world.blocks : Reorganise(f, b)
       \/ do_uv_tx
       \/ NewKey
       \/ ClearUvTx
    /\ UNCHANGED world

Spec == Init /\ [][Next]_vars

-----------------------------------------------------------------------------
(* Properties.                                                             *)

Listed == ToSet(pool.m_uv_1_txs) \cup ToSet(pool.m_uv_2_txs)
ListedIds == {tx.id : tx \in Listed}
ReadyTxs == ToSet(pool.m_uv_2_txs)

\* Types of the pool.
TypeOK ==
    /\ cur \in Block /\ m_block_changed \in BOOLEAN
    /\ pool.m_uv_1_txs \in Seq(Tx) /\ pool.m_uv_2_txs \in Seq(Tx)
    /\ pool.m_uv_3_txs \subseteq Tx /\ pool.punished \subseteq Tx
    /\ pool.m_uv_spend \in [User -> 0..(WORD - 1)] /\ pool.m_uv_topic \in [User -> Nat]
    /\ pool.m_uv_join_topic \in [User -> Nat]
    /\ pool.m_uv_reply \in [Topic -> Nat] /\ pool.m_uv_reward \in [Topic -> 0..(WORD - 1)]

\* Through admission on three ways, promotion, removal, clear_uv_tx and
\* reorganisations, no transaction is listed twice, and no two registrations
\* compete for a name or a pubkey; the sets that guard this know all that is
\* listed.
ListedOnce ==
    LET txs == pool.m_uv_1_txs \o pool.m_uv_2_txs
    IN  /\ Cardinality(ListedIds) = Len(txs)
        /\ ListedIds \subseteq pool.m_uv_tx_ids
        /\ \A s, t \in {tx \in Listed : tx.type = "reg"} :
              s # t => s.name # t.name /\ s.who # t.who
        /\ \A t \in {tx \in Listed : tx.type = "reg"} :
              t.name \in pool.m_uv_account_names /\ t.who \in pool.m_uv_account_pubkeys

\* Between batches of messages the pool fits the chain, whichever way the
\* chain went: nothing listed is confirmed, outside its window, or a
\* registration of an account or name that exists.
PoolFitsChain ==
    ~m_block_changed => \A tx \in Listed :
        /\ tx.id \notin L.tx_map /\ InWindow(tx, Height)
        /\ tx.type = "reg" => CanReg(L, tx)

\* What account a, or topic k, holds for transactions that are not ready any more.
Vain(count, ready) == IF count > ready THEN count - ready ELSE 0
Total(weight, txs) == FoldLeft(LAMBDA n, tx : n + weight[tx], 0, txs)

CoinsOf(a) == [tx \in Tx |-> IF tx.from = a THEN Cost(tx) ELSE 0]
TopicsOf(a) == [tx \in Tx |-> One(tx.from = a /\ tx.type = "topic")]
JoinsOf(p, a) == [tx \in Tx |-> One(tx.from = a /\ tx.id \in p.joins)]
RepliesOn(k) == [tx \in Tx |-> One(OnTopic(tx) /\ tx.topic = k)]
RewardsOn(k) == [tx \in Tx |-> IF tx.type = "reward" /\ tx.topic = k THEN tx.amount ELSE 0]

VainCoins(p, a) == Vain(p.m_uv_spend[a], Total(CoinsOf(a), p.m_uv_2_txs))
VainTopics(p, a) == Vain(p.m_uv_topic[a], Total(TopicsOf(a), p.m_uv_2_txs))
VainJoins(p, a) == Vain(p.m_uv_join_topic[a], Total(JoinsOf(p, a), p.m_uv_2_txs))
VainReplies(p, k) == Vain(p.m_uv_reply[k], Total(RepliesOn(k), p.m_uv_2_txs))
VainRewards(p, k) == Vain(p.m_uv_reward[k], Total(RewardsOn(k), p.m_uv_2_txs))

\* No step but clear_uv_tx makes an account or a topic hold coins or slots in
\* vain: what is counted for a ready transaction is given back when it leaves the
\* pool, whatever happened to account and topic meanwhile. Only a topic that is
\* over just then is not told, and a reorganisation may bring it back.
NothingLocked ==
    [][~ClearUvTx =>
        /\ \A a \in User : Registered(L, a) /\ Registered(L', a) =>
              /\ VainCoins(pool', a) <= VainCoins(pool, a)
              /\ VainTopics(pool', a) <= VainTopics(pool, a)
              /\ VainJoins(pool', a) <= VainJoins(pool, a)
        /\ \A k \in Topic : k \in DOMAIN L.topics \cap DOMAIN L'.topics =>
              /\ VainReplies(pool', k) <= VainReplies(pool, k)
              /\ VainRewards(pool', k) <= VainRewards(pool, k)]_vars

\* The counts are a plan that holds: if each ready transaction could be mined
\* alone, and the counts of each account and topic fit what it has, then
\* mine_tx gets all ready transactions into one block. Unless an account or a
\* topic was made anew, and with it the counts, while its transactions stayed,
\* or a huge amount made a sum of coins wrap: then the count of an account stands
\* for less than its transactions cost.
PlanHolds ==
    ( /\ ~m_block_changed /\ ~pool.anew /\ ~pool.wrapped
      /\ \A tx \in ReadyTxs : Mined(<<tx>>) # <<>>
      /\ \A a \in DOMAIN L.referrer :
            /\ pool.m_uv_spend[a] <= L.balance[a]
            /\ Len(L.own[a]) + pool.m_uv_topic[a] <= MAX_TOPIC
            /\ Len(L.joined[a]) + pool.m_uv_join_topic[a] <= MAX_JOIN
      /\ \A k \in DOMAIN L.topics :
            /\ Len(L.topics[k].replies) + pool.m_uv_reply[k] <= MAX_REPLY
            /\ pool.m_uv_reward[k] <= L.topics[k].balance )
    => ToSet(Mined(pool.m_uv_2_txs)) = ReadyTxs

\* A peer is punished only for a transaction that no block of any branch could
\* hold: it passes on what it found ready, and branches differ.
OnlyLiarsPunished ==
    \A tx \in pool.punished, b \in Block :
        Trial(Ledgers[b], Id[b] + 1, <<tx>>, Old(b)).mined = <<>>

\* The handler for peers and the one for wallets, written apart, agree on what
\* is ready.
WalletsAndPeersAgree ==
    \A tx \in world.txs : Refused(pool, tx) = "none"
                      <=> News(tx) /\ Judge(pool, tx) = "ready"

\* What was ready leaves the pool only if it could not be mined any more.
ReadyNotDropped ==
    [][do_uv_tx => \A tx \in ReadyTxs \ ToSet(pool'.m_uv_2_txs) :
            Mined(<<tx>>) = <<>>]_vars
=============================================================================
