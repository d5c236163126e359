------------------------------- MODULE Ledger -------------------------------
(***************************************************************************)
(* The account book a block changes: accounts, balances, topics, replies,  *)
(* memberships, the window of recent transactions, and what is kept to     *)
(* undo a block. It has no variables: each operator takes the ledger       *)
(* before an operation of the code and returns the ledger after it.        *)
(*                                                                         *)
(* The same code stands five times in the source: in finish_detail         *)
(* (node.cpp), mine_tx, mined_new_block, switch_chain (and its twin        *)
(* switch_to_most_difficult) and start (blockchain.cpp), and its inverse   *)
(* three times: in finish_detail, mine_tx and rollback.                    *)
(***************************************************************************)
EXTENDS Integers, SequencesExt

CONSTANTS
    LIFE,           \* TOPIC_LIFE_TIME, blocks a topic lives
    WINDOW,         \* 100 in the code: how far a block_id may be off
    MAX_TOPIC,      \* 100: topics an account may own
    MAX_JOIN,       \* 100: topics an account may have joined
    MAX_REPLY,      \* 1000: replies of a topic
    BLOCK_REWARD,   \* 5000
    TOTAL,          \* 10^12, all coins
    Reserve,        \* the reserve fund, account 0
    Author,         \* the pubkey of account 1, the only one without referrer
    AuthorName,
    None            \* no account, no reply

ASSUME LedgerAssumption ==
    /\ {LIFE, WINDOW, MAX_TOPIC, MAX_JOIN, MAX_REPLY, BLOCK_REWARD, TOTAL} \subseteq Nat
    /\ 2 * WINDOW <= LIFE /\ MAX_JOIN # 0
    /\ TOTAL % 2 = 0
    /\ Reserve # Author

FEE == 2

\* Transactions by type (1 to 5 in the code). bid is the block_id the sender
\* put into the transaction, which ties it to a window of blocks.
Reg(id, who, referrer, name, bid) ==
    [type |-> "reg", id |-> id, from |-> referrer, who |-> who, name |-> name, bid |-> bid]
Send(id, from, to, amount, bid) ==
    [type |-> "send", id |-> id, from |-> from, to |-> to, amount |-> amount, bid |-> bid]
NewTopic(id, from, amount, bid) ==
    [type |-> "topic", id |-> id, from |-> from, amount |-> amount, bid |-> bid]
NewReply(id, from, topic, reply_to, bid) ==
    [type |-> "reply", id |-> id, from |-> from, topic |-> topic, reply_to |-> reply_to, bid |-> bid]
Reward(id, from, topic, reply_to, amount, bid) ==
    [type |-> "reward", id |-> id, from |-> from, topic |-> topic,
     reply_to |-> reply_to, amount |-> amount, bid |-> bid]

Without(f, x) == [y \in DOMAIN f \ {x} |-> f[y]]
With(f, x, v) == [y \in DOMAIN f \cup {x} |-> IF y = x THEN v ELSE f[y]]

\* Account 0 and account 1 share all coins. The reserve fund has a name (its
\* own here) and a balance, but no pubkey: it can neither send nor receive.
GenesisLedger ==
    [ referrer  |-> [a \in {Author} |-> None],
      name      |-> [a \in {Reserve, Author} |-> IF a = Author THEN AuthorName ELSE Reserve],
      by_id     |-> <<Author>>,
      balance   |-> [a \in {Reserve, Author} |-> TOTAL \div 2],
      own       |-> [a \in {Author} |-> <<>>],
      joined    |-> [a \in {Author} |-> <<>>],
      topics    |-> <<>>,
      topic_list |-> <<>>,
      tx_map    |-> {},
      rollback_topics |-> <<>>,
      rollback_txs    |-> <<>>,
      sane      |-> TRUE ]

Registered(L, a) == a \in DOMAIN L.referrer
Credit(L, a, n) == [L EXCEPT !.balance[a] = @ + n]
Move(L, a, b, n) == Credit(Credit(L, a, 0 - n), b, n)

\* The half of the fee that does not go to the miner.
Patron(L, a) == IF L.referrer[a] = None THEN Reserve ELSE L.referrer[a]
PayFee(L, a) == Credit(Credit(L, Patron(L, a), 1), a, 0 - FEE)

\* Mutant: the patron keeps his half.
RefundFeeByReserve(L, a) == Credit(Credit(L, a, FEE), Reserve, 0 - 1)

RefundFee(L, a) == Credit(Credit(L, a, FEE), Patron(L, a), 0 - 1)

\* Topic::get_reply, as a position in the reply list (0: none).
Reply(t, key) == SelectInSeq(t.replies, LAMBDA r : r.key = key)
HasReply(t, key) == Reply(t, key) # 0
IsPlain(t, key) == HasReply(t, key) /\ t.replies[Reply(t, key)].type = 0
ReplyOwner(t, key) == t.replies[Reply(t, key)].owner

-----------------------------------------------------------------------------
(* What finish_detail tests before it applies a transaction, after the fee *)
(* of the sender (or referrer) was taken.                                  *)

\* Mutant: a transaction does not grow old.
InWindowForever(tx, id) == tx.bid # 0 /\ tx.bid <= id + WINDOW

InWindow(tx, id) ==
    /\ tx.bid # 0
    /\ tx.bid + WINDOW >= id
    /\ tx.bid <= id + WINDOW

CanReg(L, tx) ==
    /\ ~ Registered(L, tx.who)
    /\ \A a \in DOMAIN L.name : L.name[a] # tx.name

\* Mutant: the balance is not looked at.
CanSendUncovered(L, tx) == tx.amount # 0 /\ Registered(L, tx.to)

CanSend(L, tx) ==
    /\ tx.amount # 0
    /\ L.balance[tx.from] >= tx.amount
    /\ Registered(L, tx.to)

CanTopic(L, tx) ==
    /\ tx.amount # 0
    /\ L.balance[tx.from] >= tx.amount
    /\ tx.id \notin DOMAIN L.topics
    /\ Len(L.own[tx.from]) < MAX_TOPIC

Joins(L, tx) ==
    /\ L.topics[tx.topic].owner # tx.from
    /\ ~ Contains(L.joined[tx.from], tx.topic)

CanReply(L, tx) ==
    /\ tx.topic \in DOMAIN L.topics
    /\ LET t == L.topics[tx.topic] IN
          /\ Len(t.replies) < MAX_REPLY
          /\ tx.reply_to # None => IsPlain(t, tx.reply_to)
    /\ Joins(L, tx) => Len(L.joined[tx.from]) < MAX_JOIN

CanReward(L, tx) ==
    /\ tx.topic \in DOMAIN L.topics
    /\ tx.amount # 0
    /\ LET t == L.topics[tx.topic] IN
          /\ t.owner = tx.from
          /\ Len(t.replies) < MAX_REPLY
          /\ t.balance >= tx.amount
          /\ IsPlain(t, tx.reply_to)
          /\ ReplyOwner(t, tx.reply_to) # tx.from

CanApply(L, tx, id) ==
    /\ tx.id \notin L.tx_map
    /\ InWindow(tx, id)
    /\ Registered(L, tx.from)
    /\ L.balance[tx.from] >= FEE
    /\ LET F == PayFee(L, tx.from) IN
          \/ tx.type = "reg"    /\ CanReg(F, tx)
          \/ tx.type = "send"   /\ CanSend(F, tx)
          \/ tx.type = "topic"  /\ CanTopic(F, tx)
          \/ tx.type = "reply"  /\ CanReply(F, tx)
          \/ tx.type = "reward" /\ CanReward(F, tx)

-----------------------------------------------------------------------------
(* What each transaction does, the fee apart, and how it is undone.        *)

DoReg(L, tx) ==
    [L EXCEPT !.referrer = With(@, tx.who, tx.from),
              !.name     = With(@, tx.who, tx.name),
              !.by_id    = Append(@, tx.who),
              !.balance  = With(@, tx.who, 0),
              !.own      = With(@, tx.who, <<>>),
              !.joined   = With(@, tx.who, <<>>)]

UndoReg(L, tx) ==
    [L EXCEPT !.referrer = Without(@, tx.who),
              !.name     = Without(@, tx.who),
              !.by_id    = Front(@),
              !.balance  = Without(@, tx.who),
              !.own      = Without(@, tx.who),
              !.joined   = Without(@, tx.who)]

DoSend(L, tx) == Move(L, tx.from, tx.to, tx.amount)
UndoSend(L, tx) == Move(L, tx.to, tx.from, tx.amount)

DoTopic(L, tx, id) ==
    [Credit(L, tx.from, 0 - tx.amount) EXCEPT
        !.own[tx.from] = Append(@, tx.id),
        !.topic_list   = Append(@, tx.id),
        !.topics       = With(@, tx.id,
            [owner |-> tx.from, block_id |-> id, balance |-> tx.amount,
             members |-> <<>>, replies |-> <<>>])]

UndoTopic(L, tx) ==
    [Credit(L, tx.from, tx.amount) EXCEPT
        !.own[tx.from] = Front(@),
        !.topic_list   = Front(@),
        !.topics       = Without(@, tx.id)]

\* Topic::add_member
AddMember(members, tx) ==
    IF \E i \in DOMAIN members : members[i].account = tx.from THEN members
    ELSE Append(members, [tx |-> tx.id, account |-> tx.from])

DoReply(L, tx) ==
    LET reply == [key |-> tx.id, type |-> 0, owner |-> tx.from, balance |-> 0]
        M == IF Joins(L, tx)
             THEN [L EXCEPT !.joined[tx.from] = Append(@, tx.topic),
                            !.topics[tx.topic].members = AddMember(@, tx)]
             ELSE L
    IN  [M EXCEPT !.topics[tx.topic].replies = Append(@, reply)]

\* Mutant: who became a member by the reply stays one of the topic.
UndoReplyKeepsMember(L, tx) ==
    LET t == L.topics[tx.topic]
        M == [L EXCEPT !.topics[tx.topic].replies = Front(@)]
    IN  IF t.owner # tx.from /\ t.members # <<>> /\ Last(t.members).tx = tx.id
        THEN [M EXCEPT !.joined[tx.from] = Front(@)]
        ELSE M

\* The reply that made its author a member is recognised by its being the
\* last member's transaction; the topic it takes off the author's list is
\* whichever stands last there. (m_members.back() of an empty list, which
\* only lists that went wrong before lead to, reads bytes that are no tx id.)
UndoReply(L, tx) ==
    LET M == [L EXCEPT !.topics[tx.topic].replies = Front(@)]
        t == L.topics[tx.topic]
    IN  IF t.owner # tx.from /\ t.members # <<>> /\ Last(t.members).tx = tx.id
        THEN [M EXCEPT !.joined[tx.from] = Front(@),
                       !.topics[tx.topic].members = Front(@)]
        ELSE M

\* Reply::add_balance and, with a negative n, sub_balance
PayReply(replies, i, n) == [replies EXCEPT ![i].balance = @ + n]

DoReward(L, tx) ==
    LET t == L.topics[tx.topic]
        reply == [key |-> tx.id, type |-> 1, owner |-> tx.from, balance |-> tx.amount]
    IN  [Credit(L, ReplyOwner(t, tx.reply_to), tx.amount) EXCEPT
            !.topics[tx.topic].balance = @ - tx.amount,
            !.topics[tx.topic].replies =
                Append(PayReply(@, Reply(t, tx.reply_to), tx.amount), reply)]

UndoReward(L, tx) ==
    LET t == L.topics[tx.topic] IN
    [Credit(L, ReplyOwner(t, tx.reply_to), 0 - tx.amount) EXCEPT
        !.topics[tx.topic].balance = @ + tx.amount,
        !.topics[tx.topic].replies =
            Front(PayReply(@, Reply(t, tx.reply_to), 0 - tx.amount))]

Apply(L, tx, id) ==
    LET F == PayFee(L, tx.from)
        M == CASE tx.type = "reg"    -> DoReg(F, tx)
               [] tx.type = "send"   -> DoSend(F, tx)
               [] tx.type = "topic"  -> DoTopic(F, tx, id)
               [] tx.type = "reply"  -> DoReply(F, tx)
               [] tx.type = "reward" -> DoReward(F, tx)
    IN  [M EXCEPT !.tx_map = @ \cup {tx.id}]

Undo(L, tx) ==
    LET M == CASE tx.type = "reg"    -> UndoReg(L, tx)
               [] tx.type = "send"   -> UndoSend(L, tx)
               [] tx.type = "topic"  -> UndoTopic(L, tx)
               [] tx.type = "reply"  -> UndoReply(L, tx)
               [] tx.type = "reward" -> UndoReward(L, tx)
    IN  RefundFee([M EXCEPT !.tx_map = @ \ {tx.id}], tx.from)

-----------------------------------------------------------------------------
(* Expiry: block id retires the topics and transactions of the blocks      *)
(* before id - LIFE, and keeps them at index id - (LIFE + 1) for rollback. *)

Index(id) == id - (LIFE + 1)
Retires(id) == id >= LIFE + 2

\* The accounts that leave with a topic, and come back with it.
Members(t) == {t.members[i].account : i \in DOMAIN t.members}

\* Mutant: the coins of the topic go nowhere.
ExpireTopicWithCoins(L, i, key) ==
    LET t == L.topics[key] IN
    [L EXCEPT !.topics     = Without(@, key),
              !.topic_list = Tail(@),
              !.own[t.owner] = Tail(@),
              !.joined = [a \in DOMAIN @ |-> RemoveFirst(@[a], key)],
              !.rollback_topics[i] = <<[key |-> key, topic |-> t]>> \o @]

\* The oldest topic goes: its coins to the reserve fund, its members leave.
\* sane turns false where the code returns false and the process exits.
ExpireTopic(L, i, key) ==
    LET t == L.topics[key] IN
    IF L.own[t.owner] = <<>> \/ Head(L.own[t.owner]) # key
    THEN [L EXCEPT !.sane = FALSE]
    ELSE [Credit(L, Reserve, t.balance) EXCEPT
            !.topics     = Without(@, key),
            !.topic_list = Tail(@),
            !.own[t.owner] = Tail(@),
            !.joined = [a \in DOMAIN @ |->
                           IF a \in Members(t) THEN RemoveFirst(@[a], key) ELSE @[a]],
            !.rollback_topics[i] = <<[key |-> key, topic |-> t]>> \o @]

\* The topics at the front of m_topic_list that are too old.
Expired(L, id) ==
    LET young == SelectInSeq(L.topic_list, LAMBDA k : L.topics[k].block_id + LIFE >= id)
    IN  IF young = 0 THEN L.topic_list ELSE SubSeq(L.topic_list, 1, young - 1)

ProcTopicExpired(L, id) ==
    IF ~ Retires(id) THEN L
    ELSE LET M == [L EXCEPT !.rollback_topics =
                      With(Without(@, id - (2 * LIFE + 1)), Index(id), <<>>)]
         IN  FoldLeft(LAMBDA K, key : ExpireTopic(K, Index(id), key), M, Expired(L, id))

\* txs: the transactions of the main chain block at height Index(id).
ProcTxMap(L, id, txs) ==
    IF ~ Retires(id) THEN L
    ELSE [L EXCEPT !.rollback_txs =
                       With(Without(@, id - (2 * LIFE + 1)), Index(id), txs),
                   !.tx_map = @ \ txs,
                   !.sane   = @ /\ txs \subseteq L.tx_map]

Retire(L, id, txs) == ProcTxMap(ProcTopicExpired(L, id), id, txs)

RestoreTopic(L, saved) ==
    LET t == saved.topic IN
    [Credit(L, Reserve, 0 - t.balance) EXCEPT
        !.topics     = With(@, saved.key, t),
        !.topic_list = <<saved.key>> \o @,
        !.own[t.owner] = <<saved.key>> \o @,
        !.joined = [a \in DOMAIN @ |->
                       IF a \in Members(t) THEN <<saved.key>> \o @[a] ELSE @[a]]]

RestoreSaved(L, saved, txs) ==
    [FoldLeft(RestoreTopic, L, saved) EXCEPT !.tx_map = @ \cup txs]

\* std::map::operator[]: a missing entry reads as an empty one.
Kept(f, i, empty) == IF i \in DOMAIN f THEN f[i] ELSE empty

\* Mutant: the transactions that were retired stay forgotten.
RestoreTopicsOnly(L, id) ==
    IF id <= LIFE + 1 THEN L
    ELSE [RestoreSaved(L, Kept(L.rollback_topics, Index(id), <<>>), {}) EXCEPT
             !.rollback_topics = Without(@, Index(id)),
             !.rollback_txs    = Without(@, Index(id))]

\* The end of the fast loop of rollback, of the failure path of
\* finish_detail and of the trial in mine_tx.
Restore(L, id) ==
    IF id <= LIFE + 1 THEN L
    ELSE [RestoreSaved(L, Kept(L.rollback_topics, Index(id), <<>>),
                          Kept(L.rollback_txs, Index(id), {})) EXCEPT
             !.rollback_topics = Without(@, Index(id)),
             !.rollback_txs    = Without(@, Index(id))]

-----------------------------------------------------------------------------
(* Whole blocks: block id with transactions txs (a sequence), found by     *)
(* miner; old is the set of transactions that leave the window.            *)

\* The longest prefix of txs that applies, as finish_detail finds it.
ApplyAll(L, id, txs) ==
    FoldLeft(LAMBDA s, tx :
                IF s.ok /\ CanApply(s.ledger, tx, id)
                THEN [s EXCEPT !.ledger = Apply(@, tx, id), !.done = Append(@, tx)]
                ELSE [s EXCEPT !.ok = FALSE],
             [ok |-> TRUE, ledger |-> L, done |-> <<>>], txs)

UndoAll(L, txs) == FoldLeft(Undo, L, Reverse(txs))

GetsReward(L) == L.balance[Reserve] >= BLOCK_REWARD

PayMiner(L, miner, n) ==
    LET M == Credit(L, miner, n)
    IN  IF GetsReward(L) THEN Move(M, Reserve, miner, BLOCK_REWARD) ELSE M

UnpayMiner(L, miner, n, rewarded) ==
    LET M == IF rewarded THEN Move(L, miner, Reserve, BLOCK_REWARD) ELSE L
    IN  Credit(M, miner, 0 - n)

\* A block that verifies: ok, the ledger after it, and m_miner_reward. One
\* that does not: the ledger after finish_detail undid what it did of it.
ApplyBlock(L, id, miner, txs, old) ==
    IF ~ Registered(L, miner) THEN [ok |-> FALSE, ledger |-> L, rewarded |-> FALSE]
    ELSE LET s == ApplyAll(Retire(L, id, old), id, txs) IN
         IF s.ok
         THEN [ok |-> TRUE, ledger |-> PayMiner(s.ledger, miner, Len(txs)),
               rewarded |-> GetsReward(s.ledger)]
         ELSE [ok |-> FALSE, ledger |-> Restore(UndoAll(s.ledger, s.done), id),
               rewarded |-> FALSE]

\* One iteration of the loops of rollback, up to the retired topics.
UndoTxs(L, miner, txs, rewarded) ==
    UndoAll(UnpayMiner(L, miner, Len(txs), rewarded), txs)

\* One iteration of its fast loop.
UndoBlock(L, id, miner, txs, rewarded) ==
    Restore(UndoTxs(L, miner, txs, rewarded), id)

\* rollback leaves the fast loop where nothing is kept for block id.
CanUndoFast(L, id) == id > LIFE + 1 => Index(id) \in DOMAIN L.rollback_topics

\* One pass of mine_tx over the transactions still to be placed.
TrialPass(s, id) ==
    FoldLeft(LAMBDA r, tx :
                IF CanApply(r.ledger, tx, id)
                THEN [r EXCEPT !.ledger = Apply(@, tx, id), !.mined = Append(@, tx)]
                ELSE [r EXCEPT !.left = Append(@, tx)],
             [s EXCEPT !.left = <<>>], s.left)

\* mine_tx applies the pool in up to three passes, because transactions may
\* come before those they depend on, then undoes it all.
Trial(L, id, pool, old) ==
    LET s == [ledger |-> Retire(L, id, old), mined |-> <<>>, left |-> pool]
        t == TrialPass(TrialPass(TrialPass(s, id), id), id)
    IN  [mined |-> t.mined, ledger |-> Restore(UndoAll(t.ledger, t.mined), id)]
=============================================================================
