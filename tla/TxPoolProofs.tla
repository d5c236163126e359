--------------------------- MODULE TxPoolProofs ---------------------------
(***************************************************************************)
(* Proofs about TxPool, for every tree of blocks, every set of             *)
(* transactions and every bound of the ledger.                             *)
(***************************************************************************)
EXTENDS TxPool, FiniteSetTheorems, TLAPS

-----------------------------------------------------------------------------
\* The two handlers for what comes in are one test.
LEMMA SameTest ==
    ASSUME NEW p, NEW tx \in Tx,
           tx.id \notin L.tx_map /\ tx.id \notin p.m_uv_tx_ids
    PROVE  (IF tx.type = "reg" THEN RefusedReg(p, tx) ELSE RefusedUser(p, tx)) = "none"
           <=> /\ InWindow(tx, Height)
               /\ tx.type = "reg" => /\ ~Registered(L, tx.who)
                                     /\ tx.who \notin p.m_uv_account_pubkeys
                                     /\ CanReg(L, tx)
                                     /\ tx.name \notin p.m_uv_account_names
               /\ tx.type = "topic" => UnknownTopic(tx)
               /\ Judge(p, tx) = "ready"
<1>1. tx.type \in {"reg", "send", "topic", "reply", "reward"}
    BY TxPoolAssumption
<1>2. CASE tx.type = "reg"
    <2>1. Judge(p, tx) = JudgeReg(p, tx)
        BY <1>2 DEF Judge
    <2>2. CanReg(L, tx) <=> /\ ~Registered(L, tx.who)
                            /\ ~(\E a \in DOMAIN L.name : L.name[a] = tx.name)
        BY DEF CanReg
    <2> QED
        BY <1>2, <2>1, <2>2 DEF RefusedReg, JudgeReg
<1>3. CASE tx.type = "send"
    <2>1. Judge(p, tx) = JudgeSend(p, tx)
        BY <1>3 DEF Judge
    <2>2. RefusedUser(p, tx) = "none" <=>
            /\ InWindow(tx, Height) /\ Registered(L, tx.from)
            /\ RefusedSend(p, tx) = "none"
        BY <1>3 DEF RefusedUser
    <2> QED
        BY <1>3, <2>1, <2>2 DEF RefusedSend, JudgeSend
<1>4. CASE tx.type = "topic"
    <2>1. Judge(p, tx) = JudgeTopic(p, tx)
        BY <1>4 DEF Judge
    <2>2. RefusedUser(p, tx) = "none" <=>
            /\ InWindow(tx, Height) /\ Registered(L, tx.from)
            /\ RefusedTopic(p, tx) = "none"
        BY <1>4 DEF RefusedUser
    <2> QED
        BY <1>4, <2>1, <2>2 DEF RefusedTopic, JudgeTopic, UnknownTopic
<1>5. CASE tx.type = "reply"
    <2>1. Judge(p, tx) = JudgeReply(p, tx)
        BY <1>5 DEF Judge
    <2>2. RefusedUser(p, tx) = "none" <=>
            /\ InWindow(tx, Height) /\ Registered(L, tx.from)
            /\ RefusedReply(p, tx) = "none"
        BY <1>5 DEF RefusedUser
    <2> QED
        BY <1>5, <2>1, <2>2 DEF RefusedReply, JudgeReply
<1>6. CASE tx.type = "reward"
    <2>1. Judge(p, tx) = JudgeReward(p, tx)
        BY <1>6 DEF Judge
    <2>2. RefusedUser(p, tx) = "none" <=>
            /\ InWindow(tx, Height) /\ Registered(L, tx.from)
            /\ RefusedReward(p, tx) = "none"
        BY <1>6 DEF RefusedUser
    <2> QED
        BY <1>6, <2>1, <2>2 DEF RefusedReward, JudgeReward
<1> QED
    BY <1>1, <1>2, <1>3, <1>4, <1>5, <1>6

-----------------------------------------------------------------------------
(* The types of a pool, and what each helper does to its fields.           *)

Fields == {"m_uv_1_txs", "m_uv_2_txs", "m_uv_3_txs", "m_uv_tx_ids",
           "m_uv_account_names", "m_uv_account_pubkeys", "m_uv_spend", "m_uv_topic",
           "m_uv_join_topic", "m_uv_reply", "m_uv_reward", "anew", "wrapped", "joins",
           "punished"}

Counts(S, f) == f \in [S -> Nat]
Coins(S, f) == f \in [S -> 0 .. (WORD - 1)]

Typed(p) ==
    /\ DOMAIN p = Fields
    /\ p.m_uv_1_txs \in Seq(Tx) /\ p.m_uv_2_txs \in Seq(Tx)
    /\ p.m_uv_3_txs \subseteq Tx /\ p.punished \subseteq Tx
    /\ Counts(User, p.m_uv_spend) /\ Counts(User, p.m_uv_topic)
    /\ Counts(User, p.m_uv_join_topic)
    /\ Counts(Topic, p.m_uv_reply) /\ Counts(Topic, p.m_uv_reward)
    /\ Coins(User, p.m_uv_spend) /\ Coins(Topic, p.m_uv_reward)

\* Counts stay natural numbers.
LEMMA CountTyped ==
    ASSUME NEW S, NEW f, Counts(S, f), NEW x, NEW n, n \in Nat
    PROVE  Counts(S, Plus(f, x, n)) /\ Counts(S, Less(f, x, n))
<1> USE DEF Counts
<1>1. Plus(f, x, n) = [y \in S |-> IF y = x THEN f[x] + n ELSE f[y]]
    BY DEF Plus
<1>2. Less(f, x, n) = [y \in S |-> IF y = x THEN IF f[x] >= n THEN f[x] - n ELSE 0 ELSE f[y]]
    BY DEF Less
<1>3. \A y \in S : f[y] \in Nat
    OBVIOUS
<1> QED
    BY <1>1, <1>2, <1>3

\* Sums of coins stay words.
LEMMA CoinsTyped ==
    ASSUME NEW S, NEW f, Coins(S, f), NEW x, NEW n, n \in Nat
    PROVE  /\ Counts(S, f)
           /\ Coins(S, PlusCoins(f, x, n)) /\ Coins(S, Less(f, x, n))
           /\ Counts(S, PlusCoins(f, x, n))
           /\ \A y \in S : PlusCoins(f, x, n)[y] <= IF y = x THEN f[y] + n ELSE f[y]
<1>1. WORD \in Nat /\ WORD > 0
    BY TxPoolAssumption DEF FEE
<1>2. PlusCoins(f, x, n) = [y \in S |-> IF y = x THEN (f[x] + n) % WORD ELSE f[y]]
    BY DEF PlusCoins, Coins
<1>3. Less(f, x, n) = [y \in S |-> IF y = x THEN IF f[x] >= n THEN f[x] - n ELSE 0 ELSE f[y]]
    BY DEF Less, Coins
<1>4. \A y \in S : f[y] \in Nat /\ f[y] \in 0 .. (WORD - 1)
    BY <1>1 DEF Coins
<1>5. \A a \in Nat : a % WORD \in 0 .. (WORD - 1) /\ a % WORD <= a
    <2> SUFFICES ASSUME NEW a \in Nat PROVE a % WORD \in 0 .. (WORD - 1) /\ a % WORD <= a
        OBVIOUS
    <2>1. /\ a = WORD * (a \div WORD) + (a % WORD)
          /\ a \div WORD \in Nat /\ a % WORD \in 0 .. (WORD - 1)
        BY <1>1
    <2>2. WORD * (a \div WORD) >= 0
        BY <1>1, <2>1
    <2> QED
        BY <1>1, <2>1, <2>2
<1>6. \A y \in S : f[y] + n \in Nat
    BY <1>4
<1>7. \A y \in S : /\ PlusCoins(f, x, n)[y] \in 0 .. (WORD - 1)
                   /\ PlusCoins(f, x, n)[y] <= IF y = x THEN f[y] + n ELSE f[y]
    BY <1>1, <1>2, <1>4, <1>5, <1>6
<1>8. \A y \in S : Less(f, x, n)[y] \in 0 .. (WORD - 1)
    BY <1>1, <1>3, <1>4
<1>9. Coins(S, PlusCoins(f, x, n)) /\ Coins(S, Less(f, x, n))
    BY <1>2, <1>3, <1>7, <1>8 DEF Coins
<1>10. Counts(S, f) /\ Counts(S, PlusCoins(f, x, n))
    BY <1>1, <1>4, <1>9 DEF Coins, Counts
<1> QED
    BY <1>7, <1>9, <1>10

\* What a transaction costs and adds is a natural number.
LEMMA AmountTyped ==
    ASSUME NEW tx \in Tx
    PROVE  /\ Cost(tx) \in Nat
           /\ \A b : One(b) \in Nat
           /\ (IF tx.type = "reward" THEN tx.amount ELSE 0) \in Nat
<1>1. WORD \in Nat /\ 2 < WORD
    BY TxPoolAssumption DEF FEE
<1>2. tx.type \in {"send", "topic", "reward"} => tx.amount \in Nat
    BY <1>1, TxPoolAssumption
<1>3. \A a \in Nat : a % WORD \in Nat
    BY <1>1
<1> QED
    BY <1>2, <1>3 DEF Cost, One, FEE

\* The fields two pools differ in.
Same(p, q, changed) ==
    DOMAIN q = Fields /\ \A f \in Fields \ changed : q[f] = p[f]

\* A ready transaction, counted.
LEMMA ReadyIs ==
    ASSUME NEW p, Typed(p), NEW tx \in Tx, NEW q, q = Ready(p, tx)
    PROVE  /\ Typed(q)
           /\ Same(p, q, {"m_uv_2_txs", "m_uv_spend", "m_uv_topic", "m_uv_join_topic",
                          "m_uv_reply", "m_uv_reward", "joins", "wrapped"})
           /\ q.m_uv_2_txs = Append(p.m_uv_2_txs, tx)
           /\ q.m_uv_spend = PlusCoins(p.m_uv_spend, tx.from, Cost(tx))
           /\ q.m_uv_topic = Plus(p.m_uv_topic, tx.from, One(tx.type = "topic"))
           /\ \/ /\ q.joins = p.joins \cup {tx.id}
                 /\ q.m_uv_join_topic = Plus(p.m_uv_join_topic, tx.from, 1)
              \/ /\ q.joins = p.joins
                 /\ q.m_uv_join_topic = Plus(p.m_uv_join_topic, tx.from, 0)
           /\ ~OnTopic(tx) => q.m_uv_reply = p.m_uv_reply /\ q.m_uv_reward = p.m_uv_reward
           /\ OnTopic(tx) => /\ q.m_uv_reply = Plus(p.m_uv_reply, tx.topic, 1)
                             /\ q.m_uv_reward = PlusCoins(p.m_uv_reward, tx.topic,
                                    IF tx.type = "reward" THEN tx.amount ELSE 0)
<1>1. DOMAIN q = Fields
    BY DEF Ready, Typed
<1>2. Same(p, q, {"m_uv_2_txs", "m_uv_spend", "m_uv_topic", "m_uv_join_topic",
                  "m_uv_reply", "m_uv_reward", "joins", "wrapped"})
    BY <1>1 DEF Same, Ready, Typed, Fields
<1>3. /\ q.m_uv_2_txs = Append(p.m_uv_2_txs, tx)
      /\ q.m_uv_spend = PlusCoins(p.m_uv_spend, tx.from, Cost(tx))
      /\ q.m_uv_topic = Plus(p.m_uv_topic, tx.from, One(tx.type = "topic"))
    BY DEF Ready, Typed, Fields
<1>4. \/ /\ q.joins = p.joins \cup {tx.id}
         /\ q.m_uv_join_topic = Plus(p.m_uv_join_topic, tx.from, 1)
      \/ /\ q.joins = p.joins
         /\ q.m_uv_join_topic = Plus(p.m_uv_join_topic, tx.from, 0)
    BY DEF Ready, Typed, Fields, One
<1>5. ~OnTopic(tx) => q.m_uv_reply = p.m_uv_reply /\ q.m_uv_reward = p.m_uv_reward
    BY DEF Ready, Typed, Fields
<1>6. OnTopic(tx) => /\ q.m_uv_reply = Plus(p.m_uv_reply, tx.topic, 1)
                     /\ q.m_uv_reward = PlusCoins(p.m_uv_reward, tx.topic,
                            IF tx.type = "reward" THEN tx.amount ELSE 0)
    BY DEF Ready, Typed, Fields
<1>7. Typed(q)
    <2>1. Counts(User, q.m_uv_spend) /\ Counts(User, q.m_uv_topic)
        BY <1>3, CountTyped, CoinsTyped, AmountTyped DEF Typed
    <2>2. Counts(User, q.m_uv_join_topic)
        BY <1>4, CountTyped DEF Typed
    <2>3. Counts(Topic, q.m_uv_reply) /\ Counts(Topic, q.m_uv_reward)
        BY <1>5, <1>6, CountTyped, CoinsTyped, AmountTyped DEF Typed
    <2>4. Coins(User, q.m_uv_spend) /\ Coins(Topic, q.m_uv_reward)
        BY <1>3, <1>5, <1>6, CoinsTyped, AmountTyped DEF Typed
    <2> QED
        BY <1>1, <1>2, <1>3, <2>1, <2>2, <2>3, <2>4 DEF Typed, Same, Fields
<1> QED
    BY <1>2, <1>3, <1>4, <1>5, <1>6, <1>7

\* What is given back when a transaction leaves.
LEMMA ReleaseIs ==
    ASSUME NEW p, Typed(p), NEW tx \in Tx, NEW q, q = Release(p, tx)
    PROVE  /\ Typed(q)
           /\ Same(p, q, {"m_uv_spend", "m_uv_topic", "m_uv_join_topic",
                          "m_uv_reply", "m_uv_reward"})
           /\ Registered(L, tx.from) =>
                /\ q.m_uv_spend = Less(p.m_uv_spend, tx.from, Cost(tx))
                /\ q.m_uv_topic = Less(p.m_uv_topic, tx.from, One(tx.type = "topic"))
                /\ q.m_uv_join_topic = Less(p.m_uv_join_topic, tx.from, One(tx.id \in p.joins))
           /\ ~Registered(L, tx.from) =>
                /\ q.m_uv_spend = p.m_uv_spend
                /\ q.m_uv_topic = p.m_uv_topic
                /\ q.m_uv_join_topic = p.m_uv_join_topic
           /\ OnTopic(tx) /\ Live(tx) =>
                /\ q.m_uv_reply = Less(p.m_uv_reply, tx.topic, 1)
                /\ q.m_uv_reward = Less(p.m_uv_reward, tx.topic,
                        IF tx.type = "reward" THEN tx.amount ELSE 0)
           /\ ~(OnTopic(tx) /\ Live(tx)) =>
                /\ q.m_uv_reply = p.m_uv_reply
                /\ q.m_uv_reward = p.m_uv_reward
<1> DEFINE r == ReleaseAccount(p, tx)
<1>1. /\ DOMAIN r = Fields
      /\ Same(p, r, {"m_uv_spend", "m_uv_topic", "m_uv_join_topic"})
    BY DEF ReleaseAccount, Typed, Same, Fields
<1>2. Registered(L, tx.from) =>
        /\ r.m_uv_spend = Less(p.m_uv_spend, tx.from, Cost(tx))
        /\ r.m_uv_topic = Less(p.m_uv_topic, tx.from, One(tx.type = "topic"))
        /\ r.m_uv_join_topic = Less(p.m_uv_join_topic, tx.from, One(tx.id \in p.joins))
    BY DEF ReleaseAccount, Typed, Fields
<1>3. ~Registered(L, tx.from) => r = p
    BY DEF ReleaseAccount
<1>4. q = ReleaseTopic(r, tx)
    BY DEF Release
<1> HIDE DEF r
<1>5. Same(r, q, {"m_uv_reply", "m_uv_reward"})
    BY <1>1, <1>4 DEF ReleaseTopic, Same, Fields
<1>6. OnTopic(tx) /\ Live(tx) =>
        /\ q.m_uv_reply = Less(r.m_uv_reply, tx.topic, 1)
        /\ q.m_uv_reward = Less(r.m_uv_reward, tx.topic,
                IF tx.type = "reward" THEN tx.amount ELSE 0)
    BY <1>1, <1>4 DEF ReleaseTopic, Fields
<1>7. ~(OnTopic(tx) /\ Live(tx)) => q = r
    BY <1>4 DEF ReleaseTopic
<1>8. r.m_uv_reply = p.m_uv_reply /\ r.m_uv_reward = p.m_uv_reward
    BY <1>1 DEF Same, Fields
<1>9. /\ q.m_uv_spend = r.m_uv_spend /\ q.m_uv_topic = r.m_uv_topic
      /\ q.m_uv_join_topic = r.m_uv_join_topic
    BY <1>5 DEF Same, Fields
<1>10. Same(p, q, {"m_uv_spend", "m_uv_topic", "m_uv_join_topic",
                   "m_uv_reply", "m_uv_reward"})
    BY <1>1, <1>5 DEF Same
<1>11. Typed(q)
    <2>1. /\ Counts(User, q.m_uv_spend) /\ Counts(User, q.m_uv_topic)
          /\ Counts(User, q.m_uv_join_topic)
        BY <1>2, <1>3, <1>9, CountTyped, AmountTyped DEF Typed
    <2>2. Counts(Topic, q.m_uv_reply) /\ Counts(Topic, q.m_uv_reward)
        BY <1>6, <1>7, <1>8, CountTyped, AmountTyped DEF Typed
    <2>3. Coins(User, q.m_uv_spend) /\ Coins(Topic, q.m_uv_reward)
        BY <1>2, <1>3, <1>6, <1>7, <1>8, <1>9, CoinsTyped, AmountTyped DEF Typed
    <2> QED
        BY <1>10, <2>1, <2>2, <2>3 DEF Typed, Same, Fields
<1> QED
    BY <1>2, <1>3, <1>6, <1>7, <1>8, <1>9, <1>10, <1>11

\* A transaction that is forgotten, or remembered.
LEMMA ForgetIs ==
    ASSUME NEW p, Typed(p), NEW tx \in Tx, NEW q, q = Forget(p, tx)
    PROVE  /\ Typed(q)
           /\ Same(p, q, {"m_uv_tx_ids", "joins", "m_uv_account_names",
                          "m_uv_account_pubkeys"})
           /\ q.m_uv_tx_ids = p.m_uv_tx_ids \ {tx.id}
           /\ q.joins = p.joins \ {tx.id}
           /\ tx.type = "reg" =>
                /\ q.m_uv_account_names = p.m_uv_account_names \ {tx.name}
                /\ q.m_uv_account_pubkeys = p.m_uv_account_pubkeys \ {tx.who}
           /\ tx.type # "reg" =>
                /\ q.m_uv_account_names = p.m_uv_account_names
                /\ q.m_uv_account_pubkeys = p.m_uv_account_pubkeys
<1>1. Same(p, q, {"m_uv_tx_ids", "joins", "m_uv_account_names", "m_uv_account_pubkeys"})
    BY DEF Forget, Typed, Same, Fields
<1>2. Typed(q)
    BY <1>1 DEF Typed, Same, Fields
<1> QED
    BY <1>1, <1>2 DEF Forget, Typed, Fields

\* What remember adds: the id, and for a registration the name and the key.
LEMMA RememberIs ==
    ASSUME NEW p, Typed(p), NEW tx \in Tx, NEW q, q = Remember(p, tx)
    PROVE  /\ Typed(q)
           /\ Same(p, q, {"m_uv_tx_ids", "m_uv_account_names", "m_uv_account_pubkeys"})
           /\ q.m_uv_tx_ids = p.m_uv_tx_ids \cup {tx.id}
           /\ tx.type = "reg" =>
                /\ q.m_uv_account_names = p.m_uv_account_names \cup {tx.name}
                /\ q.m_uv_account_pubkeys = p.m_uv_account_pubkeys \cup {tx.who}
           /\ tx.type # "reg" =>
                /\ q.m_uv_account_names = p.m_uv_account_names
                /\ q.m_uv_account_pubkeys = p.m_uv_account_pubkeys
<1>1. Same(p, q, {"m_uv_tx_ids", "m_uv_account_names", "m_uv_account_pubkeys"})
    BY DEF Remember, Typed, Same, Fields
<1>2. Typed(q)
    BY <1>1 DEF Typed, Same, Fields
<1> QED
    BY <1>1, <1>2 DEF Remember, Typed, Fields

\* One that waits, and one a peer is punished for.
LEMMA WaitIs ==
    ASSUME NEW p, Typed(p), NEW tx \in Tx, NEW q, q = Wait(p, tx)
    PROVE  /\ Typed(q)
           /\ Same(p, q, {"m_uv_1_txs"})
           /\ q.m_uv_1_txs = Append(p.m_uv_1_txs, tx)
<1>1. Same(p, q, {"m_uv_1_txs"}) /\ q.m_uv_1_txs = Append(p.m_uv_1_txs, tx)
    BY DEF Wait, Typed, Same, Fields
<1> QED
    BY <1>1 DEF Typed, Same, Fields

\* Punishing a peer touches nothing but the set of the punished.
LEMMA PunishIs ==
    ASSUME NEW p, Typed(p), NEW tx \in Tx, NEW q, q = Punish(p, tx)
    PROVE  Typed(q) /\ Same(p, q, {"punished"})
<1>1. Same(p, q, {"punished"}) /\ q.punished = p.punished \cup {tx}
    BY DEF Punish, Typed, Same, Fields
<1> QED
    BY <1>1 DEF Typed, Same, Fields

-----------------------------------------------------------------------------
(* Each transaction has one place: in one of the two lists, or, while      *)
(* do_uv_tx is at work, in the rest of the list its loop goes over.        *)

All(p, rest) == ToSet(p.m_uv_1_txs) \cup ToSet(p.m_uv_2_txs) \cup rest

OnePlace(p, rest) ==
    /\ IsInjective(p.m_uv_1_txs) /\ IsInjective(p.m_uv_2_txs)
    /\ ToSet(p.m_uv_1_txs) \cap ToSet(p.m_uv_2_txs) = {}
    /\ ToSet(p.m_uv_1_txs) \cap rest = {}
    /\ ToSet(p.m_uv_2_txs) \cap rest = {}

\* Whoever has a place is known.
Known(p, T) ==
    \A t \in T : /\ t.id \in p.m_uv_tx_ids
                 /\ t.type = "reg" => /\ t.name \in p.m_uv_account_names
                                      /\ t.who \in p.m_uv_account_pubkeys

\* No two registrations want the same.
Apart(T) ==
    \A s, t \in T : s.type = "reg" /\ t.type = "reg" /\ s # t =>
        s.name # t.name /\ s.who # t.who

Sound(p, rest) ==
    /\ Typed(p)
    /\ rest \subseteq Tx
    /\ OnePlace(p, rest)
    /\ Known(p, All(p, rest))
    /\ Apart(All(p, rest))

\* A list with one more.
LEMMA AppendIs ==
    ASSUME NEW s \in Seq(Tx), NEW x \in Tx
    PROVE  /\ Append(s, x) \in Seq(Tx)
           /\ ToSet(Append(s, x)) = ToSet(s) \cup {x}
           /\ IsInjective(s) /\ x \notin ToSet(s) => IsInjective(Append(s, x))
<1> DEFINE t == Append(s, x)
<1>1. /\ t \in Seq(Tx) /\ Len(t) = Len(s) + 1 /\ Len(s) \in Nat
      /\ DOMAIN s = 1 .. Len(s) /\ DOMAIN t = 1 .. Len(s) + 1
      /\ \A i \in 1 .. Len(s) : t[i] = s[i]
      /\ t[Len(s) + 1] = x
    OBVIOUS
<1> HIDE DEF t
<1>2. \A i \in DOMAIN t : i \in DOMAIN s \/ i = Len(s) + 1
    BY <1>1
<1>3. DOMAIN s \subseteq DOMAIN t /\ Len(s) + 1 \in DOMAIN t /\ Len(s) + 1 \notin DOMAIN s
    BY <1>1
<1>4. ToSet(t) = ToSet(s) \cup {x}
    BY <1>1, <1>2, <1>3 DEF ToSet
<1>5. IsInjective(s) /\ x \notin ToSet(s) => IsInjective(t)
    BY <1>1, <1>2 DEF ToSet, IsInjective
<1> QED
    BY <1>1, <1>4, <1>5 DEF t

\* The lists hold transactions.
LEMMA ListsTyped ==
    ASSUME NEW p, Typed(p)
    PROVE  ToSet(p.m_uv_1_txs) \subseteq Tx /\ ToSet(p.m_uv_2_txs) \subseteq Tx
BY DEF Typed, ToSet

\* A transaction that leaves the rest for one of the lists.
LEMMA Placed ==
    ASSUME NEW p, NEW rest, Sound(p, rest), NEW x \in rest, NEW q, Typed(q),
           q.m_uv_tx_ids = p.m_uv_tx_ids,
           q.m_uv_account_names = p.m_uv_account_names,
           q.m_uv_account_pubkeys = p.m_uv_account_pubkeys,
           \/ q.m_uv_1_txs = Append(p.m_uv_1_txs, x) /\ q.m_uv_2_txs = p.m_uv_2_txs
           \/ q.m_uv_1_txs = p.m_uv_1_txs /\ q.m_uv_2_txs = Append(p.m_uv_2_txs, x)
    PROVE  Sound(q, rest \ {x})
<1>1. p.m_uv_1_txs \in Seq(Tx) /\ p.m_uv_2_txs \in Seq(Tx) /\ x \in Tx
    BY DEF Sound, Typed
<1>2. x \notin ToSet(p.m_uv_1_txs) /\ x \notin ToSet(p.m_uv_2_txs)
    BY DEF Sound, OnePlace
<1>3. All(q, rest \ {x}) = All(p, rest) /\ OnePlace(q, rest \ {x})
    <2>1. CASE q.m_uv_1_txs = Append(p.m_uv_1_txs, x) /\ q.m_uv_2_txs = p.m_uv_2_txs
        <3>1. /\ ToSet(q.m_uv_1_txs) = ToSet(p.m_uv_1_txs) \cup {x}
              /\ IsInjective(p.m_uv_1_txs) => IsInjective(q.m_uv_1_txs)
            BY <1>1, <1>2, <2>1, AppendIs
        <3> QED
            BY <1>2, <2>1, <3>1 DEF All, Sound, OnePlace
    <2>2. CASE q.m_uv_1_txs = p.m_uv_1_txs /\ q.m_uv_2_txs = Append(p.m_uv_2_txs, x)
        <3>1. /\ ToSet(q.m_uv_2_txs) = ToSet(p.m_uv_2_txs) \cup {x}
              /\ IsInjective(p.m_uv_2_txs) => IsInjective(q.m_uv_2_txs)
            BY <1>1, <1>2, <2>2, AppendIs
        <3> QED
            BY <1>2, <2>2, <3>1 DEF All, Sound, OnePlace
    <2> QED
        BY <2>1, <2>2
<1>4. Known(q, All(p, rest))
    BY DEF Sound, Known
<1> QED
    BY <1>3, <1>4 DEF Sound

\* One that leaves the pool, and is forgotten: what the others need stays.
LEMMA Gone ==
    ASSUME NEW p, NEW rest, Sound(p, rest), NEW x \in rest, NEW r, Typed(r),
           r.m_uv_1_txs = p.m_uv_1_txs, r.m_uv_2_txs = p.m_uv_2_txs,
           r.m_uv_tx_ids = p.m_uv_tx_ids,
           r.m_uv_account_names = p.m_uv_account_names,
           r.m_uv_account_pubkeys = p.m_uv_account_pubkeys,
           NEW q, q = Forget(r, x)
    PROVE  /\ Sound(q, rest \ {x})
           /\ q.m_uv_1_txs = p.m_uv_1_txs /\ q.m_uv_2_txs = p.m_uv_2_txs
<1>1. x \in Tx /\ All(p, rest) \subseteq Tx
    BY ListsTyped DEF Sound, All
<1>2. /\ Typed(q)
      /\ Same(r, q, {"m_uv_tx_ids", "joins", "m_uv_account_names", "m_uv_account_pubkeys"})
      /\ q.m_uv_tx_ids = r.m_uv_tx_ids \ {x.id}
      /\ x.type = "reg" =>
            /\ q.m_uv_account_names = r.m_uv_account_names \ {x.name}
            /\ q.m_uv_account_pubkeys = r.m_uv_account_pubkeys \ {x.who}
      /\ x.type # "reg" =>
            /\ q.m_uv_account_names = r.m_uv_account_names
            /\ q.m_uv_account_pubkeys = r.m_uv_account_pubkeys
    BY <1>1, ForgetIs
<1>3. q.m_uv_1_txs = p.m_uv_1_txs /\ q.m_uv_2_txs = p.m_uv_2_txs
    BY <1>2 DEF Same, Fields
<1>4. OnePlace(q, rest \ {x})
    BY <1>3 DEF Sound, OnePlace
<1>5. All(q, rest \ {x}) \subseteq All(p, rest)
    BY <1>3 DEF All
<1>6. x \in All(p, rest) /\ x \notin All(q, rest \ {x})
    BY <1>3 DEF Sound, OnePlace, All
<1>7. Known(q, All(q, rest \ {x}))
    <2> SUFFICES ASSUME NEW t \in All(q, rest \ {x})
                 PROVE  /\ t.id \in q.m_uv_tx_ids
                        /\ t.type = "reg" => /\ t.name \in q.m_uv_account_names
                                             /\ t.who \in q.m_uv_account_pubkeys
        BY DEF Known
    <2>1. t \in All(p, rest) /\ t # x /\ t \in Tx
        BY <1>1, <1>5, <1>6
    <2>2. t.id # x.id
        BY <1>1, <2>1, TxPoolAssumption
    <2>3. /\ t.id \in p.m_uv_tx_ids
          /\ t.type = "reg" => /\ t.name \in p.m_uv_account_names
                               /\ t.who \in p.m_uv_account_pubkeys
        BY <2>1 DEF Sound, Known
    <2>4. t.type = "reg" /\ x.type = "reg" => t.name # x.name /\ t.who # x.who
        BY <1>6, <2>1 DEF Sound, Apart
    <2> QED
        BY <1>2, <2>2, <2>3, <2>4
<1>8. Apart(All(q, rest \ {x}))
    BY <1>5 DEF Sound, Apart
<1> QED
    BY <1>1, <1>2, <1>3, <1>4, <1>7, <1>8 DEF Sound

-----------------------------------------------------------------------------
(* One turn of each loop of do_uv_tx.                                      *)

\* Fit for the next block, as far as no other transaction matters.
Fits(tx) ==
    /\ tx.id \notin L.tx_map
    /\ InWindow(tx, Height)
    /\ tx.type = "reg" => CanReg(L, tx)

CountFields == {"m_uv_spend", "m_uv_topic", "m_uv_join_topic", "m_uv_reply", "m_uv_reward"}
SameCounts(p, q) == \A f \in CountFields : q[f] = p[f]

\* What a pool becomes when x leaves it without having been counted.
Dropped(p, x, q) ==
    /\ q.m_uv_1_txs = p.m_uv_1_txs /\ q.m_uv_2_txs = p.m_uv_2_txs
    /\ SameCounts(p, q) /\ q.joins = p.joins \ {x.id}

Waits(p, x, q) ==
    /\ q.m_uv_1_txs = Append(p.m_uv_1_txs, x) /\ q.m_uv_2_txs = p.m_uv_2_txs
    /\ SameCounts(p, q) /\ q.joins = p.joins

\* The four verdicts of do_uv_tx on a waiting transaction.
LEMMA JudgeIs ==
    ASSUME NEW p, NEW x \in Tx
    PROVE  Judge(p, x) \in {"wait", "drop", "punish", "ready"}
<1>1. x.type \in {"reg", "send", "topic", "reply", "reward"}
    BY TxPoolAssumption
<1> QED
    BY <1>1 DEF Judge, JudgeReg, JudgeSend, JudgeTopic, JudgeReply, JudgeReward

\* One turn of the first loop of do_uv_tx: the transaction goes, waits on or is ready.
LEMMA WaitingTurn ==
    ASSUME NEW p, NEW rest, Sound(p, rest), NEW x \in rest,
           NEW q, q = LookAtWaiting(p, x)
    PROVE  /\ Sound(q, rest \ {x})
           /\ \/ Dropped(p, x, q)
              \/ Waits(p, x, q) /\ Fits(x)
              \/ q = Ready(p, x) /\ Fits(x)
<1>1. Typed(p) /\ x \in Tx
    BY DEF Sound
<1>2. ~Useless(x) => Fits(x)
    BY DEF Useless, Fits
<1>3. ASSUME q = Forget(p, x)
      PROVE  Sound(q, rest \ {x}) /\ Dropped(p, x, q)
    <2>1. Sound(q, rest \ {x}) /\ q.m_uv_1_txs = p.m_uv_1_txs /\ q.m_uv_2_txs = p.m_uv_2_txs
        BY <1>1, <1>3, Gone
    <2>2. /\ Same(p, q, {"m_uv_tx_ids", "joins", "m_uv_account_names", "m_uv_account_pubkeys"})
          /\ q.joins = p.joins \ {x.id}
        BY <1>1, <1>3, ForgetIs
    <2> QED
        BY <2>1, <2>2 DEF Dropped, SameCounts, CountFields, Same, Fields
<1>4. ASSUME q = Forget(Punish(p, x), x)
      PROVE  Sound(q, rest \ {x}) /\ Dropped(p, x, q)
    <2> DEFINE r == Punish(p, x)
    <2>1. Typed(r) /\ Same(p, r, {"punished"})
        BY <1>1, PunishIs
    <2>2. q = Forget(r, x)
        BY <1>4
    <2> HIDE DEF r
    <2>3. /\ r.m_uv_1_txs = p.m_uv_1_txs /\ r.m_uv_2_txs = p.m_uv_2_txs
          /\ r.m_uv_tx_ids = p.m_uv_tx_ids
          /\ r.m_uv_account_names = p.m_uv_account_names
          /\ r.m_uv_account_pubkeys = p.m_uv_account_pubkeys
          /\ r.joins = p.joins /\ SameCounts(p, r)
        BY <2>1 DEF Same, Fields, SameCounts, CountFields
    <2>4. Sound(q, rest \ {x}) /\ q.m_uv_1_txs = p.m_uv_1_txs /\ q.m_uv_2_txs = p.m_uv_2_txs
        BY <1>1, <2>1, <2>2, <2>3, Gone
    <2>5. /\ Same(r, q, {"m_uv_tx_ids", "joins", "m_uv_account_names", "m_uv_account_pubkeys"})
          /\ q.joins = r.joins \ {x.id}
        BY <1>1, <2>1, <2>2, ForgetIs
    <2> QED
        BY <2>3, <2>4, <2>5 DEF Dropped, SameCounts, CountFields, Same, Fields
<1>5. ASSUME q = Wait(p, x)
      PROVE  Sound(q, rest \ {x}) /\ Waits(p, x, q)
    <2>1. /\ Typed(q) /\ Same(p, q, {"m_uv_1_txs"})
          /\ q.m_uv_1_txs = Append(p.m_uv_1_txs, x)
        BY <1>1, <1>5, WaitIs
    <2>2. /\ q.m_uv_2_txs = p.m_uv_2_txs
          /\ q.m_uv_tx_ids = p.m_uv_tx_ids
          /\ q.m_uv_account_names = p.m_uv_account_names
          /\ q.m_uv_account_pubkeys = p.m_uv_account_pubkeys
          /\ q.joins = p.joins /\ SameCounts(p, q)
        BY <2>1 DEF Same, Fields, SameCounts, CountFields
    <2>3. Sound(q, rest \ {x})
        BY <2>1, <2>2, Placed
    <2> QED
        BY <2>1, <2>2, <2>3 DEF Waits
<1>6. ASSUME q = Ready(p, x)
      PROVE  Sound(q, rest \ {x})
    <2>1. /\ Typed(q)
          /\ Same(p, q, {"m_uv_2_txs", "m_uv_spend", "m_uv_topic", "m_uv_join_topic",
                         "m_uv_reply", "m_uv_reward", "joins", "wrapped"})
          /\ q.m_uv_2_txs = Append(p.m_uv_2_txs, x)
        BY <1>1, <1>6, ReadyIs
    <2>2. /\ q.m_uv_1_txs = p.m_uv_1_txs
          /\ q.m_uv_tx_ids = p.m_uv_tx_ids
          /\ q.m_uv_account_names = p.m_uv_account_names
          /\ q.m_uv_account_pubkeys = p.m_uv_account_pubkeys
        BY <2>1 DEF Same, Fields
    <2> QED
        BY <2>1, <2>2, Placed
<1>7. CASE Useless(x)
    BY <1>3, <1>7 DEF LookAtWaiting
<1>8. CASE ~Useless(x)
    <2>1. Judge(p, x) \in {"wait", "drop", "punish", "ready"}
        BY <1>1, JudgeIs
    <2>2. CASE Judge(p, x) = "wait"
        BY <1>2, <1>5, <1>8, <2>2 DEF LookAtWaiting
    <2>3. CASE Judge(p, x) = "drop"
        BY <1>3, <1>8, <2>3 DEF LookAtWaiting
    <2>4. CASE Judge(p, x) = "punish"
        BY <1>4, <1>8, <2>4 DEF LookAtWaiting
    <2>5. CASE Judge(p, x) = "ready"
        BY <1>2, <1>6, <1>8, <2>5 DEF LookAtWaiting
    <2> QED
        BY <2>1, <2>2, <2>3, <2>4, <2>5
<1> QED
    BY <1>7, <1>8

\* A ready transaction stays as it is, or leaves and gives back its counts.
Stays(p, x, q) == q = [p EXCEPT !.m_uv_2_txs = Append(@, x)]
Leaves(p, x, q) ==
    /\ q.m_uv_1_txs = p.m_uv_1_txs /\ q.m_uv_2_txs = p.m_uv_2_txs
    /\ SameCounts(Release(p, x), q) /\ q.joins = p.joins \ {x.id}

\* One turn of the second loop of do_uv_tx: the transaction stays or leaves.
LEMMA ReadyTurn ==
    ASSUME NEW p, NEW rest, Sound(p, rest), NEW x \in rest,
           NEW q, q = LookAtReady(p, x)
    PROVE  /\ Sound(q, rest \ {x})
           /\ \/ Leaves(p, x, q)
              \/ Stays(p, x, q) /\ Fits(x)
<1> DEFINE r == Release(p, x)
           f == Forget(r, x)
<1>1. Typed(p) /\ x \in Tx
    BY DEF Sound
<1>2. /\ Typed(r)
      /\ Same(p, r, {"m_uv_spend", "m_uv_topic", "m_uv_join_topic",
                     "m_uv_reply", "m_uv_reward"})
    BY <1>1, ReleaseIs
<1>3. /\ r.m_uv_1_txs = p.m_uv_1_txs /\ r.m_uv_2_txs = p.m_uv_2_txs
      /\ r.m_uv_tx_ids = p.m_uv_tx_ids
      /\ r.m_uv_account_names = p.m_uv_account_names
      /\ r.m_uv_account_pubkeys = p.m_uv_account_pubkeys
      /\ r.joins = p.joins
    BY <1>2 DEF Same, Fields
<1>4. /\ Sound(f, rest \ {x})
      /\ f.m_uv_1_txs = p.m_uv_1_txs /\ f.m_uv_2_txs = p.m_uv_2_txs
    <2> HIDE DEF r
    <2> QED
        BY <1>1, <1>2, <1>3, Gone
<1>5. Leaves(p, x, f)
    <2>1. /\ Same(r, f, {"m_uv_tx_ids", "joins", "m_uv_account_names",
                         "m_uv_account_pubkeys"})
          /\ f.joins = r.joins \ {x.id}
        BY <1>1, <1>2, ForgetIs
    <2> HIDE DEF f
    <2> QED
        BY <1>3, <1>4, <2>1 DEF Leaves, SameCounts, CountFields, Same, Fields
<1> HIDE DEF f, r
<1>6. CASE q = f
    BY <1>4, <1>5, <1>6
<1>7. CASE q = [f EXCEPT !.m_uv_3_txs = @ \cup {x}]
    <2>1. Typed(f)
        BY <1>4 DEF Sound
    <2>2. /\ DOMAIN q = Fields
          /\ \A g \in Fields \ {"m_uv_3_txs"} : q[g] = f[g]
          /\ q.m_uv_3_txs = f.m_uv_3_txs \cup {x}
        BY <1>7, <2>1 DEF Typed, Fields
    <2>3. Typed(q)
        BY <1>1, <2>1, <2>2 DEF Typed, Fields
    <2>4. /\ q.m_uv_1_txs = f.m_uv_1_txs /\ q.m_uv_2_txs = f.m_uv_2_txs
          /\ q.m_uv_tx_ids = f.m_uv_tx_ids
          /\ q.m_uv_account_names = f.m_uv_account_names
          /\ q.m_uv_account_pubkeys = f.m_uv_account_pubkeys
          /\ q.joins = f.joins /\ SameCounts(f, q)
        BY <2>2 DEF Fields, SameCounts, CountFields
    <2>5. Sound(q, rest \ {x})
        <3>1. /\ All(q, rest \ {x}) = All(f, rest \ {x})
              /\ OnePlace(f, rest \ {x}) => OnePlace(q, rest \ {x})
            BY <2>4 DEF All, OnePlace
        <3> QED
            BY <1>4, <2>3, <2>4, <3>1 DEF Sound, Known
    <2>6. Leaves(p, x, q)
        BY <1>5, <2>4 DEF Leaves, SameCounts
    <2> QED
        BY <2>5, <2>6
<1>8. ASSUME q = [p EXCEPT !.m_uv_2_txs = Append(@, x)]
      PROVE  Sound(q, rest \ {x}) /\ Stays(p, x, q)
    <2>1. /\ DOMAIN q = Fields
          /\ \A g \in Fields \ {"m_uv_2_txs"} : q[g] = p[g]
          /\ q.m_uv_2_txs = Append(p.m_uv_2_txs, x)
        BY <1>1, <1>8 DEF Typed, Fields
    <2>2. Append(p.m_uv_2_txs, x) \in Seq(Tx)
        BY <1>1 DEF Typed
    <2>3. Typed(q)
        BY <1>1, <2>1, <2>2 DEF Typed, Fields
    <2>4. /\ q.m_uv_1_txs = p.m_uv_1_txs
          /\ q.m_uv_tx_ids = p.m_uv_tx_ids
          /\ q.m_uv_account_names = p.m_uv_account_names
          /\ q.m_uv_account_pubkeys = p.m_uv_account_pubkeys
        BY <2>1 DEF Fields
    <2>5. Sound(q, rest \ {x})
        BY <2>1, <2>3, <2>4, Placed
    <2> QED
        BY <2>5, <1>8 DEF Stays
<1>9. \/ q = f
      \/ q = [f EXCEPT !.m_uv_3_txs = @ \cup {x}]
      \/ Fits(x) /\ q = [p EXCEPT !.m_uv_2_txs = Append(@, x)]
    BY DEF LookAtReady, Fits, f, r
<1> QED
    BY <1>6, <1>7, <1>8, <1>9

-----------------------------------------------------------------------------
(* The loops. What is left of list s after i turns is Rest(s, i).          *)

TurnWaiting(c, p, tx) == LookAtWaiting(p, tx)
TurnReady(c, p, tx) == LookAtReady(p, tx)
WaitingLoop == INSTANCE FoldFacts WITH op <- TurnWaiting
ReadyLoop == INSTANCE FoldFacts WITH op <- TurnReady

Rest(s, i) == {s[j] : j \in i + 1 .. Len(s)}

\* The rest as the loop sees it.
LEMMA RestIs ==
    ASSUME NEW s \in Seq(Tx)
    PROVE  /\ Len(s) \in Nat /\ DOMAIN s = 1 .. Len(s)
           /\ Rest(s, 0) = ToSet(s)
           /\ Rest(s, Len(s)) = {}
           /\ \A i \in 0 .. Len(s) : i < Len(s) =>
                /\ i + 1 \in 1 .. Len(s) /\ (i + 1) - 1 = i
                /\ s[i + 1] \in Rest(s, i)
                /\ IsInjective(s) => Rest(s, i + 1) = Rest(s, i) \ {s[i + 1]}
<1>1. Len(s) \in Nat /\ DOMAIN s = 1 .. Len(s)
    OBVIOUS
<1>2. Rest(s, 0) = ToSet(s)
    <2>1. 0 + 1 .. Len(s) = 1 .. Len(s)
        BY <1>1
    <2> QED
        BY <1>1, <2>1 DEF Rest, ToSet
<1>3. Rest(s, Len(s)) = {}
    BY <1>1 DEF Rest
<1>4. ASSUME NEW i \in 0 .. Len(s), i < Len(s)
      PROVE  /\ i + 1 \in 1 .. Len(s) /\ (i + 1) - 1 = i
             /\ s[i + 1] \in Rest(s, i)
             /\ IsInjective(s) => Rest(s, i + 1) = Rest(s, i) \ {s[i + 1]}
    <2>1. i + 1 \in 1 .. Len(s) /\ (i + 1) - 1 = i
        BY <1>1, <1>4
    <2>2. i + 1 \in i + 1 .. Len(s)
        BY <1>1, <1>4
    <2>3. s[i + 1] \in Rest(s, i)
        BY <2>2 DEF Rest
    <2>4. \A j : j \in i + 1 .. Len(s) <=> j = i + 1 \/ j \in (i + 1) + 1 .. Len(s)
        BY <1>1, <1>4
    <2>5. i + 1 \notin (i + 1) + 1 .. Len(s)
        BY <1>1, <1>4
    <2>6. \A j \in i + 1 .. Len(s) : j \in DOMAIN s
        BY <1>1, <1>4
    <2>7. ASSUME IsInjective(s) PROVE Rest(s, i + 1) = Rest(s, i) \ {s[i + 1]}
        BY <1>1, <2>1, <2>4, <2>5, <2>6, <2>7 DEF Rest, IsInjective
    <2> QED
        BY <2>1, <2>3, <2>7
<1> QED
    BY <1>1, <1>2, <1>3, <1>4

\* The pool as the loops begin and end with it.
Emptied1(p) == [p EXCEPT !.m_uv_1_txs = <<>>]
Emptied2(p) == [p EXCEPT !.m_uv_2_txs = <<>>]
First(p) == FoldLeft(LookAtWaiting, Emptied1(p), p.m_uv_1_txs)
Second(p) == FoldLeft(LookAtReady, Emptied2(First(p)), First(p).m_uv_2_txs)

\* do_uv_tx, as its two loops one after the other.
LEMMA LookedIs ==
    ASSUME NEW p
    PROVE  Looked(p) = [Second(p) EXCEPT !.m_uv_3_txs = {tx \in @ : InWindow(tx, Height)}]
BY DEF Looked, First, Second, Emptied1, Emptied2

\* The empty list.
LEMMA NoneListed ==
    <<>> \in Seq(Tx) /\ ToSet(<<>>) = {} /\ IsInjective(<<>>)
BY DEF ToSet, IsInjective

\* The first loop starts with an empty waiting list; all that waited is its rest.
LEMMA Emptied1Is ==
    ASSUME NEW p, Sound(p, {}), NEW q, q = Emptied1(p)
    PROVE  /\ Sound(q, ToSet(p.m_uv_1_txs))
           /\ Same(p, q, {"m_uv_1_txs"}) /\ q.m_uv_1_txs = <<>>
<1>1. Typed(p)
    BY DEF Sound
<1>2. Same(p, q, {"m_uv_1_txs"}) /\ q.m_uv_1_txs = <<>>
    BY <1>1 DEF Emptied1, Same, Typed, Fields
<1>3. Typed(q)
    BY <1>1, <1>2, NoneListed DEF Typed, Same, Fields
<1>4. /\ q.m_uv_2_txs = p.m_uv_2_txs /\ q.m_uv_tx_ids = p.m_uv_tx_ids
      /\ q.m_uv_account_names = p.m_uv_account_names
      /\ q.m_uv_account_pubkeys = p.m_uv_account_pubkeys
    BY <1>2 DEF Same, Fields
<1>5. ToSet(q.m_uv_1_txs) = {} /\ IsInjective(q.m_uv_1_txs)
    BY <1>2, NoneListed
<1>6. All(q, ToSet(p.m_uv_1_txs)) = All(p, {})
    BY <1>4, <1>5 DEF All
<1>7. OnePlace(q, ToSet(p.m_uv_1_txs))
    BY <1>4, <1>5 DEF Sound, OnePlace
<1> QED
    BY <1>1, <1>2, <1>3, <1>4, <1>6, <1>7, ListsTyped DEF Sound, Known

\* The second loop starts with an empty ready list; all that was ready is its rest.
LEMMA Emptied2Is ==
    ASSUME NEW p, Sound(p, {}), NEW q, q = Emptied2(p)
    PROVE  /\ Sound(q, ToSet(p.m_uv_2_txs))
           /\ Same(p, q, {"m_uv_2_txs"}) /\ q.m_uv_2_txs = <<>>
<1>1. Typed(p)
    BY DEF Sound
<1>2. Same(p, q, {"m_uv_2_txs"}) /\ q.m_uv_2_txs = <<>>
    BY <1>1 DEF Emptied2, Same, Typed, Fields
<1>3. Typed(q)
    BY <1>1, <1>2, NoneListed DEF Typed, Same, Fields
<1>4. /\ q.m_uv_1_txs = p.m_uv_1_txs /\ q.m_uv_tx_ids = p.m_uv_tx_ids
      /\ q.m_uv_account_names = p.m_uv_account_names
      /\ q.m_uv_account_pubkeys = p.m_uv_account_pubkeys
    BY <1>2 DEF Same, Fields
<1>5. ToSet(q.m_uv_2_txs) = {} /\ IsInjective(q.m_uv_2_txs)
    BY <1>2, NoneListed
<1>6. All(q, ToSet(p.m_uv_2_txs)) = All(p, {})
    BY <1>4, <1>5 DEF All
<1>7. OnePlace(q, ToSet(p.m_uv_2_txs))
    BY <1>4, <1>5 DEF Sound, OnePlace
<1> QED
    BY <1>1, <1>2, <1>3, <1>4, <1>6, <1>7, ListsTyped DEF Sound, Known

\* The states of the first loop, each sound with what is left to look at.
WaitingStates(p, run) ==
    LET s == p.m_uv_1_txs
    IN  /\ run[0] = Emptied1(p) /\ First(p) = run[Len(s)]
        /\ \A i \in 0 .. Len(s) : Sound(run[i], Rest(s, i))
        /\ \A i \in 0 .. Len(s) : i < Len(s) => run[i + 1] = LookAtWaiting(run[i], s[i + 1])

\* The first loop passes through sound pools, from the emptied one to First.
LEMMA WaitingRun ==
    ASSUME NEW p, Sound(p, {})
    PROVE  \E run : WaitingStates(p, run)
<1> DEFINE s == p.m_uv_1_txs
<1>1. s \in Seq(Tx) /\ IsInjective(s)
    BY DEF Sound, Typed, OnePlace
<1>2. Len(s) \in Nat /\ DOMAIN s = 1 .. Len(s)
    BY <1>1, RestIs
<1>3. PICK run : /\ WaitingLoop!IsRun(0, Emptied1(p), s, run)
                 /\ WaitingLoop!Fold(0, Emptied1(p), s) = run[Len(s)]
    BY <1>2, WaitingLoop!FoldRuns
<1>4. WaitingLoop!Fold(0, Emptied1(p), s) = First(p)
    BY DEF WaitingLoop!Fold, WaitingLoop!MapThenFoldSet, WaitingLoop!Greatest,
           FoldLeft, MapThenFoldSet, Max, First, TurnWaiting
<1>5. run[0] = Emptied1(p)
    BY <1>3 DEF WaitingLoop!IsRun
<1>6. ASSUME NEW i \in 0 .. Len(s), i < Len(s)
      PROVE  run[i + 1] = LookAtWaiting(run[i], s[i + 1])
    BY <1>1, <1>3, <1>6, RestIs DEF WaitingLoop!IsRun, TurnWaiting
<1> DEFINE T == {i \in 0 .. Len(s) : Sound(run[i], Rest(s, i))}
<1>7. 0 \in T
    BY <1>1, <1>2, <1>5, RestIs, Emptied1Is
<1>8. \A i \in 0 .. Len(s) : i \in T /\ i < Len(s) => i + 1 \in T
    <2> SUFFICES ASSUME NEW i \in 0 .. Len(s), Sound(run[i], Rest(s, i)), i < Len(s)
                 PROVE  Sound(run[i + 1], Rest(s, i + 1))
        BY <1>2
    <2>1. s[i + 1] \in Rest(s, i) /\ Rest(s, i + 1) = Rest(s, i) \ {s[i + 1]}
        BY <1>1, RestIs
    <2>2. Sound(run[i + 1], Rest(s, i) \ {s[i + 1]})
        BY <1>6, <2>1, WaitingTurn
    <2> QED
        BY <2>1, <2>2
<1> HIDE DEF T
<1>9. 0 .. Len(s) \subseteq T
    BY <1>2, <1>7, <1>8, WaitingLoop!Induct
<1>10. WaitingStates(p, run)
    BY <1>3, <1>4, <1>5, <1>6, <1>9 DEF WaitingStates, T
<1> QED
    BY <1>10

\* The states of the second loop, from the pool q the first loop leaves.
ReadyStates(q, run) ==
    LET s == q.m_uv_2_txs
    IN  /\ run[0] = Emptied2(q) /\ FoldLeft(LookAtReady, Emptied2(q), s) = run[Len(s)]
        /\ \A i \in 0 .. Len(s) : Sound(run[i], Rest(s, i))
        /\ \A i \in 0 .. Len(s) : i < Len(s) => run[i + 1] = LookAtReady(run[i], s[i + 1])

\* The second loop passes through sound pools.
LEMMA ReadyRun ==
    ASSUME NEW q, Sound(q, {})
    PROVE  \E run : ReadyStates(q, run)
<1> DEFINE s == q.m_uv_2_txs
<1>1. s \in Seq(Tx) /\ IsInjective(s)
    BY DEF Sound, Typed, OnePlace
<1>2. Len(s) \in Nat /\ DOMAIN s = 1 .. Len(s)
    BY <1>1, RestIs
<1>3. PICK run : /\ ReadyLoop!IsRun(0, Emptied2(q), s, run)
                 /\ ReadyLoop!Fold(0, Emptied2(q), s) = run[Len(s)]
    BY <1>2, ReadyLoop!FoldRuns
<1>4. ReadyLoop!Fold(0, Emptied2(q), s) = FoldLeft(LookAtReady, Emptied2(q), s)
    BY DEF ReadyLoop!Fold, ReadyLoop!MapThenFoldSet, ReadyLoop!Greatest,
           FoldLeft, MapThenFoldSet, Max, TurnReady
<1>5. run[0] = Emptied2(q)
    BY <1>3 DEF ReadyLoop!IsRun
<1>6. ASSUME NEW i \in 0 .. Len(s), i < Len(s)
      PROVE  run[i + 1] = LookAtReady(run[i], s[i + 1])
    BY <1>1, <1>3, <1>6, RestIs DEF ReadyLoop!IsRun, TurnReady
<1> DEFINE T == {i \in 0 .. Len(s) : Sound(run[i], Rest(s, i))}
<1>7. 0 \in T
    BY <1>1, <1>2, <1>5, RestIs, Emptied2Is
<1>8. \A i \in 0 .. Len(s) : i \in T /\ i < Len(s) => i + 1 \in T
    <2> SUFFICES ASSUME NEW i \in 0 .. Len(s), Sound(run[i], Rest(s, i)), i < Len(s)
                 PROVE  Sound(run[i + 1], Rest(s, i + 1))
        BY <1>2
    <2>1. s[i + 1] \in Rest(s, i) /\ Rest(s, i + 1) = Rest(s, i) \ {s[i + 1]}
        BY <1>1, RestIs
    <2>2. Sound(run[i + 1], Rest(s, i) \ {s[i + 1]})
        BY <1>6, <2>1, ReadyTurn
    <2> QED
        BY <2>1, <2>2
<1> HIDE DEF T
<1>9. 0 .. Len(s) \subseteq T
    BY <1>2, <1>7, <1>8, ReadyLoop!Induct
<1>10. ReadyStates(q, run)
    BY <1>3, <1>4, <1>5, <1>6, <1>9 DEF ReadyStates, T
<1> QED
    BY <1>10

\* What the first loop leaves waiting fits.
LEMMA WaitingFit ==
    ASSUME NEW p, Sound(p, {}), NEW run, WaitingStates(p, run)
    PROVE  Sound(First(p), {}) /\ \A t \in ToSet(First(p).m_uv_1_txs) : Fits(t)
<1> DEFINE s == p.m_uv_1_txs
           T == {i \in 0 .. Len(s) : \A t \in ToSet(run[i].m_uv_1_txs) : Fits(t)}
<1>1. s \in Seq(Tx) /\ Len(s) \in Nat
    BY DEF Sound, Typed
<1>2. 0 \in T
    <2>1. run[0].m_uv_1_txs = <<>>
        BY Emptied1Is DEF WaitingStates
    <2> QED
        BY <1>1, <2>1, NoneListed
<1>3. \A i \in 0 .. Len(s) : i \in T /\ i < Len(s) => i + 1 \in T
    <2> SUFFICES ASSUME NEW i \in 0 .. Len(s), i < Len(s),
                        \A t \in ToSet(run[i].m_uv_1_txs) : Fits(t)
                 PROVE  \A t \in ToSet(run[i + 1].m_uv_1_txs) : Fits(t)
        BY <1>1
    <2> DEFINE x == s[i + 1]
               a == run[i]
               b == run[i + 1]
    <2>1. Sound(a, Rest(s, i)) /\ b = LookAtWaiting(a, x)
        BY DEF WaitingStates
    <2>2. x \in Rest(s, i)
        BY <1>1, RestIs
    <2>3. a.m_uv_1_txs \in Seq(Tx) /\ x \in Tx /\ Typed(a)
        BY <2>1, <2>2 DEF Sound, Typed
    <2> HIDE DEF x, a, b
    <2>4. \/ b.m_uv_1_txs = a.m_uv_1_txs
          \/ b.m_uv_1_txs = Append(a.m_uv_1_txs, x) /\ Fits(x)
        <3>1. CASE Dropped(a, x, b)
            BY <3>1 DEF Dropped
        <3>2. CASE Waits(a, x, b) /\ Fits(x)
            BY <3>2 DEF Waits
        <3>3. CASE b = Ready(a, x)
            <4>1. Same(a, b, {"m_uv_2_txs", "m_uv_spend", "m_uv_topic", "m_uv_join_topic",
                              "m_uv_reply", "m_uv_reward", "joins", "wrapped"})
                BY <2>3, <3>3, ReadyIs
            <4> QED
                BY <4>1 DEF Same, Fields
        <3> QED
            BY <2>1, <2>2, <3>1, <3>2, <3>3, WaitingTurn
    <2>5. ToSet(Append(a.m_uv_1_txs, x)) = ToSet(a.m_uv_1_txs) \cup {x}
        BY <2>3, AppendIs
    <2> QED
        BY <2>4, <2>5 DEF a, b
<1> HIDE DEF T
<1>4. 0 .. Len(s) \subseteq T
    BY <1>1, <1>2, <1>3, WaitingLoop!Induct
<1>5. Sound(First(p), Rest(s, Len(s))) /\ First(p) = run[Len(s)]
    BY <1>1 DEF WaitingStates
<1>6. Rest(s, Len(s)) = {}
    BY <1>1, RestIs
<1>7. Len(s) \in T
    BY <1>1, <1>4
<1> QED
    BY <1>5, <1>6, <1>7 DEF T

\* What the second loop leaves ready fits, and what waits is not touched.
LEMMA ReadyFit ==
    ASSUME NEW q, Sound(q, {}), NEW run, ReadyStates(q, run),
           NEW r, r = FoldLeft(LookAtReady, Emptied2(q), q.m_uv_2_txs)
    PROVE  /\ Sound(r, {})
           /\ \A t \in ToSet(r.m_uv_2_txs) : Fits(t)
           /\ r.m_uv_1_txs = q.m_uv_1_txs
<1> DEFINE s == q.m_uv_2_txs
           T == {i \in 0 .. Len(s) : /\ \A t \in ToSet(run[i].m_uv_2_txs) : Fits(t)
                                     /\ run[i].m_uv_1_txs = q.m_uv_1_txs}
<1>1. s \in Seq(Tx) /\ Len(s) \in Nat
    BY DEF Sound, Typed
<1>2. 0 \in T
    <2>1. /\ run[0].m_uv_2_txs = <<>>
          /\ Same(q, run[0], {"m_uv_2_txs"})
        BY Emptied2Is DEF ReadyStates
    <2>2. run[0].m_uv_1_txs = q.m_uv_1_txs
        BY <2>1 DEF Same, Fields
    <2> QED
        BY <1>1, <2>1, <2>2, NoneListed
<1>3. \A i \in 0 .. Len(s) : i \in T /\ i < Len(s) => i + 1 \in T
    <2> SUFFICES ASSUME NEW i \in 0 .. Len(s), i < Len(s),
                        \A t \in ToSet(run[i].m_uv_2_txs) : Fits(t),
                        run[i].m_uv_1_txs = q.m_uv_1_txs
                 PROVE  /\ \A t \in ToSet(run[i + 1].m_uv_2_txs) : Fits(t)
                        /\ run[i + 1].m_uv_1_txs = q.m_uv_1_txs
        BY <1>1
    <2> DEFINE x == s[i + 1]
               a == run[i]
               b == run[i + 1]
    <2>1. Sound(a, Rest(s, i)) /\ b = LookAtReady(a, x)
        BY DEF ReadyStates
    <2>2. x \in Rest(s, i)
        BY <1>1, RestIs
    <2>3. a.m_uv_2_txs \in Seq(Tx) /\ x \in Tx /\ DOMAIN a = Fields
        BY <2>1, <2>2 DEF Sound, Typed
    <2> HIDE DEF x, a, b
    <2>4. /\ b.m_uv_1_txs = a.m_uv_1_txs
          /\ \/ b.m_uv_2_txs = a.m_uv_2_txs
             \/ b.m_uv_2_txs = Append(a.m_uv_2_txs, x) /\ Fits(x)
        <3>1. CASE Leaves(a, x, b)
            BY <3>1 DEF Leaves
        <3>2. CASE Stays(a, x, b) /\ Fits(x)
            BY <2>3, <3>2 DEF Stays, Fields
        <3> QED
            BY <2>1, <2>2, <3>1, <3>2, ReadyTurn
    <2>5. ToSet(Append(a.m_uv_2_txs, x)) = ToSet(a.m_uv_2_txs) \cup {x}
        BY <2>3, AppendIs
    <2> QED
        BY <2>4, <2>5 DEF a, b
<1> HIDE DEF T
<1>4. 0 .. Len(s) \subseteq T
    BY <1>1, <1>2, <1>3, ReadyLoop!Induct
<1>5. Sound(r, Rest(s, Len(s))) /\ r = run[Len(s)]
    BY <1>1 DEF ReadyStates
<1>6. Rest(s, Len(s)) = {}
    BY <1>1, RestIs
<1>7. Len(s) \in T
    BY <1>1, <1>4
<1> QED
    BY <1>5, <1>6, <1>7 DEF T

\* do_uv_tx as a whole: every transaction keeps its one place, and what is
\* listed after it fits the chain.
LEMMA LookedSound ==
    ASSUME NEW p, Sound(p, {}), NEW q, q = Looked(p)
    PROVE  /\ Sound(q, {})
           /\ \A t \in ToSet(q.m_uv_1_txs) \cup ToSet(q.m_uv_2_txs) : Fits(t)
           /\ Same(Second(p), q, {"m_uv_3_txs"})
<1>1. PICK run : WaitingStates(p, run)
    BY WaitingRun
<1>2. Sound(First(p), {}) /\ \A t \in ToSet(First(p).m_uv_1_txs) : Fits(t)
    BY <1>1, WaitingFit
<1>3. PICK run2 : ReadyStates(First(p), run2)
    BY <1>2, ReadyRun
<1>4. /\ Sound(Second(p), {})
      /\ \A t \in ToSet(Second(p).m_uv_2_txs) : Fits(t)
      /\ Second(p).m_uv_1_txs = First(p).m_uv_1_txs
    BY <1>2, <1>3, ReadyFit DEF Second
<1> DEFINE r == Second(p)
<1>5. q = [r EXCEPT !.m_uv_3_txs = {tx \in @ : InWindow(tx, Height)}]
    BY LookedIs
<1>6. Typed(r)
    BY <1>4 DEF Sound
<1> HIDE DEF r
<1>7. Same(r, q, {"m_uv_3_txs"}) /\ q.m_uv_3_txs \subseteq r.m_uv_3_txs
    BY <1>5, <1>6 DEF Same, Typed, Fields
<1>8. Typed(q)
    BY <1>6, <1>7 DEF Typed, Same, Fields
<1>9. /\ q.m_uv_1_txs = r.m_uv_1_txs /\ q.m_uv_2_txs = r.m_uv_2_txs
      /\ q.m_uv_tx_ids = r.m_uv_tx_ids
      /\ q.m_uv_account_names = r.m_uv_account_names
      /\ q.m_uv_account_pubkeys = r.m_uv_account_pubkeys
    BY <1>7 DEF Same, Fields
<1>10. Sound(q, {})
    <2>1. All(q, {}) = All(r, {}) /\ (OnePlace(r, {}) => OnePlace(q, {}))
        BY <1>9 DEF All, OnePlace
    <2> QED
        BY <1>4, <1>8, <1>9, <2>1 DEF Sound, Known, r
<1> QED
    BY <1>2, <1>4, <1>7, <1>9, <1>10 DEF r

-----------------------------------------------------------------------------
(* What comes in, and what the chain does to the pool.                     *)

ListedIn(p) == ToSet(p.m_uv_1_txs) \cup ToSet(p.m_uv_2_txs)

\* Fewer are left to place.
LEMMA SoundLess ==
    ASSUME NEW p, NEW rest, Sound(p, rest)
    PROVE  Sound(p, {})
BY DEF Sound, OnePlace, All, Known, Apart

\* Pools that differ in none of the fields Sound speaks of.
LEMMA SoundSame ==
    ASSUME NEW p, NEW rest, Sound(p, rest), NEW q, Typed(q),
           q.m_uv_1_txs = p.m_uv_1_txs, q.m_uv_2_txs = p.m_uv_2_txs,
           q.m_uv_tx_ids = p.m_uv_tx_ids,
           q.m_uv_account_names = p.m_uv_account_names,
           q.m_uv_account_pubkeys = p.m_uv_account_pubkeys
    PROVE  Sound(q, rest)
<1>1. All(q, rest) = All(p, rest) /\ (OnePlace(p, rest) => OnePlace(q, rest))
    BY DEF All, OnePlace
<1> QED
    BY <1>1 DEF Sound, Known

\* Nobody in the pool has the id, the name or the pubkey.
NewTo(p, x) ==
    /\ x.id \notin p.m_uv_tx_ids
    /\ x.type = "reg" => /\ x.name \notin p.m_uv_account_names
                         /\ x.who \notin p.m_uv_account_pubkeys

\* A transaction that is new and remembered has no place yet.
LEMMA Remembered ==
    ASSUME NEW p, Sound(p, {}), NEW x \in Tx, NewTo(p, x),
           NEW q, q = Remember(p, x)
    PROVE  /\ Sound(q, {x}) /\ ListedIn(q) = ListedIn(p)
           /\ Same(p, q, {"m_uv_tx_ids", "m_uv_account_names", "m_uv_account_pubkeys"})
<1>1. Typed(p)
    BY DEF Sound
<1>2. /\ Typed(q)
      /\ Same(p, q, {"m_uv_tx_ids", "m_uv_account_names", "m_uv_account_pubkeys"})
      /\ q.m_uv_tx_ids = p.m_uv_tx_ids \cup {x.id}
      /\ x.type = "reg" =>
           /\ q.m_uv_account_names = p.m_uv_account_names \cup {x.name}
           /\ q.m_uv_account_pubkeys = p.m_uv_account_pubkeys \cup {x.who}
      /\ x.type # "reg" =>
           /\ q.m_uv_account_names = p.m_uv_account_names
           /\ q.m_uv_account_pubkeys = p.m_uv_account_pubkeys
    BY <1>1, RememberIs
<1>3. q.m_uv_1_txs = p.m_uv_1_txs /\ q.m_uv_2_txs = p.m_uv_2_txs
    BY <1>2 DEF Same, Fields
<1>4. All(q, {x}) = All(p, {}) \cup {x}
    BY <1>3 DEF All
<1>5. x \notin All(p, {})
    BY DEF Sound, Known, NewTo
<1>6. OnePlace(q, {x})
    BY <1>3, <1>5 DEF Sound, OnePlace, All
<1>7. Known(q, All(q, {x}))
    BY <1>2, <1>4 DEF Sound, Known
<1>8. Apart(All(q, {x}))
    BY <1>4 DEF Sound, Known, Apart, NewTo
<1> QED
    BY <1>2, <1>3, <1>6, <1>7, <1>8 DEF Sound, ListedIn

\* A transaction that is taken, whatever the verdict.
LEMMA TakenSound ==
    ASSUME NEW p, Sound(p, {}), NEW x \in Tx, NewTo(p, x),
           NEW q, LET r == Remember(p, x)
                  IN  q \in {Wait(r, x), Ready(r, x), r, Punish(r, x)}
    PROVE  /\ Sound(q, {})
           /\ ListedIn(q) \subseteq ListedIn(p) \cup {x}
<1> DEFINE r == Remember(p, x)
<1>1. Sound(r, {x}) /\ ListedIn(r) = ListedIn(p)
    BY Remembered
<1>2. q \in {Wait(r, x), Ready(r, x), r, Punish(r, x)}
    OBVIOUS
<1> HIDE DEF r
<1>3. Typed(r) /\ r.m_uv_1_txs \in Seq(Tx) /\ r.m_uv_2_txs \in Seq(Tx)
    BY <1>1 DEF Sound, Typed
<1>4. /\ ToSet(Append(r.m_uv_1_txs, x)) = ToSet(r.m_uv_1_txs) \cup {x}
      /\ ToSet(Append(r.m_uv_2_txs, x)) = ToSet(r.m_uv_2_txs) \cup {x}
    BY <1>3, AppendIs
<1>5. CASE q = Wait(r, x)
    <2>1. /\ Typed(q) /\ Same(r, q, {"m_uv_1_txs"})
          /\ q.m_uv_1_txs = Append(r.m_uv_1_txs, x)
        BY <1>3, <1>5, WaitIs
    <2>2. /\ q.m_uv_2_txs = r.m_uv_2_txs
          /\ q.m_uv_tx_ids = r.m_uv_tx_ids
          /\ q.m_uv_account_names = r.m_uv_account_names
          /\ q.m_uv_account_pubkeys = r.m_uv_account_pubkeys
        BY <2>1 DEF Same, Fields
    <2>3. Sound(q, {x} \ {x})
        BY <1>1, <2>1, <2>2, Placed
    <2> QED
        BY <1>1, <1>4, <2>1, <2>2, <2>3, SoundLess DEF ListedIn
<1>6. CASE q = Ready(r, x)
    <2>1. /\ Typed(q)
          /\ Same(r, q, {"m_uv_2_txs", "m_uv_spend", "m_uv_topic", "m_uv_join_topic",
                         "m_uv_reply", "m_uv_reward", "joins", "wrapped"})
          /\ q.m_uv_2_txs = Append(r.m_uv_2_txs, x)
        BY <1>3, <1>6, ReadyIs
    <2>2. /\ q.m_uv_1_txs = r.m_uv_1_txs
          /\ q.m_uv_tx_ids = r.m_uv_tx_ids
          /\ q.m_uv_account_names = r.m_uv_account_names
          /\ q.m_uv_account_pubkeys = r.m_uv_account_pubkeys
        BY <2>1 DEF Same, Fields
    <2>3. Sound(q, {x} \ {x})
        BY <1>1, <2>1, <2>2, Placed
    <2> QED
        BY <1>1, <1>4, <2>1, <2>2, <2>3, SoundLess DEF ListedIn
<1>7. CASE q = r
    BY <1>1, <1>7, SoundLess
<1>8. CASE q = Punish(r, x)
    <2>1. Typed(q) /\ Same(r, q, {"punished"})
        BY <1>3, <1>8, PunishIs
    <2>2. /\ q.m_uv_1_txs = r.m_uv_1_txs /\ q.m_uv_2_txs = r.m_uv_2_txs
          /\ q.m_uv_tx_ids = r.m_uv_tx_ids
          /\ q.m_uv_account_names = r.m_uv_account_names
          /\ q.m_uv_account_pubkeys = r.m_uv_account_pubkeys
        BY <2>1 DEF Same, Fields
    <2> QED
        BY <1>1, <2>1, <2>2, SoundSame, SoundLess DEF ListedIn
<1> QED
    BY <1>2, <1>5, <1>6, <1>7, <1>8

\* A reorganisation takes counts away and nothing else.
LEMMA FreshIs ==
    ASSUME NEW p, Typed(p), NEW accounts, NEW topics, NEW q, q = Fresh(p, accounts, topics)
    PROVE  /\ Typed(q)
           /\ Same(p, q, CountFields \cup {"anew"})
           /\ \A a \in User :
                /\ q.m_uv_spend[a] \in {0, p.m_uv_spend[a]}
                /\ q.m_uv_topic[a] \in {0, p.m_uv_topic[a]}
                /\ q.m_uv_join_topic[a] \in {0, p.m_uv_join_topic[a]}
           /\ \A k \in Topic :
                /\ q.m_uv_reply[k] \in {0, p.m_uv_reply[k]}
                /\ q.m_uv_reward[k] \in {0, p.m_uv_reward[k]}
<1> DEFINE Keep(fn, kept) == [x \in DOMAIN fn |-> IF x \in kept THEN fn[x] ELSE 0]
<1>1. /\ DOMAIN q = Fields
      /\ \A f \in Fields \ (CountFields \cup {"anew"}) : q[f] = p[f]
      /\ q.m_uv_spend = Keep(p.m_uv_spend, accounts)
      /\ q.m_uv_topic = Keep(p.m_uv_topic, accounts)
      /\ q.m_uv_join_topic = Keep(p.m_uv_join_topic, accounts)
      /\ q.m_uv_reply = Keep(p.m_uv_reply, topics)
      /\ q.m_uv_reward = Keep(p.m_uv_reward, topics)
    BY DEF Fresh, Typed, Fields, CountFields
<1>2. ASSUME NEW S, NEW fn, Counts(S, fn), NEW kept
      PROVE  /\ Counts(S, Keep(fn, kept)) /\ \A x \in S : Keep(fn, kept)[x] \in {0, fn[x]}
             /\ Coins(S, fn) => Coins(S, Keep(fn, kept))
    <2>1. WORD \in Nat /\ WORD > 0
        BY TxPoolAssumption DEF FEE
    <2> QED
        BY <1>2, <2>1 DEF Counts, Coins
<1> HIDE DEF Keep
<1>3. /\ Counts(User, q.m_uv_spend) /\ Counts(User, q.m_uv_topic)
      /\ Counts(User, q.m_uv_join_topic)
      /\ Counts(Topic, q.m_uv_reply) /\ Counts(Topic, q.m_uv_reward)
      /\ Coins(User, q.m_uv_spend) /\ Coins(Topic, q.m_uv_reward)
      /\ \A a \in User : /\ q.m_uv_spend[a] \in {0, p.m_uv_spend[a]}
                         /\ q.m_uv_topic[a] \in {0, p.m_uv_topic[a]}
                         /\ q.m_uv_join_topic[a] \in {0, p.m_uv_join_topic[a]}
      /\ \A k \in Topic : /\ q.m_uv_reply[k] \in {0, p.m_uv_reply[k]}
                          /\ q.m_uv_reward[k] \in {0, p.m_uv_reward[k]}
    BY <1>1, <1>2 DEF Typed
<1>4. Typed(q)
    BY <1>1, <1>3 DEF Typed, Fields, CountFields
<1> QED
    BY <1>1, <1>3, <1>4 DEF Same

\* clear_uv_tx empties the lists.
Cleared(p) == [p EXCEPT !.m_uv_1_txs = <<>>, !.m_uv_2_txs = <<>>]

\* clear_uv_tx leaves a sound pool with empty lists.
LEMMA ClearedSound ==
    ASSUME NEW p, Sound(p, {}), NEW q, q = Cleared(p)
    PROVE  Sound(q, {}) /\ ListedIn(q) = {}
<1>1. Typed(p)
    BY DEF Sound
<1>2. /\ Same(p, q, {"m_uv_1_txs", "m_uv_2_txs"})
      /\ q.m_uv_1_txs = <<>> /\ q.m_uv_2_txs = <<>>
    BY <1>1 DEF Cleared, Typed, Same, Fields
<1>3. Typed(q)
    BY <1>1, <1>2, NoneListed DEF Typed, Same, Fields
<1>4. OnePlace(q, {}) /\ All(q, {}) = {} /\ ListedIn(q) = {}
    BY <1>2, NoneListed DEF OnePlace, All, ListedIn
<1> QED
    BY <1>3, <1>4 DEF Sound, Known, Apart

-----------------------------------------------------------------------------
(* The invariant.                                                          *)

\* ListedOnce and PoolFitsChain are parts of it; TypeOK adds nothing to Sound.
IInv ==
    /\ world \in World
    /\ cur \in Block /\ m_block_changed \in BOOLEAN
    /\ Sound(pool, {})
    /\ ~m_block_changed => \A tx \in ListedIn(pool) : Fits(tx)

\* The pool is sound when the node starts.
LEMMA InitIInv == Init => IInv
<1> SUFFICES ASSUME Init PROVE IInv
    OBVIOUS
<1>1. /\ DOMAIN pool = Fields
      /\ pool.m_uv_1_txs = <<>> /\ pool.m_uv_2_txs = <<>>
      /\ pool.m_uv_3_txs = {} /\ pool.punished = {}
      /\ pool.m_uv_spend = [a \in User |-> 0] /\ pool.m_uv_topic = [a \in User |-> 0]
      /\ pool.m_uv_join_topic = [a \in User |-> 0]
      /\ pool.m_uv_reply = [k \in Topic |-> 0] /\ pool.m_uv_reward = [k \in Topic |-> 0]
    BY DEF Init, Fields
<1>2. Typed(pool)
    <2>1. WORD \in Nat /\ 0 < WORD
        BY TxPoolAssumption DEF FEE
    <2> QED
        BY <1>1, <2>1, NoneListed DEF Typed, Counts, Coins
<1>3. OnePlace(pool, {}) /\ All(pool, {}) = {}
    BY <1>1, NoneListed DEF OnePlace, All
<1>4. Sound(pool, {})
    BY <1>2, <1>3 DEF Sound, Known, Apart
<1> QED
    BY <1>4, TxPoolAssumption DEF Init, IInv

\* What the handlers take in is new to the pool and fits.
LEMMA NewsIs ==
    ASSUME NEW x, News(x)
    PROVE  NewTo(pool, x) /\ Fits(x)
BY DEF News, Unknown, UnknownReg, NewTo, Fits

\* A wallet is told yes exactly for news that are ready.
LEMMA SubmittedIs ==
    ASSUME NEW x \in Tx
    PROVE  Refused(pool, x) = "none" <=> News(x) /\ Judge(pool, x) = "ready"
<1>1. CASE x.id \in L.tx_map \/ x.id \in pool.m_uv_tx_ids
    BY <1>1 DEF Refused, News, Unknown
<1>2. CASE x.id \notin L.tx_map /\ x.id \notin pool.m_uv_tx_ids
    <2>1. Refused(pool, x) = IF x.type = "reg" THEN RefusedReg(pool, x) ELSE RefusedUser(pool, x)
        BY <1>2 DEF Refused
    <2> QED
        BY <1>2, <2>1, SameTest DEF News, Unknown, UnknownReg
<1> QED
    BY <1>1, <1>2

\* The console submits only what is new and fits.
LEMMA ConsoleIs ==
    ASSUME cur \in Block, NEW x, ConsoleSend(x) \/ ConsoleReg(x)
    PROVE  NewTo(pool, x) /\ Fits(x)
<1>1. CASE ConsoleReg(x)
    BY <1>1 DEF ConsoleReg, NewTo, Fits
<1>2. CASE ConsoleSend(x)
    <2>1. x.bid = Height /\ x.type = "send" /\ x.id \notin L.tx_map \cup pool.m_uv_tx_ids
        BY <1>2 DEF ConsoleSend
    <2>2. Height \in Nat /\ Height # 0 /\ WINDOW \in Nat
        BY TxPoolAssumption, LedgerAssumption DEF Height
    <2>3. InWindow(x, Height)
        BY <2>1, <2>2 DEF InWindow
    <2> QED
        BY <2>1, <2>3 DEF NewTo, Fits
<1> QED
    BY <1>1, <1>2

\* One more transaction in the pool.
LEMMA TakeStep ==
    ASSUME IInv, NEW x \in Tx, NewTo(pool, x), Fits(x),
           pool' \in {Wait(Remember(pool, x), x), Ready(Remember(pool, x), x),
                      Remember(pool, x), Punish(Remember(pool, x), x)},
           UNCHANGED <<cur, L, m_block_changed, world>>
    PROVE  IInv'
<1>1. Sound(pool', {}) /\ ListedIn(pool') \subseteq ListedIn(pool) \cup {x}
    BY TakenSound DEF IInv
<1>2. \A t : Fits(t)' <=> Fits(t)
    BY DEF Fits, Height
<1> QED
    BY <1>1, <1>2 DEF IInv

\* What a peer's transaction may do to the pool.
LEMMA BroadcastIs ==
    ASSUME NEW x, TxBroadcast(x)
    PROVE  pool' \in {Wait(Remember(pool, x), x), Ready(Remember(pool, x), x),
                      Remember(pool, x), Punish(Remember(pool, x), x)}
<1>1. \E verdict \in {"wait", "drop", "punish", "ready"} : pool' = Taken(x, verdict)
    <2>1. CASE BroadcastReg(x)
        BY <2>1 DEF BroadcastReg, JudgeReg
    <2>2. CASE BroadcastSend(x)
        BY <2>2 DEF BroadcastSend, JudgeSend
    <2>3. CASE BroadcastTopic(x)
        BY <2>3 DEF BroadcastTopic, JudgeTopic
    <2>4. CASE BroadcastReply(x)
        BY <2>4 DEF BroadcastReply, JudgeReply
    <2>5. CASE BroadcastReward(x)
        BY <2>5 DEF BroadcastReward, JudgeReward
    <2> QED
        BY <2>1, <2>2, <2>3, <2>4, <2>5 DEF TxBroadcast
<1> QED
    BY <1>1 DEF Taken

\* Every step keeps the invariant.
LEMMA NextIInv == IInv /\ [Next]_vars => IInv'
<1> SUFFICES ASSUME IInv, [Next]_vars PROVE IInv'
    OBVIOUS
<1>1. world \in World /\ world.txs \subseteq Tx /\ world.blocks \subseteq Block
    BY TxPoolAssumption DEF IInv
<1>2. ASSUME NEW x \in world.txs, TxBroadcast(x), UNCHANGED world
      PROVE  IInv'
    <2>1. x \in Tx
        BY <1>1
    <2>2. NewTo(pool, x) /\ Fits(x)
        BY <1>2, NewsIs DEF TxBroadcast
    <2>3. pool' \in {Wait(Remember(pool, x), x), Ready(Remember(pool, x), x),
                     Remember(pool, x), Punish(Remember(pool, x), x)}
        BY <1>2, BroadcastIs
    <2> QED
        BY <1>2, <2>1, <2>2, <2>3, TakeStep DEF TxBroadcast
<1>3. ASSUME NEW x \in world.txs, Submit(x), UNCHANGED world
      PROVE  IInv'
    <2>1. x \in Tx
        BY <1>1
    <2>2. NewTo(pool, x) /\ Fits(x)
        BY <1>3, <2>1, SubmittedIs, NewsIs DEF Submit
    <2> QED
        BY <1>3, <2>1, <2>2, TakeStep DEF Submit
<1>4. ASSUME NEW x \in world.txs, Console(x), UNCHANGED world
      PROVE  IInv'
    <2>1. x \in Tx
        BY <1>1
    <2>2. NewTo(pool, x) /\ Fits(x)
        BY <1>4, ConsoleIs DEF Console, IInv
    <2> QED
        BY <1>4, <2>1, <2>2, TakeStep DEF Console
<1>5. ASSUME NEW f \in world.blocks, NEW b \in world.blocks, Reorganise(f, b), UNCHANGED world
      PROVE  IInv'
    <2>1. Sound(pool, {}) /\ Typed(pool)
        BY DEF IInv, Sound
    <2>2. /\ Typed(pool')
          /\ Same(pool, pool', CountFields \cup {"anew"})
        BY <1>5, <2>1, FreshIs DEF Reorganise
    <2>3. Sound(pool', {})
        BY <2>1, <2>2, SoundSame DEF Same, Fields, CountFields
    <2> QED
        BY <1>1, <1>5, <2>3 DEF Reorganise, IInv
<1>6. ASSUME do_uv_tx, UNCHANGED world
      PROVE  IInv'
    <2>1. /\ Sound(pool', {})
          /\ \A t \in ToSet(pool'.m_uv_1_txs) \cup ToSet(pool'.m_uv_2_txs) : Fits(t)
        BY <1>6, LookedSound DEF do_uv_tx, IInv
    <2>2. \A t : Fits(t)' <=> Fits(t)
        BY <1>6 DEF do_uv_tx, Fits, Height
    <2> QED
        BY <1>6, <2>1, <2>2 DEF do_uv_tx, IInv, ListedIn
<1>7. ASSUME NewKey, UNCHANGED world
      PROVE  IInv'
    BY <1>7 DEF NewKey, IInv
<1>8. ASSUME ClearUvTx, UNCHANGED world
      PROVE  IInv'
    <2>1. Sound(pool', {}) /\ ListedIn(pool') = {}
        BY <1>8, ClearedSound DEF ClearUvTx, Cleared, IInv
    <2> QED
        BY <1>8, <2>1 DEF ClearUvTx, IInv
<1>9. CASE UNCHANGED vars
    <2>1. \A t : Fits(t)' <=> Fits(t)
        BY <1>9 DEF vars, Fits, Height
    <2> QED
        BY <1>9, <2>1 DEF vars, IInv
<1> QED
    BY <1>2, <1>3, <1>4, <1>5, <1>6, <1>7, <1>8, <1>9 DEF Next

\* The invariant holds always.
THEOREM Invariance == Spec => []IInv
<1> QED
    BY InitIInv, NextIInv, PTL DEF Spec

\* TypeOK: the pool's lists hold transactions, its counts are natural numbers.
THEOREM TypeCorrect == Spec => []TypeOK
<1>1. IInv => TypeOK
    BY DEF IInv, Sound, Typed, Counts, Coins, TypeOK
<1> QED
    BY <1>1, Invariance, PTL

\* Lists without repetitions are as long as what they hold.
LEMMA LengthIsNumber ==
    ASSUME NEW s \in Seq(Tx), NEW t \in Seq(Tx), IsInjective(s), IsInjective(t),
           ToSet(s) \cap ToSet(t) = {}
    PROVE  Cardinality({tx.id : tx \in ToSet(s) \cup ToSet(t)}) = Len(s \o t)
<1> DEFINE u == s \o t
           Ids == {tx.id : tx \in ToSet(s) \cup ToSet(t)}
           f == [i \in 1 .. Len(u) |-> u[i].id]
<1>1. /\ Len(s) \in Nat /\ Len(t) \in Nat /\ Len(u) = Len(s) + Len(t)
      /\ DOMAIN s = 1 .. Len(s) /\ DOMAIN t = 1 .. Len(t)
      /\ \A i \in 1 .. Len(s) : u[i] = s[i] /\ s[i] \in Tx
      /\ \A i \in 1 .. Len(t) : u[Len(s) + i] = t[i] /\ t[i] \in Tx
    OBVIOUS
<1> HIDE DEF u
<1>2. ASSUME NEW i \in 1 .. Len(u)
      PROVE  \/ i \in 1 .. Len(s) /\ u[i] = s[i]
             \/ i - Len(s) \in 1 .. Len(t) /\ u[i] = t[i - Len(s)]
    <2>1. CASE i <= Len(s)
        BY <1>1, <2>1
    <2>2. CASE i > Len(s)
        <3>1. i - Len(s) \in 1 .. Len(t) /\ Len(s) + (i - Len(s)) = i
            BY <1>1, <2>2
        <3> QED
            BY <1>1, <3>1
    <2> QED
        BY <1>1, <2>1, <2>2
<1>3. ASSUME NEW i \in 1 .. Len(u), NEW j \in 1 .. Len(u), u[i].id = u[j].id
      PROVE  i = j
    <2>1. u[i] \in Tx /\ u[j] \in Tx
        BY <1>1, <1>2
    <2>2. u[i] = u[j]
        BY <1>3, <2>1, TxPoolAssumption
    <2>3. CASE i \in 1 .. Len(s) /\ u[i] = s[i] /\ j \in 1 .. Len(s) /\ u[j] = s[j]
        BY <1>1, <2>2, <2>3 DEF IsInjective
    <2>4. CASE /\ i - Len(s) \in 1 .. Len(t) /\ u[i] = t[i - Len(s)]
               /\ j - Len(s) \in 1 .. Len(t) /\ u[j] = t[j - Len(s)]
        <3>1. i - Len(s) = j - Len(s)
            BY <1>1, <2>2, <2>4 DEF IsInjective
        <3> QED
            BY <1>1, <3>1
    <2>5. CASE \/ i \in 1 .. Len(s) /\ u[i] = s[i] /\ j - Len(s) \in 1 .. Len(t) /\ u[j] = t[j - Len(s)]
               \/ j \in 1 .. Len(s) /\ u[j] = s[j] /\ i - Len(s) \in 1 .. Len(t) /\ u[i] = t[i - Len(s)]
        BY <1>1, <2>2, <2>5 DEF ToSet
    <2> QED
        BY <1>2, <2>3, <2>4, <2>5
<1>4. ASSUME NEW i \in 1 .. Len(u) PROVE u[i].id \in Ids
    BY <1>1, <1>2 DEF ToSet
<1>5. ASSUME NEW x \in Ids PROVE \E i \in 1 .. Len(u) : u[i].id = x
    <2>1. PICK tx \in ToSet(s) \cup ToSet(t) : x = tx.id
        OBVIOUS
    <2>2. CASE tx \in ToSet(s)
        <3>1. PICK i \in 1 .. Len(s) : s[i] = tx
            BY <1>1, <2>2 DEF ToSet
        <3>2. i \in 1 .. Len(u) /\ u[i] = tx
            BY <1>1, <3>1
        <3> QED
            BY <2>1, <3>2
    <2>3. CASE tx \in ToSet(t)
        <3>1. PICK i \in 1 .. Len(t) : t[i] = tx
            BY <1>1, <2>3 DEF ToSet
        <3>2. Len(s) + i \in 1 .. Len(u) /\ u[Len(s) + i] = tx
            BY <1>1, <3>1
        <3> QED
            BY <2>1, <3>2
    <2> QED
        BY <2>1, <2>2, <2>3
<1> HIDE DEF Ids
<1>6. f \in Bijection(1 .. Len(u), Ids)
    <2>1. f \in [1 .. Len(u) -> Ids] /\ IsInjective(f)
        BY <1>3, <1>4 DEF IsInjective
    <2>2. \A x \in Ids : \E i \in 1 .. Len(u) : f[i] = x
        BY <1>5
    <2> QED
        BY <2>1, <2>2 DEF Bijection, Injection, Surjection
<1>7. Len(u) \in Nat /\ ExistsBijection(1 .. Len(u), Ids)
    BY <1>1, <1>6 DEF ExistsBijection
<1>8. Cardinality(Ids) = Len(u)
    BY <1>7, FS_CountingElements
<1> QED
    BY <1>8 DEF u, Ids

\* ListedOnce: no transaction is listed twice, no two registrations compete,
\* and the sets that guard this know all that is listed.
THEOREM AlwaysListedOnce == Spec => []ListedOnce
<1>1. IInv => ListedOnce
    <2> SUFFICES ASSUME IInv PROVE ListedOnce
        OBVIOUS
    <2>1. Sound(pool, {}) /\ pool.m_uv_1_txs \in Seq(Tx) /\ pool.m_uv_2_txs \in Seq(Tx)
        BY DEF IInv, Sound, Typed
    <2>2. Cardinality(ListedIds) = Len(pool.m_uv_1_txs \o pool.m_uv_2_txs)
        BY <2>1, LengthIsNumber DEF Sound, OnePlace, ListedIds, Listed
    <2>3. All(pool, {}) = Listed
        BY DEF All, Listed
    <2>4. Known(pool, Listed) /\ Apart(Listed)
        BY <2>1, <2>3 DEF Sound
    <2> QED
        BY <2>2, <2>4 DEF ListedOnce, ListedIds, Known, Apart
<1> QED
    BY <1>1, Invariance, PTL

\* PoolFitsChain: between batches of messages nothing listed is confirmed,
\* outside its window, or a registration of what exists.
THEOREM PoolAlwaysFits == Spec => []PoolFitsChain
<1>1. IInv => PoolFitsChain
    BY DEF IInv, PoolFitsChain, Listed, ListedIn, Fits
<1> QED
    BY <1>1, Invariance, PTL

\* WalletsAndPeersAgree: the handler for peers and the one for wallets agree
\* on what is ready, whatever the pool and the ledger.
THEOREM WalletsAndPeersAlwaysAgree == Spec => []WalletsAndPeersAgree
<1>1. IInv => WalletsAndPeersAgree
    <2> SUFFICES ASSUME IInv, NEW tx \in world.txs
                 PROVE  Refused(pool, tx) = "none" <=> News(tx) /\ Judge(pool, tx) = "ready"
        BY DEF WalletsAndPeersAgree
    <2>1. tx \in Tx
        BY TxPoolAssumption DEF IInv
    <2> QED
        BY <2>1, SubmittedIs
<1> QED
    BY <1>1, Invariance, PTL

-----------------------------------------------------------------------------
(* What the counts hold in vain. A total is the end of a run that adds up. *)

AddUp(weight, n, tx) == n + weight[tx]
Adding == INSTANCE FoldFacts WITH op <- AddUp

Sums(weight, s, sum) ==
    /\ sum[0] = 0 /\ Total(weight, s) = sum[Len(s)]
    /\ \A i \in 0 .. Len(s) : i < Len(s) => sum[i + 1] = sum[i] + weight[s[i + 1]]

Weighs(w) == \A x \in Tx : w[x] \in Nat

\* Total is the last of its partial sums.
LEMMA SumsExist ==
    ASSUME NEW w, NEW s \in Seq(Tx)
    PROVE  \E sum : Sums(w, s, sum)
<1>1. Len(s) \in Nat /\ DOMAIN s = 1 .. Len(s)
    OBVIOUS
<1>2. PICK sum : /\ Adding!IsRun(w, 0, s, sum)
                 /\ Adding!Fold(w, 0, s) = sum[Len(s)]
    BY <1>1, Adding!FoldRuns
<1>3. Adding!Fold(w, 0, s) = Total(w, s)
    BY DEF Adding!Fold, Adding!MapThenFoldSet, Adding!Greatest,
           FoldLeft, MapThenFoldSet, Max, Total, AddUp
<1>4. \A i \in 0 .. Len(s) : i < Len(s) => sum[i + 1] = sum[i] + w[s[i + 1]]
    BY <1>1, <1>2, RestIs DEF Adding!IsRun, AddUp
<1> QED
    BY <1>2, <1>3, <1>4 DEF Sums, Adding!IsRun

\* The elements a sum goes over.
LEMMA Elements ==
    ASSUME NEW s \in Seq(Tx), NEW i \in 0 .. Len(s), i < Len(s)
    PROVE  s[i + 1] \in Tx /\ s[i + 1] \in ToSet(s)
<1>1. i + 1 \in 1 .. Len(s) /\ DOMAIN s = 1 .. Len(s)
    OBVIOUS
<1> QED
    BY <1>1 DEF ToSet

\* Partial sums are natural numbers, and grow.
LEMMA SumsGrow ==
    ASSUME NEW w, Weighs(w), NEW s \in Seq(Tx), NEW sum, Sums(w, s, sum)
    PROVE  /\ \A i \in 0 .. Len(s) : sum[i] \in Nat
           /\ \A i \in 0 .. Len(s) : sum[i] <= sum[Len(s)]
<1>1. Len(s) \in Nat
    OBVIOUS
<1>2. \A i \in 0 .. Len(s) : i < Len(s) => w[s[i + 1]] \in Nat
    BY Elements DEF Weighs
<1> DEFINE S == {i \in 0 .. Len(s) : sum[i] \in Nat}
<1>3. 0 \in S
    BY <1>1 DEF Sums
<1>4. \A i \in 0 .. Len(s) : i \in S /\ i < Len(s) => i + 1 \in S
    <2> SUFFICES ASSUME NEW i \in 0 .. Len(s), sum[i] \in Nat, i < Len(s)
                 PROVE  sum[i + 1] \in Nat
        BY <1>1
    <2>1. sum[i + 1] = sum[i] + w[s[i + 1]] /\ w[s[i + 1]] \in Nat
        BY <1>2 DEF Sums
    <2> QED
        BY <2>1
<1> HIDE DEF S
<1>5. 0 .. Len(s) \subseteq S
    BY <1>1, <1>3, <1>4, Adding!Induct
<1>6. \A i \in 0 .. Len(s) : sum[i] \in Nat
    BY <1>5 DEF S
<1> DEFINE T == {i \in 0 .. Len(s) : \A j \in 0 .. i : sum[j] <= sum[i]}
<1>7. 0 \in T
    BY <1>1, <1>6
<1>8. \A i \in 0 .. Len(s) : i \in T /\ i < Len(s) => i + 1 \in T
    <2> SUFFICES ASSUME NEW i \in 0 .. Len(s), \A j \in 0 .. i : sum[j] <= sum[i],
                        i < Len(s), NEW j \in 0 .. i + 1
                 PROVE  sum[j] <= sum[i + 1]
        BY <1>1
    <2>1. /\ sum[i + 1] = sum[i] + w[s[i + 1]] /\ w[s[i + 1]] \in Nat
          /\ sum[i] \in Nat
        BY <1>2, <1>6 DEF Sums
    <2>2. sum[i] <= sum[i + 1] /\ sum[i + 1] \in Nat
        BY <2>1
    <2>3. CASE j = i + 1
        BY <2>2, <2>3
    <2>4. CASE j \in 0 .. i
        <3>1. sum[j] <= sum[i] /\ sum[j] \in Nat
            BY <1>1, <1>6, <2>4
        <3> QED
            BY <2>1, <2>2, <3>1
    <2> QED
        BY <2>3, <2>4
<1> HIDE DEF T
<1>9. 0 .. Len(s) \subseteq T
    BY <1>1, <1>7, <1>8, Adding!Induct
<1>10. Len(s) \in T
    BY <1>1, <1>9
<1> QED
    BY <1>6, <1>10 DEF T

\* Sums over the same begin are the same.
LEMMA SumsAgree ==
    ASSUME NEW n, n \in Nat,
           NEW v, NEW s, NEW sum, Sums(v, s, sum), Len(s) \in Nat, n <= Len(s),
           NEW w, NEW t, NEW tum, Sums(w, t, tum), Len(t) \in Nat, n <= Len(t),
           \A i \in 0 .. n : i < n => v[s[i + 1]] = w[t[i + 1]]
    PROVE  sum[n] = tum[n]
<1> DEFINE T == {i \in 0 .. n : sum[i] = tum[i]}
<1>1. 0 \in T
    BY DEF Sums
<1>2. \A i \in 0 .. n : i \in T /\ i < n => i + 1 \in T
    <2> SUFFICES ASSUME NEW i \in 0 .. n, sum[i] = tum[i], i < n
                 PROVE  sum[i + 1] = tum[i + 1]
        OBVIOUS
    <2>1. i \in 0 .. Len(s) /\ i < Len(s) /\ i \in 0 .. Len(t) /\ i < Len(t)
        OBVIOUS
    <2> QED
        BY <2>1 DEF Sums
<1> HIDE DEF T
<1>3. 0 .. n \subseteq T
    BY <1>1, <1>2, Adding!Induct
<1> QED
    BY <1>3 DEF T

\* Totals: of nothing, of one more, and under weights that agree.
LEMMA TotalIs ==
    ASSUME NEW w, Weighs(w), NEW s \in Seq(Tx)
    PROVE  /\ Total(w, s) \in Nat
           /\ Total(w, <<>>) = 0
           /\ \A x \in Tx : Total(w, Append(s, x)) = Total(w, s) + w[x]
<1>1. PICK sum : Sums(w, s, sum)
    BY SumsExist
<1>2. Total(w, s) \in Nat
    <2>1. Len(s) \in 0 .. Len(s)
        OBVIOUS
    <2> QED
        BY <1>1, <2>1, SumsGrow DEF Sums
<1>3. Total(w, <<>>) = 0
    <2>1. PICK zero : Sums(w, <<>>, zero)
        BY SumsExist, NoneListed
    <2>2. Len(<<>>) = 0
        OBVIOUS
    <2> QED
        BY <2>1, <2>2 DEF Sums
<1>4. ASSUME NEW x \in Tx PROVE Total(w, Append(s, x)) = Total(w, s) + w[x]
    <2> DEFINE t == Append(s, x)
    <2>1. /\ t \in Seq(Tx) /\ Len(t) = Len(s) + 1 /\ Len(s) \in Nat
          /\ \A i \in 0 .. Len(s) : i < Len(s) => s[i + 1] = t[i + 1]
          /\ t[Len(s) + 1] = x
        OBVIOUS
    <2>0. Len(s) \in 0 .. Len(t) /\ Len(s) < Len(t) /\ Len(t) \in Nat /\ Len(s) <= Len(t)
        BY <2>1
    <2> HIDE DEF t
    <2>2. PICK tum : Sums(w, t, tum)
        BY <2>1, SumsExist
    <2>3. sum[Len(s)] = tum[Len(s)]
        <3>1. \A i \in 0 .. Len(s) : i < Len(s) => w[s[i + 1]] = w[t[i + 1]]
            BY <2>1
        <3> QED
            BY <1>1, <2>0, <2>1, <2>2, <3>1, SumsAgree
    <2>4. tum[Len(s) + 1] = tum[Len(s)] + w[x]
        BY <2>0, <2>2, <2>1 DEF Sums
    <2>5. Total(w, s) = sum[Len(s)] /\ Total(w, t) = tum[Len(s) + 1]
        BY <1>1, <2>1, <2>2 DEF Sums
    <2> QED
        BY <2>3, <2>4, <2>5 DEF t
<1> QED
    BY <1>2, <1>3, <1>4

\* Two weights that agree on a list give it the same total.
LEMMA TotalSame ==
    ASSUME NEW v, NEW w, NEW s \in Seq(Tx), \A x \in ToSet(s) : v[x] = w[x]
    PROVE  Total(v, s) = Total(w, s)
<1>1. PICK sum : Sums(v, s, sum)
    BY SumsExist
<1>2. PICK tum : Sums(w, s, tum)
    BY SumsExist
<1>3. Len(s) \in Nat /\ \A i \in 0 .. Len(s) : i < Len(s) => v[s[i + 1]] = w[s[i + 1]]
    <2>1. Len(s) \in Nat
        OBVIOUS
    <2>2. ASSUME NEW i \in 0 .. Len(s), i < Len(s) PROVE v[s[i + 1]] = w[s[i + 1]]
        <3>1. s[i + 1] \in ToSet(s)
            BY <2>2, Elements
        <3> QED
            BY <3>1
    <2> QED
        BY <2>1, <2>2
<1>4. sum[Len(s)] = tum[Len(s)]
    BY <1>1, <1>2, <1>3, SumsAgree
<1> QED
    BY <1>1, <1>2, <1>4 DEF Sums

-----------------------------------------------------------------------------
(* NothingLocked. There are five kinds of count; what is said of one is    *)
(* said of all.                                                            *)

OfAccount == {"spend", "topic", "join"}
Kind == OfAccount \cup {"reply", "reward"}
Keys(kind) == IF kind \in OfAccount THEN User ELSE Topic

\* What is counted for an account or a topic, and what transactions count for.
Held(kind, p, key) ==
    CASE kind = "spend"  -> p.m_uv_spend[key]
      [] kind = "topic"  -> p.m_uv_topic[key]
      [] kind = "join"   -> p.m_uv_join_topic[key]
      [] kind = "reply"  -> p.m_uv_reply[key]
      [] kind = "reward" -> p.m_uv_reward[key]

Share(kind, p, key) ==
    CASE kind = "spend"  -> CoinsOf(key)
      [] kind = "topic"  -> TopicsOf(key)
      [] kind = "join"   -> JoinsOf(p, key)
      [] kind = "reply"  -> RepliesOn(key)
      [] kind = "reward" -> RewardsOn(key)

\* The account or the topic exists, and is told.
Told(kind, key) ==
    IF kind \in OfAccount THEN Registered(L, key) ELSE key \in DOMAIN L.topics

VainAt(kind, p, key) == Vain(Held(kind, p, key), Total(Share(kind, p, key), p.m_uv_2_txs))

\* Counts and shares are natural numbers.
LEMMA KindTyped ==
    ASSUME NEW kind \in Kind, NEW key \in Keys(kind), NEW p, Typed(p)
    PROVE  Held(kind, p, key) \in Nat /\ Weighs(Share(kind, p, key))
<1>1. Held(kind, p, key) \in Nat
    BY DEF Held, Kind, OfAccount, Keys, Typed, Counts
<1>2. ASSUME NEW x \in Tx PROVE Share(kind, p, key)[x] \in Nat
    <2>1. Cost(x) \in Nat /\ (x.type = "reward" => x.amount \in Nat)
        BY AmountTyped, TxPoolAssumption
    <2> QED
        BY <2>1 DEF Share, Kind, OfAccount, One, CoinsOf, TopicsOf, JoinsOf, RepliesOn, RewardsOn
<1> QED
    BY <1>1, <1>2 DEF Weighs

\* Pools that agree on who joined agree on what a transaction counts for.
LEMMA SameShare ==
    ASSUME NEW kind \in Kind, NEW key, NEW p, NEW q, NEW x \in Tx,
           x.id \in p.joins <=> x.id \in q.joins
    PROVE  Share(kind, p, key)[x] = Share(kind, q, key)[x]
BY DEF Share, Kind, OfAccount, JoinsOf, CoinsOf, TopicsOf, RepliesOn, RewardsOn

\* A pool that differs in nothing that matters.
LEMMA SameVain ==
    ASSUME NEW kind \in Kind, NEW key, NEW p, Typed(p), NEW q,
           q.m_uv_2_txs = p.m_uv_2_txs, Held(kind, q, key) = Held(kind, p, key),
           \A x \in ToSet(p.m_uv_2_txs) : x.id \in p.joins <=> x.id \in q.joins
    PROVE  VainAt(kind, q, key) = VainAt(kind, p, key)
<1> DEFINE v == Share(kind, p, key)
           w == Share(kind, q, key)
           s == p.m_uv_2_txs
<1>1. s \in Seq(Tx) /\ ToSet(s) \subseteq Tx
    BY ListsTyped DEF Typed
<1>2. \A x \in ToSet(s) : v[x] = w[x]
    BY <1>1, SameShare
<1>3. Total(v, s) = Total(w, s)
    <2> HIDE DEF v, w, s
    <2> QED
        BY <1>1, <1>2, TotalSame
<1> QED
    BY <1>3 DEF VainAt

\* What is held depends on the counters alone.
LEMMA HeldIs ==
    ASSUME NEW kind \in Kind, NEW key, NEW p, NEW q, SameCounts(p, q)
    PROVE  Held(kind, q, key) = Held(kind, p, key)
BY DEF Held, Kind, OfAccount, SameCounts, CountFields

\* In vain is a natural number.
LEMMA VainTyped ==
    ASSUME NEW kind \in Kind, NEW key \in Keys(kind), NEW p, Typed(p)
    PROVE  /\ VainAt(kind, p, key) \in Nat
           /\ Total(Share(kind, p, key), p.m_uv_2_txs) \in Nat
<1>1. Held(kind, p, key) \in Nat /\ Weighs(Share(kind, p, key)) /\ p.m_uv_2_txs \in Seq(Tx)
    BY KindTyped DEF Typed
<1>2. Total(Share(kind, p, key), p.m_uv_2_txs) \in Nat
    BY <1>1, TotalIs
<1> QED
    BY <1>1, <1>2 DEF VainAt, Vain

\* What becomes ready is counted for no more than it counts for.
LEMMA ReadyHeld ==
    ASSUME NEW kind \in Kind, NEW key \in Keys(kind), NEW p, Typed(p), NEW x \in Tx,
           NEW q, q = Ready(p, x)
    PROVE  \/ Held(kind, q, key) <= Held(kind, p, key) + Share(kind, q, key)[x]
           \/ Held(kind, q, key) = Held(kind, p, key)
<1> DEFINE reward == IF x.type = "reward" THEN x.amount ELSE 0
<1>1. /\ q.m_uv_spend = PlusCoins(p.m_uv_spend, x.from, Cost(x))
      /\ q.m_uv_topic = Plus(p.m_uv_topic, x.from, One(x.type = "topic"))
      /\ \/ /\ q.joins = p.joins \cup {x.id}
            /\ q.m_uv_join_topic = Plus(p.m_uv_join_topic, x.from, 1)
         \/ /\ q.joins = p.joins
            /\ q.m_uv_join_topic = Plus(p.m_uv_join_topic, x.from, 0)
      /\ ~OnTopic(x) => q.m_uv_reply = p.m_uv_reply /\ q.m_uv_reward = p.m_uv_reward
      /\ OnTopic(x) => /\ q.m_uv_reply = Plus(p.m_uv_reply, x.topic, 1)
                       /\ q.m_uv_reward = PlusCoins(p.m_uv_reward, x.topic, reward)
    BY ReadyIs
<1>2. Cost(x) \in Nat /\ (\A b : One(b) \in Nat) /\ reward \in Nat
    BY AmountTyped
<1>3. Held(kind, p, key) \in Nat
    BY KindTyped
<1>4. ASSUME NEW S, NEW f, Counts(S, f), NEW y \in S, NEW z, NEW n
      PROVE  Plus(f, z, n)[y] = IF y = z THEN f[y] + n ELSE f[y]
    BY <1>4 DEF Counts, Plus
<1>5. CASE kind = "spend"
    <2>1. q.m_uv_spend[key] <= IF key = x.from THEN p.m_uv_spend[key] + Cost(x)
                               ELSE p.m_uv_spend[key]
        BY <1>1, <1>2, <1>5, CoinsTyped DEF Typed, Keys, OfAccount
    <2>2. Share(kind, q, key)[x] = IF x.from = key THEN Cost(x) ELSE 0
        BY <1>5 DEF Share, CoinsOf
    <2> QED
        BY <1>2, <1>3, <1>5, <2>1, <2>2 DEF Held
<1>6. CASE kind = "topic"
    <2>1. q.m_uv_topic[key] = IF key = x.from THEN p.m_uv_topic[key] + One(x.type = "topic")
                              ELSE p.m_uv_topic[key]
        BY <1>1, <1>4, <1>6 DEF Typed, Keys, OfAccount
    <2>2. Share(kind, q, key)[x] = IF x.from = key THEN One(x.type = "topic") ELSE 0
        BY <1>6 DEF Share, TopicsOf, One
    <2> QED
        BY <1>2, <1>3, <1>6, <2>1, <2>2 DEF Held
<1>7. CASE kind = "join"
    <2>1. \/ /\ x.id \in q.joins
             /\ q.m_uv_join_topic[key] = IF key = x.from THEN p.m_uv_join_topic[key] + 1
                                         ELSE p.m_uv_join_topic[key]
          \/ q.m_uv_join_topic[key] = IF key = x.from THEN p.m_uv_join_topic[key] + 0
                                      ELSE p.m_uv_join_topic[key]
        BY <1>1, <1>4, <1>7 DEF Typed, Keys, OfAccount
    <2>2. Share(kind, q, key)[x] = IF x.from = key /\ x.id \in q.joins THEN 1 ELSE 0
        BY <1>7 DEF Share, JoinsOf, One
    <2> QED
        BY <1>3, <1>7, <2>1, <2>2 DEF Held
<1>8. CASE kind = "reply"
    <2>1. q.m_uv_reply[key] = IF OnTopic(x) /\ key = x.topic THEN p.m_uv_reply[key] + 1
                              ELSE p.m_uv_reply[key]
        BY <1>1, <1>4, <1>8 DEF Typed, Keys, OfAccount
    <2>2. Share(kind, q, key)[x] = IF OnTopic(x) /\ x.topic = key THEN 1 ELSE 0
        BY <1>8 DEF Share, RepliesOn, One
    <2> QED
        BY <1>3, <1>8, <2>1, <2>2 DEF Held
<1>9. CASE kind = "reward"
    <2>1. q.m_uv_reward[key] <= IF OnTopic(x) /\ key = x.topic THEN p.m_uv_reward[key] + reward
                                ELSE p.m_uv_reward[key]
        <3> HIDE DEF reward
        <3>1. key \in Topic
            BY <1>9 DEF Keys, OfAccount
        <3>2. CASE OnTopic(x)
            BY <1>1, <1>2, <3>1, <3>2, CoinsTyped DEF Typed
        <3>3. CASE ~OnTopic(x)
            BY <1>1, <1>3, <1>9, <3>3 DEF Held
        <3> QED
            BY <3>2, <3>3
    <2>2. Share(kind, q, key)[x] = IF x.topic = key THEN reward ELSE 0
        BY <1>9 DEF Share, RewardsOn
    <2>3. OnTopic(x) \/ reward = 0
        BY DEF OnTopic
    <2> QED
        BY <1>2, <1>3, <1>9, <2>1, <2>2, <2>3 DEF Held
<1> QED
    BY <1>5, <1>6, <1>7, <1>8, <1>9 DEF Kind, OfAccount

\* What leaves gives back what it counts for, if there is that much.
LEMMA LeavesHeld ==
    ASSUME NEW kind \in Kind, NEW key \in Keys(kind), Told(kind, key),
           NEW p, Typed(p), NEW x \in Tx, NEW q, Leaves(p, x, q)
    PROVE  LET n == Share(kind, p, key)[x]
               h == Held(kind, p, key)
           IN  Held(kind, q, key) = IF h >= n THEN h - n ELSE 0
<1> DEFINE r == Release(p, x)
           reward == IF x.type = "reward" THEN x.amount ELSE 0
<1>1. /\ Registered(L, x.from) =>
            /\ r.m_uv_spend = Less(p.m_uv_spend, x.from, Cost(x))
            /\ r.m_uv_topic = Less(p.m_uv_topic, x.from, One(x.type = "topic"))
            /\ r.m_uv_join_topic = Less(p.m_uv_join_topic, x.from, One(x.id \in p.joins))
      /\ ~Registered(L, x.from) =>
            /\ r.m_uv_spend = p.m_uv_spend
            /\ r.m_uv_topic = p.m_uv_topic
            /\ r.m_uv_join_topic = p.m_uv_join_topic
      /\ OnTopic(x) /\ Live(x) =>
            /\ r.m_uv_reply = Less(p.m_uv_reply, x.topic, 1)
            /\ r.m_uv_reward = Less(p.m_uv_reward, x.topic, reward)
      /\ ~(OnTopic(x) /\ Live(x)) =>
            /\ r.m_uv_reply = p.m_uv_reply
            /\ r.m_uv_reward = p.m_uv_reward
    BY ReleaseIs
<1>2. Held(kind, q, key) = Held(kind, r, key)
    BY HeldIs DEF Leaves
<1>3. Held(kind, p, key) \in Nat /\ Share(kind, p, key)[x] \in Nat
    BY KindTyped DEF Weighs
<1> HIDE DEF r
<1>4. ASSUME NEW S, NEW f, Counts(S, f), NEW y \in S, NEW z, NEW n
      PROVE  Less(f, z, n)[y] = IF y = z THEN IF f[y] >= n THEN f[y] - n ELSE 0 ELSE f[y]
    BY <1>4 DEF Counts, Less
<1>5. CASE kind = "spend"
    <2>1. r.m_uv_spend[key] =
             IF key = x.from
             THEN IF p.m_uv_spend[key] >= Cost(x) THEN p.m_uv_spend[key] - Cost(x) ELSE 0
             ELSE p.m_uv_spend[key]
        BY <1>1, <1>4, <1>5 DEF Typed, Keys, OfAccount, Told
    <2>2. Share(kind, p, key)[x] = IF x.from = key THEN Cost(x) ELSE 0
        BY <1>5 DEF Share, CoinsOf
    <2> QED
        BY <1>2, <1>3, <1>5, <2>1, <2>2 DEF Held
<1>6. CASE kind = "topic"
    <2> DEFINE c == One(x.type = "topic")
    <2>1. r.m_uv_topic[key] =
             IF key = x.from
             THEN IF p.m_uv_topic[key] >= c THEN p.m_uv_topic[key] - c ELSE 0
             ELSE p.m_uv_topic[key]
        BY <1>1, <1>4, <1>6 DEF Typed, Keys, OfAccount, Told
    <2>2. Share(kind, p, key)[x] = IF x.from = key THEN c ELSE 0
        BY <1>6 DEF Share, TopicsOf, One
    <2> QED
        BY <1>2, <1>3, <1>6, <2>1, <2>2 DEF Held
<1>7. CASE kind = "join"
    <2> DEFINE c == One(x.id \in p.joins)
    <2>1. r.m_uv_join_topic[key] =
             IF key = x.from
             THEN IF p.m_uv_join_topic[key] >= c THEN p.m_uv_join_topic[key] - c ELSE 0
             ELSE p.m_uv_join_topic[key]
        BY <1>1, <1>4, <1>7 DEF Typed, Keys, OfAccount, Told
    <2>2. Share(kind, p, key)[x] = IF x.from = key THEN c ELSE 0
        BY <1>7 DEF Share, JoinsOf, One
    <2> QED
        BY <1>2, <1>3, <1>7, <2>1, <2>2 DEF Held
<1>8. CASE kind = "reply"
    <2>1. r.m_uv_reply[key] =
             IF OnTopic(x) /\ key = x.topic
             THEN IF p.m_uv_reply[key] >= 1 THEN p.m_uv_reply[key] - 1 ELSE 0
             ELSE p.m_uv_reply[key]
        BY <1>1, <1>4, <1>8 DEF Typed, Keys, OfAccount, Told, Live
    <2>2. Share(kind, p, key)[x] = IF OnTopic(x) /\ x.topic = key THEN 1 ELSE 0
        BY <1>8 DEF Share, RepliesOn, One
    <2> QED
        BY <1>2, <1>3, <1>8, <2>1, <2>2 DEF Held
<1>9. CASE kind = "reward"
    <2>1. r.m_uv_reward[key] =
             IF OnTopic(x) /\ key = x.topic
             THEN IF p.m_uv_reward[key] >= reward THEN p.m_uv_reward[key] - reward ELSE 0
             ELSE p.m_uv_reward[key]
        BY <1>1, <1>4, <1>9 DEF Typed, Keys, OfAccount, Told, Live
    <2>2. Share(kind, p, key)[x] = IF x.topic = key THEN reward ELSE 0
        BY <1>9 DEF Share, RewardsOn
    <2>3. OnTopic(x) \/ reward = 0
        BY DEF OnTopic
    <2> QED
        BY <1>2, <1>3, <1>9, <2>1, <2>2, <2>3 DEF Held
<1> QED
    BY <1>5, <1>6, <1>7, <1>8, <1>9 DEF Kind, OfAccount

\* A transaction that becomes ready locks nothing.
LEMMA ReadyVain ==
    ASSUME NEW kind \in Kind, NEW key \in Keys(kind), NEW p, Typed(p),
           NEW x \in Tx, x \notin ToSet(p.m_uv_2_txs), NEW q, q = Ready(p, x)
    PROVE  VainAt(kind, q, key) <= VainAt(kind, p, key)
<1> DEFINE s == p.m_uv_2_txs
           v == Share(kind, p, key)
           w == Share(kind, q, key)
           h == Held(kind, p, key)
<1>1. /\ Typed(q) /\ q.m_uv_2_txs = Append(s, x)
      /\ q.joins = p.joins \/ q.joins = p.joins \cup {x.id}
    BY ReadyIs
<1>2. /\ Held(kind, q, key) \in Nat
      /\ Held(kind, q, key) <= h + w[x] \/ Held(kind, q, key) = h
    BY <1>1, ReadyHeld, KindTyped
<1>3. h \in Nat /\ Weighs(v) /\ Weighs(w)
    BY <1>1, KindTyped
<1>4. s \in Seq(Tx) /\ ToSet(s) \subseteq Tx
    BY ListsTyped DEF Typed
<1>5. \A t \in ToSet(s) : v[t] = w[t]
    <2> SUFFICES ASSUME NEW t \in ToSet(s) PROVE v[t] = w[t]
        OBVIOUS
    <2>1. t \in Tx /\ t.id # x.id
        BY <1>4, TxPoolAssumption
    <2>2. t.id \in p.joins <=> t.id \in q.joins
        BY <1>1, <2>1
    <2>3. Share(kind, p, key)[t] = Share(kind, q, key)[t]
        BY <2>1, <2>2, SameShare
    <2> QED
        BY <2>3
<1>6. VainAt(kind, q, key) = Vain(Held(kind, q, key), Total(w, Append(s, x)))
    BY <1>1 DEF VainAt
<1>7. VainAt(kind, p, key) = Vain(h, Total(v, s))
    BY DEF VainAt
<1> HIDE DEF s, v, w, h
<1>8. Total(v, s) = Total(w, s)
    BY <1>4, <1>5, TotalSame
<1>9. Total(w, s) \in Nat /\ Total(w, Append(s, x)) = Total(w, s) + w[x]
    BY <1>3, <1>4, TotalIs
<1>10. w[x] \in Nat
    BY <1>3 DEF Weighs
<1> QED
    BY <1>2, <1>3, <1>6, <1>7, <1>8, <1>9, <1>10 DEF Vain

\* The first loop of do_uv_tx locks nothing.
LEMMA WaitingVain ==
    ASSUME NEW kind \in Kind, NEW key \in Keys(kind), NEW p, Sound(p, {}),
           NEW run, WaitingStates(p, run)
    PROVE  VainAt(kind, First(p), key) <= VainAt(kind, p, key)
<1> DEFINE s == p.m_uv_1_txs
           bound == VainAt(kind, p, key)
           T == {i \in 0 .. Len(s) : VainAt(kind, run[i], key) <= bound}
<1>1. Typed(p) /\ s \in Seq(Tx) /\ Len(s) \in Nat
    BY DEF Sound, Typed
<1>2. bound \in Nat
    BY <1>1, VainTyped
<1>3. 0 \in T
    <2>1. Same(p, run[0], {"m_uv_1_txs"}) /\ run[0] = Emptied1(p)
        BY Emptied1Is DEF WaitingStates
    <2>2. /\ run[0].m_uv_2_txs = p.m_uv_2_txs /\ run[0].joins = p.joins
          /\ SameCounts(p, run[0])
        BY <2>1 DEF Same, Fields, SameCounts, CountFields
    <2>3. VainAt(kind, run[0], key) = bound
        BY <1>1, <2>2, HeldIs, SameVain
    <2> HIDE DEF bound
    <2> QED
        BY <1>1, <1>2, <2>3
<1>4. \A i \in 0 .. Len(s) : i \in T /\ i < Len(s) => i + 1 \in T
    <2> SUFFICES ASSUME NEW i \in 0 .. Len(s), i < Len(s),
                        VainAt(kind, run[i], key) <= bound
                 PROVE  VainAt(kind, run[i + 1], key) <= bound
        BY <1>1
    <2> DEFINE x == s[i + 1]
               a == run[i]
               b == run[i + 1]
    <2>1. Sound(a, Rest(s, i)) /\ b = LookAtWaiting(a, x)
        BY DEF WaitingStates
    <2>2. x \in Rest(s, i)
        BY <1>1, RestIs
    <2>3. VainAt(kind, a, key) <= bound
        OBVIOUS
    <2>4. VainAt(kind, b, key) <= bound
        <3> HIDE DEF x, a, b, bound
        <3>1. /\ Typed(a) /\ x \in Tx
              /\ x \notin ToSet(a.m_uv_2_txs) /\ ToSet(a.m_uv_2_txs) \subseteq Tx
            BY <2>1, <2>2, ListsTyped DEF Sound, OnePlace
        <3>2. Sound(b, Rest(s, i) \ {x})
            BY <2>1, <2>2, WaitingTurn
        <3>3. VainAt(kind, a, key) \in Nat /\ VainAt(kind, b, key) \in Nat
            BY <3>1, <3>2, VainTyped DEF Sound
        <3>4. CASE Dropped(a, x, b) \/ Waits(a, x, b)
            <4>1. /\ b.m_uv_2_txs = a.m_uv_2_txs /\ SameCounts(a, b)
                  /\ b.joins = a.joins \/ b.joins = a.joins \ {x.id}
                BY <3>4 DEF Dropped, Waits
            <4>2. \A t \in ToSet(a.m_uv_2_txs) : t.id # x.id
                BY <3>1, TxPoolAssumption
            <4>3. VainAt(kind, b, key) = VainAt(kind, a, key)
                BY <3>1, <4>1, <4>2, HeldIs, SameVain
            <4> QED
                BY <2>3, <4>3
        <3>5. CASE b = Ready(a, x)
            <4>1. VainAt(kind, b, key) <= VainAt(kind, a, key)
                BY <3>1, <3>5, ReadyVain
            <4> QED
                BY <1>2, <2>3, <3>3, <4>1
        <3> QED
            BY <2>1, <2>2, <3>4, <3>5, WaitingTurn
    <2> QED
        BY <2>4
<1> HIDE DEF T
<1>5. 0 .. Len(s) \subseteq T
    BY <1>1, <1>3, <1>4, WaitingLoop!Induct
<1>6. Len(s) \in T /\ First(p) = run[Len(s)]
    BY <1>1, <1>5 DEF WaitingStates
<1> QED
    BY <1>6 DEF T

\* The second loop: what it has kept and what it has still to look at count
\* together for what is held, but for what was in vain before it began.
LEMMA LoopVain ==
    ASSUME NEW kind \in Kind, NEW key \in Keys(kind), Told(kind, key),
           NEW q, Sound(q, {}), NEW run, ReadyStates(q, run),
           NEW r, r = FoldLeft(LookAtReady, Emptied2(q), q.m_uv_2_txs)
    PROVE  VainAt(kind, r, key) <= VainAt(kind, q, key)
<1> DEFINE s == q.m_uv_2_txs
           w == Share(kind, q, key)
           N == Len(s)
<1>1. Typed(q) /\ s \in Seq(Tx) /\ N \in Nat /\ ToSet(s) \subseteq Tx
    BY ListsTyped DEF Sound, Typed
<1>2. Weighs(w)
    BY <1>1, KindTyped
<1>3. PICK sum : Sums(w, s, sum)
    BY <1>1, SumsExist
<1>4. /\ \A i \in 0 .. N : sum[i] \in Nat
      /\ \A i \in 0 .. N : sum[i] <= sum[N]
    <2> HIDE DEF w, s
    <2> QED
        BY <1>1, <1>2, <1>3, SumsGrow
<1> DEFINE bound == VainAt(kind, q, key)
           Put(i) == Total(w, run[i].m_uv_2_txs)
           Left(i) == sum[N] - sum[i]
           Agree(i) == \A t \in ToSet(run[i].m_uv_2_txs) \cup Rest(s, i) :
                            t.id \in q.joins <=> t.id \in run[i].joins
           T == {i \in 0 .. N :
                    Agree(i) /\ Vain(Held(kind, run[i], key), Put(i) + Left(i)) <= bound}
<1>5. bound \in Nat /\ bound = Vain(Held(kind, q, key), sum[N])
    BY <1>1, <1>3, VainTyped DEF VainAt, Sums
<1>6. 0 \in T
    <2>1. Same(q, run[0], {"m_uv_2_txs"}) /\ run[0].m_uv_2_txs = <<>>
        BY Emptied2Is DEF ReadyStates
    <2>2. run[0].joins = q.joins /\ SameCounts(q, run[0])
        BY <2>1 DEF Same, Fields, SameCounts, CountFields
    <2>3. Put(0) = 0 /\ Left(0) = sum[N]
        <3>1. sum[0] = 0 /\ 0 \in 0 .. N /\ N \in 0 .. N /\ sum[N] \in Nat
            BY <1>1, <1>3, <1>4 DEF Sums
        <3>2. Total(w, <<>>) = 0
            <4> HIDE DEF w
            <4> QED
                BY <1>2, <1>1, TotalIs
        <3> QED
            BY <2>1, <3>1, <3>2
    <2>4. Held(kind, run[0], key) = Held(kind, q, key)
        BY <2>2, HeldIs
    <2>5. sum[N] \in Nat /\ 0 \in 0 .. N
        BY <1>1, <1>4
    <2> HIDE DEF Put, Left, bound
    <2>6. Put(0) + Left(0) = sum[N]
        BY <2>3, <2>5
    <2>7. Vain(Held(kind, run[0], key), Put(0) + Left(0)) <= bound
        BY <1>5, <2>4, <2>6
    <2>8. Agree(0)
        BY <2>2
    <2> QED
        BY <2>5, <2>7, <2>8
<1>7. \A i \in 0 .. N : i \in T /\ i < N => i + 1 \in T
    <2> SUFFICES ASSUME NEW i \in 0 .. N, i < N, Agree(i),
                        Vain(Held(kind, run[i], key), Put(i) + Left(i)) <= bound
                 PROVE  /\ i + 1 \in 0 .. N
                        /\ Agree(i + 1)
                        /\ Vain(Held(kind, run[i + 1], key), Put(i + 1) + Left(i + 1)) <= bound
        OBVIOUS
    <2> DEFINE x == s[i + 1]
               a == run[i]
               b == run[i + 1]
               h == Held(kind, a, key)
               k == Put(i)
    <2>1. Sound(a, Rest(s, i)) /\ b = LookAtReady(a, x)
        BY DEF ReadyStates
    <2>2. x \in Rest(s, i) /\ Rest(s, i + 1) = Rest(s, i) \ {x} /\ i + 1 \in 0 .. N
        <3>1. IsInjective(s)
            BY DEF Sound, OnePlace
        <3>2. i + 1 \in 0 .. N
            BY <1>1
        <3> QED
            BY <1>1, <3>1, <3>2, RestIs
    <2>3. /\ Typed(a) /\ a.m_uv_2_txs \in Seq(Tx) /\ x \in Tx /\ Rest(s, i) \subseteq Tx
          /\ x \notin ToSet(a.m_uv_2_txs) /\ ToSet(a.m_uv_2_txs) \subseteq Tx
        <3> HIDE DEF a, x
        <3> QED
            BY <2>1, <2>2, ListsTyped DEF Sound, OnePlace, Typed
    <2>4. h \in Nat /\ k \in Nat /\ w[x] \in Nat
        <3>1. h \in Nat
            BY <2>3, KindTyped
        <3>2. k \in Nat
            <4> HIDE DEF w
            <4> QED
                BY <1>2, <2>3, TotalIs
        <3>3. w[x] \in Nat
            BY <1>2, <2>3 DEF Weighs
        <3> QED
            BY <3>1, <3>2, <3>3
    <2>5. /\ Left(i) \in Nat /\ Left(i + 1) \in Nat
          /\ Left(i) = Left(i + 1) + w[x]
        <3>1. sum[i + 1] = sum[i] + w[x]
            BY <1>3 DEF Sums
        <3>2. /\ sum[i] \in Nat /\ sum[i + 1] \in Nat /\ sum[N] \in Nat
              /\ sum[i] <= sum[N] /\ sum[i + 1] <= sum[N]
            BY <1>1, <1>4, <2>2
        <3> HIDE DEF w, x, N
        <3> QED
            BY <2>4, <3>1, <3>2
    <2>6. Share(kind, a, key)[x] = w[x]
        <3>1. x.id \in q.joins <=> x.id \in a.joins
            BY <2>2
        <3> HIDE DEF x, a
        <3>2. Share(kind, q, key)[x] = Share(kind, a, key)[x]
            BY <2>3, <3>1, SameShare
        <3> QED
            BY <3>2
    <2>7. \A t \in ToSet(a.m_uv_2_txs) \cup Rest(s, i) : t # x => t.id # x.id
        BY <2>3, TxPoolAssumption
    <2>8. ASSUME Leaves(a, x, b)
          PROVE  /\ Agree(i + 1)
                 /\ Vain(Held(kind, b, key), Put(i + 1) + Left(i + 1)) <= bound
        <3>1. b.m_uv_2_txs = a.m_uv_2_txs /\ b.joins = a.joins \ {x.id}
            BY <2>8 DEF Leaves
        <3>2. Agree(i + 1)
            BY <2>2, <2>3, <2>7, <3>1
        <3>3. Held(kind, b, key) = IF h >= w[x] THEN h - w[x] ELSE 0
            BY <2>3, <2>6, <2>8, LeavesHeld
        <3>4. Put(i + 1) = k
            BY <3>1
        <3>5. Vain(h, k + Left(i)) <= bound
            OBVIOUS
        <3> HIDE DEF Put, Left, bound, h, k, w, x, b, a
        <3>6. Vain(Held(kind, b, key), k + Left(i + 1)) <= Vain(h, k + Left(i))
            BY <2>4, <2>5, <3>3 DEF Vain
        <3>7. Vain(Held(kind, b, key), k + Left(i + 1)) \in Nat /\ Vain(h, k + Left(i)) \in Nat
            BY <2>4, <2>5, <3>3 DEF Vain
        <3> QED
            BY <1>5, <3>2, <3>4, <3>5, <3>6, <3>7
    <2>9. ASSUME Stays(a, x, b)
          PROVE  /\ Agree(i + 1)
                 /\ Vain(Held(kind, b, key), Put(i + 1) + Left(i + 1)) <= bound
        <3>1. /\ b.m_uv_2_txs = Append(a.m_uv_2_txs, x) /\ b.joins = a.joins
              /\ SameCounts(a, b)
            <4> HIDE DEF a, b, x
            <4> QED
                BY <2>3, <2>9 DEF Stays, Typed, Fields, SameCounts, CountFields
        <3>2. ToSet(b.m_uv_2_txs) = ToSet(a.m_uv_2_txs) \cup {x}
            BY <2>3, <3>1, AppendIs
        <3>3. Agree(i + 1)
            BY <2>2, <3>1, <3>2
        <3>4. Held(kind, b, key) = h
            BY <3>1, HeldIs
        <3>5. Put(i + 1) = k + w[x]
            <4>1. Total(w, Append(a.m_uv_2_txs, x)) = Total(w, a.m_uv_2_txs) + w[x]
                <5> HIDE DEF w, a, x
                <5> QED
                    BY <1>2, <2>3, TotalIs
            <4> QED
                BY <3>1, <4>1
        <3>6. Vain(h, k + Left(i)) <= bound
            OBVIOUS
        <3> HIDE DEF Put, Left, bound, h, k, w, x, b, a
        <3>7. Put(i + 1) + Left(i + 1) = k + Left(i)
            BY <2>4, <2>5, <3>5
        <3> QED
            BY <3>3, <3>4, <3>6, <3>7
    <2> QED
        BY <2>1, <2>2, <2>8, <2>9, ReadyTurn
<1> HIDE DEF T
<1>8. 0 .. N \subseteq T
    BY <1>1, <1>6, <1>7, ReadyLoop!Induct
<1>9. N \in T /\ r = run[N] /\ Sound(r, Rest(s, N))
    BY <1>1, <1>8 DEF ReadyStates
<1>10. Agree(N) /\ Vain(Held(kind, r, key), Put(N) + Left(N)) <= bound
    BY <1>9 DEF T
<1>11. Put(N) = Total(Share(kind, r, key), r.m_uv_2_txs) /\ Put(N) \in Nat
    <2> DEFINE v == Share(kind, r, key)
               t == r.m_uv_2_txs
    <2>1. t \in Seq(Tx) /\ ToSet(t) \subseteq Tx
        BY <1>9, ListsTyped DEF Sound, Typed
    <2>2. \A y \in ToSet(t) : y.id \in q.joins <=> y.id \in r.joins
        BY <1>9, <1>10
    <2>3. \A y \in ToSet(t) : w[y] = v[y]
        BY <2>1, <2>2, SameShare
    <2>4. Put(N) = Total(w, t)
        BY <1>9
    <2> HIDE DEF v, t, w
    <2> QED
        BY <1>2, <2>1, <2>3, <2>4, TotalSame, TotalIs DEF v, t
<1>12. Left(N) = 0
    BY <1>1, <1>4
<1> HIDE DEF Put, Left, bound
<1>13. Put(N) + Left(N) = Put(N)
    BY <1>11, <1>12
<1> QED
    BY <1>10, <1>11, <1>13 DEF VainAt, bound

\* do_uv_tx locks nothing.
LEMMA LookedVain ==
    ASSUME NEW kind \in Kind, NEW key \in Keys(kind), Told(kind, key),
           NEW p, Sound(p, {}), NEW q, q = Looked(p)
    PROVE  VainAt(kind, q, key) <= VainAt(kind, p, key)
<1> DEFINE f == First(p)
           r == Second(p)
<1>1. PICK run : WaitingStates(p, run)
    BY WaitingRun
<1>2. Sound(f, {})
    BY <1>1, WaitingFit
<1>3. PICK run2 : ReadyStates(f, run2)
    BY <1>2, ReadyRun
<1>4. Sound(r, {})
    BY <1>2, <1>3, ReadyFit DEF Second
<1>5. VainAt(kind, f, key) <= VainAt(kind, p, key)
    BY <1>1, WaitingVain
<1>6. VainAt(kind, r, key) <= VainAt(kind, f, key)
    BY <1>2, <1>3, LoopVain DEF Second
<1>7. VainAt(kind, q, key) = VainAt(kind, r, key)
    <2>1. Same(r, q, {"m_uv_3_txs"})
        BY LookedSound
    <2>2. q.m_uv_2_txs = r.m_uv_2_txs /\ q.joins = r.joins /\ SameCounts(r, q)
        BY <2>1 DEF Same, Fields, SameCounts, CountFields
    <2> HIDE DEF r
    <2> QED
        BY <1>4, <2>2, HeldIs, SameVain DEF Sound
<1>8. /\ VainAt(kind, p, key) \in Nat /\ VainAt(kind, f, key) \in Nat
      /\ VainAt(kind, r, key) \in Nat
    BY <1>2, <1>4, VainTyped DEF Sound
<1> HIDE DEF f, r
<1> QED
    BY <1>5, <1>6, <1>7, <1>8

\* A transaction that is taken, whatever the verdict, locks nothing.
LEMMA TakenVain ==
    ASSUME NEW kind \in Kind, NEW key \in Keys(kind),
           NEW p, Sound(p, {}), NEW x \in Tx, NewTo(p, x),
           NEW q, LET r == Remember(p, x)
                  IN  q \in {Wait(r, x), Ready(r, x), r, Punish(r, x)}
    PROVE  VainAt(kind, q, key) <= VainAt(kind, p, key)
<1> DEFINE r == Remember(p, x)
<1>1. /\ Sound(r, {x})
      /\ Same(p, r, {"m_uv_tx_ids", "m_uv_account_names", "m_uv_account_pubkeys"})
    BY Remembered
<1>2. q \in {Wait(r, x), Ready(r, x), r, Punish(r, x)}
    OBVIOUS
<1> HIDE DEF r
<1>3. Typed(p) /\ Typed(r) /\ x \notin ToSet(r.m_uv_2_txs)
    BY <1>1 DEF Sound, OnePlace
<1>4. VainAt(kind, r, key) = VainAt(kind, p, key) /\ VainAt(kind, p, key) \in Nat
    <2>1. r.m_uv_2_txs = p.m_uv_2_txs /\ r.joins = p.joins /\ SameCounts(p, r)
        BY <1>1 DEF Same, Fields, SameCounts, CountFields
    <2> QED
        BY <1>3, <2>1, HeldIs, SameVain, VainTyped
<1>5. CASE q = Ready(r, x)
    BY <1>3, <1>4, <1>5, ReadyVain
<1>6. CASE q \in {Wait(r, x), r, Punish(r, x)}
    <2>1. q.m_uv_2_txs = r.m_uv_2_txs /\ q.joins = r.joins /\ SameCounts(r, q)
        <3>1. CASE q = Wait(r, x)
            BY <1>3, <3>1, WaitIs DEF Same, Fields, SameCounts, CountFields
        <3>2. CASE q = Punish(r, x)
            BY <1>3, <3>2, PunishIs DEF Same, Fields, SameCounts, CountFields
        <3>3. CASE q = r
            BY <3>3 DEF SameCounts
        <3> QED
            BY <1>6, <3>1, <3>2, <3>3
    <2>2. VainAt(kind, q, key) = VainAt(kind, r, key)
        BY <1>3, <2>1, HeldIs, SameVain
    <2> QED
        BY <1>4, <2>2
<1> QED
    BY <1>2, <1>5, <1>6

\* Counts that are lost are not held.
LEMMA FreshVain ==
    ASSUME NEW kind \in Kind, NEW key \in Keys(kind), NEW p, Typed(p),
           NEW accounts, NEW topics, NEW q, q = Fresh(p, accounts, topics)
    PROVE  VainAt(kind, q, key) <= VainAt(kind, p, key)
<1>1. /\ Typed(q) /\ Same(p, q, CountFields \cup {"anew"})
      /\ \A a \in User :
            /\ q.m_uv_spend[a] \in {0, p.m_uv_spend[a]}
            /\ q.m_uv_topic[a] \in {0, p.m_uv_topic[a]}
            /\ q.m_uv_join_topic[a] \in {0, p.m_uv_join_topic[a]}
      /\ \A k \in Topic :
            /\ q.m_uv_reply[k] \in {0, p.m_uv_reply[k]}
            /\ q.m_uv_reward[k] \in {0, p.m_uv_reward[k]}
    BY FreshIs
<1>2. Held(kind, q, key) = 0 \/ Held(kind, q, key) = Held(kind, p, key)
    BY <1>1 DEF Held, Kind, OfAccount, Keys
<1>3. q.m_uv_2_txs = p.m_uv_2_txs /\ q.joins = p.joins
    BY <1>1 DEF Same, Fields, CountFields
<1>4. VainAt(kind, p, key) \in Nat /\ Total(Share(kind, q, key), q.m_uv_2_txs) \in Nat
    BY <1>1, VainTyped
<1>5. CASE Held(kind, q, key) = 0
    <2>1. VainAt(kind, q, key) = 0
        BY <1>4, <1>5 DEF VainAt, Vain
    <2> QED
        BY <1>4, <2>1
<1>6. CASE Held(kind, q, key) = Held(kind, p, key)
    <2>1. VainAt(kind, q, key) = VainAt(kind, p, key)
        BY <1>3, <1>6, SameVain
    <2> QED
        BY <1>4, <2>1
<1> QED
    BY <1>2, <1>5, <1>6

\* No step but clear_uv_tx locks anything of an account or a topic that is told.
LEMMA StepVain ==
    ASSUME IInv, [Next]_vars, ~ClearUvTx,
           NEW kind \in Kind, NEW key \in Keys(kind), Told(kind, key)
    PROVE  VainAt(kind, pool', key) <= VainAt(kind, pool, key)
<1>1. /\ world.txs \subseteq Tx /\ Sound(pool, {}) /\ Typed(pool) /\ cur \in Block
    BY TxPoolAssumption DEF IInv, Sound
<1>2. VainAt(kind, pool, key) \in Nat
    BY <1>1, VainTyped
<1>3. ASSUME NEW x \in world.txs, TxBroadcast(x)
      PROVE  VainAt(kind, pool', key) <= VainAt(kind, pool, key)
    <2>1. x \in Tx /\ NewTo(pool, x)
        BY <1>1, <1>3, NewsIs DEF TxBroadcast
    <2> QED
        BY <1>1, <1>3, <2>1, BroadcastIs, TakenVain
<1>4. ASSUME NEW x \in world.txs, Submit(x) \/ Console(x)
      PROVE  VainAt(kind, pool', key) <= VainAt(kind, pool, key)
    <2>1. x \in Tx
        BY <1>1
    <2>2. NewTo(pool, x)
        BY <1>1, <1>4, <2>1, SubmittedIs, NewsIs, ConsoleIs DEF Submit, Console
    <2>3. pool' = Ready(Remember(pool, x), x)
        BY <1>4 DEF Submit, Console
    <2> QED
        BY <1>1, <2>1, <2>2, <2>3, TakenVain
<1>5. ASSUME NEW f \in world.blocks, NEW b \in world.blocks, Reorganise(f, b)
      PROVE  VainAt(kind, pool', key) <= VainAt(kind, pool, key)
    BY <1>1, <1>5, FreshVain DEF Reorganise
<1>6. ASSUME do_uv_tx
      PROVE  VainAt(kind, pool', key) <= VainAt(kind, pool, key)
    BY <1>1, <1>6, LookedVain DEF do_uv_tx
<1>7. ASSUME pool' = pool
      PROVE  VainAt(kind, pool', key) <= VainAt(kind, pool, key)
    BY <1>2, <1>7
<1>8. \/ \E x \in world.txs : TxBroadcast(x) \/ Submit(x) \/ Console(x)
      \/ \E f, b \in world.blocks : Reorganise(f, b)
      \/ do_uv_tx
      \/ pool' = pool
    BY DEF Next, NewKey, vars
<1> QED
    BY <1>3, <1>4, <1>5, <1>6, <1>7, <1>8

\* The five kinds as the property names them.
LEMMA KindsAre ==
    ASSUME NEW p
    PROVE  /\ \A a \in User : /\ VainCoins(p, a) = VainAt("spend", p, a)
                              /\ VainTopics(p, a) = VainAt("topic", p, a)
                              /\ VainJoins(p, a) = VainAt("join", p, a)
           /\ \A k \in Topic : /\ VainReplies(p, k) = VainAt("reply", p, k)
                               /\ VainRewards(p, k) = VainAt("reward", p, k)
BY DEF VainCoins, VainTopics, VainJoins, VainReplies, VainRewards, VainAt, Held, Share

\* NothingLocked: whatever comes, is mined, leaves or is moved to another branch,
\* no step but clear_uv_tx makes a count hold more than ready transactions need.
THEOREM NothingIsLocked == Spec => NothingLocked
<1>1. ASSUME IInv, [Next]_vars, ~ClearUvTx
      PROVE  /\ \A a \in User : Registered(L, a) /\ Registered(L', a) =>
                   /\ VainCoins(pool', a) <= VainCoins(pool, a)
                   /\ VainTopics(pool', a) <= VainTopics(pool, a)
                   /\ VainJoins(pool', a) <= VainJoins(pool, a)
             /\ \A k \in Topic : k \in DOMAIN L.topics \cap DOMAIN L'.topics =>
                   /\ VainReplies(pool', k) <= VainReplies(pool, k)
                   /\ VainRewards(pool', k) <= VainRewards(pool, k)
    <2>1. ASSUME NEW a \in User, Registered(L, a), NEW kind \in OfAccount
          PROVE  VainAt(kind, pool', a) <= VainAt(kind, pool, a)
        BY <1>1, <2>1, StepVain DEF Keys, Kind, Told
    <2>2. ASSUME NEW k \in Topic, k \in DOMAIN L.topics, NEW kind \in {"reply", "reward"}
          PROVE  VainAt(kind, pool', k) <= VainAt(kind, pool, k)
        <3>1. kind \notin OfAccount /\ kind \in Kind
            BY DEF OfAccount, Kind
        <3> QED
            BY <1>1, <2>2, <3>1, StepVain DEF Keys, Told
    <2>3. {"spend", "topic", "join"} = OfAccount
        BY DEF OfAccount
    <2> QED
        BY <2>1, <2>2, <2>3, KindsAre
<1>2. IInv /\ [Next]_vars => [~ClearUvTx =>
        /\ \A a \in User : Registered(L, a) /\ Registered(L', a) =>
              /\ VainCoins(pool', a) <= VainCoins(pool, a)
              /\ VainTopics(pool', a) <= VainTopics(pool, a)
              /\ VainJoins(pool', a) <= VainJoins(pool, a)
        /\ \A k \in Topic : k \in DOMAIN L.topics \cap DOMAIN L'.topics =>
              /\ VainReplies(pool', k) <= VainReplies(pool, k)
              /\ VainRewards(pool', k) <= VainRewards(pool, k)]_vars
    BY <1>1
<1> QED
    BY <1>2, Invariance, PTL DEF Spec, NothingLocked
=============================================================================
