---------------------------- MODULE LedgerProofs ----------------------------
(***************************************************************************)
(* What the operations of a ledger do to it and leave of it, for any       *)
(* ledger and any transaction that finish_detail lets through: rollback,   *)
(* the failure path of finish_detail and the trial of mine_tx rely on it.  *)
(*                                                                         *)
(* The first part shows that undoing a transaction is the exact inverse of *)
(* applying it. A proof goes from the ledger before to the one after       *)
(* through the changes made and taken back. Same says which fields of the  *)
(* record a change leaves alone; the others are followed one by one.       *)
(*                                                                         *)
(* The second part is about the books: that no operation makes or loses a  *)
(* coin or overdraws a balance, and that what is undone, much later and in *)
(* a ledger whose lists of members have another order by then, gives back  *)
(* the accounts, balances and topics of before (the Core of the ledger).   *)
(***************************************************************************)
EXTENDS Ledger, SequenceTheorems, FiniteSetTheorems,
        NaturalsInduction, WellFoundedInduction, TLAPS

CONSTANTS
    Pubkey,     \* the keys accounts may have
    Hash        \* the ids of transactions, which name topics and replies too

Fields == {"referrer", "name", "by_id", "balance", "own", "joined", "topics",
           "topic_list", "tx_map", "rollback_topics", "rollback_txs", "sane"}

\* Of all records with these fields: what two of them differ in is a field.
IsRecord(X) == DOMAIN X = Fields /\ X = [f \in DOMAIN X |-> X[f]]
IsFcn(f) == f = [x \in DOMAIN f |-> f[x]]

\* M differs from L in the fields changed only.
Same(L, M, changed) ==
    IsRecord(M) /\ \A field \in Fields \ changed : M[field] = L[field]

\* The changes that are taken back, by a name of their own: to a balance, to
\* the value of a function, and to the window of transactions.
Plus(f, a, k) == [f EXCEPT ![a] = @ + k]
Put(f, a, v) == [f EXCEPT ![a] = v]
Note(L, id) == [L EXCEPT !.tx_map = @ \cup {id}]
Forget(L, id) == [L EXCEPT !.tx_map = @ \ {id}]

TopicType ==
    [owner : Pubkey, block_id : Int, balance : Int,
     members : Seq([tx : Hash, account : Pubkey]),
     replies : Seq([key : Hash, type : {0, 1}, owner : Pubkey, balance : Int])]

\* A ledger: who is registered has a name, a balance and lists, and a referrer
\* who is registered, or none; account 0 has a name and a balance only.
IsLedger(L) ==
    LET A == DOMAIN L.referrer
    IN  /\ IsRecord(L)
        /\ A \subseteq Pubkey /\ Reserve \notin A
        /\ IsFcn(L.referrer) /\ \A a \in A : L.referrer[a] \in A \cup {None}
        /\ IsFcn(L.name) /\ DOMAIN L.name = A \cup {Reserve}
        /\ L.by_id \in Seq(Pubkey)
        /\ L.balance \in [A \cup {Reserve} -> Int]
        /\ L.own \in [A -> Seq(Hash)] /\ L.joined \in [A -> Seq(Hash)]
        /\ DOMAIN L.topics \subseteq Hash /\ L.topics \in [DOMAIN L.topics -> TopicType]
        /\ L.topic_list \in Seq(Hash)
        /\ L.tx_map \subseteq Hash

\* A transaction, as it is parsed from a message or a block.
IsTx(tx) ==
    /\ tx.id \in Hash
    /\ \/ tx.type = "reg" /\ tx.who \in Pubkey \ {Reserve}
       \/ tx.type = "send" /\ tx.amount \in Nat
       \/ tx.type = "topic" /\ tx.amount \in Nat
       \/ tx.type = "reply" /\ tx.topic \in Hash
       \/ tx.type = "reward" /\ tx.topic \in Hash /\ tx.amount \in Nat

\* Who joined a topic is a member of it, and tx made nobody a member yet. In
\* Chain both follow from ListsAgree, the second because CanApply refuses a
\* transaction of the window.
Agree(L, tx) ==
    tx.type = "reply" /\ tx.topic \in DOMAIN L.topics =>
        LET members == L.topics[tx.topic].members
        IN  /\ Contains(L.joined[tx.from], tx.topic)
                 <=> \E i \in DOMAIN members : members[i].account = tx.from
            /\ \A i \in DOMAIN members : members[i].tx # tx.id

-----------------------------------------------------------------------------
(* Records, functions and sequences.                                       *)

\* Records that differ in no field are equal.
LEMMA SameRecord ==
    ASSUME NEW L, NEW M, IsRecord(L), Same(L, M, {})
    PROVE  L = M
BY DEF IsRecord, Same

\* A new entry of a map, taken out again.
LEMMA WithoutWith ==
    ASSUME NEW f, IsFcn(f), NEW x, x \notin DOMAIN f, NEW v
    PROVE  Without(With(f, x, v), x) = f
BY DEF Without, With, IsFcn

\* What was appended last is what Front takes away.
LEMMA FrontAppend ==
    ASSUME NEW S, NEW s \in Seq(S), NEW e \in S
    PROVE  Front(Append(s, e)) = s /\ Last(Append(s, e)) = e /\ Append(s, e) # <<>>
BY DEF Front, Last

\* A value that is replaced and put back.
LEMMA PutBack ==
    ASSUME NEW f, IsFcn(f), NEW a \in DOMAIN f, NEW v
    PROVE  Put(Put(f, a, v), a, f[a]) = f /\ Put(f, a, v)[a] = v
BY DEF Put, IsFcn

\* A credit changes balances only.
LEMMA CreditIs ==
    ASSUME NEW L, IsRecord(L), NEW a, NEW k
    PROVE  /\ Same(L, Credit(L, a, k), {"balance"})
           /\ Credit(L, a, k).balance = Plus(L.balance, a, k)
BY DEF IsRecord, Fields, Credit, Same, Plus

\* A transaction enters and leaves the window, and changes nothing else.
LEMMA NoteIs ==
    ASSUME NEW L, IsRecord(L), NEW id
    PROVE  /\ Same(L, Note(L, id), {"tx_map"})
           /\ Note(L, id).tx_map = L.tx_map \cup {id}
           /\ Same(L, Forget(L, id), {"tx_map"})
           /\ Forget(L, id).tx_map = L.tx_map \ {id}
BY DEF IsRecord, Fields, Note, Forget, Same

\* Two credits, as in a payment or a fee.
LEMMA TwoCredits ==
    ASSUME NEW L, IsRecord(L), NEW a, NEW b, NEW i, NEW j
    PROVE  /\ Same(L, Credit(Credit(L, a, i), b, j), {"balance"})
           /\ Credit(Credit(L, a, i), b, j).balance = Plus(Plus(L.balance, a, i), b, j)
<1>1. /\ Same(L, Credit(L, a, i), {"balance"})
      /\ Credit(L, a, i).balance = Plus(L.balance, a, i)
    BY CreditIs
<1>2. IsRecord(Credit(L, a, i))
    BY <1>1 DEF Same
<1>3. /\ Same(Credit(L, a, i), Credit(Credit(L, a, i), b, j), {"balance"})
      /\ Credit(Credit(L, a, i), b, j).balance = Plus(Credit(L, a, i).balance, b, j)
    BY <1>2, CreditIs
<1> QED
    BY <1>1, <1>3 DEF Same

\* Two changes of balances that are taken back, the last one first.
LEMMA TakenBack ==
    ASSUME NEW D, NEW f \in [D -> Int], NEW a \in D, NEW b \in D,
           NEW i, NEW j, NEW k, NEW l, {i, j, k, l} \subseteq Int,
           i + l = 0, j + k = 0
    PROVE  /\ Plus(Plus(f, a, i), b, j) \in [D -> Int]
           /\ Plus(Plus(Plus(Plus(f, a, i), b, j), b, k), a, l) = f
<1> DEFINE g == Plus(Plus(f, a, i), b, j)
           h == Plus(Plus(g, b, k), a, l)
<1> i \in Int /\ j \in Int /\ k \in Int /\ l \in Int
    OBVIOUS
<1>1. g \in [D -> Int]
    BY DEF Plus
<1>2. \A x \in D : g[x] = f[x] + (IF x = a THEN i ELSE 0) + (IF x = b THEN j ELSE 0)
    BY DEF Plus
<1> HIDE DEF g
<1>3. h \in [D -> Int]
    BY <1>1 DEF Plus
<1>4. \A x \in D : h[x] = g[x] + (IF x = b THEN k ELSE 0) + (IF x = a THEN l ELSE 0)
    BY <1>1 DEF Plus
<1>5. \A x \in D : h[x] = f[x]
    BY <1>1, <1>2, <1>4
<1> HIDE DEF h
<1>6. h = f
    BY <1>3, <1>5
<1> QED
    BY <1>1, <1>6 DEF g, h

\* The fee and its refund: RefundFee finds the patron PayFee paid, for nothing
\* in between changes who referred whom.
LEMMA PayFeeIs ==
    ASSUME NEW L, IsLedger(L), NEW a \in DOMAIN L.referrer
    PROVE  LET F == PayFee(L, a)
           IN  IsLedger(F) /\ Same(L, F, {"balance"}) /\ RefundFee(F, a) = L
<1> DEFINE p == Patron(L, a)
           F == PayFee(L, a)
           R == RefundFee(F, a)
           D == DOMAIN L.referrer \cup {Reserve}
<1>1. p \in D /\ a \in D /\ L.balance \in [D -> Int] /\ IsRecord(L)
    BY DEF IsLedger, Patron
<1>2. /\ Same(L, F, {"balance"})
      /\ F.balance = Plus(Plus(L.balance, p, 1), a, 0 - FEE)
    BY <1>1, TwoCredits DEF PayFee
<1>3. IsRecord(F) /\ F.referrer = L.referrer
    BY <1>2 DEF Same, Fields
<1>4. Patron(F, a) = p
    BY <1>3 DEF Patron
<1> HIDE DEF F, p
<1>5. /\ Same(F, R, {"balance"})
      /\ R.balance = Plus(Plus(F.balance, a, FEE), p, 0 - 1)
    BY <1>3, <1>4, TwoCredits DEF RefundFee
<1> HIDE DEF R, D
<1>6. /\ F.balance \in [D -> Int]
      /\ R.balance = L.balance
    <2> DEFINE i == 1
               j == 0 - FEE
               k == FEE
               l == 0 - 1
    <2>1. {i, j, k, l} \subseteq Int /\ i + l = 0 /\ j + k = 0
        BY DEF FEE
    <2>2. F.balance = Plus(Plus(L.balance, p, i), a, j)
        BY <1>2
    <2>3. R.balance = Plus(Plus(F.balance, a, k), p, l)
        BY <1>5
    <2> HIDE DEF i, j, k, l
    <2> QED
        BY <2>1, <2>2, <2>3, <1>1, TakenBack
<1>7. R = L
    <2>1. Same(L, R, {})
        BY <1>2, <1>5, <1>6 DEF Same, Fields
    <2> QED
        BY <1>1, <2>1, SameRecord
<1>8. IsLedger(F)
    <2>1. /\ F.name = L.name /\ F.by_id = L.by_id /\ F.own = L.own
          /\ F.joined = L.joined /\ F.topics = L.topics
          /\ F.topic_list = L.topic_list /\ F.tx_map = L.tx_map
        BY <1>2 DEF Same, Fields
    <2> QED
        BY <2>1, <1>3, <1>6 DEF IsLedger, D
<1> QED
    BY <1>2, <1>7, <1>8 DEF F, R

\* One such change.
LEMMA TakenBackAtOnce ==
    ASSUME NEW D, NEW f \in [D -> Int], NEW a, NEW j, NEW k,
           {j, k} \subseteq Int, j + k = 0
    PROVE  Plus(Plus(f, a, j), a, k) = f
<1>1. CASE a \in D
    <2> DEFINE g == Plus(f, a, j)
               h == Plus(g, a, k)
    <2>1. g \in [D -> Int] /\ \A x \in D : g[x] = f[x] + (IF x = a THEN j ELSE 0)
        BY <1>1 DEF Plus
    <2> HIDE DEF g
    <2>2. h \in [D -> Int] /\ \A x \in D : h[x] = g[x] + (IF x = a THEN k ELSE 0)
        BY <1>1, <2>1 DEF Plus
    <2>3. \A x \in D : h[x] = f[x]
        BY <2>1, <2>2
    <2> HIDE DEF h
    <2>4. h = f
        BY <2>2, <2>3
    <2> QED
        BY <2>4 DEF g, h
<1>2. CASE a \notin D
    BY <1>2 DEF Plus
<1> QED
    BY <1>1, <1>2

\* Without the fee: a registration, undone, leaves the ledger as it was.
LEMMA RegUndone ==
    ASSUME NEW F, IsLedger(F), NEW tx, CanReg(F, tx), tx.id \notin F.tx_map,
           tx.who \in Pubkey \ {Reserve}
    PROVE  Forget(UndoReg(Note(DoReg(F, tx), tx.id), tx), tx.id) = F
<1> DEFINE C == {"referrer", "name", "by_id", "balance", "own", "joined"}
           M == DoReg(F, tx)
           A == Note(M, tx.id)
           U == UndoReg(A, tx)
           R == Forget(U, tx.id)
<1>1. IsRecord(F)
    BY DEF IsLedger
<1>2. /\ Same(F, M, C)
      /\ M.referrer = With(F.referrer, tx.who, tx.from)
      /\ M.name = With(F.name, tx.who, tx.name)
      /\ M.by_id = Append(F.by_id, tx.who)
      /\ M.balance = With(F.balance, tx.who, 0)
      /\ M.own = With(F.own, tx.who, <<>>)
      /\ M.joined = With(F.joined, tx.who, <<>>)
    BY <1>1 DEF DoReg, Same, IsRecord, Fields
<1> HIDE DEF M
<1>3. Same(M, A, {"tx_map"}) /\ A.tx_map = M.tx_map \cup {tx.id}
    BY <1>2, NoteIs DEF Same
<1> HIDE DEF A
<1>4. /\ Same(A, U, C)
      /\ U.referrer = Without(A.referrer, tx.who)
      /\ U.name = Without(A.name, tx.who)
      /\ U.by_id = Front(A.by_id)
      /\ U.balance = Without(A.balance, tx.who)
      /\ U.own = Without(A.own, tx.who)
      /\ U.joined = Without(A.joined, tx.who)
    BY <1>3 DEF UndoReg, Same, IsRecord, Fields
<1> HIDE DEF U
<1>5. Same(U, R, {"tx_map"}) /\ R.tx_map = U.tx_map \ {tx.id}
    BY <1>4, NoteIs DEF Same
<1> HIDE DEF R
<1>6. tx.who \notin DOMAIN F.referrer /\ tx.who \notin DOMAIN F.name
    BY DEF CanReg, Registered, IsLedger
<1>7. /\ IsFcn(F.referrer) /\ IsFcn(F.name) /\ IsFcn(F.balance) /\ IsFcn(F.own)
      /\ IsFcn(F.joined) /\ DOMAIN F.balance = DOMAIN F.name
      /\ DOMAIN F.own = DOMAIN F.referrer /\ DOMAIN F.joined = DOMAIN F.referrer
    BY DEF IsLedger, IsFcn
<1>8. /\ Without(With(F.referrer, tx.who, tx.from), tx.who) = F.referrer
      /\ Without(With(F.name, tx.who, tx.name), tx.who) = F.name
      /\ Without(With(F.balance, tx.who, 0), tx.who) = F.balance
      /\ Without(With(F.own, tx.who, <<>>), tx.who) = F.own
      /\ Without(With(F.joined, tx.who, <<>>), tx.who) = F.joined
    BY <1>6, <1>7, WithoutWith
<1>9. Front(Append(F.by_id, tx.who)) = F.by_id
    BY FrontAppend DEF IsLedger
<1>10. Same(F, R, C \cup {"tx_map"}) /\ R.tx_map = F.tx_map
    BY <1>2, <1>3, <1>4, <1>5 DEF Same, Fields
<1>11. /\ R.referrer = F.referrer /\ R.name = F.name /\ R.by_id = F.by_id
       /\ R.balance = F.balance /\ R.own = F.own /\ R.joined = F.joined
    <2>1. /\ A.referrer = M.referrer /\ A.name = M.name /\ A.by_id = M.by_id
          /\ A.balance = M.balance /\ A.own = M.own /\ A.joined = M.joined
        BY <1>3 DEF Same, Fields
    <2>2. /\ R.referrer = U.referrer /\ R.name = U.name /\ R.by_id = U.by_id
          /\ R.balance = U.balance /\ R.own = U.own /\ R.joined = U.joined
        BY <1>5 DEF Same, Fields
    <2> QED
        BY <2>1, <2>2, <1>2, <1>4, <1>8, <1>9
<1>12. Same(F, R, {})
    BY <1>10, <1>11 DEF Same
<1> QED
    BY <1>1, <1>12, SameRecord DEF R, U, A, M

\* A payment, to oneself too.
LEMMA SendUndone ==
    ASSUME NEW F, IsLedger(F), NEW tx, CanSend(F, tx), tx.id \notin F.tx_map,
           tx.from \in DOMAIN F.referrer, tx.amount \in Nat
    PROVE  Forget(UndoSend(Note(DoSend(F, tx), tx.id), tx), tx.id) = F
<1> DEFINE M == DoSend(F, tx)
           A == Note(M, tx.id)
           U == UndoSend(A, tx)
           R == Forget(U, tx.id)
           D == DOMAIN F.referrer \cup {Reserve}
           k == tx.amount
           j == 0 - tx.amount
<1>1. /\ IsRecord(F) /\ F.balance \in [D -> Int] /\ tx.from \in D /\ tx.to \in D
      /\ {k, j} \subseteq Int /\ k + j = 0 /\ j + k = 0
    BY DEF IsLedger, CanSend, Registered
<1>2. M = Credit(Credit(F, tx.from, j), tx.to, k)
    BY DEF DoSend, Move
<1>3. U = Credit(Credit(A, tx.to, j), tx.from, k)
    BY DEF UndoSend, Move
<1> HIDE DEF D, M, k, j
<1>4. Same(F, M, {"balance"}) /\ M.balance = Plus(Plus(F.balance, tx.from, j), tx.to, k)
    BY <1>1, <1>2, TwoCredits
<1>5. Same(M, A, {"tx_map"}) /\ A.tx_map = M.tx_map \cup {tx.id}
    BY <1>4, NoteIs DEF Same
<1> HIDE DEF A, U
<1>6. Same(A, U, {"balance"}) /\ U.balance = Plus(Plus(A.balance, tx.to, j), tx.from, k)
    BY <1>3, <1>5, TwoCredits DEF Same
<1>7. Same(U, R, {"tx_map"}) /\ R.tx_map = U.tx_map \ {tx.id}
    BY <1>6, NoteIs DEF Same
<1> HIDE DEF R
<1>8. Plus(Plus(Plus(Plus(F.balance, tx.from, j), tx.to, k), tx.to, j), tx.from, k) = F.balance
    BY <1>1, TakenBack
<1>9. Same(F, R, {"balance", "tx_map"}) /\ R.tx_map = F.tx_map
    BY <1>4, <1>5, <1>6, <1>7 DEF Same, Fields
<1>10. R.balance = F.balance
    BY <1>4, <1>5, <1>6, <1>7, <1>8 DEF Same, Fields
<1>11. Same(F, R, {})
    BY <1>9, <1>10 DEF Same
<1> QED
    BY <1>1, <1>11, SameRecord DEF R, U, A, M

\* A topic: the last of its owner's list and of m_topic_list.
LEMMA TopicUndone ==
    ASSUME NEW F, IsLedger(F), NEW tx, NEW id, CanTopic(F, tx),
           tx.id \notin F.tx_map, tx.id \in Hash,
           tx.from \in DOMAIN F.referrer, tx.amount \in Nat
    PROVE  Forget(UndoTopic(Note(DoTopic(F, tx, id), tx.id), tx), tx.id) = F
<1> DEFINE C == {"balance", "own", "topic_list", "topics"}
           k == tx.amount
           j == 0 - tx.amount
           D == DOMAIN F.referrer \cup {Reserve}
           t == [owner |-> tx.from, block_id |-> id, balance |-> tx.amount,
                 members |-> <<>>, replies |-> <<>>]
           K == Credit(F, tx.from, j)
           M == DoTopic(F, tx, id)
           A == Note(M, tx.id)
           B == Credit(A, tx.from, k)
           U == UndoTopic(A, tx)
           R == Forget(U, tx.id)
<1>1. /\ IsRecord(F) /\ {j, k} \subseteq Int /\ j + k = 0
      /\ F.balance \in [D -> Int] /\ tx.from \in D
    BY DEF IsLedger
<1>2. Same(F, K, {"balance"}) /\ K.balance = Plus(F.balance, tx.from, j)
    BY <1>1, CreditIs
<1>3. M = [K EXCEPT !.own[tx.from] = Append(@, tx.id),
                    !.topic_list   = Append(@, tx.id),
                    !.topics       = With(@, tx.id, t)]
    BY DEF DoTopic
<1> HIDE DEF K, t, j, k, D
<1>4. /\ Same(K, M, {"own", "topic_list", "topics"})
      /\ M.own = Put(K.own, tx.from, Append(K.own[tx.from], tx.id))
      /\ M.topic_list = Append(K.topic_list, tx.id)
      /\ M.topics = With(K.topics, tx.id, t)
    <2>1. DOMAIN K = Fields
        BY <1>2 DEF Same, IsRecord
    <2>2. Same(K, M, {"own", "topic_list", "topics"})
        BY <2>1, <1>3 DEF Same, IsRecord, Fields
    <2>3. M.own = Put(K.own, tx.from, Append(K.own[tx.from], tx.id))
        BY <2>1, <1>3 DEF Fields, Put
    <2>4. M.topic_list = Append(K.topic_list, tx.id)
        BY <2>1, <1>3 DEF Fields
    <2>5. M.topics = With(K.topics, tx.id, t)
        BY <2>1, <1>3 DEF Fields
    <2> QED
        BY <2>2, <2>3, <2>4, <2>5
<1> HIDE DEF M
<1>5. Same(M, A, {"tx_map"}) /\ A.tx_map = M.tx_map \cup {tx.id}
    BY <1>4, NoteIs DEF Same
<1>6. U = [B EXCEPT !.own[tx.from] = Front(@), !.topic_list = Front(@),
                    !.topics = Without(@, tx.id)]
    BY DEF UndoTopic, k
<1> HIDE DEF A
<1>7. Same(A, B, {"balance"}) /\ B.balance = Plus(A.balance, tx.from, k)
    BY <1>5, CreditIs DEF Same
<1> HIDE DEF B, U
<1>8. /\ Same(B, U, {"own", "topic_list", "topics"})
      /\ U.own = Put(B.own, tx.from, Front(B.own[tx.from]))
      /\ U.topic_list = Front(B.topic_list)
      /\ U.topics = Without(B.topics, tx.id)
    BY <1>6, <1>7 DEF Same, IsRecord, Fields, Put
<1>9. Same(U, R, {"tx_map"}) /\ R.tx_map = U.tx_map \ {tx.id}
    BY <1>8, NoteIs DEF Same
<1> HIDE DEF R
<1>10. /\ IsFcn(F.own) /\ tx.from \in DOMAIN F.own /\ F.own[tx.from] \in Seq(Hash)
       /\ IsFcn(F.topics) /\ tx.id \notin DOMAIN F.topics
    BY DEF IsLedger, IsFcn, CanTopic
<1>11. /\ B.own = Put(F.own, tx.from, Append(F.own[tx.from], tx.id))
       /\ B.topic_list = Append(F.topic_list, tx.id)
       /\ B.topics = With(F.topics, tx.id, t)
    BY <1>2, <1>4, <1>5, <1>7 DEF Same, Fields
<1>12. R.own = F.own
    <2>1. B.own[tx.from] = Append(F.own[tx.from], tx.id)
        BY <1>10, <1>11 DEF Put
    <2>2. Front(B.own[tx.from]) = F.own[tx.from]
        BY <2>1, <1>10, FrontAppend
    <2>3. U.own = F.own
        BY <2>2, <1>8, <1>10, <1>11, PutBack
    <2> QED
        BY <2>3, <1>9 DEF Same, Fields
<1>13. R.topic_list = F.topic_list
    <2>1. Front(Append(F.topic_list, tx.id)) = F.topic_list
        BY FrontAppend DEF IsLedger
    <2> QED
        BY <2>1, <1>8, <1>9, <1>11 DEF Same, Fields
<1>14. R.topics = F.topics
    <2>1. Without(With(F.topics, tx.id, t), tx.id) = F.topics
        BY <1>10, WithoutWith
    <2> QED
        BY <2>1, <1>8, <1>9, <1>11 DEF Same, Fields
<1>15. R.balance = F.balance
    <2>1. Plus(Plus(F.balance, tx.from, j), tx.from, k) = F.balance
        BY <1>1, TakenBackAtOnce
    <2> QED
        BY <2>1, <1>2, <1>4, <1>5, <1>7, <1>8, <1>9 DEF Same, Fields
<1>16. Same(F, R, C \cup {"tx_map"}) /\ R.tx_map = F.tx_map
    BY <1>2, <1>4, <1>5, <1>7, <1>8, <1>9 DEF Same, Fields
<1>17. Same(F, R, {})
    BY <1>12, <1>13, <1>14, <1>15, <1>16 DEF Same
<1> QED
    BY <1>1, <1>17, SameRecord DEF R, U, A, M

-----------------------------------------------------------------------------
(* Replies and rewards change a topic.                                     *)

SetReplies(L, key, s) == [L EXCEPT !.topics[key].replies = s]
Join(L, a, list, key, m) == [L EXCEPT !.joined[a] = list, !.topics[key].members = m]
WithReplies(t, s) == [t EXCEPT !.replies = s]
WithMembers(t, m) == [t EXCEPT !.members = m]

\* New replies of a topic, and what they leave alone.
LEMMA SetRepliesIs ==
    ASSUME NEW L, IsRecord(L), NEW key, NEW s
    PROVE  /\ Same(L, SetReplies(L, key, s), {"topics"})
           /\ SetReplies(L, key, s).topics = Put(L.topics, key, WithReplies(L.topics[key], s))
<1>1. Same(L, SetReplies(L, key, s), {"topics"})
    BY DEF IsRecord, Fields, SetReplies, Same
<1>2. SetReplies(L, key, s).topics = Put(L.topics, key, WithReplies(L.topics[key], s))
    BY DEF IsRecord, Fields, SetReplies, Put, WithReplies
<1> QED
    BY <1>1, <1>2

\* An account joins or leaves a topic.
LEMMA JoinIs ==
    ASSUME NEW L, IsRecord(L), NEW a, NEW list, NEW key, NEW m
    PROVE  LET M == Join(L, a, list, key, m)
           IN  /\ Same(L, M, {"joined", "topics"})
               /\ M.joined = Put(L.joined, a, list)
               /\ M.topics = Put(L.topics, key, WithMembers(L.topics[key], m))
<1> DEFINE M == Join(L, a, list, key, m)
<1>1. Same(L, M, {"joined", "topics"})
    BY DEF IsRecord, Fields, Join, Same
<1>2. M.joined = Put(L.joined, a, list)
    BY DEF IsRecord, Fields, Join, Put
<1>3. M.topics = Put(L.topics, key, WithMembers(L.topics[key], m))
    BY DEF IsRecord, Fields, Join, Put, WithMembers
<1> QED
    BY <1>1, <1>2, <1>3

\* The second of two values put at one place stays.
LEMMA PutPut ==
    ASSUME NEW f, IsFcn(f), NEW a \in DOMAIN f, NEW v, NEW w
    PROVE  /\ Put(f, a, v)[a] = v
           /\ Put(Put(f, a, v), a, w) = Put(f, a, w)
           /\ Put(f, a, f[a]) = f
BY DEF Put, IsFcn

\* The members and replies of a topic, replaced and put back.
LEMMA TopicBack ==
    ASSUME NEW t \in TopicType, NEW m, NEW s
    PROVE  /\ WithMembers(t, m).members = m /\ WithMembers(t, m).replies = t.replies
           /\ WithMembers(t, m).owner = t.owner
           /\ WithReplies(t, s).replies = s /\ WithReplies(t, s).members = t.members
           /\ WithReplies(t, s).owner = t.owner
           /\ WithReplies(WithMembers(t, m), s).members = m
           /\ WithReplies(WithMembers(t, m), s).replies = s
           /\ WithReplies(WithMembers(t, m), s).owner = t.owner
           /\ WithReplies(WithReplies(t, s), t.replies) = t
           /\ WithReplies(WithReplies(WithMembers(t, m), s), t.replies).members = m
           /\ WithMembers(WithReplies(WithReplies(WithMembers(t, m), s), t.replies), t.members) = t
BY DEF TopicType, WithMembers, WithReplies

\* A reply. If it made its author a member, it is the last member's; if not,
\* no member's.
LEMMA ReplyUndone ==
    ASSUME NEW F, IsLedger(F), NEW tx, CanReply(F, tx), Agree(F, tx),
           tx.type = "reply", tx.id \notin F.tx_map, tx.id \in Hash,
           tx.from \in DOMAIN F.referrer
    PROVE  Forget(UndoReply(Note(DoReply(F, tx), tx.id), tx), tx.id) = F
<1> DEFINE k == tx.topic
           a == tx.from
           T == F.topics
           J == F.joined
           t == T[k]
           list == Append(J[a], k)
           e == [tx |-> tx.id, account |-> a]
           m == Append(t.members, e)
           r == [key |-> tx.id, type |-> 0, owner |-> a, balance |-> 0]
           s == Append(t.replies, r)
           M == DoReply(F, tx)
           A == Note(M, tx.id)
           B == SetReplies(A, k, Front(A.topics[k].replies))
           U == UndoReply(A, tx)
           R == Forget(U, tx.id)
<1>1. /\ IsRecord(F) /\ IsFcn(T) /\ k \in DOMAIN T /\ t \in TopicType
      /\ IsFcn(J) /\ a \in DOMAIN J /\ J[a] \in Seq(Hash) /\ k \in Hash /\ a \in Pubkey
    BY DEF IsLedger, IsFcn, CanReply
<1>2. t.members \in Seq([tx : Hash, account : Pubkey])
      /\ t.replies \in Seq([key : Hash, type : {0, 1}, owner : Pubkey, balance : Int])
    BY <1>1 DEF TopicType
<1>3. /\ Front(list) = J[a]
      /\ Front(m) = t.members /\ Last(m) = e /\ m # <<>>
      /\ Front(s) = t.replies
    <2> DEFINE E == [tx : Hash, account : Pubkey]
               G == [key : Hash, type : {0, 1}, owner : Pubkey, balance : Int]
    <2>1. /\ t.members \in Seq(E) /\ e \in E
          /\ t.replies \in Seq(G) /\ r \in G
        BY <1>1, <1>2
    <2> HIDE DEF e, r, t, E, G
    <2>2. Front(list) = J[a]
        BY <1>1, FrontAppend
    <2>3. Front(m) = t.members /\ Last(m) = e /\ m # <<>>
        BY <2>1, FrontAppend
    <2>4. Front(s) = t.replies
        BY <2>1, FrontAppend
    <2> QED
        BY <2>2, <2>3, <2>4
<1>4. e.tx = tx.id
    OBVIOUS
<1>5. U = IF A.topics[k].owner # a /\ A.topics[k].members # <<>>
             /\ Last(A.topics[k].members).tx = tx.id
          THEN Join(B, a, Front(B.joined[a]), k, Front(B.topics[k].members))
          ELSE B
    BY DEF UndoReply, Join, SetReplies
<1>6. CASE Joins(F, tx)
    <2> DEFINE N == Join(F, a, list, k, m)
               v1 == WithMembers(t, m)
               v2 == WithReplies(v1, s)
               v3 == WithReplies(v2, t.replies)
    <2>1. t.owner # a /\ AddMember(t.members, tx) = m
        BY <1>1, <1>6 DEF Joins, Agree, AddMember
    <2>2. M = SetReplies(N, k, Append(N.topics[k].replies, r))
        BY <1>6, <2>1 DEF DoReply, Join, SetReplies
    <2> HIDE DEF e, r, m, s, list, t, J, T
    <2>3. v1.members = m /\ v1.replies = t.replies /\ v2.members = m /\ v2.replies = s
          /\ v2.owner = t.owner /\ v3.members = m /\ WithMembers(v3, t.members) = t
        BY <1>1, TopicBack
    <2>4. /\ Same(F, N, {"joined", "topics"})
          /\ N.joined = Put(J, a, list) /\ N.topics = Put(T, k, v1)
        BY <1>1, JoinIs DEF J, T, t
    <2> HIDE DEF N, v1, v2, v3
    <2>5. N.topics[k] = v1
        BY <2>4, <1>1, PutPut
    <2>6. Append(N.topics[k].replies, r) = s
        BY <2>5, <2>3 DEF s
    <2> HIDE DEF M
    <2>7. /\ Same(N, M, {"topics"})
          /\ M.topics = Put(N.topics, k, v2)
        BY <2>2, <2>4, <2>5, <2>6, SetRepliesIs DEF Same, v2
    <2>8. M.topics = Put(T, k, v2) /\ M.topics[k] = v2
        <3>1. M.topics = Put(Put(T, k, v1), k, v2)
            BY <2>7, <2>4
        <3> QED
            BY <3>1, <1>1, PutPut
    <2>9. Same(M, A, {"tx_map"}) /\ A.tx_map = M.tx_map \cup {tx.id}
        BY <2>7, NoteIs DEF Same
    <2> HIDE DEF A
    <2>10. A.topics = Put(T, k, v2) /\ A.topics[k] = v2
        BY <2>8, <2>9 DEF Same, Fields
    <2>11. Front(A.topics[k].replies) = t.replies
        BY <2>10, <2>3, <1>3
    <2> HIDE DEF B
    <2>12. Same(A, B, {"topics"}) /\ B.topics = Put(A.topics, k, v3)
        BY <2>9, <2>10, <2>11, SetRepliesIs DEF Same, B, v3
    <2>13. B.topics = Put(T, k, v3) /\ B.topics[k] = v3
        BY <2>12, <2>10, <1>1, PutPut
    <2>14. B.joined = Put(J, a, list) /\ B.joined[a] = list
        <3>1. B.joined = Put(J, a, list)
            BY <2>4, <2>7, <2>9, <2>12 DEF Same, Fields
        <3> QED
            BY <3>1, <1>1, PutPut
    <2>15. U = Join(B, a, J[a], k, t.members)
        BY <1>3, <1>4, <1>5, <2>1, <2>3, <2>10, <2>13, <2>14
    <2> HIDE DEF U
    <2>16. /\ Same(B, U, {"joined", "topics"})
           /\ U.joined = Put(B.joined, a, J[a])
           /\ U.topics = Put(B.topics, k, WithMembers(v3, t.members))
        BY <2>12, <2>13, <2>15, JoinIs DEF Same
    <2>17. U.joined = J
        BY <2>14, <2>16, <1>1, PutPut
    <2>18. U.topics = T
        <3>1. U.topics = Put(T, k, t)
            BY <2>3, <2>13, <2>16, <1>1, PutPut
        <3> QED
            BY <3>1, <1>1, PutPut DEF t
    <2>19. Same(U, R, {"tx_map"}) /\ R.tx_map = U.tx_map \ {tx.id}
        BY <2>16, NoteIs DEF Same
    <2> HIDE DEF R
    <2>20. /\ Same(F, R, {"joined", "topics", "tx_map"})
           /\ R.tx_map = F.tx_map /\ R.joined = J /\ R.topics = T
        BY <2>4, <2>7, <2>9, <2>12, <2>16, <2>17, <2>18, <2>19 DEF Same, Fields
    <2>21. Same(F, R, {})
        BY <2>20 DEF Same, J, T
    <2> QED
        BY <1>1, <2>21, SameRecord DEF R, U, A, M
<1>7. CASE ~ Joins(F, tx)
    <2> DEFINE v == WithReplies(t, s)
    <2>1. t.owner # a /\ t.members # <<>> => Last(t.members).tx # tx.id
        <3>1. t.members # <<>> => Last(t.members) = t.members[Len(t.members)]
                                  /\ Len(t.members) \in DOMAIN t.members
            BY <1>2 DEF Last
        <3>2. \A i \in DOMAIN t.members : t.members[i].tx # tx.id
            BY <1>1 DEF Agree
        <3> QED
            BY <3>1, <3>2
    <2>2. M = SetReplies(F, k, s)
        BY <1>7 DEF DoReply, SetReplies
    <2> HIDE DEF e, r, m, s, list, t, J, T
    <2>3. v.replies = s /\ v.members = t.members /\ v.owner = t.owner
          /\ WithReplies(v, t.replies) = t
        BY <1>1, TopicBack
    <2> HIDE DEF M, v
    <2>4. Same(F, M, {"topics"}) /\ M.topics = Put(T, k, v)
        BY <1>1, <2>2, SetRepliesIs DEF v, T, t
    <2>5. Same(M, A, {"tx_map"}) /\ A.tx_map = M.tx_map \cup {tx.id}
        BY <2>4, NoteIs DEF Same
    <2> HIDE DEF A
    <2>6. A.topics = Put(T, k, v) /\ A.topics[k] = v
        <3>1. A.topics = Put(T, k, v)
            BY <2>4, <2>5 DEF Same, Fields
        <3> QED
            BY <3>1, <1>1, PutPut
    <2>7. Front(A.topics[k].replies) = t.replies
        BY <2>6, <2>3, <1>3
    <2> HIDE DEF B
    <2>8. Same(A, B, {"topics"}) /\ B.topics = Put(A.topics, k, t)
        BY <2>3, <2>5, <2>6, <2>7, SetRepliesIs DEF Same, B
    <2>9. B.topics = T
        <3>1. B.topics = Put(T, k, t)
            BY <2>6, <2>8, <1>1, PutPut
        <3> QED
            BY <3>1, <1>1, PutPut DEF t
    <2>10. U = B
        BY <1>5, <2>1, <2>3, <2>6
    <2> HIDE DEF U
    <2>11. Same(U, R, {"tx_map"}) /\ R.tx_map = U.tx_map \ {tx.id}
        BY <2>8, <2>10, NoteIs DEF Same
    <2> HIDE DEF R
    <2>12. Same(F, R, {"topics", "tx_map"}) /\ R.tx_map = F.tx_map /\ R.topics = T
        BY <2>4, <2>5, <2>8, <2>9, <2>10, <2>11 DEF Same, Fields
    <2>13. Same(F, R, {})
        BY <2>12 DEF Same, T
    <2> QED
        BY <1>1, <2>13, SameRecord DEF R, U, A, M
<1> QED
    BY <1>6, <1>7

\* A set of naturals has a least element.
LEMMA Least ==
    ASSUME NEW I, I \subseteq Nat, I # {}
    PROVE  Min(I) \in I /\ \A j \in I : Min(I) <= j
<1>1. IsWellFoundedOn({ss \in Nat \X Nat : ss[1] < ss[2]}, Nat)
    BY NatLessThanWellFounded DEF OpToRel
<1>2. PICK i \in I : \A j \in I : ~ (<<j, i>> \in {ss \in Nat \X Nat : ss[1] < ss[2]})
    BY <1>1, WFMin, Zenon
<1>3. ASSUME NEW j \in I PROVE i <= j
    <2>1. i \in Nat /\ j \in Nat /\ <<j, i>> \in Nat \X Nat
        OBVIOUS
    <2>2. ~ (<<j, i>>[1] < <<j, i>>[2])
        BY <1>2, <2>1
    <2> QED
        BY <2>1, <2>2
<1> QED
    BY <1>3 DEF Min

\* The position of a reply: the first of its key.
LEMMA ReplyIs ==
    ASSUME NEW t, Len(t.replies) \in Nat, NEW key, HasReply(t, key)
    PROVE  /\ Reply(t, key) \in 1 .. Len(t.replies)
           /\ t.replies[Reply(t, key)].key = key
           /\ \A j \in 1 .. Len(t.replies) :
                  t.replies[j].key = key => Reply(t, key) <= j
<1> DEFINE I == {i \in 1 .. Len(t.replies) : t.replies[i].key = key}
<1>1. Reply(t, key) = IF I # {} THEN Min(I) ELSE 0
    BY DEF Reply, SelectInSeq
<1>2. I # {} /\ Reply(t, key) = Min(I) /\ I \subseteq Nat
    BY <1>1 DEF HasReply
<1>3. Min(I) \in I /\ \A j \in I : Min(I) <= j
    BY <1>2, Least
<1> QED
    BY <1>2, <1>3

\* A reply keeps its position when others are appended.
LEMMA SameReply ==
    ASSUME NEW t, NEW u, Len(t.replies) \in Nat, Len(u.replies) \in Nat,
           Len(t.replies) <= Len(u.replies),
           \A j \in 1 .. Len(t.replies) : u.replies[j].key = t.replies[j].key,
           NEW key, HasReply(t, key)
    PROVE  Reply(u, key) = Reply(t, key)
<1> DEFINE I == {i \in 1 .. Len(u.replies) : u.replies[i].key = key}
           n == Reply(t, key)
<1>1. /\ n \in 1 .. Len(t.replies) /\ t.replies[n].key = key
      /\ \A j \in 1 .. Len(t.replies) : t.replies[j].key = key => n <= j
    BY ReplyIs
<1>2. Reply(u, key) = IF I # {} THEN Min(I) ELSE 0
    BY DEF Reply, SelectInSeq
<1> HIDE DEF n
<1>3. n \in I /\ \A j \in I : n <= j
    BY <1>1
<1>4. I # {} /\ I \subseteq Nat
    BY <1>3
<1>5. Min(I) \in I /\ \A j \in I : Min(I) <= j
    BY <1>4, Least
<1>6. Min(I) = n
    <2> HIDE DEF I
    <2>1. Min(I) \in Nat /\ n \in Nat /\ Min(I) <= n /\ n <= Min(I)
        BY <1>3, <1>4, <1>5
    <2> QED
        BY <2>1
<1> QED
    BY <1>2, <1>4, <1>6 DEF n

ReplyType == [key : Hash, type : {0, 1}, owner : Pubkey, balance : Int]

\* A reward in the list of replies: the reply it is for gets the coins, the
\* reward itself is appended; and back.
Bump(r, k) == [r EXCEPT !.balance = @ + k]
Rewarded(s, i, k, r) == Append(PayReply(s, i, k), r)
Unrewarded(s, i, k) == Front(PayReply(s, i, 0 - k))

\* A reply given coins that are taken back.
LEMMA BumpBack ==
    ASSUME NEW r \in ReplyType, NEW k \in Int
    PROVE  /\ Bump(r, k) \in ReplyType /\ Bump(r, k).key = r.key /\ Bump(r, k).owner = r.owner
           /\ Bump(Bump(r, k), 0 - k) = r
<1> DEFINE b == Bump(r, k)
           c == Bump(b, 0 - k)
<1>1. /\ b \in ReplyType /\ b.key = r.key /\ b.owner = r.owner /\ b.type = r.type
      /\ b.balance = r.balance + k
    BY DEF Bump, ReplyType
<1> HIDE DEF b
<1>2. /\ c \in ReplyType /\ c.key = b.key /\ c.owner = b.owner /\ c.type = b.type
      /\ c.balance = b.balance + (0 - k)
    BY <1>1 DEF Bump, ReplyType
<1> HIDE DEF c
<1>3. c.balance = r.balance
    BY <1>1, <1>2 DEF ReplyType
<1>4. c = r
    BY <1>1, <1>2, <1>3 DEF ReplyType
<1> QED
    BY <1>1, <1>4 DEF b, c

\* A sequence with one element replaced.
LEMMA ReplacedInSeq ==
    ASSUME NEW S, NEW s \in Seq(S), NEW i \in 1 .. Len(s), NEW v \in S
    PROVE  LET p == [s EXCEPT ![i] = v]
           IN  /\ p \in Seq(S) /\ Len(p) = Len(s) /\ p[i] = v
               /\ \A j \in 1 .. Len(s) : j # i => p[j] = s[j]
OBVIOUS

\* The list of replies after a reward, and back.
LEMMA RewardedBack ==
    ASSUME NEW s \in Seq(ReplyType), NEW i \in 1 .. Len(s), NEW k \in Nat, NEW r \in ReplyType
    PROVE  LET u == Rewarded(s, i, k, r)
           IN  /\ Len(u) = Len(s) + 1
               /\ \A j \in 1 .. Len(s) : u[j].key = s[j].key /\ u[j].owner = s[j].owner
               /\ Unrewarded(u, i, k) = s
<1> DEFINE b == Bump(s[i], k)
           p == [s EXCEPT ![i] = b]
           u == Append(p, r)
           c == Bump(u[i], 0 - k)
           w == [u EXCEPT ![i] = c]
<1>1. /\ s[i] \in ReplyType /\ k \in Int /\ b \in ReplyType
      /\ b.key = s[i].key /\ b.owner = s[i].owner
      /\ Bump(b, 0 - k) = s[i]
    <2>1. s[i] \in ReplyType /\ k \in Int
        OBVIOUS
    <2> QED
        BY <2>1, BumpBack
<1> HIDE DEF b
<1>2. /\ p \in Seq(ReplyType) /\ Len(p) = Len(s) /\ p[i] = b
      /\ \A j \in 1 .. Len(s) : j # i => p[j] = s[j]
    BY <1>1, ReplacedInSeq
<1> HIDE DEF p
<1>3. u \in Seq(ReplyType) /\ Len(u) = Len(s) + 1
      /\ \A j \in 1 .. Len(s) : u[j] = p[j]
    BY <1>2
<1> HIDE DEF u
<1>4. i \in 1 .. Len(u) /\ u[i] = b
    BY <1>2, <1>3
<1>5. c = s[i]
    BY <1>1, <1>4
<1> HIDE DEF c
<1>6. /\ w \in Seq(ReplyType) /\ Len(w) = Len(u) /\ w[i] = c
      /\ \A j \in 1 .. Len(u) : j # i => w[j] = u[j]
    BY <1>1, <1>3, <1>4, <1>5, ReplacedInSeq
<1>7. \A j \in 1 .. Len(s) : w[j] = s[j]
    BY <1>2, <1>3, <1>5, <1>6
<1> HIDE DEF w
<1>8. Front(w) = s
    <2>1. Front(w) \in Seq(ReplyType) /\ Len(Front(w)) = Len(s)
          /\ \A j \in 1 .. Len(s) : Front(w)[j] = w[j]
        BY <1>3, <1>6 DEF Front
    <2> HIDE DEF ReplyType
    <2> QED
        BY <2>1, <1>7
<1>9. \A j \in 1 .. Len(s) : u[j].key = s[j].key /\ u[j].owner = s[j].owner
    BY <1>1, <1>2, <1>3
<1> QED
    BY <1>3, <1>8, <1>9 DEF b, c, u, w, p, Rewarded, Unrewarded, PayReply, Bump

\* The coins and the replies of a topic, replaced.
WithPaid(t, b, s) == [t EXCEPT !.balance = b, !.replies = s]
Pay(L, key, b, s) == [L EXCEPT !.topics[key].balance = b, !.topics[key].replies = s]

\* A payment out of a topic changes that topic only.
LEMMA PayIs ==
    ASSUME NEW L, IsRecord(L), NEW key, NEW b, NEW s, IsFcn(L.topics),
           key \in DOMAIN L.topics
    PROVE  /\ Same(L, Pay(L, key, b, s), {"topics"})
           /\ Pay(L, key, b, s).topics = Put(L.topics, key, WithPaid(L.topics[key], b, s))
<1>1. Same(L, Pay(L, key, b, s), {"topics"})
    BY DEF IsRecord, Fields, Pay, Same
<1>2. Pay(L, key, b, s).topics = Put(L.topics, key, WithPaid(L.topics[key], b, s))
    BY DEF IsRecord, Fields, Pay, Put, WithPaid, IsFcn
<1> QED
    BY <1>1, <1>2

\* Its coins and replies, put back.
LEMMA PaidBack ==
    ASSUME NEW t \in TopicType, NEW b, NEW s
    PROVE  /\ WithPaid(t, b, s).balance = b /\ WithPaid(t, b, s).replies = s
           /\ WithPaid(WithPaid(t, b, s), t.balance, t.replies) = t
BY DEF TopicType, WithPaid

\* What a reward does and undoes, in these terms.
LEMMA RewardSteps ==
    ASSUME NEW L, NEW tx
    PROVE  LET t == L.topics[tx.topic]
               r == [key |-> tx.id, type |-> 1, owner |-> tx.from, balance |-> tx.amount]
               i == Reply(t, tx.reply_to)
               o == ReplyOwner(t, tx.reply_to)
               K == Credit(L, o, tx.amount)
               B == Credit(L, o, 0 - tx.amount)
           IN  /\ DoReward(L, tx) = Pay(K, tx.topic, K.topics[tx.topic].balance - tx.amount,
                                        Rewarded(K.topics[tx.topic].replies, i, tx.amount, r))
               /\ UndoReward(L, tx) = Pay(B, tx.topic, B.topics[tx.topic].balance + tx.amount,
                                          Unrewarded(B.topics[tx.topic].replies, i, tx.amount))
BY DEF DoReward, UndoReward, Pay, Rewarded, Unrewarded

\* A reward: the reply it went to is found again, at the same position.
LEMMA RewardUndone ==
    ASSUME NEW F, IsLedger(F), NEW tx, CanReward(F, tx), tx.id \notin F.tx_map,
           tx.id \in Hash, tx.from \in DOMAIN F.referrer, tx.amount \in Nat
    PROVE  Forget(UndoReward(Note(DoReward(F, tx), tx.id), tx), tx.id) = F
<1> DEFINE k == tx.topic
           n == tx.amount
           j == 0 - tx.amount
           T == F.topics
           D == DOMAIN F.referrer \cup {Reserve}
           t == T[k]
           r == [key |-> tx.id, type |-> 1, owner |-> tx.from, balance |-> n]
           i == Reply(t, tx.reply_to)
           o == ReplyOwner(t, tx.reply_to)
           s == Rewarded(t.replies, i, n, r)
           v == WithPaid(t, t.balance - n, s)
           K == Credit(F, o, n)
           M == DoReward(F, tx)
           A == Note(M, tx.id)
           h == Reply(A.topics[k], tx.reply_to)
           B == Credit(A, ReplyOwner(A.topics[k], tx.reply_to), j)
           U == UndoReward(A, tx)
           R == Forget(U, tx.id)
<1>1. /\ IsRecord(F) /\ IsFcn(T) /\ k \in DOMAIN T /\ t \in TopicType
      /\ F.balance \in [D -> Int] /\ n \in Nat /\ {n, j} \subseteq Int /\ n + j = 0
      /\ r \in ReplyType /\ HasReply(t, tx.reply_to)
    BY DEF IsLedger, IsFcn, CanReward, IsPlain, ReplyType
<1>2. t.replies \in Seq(ReplyType) /\ t.balance \in Int
    BY <1>1 DEF TopicType, ReplyType
<1>3. M = Pay(K, k, K.topics[k].balance - n, Rewarded(K.topics[k].replies, i, n, r))
    BY RewardSteps
<1>4. U = Pay(B, k, B.topics[k].balance + n, Unrewarded(B.topics[k].replies, h, n))
    BY RewardSteps
<1> HIDE DEF r, t, T, n, j, D
<1>5. i \in 1 .. Len(t.replies)
    BY <1>1, <1>2, ReplyIs
<1> HIDE DEF i
<1>6. IsFcn(T) /\ k \in DOMAIN T
    BY <1>1
<1>7. /\ Len(s) = Len(t.replies) + 1
      /\ \A x \in 1 .. Len(t.replies) : s[x].key = t.replies[x].key /\ s[x].owner = t.replies[x].owner
      /\ Unrewarded(s, i, n) = t.replies
    <2> DEFINE q == t.replies
    <2>1. q \in Seq(ReplyType) /\ i \in 1 .. Len(q) /\ n \in Nat /\ r \in ReplyType
        BY <1>1, <1>2, <1>5
    <2> HIDE DEF q
    <2> DEFINE u == Rewarded(q, i, n, r)
    <2>2. /\ Len(u) = Len(q) + 1
          /\ \A x \in 1 .. Len(q) : u[x].key = q[x].key /\ u[x].owner = q[x].owner
          /\ Unrewarded(u, i, n) = q
        BY <2>1, RewardedBack
    <2>3. u = s
        BY DEF q
    <2> HIDE DEF u, s
    <2> QED
        BY <2>2, <2>3 DEF q
<1> HIDE DEF s, o
<1>8. /\ v.replies = s /\ v.balance = t.balance - n
      /\ WithPaid(v, t.balance, t.replies) = t
    BY <1>1, PaidBack
<1> HIDE DEF v, K
<1>9. Same(F, K, {"balance"}) /\ K.balance = Plus(F.balance, o, n)
    BY <1>1, CreditIs DEF K
<1>10. K.topics = T
    BY <1>9 DEF Same, Fields, T
<1>11. M = Pay(K, k, t.balance - n, s)
    BY <1>3, <1>10 DEF t, s
<1> HIDE DEF M
<1>12. Same(K, M, {"topics"}) /\ M.topics = Put(T, k, v)
    <2>1. IsRecord(K) /\ IsFcn(K.topics) /\ k \in DOMAIN K.topics
        BY <1>1, <1>9, <1>10 DEF Same
    <2> QED
        BY <2>1, <1>10, <1>11, PayIs DEF v, t
<1>13. Same(M, A, {"tx_map"}) /\ A.tx_map = M.tx_map \cup {tx.id}
    BY <1>12, NoteIs DEF Same
<1> HIDE DEF A
<1>14. A.topics = Put(T, k, v) /\ A.topics[k] = v
    <2>1. A.topics = Put(T, k, v)
        BY <1>12, <1>13 DEF Same, Fields
    <2> QED
        BY <2>1, <1>6, PutPut
<1>15. h = i
    <2>1. /\ Len(t.replies) \in Nat /\ Len(v.replies) \in Nat
          /\ Len(t.replies) <= Len(v.replies)
          /\ \A x \in 1 .. Len(t.replies) : v.replies[x].key = t.replies[x].key
        BY <1>2, <1>7, <1>8
    <2>2. HasReply(t, tx.reply_to)
        BY <1>1
    <2>3. Reply(v, tx.reply_to) = Reply(t, tx.reply_to)
        BY <2>1, <2>2, SameReply
    <2> QED
        BY <2>3, <1>14 DEF i
<1>16. ReplyOwner(A.topics[k], tx.reply_to) = o
    BY <1>5, <1>7, <1>8, <1>14, <1>15 DEF ReplyOwner, o, i, h
<1> HIDE DEF h, B
<1>17. Same(A, B, {"balance"}) /\ B.balance = Plus(A.balance, o, j)
    BY <1>13, <1>16, CreditIs DEF Same, B
<1>18. B.topics = Put(T, k, v) /\ B.topics[k] = v
    BY <1>14, <1>17 DEF Same, Fields
<1>19. U = Pay(B, k, t.balance, t.replies)
    <2>1. (t.balance - n) + n = t.balance
        BY <1>1, <1>2
    <2> QED
        BY <2>1, <1>4, <1>7, <1>8, <1>15, <1>18
<1> HIDE DEF U
<1>20. Same(B, U, {"topics"}) /\ U.topics = T
    <2>1. IsFcn(B.topics) /\ k \in DOMAIN B.topics
        BY <1>1, <1>18 DEF IsFcn, Put
    <2>2. /\ Same(B, U, {"topics"})
          /\ U.topics = Put(B.topics, k, WithPaid(v, t.balance, t.replies))
        BY <2>1, <1>17, <1>18, <1>19, PayIs DEF Same
    <2>3. U.topics = Put(Put(T, k, v), k, t)
        BY <2>2, <1>8, <1>18
    <2>4. U.topics = Put(T, k, t)
        BY <2>3, <1>6, PutPut
    <2> QED
        BY <2>2, <2>4, <1>6, PutPut DEF t
<1>21. Same(U, R, {"tx_map"}) /\ R.tx_map = U.tx_map \ {tx.id}
    BY <1>20, NoteIs DEF Same
<1> HIDE DEF R
<1>22. R.balance = F.balance
    <2>1. Plus(Plus(F.balance, o, n), o, j) = F.balance
        BY <1>1, TakenBackAtOnce
    <2> QED
        BY <2>1, <1>9, <1>12, <1>13, <1>17, <1>20, <1>21 DEF Same, Fields
<1>23. /\ Same(F, R, {"balance", "topics", "tx_map"})
       /\ R.tx_map = F.tx_map /\ R.topics = T
    BY <1>9, <1>12, <1>13, <1>17, <1>20, <1>21 DEF Same, Fields
<1>24. Same(F, R, {})
    BY <1>22, <1>23 DEF Same, T
<1> QED
    BY <1>1, <1>24, SameRecord DEF R, U, A, M

-----------------------------------------------------------------------------
(* The results.                                                            *)

\* The ledger every node starts with is one.
THEOREM GenesisIsLedger ==
    ASSUME Author \in Pubkey, Reserve \notin Pubkey
    PROVE  IsLedger(GenesisLedger)
<1> DEFINE L == GenesisLedger
<1>1. IsRecord(L)
    BY DEF GenesisLedger, IsRecord, Fields
<1>2. /\ DOMAIN L.referrer = {Author} /\ IsFcn(L.referrer)
      /\ L.referrer[Author] = None
    BY DEF GenesisLedger, IsFcn
<1>3. IsFcn(L.name) /\ DOMAIN L.name = {Author} \cup {Reserve}
    BY DEF GenesisLedger, IsFcn
<1>4. L.by_id \in Seq(Pubkey)
    BY DEF GenesisLedger
<1>5. L.balance \in [{Author} \cup {Reserve} -> Int]
    BY LedgerAssumption DEF GenesisLedger
<1>6. L.own \in [{Author} -> Seq(Hash)] /\ L.joined \in [{Author} -> Seq(Hash)]
    BY DEF GenesisLedger
<1>7. L.topics = <<>> /\ L.topic_list = <<>> /\ L.tx_map = {}
    BY DEF GenesisLedger
<1>8. /\ DOMAIN L.topics = {} /\ L.topics \in [{} -> TopicType]
      /\ L.topic_list \in Seq(Hash)
    BY <1>7
<1> QED
    BY <1>1, <1>2, <1>3, <1>4, <1>5, <1>6, <1>7, <1>8 DEF IsLedger

\* A transaction that finish_detail let through and applied is undone without
\* a trace: the ledger is the one before it, in every list and its order. It
\* is what rollback and the failure path of finish_detail (node.cpp) and of
\* the trial of mine_tx rely on, transaction by transaction.
THEOREM UndoIsInverse ==
    ASSUME NEW L, IsLedger(L), NEW tx, IsTx(tx), NEW id, CanApply(L, tx, id), Agree(L, tx)
    PROVE  Undo(Apply(L, tx, id), tx) = L
<1> DEFINE F == PayFee(L, tx.from)
<1>1. tx.from \in DOMAIN L.referrer /\ tx.id \notin L.tx_map /\ tx.id \in Hash
    BY DEF CanApply, Registered, IsTx
<1>2. IsLedger(F) /\ Same(L, F, {"balance"}) /\ RefundFee(F, tx.from) = L
    BY <1>1, PayFeeIs
<1>3. \/ tx.type = "reg"    /\ CanReg(F, tx)
      \/ tx.type = "send"   /\ CanSend(F, tx)
      \/ tx.type = "topic"  /\ CanTopic(F, tx)
      \/ tx.type = "reply"  /\ CanReply(F, tx)
      \/ tx.type = "reward" /\ CanReward(F, tx)
    BY DEF CanApply
<1> HIDE DEF F
<1>4. /\ tx.from \in DOMAIN F.referrer /\ tx.id \notin F.tx_map /\ Agree(F, tx)
    BY <1>1, <1>2 DEF Same, Fields, Agree
<1>6. CASE tx.type = "reg"
    <2>1. /\ Apply(L, tx, id) = Note(DoReg(F, tx), tx.id)
          /\ Undo(Apply(L, tx, id), tx)
                = RefundFee(Forget(UndoReg(Apply(L, tx, id), tx), tx.id), tx.from)
        BY <1>6 DEF Apply, Undo, Note, Forget, F
    <2>2. Forget(UndoReg(Note(DoReg(F, tx), tx.id), tx), tx.id) = F
        BY <1>2, <1>3, <1>4, <1>6, RegUndone DEF IsTx
    <2> QED
        BY <2>1, <2>2, <1>2
<1>7. CASE tx.type = "send"
    <2>1. /\ Apply(L, tx, id) = Note(DoSend(F, tx), tx.id)
          /\ Undo(Apply(L, tx, id), tx)
                = RefundFee(Forget(UndoSend(Apply(L, tx, id), tx), tx.id), tx.from)
        BY <1>7 DEF Apply, Undo, Note, Forget, F
    <2>2. Forget(UndoSend(Note(DoSend(F, tx), tx.id), tx), tx.id) = F
        BY <1>2, <1>3, <1>4, <1>7, SendUndone DEF IsTx
    <2> QED
        BY <2>1, <2>2, <1>2
<1>8. CASE tx.type = "topic"
    <2>1. /\ Apply(L, tx, id) = Note(DoTopic(F, tx, id), tx.id)
          /\ Undo(Apply(L, tx, id), tx)
                = RefundFee(Forget(UndoTopic(Apply(L, tx, id), tx), tx.id), tx.from)
        BY <1>8 DEF Apply, Undo, Note, Forget, F
    <2>2. Forget(UndoTopic(Note(DoTopic(F, tx, id), tx.id), tx), tx.id) = F
        BY <1>1, <1>2, <1>3, <1>4, <1>8, TopicUndone DEF IsTx
    <2> QED
        BY <2>1, <2>2, <1>2
<1>9. CASE tx.type = "reply"
    <2>1. /\ Apply(L, tx, id) = Note(DoReply(F, tx), tx.id)
          /\ Undo(Apply(L, tx, id), tx)
                = RefundFee(Forget(UndoReply(Apply(L, tx, id), tx), tx.id), tx.from)
        BY <1>9 DEF Apply, Undo, Note, Forget, F
    <2>2. Forget(UndoReply(Note(DoReply(F, tx), tx.id), tx), tx.id) = F
        BY <1>1, <1>2, <1>3, <1>4, <1>9, ReplyUndone
    <2> QED
        BY <2>1, <2>2, <1>2
<1>10. CASE tx.type = "reward"
    <2>1. /\ Apply(L, tx, id) = Note(DoReward(F, tx), tx.id)
          /\ Undo(Apply(L, tx, id), tx)
                = RefundFee(Forget(UndoReward(Apply(L, tx, id), tx), tx.id), tx.from)
        BY <1>10 DEF Apply, Undo, Note, Forget, F
    <2>2. Forget(UndoReward(Note(DoReward(F, tx), tx.id), tx), tx.id) = F
        BY <1>1, <1>2, <1>3, <1>4, <1>10, RewardUndone DEF IsTx
    <2> QED
        BY <2>1, <2>2, <1>2
<1> QED
    BY <1>3, <1>6, <1>7, <1>8, <1>9, <1>10

-----------------------------------------------------------------------------
(* Lists.                                                                  *)

\* A sequence, of whatever values.
IsList(s) == s \in Seq({s[k] : k \in DOMAIN s})

\* A sequence has its positions.
LEMMA ListIs == ASSUME NEW s, IsList(s) PROVE Len(s) \in Nat /\ DOMAIN s = 1 .. Len(s)
BY DEF IsList

\* A sequence over some set is one.
LEMMA SeqIsList == ASSUME NEW S, NEW s \in Seq(S) PROVE IsList(s)
BY DEF IsList

\* push_back.
LEMMA AppendIs ==
    ASSUME NEW s, IsList(s), NEW e
    PROVE  /\ IsList(Append(s, e)) /\ Len(Append(s, e)) = Len(s) + 1
           /\ \A k \in 1 .. Len(s) : Append(s, e)[k] = s[k]
           /\ Append(s, e)[Len(s) + 1] = e
<1> DEFINE S == {s[k] : k \in DOMAIN s} \cup {e}
<1>1. s \in Seq(S) /\ e \in S
    BY DEF IsList
<1> HIDE DEF S
<1>2. /\ Append(s, e) \in Seq(S) /\ Len(Append(s, e)) = Len(s) + 1
      /\ \A k \in 1 .. Len(s) : Append(s, e)[k] = s[k]
      /\ Append(s, e)[Len(s) + 1] = e
    BY <1>1, AppendProperties
<1> QED
    BY <1>2, SeqIsList

\* push_front.
LEMMA PrependIs ==
    ASSUME NEW s, IsList(s), NEW e
    PROVE  /\ IsList(<<e>> \o s) /\ Len(<<e>> \o s) = Len(s) + 1
           /\ (<<e>> \o s)[1] = e
           /\ \A k \in 1 .. Len(s) : (<<e>> \o s)[k + 1] = s[k]
<1> DEFINE S == {s[k] : k \in DOMAIN s} \cup {e}
<1>1. s \in Seq(S) /\ e \in S
    BY DEF IsList
<1> HIDE DEF S
<1>2. <<e>> \in Seq(S) /\ Len(<<e>>) = 1 /\ Len(s) \in Nat
    BY <1>1
<1>3. <<e>> \o s \in Seq(S) /\ Len(<<e>> \o s) = Len(<<e>>) + Len(s)
    BY <1>1, <1>2, ConcatProperties
<1>4. Len(<<e>> \o s) = Len(s) + 1
    BY <1>2, <1>3
<1>5. \A k \in 1 .. Len(<<e>>) + Len(s) :
         (<<e>> \o s)[k] = IF k <= Len(<<e>>) THEN <<e>>[k] ELSE s[k - Len(<<e>>)]
    BY <1>1, <1>2, ConcatProperties, Zenon
<1> DEFINE t == <<e>> \o s
<1>6. \A k \in 1 .. 1 + Len(s) : t[k] = IF k <= 1 THEN e ELSE s[k - 1]
    BY <1>2, <1>5
<1> HIDE DEF t
<1>7. 1 \in 1 .. 1 + Len(s) /\ \A k \in 1 .. Len(s) :
        k + 1 \in 1 .. 1 + Len(s) /\ ~ (k + 1 <= 1) /\ (k + 1) - 1 = k
    BY <1>2
<1>8. t[1] = e /\ \A k \in 1 .. Len(s) : t[k + 1] = s[k]
    BY <1>6, <1>7
<1> QED
    BY <1>3, <1>4, <1>8, SeqIsList DEF t

\* The first n elements.
LEMMA PrefixIs ==
    ASSUME NEW s, IsList(s), NEW n \in Int, n <= Len(s)
    PROVE  /\ IsList(SubSeq(s, 1, n)) /\ (n \in Nat => Len(SubSeq(s, 1, n)) = n)
           /\ \A k \in 1 .. n : SubSeq(s, 1, n)[k] = s[k]
<1> DEFINE S == {s[k] : k \in DOMAIN s}
<1>1. \A k \in 1 .. n : s[k] \in S
    BY ListIs
<1> HIDE DEF S
<1>2. /\ SubSeq(s, 1, n) \in Seq(S)
      /\ Len(SubSeq(s, 1, n)) = IF 1 <= n THEN n - 1 + 1 ELSE 0
    BY <1>1, SubSeqProperties
<1>3. n \in Nat => Len(SubSeq(s, 1, n)) = n
    BY <1>2
<1>4. \A k \in 1 .. n : SubSeq(s, 1, n)[k] = s[k]
    OBVIOUS
<1> QED
    BY <1>2, <1>3, <1>4, SeqIsList

\* pop_back, of an empty list too.
LEMMA FrontIs == ASSUME NEW s, IsList(s) PROVE IsList(Front(s))
<1>1. Len(s) - 1 \in Int /\ Len(s) - 1 <= Len(s)
    BY ListIs
<1> QED
    BY <1>1, PrefixIs DEF Front

\* pop_front.
LEMMA TailIs ==
    ASSUME NEW s, IsList(s), Len(s) # 0
    PROVE  IsList(Tail(s)) /\ Len(Tail(s)) = Len(s) - 1
<1> DEFINE S == {s[k] : k \in DOMAIN s}
<1>1. s \in Seq(S)
    BY DEF IsList
<1> HIDE DEF S
<1>2. s # <<>>
    OBVIOUS
<1>3. Tail(s) \in Seq(S) /\ Len(Tail(s)) = Len(s) - 1
    BY <1>1, <1>2, HeadTailProperties
<1> QED
    BY <1>3, SeqIsList

\* A sequence read from its end holds the same.
LEMMA ReverseIs ==
    ASSUME NEW s, IsList(s)
    PROVE  /\ IsList(Reverse(s)) /\ Len(Reverse(s)) = Len(s)
           /\ \A k \in DOMAIN s : Reverse(s)[k] \in {s[j] : j \in DOMAIN s}
           /\ {Reverse(s)[k].id : k \in DOMAIN s} = {s[k].id : k \in DOMAIN s}
<1> DEFINE S == {s[k] : k \in DOMAIN s}
<1>1. s \in Seq(S) /\ Len(s) \in Nat /\ DOMAIN s = 1 .. Len(s)
    BY ListIs DEF IsList
<1>2. Reverse(s) = [k \in 1 .. Len(s) |-> s[Len(s) - k + 1]]
    BY DEF Reverse
<1>3. \A k \in 1 .. Len(s) : Len(s) - k + 1 \in 1 .. Len(s)
    BY <1>1
<1>4. \A k \in 1 .. Len(s) : Len(s) - (Len(s) - k + 1) + 1 = k
    BY <1>1
<1>5. Reverse(s) \in Seq(S) /\ Len(Reverse(s)) = Len(s)
    BY <1>1, <1>2, <1>3
<1>6. {Reverse(s)[k].id : k \in DOMAIN s} = {s[k].id : k \in DOMAIN s}
    <2>1. ASSUME NEW k \in 1 .. Len(s) PROVE Reverse(s)[Len(s) - k + 1].id = s[k].id
        BY <1>1, <1>2, <1>3, <1>4
    <2>2. ASSUME NEW k \in 1 .. Len(s) PROVE Reverse(s)[k].id = s[Len(s) - k + 1].id
        BY <1>1, <1>2, <1>3
    <2>3. {s[k].id : k \in 1 .. Len(s)} \subseteq {Reverse(s)[k].id : k \in 1 .. Len(s)}
        BY <1>3, <2>1
    <2>4. {Reverse(s)[k].id : k \in 1 .. Len(s)} \subseteq {s[k].id : k \in 1 .. Len(s)}
        BY <1>3, <2>2
    <2> QED
        BY <1>1, <2>3, <2>4
<1> QED
    BY <1>1, <1>2, <1>3, <1>5, <1>6, SeqIsList

\* What SelectInSeq returns is a position or 0.
LEMMA SelectIs ==
    ASSUME NEW I, I # {}, I \subseteq Nat
    PROVE  Min(I) \in I
<1>1. IsWellFoundedOn({ss \in Nat \X Nat : ss[1] < ss[2]}, Nat)
    BY NatLessThanWellFounded DEF OpToRel
<1>2. PICK n \in I : \A j \in I : ~ (<<j, n>> \in {ss \in Nat \X Nat : ss[1] < ss[2]})
    BY <1>1, WFMin, Zenon
<1>3. ASSUME NEW j \in I PROVE n <= j
    <2>1. n \in Nat /\ j \in Nat /\ <<j, n>> \in Nat \X Nat
        OBVIOUS
    <2>2. ~ (<<j, n>>[1] < <<j, n>>[2])
        BY <1>2, <2>1
    <2> QED
        BY <2>1, <2>2
<1>4. \A x \in I : x \in Int
    OBVIOUS
<1>5. \A x, y \in I : (\A z \in I : x <= z) /\ (\A z \in I : y <= z) => x = y
    BY <1>4
<1> QED
    BY <1>3, <1>5 DEF Min

-----------------------------------------------------------------------------
(* The loops that undo the transactions of a block and bring the topics    *)
(* back that it retired.                                                   *)

UndoTurn(c, L, tx) == Undo(L, tx)
RestoreTurn(c, L, saved) == RestoreTopic(L, saved)
UndoLoop == INSTANCE FoldFacts WITH op <- UndoTurn
RestoreLoop == INSTANCE FoldFacts WITH op <- RestoreTurn

-----------------------------------------------------------------------------
(* Sums over finite sets, as MapThenSumSet of the community modules.       *)

OneOf(s) == CHOOSE x \in s : TRUE
SumOver(f, S) == MapThenSumSet(LAMBDA x : f[x], S)
Total(f) == SumOver(f, DOMAIN f)

\* The recursion that defines the sum, for the subsets in D.
IsSum(f, D, g) ==
    g = [s \in D |-> IF s = {} THEN 0 ELSE f[OneOf(s)] + g[s \ {OneOf(s)}]]

\* The subsets of S of at most n elements.
UpTo(S, n) == {s \in SUBSET S : Cardinality(s) <= n}

\* What is left of a finite set without one of its elements.
LEMMA OneLess ==
    ASSUME NEW S, IsFiniteSet(S), NEW s \in SUBSET S, NEW x \in s
    PROVE  /\ IsFiniteSet(s) /\ Cardinality(s) \in Nat /\ s \ {x} \in SUBSET S
           /\ Cardinality(s \ {x}) \in Nat /\ Cardinality(s) = Cardinality(s \ {x}) + 1
<1>1. IsFiniteSet(s)
    BY FS_Subset
<1>2. Cardinality(s) \in Nat /\ Cardinality(s \ {x}) = Cardinality(s) - 1
    BY <1>1, FS_RemoveElement, FS_CardinalityType
<1>3. IsFiniteSet(s \ {x})
    BY <1>1, FS_RemoveElement
<1> QED
    BY <1>1, <1>2, <1>3, FS_CardinalityType

\* A sum over the subsets of n elements is one over those of n + 1.
LEMMA SumStep ==
    ASSUME NEW S, IsFiniteSet(S), NEW f, NEW n \in Nat, NEW g, IsSum(f, UpTo(S, n), g)
    PROVE  \E h : IsSum(f, UpTo(S, n + 1), h)
<1> DEFINE h == [s \in UpTo(S, n + 1) |->
                    IF s = {} THEN 0 ELSE f[OneOf(s)] + g[s \ {OneOf(s)}]]
<1>1. ASSUME NEW s \in UpTo(S, n) PROVE s \in UpTo(S, n + 1) /\ h[s] = g[s]
    <2>1. s \in SUBSET S /\ Cardinality(s) <= n /\ Cardinality(s) \in Nat
        BY FS_Subset, FS_CardinalityType DEF UpTo
    <2>2. s \in UpTo(S, n + 1)
        BY <2>1 DEF UpTo
    <2>3. g[s] = IF s = {} THEN 0 ELSE f[OneOf(s)] + g[s \ {OneOf(s)}]
        BY DEF IsSum
    <2> QED
        BY <2>2, <2>3
<1>2. ASSUME NEW s \in UpTo(S, n + 1), s # {}
      PROVE  h[s] = f[OneOf(s)] + h[s \ {OneOf(s)}]
    <2>1. OneOf(s) \in s /\ s \in SUBSET S /\ Cardinality(s) <= n + 1
        BY <1>2 DEF OneOf, UpTo
    <2>2. s \ {OneOf(s)} \in UpTo(S, n)
        <3>1. /\ s \ {OneOf(s)} \in SUBSET S /\ Cardinality(s \ {OneOf(s)}) \in Nat
              /\ Cardinality(s) = Cardinality(s \ {OneOf(s)}) + 1
            BY <2>1, OneLess
        <3> QED
            BY <2>1, <3>1 DEF UpTo
    <2>3. h[s \ {OneOf(s)}] = g[s \ {OneOf(s)}]
        BY <1>1, <2>2
    <2>4. h[s] = f[OneOf(s)] + g[s \ {OneOf(s)}]
        BY <1>2
    <2> QED
        BY <2>3, <2>4
<1>3. \A s \in UpTo(S, n + 1) : s = {} => h[s] = 0
    OBVIOUS
<1>4. DOMAIN h = UpTo(S, n + 1) /\ h = [s \in DOMAIN h |-> h[s]]
    OBVIOUS
<1> HIDE DEF h
<1>5. h = [s \in UpTo(S, n + 1) |-> IF s = {} THEN 0 ELSE f[OneOf(s)] + h[s \ {OneOf(s)}]]
    BY <1>2, <1>3, <1>4
<1> QED
    BY <1>5 DEF IsSum

\* The recursion is defined for every finite set.
LEMMA SumExists ==
    ASSUME NEW S, IsFiniteSet(S), NEW f
    PROVE  \E g : IsSum(f, SUBSET S, g)
<1> DEFINE n == Cardinality(S)
           T == {i \in 0 .. n : \E g : IsSum(f, UpTo(S, i), g)}
<1>1. n \in Nat
    BY FS_CardinalityType
<1>2. 0 \in T
    <2> DEFINE g == [s \in {{}} |-> 0]
    <2>1. UpTo(S, 0) = {{}}
        <3>1. \A s \in SUBSET S : Cardinality(s) <= 0 <=> s = {}
            BY FS_Subset, FS_CardinalityType, FS_EmptySet
        <3> QED
            BY <3>1 DEF UpTo
    <2>2. IsSum(f, UpTo(S, 0), g)
        BY <2>1 DEF IsSum
    <2> QED
        BY <1>1, <2>2
<1>3. \A i \in 0 .. n : i \in T /\ i < n => i + 1 \in T
    BY <1>1, SumStep
<1> HIDE DEF T
<1>4. 0 .. n \subseteq T
    BY <1>1, <1>2, <1>3, UndoLoop!Induct
<1>5. UpTo(S, n) = SUBSET S
    BY FS_Subset DEF UpTo
<1> HIDE DEF n
<1>6. n \in T
    BY <1>1, <1>4
<1> QED
    BY <1>5, <1>6 DEF T

\* In it, which element is taken out first makes no difference.
LEMMA SumAnyOrder ==
    ASSUME NEW S, IsFiniteSet(S), NEW f, \A x \in S : f[x] \in Int,
           NEW g, IsSum(f, SUBSET S, g)
    PROVE  \A s \in SUBSET S : g[s] \in Int /\ \A x \in s : g[s] = f[x] + g[s \ {x}]
<1> DEFINE n == Cardinality(S)
           Fine(s) == g[s] \in Int /\ \A x \in s : g[s] = f[x] + g[s \ {x}]
           T == {i \in 0 .. n : \A s \in UpTo(S, i) : Fine(s)}
<1>1. n \in Nat /\ \A s \in SUBSET S : Cardinality(s) \in Nat /\ Cardinality(s) <= n
    BY FS_CardinalityType, FS_Subset
<1>2. /\ g[{}] = 0
      /\ \A s \in SUBSET S : s # {} => g[s] = f[OneOf(s)] + g[s \ {OneOf(s)}]
    BY DEF IsSum
<1>3. \A s \in SUBSET S : s # {} => OneOf(s) \in s
    BY DEF OneOf
<1>4. 0 \in T
    <2>1. \A s \in UpTo(S, 0) : s = {}
        BY FS_EmptySet, FS_Subset, <1>1 DEF UpTo
    <2>2. Fine({})
        BY <1>2
    <2>3. 0 \in 0 .. n
        BY <1>1
    <2> HIDE DEF Fine
    <2> QED
        BY <2>1, <2>2, <2>3
<1>5. ASSUME NEW i \in 0 .. n, \A s \in UpTo(S, i) : Fine(s), NEW s \in UpTo(S, i + 1)
      PROVE  Fine(s)
    <2>0. CASE s = {}
        BY <1>2, <2>0
    <2> SUFFICES ASSUME s # {} PROVE Fine(s)
        BY <2>0
    <2> DEFINE y == OneOf(s)
    <2>1. s \in SUBSET S /\ y \in s /\ g[s] = f[y] + g[s \ {y}] /\ Cardinality(s) <= i + 1
        BY <1>2, <1>3 DEF UpTo
    <2>2. \A x \in s : s \ {x} \in UpTo(S, i)
        <3> SUFFICES ASSUME NEW x \in s PROVE s \ {x} \in UpTo(S, i)
            OBVIOUS
        <3>1. /\ s \ {x} \in SUBSET S /\ Cardinality(s \ {x}) \in Nat
              /\ Cardinality(s) = Cardinality(s \ {x}) + 1
            BY <2>1, OneLess
        <3> QED
            BY <1>1, <2>1, <3>1 DEF UpTo
    <2> HIDE DEF y
    <2>3. g[s] \in Int
        <3>1. g[s \ {y}] \in Int /\ f[y] \in Int
            BY <1>5, <2>1, <2>2
        <3> QED
            BY <2>1, <3>1
    <2>4. ASSUME NEW x \in s, x # y PROVE g[s] = f[x] + g[s \ {x}]
        <3> DEFINE r == (s \ {y}) \ {x}
        <3>1. (s \ {x}) \ {y} = r
            OBVIOUS
        <3>2. g[s \ {y}] = f[x] + g[r] /\ g[s \ {x}] = f[y] + g[r]
            <4>1. x \in s \ {y} /\ y \in s \ {x}
                BY <2>1, <2>4
            <4>2. Fine(s \ {y}) /\ Fine(s \ {x})
                BY <1>5, <2>1, <2>2
            <4> HIDE DEF r
            <4> QED
                BY <3>1, <4>1, <4>2
        <3>3. r \in UpTo(S, i)
            <4>1. r \in SUBSET S /\ IsFiniteSet(s \ {y}) /\ r \subseteq s \ {y}
                BY <2>1, FS_Subset
            <4>2. Cardinality(r) <= Cardinality(s \ {y}) /\ Cardinality(r) \in Nat
                  /\ Cardinality(s \ {y}) \in Nat
                BY <4>1, FS_Subset, FS_CardinalityType
            <4> QED
                BY <1>1, <2>1, <2>2, <4>1, <4>2 DEF UpTo
        <3>4. g[r] \in Int /\ f[x] \in Int /\ f[y] \in Int
            BY <1>5, <2>1, <3>3
        <3> HIDE DEF r
        <3> QED
            BY <2>1, <3>2, <3>4
    <2> QED
        BY <2>1, <2>3, <2>4
<1>6. \A i \in 0 .. n : i \in T /\ i < n => i + 1 \in T
    BY <1>1, <1>5
<1> HIDE DEF T
<1>7. 0 .. n \subseteq T
    BY <1>1, <1>4, <1>6, UndoLoop!Induct
<1>8. \A s \in UpTo(S, n) : Fine(s)
    <2>1. n \in 0 .. n
        BY <1>1
    <2> HIDE DEF n
    <2> QED
        BY <1>7, <2>1 DEF T
<1> QED
    BY <1>1, <1>8 DEF UpTo

\* Two such recursions agree where their sets meet.
LEMMA SumUnique ==
    ASSUME NEW S, IsFiniteSet(S), NEW f, NEW g, IsSum(f, SUBSET S, g),
           NEW S2, S2 \subseteq S, NEW h, IsSum(f, SUBSET S2, h)
    PROVE  h[S2] = g[S2]
<1> DEFINE n == Cardinality(S2)
           T == {i \in 0 .. n : \A s \in UpTo(S2, i) : h[s] = g[s]}
<1>0. IsFiniteSet(S2)
    BY FS_Subset
<1>1. n \in Nat /\ \A s \in SUBSET S2 : Cardinality(s) \in Nat /\ Cardinality(s) <= n
    BY <1>0, FS_CardinalityType, FS_Subset
<1>2. \A s \in SUBSET S2 :
        /\ s = {} => g[s] = 0 /\ h[s] = 0
        /\ s # {} => /\ g[s] = f[OneOf(s)] + g[s \ {OneOf(s)}]
                     /\ h[s] = f[OneOf(s)] + h[s \ {OneOf(s)}]
    BY DEF IsSum
<1>3. 0 \in T
    <2>1. \A s \in UpTo(S2, 0) : s = {} /\ s \in SUBSET S2
        BY <1>0, <1>1, FS_EmptySet, FS_Subset DEF UpTo
    <2>2. \A s \in UpTo(S2, 0) : h[s] = g[s]
        BY <1>2, <2>1
    <2>3. 0 \in 0 .. n
        BY <1>1
    <2> QED
        BY <2>2, <2>3
<1>4. ASSUME NEW i \in 0 .. n, \A s \in UpTo(S2, i) : h[s] = g[s], NEW s \in UpTo(S2, i + 1)
      PROVE  h[s] = g[s]
    <2> SUFFICES ASSUME s # {} PROVE h[s] = g[s]
        BY <1>2 DEF UpTo
    <2>1. OneOf(s) \in s /\ s \in SUBSET S2 /\ Cardinality(s) <= i + 1
        BY DEF OneOf, UpTo
    <2>2. /\ s \ {OneOf(s)} \in SUBSET S2 /\ Cardinality(s \ {OneOf(s)}) \in Nat
          /\ Cardinality(s) = Cardinality(s \ {OneOf(s)}) + 1
        BY <1>0, <2>1, OneLess
    <2>3. s \ {OneOf(s)} \in UpTo(S2, i)
        BY <1>1, <2>1, <2>2 DEF UpTo
    <2> QED
        BY <1>2, <1>4, <2>1, <2>3
<1>5. \A i \in 0 .. n : i \in T /\ i < n => i + 1 \in T
    BY <1>1, <1>4
<1> HIDE DEF T
<1>6. 0 .. n \subseteq T
    BY <1>1, <1>3, <1>5, UndoLoop!Induct
<1>7. n \in 0 .. n /\ S2 \in UpTo(S2, n)
    BY <1>1 DEF UpTo
<1> HIDE DEF n
<1> QED
    BY <1>6, <1>7 DEF T

\* The sum is its value.
LEMMA SumIs ==
    ASSUME NEW S, IsFiniteSet(S), NEW f, NEW g, IsSum(f, SUBSET S, g),
           NEW S2, S2 \subseteq S
    PROVE  SumOver(f, S2) = g[S2]
<1> DEFINE h == CHOOSE h : IsSum(f, SUBSET S2, h)
<1>1. IsFiniteSet(S2)
    BY FS_Subset
<1>2. IsSum(f, SUBSET S2, h)
    BY <1>1, SumExists
<1>3. SumOver(f, S2) = h[S2]
    BY DEF SumOver, MapThenSumSet, MapThenFoldSet, IsSum, OneOf
<1> HIDE DEF h
<1> QED
    BY <1>2, <1>3, SumUnique

\* What a book of accounts adds up to, account by account.
LEMMA SumOverIs ==
    ASSUME NEW S, IsFiniteSet(S), NEW f, \A x \in S : f[x] \in Int
    PROVE  /\ SumOver(f, S) \in Int
           /\ \A x \in S : SumOver(f, S) = f[x] + SumOver(f, S \ {x})
<1>1. PICK g : IsSum(f, SUBSET S, g)
    BY SumExists
<1>2. \A s \in SUBSET S : SumOver(f, s) = g[s]
    BY <1>1, SumIs
<1>3. \A s \in SUBSET S : g[s] \in Int /\ \A x \in s : g[s] = f[x] + g[s \ {x}]
    BY <1>1, SumAnyOrder
<1>4. \A x \in S : S \ {x} \in SUBSET S
    OBVIOUS
<1> QED
    BY <1>2, <1>3, <1>4

\* Two books that agree on S.
LEMMA SumSame ==
    ASSUME NEW S, IsFiniteSet(S), NEW f, NEW h, \A x \in S : h[x] = f[x]
    PROVE  SumOver(h, S) = SumOver(f, S)
<1>1. PICK g : IsSum(f, SUBSET S, g)
    BY SumExists
<1>2. \A s \in SUBSET S : s # {} => h[OneOf(s)] = f[OneOf(s)]
    BY DEF OneOf
<1>3. IsSum(h, SUBSET S, g)
    BY <1>1, <1>2 DEF IsSum
<1> QED
    BY <1>1, <1>3, SumIs

\* A payment into an account.
LEMMA TotalPlus ==
    ASSUME NEW D, IsFiniteSet(D), NEW f \in [D -> Int], NEW a \in D, NEW k \in Int
    PROVE  Plus(f, a, k) \in [D -> Int] /\ Total(Plus(f, a, k)) = Total(f) + k
<1> DEFINE g == Plus(f, a, k)
<1>1. g \in [D -> Int] /\ g[a] = f[a] + k /\ \A x \in D \ {a} : g[x] = f[x]
    BY DEF Plus
<1> HIDE DEF g
<1>2. DOMAIN g = D /\ DOMAIN f = D /\ IsFiniteSet(D \ {a}) /\ f[a] \in Int
    BY <1>1, FS_RemoveElement
<1>3. SumOver(f, D) \in Int /\ SumOver(f, D) = f[a] + SumOver(f, D \ {a})
    BY SumOverIs
<1>4. SumOver(g, D) \in Int /\ SumOver(g, D) = g[a] + SumOver(g, D \ {a})
    BY <1>1, SumOverIs
<1>5. SumOver(g, D \ {a}) = SumOver(f, D \ {a})
    BY <1>1, <1>2, SumSame
<1>6. SumOver(f, D \ {a}) \in Int
    BY <1>2, SumOverIs
<1> QED
    BY <1>1, <1>2, <1>3, <1>4, <1>5, <1>6 DEF Total, g

\* A new account.
LEMMA TotalWith ==
    ASSUME NEW D, IsFiniteSet(D), NEW f \in [D -> Int], NEW a, a \notin D, NEW v \in Int
    PROVE  Total(With(f, a, v)) = Total(f) + v
<1> DEFINE g == With(f, a, v)
           E == D \cup {a}
<1>1. g \in [E -> Int] /\ g[a] = v /\ \A x \in D : g[x] = f[x]
    BY DEF With
<1> HIDE DEF g
<1>2. DOMAIN g = E /\ DOMAIN f = D /\ IsFiniteSet(E) /\ E \ {a} = D /\ a \in E
    BY <1>1, FS_AddElement
<1> HIDE DEF E
<1>3. SumOver(g, E) = g[a] + SumOver(g, D)
    BY <1>1, <1>2, SumOverIs
<1>4. SumOver(g, D) = SumOver(f, D) /\ SumOver(f, D) \in Int
    BY <1>1, SumSame, SumOverIs
<1> QED
    BY <1>1, <1>2, <1>3, <1>4 DEF Total, g, E

\* An account that is closed.
LEMMA TotalWithout ==
    ASSUME NEW D, IsFiniteSet(D), NEW f \in [D -> Int], NEW a \in D
    PROVE  Without(f, a) \in [D \ {a} -> Int] /\ Total(Without(f, a)) = Total(f) - f[a]
<1> DEFINE g == Without(f, a)
           E == D \ {a}
<1>1. g \in [E -> Int] /\ \A x \in E : g[x] = f[x]
    BY DEF Without
<1> HIDE DEF g
<1>2. DOMAIN g = E /\ DOMAIN f = D /\ IsFiniteSet(E) /\ f[a] \in Int
    BY <1>1, FS_RemoveElement
<1>3. SumOver(f, D) = f[a] + SumOver(f, E) /\ SumOver(f, E) \in Int
    BY <1>2, SumOverIs
<1>4. SumOver(g, E) = SumOver(f, E)
    BY <1>1, <1>2, SumSame
<1> HIDE DEF E
<1> QED
    BY <1>1, <1>2, <1>3, <1>4 DEF Total, g, E

\* A book of accounts: it can be added up.
Sums(f) == IsFiniteSet(DOMAIN f) /\ f \in [DOMAIN f -> Int]

\* What a payment, a new account and a closed one do to the total.
LEMMA TotalIs ==
    ASSUME NEW f, Sums(f), NEW a, NEW k \in Int
    PROVE  /\ Total(f) \in Int
           /\ a \in DOMAIN f => Total(Plus(f, a, k)) = Total(f) + k
           /\ a \notin DOMAIN f => Total(With(f, a, k)) = Total(f) + k
           /\ a \in DOMAIN f => Total(Without(f, a)) = Total(f) - f[a]
<1> DEFINE D == DOMAIN f
<1>1. IsFiniteSet(D) /\ f \in [D -> Int] /\ \A x \in D : f[x] \in Int
    BY DEF Sums
<1>2. Total(f) \in Int
    BY <1>1, SumOverIs DEF Total
<1>3. a \in D => Total(Plus(f, a, k)) = Total(f) + k
    <2> HIDE DEF D
    <2> QED
        BY <1>1, TotalPlus
<1>4. a \notin D => Total(With(f, a, k)) = Total(f) + k
    <2> HIDE DEF D
    <2> SUFFICES ASSUME a \notin D PROVE Total(With(f, a, k)) = Total(f) + k
        OBVIOUS
    <2> QED
        BY <1>1, TotalWith
<1>5. a \in D => Total(Without(f, a)) = Total(f) - f[a]
    <2> HIDE DEF D
    <2> QED
        BY <1>1, TotalWithout
<1> QED
    BY <1>2, <1>3, <1>4, <1>5

-----------------------------------------------------------------------------
(* The core of a ledger.                                                   *)

TopicFields == {"owner", "block_id", "balance", "members", "replies"}

Bare(t) == [owner |-> t.owner, block_id |-> t.block_id, balance |-> t.balance,
            members |-> <<>>, replies |-> t.replies]
BareAll(T) == [k \in DOMAIN T |-> Bare(T[k])]

\* The ledger without memberships, whose lists rollback may leave in another
\* order, and without the window of transactions and what is kept to undo.
Core(L) ==
    [ referrer |-> L.referrer, name |-> L.name, by_id |-> L.by_id,
      balance |-> L.balance, own |-> L.own,
      joined |-> [a \in DOMAIN L.referrer |-> <<>>],
      topics |-> BareAll(L.topics), topic_list |-> L.topic_list,
      tx_map |-> {}, rollback_topics |-> <<>>, rollback_txs |-> <<>>, sane |-> TRUE ]

ShapedTopics(T) == IsFcn(T) /\ \A k \in DOMAIN T : TopicFields \subseteq DOMAIN T[k]
Shaped(L) == IsRecord(L) /\ ShapedTopics(L.topics)

\* M is a ledger that keeps for undoing what L does.
Keeps(L, M) ==
    /\ Shaped(M) /\ M.rollback_topics = L.rollback_topics
    /\ M.rollback_txs = L.rollback_txs /\ M.sane = L.sane

\* Two ledgers of one core.
Alike(L, M) ==
    /\ M.referrer = L.referrer /\ M.name = L.name /\ M.by_id = L.by_id
    /\ M.balance = L.balance /\ M.own = L.own
    /\ BareAll(M.topics) = BareAll(L.topics) /\ M.topic_list = L.topic_list

\* Ledgers are alike if their cores are one.
LEMMA CoreAlike ==
    ASSUME NEW L, NEW M
    PROVE  Core(L) = Core(M) <=> Alike(L, M)
<1>1. Alike(L, M) => Core(L) = Core(M)
    BY DEF Alike, Core
<1>2. ASSUME Core(L) = Core(M) PROVE Alike(L, M)
    <2>1. /\ Core(L).referrer = L.referrer /\ Core(L).name = L.name
          /\ Core(L).by_id = L.by_id /\ Core(L).balance = L.balance
          /\ Core(L).own = L.own /\ Core(L).topics = BareAll(L.topics)
          /\ Core(L).topic_list = L.topic_list
        BY DEF Core
    <2>2. /\ Core(M).referrer = M.referrer /\ Core(M).name = M.name
          /\ Core(M).by_id = M.by_id /\ Core(M).balance = M.balance
          /\ Core(M).own = M.own /\ Core(M).topics = BareAll(M.topics)
          /\ Core(M).topic_list = M.topic_list
        BY DEF Core
    <2> HIDE DEF Core
    <2> QED
        BY <1>2, <2>1, <2>2 DEF Alike
<1> QED
    BY <1>1, <1>2

\* A topic without its members, twice.
LEMMA BareIs ==
    ASSUME NEW T
    PROVE  /\ BareAll(BareAll(T)) = BareAll(T) /\ DOMAIN BareAll(T) = DOMAIN T
           /\ ShapedTopics(BareAll(T))
           /\ \A k \in DOMAIN T : BareAll(T)[k] = Bare(T[k])
BY DEF BareAll, Bare, ShapedTopics, TopicFields, IsFcn

\* The core is a ledger, its own core.
LEMMA CoreIs ==
    ASSUME NEW L
    PROVE  Shaped(Core(L)) /\ Alike(Core(L), L) /\ Core(Core(L)) = Core(L)
<1>1. Alike(Core(L), L)
    BY BareIs DEF Core, Alike
<1>2. Shaped(Core(L))
    <2>1. Core(L).topics = BareAll(L.topics) /\ IsRecord(Core(L))
        BY DEF Core, IsRecord, Fields
    <2> QED
        BY <2>1, BareIs DEF Shaped
<1> QED
    BY <1>1, <1>2, CoreAlike

-----------------------------------------------------------------------------
(* Operations that do to the cores of two ledgers the same.                *)

\* A payment.
LEMMA CreditAlike ==
    ASSUME NEW L, Shaped(L), NEW M, Shaped(M), Alike(L, M), NEW a, NEW k
    PROVE  Keeps(L, Credit(L, a, k)) /\ Alike(Credit(L, a, k), Credit(M, a, k))
<1>1. /\ Same(L, Credit(L, a, k), {"balance"})
      /\ Credit(L, a, k).balance = Plus(L.balance, a, k)
    BY CreditIs DEF Shaped
<1>2. /\ Same(M, Credit(M, a, k), {"balance"})
      /\ Credit(M, a, k).balance = Plus(M.balance, a, k)
    BY CreditIs DEF Shaped
<1> QED
    BY <1>1, <1>2 DEF Same, Fields, Keeps, Shaped, Alike

\* Two payments.
LEMMA CreditsAlike ==
    ASSUME NEW L, Shaped(L), NEW M, Shaped(M), Alike(L, M), NEW a, NEW i, NEW b, NEW j
    PROVE  /\ Keeps(L, Credit(Credit(L, a, i), b, j))
           /\ Alike(Credit(Credit(L, a, i), b, j), Credit(Credit(M, a, i), b, j))
<1>1. Keeps(L, Credit(L, a, i)) /\ Alike(Credit(L, a, i), Credit(M, a, i))
    BY CreditAlike
<1>2. Keeps(M, Credit(M, a, i))
    BY CreditAlike DEF Alike
<1>3. Shaped(Credit(L, a, i)) /\ Shaped(Credit(M, a, i))
    BY <1>1, <1>2 DEF Keeps
<1>4. /\ Keeps(Credit(L, a, i), Credit(Credit(L, a, i), b, j))
      /\ Alike(Credit(Credit(L, a, i), b, j), Credit(Credit(M, a, i), b, j))
    BY <1>1, <1>3, CreditAlike
<1> QED
    BY <1>1, <1>4 DEF Keeps

\* The fee, its refund, and what the miner gets and gives back.
LEMMA FeesAlike ==
    ASSUME NEW L, Shaped(L), NEW M, Shaped(M), Alike(L, M), NEW a
    PROVE  /\ Keeps(L, PayFee(L, a)) /\ Alike(PayFee(L, a), PayFee(M, a))
           /\ Keeps(L, RefundFee(L, a)) /\ Alike(RefundFee(L, a), RefundFee(M, a))
<1>1. Patron(L, a) = Patron(M, a) /\ Keeps(L, Credit(L, a, FEE))
      /\ Keeps(M, Credit(M, a, FEE)) /\ Alike(Credit(L, a, FEE), Credit(M, a, FEE))
    BY CreditAlike DEF Alike, Patron
<1>2. Patron(Credit(L, a, FEE), a) = Patron(L, a)
      /\ Patron(Credit(M, a, FEE), a) = Patron(M, a)
    BY CreditIs DEF Patron, Same, Fields, Shaped
<1>3. PayFee(L, a) = Credit(Credit(L, Patron(L, a), 1), a, 0 - FEE)
      /\ PayFee(M, a) = Credit(Credit(M, Patron(L, a), 1), a, 0 - FEE)
    BY <1>1 DEF PayFee
<1>4. RefundFee(L, a) = Credit(Credit(L, a, FEE), Patron(L, a), 0 - 1)
      /\ RefundFee(M, a) = Credit(Credit(M, a, FEE), Patron(L, a), 0 - 1)
    BY <1>1 DEF RefundFee
<1> QED
    BY <1>3, <1>4, CreditsAlike

\* A registration, and one that is taken back.
LEMMA RegAlike ==
    ASSUME NEW L, Shaped(L), NEW M, Shaped(M), Alike(L, M), NEW tx
    PROVE  /\ Keeps(L, DoReg(L, tx)) /\ Alike(DoReg(L, tx), DoReg(M, tx))
           /\ Keeps(L, UndoReg(L, tx)) /\ Alike(UndoReg(L, tx), UndoReg(M, tx))
<1> DEFINE C == {"referrer", "name", "by_id", "balance", "own", "joined"}
           Does(X, D) ==
                /\ Same(X, D, C)
                /\ D.referrer = With(X.referrer, tx.who, tx.from)
                /\ D.name = With(X.name, tx.who, tx.name)
                /\ D.by_id = Append(X.by_id, tx.who)
                /\ D.balance = With(X.balance, tx.who, 0)
                /\ D.own = With(X.own, tx.who, <<>>)
           Undoes(X, U) ==
                /\ Same(X, U, C)
                /\ U.referrer = Without(X.referrer, tx.who)
                /\ U.name = Without(X.name, tx.who)
                /\ U.by_id = Front(X.by_id)
                /\ U.balance = Without(X.balance, tx.who)
                /\ U.own = Without(X.own, tx.who)
<1>1. ASSUME NEW X, Shaped(X) PROVE Does(X, DoReg(X, tx)) /\ Undoes(X, UndoReg(X, tx))
    BY <1>1 DEF DoReg, UndoReg, Same, Shaped, IsRecord, Fields
<1>2. /\ Does(L, DoReg(L, tx)) /\ Undoes(L, UndoReg(L, tx))
      /\ Does(M, DoReg(M, tx)) /\ Undoes(M, UndoReg(M, tx))
    BY <1>1
<1> QED
    BY <1>2 DEF Same, Fields, Keeps, Shaped, Alike

\* A payment between accounts, either way.
LEMMA SendAlike ==
    ASSUME NEW L, Shaped(L), NEW M, Shaped(M), Alike(L, M), NEW tx
    PROVE  /\ Keeps(L, DoSend(L, tx)) /\ Alike(DoSend(L, tx), DoSend(M, tx))
           /\ Keeps(L, UndoSend(L, tx)) /\ Alike(UndoSend(L, tx), UndoSend(M, tx))
BY CreditsAlike DEF DoSend, UndoSend, Move

\* A topic more, and one less.
LEMMA BareWith ==
    ASSUME NEW T, ShapedTopics(T), NEW k, NEW t
    PROVE  /\ TopicFields \subseteq DOMAIN t => ShapedTopics(With(T, k, t))
           /\ BareAll(With(T, k, t)) = With(BareAll(T), k, Bare(t))
           /\ ShapedTopics(Without(T, k))
           /\ BareAll(Without(T, k)) = Without(BareAll(T), k)
BY DEF BareAll, Bare, With, Without, ShapedTopics, IsFcn

\* One that changes, its members apart.
LEMMA BarePut ==
    ASSUME NEW T, ShapedTopics(T), NEW k, NEW t, TopicFields \subseteq DOMAIN t
    PROVE  ShapedTopics(Put(T, k, t)) /\ BareAll(Put(T, k, t)) = Put(BareAll(T), k, Bare(t))
BY DEF BareAll, Bare, Put, ShapedTopics, IsFcn

\* A new topic, and one that is taken back.
LEMMA TopicAlike ==
    ASSUME NEW L, Shaped(L), NEW M, Shaped(M), Alike(L, M), NEW tx, NEW id
    PROVE  /\ Keeps(L, DoTopic(L, tx, id)) /\ Alike(DoTopic(L, tx, id), DoTopic(M, tx, id))
           /\ Keeps(L, UndoTopic(L, tx)) /\ Alike(UndoTopic(L, tx), UndoTopic(M, tx))
<1> DEFINE C == {"own", "topic_list", "topics"}
           t == [owner |-> tx.from, block_id |-> id, balance |-> tx.amount,
                 members |-> <<>>, replies |-> <<>>]
           Does(X, D) ==
                /\ Same(X, D, C)
                /\ D.own = Put(X.own, tx.from, Append(X.own[tx.from], tx.id))
                /\ D.topic_list = Append(X.topic_list, tx.id)
                /\ D.topics = With(X.topics, tx.id, t)
           Undoes(X, U) ==
                /\ Same(X, U, C)
                /\ U.own = Put(X.own, tx.from, Front(X.own[tx.from]))
                /\ U.topic_list = Front(X.topic_list)
                /\ U.topics = Without(X.topics, tx.id)
           LD == Credit(L, tx.from, 0 - tx.amount)
           MD == Credit(M, tx.from, 0 - tx.amount)
           LU == Credit(L, tx.from, tx.amount)
           MU == Credit(M, tx.from, tx.amount)
<1>1. /\ Keeps(L, LD) /\ Keeps(M, MD) /\ Alike(LD, MD)
      /\ Keeps(L, LU) /\ Keeps(M, MU) /\ Alike(LU, MU)
    BY CreditAlike DEF Alike
<1>2. ASSUME NEW X, IsRecord(Credit(X, tx.from, 0 - tx.amount))
      PROVE  Does(Credit(X, tx.from, 0 - tx.amount), DoTopic(X, tx, id))
    <2> DEFINE Y == Credit(X, tx.from, 0 - tx.amount)
               Z == DoTopic(X, tx, id)
    <2>1. Z = [Y EXCEPT !.own[tx.from] = Append(@, tx.id),
                        !.topic_list   = Append(@, tx.id),
                        !.topics       = With(@, tx.id, t)]
        BY DEF DoTopic
    <2>2. IsRecord(Y)
        BY <1>2
    <2> HIDE DEF Y, Z
    <2> QED
        BY <2>1, <2>2 DEF Same, IsRecord, Fields, Put, Y, Z
<1>3. ASSUME NEW X, IsRecord(Credit(X, tx.from, tx.amount))
      PROVE  Undoes(Credit(X, tx.from, tx.amount), UndoTopic(X, tx))
    <2> DEFINE Y == Credit(X, tx.from, tx.amount)
               Z == UndoTopic(X, tx)
    <2>1. Z = [Y EXCEPT !.own[tx.from] = Front(@),
                        !.topic_list   = Front(@),
                        !.topics       = Without(@, tx.id)]
        BY DEF UndoTopic
    <2>2. IsRecord(Y)
        BY <1>3
    <2> HIDE DEF Y, Z
    <2> QED
        BY <2>1, <2>2 DEF Same, IsRecord, Fields, Put, Y, Z
<1>4. /\ Does(LD, DoTopic(L, tx, id)) /\ Does(MD, DoTopic(M, tx, id))
      /\ Undoes(LU, UndoTopic(L, tx)) /\ Undoes(MU, UndoTopic(M, tx))
    BY <1>1, <1>2, <1>3 DEF Keeps, Shaped
<1>5. TopicFields \subseteq DOMAIN t
    BY DEF TopicFields
<1> HIDE DEF t, LD, MD, LU, MU
<1>6. /\ ShapedTopics(With(LD.topics, tx.id, t))
      /\ BareAll(With(LD.topics, tx.id, t)) = BareAll(With(MD.topics, tx.id, t))
      /\ ShapedTopics(Without(LU.topics, tx.id))
      /\ BareAll(Without(LU.topics, tx.id)) = BareAll(Without(MU.topics, tx.id))
    BY <1>1, <1>5, BareWith DEF Keeps, Shaped, Alike
<1>7. Keeps(LD, DoTopic(L, tx, id)) /\ Alike(DoTopic(L, tx, id), DoTopic(M, tx, id))
    BY <1>1, <1>4, <1>6 DEF Same, Fields, Keeps, Shaped, Alike
<1>8. Keeps(LU, UndoTopic(L, tx)) /\ Alike(UndoTopic(L, tx), UndoTopic(M, tx))
    BY <1>1, <1>4, <1>6 DEF Same, Fields, Keeps, Shaped, Alike
<1> QED
    BY <1>1, <1>7, <1>8 DEF Keeps

\* A topic with other members or replies, its members apart.
LEMMA BareChanged ==
    ASSUME NEW t, TopicFields \subseteq DOMAIN t, NEW m, NEW s, NEW b
    PROVE  /\ TopicFields \subseteq DOMAIN WithMembers(t, m)
           /\ WithMembers(t, m).replies = t.replies
           /\ Bare(WithMembers(t, m)) = Bare(t)
           /\ TopicFields \subseteq DOMAIN WithReplies(t, s)
           /\ Bare(WithReplies(t, s)) = WithReplies(Bare(t), s)
           /\ TopicFields \subseteq DOMAIN WithPaid(t, b, s)
           /\ Bare(WithPaid(t, b, s)) = WithPaid(Bare(t), b, s)
           /\ Bare(t).replies = t.replies /\ Bare(t).owner = t.owner
           /\ Bare(t).balance = t.balance
<1>1. /\ TopicFields \subseteq DOMAIN WithMembers(t, m)
      /\ WithMembers(t, m).replies = t.replies
      /\ Bare(WithMembers(t, m)) = Bare(t)
    BY DEF TopicFields, WithMembers, Bare
<1>2. /\ TopicFields \subseteq DOMAIN WithReplies(t, s)
      /\ Bare(WithReplies(t, s)) = WithReplies(Bare(t), s)
    BY DEF TopicFields, WithReplies, Bare
<1>3. /\ TopicFields \subseteq DOMAIN WithPaid(t, b, s)
      /\ Bare(WithPaid(t, b, s)) = WithPaid(Bare(t), b, s)
    <2> DEFINE p == WithPaid(t, b, s)
    <2>1. /\ TopicFields \subseteq DOMAIN p
          /\ p.owner = t.owner /\ p.block_id = t.block_id /\ p.balance = b /\ p.replies = s
        BY DEF TopicFields, WithPaid
    <2> HIDE DEF p
    <2>2. Bare(p) = [owner |-> t.owner, block_id |-> t.block_id, balance |-> b,
                     members |-> <<>>, replies |-> s]
        BY <2>1 DEF Bare
    <2>3. WithPaid(Bare(t), b, s) = [owner |-> t.owner, block_id |-> t.block_id, balance |-> b,
                                     members |-> <<>>, replies |-> s]
        <3> DEFINE r == Bare(t)
                   q == WithPaid(r, b, s)
        <3>1. /\ DOMAIN r = TopicFields /\ r.owner = t.owner /\ r.block_id = t.block_id
              /\ r.members = <<>>
            BY DEF Bare, TopicFields
        <3> HIDE DEF r
        <3>2. /\ DOMAIN q = TopicFields /\ q.owner = r.owner /\ q.block_id = r.block_id
              /\ q.members = r.members /\ q.balance = b /\ q.replies = s
            BY <3>1 DEF WithPaid, TopicFields
        <3>3. q = [x \in DOMAIN q |-> q[x]]
            BY DEF WithPaid
        <3> HIDE DEF q
        <3> QED
            BY <3>1, <3>2, <3>3 DEF q, r, TopicFields
    <2> QED
        BY <2>1, <2>2, <2>3 DEF p
<1>4. Bare(t).replies = t.replies /\ Bare(t).owner = t.owner /\ Bare(t).balance = t.balance
    BY DEF Bare
<1> QED
    BY <1>1, <1>2, <1>3, <1>4

\* What a reply, given or taken back, does to the core: the topic k has the
\* replies s.
Replied(X, D, k, s) ==
    LET T == BareAll(X.topics)
    IN  /\ Same(X, D, {"joined", "topics"}) /\ ShapedTopics(D.topics)
        /\ BareAll(D.topics) = Put(T, k, WithReplies(T[k], s))

\* New replies, and members whichever.
LEMMA RepliesAre ==
    ASSUME NEW X, Shaped(X), NEW k \in DOMAIN X.topics, NEW s
    PROVE  Replied(X, SetReplies(X, k, s), k, s)
<1> DEFINE D == SetReplies(X, k, s)
           t == X.topics[k]
<1>1. /\ Same(X, D, {"topics"}) /\ D.topics = Put(X.topics, k, WithReplies(t, s))
    BY SetRepliesIs DEF Shaped
<1>2. TopicFields \subseteq DOMAIN t /\ BareAll(X.topics)[k] = Bare(t)
    BY BareIs DEF Shaped, ShapedTopics
<1> HIDE DEF D, t
<1>3. /\ TopicFields \subseteq DOMAIN WithReplies(t, s)
      /\ Bare(WithReplies(t, s)) = WithReplies(Bare(t), s)
    BY <1>2, BareChanged
<1>4. /\ ShapedTopics(D.topics)
      /\ BareAll(D.topics) = Put(BareAll(X.topics), k, Bare(WithReplies(t, s)))
    BY <1>1, <1>3, BarePut DEF Shaped
<1> QED
    BY <1>1, <1>2, <1>3, <1>4 DEF Replied, Same, D

\* Who joins or leaves does not change the core.
LEMMA JoinAlike ==
    ASSUME NEW X, Shaped(X), NEW a, NEW list, NEW k \in DOMAIN X.topics, NEW m
    PROVE  LET D == Join(X, a, list, k, m)
           IN  /\ Same(X, D, {"joined", "topics"}) /\ Shaped(D) /\ k \in DOMAIN D.topics
               /\ BareAll(D.topics) = BareAll(X.topics)
               /\ D.topics[k].replies = X.topics[k].replies
<1> DEFINE D == Join(X, a, list, k, m)
           t == X.topics[k]
<1>1. /\ Same(X, D, {"joined", "topics"})
      /\ D.topics = Put(X.topics, k, WithMembers(t, m))
    BY JoinIs DEF Shaped
<1>2. TopicFields \subseteq DOMAIN t /\ BareAll(X.topics)[k] = Bare(t)
    BY BareIs DEF Shaped, ShapedTopics
<1> HIDE DEF D, t
<1>3. /\ TopicFields \subseteq DOMAIN WithMembers(t, m)
      /\ Bare(WithMembers(t, m)) = Bare(t) /\ WithMembers(t, m).replies = t.replies
    BY <1>2, BareChanged
<1>4. /\ ShapedTopics(D.topics)
      /\ BareAll(D.topics) = Put(BareAll(X.topics), k, Bare(t))
    BY <1>1, <1>3, BarePut DEF Shaped
<1>5. BareAll(D.topics) = BareAll(X.topics)
    BY <1>2, <1>4 DEF Put, BareAll
<1>6. k \in DOMAIN D.topics /\ D.topics[k].replies = t.replies
    BY <1>1, <1>3 DEF Put
<1> QED
    BY <1>1, <1>4, <1>5, <1>6 DEF Shaped, Same, D, t

\* A reply: it is the last of its topic's.
LEMMA ReplyDoes ==
    ASSUME NEW X, Shaped(X), NEW tx, tx.topic \in DOMAIN X.topics
    PROVE  Replied(X, DoReply(X, tx), tx.topic,
                   Append(BareAll(X.topics)[tx.topic].replies,
                          [key |-> tx.id, type |-> 0, owner |-> tx.from, balance |-> 0]))
<1> DEFINE k == tx.topic
           r == [key |-> tx.id, type |-> 0, owner |-> tx.from, balance |-> 0]
           N == Join(X, tx.from, Append(X.joined[tx.from], k), k,
                     AddMember(X.topics[k].members, tx))
           s == Append(X.topics[k].replies, r)
<1>1. BareAll(X.topics)[k].replies = X.topics[k].replies
    BY DEF BareAll, Bare
<1>2. CASE Joins(X, tx)
    <2>1. DoReply(X, tx) = SetReplies(N, k, Append(N.topics[k].replies, r))
        BY <1>2 DEF DoReply, Join, SetReplies
    <2>2. /\ Same(X, N, {"joined", "topics"}) /\ Shaped(N) /\ k \in DOMAIN N.topics
          /\ BareAll(N.topics) = BareAll(X.topics)
          /\ N.topics[k].replies = X.topics[k].replies
        BY JoinAlike
    <2> HIDE DEF N
    <2>3. DoReply(X, tx) = SetReplies(N, k, s)
        BY <2>1, <2>2
    <2> HIDE DEF s
    <2>4. Replied(N, SetReplies(N, k, s), k, s)
        BY <2>2, RepliesAre
    <2>5. Replied(X, DoReply(X, tx), k, s)
        BY <2>2, <2>3, <2>4 DEF Replied, Same
    <2> QED
        BY <2>5, <1>1 DEF s
<1>3. CASE ~ Joins(X, tx)
    <2>1. DoReply(X, tx) = SetReplies(X, k, s)
        BY <1>3 DEF DoReply, SetReplies
    <2> HIDE DEF s
    <2>2. Replied(X, DoReply(X, tx), k, s)
        BY <2>1, RepliesAre
    <2> QED
        BY <2>2, <1>1 DEF s
<1> QED
    BY <1>2, <1>3

\* And taken back, the others are left.
LEMMA ReplyUndoes ==
    ASSUME NEW X, Shaped(X), NEW tx, tx.topic \in DOMAIN X.topics
    PROVE  Replied(X, UndoReply(X, tx), tx.topic, Front(BareAll(X.topics)[tx.topic].replies))
<1> DEFINE k == tx.topic
           t == X.topics[k]
           s == Front(t.replies)
           B == SetReplies(X, k, s)
           U == Join(B, tx.from, Front(B.joined[tx.from]), k, Front(B.topics[k].members))
<1>1. BareAll(X.topics)[k].replies = X.topics[k].replies
    BY DEF BareAll, Bare
<1>2. UndoReply(X, tx) = IF t.owner # tx.from /\ t.members # <<>> /\ Last(t.members).tx = tx.id
                         THEN U ELSE B
    BY DEF UndoReply, Join, SetReplies
<1>3. Replied(X, B, k, s)
    BY RepliesAre
<1>4. k \in DOMAIN B.topics
    <2>1. k \in DOMAIN X.topics
        OBVIOUS
    <2>2. B.topics = Put(X.topics, k, WithReplies(X.topics[k], s))
        BY SetRepliesIs DEF Shaped
    <2> HIDE DEF B, s, t, k
    <2> QED
        BY <2>1, <2>2 DEF Put
<1>5. Shaped(B)
    BY <1>3 DEF Replied, Same, Shaped
<1> HIDE DEF B, s
<1>6. /\ Same(B, U, {"joined", "topics"}) /\ Shaped(U)
      /\ BareAll(U.topics) = BareAll(B.topics)
    BY <1>4, <1>5, JoinAlike
<1> HIDE DEF U
<1>7. Replied(X, U, k, s)
    BY <1>3, <1>6 DEF Replied, Same, Shaped
<1> QED
    BY <1>1, <1>2, <1>3, <1>7 DEF s

\* A reply, either way.
LEMMA ReplyAlike ==
    ASSUME NEW L, Shaped(L), NEW M, Shaped(M), Alike(L, M), NEW tx,
           tx.topic \in DOMAIN L.topics
    PROVE  /\ Keeps(L, DoReply(L, tx)) /\ Alike(DoReply(L, tx), DoReply(M, tx))
           /\ Keeps(L, UndoReply(L, tx)) /\ Alike(UndoReply(L, tx), UndoReply(M, tx))
<1>1. tx.topic \in DOMAIN M.topics /\ BareAll(M.topics) = BareAll(L.topics)
    BY BareIs DEF Alike
<1> DEFINE s == Append(BareAll(L.topics)[tx.topic].replies,
                       [key |-> tx.id, type |-> 0, owner |-> tx.from, balance |-> 0])
           u == Front(BareAll(L.topics)[tx.topic].replies)
<1>2. Replied(L, DoReply(L, tx), tx.topic, s) /\ Replied(M, DoReply(M, tx), tx.topic, s)
    BY <1>1, ReplyDoes
<1>3. Replied(L, UndoReply(L, tx), tx.topic, u) /\ Replied(M, UndoReply(M, tx), tx.topic, u)
    BY <1>1, ReplyUndoes
<1> HIDE DEF s, u
<1>4. Keeps(L, DoReply(L, tx)) /\ Alike(DoReply(L, tx), DoReply(M, tx))
    BY <1>1, <1>2 DEF Replied, Same, Fields, Keeps, Shaped, Alike
<1>5. Keeps(L, UndoReply(L, tx)) /\ Alike(UndoReply(L, tx), UndoReply(M, tx))
    BY <1>1, <1>3 DEF Replied, Same, Fields, Keeps, Shaped, Alike
<1> QED
    BY <1>4, <1>5

\* What a reward does to the core.
Paid(X, D, k, o, n, b, s) ==
    LET T == BareAll(X.topics)
    IN  /\ Same(X, D, {"balance", "topics"}) /\ ShapedTopics(D.topics)
        /\ D.balance = Plus(X.balance, o, n)
        /\ BareAll(D.topics) = Put(T, k, WithPaid(T[k], b, s))

\* A payment to a topic and to an account.
LEMMA PaidIs ==
    ASSUME NEW X, Shaped(X), NEW k \in DOMAIN X.topics, NEW o, NEW n, NEW b, NEW s
    PROVE  Paid(X, Pay(Credit(X, o, n), k, b, s), k, o, n, b, s)
<1> DEFINE C == Credit(X, o, n)
           D == Pay(C, k, b, s)
           t == X.topics[k]
<1>1. Same(X, C, {"balance"}) /\ C.balance = Plus(X.balance, o, n)
    BY CreditIs DEF Shaped
<1> HIDE DEF C
<1>2. IsRecord(C) /\ C.topics = X.topics
    BY <1>1 DEF Same, Fields
<1>3. Same(C, D, {"topics"}) /\ D.topics = Put(C.topics, k, WithPaid(C.topics[k], b, s))
    BY <1>2, PayIs DEF Shaped, ShapedTopics
<1>4. TopicFields \subseteq DOMAIN t /\ BareAll(X.topics)[k] = Bare(t)
    BY BareIs DEF Shaped, ShapedTopics
<1> HIDE DEF D
<1>5. D.topics = Put(X.topics, k, WithPaid(t, b, s))
    BY <1>2, <1>3
<1> HIDE DEF t
<1>6. /\ TopicFields \subseteq DOMAIN WithPaid(t, b, s)
      /\ Bare(WithPaid(t, b, s)) = WithPaid(Bare(t), b, s)
    BY <1>4, BareChanged
<1>7. /\ ShapedTopics(D.topics)
      /\ BareAll(D.topics) = Put(BareAll(X.topics), k, Bare(WithPaid(t, b, s)))
    BY <1>5, <1>6, BarePut DEF Shaped
<1>8. Same(X, D, {"balance", "topics"}) /\ D.balance = Plus(X.balance, o, n)
    BY <1>1, <1>3 DEF Same, Fields
<1> QED
    BY <1>4, <1>6, <1>7, <1>8 DEF Paid, D, C

\* A reward, given or taken back.
LEMMA RewardAlike ==
    ASSUME NEW L, Shaped(L), NEW M, Shaped(M), Alike(L, M), NEW tx,
           tx.topic \in DOMAIN L.topics
    PROVE  /\ Keeps(L, DoReward(L, tx)) /\ Alike(DoReward(L, tx), DoReward(M, tx))
           /\ Keeps(L, UndoReward(L, tx)) /\ Alike(UndoReward(L, tx), UndoReward(M, tx))
<1> DEFINE T == BareAll(L.topics)
           k == tx.topic
           n == tx.amount
           r == [key |-> tx.id, type |-> 1, owner |-> tx.from, balance |-> tx.amount]
           i == Reply(T[k], tx.reply_to)
           o == ReplyOwner(T[k], tx.reply_to)
           b == T[k].balance - n
           c == T[k].balance + n
           s == Rewarded(T[k].replies, i, n, r)
           u == Unrewarded(T[k].replies, i, n)
<1>1. ASSUME NEW X, Shaped(X), BareAll(X.topics) = T
      PROVE  /\ Paid(X, DoReward(X, tx), k, o, n, b, s)
             /\ Paid(X, UndoReward(X, tx), k, o, 0 - n, c, u)
    <2> DEFINE t == X.topics[k]
               C == Credit(X, o, n)
               B == Credit(X, o, 0 - n)
    <2>1. k \in DOMAIN X.topics /\ T[k] = Bare(t)
        <3>1. DOMAIN X.topics = DOMAIN T /\ DOMAIN L.topics = DOMAIN T
            BY <1>1, BareIs
        <3> QED
            BY <3>1, <1>1, BareIs
    <2>2. t.replies = T[k].replies /\ t.balance = T[k].balance
        BY <2>1 DEF Bare
    <2>3. Reply(t, tx.reply_to) = i /\ ReplyOwner(t, tx.reply_to) = o
        BY <2>2 DEF Reply, ReplyOwner
    <2>4. C.topics = X.topics /\ B.topics = X.topics
        BY <1>1, CreditIs DEF Same, Fields, Shaped
    <2>5. /\ DoReward(X, tx) = Pay(C, k, C.topics[k].balance - n,
                                   Rewarded(C.topics[k].replies, i, n, r))
          /\ UndoReward(X, tx) = Pay(B, k, B.topics[k].balance + n,
                                     Unrewarded(B.topics[k].replies, i, n))
        BY <2>3, RewardSteps
    <2> HIDE DEF T, k, n, r, i, o
    <2>6. DoReward(X, tx) = Pay(C, k, b, s) /\ UndoReward(X, tx) = Pay(B, k, c, u)
        BY <2>2, <2>4, <2>5
    <2> HIDE DEF b, c, s, u
    <2> QED
        BY <1>1, <2>1, <2>6, PaidIs
<1>2. BareAll(M.topics) = T
    BY DEF Alike
<1>3. /\ Paid(L, DoReward(L, tx), k, o, n, b, s) /\ Paid(M, DoReward(M, tx), k, o, n, b, s)
      /\ Paid(L, UndoReward(L, tx), k, o, 0 - n, c, u)
      /\ Paid(M, UndoReward(M, tx), k, o, 0 - n, c, u)
    BY <1>1, <1>2
<1> HIDE DEF T, k, n, r, i, o, b, c, s, u
<1>4. Keeps(L, DoReward(L, tx)) /\ Alike(DoReward(L, tx), DoReward(M, tx))
    BY <1>3 DEF Paid, Same, Fields, Keeps, Shaped, Alike
<1>5. Keeps(L, UndoReward(L, tx)) /\ Alike(UndoReward(L, tx), UndoReward(M, tx))
    BY <1>3 DEF Paid, Same, Fields, Keeps, Shaped, Alike
<1> QED
    BY <1>4, <1>5

\* A transaction enters or leaves the window.
LEMMA NoteAlike ==
    ASSUME NEW L, Shaped(L), NEW id
    PROVE  /\ Keeps(L, Note(L, id)) /\ Alike(L, Note(L, id))
           /\ Keeps(L, Forget(L, id)) /\ Alike(L, Forget(L, id))
BY NoteIs DEF Same, Fields, Keeps, Alike, Shaped

\* Ledgers that are alike are so in any order.
LEMMA AlikeIs ==
    ASSUME NEW L, NEW M, NEW N
    PROVE  /\ Alike(L, L) /\ (Alike(L, M) => Alike(M, L))
           /\ (Alike(L, M) /\ Alike(M, N) => Alike(L, N))
BY DEF Alike

\* What a transaction is about is there.
Finds(L, tx) ==
    tx.type \in {"reply", "reward"} => tx.topic \in DOMAIN L.topics

\* A transaction does to the cores of two ledgers the same.
LEMMA ApplyAlike ==
    ASSUME NEW L, Shaped(L), NEW M, Shaped(M), Alike(L, M), NEW tx, NEW id,
           Finds(L, tx), tx.type \in {"reg", "send", "topic", "reply", "reward"}
    PROVE  Keeps(L, Apply(L, tx, id)) /\ Alike(Apply(L, tx, id), Apply(M, tx, id))
<1> DEFINE F == PayFee(L, tx.from)
           G == PayFee(M, tx.from)
           Ends(X, D) == Apply(X, tx, id) = Note(D, tx.id)
           Does(X, Y, D, E) == Keeps(X, D) /\ Keeps(Y, E) /\ Alike(D, E)
<1>1. Keeps(L, F) /\ Keeps(M, G) /\ Alike(F, G) /\ F.topics = L.topics /\ G.topics = M.topics
    <2>1. Keeps(L, F) /\ Keeps(M, G) /\ Alike(F, G)
        BY FeesAlike, AlikeIs
    <2>2. F.topics = L.topics /\ G.topics = M.topics
        BY TwoCredits DEF PayFee, Same, Fields, Shaped
    <2> QED
        BY <2>1, <2>2
<1>2. Shaped(F) /\ Shaped(G) /\ Alike(G, F)
    BY <1>1, AlikeIs DEF Keeps
<1>3. \/ tx.type = "reg" /\ Ends(L, DoReg(F, tx)) /\ Ends(M, DoReg(G, tx))
      \/ tx.type = "send" /\ Ends(L, DoSend(F, tx)) /\ Ends(M, DoSend(G, tx))
      \/ tx.type = "topic" /\ Ends(L, DoTopic(F, tx, id)) /\ Ends(M, DoTopic(G, tx, id))
      \/ tx.type = "reply" /\ Ends(L, DoReply(F, tx)) /\ Ends(M, DoReply(G, tx))
      \/ tx.type = "reward" /\ Ends(L, DoReward(F, tx)) /\ Ends(M, DoReward(G, tx))
    BY DEF Apply, Note
<1>4. tx.topic \in DOMAIN F.topics => tx.topic \in DOMAIN G.topics
    <2>1. BareAll(F.topics) = BareAll(G.topics)
        BY <1>1 DEF Alike
    <2> HIDE DEF F, G
    <2> QED
        BY <2>1, BareIs
<1> HIDE DEF F, G
<1>5. /\ Does(F, G, DoReg(F, tx), DoReg(G, tx))
      /\ Does(F, G, DoSend(F, tx), DoSend(G, tx))
      /\ Does(F, G, DoTopic(F, tx, id), DoTopic(G, tx, id))
      /\ tx.type = "reply" => Does(F, G, DoReply(F, tx), DoReply(G, tx))
      /\ tx.type = "reward" => Does(F, G, DoReward(F, tx), DoReward(G, tx))
    <2>1. Does(F, G, DoReg(F, tx), DoReg(G, tx))
        BY <1>1, <1>2, RegAlike
    <2>2. Does(F, G, DoSend(F, tx), DoSend(G, tx))
        BY <1>1, <1>2, SendAlike
    <2>3. Does(F, G, DoTopic(F, tx, id), DoTopic(G, tx, id))
        BY <1>1, <1>2, TopicAlike
    <2>4. tx.type = "reply" => Does(F, G, DoReply(F, tx), DoReply(G, tx))
        BY <1>1, <1>2, <1>4, ReplyAlike DEF Finds
    <2>5. tx.type = "reward" => Does(F, G, DoReward(F, tx), DoReward(G, tx))
        BY <1>1, <1>2, <1>4, RewardAlike DEF Finds
    <2> QED
        BY <2>1, <2>2, <2>3, <2>4, <2>5
<1>6. PICK D, E : Does(F, G, D, E) /\ Ends(L, D) /\ Ends(M, E)
    BY <1>3, <1>5
<1>7. Keeps(D, Note(D, tx.id)) /\ Alike(Note(D, tx.id), D) /\ Alike(E, Note(E, tx.id))
    BY <1>6, NoteAlike, AlikeIs DEF Keeps
<1>8. Alike(Note(D, tx.id), Note(E, tx.id))
    BY <1>6, <1>7, AlikeIs
<1> QED
    BY <1>1, <1>6, <1>7, <1>8 DEF Keeps

\* And so does undoing it.
LEMMA UndoAlike ==
    ASSUME NEW L, Shaped(L), NEW M, Shaped(M), Alike(L, M), NEW tx,
           Finds(L, tx), tx.type \in {"reg", "send", "topic", "reply", "reward"}
    PROVE  Keeps(L, Undo(L, tx)) /\ Alike(Undo(L, tx), Undo(M, tx))
<1> DEFINE Ends(X, D) == Undo(X, tx) = RefundFee(Forget(D, tx.id), tx.from)
           Does(D, E) == Keeps(L, D) /\ Keeps(M, E) /\ Alike(D, E)
<1>1. \/ tx.type = "reg" /\ Ends(L, UndoReg(L, tx)) /\ Ends(M, UndoReg(M, tx))
      \/ tx.type = "send" /\ Ends(L, UndoSend(L, tx)) /\ Ends(M, UndoSend(M, tx))
      \/ tx.type = "topic" /\ Ends(L, UndoTopic(L, tx)) /\ Ends(M, UndoTopic(M, tx))
      \/ tx.type = "reply" /\ Ends(L, UndoReply(L, tx)) /\ Ends(M, UndoReply(M, tx))
      \/ tx.type = "reward" /\ Ends(L, UndoReward(L, tx)) /\ Ends(M, UndoReward(M, tx))
    BY DEF Undo, Forget
<1>2. Alike(M, L) /\ (tx.topic \in DOMAIN L.topics => tx.topic \in DOMAIN M.topics)
    <2>1. BareAll(L.topics) = BareAll(M.topics)
        BY DEF Alike
    <2> QED
        BY <2>1, BareIs, AlikeIs
<1>3. /\ Does(UndoReg(L, tx), UndoReg(M, tx))
      /\ Does(UndoSend(L, tx), UndoSend(M, tx))
      /\ Does(UndoTopic(L, tx), UndoTopic(M, tx))
      /\ tx.type = "reply" => Does(UndoReply(L, tx), UndoReply(M, tx))
      /\ tx.type = "reward" => Does(UndoReward(L, tx), UndoReward(M, tx))
    <2>1. Does(UndoReg(L, tx), UndoReg(M, tx))
        BY <1>2, RegAlike
    <2>2. Does(UndoSend(L, tx), UndoSend(M, tx))
        BY <1>2, SendAlike
    <2>3. Does(UndoTopic(L, tx), UndoTopic(M, tx))
        BY <1>2, TopicAlike
    <2>4. tx.type = "reply" => Does(UndoReply(L, tx), UndoReply(M, tx))
        BY <1>2, ReplyAlike DEF Finds
    <2>5. tx.type = "reward" => Does(UndoReward(L, tx), UndoReward(M, tx))
        BY <1>2, RewardAlike DEF Finds
    <2> QED
        BY <2>1, <2>2, <2>3, <2>4, <2>5
<1>4. PICK D, E : Does(D, E) /\ Ends(L, D) /\ Ends(M, E)
    BY <1>1, <1>3
<1> DEFINE P == Forget(D, tx.id)
           Q == Forget(E, tx.id)
<1>5. Keeps(D, P) /\ Keeps(E, Q) /\ Alike(P, D) /\ Alike(E, Q)
    BY <1>4, NoteAlike, AlikeIs DEF Keeps
<1> HIDE DEF P, Q
<1>6. Shaped(P) /\ Shaped(Q) /\ Alike(P, Q)
    BY <1>4, <1>5, AlikeIs DEF Keeps
<1>7. Keeps(P, RefundFee(P, tx.from)) /\ Alike(RefundFee(P, tx.from), RefundFee(Q, tx.from))
    BY <1>6, FeesAlike
<1>8. Undo(L, tx) = RefundFee(P, tx.from) /\ Undo(M, tx) = RefundFee(Q, tx.from)
    BY <1>4 DEF P, Q
<1> QED
    BY <1>4, <1>5, <1>7, <1>8 DEF Keeps

\* No transaction that is applied takes a topic away.
LEMMA TopicsStay ==
    ASSUME NEW L, Shaped(L), NEW tx, NEW id,
           tx.type \in {"reg", "send", "topic", "reply", "reward"}
    PROVE  DOMAIN L.topics \subseteq DOMAIN Apply(L, tx, id).topics
<1> DEFINE F == PayFee(L, tx.from)
           M == Apply(L, tx, id)
<1>1. IsRecord(F) /\ F.topics = L.topics
    BY TwoCredits DEF PayFee, Same, Fields, Shaped
<1>2. \/ M = Note(DoReg(F, tx), tx.id) \/ M = Note(DoSend(F, tx), tx.id)
      \/ M = Note(DoTopic(F, tx, id), tx.id) \/ M = Note(DoReply(F, tx), tx.id)
      \/ M = Note(DoReward(F, tx), tx.id)
    BY DEF Apply, Note
<1> HIDE DEF F
<1>3. /\ DOMAIN F = Fields /\ DOMAIN F.topics \subseteq DOMAIN DoReg(F, tx).topics
      /\ DOMAIN F.topics \subseteq DOMAIN DoSend(F, tx).topics
    BY <1>1 DEF IsRecord, Fields, DoReg, DoSend, Move, Credit
<1>4. DOMAIN F.topics \subseteq DOMAIN DoTopic(F, tx, id).topics
    <2> DEFINE C == Credit(F, tx.from, 0 - tx.amount)
               t == [owner |-> tx.from, block_id |-> id, balance |-> tx.amount,
                     members |-> <<>>, replies |-> <<>>]
    <2>1. DOMAIN C = Fields /\ C.topics = F.topics
        BY <1>1, CreditIs DEF Same, IsRecord, Fields
    <2>2. DoTopic(F, tx, id) =
            [C EXCEPT !.own[tx.from] = Append(@, tx.id), !.topic_list = Append(@, tx.id),
                      !.topics = With(@, tx.id, t)]
        BY DEF DoTopic
    <2> HIDE DEF C, t
    <2>3. DoTopic(F, tx, id).topics = With(F.topics, tx.id, t)
        BY <2>1, <2>2 DEF Fields
    <2> QED
        BY <2>3 DEF With
<1>5. DOMAIN F.topics \subseteq DOMAIN DoReply(F, tx).topics
    BY <1>1 DEF IsRecord, Fields, DoReply
<1>6. DOMAIN F.topics \subseteq DOMAIN DoReward(F, tx).topics
    BY <1>1 DEF IsRecord, Fields, DoReward, Credit
<1>7. \A X, i : DOMAIN X = Fields => Note(X, i).topics = X.topics
    BY DEF Note, Fields
<1>8. /\ DOMAIN DoReg(F, tx) = Fields /\ DOMAIN DoSend(F, tx) = Fields
      /\ DOMAIN DoTopic(F, tx, id) = Fields /\ DOMAIN DoReply(F, tx) = Fields
      /\ DOMAIN DoReward(F, tx) = Fields
    BY <1>3 DEF DoReg, DoSend, Move, DoTopic, DoReply, DoReward, Credit
<1> QED
    BY <1>1, <1>2, <1>3, <1>4, <1>5, <1>6, <1>7, <1>8

-----------------------------------------------------------------------------
(* Books: what the accounts and the topics of a ledger are, memberships    *)
(* apart.                                                                  *)

BareTopic(A) ==
    [owner : A, block_id : Int, balance : Nat, members : {<<>>},
     replies : Seq([key : Hash, type : {0, 1}, owner : A, balance : Int])]

\* The accounts: each has a name and a list of topics.
People(L) ==
    LET A == DOMAIN L.referrer
    IN  /\ IsFiniteSet(A) /\ A \subseteq Pubkey /\ Reserve \notin A
        /\ IsFcn(L.referrer) /\ \A a \in A : L.referrer[a] \in A \cup {None}
        /\ IsFcn(L.name) /\ DOMAIN L.name = A \cup {Reserve}
        /\ L.by_id \in Seq(Pubkey)
        /\ L.own \in [A -> Seq(Hash)]

\* The topics T, of accounts A: the list has each of them once.
Live(A, T, list) ==
    /\ IsFiniteSet(DOMAIN T) /\ DOMAIN T \subseteq Hash /\ T \in [DOMAIN T -> BareTopic(A)]
    /\ list \in Seq(Hash) /\ {list[i] : i \in DOMAIN list} = DOMAIN T
    /\ \A i, j \in DOMAIN list : list[i] = list[j] => i = j

\* No balance is negative, neither an account's nor a topic's.
IsBook(L) ==
    LET A == DOMAIN L.referrer
    IN  /\ People(L) /\ L.balance \in [A \cup {Reserve} -> Nat]
        /\ Live(A, BareAll(L.topics), L.topic_list)

TopicCoins(T) == [k \in DOMAIN T |-> T[k].balance]
Coins(L) == Total(L.balance) + Total(TopicCoins(BareAll(L.topics)))

\* A book is one by its core.
LEMMA BookAlike ==
    ASSUME NEW L, NEW M, Alike(L, M)
    PROVE  (IsBook(L) <=> IsBook(M)) /\ Coins(L) = Coins(M)
<1>1. IsBook(L) <=> IsBook(M)
    BY DEF Alike, IsBook, People
<1>2. Coins(L) = Coins(M)
    BY DEF Alike, Coins
<1> QED
    BY <1>1, <1>2

\* The core of a book is a ledger.
LEMMA BookIsLedger ==
    ASSUME NEW L, IsBook(L)
    PROVE  IsLedger(Core(L))
<1> DEFINE C == Core(L)
           A == DOMAIN L.referrer
           T == BareAll(L.topics)
<1>1. /\ IsRecord(C) /\ C.referrer = L.referrer /\ C.name = L.name /\ C.by_id = L.by_id
      /\ C.balance = L.balance /\ C.own = L.own /\ C.joined = [a \in A |-> <<>>]
      /\ C.topics = T /\ C.topic_list = L.topic_list /\ C.tx_map = {}
    BY DEF Core, IsRecord, Fields
<1> HIDE DEF C, T, A
<1>2. A \subseteq Pubkey
    BY DEF IsBook, People, A
<1>3. BareTopic(A) \subseteq TopicType
    <2>1. Seq([key : Hash, type : {0, 1}, owner : A, balance : Int])
            \subseteq Seq([key : Hash, type : {0, 1}, owner : Pubkey, balance : Int])
        <3> DEFINE X == [key : Hash, type : {0, 1}, owner : A, balance : Int]
                   Y == [key : Hash, type : {0, 1}, owner : Pubkey, balance : Int]
        <3>1. X \subseteq Y
            BY <1>2
        <3> HIDE DEF X, Y
        <3>2. Seq(X) \subseteq Seq(Y)
            BY <3>1
        <3> QED
            BY <3>2 DEF X, Y
    <2>2. Nat \subseteq Int /\ <<>> \in Seq([tx : Hash, account : Pubkey])
        OBVIOUS
    <2> QED
        BY <1>2, <2>1, <2>2 DEF BareTopic, TopicType
<1>4. DOMAIN T \subseteq Hash /\ T \in [DOMAIN T -> TopicType] /\ L.topic_list \in Seq(Hash)
    <2>1. Live(A, T, L.topic_list)
        BY DEF IsBook, A, T
    <2> QED
        BY <1>3, <2>1 DEF Live
<1>5. L.balance \in [A \cup {Reserve} -> Int]
    BY DEF IsBook, A
<1>6. [a \in A |-> <<>>] \in [A -> Seq(Hash)]
    OBVIOUS
<1>7. /\ IsFcn(L.referrer) /\ \A a \in A : L.referrer[a] \in A \cup {None}
      /\ IsFcn(L.name) /\ DOMAIN L.name = A \cup {Reserve}
      /\ L.by_id \in Seq(Pubkey) /\ L.own \in [A -> Seq(Hash)] /\ Reserve \notin A
    BY DEF IsBook, People, A
<1> QED
    BY <1>1, <1>2, <1>4, <1>5, <1>6, <1>7 DEF IsLedger, A, C

\* What applies to a ledger applies to its core: there the list of joined
\* topics is never full.
LEMMA CanApplyCore ==
    ASSUME NEW L, Shaped(L), NEW tx, NEW id, CanApply(L, tx, id)
    PROVE  CanApply(Core(L), tx, id)
<1> DEFINE C == Core(L)
           F == PayFee(L, tx.from)
           G == PayFee(C, tx.from)
           T == BareAll(F.topics)
<1>1. Shaped(C) /\ Alike(L, C) /\ C.tx_map = {}
      /\ C.joined = [a \in DOMAIN L.referrer |-> <<>>]
    <2>1. C.tx_map = {} /\ C.joined = [a \in DOMAIN L.referrer |-> <<>>]
        BY DEF Core
    <2>2. Shaped(C) /\ Alike(L, C)
        BY CoreIs, AlikeIs
    <2> QED
        BY <2>1, <2>2
<1> HIDE DEF C
<1>2. Keeps(L, F) /\ Alike(F, G)
    BY <1>1, FeesAlike
<1>3. G.joined = C.joined
    BY <1>1, TwoCredits DEF PayFee, Same, Fields, Shaped
<1>4. tx.from \in DOMAIN L.referrer /\ F.referrer = L.referrer
    <2>1. F.referrer = L.referrer
        BY TwoCredits DEF PayFee, Same, Fields, Shaped
    <2> QED
        BY <2>1 DEF CanApply, Registered
<1>5. /\ InWindow(tx, id) /\ Registered(L, tx.from) /\ L.balance[tx.from] >= FEE
      /\ \/ tx.type = "reg"    /\ CanReg(F, tx)
         \/ tx.type = "send"   /\ CanSend(F, tx)
         \/ tx.type = "topic"  /\ CanTopic(F, tx)
         \/ tx.type = "reply"  /\ CanReply(F, tx)
         \/ tx.type = "reward" /\ CanReward(F, tx)
    BY DEF CanApply
<1> HIDE DEF F, G
<1>6. /\ G.referrer = F.referrer /\ G.name = F.name /\ G.balance = F.balance /\ G.own = F.own
      /\ BareAll(G.topics) = T
    BY <1>2 DEF Alike
<1>7. /\ DOMAIN F.topics = DOMAIN G.topics
      /\ \A k \in DOMAIN F.topics :
            /\ G.topics[k].owner = F.topics[k].owner
            /\ G.topics[k].balance = F.topics[k].balance
            /\ G.topics[k].replies = F.topics[k].replies
    <2>1. DOMAIN T = DOMAIN F.topics /\ DOMAIN T = DOMAIN G.topics
        BY <1>6, BareIs
    <2>2. ASSUME NEW k \in DOMAIN F.topics PROVE Bare(G.topics[k]) = Bare(F.topics[k])
        BY <1>6, <2>1, BareIs
    <2> QED
        BY <2>1, <2>2 DEF Bare
<1>8. ASSUME CanReg(F, tx) PROVE CanReg(G, tx)
    BY <1>6, <1>8 DEF CanReg, Registered
<1>9. ASSUME CanSend(F, tx) PROVE CanSend(G, tx)
    BY <1>6, <1>9 DEF CanSend, Registered
<1>10. ASSUME CanTopic(F, tx) PROVE CanTopic(G, tx)
    BY <1>6, <1>7, <1>10 DEF CanTopic
<1>11. ASSUME CanReply(F, tx) PROVE CanReply(G, tx)
    <2>1. Len(G.joined[tx.from]) < MAX_JOIN
        <3>1. G.joined[tx.from] = <<>>
            BY <1>1, <1>3, <1>4
        <3> QED
            BY <3>1, LedgerAssumption
    <2>2. tx.topic \in DOMAIN G.topics /\ G.topics[tx.topic].replies = F.topics[tx.topic].replies
        BY <1>7, <1>11 DEF CanReply
    <2> QED
        BY <1>11, <2>1, <2>2 DEF CanReply, IsPlain, HasReply, Reply
<1>12. ASSUME CanReward(F, tx) PROVE CanReward(G, tx)
    <2>1. /\ tx.topic \in DOMAIN G.topics /\ G.topics[tx.topic].replies = F.topics[tx.topic].replies
          /\ G.topics[tx.topic].owner = F.topics[tx.topic].owner
          /\ G.topics[tx.topic].balance = F.topics[tx.topic].balance
        BY <1>7, <1>12 DEF CanReward
    <2> QED
        BY <1>12, <2>1 DEF CanReward, IsPlain, HasReply, Reply, ReplyOwner
<1>13. Registered(C, tx.from) /\ C.balance[tx.from] >= FEE /\ tx.id \notin C.tx_map
    BY <1>1, <1>5 DEF Alike, Registered
<1> QED
    BY <1>5, <1>8, <1>9, <1>10, <1>11, <1>12, <1>13 DEF CanApply, G, C

\* What is applied leaves what is kept for undoing alone, and in whichever
\* ledger of the core it left it is undone without a trace in the core.
THEOREM CoreUndone ==
    ASSUME NEW L, Shaped(L), IsBook(L), NEW tx, IsTx(tx), NEW id, CanApply(L, tx, id)
    PROVE  /\ Keeps(L, Apply(L, tx, id))
           /\ \A K : Shaped(K) /\ Core(K) = Core(Apply(L, tx, id)) =>
                        Keeps(K, Undo(K, tx)) /\ Core(Undo(K, tx)) = Core(L)
<1> DEFINE C == Core(L)
           D == Apply(C, tx, id)
           M == Apply(L, tx, id)
<1>1. Shaped(C) /\ Alike(L, C) /\ IsLedger(C) /\ CanApply(C, tx, id)
    BY CoreIs, AlikeIs, BookIsLedger, CanApplyCore
<1>2. tx.type \in {"reg", "send", "topic", "reply", "reward"}
    BY DEF IsTx
<1>3. Finds(L, tx) /\ Finds(C, tx)
    <2>1. PayFee(L, tx.from).topics = L.topics
        BY TwoCredits DEF PayFee, Same, Fields, Shaped
    <2>2. Finds(L, tx)
        BY <2>1 DEF Finds, CanApply, CanReply, CanReward
    <2>3. DOMAIN C.topics = DOMAIN L.topics
        BY <1>1, BareIs DEF Alike
    <2> QED
        BY <2>2, <2>3 DEF Finds
<1>4. Agree(C, tx)
    <2>1. C.topics = BareAll(L.topics) /\ C.joined = [a \in DOMAIN L.referrer |-> <<>>]
        BY DEF Core
    <2>2. \A k \in DOMAIN C.topics : C.topics[k].members = <<>>
        BY <2>1 DEF BareAll, Bare
    <2>3. tx.from \in DOMAIN L.referrer
        BY DEF CanApply, Registered
    <2>4. C.joined[tx.from] = <<>>
        BY <2>1, <2>3
    <2> HIDE DEF C
    <2> QED
        BY <2>2, <2>4 DEF Agree, Contains
<1> HIDE DEF C
<1>5. Undo(D, tx) = C
    BY <1>1, <1>4, UndoIsInverse
<1>6. Keeps(L, M) /\ Alike(M, D) /\ Keeps(C, D)
    <2>1. Keeps(L, M) /\ Alike(M, D)
        BY <1>1, <1>2, <1>3, ApplyAlike
    <2>2. Keeps(C, D)
        BY <1>1, <1>2, <1>3, ApplyAlike, AlikeIs
    <2> QED
        BY <2>1, <2>2
<1>7. Finds(D, tx)
    <2>1. DOMAIN C.topics \subseteq DOMAIN D.topics
        BY <1>1, <1>2, TopicsStay
    <2> QED
        BY <1>3, <2>1 DEF Finds
<1> HIDE DEF D, M
<1>8. ASSUME NEW K, Shaped(K), Core(K) = Core(M)
      PROVE  Keeps(K, Undo(K, tx)) /\ Core(Undo(K, tx)) = Core(L)
    <2>1. Alike(K, D)
        BY <1>6, <1>8, CoreAlike, AlikeIs
    <2>2. Finds(K, tx)
        <3>1. DOMAIN K.topics = DOMAIN D.topics
            BY <2>1, BareIs DEF Alike
        <3> QED
            BY <1>7, <3>1 DEF Finds
    <2>3. Keeps(K, Undo(K, tx)) /\ Alike(Undo(K, tx), C)
        BY <1>2, <1>5, <1>6, <1>8, <2>1, <2>2, UndoAlike DEF Keeps
    <2>4. Alike(Undo(K, tx), L)
        BY <1>1, <2>3, AlikeIs
    <2> QED
        BY <2>3, <2>4, CoreAlike
<1> QED
    BY <1>6, <1>8 DEF M

\* The sums are numbers.
LEMMA CoinsAre ==
    ASSUME NEW L, IsBook(L)
    PROVE  LET f == TopicCoins(BareAll(L.topics))
           IN  /\ IsFiniteSet(DOMAIN L.balance) /\ L.balance \in [DOMAIN L.balance -> Int]
               /\ IsFiniteSet(DOMAIN f) /\ f \in [DOMAIN f -> Int]
               /\ Total(L.balance) \in Int /\ Total(f) \in Int /\ Coins(L) \in Int
<1> DEFINE f == TopicCoins(BareAll(L.topics))
           A == DOMAIN L.referrer
<1>1. IsFiniteSet(DOMAIN L.balance) /\ L.balance \in [DOMAIN L.balance -> Int]
    <2>1. IsFiniteSet(A \cup {Reserve})
        BY FS_AddElement DEF IsBook, People
    <2>2. L.balance \in [A \cup {Reserve} -> Nat]
        BY DEF IsBook
    <2> HIDE DEF A
    <2>3. DOMAIN L.balance = A \cup {Reserve} /\ L.balance \in [A \cup {Reserve} -> Int]
        BY <2>2
    <2> QED
        BY <2>1, <2>3
<1>2. IsFiniteSet(DOMAIN f) /\ f \in [DOMAIN f -> Int]
    <2> DEFINE T == BareAll(L.topics)
    <2>1. Live(A, T, L.topic_list)
        BY DEF IsBook
    <2>2. f = [k \in DOMAIN T |-> T[k].balance]
        BY DEF TopicCoins
    <2> HIDE DEF T, f
    <2>3. \A k \in DOMAIN T : T[k].balance \in Int
        BY <2>1 DEF Live, BareTopic
    <2> QED
        BY <2>1, <2>2, <2>3 DEF Live
<1> HIDE DEF f
<1>3. \A g : IsFiniteSet(DOMAIN g) /\ g \in [DOMAIN g -> Int] => Total(g) \in Int
    BY SumOverIs DEF Total
<1>4. Total(L.balance) \in Int /\ Total(f) \in Int
    BY <1>1, <1>2, <1>3
<1>5. Coins(L) \in Int
    BY <1>4 DEF Coins, f
<1> QED
    BY <1>1, <1>2, <1>4, <1>5 DEF f

\* A payment that is covered.
LEMMA CreditBook ==
    ASSUME NEW L, Shaped(L), IsBook(L), NEW a \in DOMAIN L.referrer \cup {Reserve},
           NEW k \in Int, L.balance[a] + k >= 0
    PROVE  LET M == Credit(L, a, k)
           IN  /\ Keeps(L, M) /\ Same(L, M, {"balance"}) /\ IsBook(M)
               /\ Coins(M) = Coins(L) + k
               /\ M.balance[a] = L.balance[a] + k
               /\ \A x \in DOMAIN L.referrer : x # a => M.balance[x] = L.balance[x]
<1> DEFINE M == Credit(L, a, k)
           D == DOMAIN L.referrer \cup {Reserve}
<1>1. Same(L, M, {"balance"}) /\ M.balance = Plus(L.balance, a, k)
    BY CreditIs DEF Shaped
<1>2. Keeps(L, M)
    BY CreditAlike, AlikeIs
<1>3. L.balance \in [D -> Nat] /\ a \in D
    BY DEF IsBook
<1> HIDE DEF M
<1>4. /\ M.balance \in [D -> Nat] /\ M.balance[a] = L.balance[a] + k
      /\ \A x \in D : x # a => M.balance[x] = L.balance[x]
    BY <1>1, <1>3 DEF Plus
<1>5. M.referrer = L.referrer /\ M.name = L.name /\ M.by_id = L.by_id /\ M.own = L.own
      /\ M.topics = L.topics /\ M.topic_list = L.topic_list
    BY <1>1 DEF Same, Fields
<1>6. IsBook(M)
    BY <1>4, <1>5 DEF IsBook, People, D
<1>7. Coins(M) = Coins(L) + k
    <2>1. DOMAIN L.balance = D /\ IsFiniteSet(D) /\ L.balance \in [D -> Int]
        BY <1>3, CoinsAre
    <2>2. Total(M.balance) = Total(L.balance) + k
        BY <1>1, <1>3, <2>1, TotalPlus
    <2>3. Total(L.balance) \in Int /\ Total(TopicCoins(BareAll(L.topics))) \in Int
        BY CoinsAre
    <2> QED
        BY <1>5, <2>2, <2>3 DEF Coins
<1> QED
    BY <1>1, <1>2, <1>4, <1>6, <1>7 DEF M, D

\* The fee: half of it goes to the patron, the other half waits for the miner.
LEMMA FeeBook ==
    ASSUME NEW L, Shaped(L), IsBook(L), NEW a \in DOMAIN L.referrer, L.balance[a] >= FEE
    PROVE  LET F == PayFee(L, a)
           IN  Shaped(F) /\ IsBook(F) /\ Coins(F) = Coins(L) - 1 /\ Same(L, F, {"balance"})
<1> DEFINE p == Patron(L, a)
           B == Credit(L, p, 1)
           F == Credit(B, a, 0 - FEE)
<1>1. F = PayFee(L, a)
    BY DEF PayFee
<1>2. /\ p \in DOMAIN L.referrer \cup {Reserve} /\ a \in DOMAIN L.referrer \cup {Reserve}
      /\ \A x \in DOMAIN L.referrer \cup {Reserve} : L.balance[x] \in Nat
    BY DEF Patron, IsBook, People
<1> HIDE DEF p
<1>3. /\ Keeps(L, B) /\ Same(L, B, {"balance"}) /\ IsBook(B) /\ Coins(B) = Coins(L) + 1
      /\ B.balance[p] = L.balance[p] + 1
      /\ \A x \in DOMAIN L.referrer : x # p => B.balance[x] = L.balance[x]
    <2>1. L.balance[p] + 1 >= 0
        BY <1>2
    <2> QED
        BY <1>2, <2>1, CreditBook
<1> HIDE DEF B
<1>4. Shaped(B) /\ B.referrer = L.referrer /\ B.balance[a] + (0 - FEE) >= 0
    <2>1. B.referrer = L.referrer /\ Shaped(B)
        BY <1>3 DEF Same, Fields, Keeps
    <2>2. B.balance[a] >= L.balance[a]
        BY <1>2, <1>3
    <2> QED
        BY <1>2, <1>3, <2>1, <2>2 DEF FEE, IsBook
<1>5. /\ Keeps(B, F) /\ Same(B, F, {"balance"}) /\ IsBook(F) /\ Coins(F) = Coins(B) + (0 - FEE)
    <2>1. 0 - FEE \in Int /\ a \in DOMAIN B.referrer \cup {Reserve}
        BY <1>4 DEF FEE
    <2> QED
        BY <1>3, <1>4, <2>1, CreditBook
<1> HIDE DEF F
<1>6. Coins(F) = Coins(L) - 1
    <2>1. Coins(L) \in Int
        BY CoinsAre
    <2> QED
        BY <1>3, <1>5, <2>1 DEF FEE
<1>7. Same(L, F, {"balance"}) /\ Shaped(F)
    BY <1>3, <1>5 DEF Same, Keeps
<1> QED
    BY <1>1, <1>5, <1>6, <1>7

\* A payment between accounts.
LEMMA SendBook ==
    ASSUME NEW F, Shaped(F), IsBook(F), NEW tx, CanSend(F, tx),
           tx.from \in DOMAIN F.referrer, tx.amount \in Nat
    PROVE  IsBook(DoSend(F, tx)) /\ Coins(DoSend(F, tx)) = Coins(F)
<1> DEFINE n == tx.amount
           B == Credit(F, tx.from, 0 - n)
           M == Credit(B, tx.to, n)
<1>1. M = DoSend(F, tx)
    BY DEF DoSend, Move
<1>2. /\ F.balance[tx.from] \in Nat /\ n \in Nat /\ 0 - n \in Int /\ n \in Int
      /\ F.balance[tx.from] + (0 - n) >= 0 /\ tx.to \in DOMAIN F.referrer
    <2>1. F.balance[tx.from] \in Nat
        BY DEF IsBook
    <2> QED
        BY <2>1 DEF CanSend, Registered
<1> HIDE DEF n
<1>3. Keeps(F, B) /\ Same(F, B, {"balance"}) /\ IsBook(B) /\ Coins(B) = Coins(F) + (0 - n)
    BY <1>2, CreditBook
<1> HIDE DEF B
<1>4. Shaped(B) /\ B.referrer = F.referrer
    BY <1>3 DEF Same, Fields, Keeps
<1>5. B.balance[tx.to] + n >= 0
    <2>1. B.balance[tx.to] \in Nat
        BY <1>2, <1>3, <1>4 DEF IsBook
    <2> QED
        BY <1>2, <2>1
<1>6. IsBook(M) /\ Coins(M) = Coins(B) + n
    BY <1>2, <1>3, <1>4, <1>5, CreditBook
<1> HIDE DEF M
<1>7. Coins(M) = Coins(F)
    <2>1. Coins(F) \in Int
        BY CoinsAre
    <2> QED
        BY <1>2, <1>3, <1>6, <2>1
<1> QED
    BY <1>1, <1>6, <1>7

\* There may be more accounts.
LEMMA LiveMore ==
    ASSUME NEW A, NEW B, A \subseteq B, NEW T, NEW list, Live(A, T, list)
    PROVE  Live(B, T, list)
<1>1. BareTopic(A) \subseteq BareTopic(B)
    <2> DEFINE X == [key : Hash, type : {0, 1}, owner : A, balance : Int]
               Y == [key : Hash, type : {0, 1}, owner : B, balance : Int]
    <2>1. X \subseteq Y
        OBVIOUS
    <2> HIDE DEF X, Y
    <2>2. Seq(X) \subseteq Seq(Y)
        BY <2>1
    <2> QED
        BY <2>2 DEF BareTopic, X, Y
<1> QED
    BY <1>1 DEF Live

\* One more account, without coins.
LEMMA RegBook ==
    ASSUME NEW F, Shaped(F), IsBook(F), NEW tx, CanReg(F, tx),
           tx.who \in Pubkey \ {Reserve}, tx.from \in DOMAIN F.referrer
    PROVE  IsBook(DoReg(F, tx)) /\ Coins(DoReg(F, tx)) = Coins(F)
<1> DEFINE M == DoReg(F, tx)
           A == DOMAIN F.referrer
           D == A \cup {Reserve}
           B == A \cup {tx.who}
<1>1. /\ Same(F, M, {"referrer", "name", "by_id", "balance", "own", "joined"})
      /\ M.referrer = With(F.referrer, tx.who, tx.from)
      /\ M.name = With(F.name, tx.who, tx.name)
      /\ M.by_id = Append(F.by_id, tx.who)
      /\ M.balance = With(F.balance, tx.who, 0)
      /\ M.own = With(F.own, tx.who, <<>>)
    BY DEF DoReg, Same, Shaped, IsRecord, Fields
<1> HIDE DEF M
<1>2. tx.who \notin A /\ tx.who \notin D /\ People(F) /\ F.balance \in [D -> Nat]
    BY DEF CanReg, Registered, IsBook
<1>3. DOMAIN M.referrer = B /\ M.topics = F.topics /\ M.topic_list = F.topic_list
    BY <1>1 DEF With, Same, Fields
<1>4. People(M)
    <2>1. IsFiniteSet(B) /\ B \subseteq Pubkey /\ Reserve \notin B
        BY <1>2, FS_AddElement DEF People
    <2>2. IsFcn(M.referrer) /\ \A a \in B : M.referrer[a] \in B \cup {None}
        BY <1>1, <1>2 DEF With, IsFcn, People
    <2>3. IsFcn(M.name) /\ DOMAIN M.name = B \cup {Reserve}
        BY <1>1, <1>2 DEF With, IsFcn, People
    <2>4. M.by_id \in Seq(Pubkey)
        BY <1>1, <1>2 DEF People
    <2>5. M.own \in [B -> Seq(Hash)]
        <3>1. <<>> \in Seq(Hash) /\ F.own \in [A -> Seq(Hash)]
            BY <1>2 DEF People
        <3> QED
            BY <1>1, <3>1 DEF With
    <2> QED
        BY <1>3, <2>1, <2>2, <2>3, <2>4, <2>5 DEF People
<1>5. M.balance \in [B \cup {Reserve} -> Nat]
    BY <1>1, <1>2 DEF With
<1>6. Live(B, BareAll(M.topics), M.topic_list)
    <2>1. Live(A, BareAll(F.topics), F.topic_list) /\ A \subseteq B
        BY DEF IsBook
    <2> HIDE DEF A, B
    <2> QED
        BY <1>3, <2>1, LiveMore
<1>7. Coins(M) = Coins(F)
    <2>1. DOMAIN F.balance = D /\ IsFiniteSet(D) /\ F.balance \in [D -> Int]
        BY <1>2, CoinsAre
    <2>2. Total(M.balance) = Total(F.balance) + 0
        <3>1. 0 \in Int /\ tx.who \notin DOMAIN F.balance /\ Sums(F.balance)
            BY <1>2, <2>1 DEF Sums
        <3> QED
            BY <1>1, <3>1, TotalIs
    <2>3. Total(F.balance) \in Int
        BY CoinsAre
    <2> QED
        BY <1>3, <2>2, <2>3 DEF Coins
<1> QED
    BY <1>3, <1>4, <1>5, <1>6, <1>7 DEF IsBook, M

\* A topic that changes.
LEMMA LivePut ==
    ASSUME NEW A, NEW T, NEW list, Live(A, T, list), NEW k \in DOMAIN T, NEW v \in BareTopic(A)
    PROVE  /\ Live(A, Put(T, k, v), list)
           /\ Total(TopicCoins(Put(T, k, v))) = Total(TopicCoins(T)) + (v.balance - T[k].balance)
<1> DEFINE D == DOMAIN T
           f == TopicCoins(T)
           n == v.balance - T[k].balance
<1>1. /\ DOMAIN Put(T, k, v) = D /\ Put(T, k, v) \in [D -> BareTopic(A)]
      /\ T \in [D -> BareTopic(A)] /\ IsFiniteSet(D)
    BY DEF Live, Put
<1>2. v.balance \in Nat /\ \A x \in D : T[x].balance \in Nat
    BY <1>1 DEF BareTopic
<1>3. f \in [D -> Int] /\ k \in D /\ n \in Int
    BY <1>2 DEF TopicCoins
<1>4. TopicCoins(Put(T, k, v)) = Plus(f, k, n)
    <2>1. \A x \in D : Put(T, k, v)[x].balance = IF x = k THEN v.balance ELSE T[x].balance
        BY <1>1 DEF Put
    <2>2. \A x \in D : Plus(f, k, n)[x] = IF x = k THEN v.balance ELSE T[x].balance
        <3>1. \A x \in D : f[x] = T[x].balance
            BY DEF TopicCoins
        <3> HIDE DEF f
        <3>2. \A x \in D : Plus(f, k, n)[x] = IF x = k THEN f[x] + n ELSE f[x]
            BY <1>3 DEF Plus
        <3>3. f[k] + n = v.balance
            BY <1>2, <3>1
        <3> QED
            BY <3>1, <3>2, <3>3
    <2>3. DOMAIN Plus(f, k, n) = D /\ IsFcn(Plus(f, k, n))
        BY DEF Plus, TopicCoins, IsFcn
    <2> HIDE DEF f, n
    <2>4. TopicCoins(Put(T, k, v)) = [x \in D |-> Put(T, k, v)[x].balance]
        BY <1>1 DEF TopicCoins
    <2> QED
        BY <2>1, <2>2, <2>3, <2>4 DEF IsFcn
<1>5. Total(TopicCoins(Put(T, k, v))) = Total(f) + n
    <2>1. Sums(f) /\ k \in DOMAIN f
        BY <1>1, <1>3 DEF Sums
    <2> HIDE DEF f, n, D
    <2> QED
        BY <1>3, <1>4, <2>1, TotalIs
<1> QED
    BY <1>1, <1>5 DEF Live

\* One more, the last of the list.
LEMMA LiveWith ==
    ASSUME NEW A, NEW T, NEW list, Live(A, T, list),
           NEW k \in Hash, k \notin DOMAIN T, NEW v \in BareTopic(A)
    PROVE  /\ Live(A, With(T, k, v), Append(list, k))
           /\ Total(TopicCoins(With(T, k, v))) = Total(TopicCoins(T)) + v.balance
<1> DEFINE D == DOMAIN T
           E == D \cup {k}
           f == TopicCoins(T)
           e == Append(list, k)
<1>1. /\ DOMAIN With(T, k, v) = E /\ With(T, k, v) \in [E -> BareTopic(A)]
      /\ T \in [D -> BareTopic(A)] /\ IsFiniteSet(D)
    BY DEF Live, With
<1>2. v.balance \in Nat /\ \A x \in D : T[x].balance \in Nat
    BY <1>1 DEF BareTopic
<1>3. f \in [D -> Int] /\ v.balance \in Int
    BY <1>2 DEF TopicCoins
<1>4. TopicCoins(With(T, k, v)) = With(f, k, v.balance)
    BY DEF TopicCoins, With
<1>5. Total(TopicCoins(With(T, k, v))) = Total(f) + v.balance
    <2>1. Sums(f) /\ k \notin DOMAIN f
        BY <1>1, <1>3 DEF Sums
    <2> HIDE DEF f, D
    <2> QED
        BY <1>3, <1>4, <2>1, TotalIs
<1>6. /\ e \in Seq(Hash) /\ {e[i] : i \in DOMAIN e} = E
      /\ \A i, j \in DOMAIN e : e[i] = e[j] => i = j
    <2>1. /\ list \in Seq(Hash) /\ {list[i] : i \in DOMAIN list} = D
          /\ \A i, j \in DOMAIN list : list[i] = list[j] => i = j
        BY DEF Live
    <2>2. /\ e \in Seq(Hash) /\ DOMAIN list = 1 .. Len(list) /\ Len(list) \in Nat
          /\ DOMAIN e = 1 .. Len(list) + 1
          /\ e[Len(list) + 1] = k /\ \A i \in 1 .. Len(list) : e[i] = list[i]
        BY <2>1
    <2> HIDE DEF e
    <2>3. {e[i] : i \in DOMAIN e} = E
        BY <2>1, <2>2
    <2>4. \A i \in DOMAIN e : i \in 1 .. Len(list) \/ i = Len(list) + 1
        BY <2>2
    <2>5. \A i \in 1 .. Len(list) : list[i] # k
        BY <2>1, <2>2
    <2>6. \A i, j \in DOMAIN e : e[i] = e[j] => i = j
        BY <2>1, <2>2, <2>4, <2>5
    <2> QED
        BY <2>2, <2>3, <2>6
<1>7. IsFiniteSet(E) /\ E \subseteq Hash
    BY <1>1, FS_AddElement DEF Live
<1> HIDE DEF E, e, D
<1>8. Live(A, With(T, k, v), e)
    BY <1>1, <1>6, <1>7 DEF Live
<1> QED
    BY <1>5, <1>8 DEF e

\* One less, the first of the list.
LEMMA LiveWithout ==
    ASSUME NEW A, NEW T, NEW list, Live(A, T, list), list # <<>>
    PROVE  /\ Head(list) \in DOMAIN T
           /\ Live(A, Without(T, Head(list)), Tail(list))
           /\ Total(TopicCoins(Without(T, Head(list))))
                = Total(TopicCoins(T)) - T[Head(list)].balance
<1> DEFINE D == DOMAIN T
           k == Head(list)
           E == D \ {k}
           f == TopicCoins(T)
           e == Tail(list)
<1>1. /\ list \in Seq(Hash) /\ {list[i] : i \in DOMAIN list} = D
      /\ \A i, j \in DOMAIN list : list[i] = list[j] => i = j
    BY DEF Live
<1>2. /\ e \in Seq(Hash) /\ DOMAIN list = 1 .. Len(list) /\ Len(list) \in Nat /\ Len(list) >= 1
      /\ DOMAIN e = 1 .. Len(list) - 1
      /\ k = list[1] /\ \A i \in 1 .. Len(list) - 1 : e[i] = list[i + 1]
    <2>1. Len(list) \in Nat /\ DOMAIN list = 1 .. Len(list) /\ Len(list) >= 1
        BY <1>1
    <2>2. e \in Seq(Hash) /\ Len(e) = Len(list) - 1 /\ k = list[1]
          /\ \A i \in 1 .. Len(e) : e[i] = list[i + 1]
        BY <1>1, HeadTailProperties
    <2> QED
        BY <2>1, <2>2
<1>3. k \in D /\ DOMAIN T = D
    BY <1>1, <1>2
<1> HIDE DEF k, e
<1>4. /\ DOMAIN Without(T, k) = E /\ Without(T, k) \in [E -> BareTopic(A)]
      /\ T \in [D -> BareTopic(A)] /\ IsFiniteSet(D)
    BY DEF Live, Without
<1>5. \A x \in D : T[x].balance \in Nat
    BY <1>4 DEF BareTopic
<1>6. f \in [D -> Int] /\ f[k] = T[k].balance
    BY <1>3, <1>5 DEF TopicCoins
<1>7. TopicCoins(Without(T, k)) = Without(f, k)
    BY DEF TopicCoins, Without
<1>8. Total(TopicCoins(Without(T, k))) = Total(f) - T[k].balance
    <2>1. Sums(f) /\ k \in DOMAIN f
        BY <1>3, <1>4, <1>6 DEF Sums
    <2> HIDE DEF f, D
    <2>2. Total(Without(f, k)) = Total(f) - f[k]
        BY <2>1, TotalIs
    <2> QED
        BY <1>6, <1>7, <2>2
<1>9. {e[i] : i \in DOMAIN e} = E /\ \A i, j \in DOMAIN e : e[i] = e[j] => i = j
    <2>1. \A i \in DOMAIN e : i + 1 \in DOMAIN list /\ e[i] = list[i + 1] /\ i + 1 # 1
        BY <1>2
    <2>2. \A i \in DOMAIN e : e[i] \in E
        BY <1>1, <1>2, <2>1
    <2>3. ASSUME NEW x \in E PROVE \E i \in DOMAIN e : e[i] = x
        <3>1. PICK i \in DOMAIN list : list[i] = x
            BY <1>1
        <3>2. i # 1
            BY <1>2, <3>1
        <3>3. i - 1 \in DOMAIN e /\ e[i - 1] = list[i]
            BY <1>2, <3>2
        <3> QED
            BY <3>1, <3>3
    <2>4. \A i, j \in DOMAIN e : e[i] = e[j] => i = j
        <3> SUFFICES ASSUME NEW i \in DOMAIN e, NEW j \in DOMAIN e, e[i] = e[j] PROVE i = j
            OBVIOUS
        <3>1. i + 1 = j + 1
            BY <1>1, <2>1
        <3> QED
            BY <1>2, <3>1
    <2> QED
        BY <2>2, <2>3, <2>4
<1>10. IsFiniteSet(E) /\ E \subseteq Hash
    BY <1>4, FS_RemoveElement DEF Live
<1> HIDE DEF E, D
<1>11. Live(A, Without(T, k), e)
    BY <1>2, <1>4, <1>9, <1>10 DEF Live
<1> QED
    BY <1>3, <1>8, <1>11 DEF k, e, D

\* What a new topic does, the coins apart.
LEMMA TopicDoes ==
    ASSUME NEW X, IsRecord(X), NEW tx, NEW id
    PROVE  LET Y == Credit(X, tx.from, 0 - tx.amount)
               Z == DoTopic(X, tx, id)
           IN  /\ Same(Y, Z, {"own", "topic_list", "topics"})
               /\ Z.own = Put(Y.own, tx.from, Append(Y.own[tx.from], tx.id))
               /\ Z.topic_list = Append(Y.topic_list, tx.id)
               /\ Z.topics = With(Y.topics, tx.id,
                    [owner |-> tx.from, block_id |-> id, balance |-> tx.amount,
                     members |-> <<>>, replies |-> <<>>])
<1> DEFINE Y == Credit(X, tx.from, 0 - tx.amount)
           Z == DoTopic(X, tx, id)
           t == [owner |-> tx.from, block_id |-> id, balance |-> tx.amount,
                 members |-> <<>>, replies |-> <<>>]
<1>1. Z = [Y EXCEPT !.own[tx.from] = Append(@, tx.id),
                    !.topic_list   = Append(@, tx.id),
                    !.topics       = With(@, tx.id, t)]
    BY DEF DoTopic
<1>2. IsRecord(Y)
    BY CreditIs DEF Same
<1> HIDE DEF Y, Z, t
<1>3. /\ Same(Y, Z, {"own", "topic_list", "topics"})
      /\ Z.own = Put(Y.own, tx.from, Append(Y.own[tx.from], tx.id))
      /\ Z.topic_list = Append(Y.topic_list, tx.id)
      /\ Z.topics = With(Y.topics, tx.id, t)
    BY <1>1, <1>2 DEF Same, IsRecord, Fields, Put
<1> QED
    BY <1>3 DEF Y, Z, t

\* A new topic holds the coins its owner gave it.
LEMMA TopicBook ==
    ASSUME NEW F, Shaped(F), IsBook(F), NEW tx, CanTopic(F, tx), NEW id \in Int,
           tx.from \in DOMAIN F.referrer, tx.amount \in Nat, tx.id \in Hash
    PROVE  IsBook(DoTopic(F, tx, id)) /\ Coins(DoTopic(F, tx, id)) = Coins(F)
<1> DEFINE n == tx.amount
           A == DOMAIN F.referrer
           B == Credit(F, tx.from, 0 - n)
           M == DoTopic(F, tx, id)
           t == [owner |-> tx.from, block_id |-> id, balance |-> n,
                 members |-> <<>>, replies |-> <<>>]
           T == BareAll(F.topics)
<1>1. /\ n \in Nat /\ 0 - n \in Int /\ F.balance[tx.from] + (0 - n) >= 0
    <2>1. F.balance[tx.from] \in Nat
        BY DEF IsBook
    <2> QED
        BY <2>1 DEF CanTopic
<1>2. Keeps(F, B) /\ Same(F, B, {"balance"}) /\ IsBook(B) /\ Coins(B) = Coins(F) + (0 - n)
    <2> HIDE DEF n
    <2> QED
        BY <1>1, CreditBook
<1>3. /\ Same(B, M, {"own", "topic_list", "topics"})
      /\ M.own = Put(B.own, tx.from, Append(B.own[tx.from], tx.id))
      /\ M.topic_list = Append(B.topic_list, tx.id)
      /\ M.topics = With(B.topics, tx.id, t)
    BY TopicDoes DEF Shaped
<1>4. /\ B.referrer = F.referrer /\ B.name = F.name /\ B.by_id = F.by_id /\ B.own = F.own
      /\ B.topics = F.topics /\ B.topic_list = F.topic_list
    BY <1>2 DEF Same, Fields
<1>5. t \in BareTopic(A) /\ Bare(t) = t /\ t.balance = n /\ TopicFields \subseteq DOMAIN t
    <2>1. <<>> \in Seq([key : Hash, type : {0, 1}, owner : A, balance : Int])
        OBVIOUS
    <2>2. t \in BareTopic(A)
        BY <1>1, <2>1 DEF BareTopic
    <2> QED
        BY <2>2 DEF Bare, TopicFields
<1>6. Live(A, T, F.topic_list) /\ tx.id \notin DOMAIN T
    <2>1. Live(A, T, F.topic_list)
        BY DEF IsBook
    <2>2. tx.id \notin DOMAIN F.topics
        BY DEF CanTopic
    <2> QED
        BY <2>1, <2>2, BareIs
<1> HIDE DEF M, B, t
<1>7. BareAll(M.topics) = With(T, tx.id, t)
    <2>1. BareAll(With(F.topics, tx.id, t)) = With(BareAll(F.topics), tx.id, Bare(t))
        BY BareWith DEF Shaped
    <2> QED
        BY <1>3, <1>4, <1>5, <2>1
<1> HIDE DEF T
<1>8. /\ Live(A, BareAll(M.topics), M.topic_list)
      /\ Total(TopicCoins(BareAll(M.topics))) = Total(TopicCoins(T)) + n
    <2> HIDE DEF A, n
    <2>1. /\ Live(A, With(T, tx.id, t), Append(F.topic_list, tx.id))
          /\ Total(TopicCoins(With(T, tx.id, t))) = Total(TopicCoins(T)) + t.balance
        BY <1>5, <1>6, LiveWith
    <2> QED
        BY <1>3, <1>4, <1>5, <1>7, <2>1
<1>9. M.referrer = F.referrer /\ M.name = F.name /\ M.by_id = F.by_id /\ M.balance = B.balance
    BY <1>3, <1>4 DEF Same, Fields
<1>10. M.own \in [A -> Seq(Hash)]
    <2>1. F.own \in [A -> Seq(Hash)]
        BY DEF IsBook, People
    <2> QED
        BY <1>3, <1>4, <2>1 DEF Put
<1>11. IsBook(M)
    <2>1. B.balance \in [A \cup {Reserve} -> Nat]
        BY <1>2, <1>4 DEF IsBook
    <2> QED
        BY <1>8, <1>9, <1>10, <2>1 DEF IsBook, People
<1>12. Coins(M) = Coins(F)
    <2>1. /\ Coins(M) = Total(B.balance) + Total(TopicCoins(BareAll(M.topics)))
          /\ Coins(B) = Total(B.balance) + Total(TopicCoins(T))
        BY <1>4, <1>9 DEF Coins, T
    <2>2. Total(B.balance) \in Int /\ Total(TopicCoins(T)) \in Int /\ Coins(F) \in Int
        BY <1>2, <1>4, CoinsAre DEF T
    <2> QED
        BY <1>1, <1>2, <1>8, <2>1, <2>2
<1> QED
    BY <1>11, <1>12 DEF M

\* A reply takes no coins.
LEMMA ReplyBook ==
    ASSUME NEW F, Shaped(F), IsBook(F), NEW tx, CanReply(F, tx),
           tx.from \in DOMAIN F.referrer, tx.id \in Hash
    PROVE  IsBook(DoReply(F, tx)) /\ Coins(DoReply(F, tx)) = Coins(F)
<1> DEFINE A == DOMAIN F.referrer
           M == DoReply(F, tx)
           k == tx.topic
           T == BareAll(F.topics)
           t == T[k]
           r == [key |-> tx.id, type |-> 0, owner |-> tx.from, balance |-> 0]
           s == Append(t.replies, r)
           v == WithReplies(t, s)
<1>1. k \in DOMAIN F.topics /\ k \in DOMAIN T
    BY BareIs DEF CanReply
<1>2. Replied(F, M, k, s)
    BY <1>1, ReplyDoes
<1>3. Live(A, T, F.topic_list) /\ t \in BareTopic(A)
    BY <1>1 DEF IsBook, Live
<1> HIDE DEF T, M, A
<1>4. s \in Seq([key : Hash, type : {0, 1}, owner : A, balance : Int])
    <2>1. r \in [key : Hash, type : {0, 1}, owner : A, balance : Int]
        BY DEF A
    <2>2. t.replies \in Seq([key : Hash, type : {0, 1}, owner : A, balance : Int])
        BY <1>3 DEF BareTopic
    <2> HIDE DEF r, t
    <2> QED
        BY <2>1, <2>2
<1> HIDE DEF s, t
<1>5. v \in BareTopic(A) /\ v.balance = t.balance /\ t.balance \in Int
    BY <1>3, <1>4 DEF BareTopic, WithReplies
<1>6. /\ Live(A, Put(T, k, v), F.topic_list)
      /\ Total(TopicCoins(Put(T, k, v))) = Total(TopicCoins(T)) + (v.balance - T[k].balance)
    <2> HIDE DEF v, k
    <2> QED
        BY <1>1, <1>3, <1>5, LivePut
<1>7. BareAll(M.topics) = Put(T, k, v) /\ Same(F, M, {"joined", "topics"})
    BY <1>2 DEF Replied, T, t
<1> HIDE DEF v
<1>8. /\ M.referrer = F.referrer /\ M.name = F.name /\ M.by_id = F.by_id
      /\ M.own = F.own /\ M.balance = F.balance /\ M.topic_list = F.topic_list
    BY <1>7 DEF Same, Fields
<1>9. IsBook(M)
    BY <1>6, <1>7, <1>8 DEF IsBook, People, A
<1>10. Coins(M) = Coins(F)
    <2>1. Total(TopicCoins(T)) \in Int
        BY CoinsAre DEF T
    <2>2. Total(TopicCoins(BareAll(M.topics))) = Total(TopicCoins(T))
        BY <1>5, <1>6, <1>7, <2>1 DEF t
    <2> QED
        BY <1>8, <2>2 DEF Coins, T
<1> QED
    BY <1>9, <1>10 DEF M

\* A reward takes from the topic what it gives to the author of the reply.
LEMMA RewardBook ==
    ASSUME NEW F, Shaped(F), IsBook(F), NEW tx, CanReward(F, tx),
           tx.from \in DOMAIN F.referrer, tx.amount \in Nat, tx.id \in Hash
    PROVE  IsBook(DoReward(F, tx)) /\ Coins(DoReward(F, tx)) = Coins(F)
<1> DEFINE A == DOMAIN F.referrer
           R == [key : Hash, type : {0, 1}, owner : A, balance : Int]
           M == DoReward(F, tx)
           k == tx.topic
           n == tx.amount
           T == BareAll(F.topics)
           t == T[k]
           r == [key |-> tx.id, type |-> 1, owner |-> tx.from, balance |-> n]
           i == Reply(t, tx.reply_to)
           o == ReplyOwner(t, tx.reply_to)
           K == Credit(F, o, n)
           b == t.balance - n
           s == Rewarded(t.replies, i, n, r)
           v == WithPaid(t, b, s)
<1>1. k \in DOMAIN F.topics /\ k \in DOMAIN T /\ T[k] = Bare(F.topics[k])
    BY BareIs DEF CanReward
<1>2. t.replies = F.topics[k].replies /\ t.balance = F.topics[k].balance
    BY <1>1 DEF Bare
<1>3. HasReply(t, tx.reply_to) /\ t.balance >= n
    BY <1>2 DEF CanReward, IsPlain, HasReply, Reply
<1>4. Live(A, T, F.topic_list) /\ t \in BareTopic(A)
    BY <1>1 DEF IsBook, Live
<1>5. t.replies \in Seq(R) /\ t.balance \in Nat /\ n \in Nat /\ n \in Int
    BY <1>4 DEF BareTopic
<1>6. r \in R
    BY <1>5
<1> HIDE DEF T, M, R, t, n, r
<1>7. i \in 1 .. Len(t.replies)
    BY <1>3, <1>5, ReplyIs
<1>8. t.replies[i] \in R
    BY <1>5, <1>7
<1>9. o \in A
    BY <1>8 DEF ReplyOwner, R
<1> HIDE DEF o, i
<1>10. Bump(t.replies[i], n) \in R
    <2> DEFINE q == t.replies[i]
    <2>1. q \in R /\ n \in Int
        BY <1>5, <1>8
    <2> HIDE DEF q
    <2>2. Bump(q, n) \in R
        BY <2>1 DEF Bump, R
    <2> QED
        BY <2>2 DEF q
<1>11. s \in Seq(R)
    <2> DEFINE p == [t.replies EXCEPT ![i] = Bump(t.replies[i], n)]
    <2>1. p \in Seq(R)
        BY <1>5, <1>7, <1>10, ReplacedInSeq
    <2>2. PayReply(t.replies, i, n) = p
        BY DEF PayReply, Bump
    <2> HIDE DEF p
    <2> QED
        BY <1>6, <2>1, <2>2 DEF Rewarded
<1> HIDE DEF s
<1>12. v \in BareTopic(A) /\ v.balance = b
    <2>1. b \in Nat
        BY <1>3, <1>5
    <2> HIDE DEF b, A
    <2> QED
        BY <1>4, <1>11, <2>1 DEF BareTopic, WithPaid, R
<1>13. /\ Keeps(F, K) /\ Same(F, K, {"balance"}) /\ IsBook(K) /\ Coins(K) = Coins(F) + n
    <2>1. F.balance[o] + n >= 0
        <3>1. F.balance[o] \in Nat
            BY <1>9 DEF IsBook
        <3> QED
            BY <1>5, <3>1
    <2> QED
        BY <1>5, <1>9, <2>1, CreditBook
<1>14. K.topics = F.topics
    BY <1>13 DEF Same, Fields
<1>15. M = Pay(K, k, F.topics[k].balance - n, Rewarded(F.topics[k].replies, i, n, r))
    <2>1. Reply(F.topics[k], tx.reply_to) = i /\ ReplyOwner(F.topics[k], tx.reply_to) = o
        BY <1>2 DEF Reply, ReplyOwner, i, o
    <2>2. LET C == Credit(F, o, n)
          IN  M = Pay(C, k, C.topics[k].balance - n, Rewarded(C.topics[k].replies, i, n, r))
        BY <2>1, RewardSteps DEF M, n, r
    <2> QED
        BY <1>14, <2>2
<1>16. M = Pay(K, k, b, s)
    BY <1>2, <1>15 DEF s
<1>17. Paid(F, M, k, o, n, b, s)
    BY <1>1, <1>16, PaidIs
<1> HIDE DEF v, b, K
<1>18. /\ Same(F, M, {"balance", "topics"}) /\ BareAll(M.topics) = Put(T, k, v)
       /\ M.balance = K.balance
    <2>1. K.balance = Plus(F.balance, o, n)
        BY CreditIs DEF K, Shaped
    <2> QED
        BY <1>17, <2>1 DEF Paid, T, t, v
<1>19. /\ Live(A, Put(T, k, v), F.topic_list)
       /\ Total(TopicCoins(Put(T, k, v))) = Total(TopicCoins(T)) + (v.balance - T[k].balance)
    <2> HIDE DEF k, A
    <2> QED
        BY <1>1, <1>4, <1>12, LivePut
<1>20. /\ M.referrer = F.referrer /\ M.name = F.name /\ M.by_id = F.by_id
       /\ M.own = F.own /\ M.topic_list = F.topic_list /\ K.referrer = F.referrer
    BY <1>13, <1>18 DEF Same, Fields
<1>21. IsBook(M)
    <2>1. K.balance \in [A \cup {Reserve} -> Nat]
        BY <1>13, <1>20 DEF IsBook
    <2> QED
        BY <1>18, <1>19, <1>20, <2>1 DEF IsBook, People
<1>22. Coins(M) = Coins(F)
    <2>1. Total(TopicCoins(T)) \in Int /\ Total(K.balance) \in Int /\ Coins(F) \in Int
        BY <1>13, CoinsAre DEF T
    <2>2. Total(TopicCoins(BareAll(M.topics))) = Total(TopicCoins(T)) - n
        BY <1>5, <1>12, <1>18, <1>19, <2>1 DEF t, b
    <2>3. Coins(K) = Total(K.balance) + Total(TopicCoins(T))
        BY <1>14 DEF Coins, T
    <2>4. Coins(M) = Total(K.balance) + Total(TopicCoins(BareAll(M.topics)))
        BY <1>18 DEF Coins
    <2> QED
        BY <1>5, <1>13, <2>1, <2>2, <2>3, <2>4
<1> QED
    BY <1>21, <1>22 DEF M

\* A transaction that applies leaves a book, and a coin of its fee for the miner.
THEOREM ApplyBook ==
    ASSUME NEW L, Shaped(L), IsBook(L), NEW tx, IsTx(tx), NEW id \in Int, CanApply(L, tx, id)
    PROVE  IsBook(Apply(L, tx, id)) /\ Coins(Apply(L, tx, id)) = Coins(L) - 1
<1> DEFINE F == PayFee(L, tx.from)
           M == Apply(L, tx, id)
           Fine(D) == IsBook(D) /\ Coins(D) = Coins(F) /\ Shaped(D)
<1>1. tx.from \in DOMAIN L.referrer /\ L.balance[tx.from] >= FEE
    BY DEF CanApply, Registered
<1>2. Shaped(F) /\ IsBook(F) /\ Coins(F) = Coins(L) - 1 /\ Same(L, F, {"balance"})
    BY <1>1, FeeBook
<1>3. tx.from \in DOMAIN F.referrer
    BY <1>1, <1>2 DEF Same, Fields
<1>4. \/ tx.type = "reg" /\ CanReg(F, tx) /\ M = Note(DoReg(F, tx), tx.id)
      \/ tx.type = "send" /\ CanSend(F, tx) /\ M = Note(DoSend(F, tx), tx.id)
      \/ tx.type = "topic" /\ CanTopic(F, tx) /\ M = Note(DoTopic(F, tx, id), tx.id)
      \/ tx.type = "reply" /\ CanReply(F, tx) /\ M = Note(DoReply(F, tx), tx.id)
      \/ tx.type = "reward" /\ CanReward(F, tx) /\ M = Note(DoReward(F, tx), tx.id)
    BY DEF CanApply, Apply, Note
<1> HIDE DEF F, M
<1>5. Alike(F, F)
    BY AlikeIs
<1>6. tx.type = "reg" /\ CanReg(F, tx) => Fine(DoReg(F, tx))
    BY <1>2, <1>3, <1>5, RegBook, RegAlike DEF IsTx, Keeps
<1>7. tx.type = "send" /\ CanSend(F, tx) => Fine(DoSend(F, tx))
    BY <1>2, <1>3, <1>5, SendBook, SendAlike DEF IsTx, Keeps
<1>8. tx.type = "topic" /\ CanTopic(F, tx) => Fine(DoTopic(F, tx, id))
    BY <1>2, <1>3, <1>5, TopicBook, TopicAlike DEF IsTx, Keeps
<1>9. tx.type = "reply" /\ CanReply(F, tx) => Fine(DoReply(F, tx))
    BY <1>2, <1>3, <1>5, ReplyBook, ReplyAlike DEF IsTx, Keeps, CanReply
<1>10. tx.type = "reward" /\ CanReward(F, tx) => Fine(DoReward(F, tx))
    BY <1>2, <1>3, <1>5, RewardBook, RewardAlike DEF IsTx, Keeps, CanReward
<1>11. PICK D : Fine(D) /\ M = Note(D, tx.id)
    BY <1>4, <1>6, <1>7, <1>8, <1>9, <1>10
<1>12. Alike(D, M)
    BY <1>11, NoteAlike
<1> QED
    BY <1>2, <1>11, <1>12, BookAlike DEF M

-----------------------------------------------------------------------------
(* What the miner of a block gets, and gives back.                         *)

\* It does to the cores of two ledgers the same.
LEMMA MinerAlike ==
    ASSUME NEW L, Shaped(L), NEW M, Shaped(M), Alike(L, M), NEW a, NEW n, NEW rewarded
    PROVE  /\ Keeps(L, UnpayMiner(L, a, n, rewarded))
           /\ Alike(UnpayMiner(L, a, n, rewarded), UnpayMiner(M, a, n, rewarded))
<1>1. CASE rewarded
    <2> DEFINE X == Move(L, a, Reserve, BLOCK_REWARD)
               Y == Move(M, a, Reserve, BLOCK_REWARD)
    <2>1. Keeps(L, X) /\ Keeps(M, Y) /\ Alike(X, Y)
        BY CreditsAlike, AlikeIs DEF Move
    <2> HIDE DEF X, Y
    <2>2. /\ Keeps(X, Credit(X, a, 0 - n))
          /\ Alike(Credit(X, a, 0 - n), Credit(Y, a, 0 - n))
        BY <2>1, CreditAlike DEF Keeps
    <2>3. /\ UnpayMiner(L, a, n, rewarded) = Credit(X, a, 0 - n)
          /\ UnpayMiner(M, a, n, rewarded) = Credit(Y, a, 0 - n)
        BY <1>1 DEF UnpayMiner, X, Y
    <2> QED
        BY <2>1, <2>2, <2>3 DEF Keeps
<1>2. CASE ~ rewarded
    BY <1>2, CreditAlike DEF UnpayMiner
<1> QED
    BY <1>1, <1>2

\* The miner of a block is paid out of the fees and the reserve fund, which
\* is not overdrawn, and what is paid is taken back without a trace.
THEOREM MinerPaid ==
    ASSUME NEW L, Shaped(L), IsBook(L), NEW a \in DOMAIN L.referrer, NEW n \in Nat
    PROVE  LET M == PayMiner(L, a, n)
           IN  /\ Keeps(L, M) /\ IsBook(M) /\ Coins(M) = Coins(L) + n
               /\ Alike(UnpayMiner(M, a, n, GetsReward(L)), L)
<1> DEFINE D == DOMAIN L.referrer \cup {Reserve}
           g == GetsReward(L)
           M == PayMiner(L, a, n)
           B == Credit(L, a, n)
           f == L.balance
           R == BLOCK_REWARD
           j == 0 - n
           r == 0 - R
<1>1. /\ a \in D /\ Reserve \in D /\ a # Reserve /\ f \in [D -> Nat] /\ f \in [D -> Int]
      /\ n \in Int /\ j \in Int /\ n + j = 0
      /\ R \in Int /\ r \in Int /\ R + r = 0 /\ r + R = 0 /\ R \in Nat
    <2>1. R \in Nat
        BY LedgerAssumption
    <2>2. f \in [D -> Nat] /\ a # Reserve
        BY DEF IsBook, People
    <2> QED
        BY <2>1, <2>2
<1>2. f[a] + n >= 0 /\ f[a] \in Nat
    BY <1>1
<1>3. /\ Keeps(L, B) /\ Same(L, B, {"balance"}) /\ IsBook(B) /\ Coins(B) = Coins(L) + n
      /\ B.balance = Plus(f, a, n) /\ B.referrer = L.referrer
    <2>1. /\ Keeps(L, B) /\ Same(L, B, {"balance"}) /\ IsBook(B) /\ Coins(B) = Coins(L) + n
        BY <1>1, <1>2, CreditBook
    <2>2. B.balance = Plus(f, a, n)
        BY CreditIs DEF Shaped
    <2> QED
        BY <2>1, <2>2 DEF Same, Fields
<1>4. g => f[Reserve] >= R
    BY DEF GetsReward
<1> HIDE DEF g
<1>5. CASE ~ g
    <2>1. M = B
        BY <1>5 DEF PayMiner, g
    <2> DEFINE U == UnpayMiner(M, a, n, g)
    <2>2. U = Credit(B, a, j)
        BY <1>5, <2>1 DEF UnpayMiner
    <2> HIDE DEF B, U, j
    <2>3. Same(B, U, {"balance"}) /\ U.balance = Plus(Plus(f, a, n), a, j)
        BY <1>3, <2>2, CreditIs DEF Same
    <2>4. Plus(Plus(f, a, n), a, j) = f
        <3>1. {n, j} \subseteq Int
            BY <1>1
        <3> HIDE DEF f, D
        <3> QED
            BY <1>1, <3>1, TakenBackAtOnce
    <2>5. U.balance = f
        BY <2>3, <2>4
    <2>6. Alike(U, L)
        BY <1>3, <2>3, <2>5 DEF Same, Fields, Alike
    <2> HIDE DEF M
    <2> QED
        BY <1>3, <2>1, <2>6 DEF U, M, g
<1>6. CASE g
    <2> DEFINE C == Credit(B, Reserve, r)
               N == Credit(C, a, R)
               U == UnpayMiner(M, a, n, g)
               X == Credit(Credit(N, a, r), Reserve, R)
    <2>1. M = N
        BY <1>6 DEF PayMiner, Move, g
    <2>2. /\ B.balance[Reserve] + r >= 0
        <3>1. B.balance[Reserve] = f[Reserve] /\ f[Reserve] \in Int
            BY <1>1, <1>3 DEF Plus
        <3> HIDE DEF B
        <3> QED
            BY <1>1, <1>4, <1>6, <3>1
    <2>3. /\ Keeps(B, C) /\ Same(B, C, {"balance"}) /\ IsBook(C) /\ Coins(C) = Coins(B) + r
          /\ C.balance = Plus(B.balance, Reserve, r)
        <3>1. Shaped(B) /\ Reserve \in DOMAIN B.referrer \cup {Reserve}
            BY <1>3 DEF Keeps
        <3> HIDE DEF B, r
        <3> QED
            BY <1>1, <1>3, <2>2, <3>1, CreditBook, CreditIs DEF Shaped
    <2>4. /\ Keeps(C, N) /\ Same(C, N, {"balance"}) /\ IsBook(N) /\ Coins(N) = Coins(C) + R
          /\ N.balance = Plus(C.balance, a, R)
        <3>1. Shaped(C) /\ C.referrer = L.referrer
            BY <1>3, <2>3 DEF Keeps, Same, Fields
        <3>2. C.balance[a] \in Nat
            BY <1>1, <2>3, <3>1 DEF IsBook
        <3> HIDE DEF C, R
        <3>3. C.balance[a] + R >= 0
            BY <1>1, <3>2
        <3> QED
            BY <1>1, <2>3, <3>1, <3>3, CreditBook, CreditIs DEF Shaped
    <2>5. Coins(N) = Coins(L) + n
        <3>1. Coins(L) \in Int
            BY CoinsAre
        <3> HIDE DEF B, C, N
        <3> QED
            BY <1>1, <1>3, <2>3, <2>4, <3>1
    <2>6. U = Credit(X, a, j)
        BY <1>6, <2>1 DEF UnpayMiner, Move
    <2> HIDE DEF B, C, N, U
    <2>7. Same(N, X, {"balance"}) /\ X.balance = Plus(Plus(N.balance, a, r), Reserve, R)
        BY <2>4, TwoCredits DEF Same
    <2> HIDE DEF X
    <2>8. Same(X, U, {"balance"}) /\ U.balance = Plus(X.balance, a, j)
        BY <2>6, <2>7, CreditIs DEF Same
    <2>9. U.balance = f
        <3> DEFINE h == Plus(f, a, n)
        <3>1. h \in [D -> Int]
            BY <1>1 DEF Plus
        <3>2. {n, j} \subseteq Int /\ {r, R, r, R} \subseteq Int
            BY <1>1
        <3>3. Plus(Plus(f, a, n), a, j) = f
            <4> HIDE DEF f, D, j
            <4> QED
                BY <1>1, <3>2, TakenBackAtOnce
        <3> HIDE DEF h, R, r, D
        <3>4. Plus(Plus(Plus(Plus(h, Reserve, r), a, R), a, r), Reserve, R) = h
            BY <1>1, <3>1, <3>2, TakenBack
        <3>5. N.balance = Plus(Plus(h, Reserve, r), a, R)
            BY <1>3, <2>3, <2>4 DEF h
        <3> QED
            BY <2>7, <2>8, <3>3, <3>4, <3>5 DEF h
    <2>10. Alike(U, L)
        BY <1>3, <2>3, <2>4, <2>7, <2>8, <2>9 DEF Same, Fields, Alike
    <2>11. Keeps(L, N)
        BY <1>3, <2>3, <2>4 DEF Keeps
    <2> HIDE DEF M
    <2> QED
        BY <2>1, <2>4, <2>5, <2>10, <2>11 DEF U, M, g
<1> QED
    BY <1>5, <1>6

\* In whichever ledger of the core the payment left.
LEMMA MinerUndone ==
    ASSUME NEW L, Shaped(L), IsBook(L), NEW a \in DOMAIN L.referrer, NEW n \in Nat,
           NEW K, Shaped(K), Core(K) = Core(PayMiner(L, a, n))
    PROVE  LET U == UnpayMiner(K, a, n, GetsReward(L))
           IN  Keeps(K, U) /\ Core(U) = Core(L)
<1> DEFINE M == PayMiner(L, a, n)
           g == GetsReward(L)
<1>1. Keeps(L, M) /\ Alike(UnpayMiner(M, a, n, g), L)
    BY MinerPaid
<1>2. Shaped(M) /\ Alike(K, M)
    BY <1>1, CoreAlike DEF Keeps
<1> HIDE DEF M, g
<1>3. Keeps(K, UnpayMiner(K, a, n, g)) /\ Alike(UnpayMiner(K, a, n, g), UnpayMiner(M, a, n, g))
    BY <1>2, MinerAlike
<1>4. Alike(UnpayMiner(K, a, n, g), L)
    BY <1>1, <1>3, AlikeIs
<1> QED
    BY <1>3, <1>4, CoreAlike DEF g

-----------------------------------------------------------------------------
(* A topic that is retired, and brought back.                              *)

\* A topic taken out of a map and put back.
LEMMA WithWithout ==
    ASSUME NEW f, IsFcn(f), NEW x \in DOMAIN f
    PROVE  With(Without(f, x), x, f[x]) = f
BY DEF Without, With, IsFcn

\* The first of a list, taken off and put back.
LEMMA HeadBack ==
    ASSUME NEW S, NEW s \in Seq(S), s # <<>>
    PROVE  Tail(s) \in Seq(S) /\ <<Head(s)>> \o Tail(s) = s
<1>1. Tail(s) \in Seq(S) /\ Len(Tail(s)) = Len(s) - 1 /\ Head(s) = s[1]
      /\ \A i \in 1 .. Len(Tail(s)) : Tail(s)[i] = s[i + 1]
    BY HeadTailProperties
<1> DEFINE h == <<Head(s)>>
           t == Tail(s)
<1>2. Len(s) \in Nat /\ Len(s) >= 1 /\ Head(s) \in S
    BY <1>1
<1>3. h \in Seq(S) /\ Len(h) = 1 /\ h[1] = s[1]
    BY <1>1, <1>2
<1> HIDE DEF h, t
<1>4. t \in Seq(S) /\ Len(t) = Len(s) - 1 /\ \A i \in 1 .. Len(t) : t[i] = s[i + 1]
    BY <1>1 DEF t
<1>5. h \o t \in Seq(S) /\ Len(h \o t) = Len(s)
      /\ \A i \in 1 .. Len(s) : (h \o t)[i] = s[i]
    <2>1. h \o t \in Seq(S) /\ Len(h \o t) = Len(h) + Len(t)
        BY <1>3, <1>4, ConcatProperties
    <2>3. \A i \in 1 .. Len(h) + Len(t) :
                (h \o t)[i] = IF i <= Len(h) THEN h[i] ELSE t[i - Len(h)]
        <3>1. h \in Seq(S) /\ t \in Seq(S)
            BY <1>3, <1>4
        <3> QED
            BY <3>1, ConcatProperties, Zenon
    <2>2. ASSUME NEW i \in 1 .. Len(s) PROVE (h \o t)[i] = s[i]
        <3>1. CASE i = 1
            BY <1>2, <1>3, <1>4, <2>3, <3>1
        <3>2. CASE i # 1
            <4>1. i - 1 \in 1 .. Len(t) /\ (i - 1) + 1 = i /\ ~ (i <= 1)
                BY <1>2, <1>4, <3>2
            <4>2. i \in 1 .. Len(h) + Len(t) /\ ~ (i <= Len(h)) /\ i - Len(h) = i - 1
                BY <1>2, <1>3, <1>4, <4>1
            <4>3. (h \o t)[i] = t[i - Len(h)]
                BY <2>3, <4>2, Zenon
            <4> QED
                BY <1>4, <4>1, <4>2, <4>3
        <3> QED
            BY <3>1, <3>2
    <2> QED
        BY <1>2, <1>3, <1>4, <2>1, <2>2
<1>6. h \o t = s
    BY <1>5, SeqEqual
<1> QED
    BY <1>1, <1>6 DEF h, t

\* The topic is its owner's oldest: the process goes on.
Goes(L, key) ==
    LET own == L.own[L.topics[key].owner]
    IN  own # <<>> /\ Head(own) = key

Saved(L, key) == [key |-> key, topic |-> L.topics[key]]

\* What retiring a topic does, the coins apart.
LEMMA ExpireDoes ==
    ASSUME NEW X, IsRecord(X), NEW i, NEW key, Goes(X, key)
    PROVE  LET t == X.topics[key]
               Y == Credit(X, Reserve, t.balance)
               Z == ExpireTopic(X, i, key)
           IN  /\ Same(Y, Z, {"topics", "topic_list", "own", "joined", "rollback_topics"})
               /\ Z.topics = Without(Y.topics, key)
               /\ Z.topic_list = Tail(Y.topic_list)
               /\ Z.own = Put(Y.own, t.owner, Tail(Y.own[t.owner]))
               /\ Z.rollback_topics = Put(Y.rollback_topics, i,
                                          <<Saved(X, key)>> \o Y.rollback_topics[i])
<1> DEFINE t == X.topics[key]
           Y == Credit(X, Reserve, t.balance)
           Z == ExpireTopic(X, i, key)
           v == Saved(X, key)
           J == [a \in DOMAIN Y.joined |->
                    IF a \in Members(t) THEN RemoveFirst(Y.joined[a], key) ELSE Y.joined[a]]
<1>1. Z = [Y EXCEPT !.topics     = Without(@, key),
                    !.topic_list = Tail(@),
                    !.own[t.owner] = Tail(@),
                    !.joined = J,
                    !.rollback_topics[i] = <<v>> \o @]
    <2>1. IsRecord(Y)
        BY CreditIs DEF Same
    <2> DEFINE G(j) == [a \in DOMAIN j |-> IF a \in Members(t) THEN RemoveFirst(j[a], key) ELSE j[a]]
    <2>2. Z = [Y EXCEPT !.topics     = Without(@, key),
                        !.topic_list = Tail(@),
                        !.own[t.owner] = Tail(@),
                        !.joined = G(@),
                        !.rollback_topics[i] = <<v>> \o @]
        BY DEF ExpireTopic, Goes, Saved
    <2>3. J = G(Y.joined)
        OBVIOUS
    <2> HIDE DEF Y, Z, t, v, J, G
    <2> QED
        BY <2>1, <2>2, <2>3 DEF IsRecord, Fields
<1>2. IsRecord(Y)
    BY CreditIs DEF Same
<1> HIDE DEF Y, Z, t, v, J
<1>3. /\ Same(Y, Z, {"topics", "topic_list", "own", "joined", "rollback_topics"})
      /\ Z.topics = Without(Y.topics, key)
      /\ Z.topic_list = Tail(Y.topic_list)
      /\ Z.own = Put(Y.own, t.owner, Tail(Y.own[t.owner]))
      /\ Z.rollback_topics = Put(Y.rollback_topics, i, <<v>> \o Y.rollback_topics[i])
    BY <1>1, <1>2 DEF Same, IsRecord, Fields, Put
<1> QED
    BY <1>3 DEF Y, Z, t, v

\* And bringing it back.
LEMMA RestoreDoes ==
    ASSUME NEW X, IsRecord(X), NEW saved
    PROVE  LET t == saved.topic
               Y == Credit(X, Reserve, 0 - t.balance)
               Z == RestoreTopic(X, saved)
           IN  /\ Same(Y, Z, {"topics", "topic_list", "own", "joined"})
               /\ Z.topics = With(Y.topics, saved.key, t)
               /\ Z.topic_list = <<saved.key>> \o Y.topic_list
               /\ Z.own = Put(Y.own, t.owner, <<saved.key>> \o Y.own[t.owner])
<1> DEFINE t == saved.topic
           k == saved.key
           Y == Credit(X, Reserve, 0 - t.balance)
           Z == RestoreTopic(X, saved)
           J == [a \in DOMAIN Y.joined |->
                    IF a \in Members(t) THEN <<k>> \o Y.joined[a] ELSE Y.joined[a]]
<1>1. Z = [Y EXCEPT !.topics     = With(@, k, t),
                    !.topic_list = <<k>> \o @,
                    !.own[t.owner] = <<k>> \o @,
                    !.joined = J]
    <2>1. IsRecord(Y)
        BY CreditIs DEF Same
    <2> DEFINE G(j) == [a \in DOMAIN j |-> IF a \in Members(t) THEN <<k>> \o j[a] ELSE j[a]]
    <2>2. Z = [Y EXCEPT !.topics     = With(@, k, t),
                        !.topic_list = <<k>> \o @,
                        !.own[t.owner] = <<k>> \o @,
                        !.joined = G(@)]
        BY DEF RestoreTopic
    <2>3. J = G(Y.joined)
        OBVIOUS
    <2> HIDE DEF Y, Z, t, k, J, G
    <2> QED
        BY <2>1, <2>2, <2>3 DEF IsRecord, Fields
<1>2. IsRecord(Y)
    BY CreditIs DEF Same
<1> HIDE DEF Y, Z, t, k, J
<1>3. /\ Same(Y, Z, {"topics", "topic_list", "own", "joined"})
      /\ Z.topics = With(Y.topics, k, t)
      /\ Z.topic_list = <<k>> \o Y.topic_list
      /\ Z.own = Put(Y.own, t.owner, <<k>> \o Y.own[t.owner])
    BY <1>1, <1>2 DEF Same, IsRecord, Fields, Put
<1> QED
    BY <1>3 DEF Y, Z, t, k

\* It does to the cores of two ledgers the same.
LEMMA RestoreAlike ==
    ASSUME NEW L, Shaped(L), NEW M, Shaped(M), Alike(L, M), NEW saved,
           TopicFields \subseteq DOMAIN saved.topic
    PROVE  /\ Keeps(L, RestoreTopic(L, saved))
           /\ Alike(RestoreTopic(L, saved), RestoreTopic(M, saved))
<1> DEFINE t == saved.topic
           k == saved.key
           LY == Credit(L, Reserve, 0 - t.balance)
           MY == Credit(M, Reserve, 0 - t.balance)
           LZ == RestoreTopic(L, saved)
           MZ == RestoreTopic(M, saved)
           Does(Y, Z) ==
                /\ Same(Y, Z, {"topics", "topic_list", "own", "joined"})
                /\ Z.topics = With(Y.topics, k, t)
                /\ Z.topic_list = <<k>> \o Y.topic_list
                /\ Z.own = Put(Y.own, t.owner, <<k>> \o Y.own[t.owner])
<1>1. Keeps(L, LY) /\ Keeps(M, MY) /\ Alike(LY, MY)
    BY CreditAlike, AlikeIs
<1>2. Does(LY, LZ) /\ Does(MY, MZ)
    BY RestoreDoes DEF Shaped
<1>3. TopicFields \subseteq DOMAIN t
    OBVIOUS
<1> HIDE DEF LY, MY, LZ, MZ, t, k
<1>4. /\ ShapedTopics(LY.topics) /\ ShapedTopics(MY.topics)
      /\ BareAll(LY.topics) = BareAll(MY.topics)
    BY <1>1 DEF Keeps, Shaped, Alike
<1>5. /\ ShapedTopics(LZ.topics) /\ BareAll(LZ.topics) = BareAll(MZ.topics)
    BY <1>2, <1>3, <1>4, BareWith
<1>6. /\ LY.referrer = MY.referrer /\ LY.name = MY.name /\ LY.by_id = MY.by_id
      /\ LY.balance = MY.balance /\ LY.own = MY.own /\ LY.topic_list = MY.topic_list
    BY <1>1 DEF Alike
<1>7. Alike(LZ, MZ)
    BY <1>2, <1>5, <1>6 DEF Same, Fields, Alike
<1>8. Keeps(L, LZ)
    BY <1>1, <1>2, <1>5 DEF Same, Fields, Keeps, Shaped
<1> QED
    BY <1>7, <1>8 DEF LZ, MZ

\* The first topic of the list goes: its coins are the reserve fund's. It
\* comes back without a trace.
LEMMA TopicRetired ==
    ASSUME NEW L, Shaped(L), IsBook(L), L.topic_list # <<>>, NEW i,
           Goes(L, Head(L.topic_list))
    PROVE  LET k == Head(L.topic_list)
               M == ExpireTopic(L, i, k)
           IN  /\ IsBook(M) /\ Coins(M) = Coins(L) /\ Shaped(M)
               /\ M.topic_list = Tail(L.topic_list) /\ M.referrer = L.referrer
               /\ M.sane = L.sane /\ M.rollback_txs = L.rollback_txs
               /\ M.rollback_topics =
                    Put(L.rollback_topics, i, <<Saved(L, k)>> \o L.rollback_topics[i])
               /\ TopicFields \subseteq DOMAIN Saved(L, k).topic
               /\ Alike(RestoreTopic(M, Saved(L, k)), L)
<1> DEFINE k == Head(L.topic_list)
           A == DOMAIN L.referrer
           D == A \cup {Reserve}
           T == BareAll(L.topics)
           t == L.topics[k]
           n == t.balance
           o == t.owner
           Y == Credit(L, Reserve, n)
           M == ExpireTopic(L, i, k)
           v == Saved(L, k)
           W == Credit(M, Reserve, 0 - n)
           R == RestoreTopic(M, v)
<1>1. Live(A, T, L.topic_list) /\ L.balance \in [D -> Nat] /\ L.own \in [A -> Seq(Hash)]
      /\ IsRecord(L) /\ ShapedTopics(L.topics)
    BY DEF IsBook, People, Shaped
<1>2. /\ k \in DOMAIN T
      /\ Live(A, Without(T, k), Tail(L.topic_list))
      /\ Total(TopicCoins(Without(T, k))) = Total(TopicCoins(T)) - T[k].balance
    <2> HIDE DEF A, T
    <2> QED
        BY <1>1, LiveWithout
<1>3. k \in DOMAIN L.topics /\ T[k] = Bare(t) /\ IsFcn(L.topics) /\ TopicFields \subseteq DOMAIN t
    BY <1>1, <1>2, BareIs DEF ShapedTopics
<1>4. T[k].balance = n /\ n \in Nat /\ o \in A
    <2>1. T[k] \in BareTopic(A)
        BY <1>1, <1>2 DEF Live
    <2>2. T[k].balance = n /\ T[k].owner = o
        BY <1>3 DEF Bare
    <2> HIDE DEF T, n, o
    <2> QED
        BY <2>1, <2>2 DEF BareTopic
<1>5. L.own[o] # <<>> /\ Head(L.own[o]) = k /\ Goes(L, k)
    BY DEF Goes
<1> HIDE DEF k
<1>6. /\ Same(Y, M, {"topics", "topic_list", "own", "joined", "rollback_topics"})
      /\ M.topics = Without(Y.topics, k)
      /\ M.topic_list = Tail(Y.topic_list)
      /\ M.own = Put(Y.own, o, Tail(Y.own[o]))
      /\ M.rollback_topics = Put(Y.rollback_topics, i, <<v>> \o Y.rollback_topics[i])
    BY <1>1, <1>5, ExpireDoes
<1> HIDE DEF M
<1>7. v.key = k /\ v.topic = t
    BY DEF Saved
<1> HIDE DEF v
<1>8. /\ Same(W, R, {"topics", "topic_list", "own", "joined"})
      /\ R.topics = With(W.topics, k, t)
      /\ R.topic_list = <<k>> \o W.topic_list
      /\ R.own = Put(W.own, o, <<k>> \o W.own[o])
    <2>1. IsRecord(M)
        BY <1>6 DEF Same
    <2> DEFINE X == Credit(M, Reserve, 0 - v.topic.balance)
    <2>2. /\ Same(X, R, {"topics", "topic_list", "own", "joined"})
          /\ R.topics = With(X.topics, v.key, v.topic)
          /\ R.topic_list = <<v.key>> \o X.topic_list
          /\ R.own = Put(X.own, v.topic.owner, <<v.key>> \o X.own[v.topic.owner])
        <3> HIDE DEF t
        <3> QED
            BY <2>1, RestoreDoes
    <2>3. X = W /\ v.topic.owner = o
        BY <1>7
    <2> HIDE DEF X, R, W, o, t
    <2> QED
        BY <1>7, <2>2, <2>3
<1>9. Same(M, W, {"balance"}) /\ W.balance = Plus(M.balance, Reserve, 0 - n)
    BY <1>6, CreditIs DEF Same
<1> HIDE DEF R, W
<1>10. /\ Same(L, Y, {"balance"}) /\ IsBook(Y) /\ Coins(Y) = Coins(L) + n
       /\ Y.balance = Plus(L.balance, Reserve, n)
    <2>1. L.balance[Reserve] + n >= 0 /\ n \in Int
        <3>1. L.balance[Reserve] \in Nat
            BY <1>1
        <3> HIDE DEF n
        <3> QED
            BY <1>4, <3>1
    <2> HIDE DEF n
    <2> QED
        BY <2>1, CreditBook, CreditIs DEF Shaped
<1> HIDE DEF Y, T, t, n, o
<1>11. /\ Y.referrer = L.referrer /\ Y.name = L.name /\ Y.by_id = L.by_id /\ Y.own = L.own
       /\ Y.topics = L.topics /\ Y.topic_list = L.topic_list
       /\ Y.sane = L.sane /\ Y.rollback_txs = L.rollback_txs
       /\ Y.rollback_topics = L.rollback_topics
    BY <1>10 DEF Same, Fields
<1>12. /\ M.referrer = L.referrer /\ M.name = L.name /\ M.by_id = L.by_id
       /\ M.balance = Y.balance /\ M.sane = L.sane /\ M.rollback_txs = L.rollback_txs
       /\ M.topics = Without(L.topics, k) /\ M.topic_list = Tail(L.topic_list)
       /\ M.own = Put(L.own, o, Tail(L.own[o]))
    BY <1>6, <1>11 DEF Same, Fields
<1>13. ShapedTopics(M.topics) /\ BareAll(M.topics) = Without(T, k)
    BY <1>1, <1>12, BareWith DEF T
<1>14. Shaped(M)
    BY <1>6, <1>13 DEF Same, Shaped
<1>15. Tail(L.own[o]) \in Seq(Hash) /\ <<k>> \o Tail(L.own[o]) = L.own[o]
    <2>1. L.own[o] \in Seq(Hash)
        BY <1>1, <1>4
    <2> QED
        BY <1>5, <2>1, HeadBack
<1>16. IsBook(M)
    <2>1. M.own \in [A -> Seq(Hash)]
        BY <1>1, <1>12, <1>15 DEF Put
    <2>2. M.balance \in [D -> Nat]
        BY <1>10, <1>11, <1>12 DEF IsBook
    <2> QED
        BY <1>2, <1>12, <1>13, <2>1, <2>2 DEF IsBook, People
<1>17. Coins(M) = Coins(L)
    <2>1. Total(TopicCoins(T)) \in Int /\ Total(Y.balance) \in Int /\ Coins(L) \in Int
        BY <1>10, CoinsAre DEF T
    <2>2. Coins(Y) = Total(Y.balance) + Total(TopicCoins(T))
        BY <1>11 DEF Coins, T
    <2>3. Coins(M) = Total(Y.balance) + Total(TopicCoins(Without(T, k)))
        BY <1>12, <1>13 DEF Coins
    <2> QED
        BY <1>2, <1>4, <1>10, <2>1, <2>2, <2>3
<1>18. /\ W.referrer = L.referrer /\ W.name = L.name /\ W.by_id = L.by_id
       /\ W.topics = M.topics /\ W.topic_list = M.topic_list /\ W.own = M.own
    BY <1>9, <1>12 DEF Same, Fields
<1>19. /\ R.referrer = L.referrer /\ R.name = L.name /\ R.by_id = L.by_id
       /\ R.balance = W.balance
    BY <1>8, <1>18 DEF Same, Fields
<1>20. R.balance = L.balance
    <2> DEFINE j == 0 - n
               f == L.balance
    <2>1. {n, j} \subseteq Int /\ n + j = 0 /\ f \in [D -> Int]
        BY <1>1, <1>4
    <2>2. R.balance = Plus(Plus(f, Reserve, n), Reserve, j)
        BY <1>9, <1>10, <1>12, <1>19
    <2> HIDE DEF j, f, D
    <2>3. R.balance = f
        BY <2>1, <2>2, TakenBackAtOnce
    <2> QED
        BY <2>3 DEF f
<1>21. R.topics = L.topics
    <2>1. R.topics = With(Without(L.topics, k), k, L.topics[k])
        BY <1>8, <1>12, <1>18 DEF t
    <2> QED
        BY <1>3, <2>1, WithWithout
<1>22. R.topic_list = L.topic_list
    <2>1. L.topic_list \in Seq(Hash)
        BY <1>1 DEF Live
    <2>2. <<k>> \o Tail(L.topic_list) = L.topic_list
        BY <2>1, HeadBack DEF k
    <2> QED
        BY <1>8, <1>12, <1>18, <2>2
<1>23. R.own = L.own
    <2> DEFINE s == L.own[o]
    <2>1. R.own = Put(Put(L.own, o, Tail(s)), o, <<k>> \o Put(L.own, o, Tail(s))[o])
        BY <1>8, <1>12, <1>18
    <2>2. IsFcn(L.own) /\ o \in DOMAIN L.own
        BY <1>1, <1>4 DEF IsFcn
    <2>3. Put(L.own, o, Tail(s))[o] = Tail(s)
        BY <2>2, PutBack
    <2>4. R.own = Put(Put(L.own, o, Tail(s)), o, s)
        BY <1>15, <2>1, <2>3
    <2> QED
        BY <2>2, <2>4, PutBack
<1>24. Alike(R, L)
    BY <1>19, <1>20, <1>21, <1>22, <1>23 DEF Alike
<1>25. M.rollback_topics = Put(L.rollback_topics, i, <<v>> \o L.rollback_topics[i])
    BY <1>6, <1>11
<1>26. TopicFields \subseteq DOMAIN v.topic
    BY <1>3, <1>7
<1> QED
    BY <1>12, <1>14, <1>16, <1>17, <1>24, <1>25, <1>26 DEF M, k, v, R

\* In whichever ledger of the core retiring it left.
LEMMA TopicRestored ==
    ASSUME NEW L, Shaped(L), IsBook(L), L.topic_list # <<>>, NEW i,
           Goes(L, Head(L.topic_list)),
           NEW K, Shaped(K), Core(K) = Core(ExpireTopic(L, i, Head(L.topic_list)))
    PROVE  LET R == RestoreTopic(K, Saved(L, Head(L.topic_list)))
           IN  Keeps(K, R) /\ Core(R) = Core(L)
<1> DEFINE k == Head(L.topic_list)
           M == ExpireTopic(L, i, k)
           v == Saved(L, k)
<1>1. Shaped(M) /\ TopicFields \subseteq DOMAIN v.topic /\ Alike(RestoreTopic(M, v), L)
    BY TopicRetired
<1>2. Alike(K, M)
    BY CoreAlike
<1> HIDE DEF k, M, v
<1>3. Keeps(K, RestoreTopic(K, v)) /\ Alike(RestoreTopic(K, v), RestoreTopic(M, v))
    BY <1>1, <1>2, RestoreAlike
<1>4. Alike(RestoreTopic(K, v), L)
    BY <1>1, <1>3, AlikeIs
<1> QED
    BY <1>3, <1>4, CoreAlike DEF v, k

-----------------------------------------------------------------------------
(* A sequence of transactions, and of retired topics, undone.              *)

\* Undoing the transactions d leads from any ledger of core D to core C.
UndoesTo(C, D, d) ==
    \A K : Shaped(K) /\ Core(K) = D =>
        Keeps(K, UndoAll(K, d)) /\ Core(UndoAll(K, d)) = C

\* The loop of rollback over no transaction.
LEMMA UndoNone == ASSUME NEW L PROVE UndoAll(L, <<>>) = L
<1>1. Reverse(<<>>) = <<>>
    BY DEF Reverse
<1>2. UndoLoop!Fold(0, L, <<>>) = FoldLeft(Undo, L, <<>>)
    BY DEF UndoLoop!Fold, UndoLoop!MapThenFoldSet, UndoLoop!Greatest,
           FoldLeft, MapThenFoldSet, Max, UndoTurn
<1> QED
    BY <1>1, <1>2, UndoLoop!FoldNone DEF UndoAll

\* It undoes the last transaction first.
LEMMA UndoLast ==
    ASSUME NEW L, NEW d, IsList(d), NEW tx
    PROVE  UndoAll(L, Append(d, tx)) = UndoAll(Undo(L, tx), d)
<1> DEFINE e == Append(d, tx)
           r == Reverse(d)
           t == Reverse(e)
           n == Len(d)
<1>1. /\ n \in Nat /\ DOMAIN d = 1 .. n /\ IsList(e) /\ Len(e) = n + 1 /\ DOMAIN e = 1 .. n + 1
      /\ (\A k \in 1 .. n : e[k] = d[k]) /\ e[n + 1] = tx
    BY ListIs, AppendIs
<1>2. r = [k \in 1 .. n |-> d[n - k + 1]] /\ Len(r) = n /\ DOMAIN r = 1 .. n
    <2>1. r = [k \in 1 .. n |-> d[n - k + 1]]
        BY DEF Reverse
    <2>2. Len(r) = Len(d)
        BY ReverseIs
    <2> QED
        BY <2>1, <2>2
<1>3. t = [k \in 1 .. n + 1 |-> e[(n + 1) - k + 1]] /\ Len(t) = n + 1 /\ DOMAIN t = 1 .. n + 1
    <2>1. t = [k \in 1 .. Len(e) |-> e[Len(e) - k + 1]]
        BY DEF Reverse
    <2>2. Len(t) = Len(e)
        BY <1>1, ReverseIs
    <2> HIDE DEF e
    <2> QED
        BY <1>1, <2>1, <2>2
<1> HIDE DEF e, r, t
<1>4. t[1] = tx
    BY <1>1, <1>3
<1>5. ASSUME NEW i \in 1 .. n PROVE t[i + 1] = r[i]
    <2>1. i + 1 \in 1 .. n + 1 /\ (n + 1) - (i + 1) + 1 = n - i + 1 /\ n - i + 1 \in 1 .. n
        BY <1>1
    <2>2. t[i + 1] = e[n - i + 1] /\ r[i] = d[n - i + 1]
        BY <1>2, <1>3, <2>1
    <2> QED
        BY <1>1, <2>1, <2>2
<1>6. UndoLoop!Fold(0, L, t) = UndoLoop!Fold(0, UndoTurn(0, L, t[1]), r)
    <2>1. /\ Len(r) \in Nat /\ DOMAIN r = 1 .. Len(r) /\ Len(t) = Len(r) + 1
          /\ DOMAIN t = 1 .. Len(t) /\ \A i \in 1 .. Len(r) : t[i + 1] = r[i]
        BY <1>1, <1>2, <1>3, <1>5
    <2> QED
        BY <2>1, UndoLoop!FoldCons
<1>7. /\ UndoLoop!Fold(0, L, t) = UndoAll(L, e)
      /\ UndoLoop!Fold(0, Undo(L, tx), r) = UndoAll(Undo(L, tx), d)
    BY DEF UndoLoop!Fold, UndoLoop!MapThenFoldSet, UndoLoop!Greatest,
           FoldLeft, MapThenFoldSet, Max, UndoTurn, UndoAll, r, t
<1> QED
    BY <1>4, <1>6, <1>7 DEF UndoTurn, e

\* What the transactions d made of the book L: the fees of each went half to
\* the patrons and half to the miner to come, and undoing them brings L back.
Settled(L, M, d) ==
    /\ Shaped(L) /\ IsBook(L) /\ Keeps(L, M) /\ IsBook(M) /\ Coins(M) = Coins(L) - Len(d)
    /\ DOMAIN L.referrer \subseteq DOMAIN M.referrer
    /\ UndoesTo(Core(L), Core(M), d)

\* Before the first.
LEMMA SettledNone == ASSUME NEW L, Shaped(L), IsBook(L) PROVE Settled(L, L, <<>>)
<1>1. Coins(L) = Coins(L) - Len(<<>>)
    <2>1. Coins(L) \in Int
        BY CoinsAre
    <2> QED
        BY <2>1
<1>2. \A K : Shaped(K) => Keeps(K, K) /\ UndoAll(K, <<>>) = K
    BY UndoNone DEF Keeps
<1>3. UndoesTo(Core(L), Core(L), <<>>)
    BY <1>2 DEF UndoesTo
<1> QED
    BY <1>1, <1>2, <1>3 DEF Settled

\* No transaction that is applied takes an account away.
LEMMA PeopleStay ==
    ASSUME NEW L, Shaped(L), NEW tx, NEW id,
           tx.type \in {"reg", "send", "topic", "reply", "reward"}
    PROVE  DOMAIN L.referrer \subseteq DOMAIN Apply(L, tx, id).referrer
<1> DEFINE F == PayFee(L, tx.from)
           M == Apply(L, tx, id)
<1>1. IsRecord(F) /\ F.referrer = L.referrer
    BY TwoCredits DEF PayFee, Same, Fields, Shaped
<1>2. \/ M = Note(DoReg(F, tx), tx.id) \/ M = Note(DoSend(F, tx), tx.id)
      \/ M = Note(DoTopic(F, tx, id), tx.id) \/ M = Note(DoReply(F, tx), tx.id)
      \/ M = Note(DoReward(F, tx), tx.id)
    BY DEF Apply, Note
<1> HIDE DEF F
<1>3. /\ DOMAIN F = Fields /\ DoSend(F, tx).referrer = F.referrer
      /\ DoReg(F, tx).referrer = With(F.referrer, tx.who, tx.from)
    BY <1>1 DEF IsRecord, Fields, DoReg, DoSend, Move, Credit
<1>4. DoTopic(F, tx, id).referrer = F.referrer
    <2> DEFINE C == Credit(F, tx.from, 0 - tx.amount)
               t == [owner |-> tx.from, block_id |-> id, balance |-> tx.amount,
                     members |-> <<>>, replies |-> <<>>]
    <2>1. DOMAIN C = Fields /\ C.referrer = F.referrer
        BY <1>1, CreditIs DEF Same, IsRecord, Fields
    <2>2. DoTopic(F, tx, id) =
            [C EXCEPT !.own[tx.from] = Append(@, tx.id), !.topic_list = Append(@, tx.id),
                      !.topics = With(@, tx.id, t)]
        BY DEF DoTopic
    <2> HIDE DEF C, t
    <2> QED
        BY <2>1, <2>2 DEF Fields
<1>5. DoReply(F, tx).referrer = F.referrer
    BY <1>1 DEF IsRecord, Fields, DoReply
<1>6. DoReward(F, tx).referrer = F.referrer
    BY <1>1 DEF IsRecord, Fields, DoReward, Credit
<1>7. \A X, i : DOMAIN X = Fields => Note(X, i).referrer = X.referrer
    BY DEF Note, Fields
<1>8. /\ DOMAIN DoReg(F, tx) = Fields /\ DOMAIN DoSend(F, tx) = Fields
      /\ DOMAIN DoTopic(F, tx, id) = Fields /\ DOMAIN DoReply(F, tx) = Fields
      /\ DOMAIN DoReward(F, tx) = Fields
    BY <1>3 DEF DoReg, DoSend, Move, DoTopic, DoReply, DoReward, Credit
<1>9. DOMAIN F.referrer \subseteq DOMAIN With(F.referrer, tx.who, tx.from)
    BY DEF With
<1> QED
    BY <1>1, <1>2, <1>3, <1>4, <1>5, <1>6, <1>7, <1>8, <1>9

\* One more that CanApply lets through.
LEMMA SettledOne ==
    ASSUME NEW L, NEW M, NEW d, IsList(d), Settled(L, M, d),
           NEW tx, IsTx(tx), NEW id \in Int, CanApply(M, tx, id)
    PROVE  Settled(L, Apply(M, tx, id), Append(d, tx))
<1> DEFINE N == Apply(M, tx, id)
           e == Append(d, tx)
<1>1. Shaped(L) /\ IsBook(L) /\ Shaped(M) /\ Keeps(L, M) /\ IsBook(M)
    BY DEF Settled, Keeps
<1>2. IsBook(N) /\ Coins(N) = Coins(M) - 1
    BY <1>1, ApplyBook
<1>3. Keeps(M, N)
    BY <1>1, CoreUndone
<1>4. \A K : Shaped(K) /\ Core(K) = Core(N) =>
        Keeps(K, Undo(K, tx)) /\ Core(Undo(K, tx)) = Core(M)
    BY <1>1, CoreUndone
<1>5. DOMAIN M.referrer \subseteq DOMAIN N.referrer
    BY <1>1, PeopleStay DEF IsTx
<1>6. Len(e) = Len(d) + 1 /\ Len(d) \in Nat
    BY AppendIs, ListIs
<1>7. \A K : UndoAll(K, e) = UndoAll(Undo(K, tx), d)
    BY UndoLast
<1> HIDE DEF N, e
<1>8. Coins(N) = Coins(L) - Len(e)
    <2>1. Coins(M) \in Int /\ Coins(M) = Coins(L) - Len(d)
        BY <1>1, CoinsAre DEF Settled
    <2>2. Coins(L) \in Int
        BY CoinsAre DEF Settled
    <2> QED
        BY <1>2, <1>6, <2>1, <2>2
<1>9. ASSUME NEW K, Shaped(K), Core(K) = Core(N)
      PROVE  Keeps(K, UndoAll(K, e)) /\ Core(UndoAll(K, e)) = Core(L)
    <2> DEFINE P == Undo(K, tx)
    <2>1. Keeps(K, P) /\ Core(P) = Core(M)
        BY <1>4, <1>9
    <2>2. Keeps(P, UndoAll(P, d)) /\ Core(UndoAll(P, d)) = Core(L)
        <3>1. Shaped(P)
            BY <2>1 DEF Keeps
        <3> HIDE DEF P
        <3> QED
            BY <2>1, <3>1 DEF Settled, UndoesTo
    <2> HIDE DEF P
    <2>3. UndoAll(K, e) = UndoAll(P, d)
        BY <1>7 DEF P
    <2> QED
        BY <2>1, <2>2, <2>3 DEF Keeps
<1>10. UndoesTo(Core(L), Core(N), e)
    BY <1>9 DEF UndoesTo
<1>11. Keeps(L, N) /\ DOMAIN L.referrer \subseteq DOMAIN N.referrer
    BY <1>1, <1>3, <1>5 DEF Keeps, Settled
<1> QED
    BY <1>1, <1>2, <1>8, <1>10, <1>11 DEF Settled, N, e

\* Bringing the topics of saved back leads from any ledger of core D to core C.
BringsTo(C, D, saved) ==
    \A K : Shaped(K) /\ Core(K) = D =>
        /\ Keeps(K, FoldLeft(RestoreTopic, K, saved))
        /\ Core(FoldLeft(RestoreTopic, K, saved)) = C

\* The loop that brings no topic back.
LEMMA RestoreNone == ASSUME NEW L PROVE FoldLeft(RestoreTopic, L, <<>>) = L
<1>1. RestoreLoop!Fold(0, L, <<>>) = FoldLeft(RestoreTopic, L, <<>>)
    BY DEF RestoreLoop!Fold, RestoreLoop!MapThenFoldSet,
           RestoreLoop!Greatest, FoldLeft, MapThenFoldSet, Max, RestoreTurn
<1> QED
    BY <1>1, RestoreLoop!FoldNone

\* The topic that was retired last is brought back first.
LEMMA RestoreFirst ==
    ASSUME NEW L, NEW s, IsList(s), NEW v
    PROVE  FoldLeft(RestoreTopic, L, <<v>> \o s) = FoldLeft(RestoreTopic, RestoreTopic(L, v), s)
<1> DEFINE t == <<v>> \o s
<1>1. /\ Len(s) \in Nat /\ DOMAIN s = 1 .. Len(s) /\ Len(t) = Len(s) + 1 /\ t[1] = v
      /\ IsList(t) /\ \A k \in 1 .. Len(s) : t[k + 1] = s[k]
    BY ListIs, PrependIs
<1> HIDE DEF t
<1>2. DOMAIN t = 1 .. Len(t)
    BY <1>1, ListIs
<1>3. RestoreLoop!Fold(0, L, t) = RestoreLoop!Fold(0, RestoreTurn(0, L, t[1]), s)
    BY <1>1, <1>2, RestoreLoop!FoldCons
<1>4. /\ RestoreLoop!Fold(0, L, t) = FoldLeft(RestoreTopic, L, t)
      /\ RestoreLoop!Fold(0, RestoreTopic(L, v), s)
            = FoldLeft(RestoreTopic, RestoreTopic(L, v), s)
    BY DEF RestoreLoop!Fold, RestoreLoop!MapThenFoldSet,
           RestoreLoop!Greatest, FoldLeft, MapThenFoldSet, Max, RestoreTurn
<1> QED
    BY <1>1, <1>3, <1>4 DEF RestoreTurn, t

\* Of the topics of M the first n expired, and were kept at index i.
Aged(M, K, i, n) ==
    /\ Shaped(M) /\ Shaped(K) /\ IsBook(K) /\ Coins(K) = Coins(M)
    /\ K.referrer = M.referrer /\ K.sane = M.sane /\ K.rollback_txs = M.rollback_txs
    /\ Len(K.topic_list) = Len(M.topic_list) - n
    /\ \A k \in 1 .. Len(K.topic_list) : K.topic_list[k] = M.topic_list[n + k]
    /\ i \in DOMAIN K.rollback_topics
    /\ DOMAIN K.rollback_topics = DOMAIN M.rollback_topics
    /\ \A k \in DOMAIN M.rollback_topics \ {i} :
          K.rollback_topics[k] = M.rollback_topics[k]
    /\ IsList(K.rollback_topics[i]) /\ BringsTo(Core(M), Core(K), K.rollback_topics[i])

\* Before the first.
LEMMA AgedNone ==
    ASSUME NEW M, Shaped(M), IsBook(M), NEW i \in DOMAIN M.rollback_topics,
           M.rollback_topics[i] = <<>>, IsList(M.topic_list)
    PROVE  Aged(M, M, i, 0)
<1>1. /\ Len(M.topic_list) = Len(M.topic_list) - 0
      /\ \A k \in 1 .. Len(M.topic_list) : 0 + k = k
    BY ListIs
<1>2. \A K : Shaped(K) => Keeps(K, K) /\ FoldLeft(RestoreTopic, K, <<>>) = K
    BY RestoreNone DEF Keeps
<1>3. BringsTo(Core(M), Core(M), <<>>) /\ IsList(<<>>)
    BY <1>2 DEF BringsTo, IsList
<1> QED
    BY <1>1, <1>3 DEF Aged

\* One more, which the list of its owner agrees to: if it does not, sane
\* turns false.
LEMMA AgedOne ==
    ASSUME NEW M, NEW K, NEW i, NEW n \in Nat, Aged(M, K, i, n), n < Len(M.topic_list),
           Len(M.topic_list) \in Nat,
           ExpireTopic(K, i, M.topic_list[n + 1]).sane
    PROVE  Aged(M, ExpireTopic(K, i, M.topic_list[n + 1]), i, n + 1)
<1> DEFINE k == Head(K.topic_list)
           N == ExpireTopic(K, i, k)
           v == Saved(K, k)
<1>1. K.topic_list \in Seq(Hash) /\ Len(K.topic_list) \in Nat /\ Len(K.topic_list) >= 1
    BY DEF Aged, IsBook, Live
<1>2. K.topic_list # <<>> /\ M.topic_list[n + 1] = k
    <2>1. K.topic_list # <<>> /\ 1 \in 1 .. Len(K.topic_list)
        BY <1>1
    <2>2. K.topic_list[1] = M.topic_list[n + 1]
        BY <2>1 DEF Aged
    <2> QED
        BY <1>1, <2>1, <2>2, HeadTailProperties
<1>3. Goes(K, k)
    <2> HIDE DEF k
    <2>1. "sane" \in DOMAIN K
        BY DEF Aged, Shaped, IsRecord, Fields
    <2>2. ~ Goes(K, k) => N = [K EXCEPT !.sane = FALSE]
        BY DEF Goes, ExpireTopic
    <2> QED
        BY <1>2, <2>1, <2>2
<1>4. /\ Shaped(K) /\ IsBook(K)
    BY DEF Aged
<1>5. /\ IsBook(N) /\ Coins(N) = Coins(K) /\ Shaped(N)
      /\ N.topic_list = Tail(K.topic_list) /\ N.referrer = K.referrer
      /\ N.sane = K.sane /\ N.rollback_txs = K.rollback_txs
      /\ N.rollback_topics = Put(K.rollback_topics, i, <<v>> \o K.rollback_topics[i])
    BY <1>2, <1>3, <1>4, TopicRetired
<1>6. ASSUME NEW X, Shaped(X), Core(X) = Core(N)
      PROVE  Keeps(X, RestoreTopic(X, v)) /\ Core(RestoreTopic(X, v)) = Core(K)
    BY <1>2, <1>3, <1>4, <1>6, TopicRestored
<1> HIDE DEF N, v, k
<1>7. /\ Len(N.topic_list) = Len(M.topic_list) - (n + 1)
      /\ \A j \in 1 .. Len(N.topic_list) : N.topic_list[j] = M.topic_list[(n + 1) + j]
    <2>1. /\ Len(N.topic_list) = Len(K.topic_list) - 1
          /\ \A j \in 1 .. Len(N.topic_list) : N.topic_list[j] = K.topic_list[j + 1]
        BY <1>1, <1>2, <1>5, HeadTailProperties
    <2>2. Len(K.topic_list) = Len(M.topic_list) - n
          /\ \A j \in 1 .. Len(K.topic_list) : K.topic_list[j] = M.topic_list[n + j]
        BY DEF Aged
    <2>3. \A j \in 1 .. Len(N.topic_list) :
             j + 1 \in 1 .. Len(K.topic_list) /\ n + (j + 1) = (n + 1) + j
        BY <1>1, <2>1
    <2>4. Len(N.topic_list) = Len(M.topic_list) - (n + 1)
        <3> DEFINE a == Len(N.topic_list)
                   b == Len(K.topic_list)
                   c == Len(M.topic_list)
        <3>1. a = b - 1 /\ b = c - n /\ c \in Nat
            BY <2>1, <2>2
        <3> HIDE DEF a, b, c
        <3>2. a = c - (n + 1)
            BY <3>1
        <3> QED
            BY <3>2 DEF a, c
    <2>5. ASSUME NEW j \in 1 .. Len(N.topic_list)
          PROVE  N.topic_list[j] = M.topic_list[(n + 1) + j]
        BY <2>1, <2>2, <2>3
    <2> QED
        BY <2>4, <2>5
<1>8. /\ i \in DOMAIN N.rollback_topics
      /\ DOMAIN N.rollback_topics = DOMAIN M.rollback_topics
      /\ \A j \in DOMAIN M.rollback_topics \ {i} : N.rollback_topics[j] = M.rollback_topics[j]
      /\ N.rollback_topics[i] = <<v>> \o K.rollback_topics[i]
    BY <1>5 DEF Aged, Put
<1>9. IsList(N.rollback_topics[i])
    BY <1>8, PrependIs DEF Aged
<1>10. BringsTo(Core(M), Core(N), N.rollback_topics[i])
    <2> SUFFICES ASSUME NEW X, Shaped(X), Core(X) = Core(N)
                 PROVE  LET R == FoldLeft(RestoreTopic, X, N.rollback_topics[i])
                        IN  Keeps(X, R) /\ Core(R) = Core(M)
        BY DEF BringsTo
    <2> DEFINE P == RestoreTopic(X, v)
               s == K.rollback_topics[i]
    <2>1. Keeps(X, P) /\ Core(P) = Core(K) /\ Shaped(P)
        BY <1>6 DEF Keeps
    <2>2. FoldLeft(RestoreTopic, X, N.rollback_topics[i]) = FoldLeft(RestoreTopic, P, s)
        <3>1. IsList(s) /\ N.rollback_topics[i] = <<v>> \o s
            BY <1>8 DEF Aged
        <3> HIDE DEF s
        <3>2. FoldLeft(RestoreTopic, X, <<v>> \o s) = FoldLeft(RestoreTopic, P, s)
            BY <3>1, RestoreFirst
        <3> QED
            BY <3>1, <3>2
    <2> HIDE DEF P, s
    <2>3. /\ Keeps(P, FoldLeft(RestoreTopic, P, s))
          /\ Core(FoldLeft(RestoreTopic, P, s)) = Core(M)
        BY <2>1 DEF Aged, BringsTo, s
    <2> QED
        BY <2>1, <2>2, <2>3 DEF Keeps
<1> QED
    BY <1>2, <1>7, <1>8, <1>9, <1>10, <1>5 DEF Aged, N

-----------------------------------------------------------------------------
(* The topics a block retires.                                             *)

ExpireTurn(i, K, key) == ExpireTopic(K, i, key)
ExpireLoop == INSTANCE FoldFacts WITH op <- ExpireTurn

ExpireEach(M, i, s) == FoldLeft(LAMBDA K, key : ExpireTopic(K, i, key), M, s)

\* The topics that expire are the first of the list.
LEMMA ExpiredIs ==
    ASSUME NEW L, NEW id, IsList(L.topic_list)
    PROVE  /\ IsList(Expired(L, id)) /\ Len(Expired(L, id)) <= Len(L.topic_list)
           /\ \A k \in 1 .. Len(Expired(L, id)) : Expired(L, id)[k] = L.topic_list[k]
<1> DEFINE s == L.topic_list
           I == {k \in 1 .. Len(s) : L.topics[s[k]].block_id + LIFE >= id}
           young == IF I # {} THEN Min(I) ELSE 0
<1>1. Expired(L, id) = IF young = 0 THEN s ELSE SubSeq(s, 1, young - 1)
    BY DEF Expired, SelectInSeq
<1>2. Len(s) \in Nat
    BY ListIs
<1>3. I \subseteq 1 .. Len(s) /\ I \subseteq Nat
    BY <1>2
<1> HIDE DEF I
<1>4. young \in 0 .. Len(s)
    <2>1. CASE I # {}
        <3>1. Min(I) \in I
            BY <1>3, <2>1, SelectIs
        <3>2. young = Min(I) /\ Min(I) \in 1 .. Len(s)
            BY <1>3, <2>1, <3>1
        <3> HIDE DEF young
        <3> QED
            BY <1>2, <3>2
    <2>2. CASE I = {}
        BY <1>2, <2>2
    <2> QED
        BY <2>1, <2>2
<1> HIDE DEF young
<1>5. CASE young = 0
    BY <1>1, <1>2, <1>5
<1>6. CASE young # 0
    <2>1. young - 1 \in Nat /\ young - 1 \in Int /\ young - 1 <= Len(s)
        BY <1>2, <1>4, <1>6
    <2>2. /\ IsList(SubSeq(s, 1, young - 1)) /\ Len(SubSeq(s, 1, young - 1)) = young - 1
          /\ \A k \in 1 .. young - 1 : SubSeq(s, 1, young - 1)[k] = s[k]
        BY <2>1, PrefixIs
    <2> QED
        BY <1>1, <1>6, <2>1, <2>2
<1> QED
    BY <1>5, <1>6

\* Once sane is false it stays so.
LEMMA SaneStays ==
    ASSUME NEW K, "sane" \in DOMAIN K, NEW i, NEW key
    PROVE  LET N == ExpireTopic(K, i, key)
           IN  "sane" \in DOMAIN N /\ (N.sane => K.sane)
<1> DEFINE N == ExpireTopic(K, i, key)
           t == K.topics[key]
           C == Credit(K, Reserve, t.balance)
           saved == [key |-> key, topic |-> t]
<1>1. CASE N = [K EXCEPT !.sane = FALSE]
    BY <1>1
<1>2. CASE N = [C EXCEPT
            !.topics     = Without(@, key),
            !.topic_list = Tail(@),
            !.own[t.owner] = Tail(@),
            !.joined = [a \in DOMAIN @ |->
                           IF a \in Members(t) THEN RemoveFirst(@[a], key) ELSE @[a]],
            !.rollback_topics[i] = <<saved>> \o @]
    <2>1. DOMAIN C = DOMAIN K /\ C.sane = K.sane
        BY DEF Credit
    <2> HIDE DEF C, t, saved, N
    <2>2. DOMAIN N = DOMAIN C
        BY <1>2
    <2>3. N.sane = C.sane
        BY <1>2, <2>1
    <2> QED
        BY <2>1, <2>2, <2>3 DEF N
<1> QED
    BY <1>1, <1>2 DEF ExpireTopic

\* The loop of proc_topic_expired over the first topics of the list: unless
\* the process exits, it leaves a book, with what brings the topics back.
LEMMA AgedAll ==
    ASSUME NEW M, NEW i \in DOMAIN M.rollback_topics, NEW s, IsList(s),
           Shaped(M), IsBook(M), M.rollback_topics[i] = <<>>, IsList(M.topic_list),
           Len(s) <= Len(M.topic_list), \A k \in 1 .. Len(s) : s[k] = M.topic_list[k]
    PROVE  LET F == ExpireEach(M, i, s)
           IN  "sane" \in DOMAIN F /\ (F.sane => Aged(M, F, i, Len(s)))
<1> DEFINE n == Len(s)
           F == ExpireEach(M, i, s)
           list == M.topic_list
<1>1. n \in Nat /\ DOMAIN s = 1 .. n /\ Len(list) \in Nat
    BY ListIs
<1>2. PICK run : ExpireLoop!IsRun(i, M, s, run) /\ ExpireLoop!Fold(i, M, s) = run[n]
    BY <1>1, ExpireLoop!FoldRuns
<1>3. ExpireLoop!Fold(i, M, s) = F
    BY DEF ExpireLoop!Fold, ExpireLoop!MapThenFoldSet, ExpireLoop!Greatest,
           FoldLeft, MapThenFoldSet, Max, ExpireTurn, ExpireEach
<1> HIDE DEF F
<1> DEFINE Goes_on(K, j) == "sane" \in DOMAIN K /\ (K.sane => Aged(M, K, i, j))
           T == {j \in 0 .. n : Goes_on(run[j], j)}
<1>4. 0 \in T
    <2>1. run[0] = M
        BY <1>2 DEF ExpireLoop!IsRun
    <2>2. "sane" \in DOMAIN M
        BY DEF Shaped, IsRecord, Fields
    <2> QED
        BY <1>1, <2>1, <2>2, AgedNone
<1>5. ASSUME NEW j \in 0 .. n, j < n, Goes_on(run[j], j)
      PROVE  Goes_on(run[j + 1], j + 1)
    <2> DEFINE K == run[j]
               N == run[j + 1]
    <2>1. j + 1 \in 1 .. n /\ (j + 1) - 1 = j /\ j \in Nat /\ j < Len(list)
        BY <1>1, <1>5
    <2>2. N = ExpireTopic(K, i, list[j + 1])
        BY <1>2, <2>1 DEF ExpireLoop!IsRun, ExpireTurn
    <2>3. "sane" \in DOMAIN K /\ (K.sane => Aged(M, K, i, j))
        BY <1>5
    <2> HIDE DEF K, N
    <2>4. "sane" \in DOMAIN N /\ (N.sane => K.sane)
        BY <2>2, <2>3, SaneStays
    <2>5. ASSUME N.sane PROVE Aged(M, N, i, j + 1)
        <3>1. Aged(M, K, i, j)
            BY <2>3, <2>4, <2>5
        <3> QED
            BY <1>1, <2>1, <2>2, <2>5, <3>1, AgedOne
    <2> QED
        BY <2>4, <2>5 DEF N
<1>6. \A j \in 0 .. n : j \in T /\ j < n => j + 1 \in T
    <2> HIDE DEF Goes_on
    <2> QED
        BY <1>1, <1>5
<1> HIDE DEF T
<1>7. 0 .. n \subseteq T
    BY <1>1, <1>4, <1>6, ExpireLoop!Induct
<1>8. Goes_on(run[n], n)
    BY <1>1, <1>7 DEF T
<1> QED
    BY <1>2, <1>3, <1>8 DEF F

\* What is kept to undo a block does not show in the core of a ledger.
LEMMA KeptIsBeside ==
    ASSUME NEW L, Shaped(L), NEW M, IsRecord(M),
           \A field \in {"referrer", "name", "by_id", "balance", "own", "topics", "topic_list"} :
              M[field] = L[field]
    PROVE  Shaped(M) /\ Core(M) = Core(L) /\ (IsBook(L) => IsBook(M) /\ Coins(M) = Coins(L))
<1>1. Alike(L, M) /\ Shaped(M)
    BY DEF Alike, Shaped
<1> QED
    BY <1>1, CoreAlike, BookAlike

\* Of what is kept to undo blocks, M has no more than L, index i apart.
KeepsBelow(L, M, i) ==
    \A k \in DOMAIN M.rollback_topics \ {i} :
        k \in DOMAIN L.rollback_topics /\ M.rollback_topics[k] = L.rollback_topics[k]

\* What block id retires leaves a book, unless the process exits, and is
\* kept at its index.
THEOREM RetireBook ==
    ASSUME NEW L, Shaped(L), IsBook(L), NEW id, NEW old, Retire(L, id, old).sane
    PROVE  LET R == Retire(L, id, old)
           IN  /\ Shaped(R) /\ IsBook(R) /\ Coins(R) = Coins(L) /\ R.referrer = L.referrer
               /\ ~ Retires(id) => R = L
               /\ Retires(id) => /\ Index(id) \in DOMAIN R.rollback_topics
                                 /\ KeepsBelow(L, R, Index(id))
                                 /\ BringsTo(Core(L), Core(R), R.rollback_topics[Index(id)])
<1> DEFINE R == Retire(L, id, old)
           g == id - (2 * LIFE + 1)
           r == Index(id)
<1>1. CASE ~ Retires(id)
    BY <1>1 DEF Retire, ProcTopicExpired, ProcTxMap
<1>2. CASE Retires(id)
    <2> DEFINE kept == With(Without(L.rollback_topics, g), r, <<>>)
               M == [L EXCEPT !.rollback_topics = kept]
               s == Expired(L, id)
               P == ProcTopicExpired(L, id)
    <2>1. P = ExpireEach(M, r, s)
        BY <1>2 DEF ProcTopicExpired, ExpireEach
    <2>2. R = [P EXCEPT !.rollback_txs = With(Without(@, g), r, old),
                        !.tx_map = @ \ old,
                        !.sane   = @ /\ old \subseteq P.tx_map]
        BY <1>2 DEF Retire, ProcTxMap
    <2>3. IsList(L.topic_list)
        BY SeqIsList DEF IsBook, Live
    <2>4. /\ IsList(s) /\ Len(s) <= Len(L.topic_list)
          /\ \A k \in 1 .. Len(s) : s[k] = L.topic_list[k]
        BY <2>3, ExpiredIs
    <2>5. /\ r \in DOMAIN kept /\ kept[r] = <<>>
          /\ \A k \in DOMAIN kept \ {r} :
                k \in DOMAIN L.rollback_topics /\ kept[k] = L.rollback_topics[k]
        BY DEF With, Without
    <2> HIDE DEF kept, s
    <2>6. /\ IsRecord(M) /\ M.rollback_topics = kept
          /\ \A field \in Fields \ {"rollback_topics"} : M[field] = L[field]
        BY DEF Shaped, IsRecord, Fields
    <2> HIDE DEF M, P
    <2>7. /\ M.referrer = L.referrer /\ M.sane = L.sane /\ M.topic_list = L.topic_list
        BY <2>6 DEF Fields
    <2>8. Shaped(M) /\ Core(M) = Core(L) /\ IsBook(M) /\ Coins(M) = Coins(L)
        BY <2>6, KeptIsBeside DEF Fields
    <2>9. "sane" \in DOMAIN P /\ (P.sane => Aged(M, P, r, Len(s)))
        BY <2>1, <2>3, <2>4, <2>5, <2>6, <2>7, <2>8, AgedAll
    <2>10. P.sane
        <3>1. R.sane = (P.sane /\ old \subseteq P.tx_map)
            BY <2>2, <2>9
        <3> QED
            BY <3>1
    <2>11. Aged(M, P, r, Len(s)) /\ Shaped(P) /\ IsRecord(P)
        BY <2>9, <2>10 DEF Aged, Shaped
    <2> HIDE DEF R, r, g
    <2>12. IsRecord(R)
           /\ \A field \in Fields \ {"rollback_txs", "tx_map", "sane"} : R[field] = P[field]
        BY <2>2, <2>11 DEF IsRecord, Fields
    <2>13. R.rollback_topics = P.rollback_topics /\ R.referrer = P.referrer
        BY <2>12 DEF Fields
    <2>14. Shaped(R) /\ Core(R) = Core(P) /\ (IsBook(P) => IsBook(R) /\ Coins(R) = Coins(P))
        BY <2>11, <2>12, KeptIsBeside DEF Fields
    <2>15. r \in DOMAIN R.rollback_topics /\ BringsTo(Core(L), Core(R), R.rollback_topics[r])
        BY <2>8, <2>11, <2>13, <2>14 DEF Aged
    <2>16. KeepsBelow(L, R, r)
        BY <2>5, <2>6, <2>11, <2>13 DEF Aged, KeepsBelow
    <2>17. IsBook(R) /\ Coins(R) = Coins(L) /\ R.referrer = L.referrer
        BY <2>7, <2>8, <2>11, <2>13, <2>14 DEF Aged
    <2> QED
        BY <1>2, <2>14, <2>15, <2>16, <2>17 DEF R, r
<1> QED
    BY <1>1, <1>2

\* The end of the loops that undo a block: what it retired comes back.
THEOREM RestoreBook ==
    ASSUME NEW K, Shaped(K), NEW id, NEW C,
           id <= LIFE + 1 => Core(K) = C,
           ~ id <= LIFE + 1 => /\ Index(id) \in DOMAIN K.rollback_topics
                               /\ BringsTo(C, Core(K), K.rollback_topics[Index(id)])
    PROVE  LET M == Restore(K, id)
           IN  /\ Shaped(M) /\ Core(M) = C /\ M.sane = K.sane
               /\ id <= LIFE + 1 => M.rollback_topics = K.rollback_topics
               /\ ~ id <= LIFE + 1 =>
                    M.rollback_topics = Without(K.rollback_topics, Index(id))
<1>1. CASE id <= LIFE + 1
    BY <1>1 DEF Restore
<1>2. CASE ~ id <= LIFE + 1
    <2> DEFINE r == Index(id)
               s == K.rollback_topics[r]
               F == FoldLeft(RestoreTopic, K, s)
               M == Restore(K, id)
    <2>1. Kept(K.rollback_topics, r, <<>>) = s
        BY <1>2 DEF Kept
    <2>2. M = [[F EXCEPT !.tx_map = @ \cup Kept(K.rollback_txs, r, {})] EXCEPT
                 !.rollback_topics = Without(@, r), !.rollback_txs = Without(@, r)]
        BY <1>2, <2>1 DEF Restore, RestoreSaved
    <2>3. Keeps(K, F) /\ Core(F) = C
        BY <1>2 DEF BringsTo
    <2> HIDE DEF F, M, r
    <2>4. /\ IsRecord(M)
          /\ \A field \in Fields \ {"rollback_topics", "rollback_txs", "tx_map"} :
                M[field] = F[field]
          /\ M.rollback_topics = Without(F.rollback_topics, r)
        BY <2>2, <2>3 DEF Keeps, Shaped, IsRecord, Fields
    <2>5. M.sane = F.sane
        BY <2>4 DEF Fields
    <2>6. Shaped(F)
        BY <2>3 DEF Keeps
    <2>7. Shaped(M) /\ Core(M) = Core(F)
        BY <2>4, <2>6, KeptIsBeside DEF Fields
    <2> QED
        BY <1>2, <2>3, <2>4, <2>5, <2>7 DEF Keeps, M, r
<1> QED
    BY <1>1, <1>2

=============================================================================
