------------------------------ MODULE Rebuild ------------------------------
(***************************************************************************)
(* The slow half of Blockchain::rollback (blockchain.cpp), taken when      *)
(* m_rollback_topics no longer has what an old block retired: the retired  *)
(* topics and transactions are rebuilt from the blocks on disk.            *)
(***************************************************************************)
EXTENDS Ledger

(***************************************************************************)
(* How far the code loads blocks to undo blocks h down to to + 1: low is   *)
(* the height of the oldest block in block_list, sources how many blocks   *)
(* at its front are taken to be the ones whose topics retired, stop where  *)
(* this round of undoing ends (target_block_id). The counter is            *)
(* incremented twice in each turn of the loop that goes beyond LIFE + 1    *)
(* blocks (lines 9603 and 9608).                                           *)
(***************************************************************************)
Load(h, to) ==
    LET diff == h - to - 1
        LoadOne(s) ==
            IF s.count + 1 > LIFE + diff
            THEN [s EXCEPT !.low = @ - 1, !.count = @ + 1, !.done = TRUE]
            ELSE IF s.count + 2 > LIFE + LIFE
            THEN [s EXCEPT !.low = @ - 1, !.count = @ + 2, !.done = TRUE,
                           !.stop = h - LIFE - 1]
            ELSE [s EXCEPT !.low = @ - 1, !.count = @ + 2]
        full == h - 1 > LIFE
        s0 == [low   |-> IF full THEN h - LIFE - 1 ELSE 1,
               count |-> IF full THEN LIFE + 1 ELSE h - 1,
               stop  |-> to,
               done  |-> ~ full \/ diff = 0]
        s == FoldLeft(LAMBDA r, i : IF r.done \/ r.low <= 1 THEN r ELSE LoadOne(r),
                      s0, [i \in 1..h |-> i])
    IN  [low |-> s.low, stop |-> s.stop,
         sources |-> IF s.count > LIFE THEN s.count - LIFE ELSE 0]

\* One transaction of a loaded block: topics holds the rebuilt topics, and
\* only a source block (isSource) contributes new ones.
RebuildTx(T, tx, id, isSource) ==
    CASE tx.type = "topic" /\ isSource ->
            With(T, tx.id, [owner |-> tx.from, block_id |-> id, balance |-> tx.amount,
                            members |-> <<>>, replies |-> <<>>])
      [] tx.type = "reply" /\ tx.topic \in DOMAIN T ->
            [T EXCEPT
                ![tx.topic].replies = Append(@,
                    [key |-> tx.id, type |-> 0, owner |-> tx.from, balance |-> 0]),
                ![tx.topic].members =
                    IF T[tx.topic].owner # tx.from THEN AddMember(@, tx) ELSE @]
      [] tx.type = "reward" /\ tx.topic \in DOMAIN T ->
            [T EXCEPT
                ![tx.topic].balance = @ - tx.amount,
                ![tx.topic].replies = Append(
                    [@ EXCEPT ![Reply(T[tx.topic], tx.reply_to)].balance = @ + tx.amount],
                    [key |-> tx.id, type |-> 1, owner |-> tx.from, balance |-> tx.amount])]
      [] OTHER -> T

TopicIds(txs) ==
    LET new == SelectSeq(txs, LAMBDA tx : tx.type = "topic")
    IN  [i \in DOMAIN new |-> new[i].id]

TxIds(txs) == {txs[i].id : i \in DOMAIN txs}

(***************************************************************************)
(* What the slow loop uses in place of m_rollback_topics and               *)
(* m_rollback_txs while it undoes blocks h down to stop + 1. chain[i] is   *)
(* the sequence of transactions of the main chain block at height i.       *)
(***************************************************************************)
Rebuilt(chain, h, to) ==
    LET w == Load(h, to)
        IsSource(i) == i < w.low + w.sources
        heights == [k \in 1..(h - w.low) |-> w.low + k - 1]
        T == FoldLeft(LAMBDA acc, i :
                         FoldLeft(LAMBDA a, tx : RebuildTx(a, tx, i, IsSource(i)),
                                  acc, chain[i]),
                      <<>>, heights)
        kept == {i \in w.low .. (h - 1) : IsSource(i)}
        Saved(i) == LET ids == Reverse(TopicIds(chain[i]))
                    IN  [k \in DOMAIN ids |-> [key |-> ids[k], topic |-> T[ids[k]]]]
    IN  [stop   |-> w.stop,
         topics |-> [i \in kept |-> Saved(i)],
         txs    |-> [i \in kept |-> TxIds(chain[i])]]

\* One iteration of the slow loop.
UndoBlockSlow(L, id, miner, txs, rewarded, saved) ==
    LET M == UndoTxs(L, miner, txs, rewarded) IN
    IF id <= LIFE + 1 THEN M
    ELSE RestoreSaved(M, Kept(saved.topics, Index(id), <<>>),
                         Kept(saved.txs, Index(id), {}))
=============================================================================
