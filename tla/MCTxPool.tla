------------------------------ MODULE MCTxPool ------------------------------
(***************************************************************************)
(* TxPool on two trees with LIFE = 2. In the first, u is registered and    *)
(* gets coins in a1 and again in b1, so that a reorganisation makes the    *)
(* account anew, and in c1 for another pubkey under the same name. In the  *)
(* second, a topic is opened in a2, answered, rewarded, and ends.          *)
(***************************************************************************)
EXTENDS TxPool, TLC

reg     == Reg("r1", "u", "A", "nu", 1)
regLike == Reg("r2", "x", "A", "nu", 1)
coins   == Send("s1", "A", "u", 9, 1)
send1   == Send("s2", "u", "A", 3, 2)
send2   == Send("s3", "u", "A", 4, 2)

topicM  == NewTopic("t3", "u", 1, 2)
topicN  == NewTopic("t4", "u", 1, 2)

\* An amount just below the word: with what u has counted, the sum wraps.
huge    == Send("s6", "u", "A", WORD - 6, 1)

MoneyTx == {reg, regLike, coins, send1, send2, topicM, topicN}
MoneyBlock == {"g", "a1", "a2", "a3", "b1", "b2", "c1"}
HugeBlock == {"g", "a1", "d2"}

regV    == Reg("r3", "v", "A", "nv", 1)
coinsV  == Send("s4", "A", "v", 9, 1)
coinsU  == Send("s5", "A", "u", 15, 1)
topic   == NewTopic("t1", "u", 3, 2)
reply1  == NewReply("p1", "v", "t1", "none", 3)
reply2  == NewReply("p2", "v", "t1", "p1", 3)
reply3  == NewReply("p3", "v", "t1", "w1", 4)
reward1 == Reward("w1", "u", "t1", "p1", 2, 4)
reward2 == Reward("w2", "u", "t1", "p1", 2, 4)
rich    == Reward("w4", "u", "t1", "p1", WORD - 1, 4)
theft   == Reward("w3", "v", "t1", "p1", 1, 4)

ChainTx == {regV, coinsV, coinsU, topic}
TopicTx == {reply1, reply2, reply3, reward1, reward2, theft}
TopicBlock == {"g", "t1", "t2", "t3", "t4", "t5", "u3", "u4"}

MCBlock == MoneyBlock \cup HugeBlock \cup TopicBlock
MCTx == MoneyTx \cup ChainTx \cup TopicTx \cup {huge, rich}

MCParent == [b \in Block |->
    CASE b \in {"a2", "d2"} -> "a1" [] b = "a3" -> "a2" [] b = "b2" -> "b1"
      [] b = "t2" -> "t1" [] b = "t3" -> "t2" [] b = "t4" -> "t3" [] b = "t5" -> "t4"
      [] b = "u3" -> "t2" [] b = "u4" -> "u3"
      [] OTHER -> "g"]

MCId == [b \in Block |->
    CASE b = "g" -> 0 [] b \in {"a1", "b1", "c1", "t1"} -> 1 [] b \in {"a2", "b2", "d2", "t2"} -> 2
      [] b \in {"a3", "t3", "u3"} -> 3 [] b \in {"t4", "u4"} -> 4 [] OTHER -> 5]

\* u3 is as heavy as the longer branch.
MCPow == [b \in Block |-> IF b \in {"u3", "u4"} THEN MCId[b] + 2 ELSE MCId[b]]

MCMiner == [b \in Block |-> "A"]

MCTxs == [b \in Block |->
    CASE b = "a1" -> <<reg, coins>> [] b = "a2" -> <<send1>> [] b = "a3" -> <<topicM>>
      [] b = "b1" -> <<reg, coins>> [] b = "b2" -> <<send2>> [] b = "c1" -> <<regLike>>
      [] b = "t1" -> <<reg, coinsU, regV, coinsV>> [] b = "t2" -> <<topic>>
      [] b = "t3" -> <<reply1>> [] b = "t4" -> <<reward1>>
      [] b = "u3" -> <<reply1, reply2>> [] OTHER -> <<>>]

W(blocks, fork, txs, clear) ==
    [blocks |-> blocks, fork |-> fork, txs |-> txs, clear |-> clear]

Worlds == {
    W(MoneyBlock, MoneyBlock, MoneyTx, FALSE),
    W(MoneyBlock, MoneyBlock, {reg, regLike, coins, send1}, TRUE),
    W(HugeBlock, HugeBlock, {send1, send2, huge}, FALSE),
    W({"g", "t1", "t2", "t3", "t4"}, {}, {reward1, reward2, rich}, FALSE),
    W(TopicBlock, TopicBlock \ {"g", "t1"}, TopicTx, FALSE) }
=============================================================================
