------------------------------ MODULE MCChain ------------------------------
(***************************************************************************)
(* Chain on one tree of blocks with LIFE = 2: the topic t1 is opened at    *)
(* height 2 and expires at height 5. Branch a lets it expire and goes on;  *)
(* branch b forks before its first reply, so that a switch between them    *)
(* undoes the expiry, in the slow half of rollback when the entries of     *)
(* m_rollback_topics are gone. c, d and e hold blocks that do not verify:  *)
(* c6 after its parent was accepted, c5 halfway through its transactions,  *)
(* d4, e6 and x6 because of a transaction that is on the main chain        *)
(* already, in the last block, in the oldest one m_tx_map reaches, and     *)
(* beyond.                                                                 *)
(***************************************************************************)
EXTENDS Chain

MCBlock == {"g", "a1", "a2", "a3", "a4", "a5", "a6",
            "b4", "b5", "c5", "k5", "c6", "d4", "e6", "x6"}

MCParent == [b \in MCBlock |->
    CASE b = "a2" -> "a1" [] b = "a3" -> "a2" [] b = "a4" -> "a3"
      [] b = "a5" -> "a4" [] b = "a6" -> "a5"
      [] b = "b4" -> "a3" [] b = "b5" -> "b4"
      [] b = "c5" -> "a4" [] b = "k5" -> "a4" [] b = "c6" -> "k5"
      [] b = "d4" -> "a3" [] b \in {"e6", "x6"} -> "a5"
      [] OTHER -> "g"]

MCId == [b \in MCBlock |->
    CASE b = "g" -> 0 [] b = "a1" -> 1 [] b = "a2" -> 2
      [] b = "a3" -> 3
      [] b \in {"a4", "b4", "d4"} -> 4
      [] b \in {"a5", "b5", "c5", "k5"} -> 5
      [] OTHER -> 6]

MCPow == [b \in MCBlock |->
    CASE b = "g" -> 0 [] b = "a1" -> 2 [] b = "a2" -> 4
      [] b = "a3" -> 6
      [] b = "a4" -> 8 [] b = "b4" -> 9
      [] b \in {"a5", "k5"} -> 10
      [] b = "a6" -> 12 [] b = "b5" -> 13
      [] b \in {"c5", "c6"} -> 15
      [] b = "d4" -> 20
      [] OTHER -> 25]

reply1  == NewReply("p1", "v", "t1", "none", 3)
reward1 == Reward("w1", "u", "t1", "p1", 1, 4)
late4   == Send("s5", "A", "v", 1, 5)
send3   == Send("s3", "v", "u", 2, 5)

MCTxs == [b \in MCBlock |->
    CASE b = "a1" -> << Reg("r1", "u", "A", "nu", 1), Send("s1", "A", "u", 25, 1),
                        Reg("r2", "v", "u", "nv", 1) >>
      [] b = "a2" -> << NewTopic("t1", "u", 14, 2), Send("s2", "A", "v", 6, 2) >>
      [] b = "a3" -> << reply1 >>
      [] b = "a4" -> << reward1, late4 >>
      [] b = "a5" -> << send3 >>
      [] b = "a6" -> << NewTopic("t2", "u", 3, 6) >>
      [] b = "b4" -> << NewReply("p2", "u", "t1", "p1", 4), reward1 >>
      [] b = "b5" -> << NewTopic("t3", "v", 1, 5) >>
      [] b = "c5" -> << send3, Send("s4", "v", "u", 9, 5) >>
      [] b = "c6" -> << NewReply("p3", "v", "t1", "p1", 6) >>
      [] b = "d4" -> << reward1, reply1 >>
      [] b = "e6" -> << late4 >>
      [] b = "x6" -> << Send("s1", "A", "u", 25, 1) >>
      [] OTHER -> <<>>]

MCMiner == [b \in MCBlock |-> IF b \in {"a4", "b4"} THEN "u" ELSE "A"]
=============================================================================
