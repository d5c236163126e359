------------------------------- MODULE MCSlow -------------------------------
(***************************************************************************)
(* Chain on a branch a of seven blocks with LIFE = 2 and forks that undo   *)
(* three and more of them: the slow loop of rollback is entered with       *)
(* diff = 2. f3 and f4 are heavier than a7, d5 is heavier than both, and   *)
(* x4 (a transaction that is on the chain already) never verifies.         *)
(***************************************************************************)
EXTENDS Chain

MCBlock == {"g", "a1", "a2", "a3", "a4", "a5", "a6", "a7", "f3", "f4", "d5", "x4"}

MCParent == [b \in MCBlock |->
    CASE b = "a2" -> "a1" [] b \in {"a3", "f3"} -> "a2"
      [] b \in {"a4", "f4", "x4"} -> "a3"
      [] b \in {"a5", "d5"} -> "a4" [] b = "a6" -> "a5"
      [] b = "a7" -> "a6"
      [] OTHER -> "g"]

MCId == [b \in MCBlock |->
    CASE b = "g" -> 0 [] b = "a1" -> 1 [] b = "a2" -> 2
      [] b \in {"a3", "f3"} -> 3
      [] b \in {"a4", "f4", "x4"} -> 4
      [] b \in {"a5", "d5"} -> 5
      [] b = "a6" -> 6
      [] OTHER -> 7]

MCPow == [b \in MCBlock |->
    CASE b = "f3" -> 15 [] b = "f4" -> 16 [] b = "d5" -> 17 [] b = "x4" -> 18
      [] OTHER -> 2 * MCId[b]]

MCTxs == [b \in MCBlock |->
    CASE b = "a1" -> << Send("s1", "A", "A", 1, 1) >>
      [] b = "a2" -> << NewTopic("t1", "A", 5, 2) >>
      [] b = "a3" -> << Send("s3", "A", "A", 1, 3) >>
      [] b = "x4" -> << Send("s3", "A", "A", 1, 3) >>
      [] OTHER -> <<>>]

MCMiner == [b \in MCBlock |-> "A"]
=============================================================================
