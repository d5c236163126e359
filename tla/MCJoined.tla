------------------------------ MODULE MCJoined ------------------------------
(***************************************************************************)
(* Chain on a branch a of seven blocks and a block f4 beside a4, heavier   *)
(* than a6 and lighter than a7, with LIFE = 3: u joins one topic in each   *)
(* of a3 to a6, tB and tA expire at a5 and a6. When a switch to f4 undoes  *)
(* a6, a5 and a4, expired topics come back at the front of the list of     *)
(* joined topics, and what is popped from its back is not what was pushed. *)
(***************************************************************************)
EXTENDS Chain

MCBlock == {"g", "a1", "a2", "a3", "a4", "a5", "a6", "a7", "f4"}

MCParent == [b \in MCBlock |->
    CASE b = "a2" -> "a1" [] b = "a3" -> "a2" [] b \in {"a4", "f4"} -> "a3"
      [] b = "a5" -> "a4" [] b = "a6" -> "a5" [] b = "a7" -> "a6"
      [] OTHER -> "g"]

MCId == [b \in MCBlock |->
    CASE b = "g" -> 0 [] b = "a1" -> 1 [] b = "a2" -> 2 [] b = "a3" -> 3
      [] b \in {"a4", "f4"} -> 4
      [] b = "a5" -> 5 [] b = "a6" -> 6 [] b = "a7" -> 7]

MCPow == [b \in MCBlock |-> IF b = "f4" THEN 13 ELSE 2 * MCId[b]]

MCTxs == [b \in MCBlock |->
    CASE b = "a1" -> << Reg("r1", "u", "A", "nu", 1), Send("s1", "A", "u", 20, 1),
                        NewTopic("tB", "A", 1, 1) >>
      [] b = "a2" -> << NewTopic("tA", "A", 1, 2) >>
      [] b = "a3" -> << NewTopic("tC", "A", 1, 3), NewTopic("tD", "A", 1, 3),
                        NewReply("p3", "u", "tA", "none", 3) >>
      [] b = "a4" -> << NewReply("p4", "u", "tB", "none", 4) >>
      [] b = "a5" -> << NewReply("p5", "u", "tC", "none", 5) >>
      [] b = "a6" -> << NewReply("p6", "u", "tD", "none", 6) >>
      [] OTHER -> <<>>]

MCMiner == [b \in MCBlock |-> "A"]
=============================================================================
