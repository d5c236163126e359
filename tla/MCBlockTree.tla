---------------------------- MODULE MCBlockTree ----------------------------
(***************************************************************************)
(* BlockTree on one tree of ten blocks: three branches that fork at        *)
(* genesis and at height 1, cross in work at several heights and tie at    *)
(* others, so that every walk the code makes happens: to a heavier branch, *)
(* back after a rejection, half-way to a tie, across a restart.            *)
(***************************************************************************)
EXTENDS BlockTree

MCBlock == {"g", "a1", "a2", "a3", "b1", "b2", "b3", "c2", "c3", "c4"}

MCParent == [b \in MCBlock |->
    CASE b = "a2" -> "a1" [] b = "a3" -> "a2"
      [] b = "b2" -> "b1" [] b = "b3" -> "b2"
      [] b = "c2" -> "a1" [] b = "c3" -> "c2" [] b = "c4" -> "c3"
      [] OTHER -> "g"]

MCId == [b \in MCBlock |->
    CASE b = "g" -> 0
      [] b \in {"a1", "b1"} -> 1
      [] b \in {"a2", "b2", "c2"} -> 2
      [] b \in {"a3", "b3", "c3"} -> 3
      [] OTHER -> 4]

MCPow == [b \in MCBlock |->
    CASE b = "g" -> 0
      [] b \in {"a1", "b1"} -> 2
      [] b \in {"a2", "c2"} -> 4
      [] b \in {"b2", "c3"} -> 5
      [] b = "a3" -> 6
      [] b = "b3" -> 7
      [] OTHER -> 8]
=============================================================================
