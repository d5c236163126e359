---------------------------- MODULE MCBlockSync ----------------------------
(***************************************************************************)
(* BlockSync on small sets of announced blocks. a1, a2: an honest chain;   *)
(* b2: does not verify; h2: its header has bad fields; t2: a transaction   *)
(* of it has; w2: states a wrong height; d1: a sibling of a1; m1: mined    *)
(* here. q and q1 are connections of one key, one after the other or both  *)
(* at a time.                                                              *)
(***************************************************************************)
EXTENDS BlockSync, TLC

MCParent == [b \in Block |->
    CASE b \in {"a2", "b2", "h2", "t2", "w2"} -> "a1"
            [] OTHER -> "g"]

MCId == [b \in Block |->
    CASE b = "g" -> 0 [] b \in {"a1", "d1", "m1"} -> 1
      [] b \in {"a2", "b2", "h2", "t2"} -> 2 [] OTHER -> 3]

MCPow == [b \in Block |->
    CASE b = "g" -> 0 [] b \in {"d1", "m1"} -> 3 [] b = "a1" -> 2 [] b = "b2" -> 5
      [] b \in {"a2", "h2", "t2"} -> 4 [] OTHER -> 6]

MCVerdict == [b \in Block |->
    CASE b = "b2" -> "invalid" [] b = "h2" -> "header" [] b = "t2" -> "tx"
      [] OTHER -> "good"]

MCKey == [p \in Peer |-> IF p = "p" THEN 2 ELSE 1]

W(blocks, peers, honest, tries, pending, made, later) ==
    [blocks |-> blocks, peers |-> peers, honest |-> honest, says |-> [p \in Peer |-> blocks],
     tries |-> tries, pending |-> pending, made |-> made, delayed |-> later]

\* Two connections of one key, beside a peer that states a wrong height: it drags
\* the chain of q down when that asks for a1 already. Meanwhile q1 announces the
\* same block, or another.
Doubled(b) ==
    [W({"a1"}, {"p", "q", "q1"}, {"q", "q1"}, <<1>>, 10, 1, 0)
        EXCEPT !.says = [p \in Peer |->
            CASE p = "p" -> {"w2"} [] p = "q" -> {"a2"} [] p = "q1" -> {b}]]

\* Blocks of the near future, and a key that comes back or has two connections.
DelayWorld(tries) == W({"a1", "t2"}, {"q", "q1"}, {}, tries, 10, 1, 1)

DelayWorlds == {DelayWorld(<<1, 2>>)}

\* In turn: a block mined meanwhile, beside a bad header and beside a good one;
\* two honest peers of whom one waits; blocks that do not verify or have a wrong
\* height; the cache of headers too small, without and with a dishonest peer.
Worlds ==
  { DelayWorld(<<1>>),
    W({"a1", "h2", "m1"}, {"p", "q"}, {"p"}, <<1>>, 10, 1, 0),
    W({"a1", "a2", "m1"}, {"p", "q"}, {"p", "q"}, <<1>>, 10, 1, 0),
    W({"a1", "a2"}, {"p", "q"}, {"p", "q"}, <<1, 2>>, 10, 1, 0),
    W({"a1", "b2", "w2"}, {"p", "q"}, {"p"}, <<1, 2>>, 10, 1, 0),
    W({"a1", "a2"}, {"p", "q"}, {"p", "q"}, <<2>>, 0, 2, 0),
    W({"a1", "a2"}, {"p", "q"}, {"p"}, <<2>>, 0, 2, 0),
    Doubled("a2"), Doubled("d1") }

Addresses == Permutations(ChainId)
=============================================================================
