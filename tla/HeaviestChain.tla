--------------------------- MODULE HeaviestChain ---------------------------
(***************************************************************************)
(* What a node promises about its block store, told without rollbacks,     *)
(* caches or crashes: stored blocks are never lost and hang from genesis,  *)
(* and whenever the node is settled (between two messages) the tip of its  *)
(* main chain carries as much accumulated work as any block it stores.     *)
(* BlockTree implements this specification.                                *)
(***************************************************************************)
EXTENDS Naturals

CONSTANTS
    Block,      \* every block that can ever exist, genesis included
    Genesis,    \* the root
    Parent,     \* Parent[b] is the block b extends
    Pow,        \* Pow[b] is the accumulated work of the chain ending in b
    NoTip       \* the value of tip while the node is busy or down

VARIABLES
    stored,     \* the blocks on disk
    tip         \* the end of the main chain when settled, NoTip otherwise

vars == <<stored, tip>>

Heaviest(S) == {b \in S : \A x \in S : Pow[x] <= Pow[b]}

Init == stored = {Genesis} /\ tip = Genesis

\* A settled node appends a block it mined itself.
Extend(b) ==
    /\ tip # NoTip
    /\ b \notin stored
    /\ Parent[b] = tip
    /\ stored' = stored \cup {b}
    /\ tip' = b

\* The node starts to work on a competing chain, or crashes.
Unsettle ==
    /\ tip # NoTip
    /\ tip' = NoTip
    /\ UNCHANGED stored

\* A block of a competing chain is verified and written.
Store(b) ==
    /\ tip = NoTip
    /\ b \notin stored
    /\ Parent[b] \in stored
    /\ stored' = stored \cup {b}
    /\ UNCHANGED tip

\* The node is ready for the next message.
Settle(b) ==
    /\ tip = NoTip
    /\ b \in Heaviest(stored)
    /\ tip' = b
    /\ UNCHANGED stored

Next ==
    \/ \E b \in Block : Extend(b) \/ Store(b) \/ Settle(b)
    \/ Unsettle

Spec == Init /\ [][Next]_vars
=============================================================================
