-------------------------- MODULE BlockSyncProofs --------------------------
(***************************************************************************)
(* Every safety invariant of BlockSync, for any blocks, peers and bounds:  *)
(* IInv is inductive and implies them. Each handler is split into the      *)
(* steps that it is made of; a chain that one step takes out of a request  *)
(* is in hand until another puts it into one or gives it up.               *)
(***************************************************************************)
EXTENDS BlockSync, FiniteSetTheorems, TLAPS

\* The turns of the loops of BlockSync.
StrikeTurn(punish, s, c) == Strike(s, c, punish)
BriefLoopTurn(h, a, c) == BriefTurn(a, h, c)
DetailTurn(none, s, c) == NextDetail(s, c)
BriefAsk(limit, a, c) == AskNext(a, c, limit, Closed(a.s, c))
DetailAsk(limit, a, c) == AskNext(a, c, limit, Useless(a.s, c))

Striking == INSTANCE FoldFacts WITH op <- StrikeTurn
Finishing == INSTANCE FoldFacts WITH op <- BriefLoopTurn
GoingOn == INSTANCE FoldFacts WITH op <- DetailTurn
BriefAsking == INSTANCE FoldFacts WITH op <- BriefAsk
DetailAsking == INSTANCE FoldFacts WITH op <- DetailAsk

----------------------------------------------------------------------------
(* The order of a set of chains.                                           *)

Distinct(s, S) ==
    /\ IsFiniteSet(S) /\ \A c \in S : KeyOf(s, c) \in Nat
    /\ \A c, d \in S : KeyOf(s, c) = KeyOf(s, d) => c = d

Sorted(s, S, q) ==
    /\ q \in [1..Cardinality(S) -> S]
    /\ \A i, j \in 1..Cardinality(S) : i < j => KeyOf(s, q[i]) < KeyOf(s, q[j])

\* Chains of different keys can be put in order: by how many have no greater key.
LEMMA SortedExists == ASSUME NEW s, NEW S, Distinct(s, S) PROVE \E q : Sorted(s, S, q)
<1> DEFINE size == Cardinality(S)
           Below(c) == {d \in S : KeyOf(s, d) <= KeyOf(s, c)}
           rank == [c \in S |-> Cardinality(Below(c))]
           q == [i \in 1..size |-> CHOOSE c \in S : rank[c] = i]
<1>1. size \in Nat
    BY FS_CardinalityType DEF Distinct
<1>2. ASSUME NEW c \in S PROVE IsFiniteSet(Below(c)) /\ rank[c] \in 1..size
    <2>1. Below(c) \in SUBSET S
        OBVIOUS
    <2>2. IsFiniteSet(Below(c)) /\ Cardinality(Below(c)) <= size
        <3> HIDE DEF Below
        <3> QED
            BY <2>1, FS_Subset DEF Distinct
    <2>3. c \in Below(c)
        BY DEF Distinct
    <2>4. Cardinality(Below(c)) \in Nat /\ Cardinality(Below(c)) # 0
        <3> HIDE DEF Below
        <3> QED
            BY <2>2, <2>3, FS_CardinalityType, FS_EmptySet
    <2> QED
        BY <1>1, <2>2, <2>4
<1>3. ASSUME NEW c \in S, NEW d \in S, KeyOf(s, c) < KeyOf(s, d) PROVE rank[c] < rank[d]
    <2>1. Below(c) \in SUBSET Below(d) /\ d \in Below(d) /\ d \notin Below(c)
        BY <1>3 DEF Distinct
    <2>2. IsFiniteSet(Below(d)) /\ IsFiniteSet(Below(c)) /\ rank[c] \in 1..size /\ rank[d] \in 1..size
        BY <1>2
    <2>3. Cardinality(Below(c)) <= Cardinality(Below(d))
          /\ Cardinality(Below(c)) # Cardinality(Below(d))
        <3> HIDE DEF Below
        <3> QED
            BY <2>1, <2>2, FS_Subset
    <2> QED
        BY <1>1, <2>2, <2>3
<1>4. rank \in [S -> 1..size] /\ \A c, d \in S : rank[c] = rank[d] => c = d
    <2>1. rank \in [S -> 1..size]
        BY <1>2
    <2>2. ASSUME NEW c \in S, NEW d \in S, rank[c] = rank[d] PROVE c = d
        <3>1. KeyOf(s, c) \in Nat /\ KeyOf(s, d) \in Nat /\ rank[c] \in 1..size
            BY <1>2 DEF Distinct
        <3>2. ~ KeyOf(s, c) < KeyOf(s, d) /\ ~ KeyOf(s, d) < KeyOf(s, c)
            <4> HIDE DEF rank
            <4> QED
                BY <1>1, <1>3, <2>2, <3>1
        <3> QED
            BY <3>1, <3>2 DEF Distinct
    <2> QED
        BY <2>1, <2>2
<1> HIDE DEF rank
<1>5. \A i \in 1..size : \E c \in S : rank[c] = i
    <2>1. IsFiniteSet(1..size) /\ Cardinality(1..size) = size
        BY <1>1, FS_Interval
    <2>2. rank \in Injection(S, 1..size)
        BY <1>4 DEF Injection, IsInjective
    <2>3. rank \in Surjection(S, 1..size)
        BY <2>1, <2>2, FS_Injection
    <2> QED
        BY <2>3 DEF Surjection
<1>6. q \in [1..size -> S] /\ \A i \in 1..size : rank[q[i]] = i
    BY <1>5
<1>7. \A i, j \in 1..size : i < j => KeyOf(s, q[i]) < KeyOf(s, q[j])
    <2> SUFFICES ASSUME NEW i \in 1..size, NEW j \in 1..size, i < j
                 PROVE  KeyOf(s, q[i]) < KeyOf(s, q[j])
        OBVIOUS
    <2>1. q[i] \in S /\ q[j] \in S /\ rank[q[i]] = i /\ rank[q[j]] = j
        BY <1>6
    <2> HIDE DEF q
    <2>2. KeyOf(s, q[i]) \in Nat /\ KeyOf(s, q[j]) \in Nat
        BY <2>1 DEF Distinct
    <2>3. ~ KeyOf(s, q[j]) < KeyOf(s, q[i])
        BY <1>1, <1>3, <2>1
    <2>4. KeyOf(s, q[j]) # KeyOf(s, q[i])
        BY <1>1, <2>1 DEF Distinct
    <2> QED
        BY <2>2, <2>3, <2>4
<1> QED
    BY <1>6, <1>7 DEF Sorted

\* InOrder lists each chain of the set once.
Lists(q, S) ==
    /\ Len(q) \in Nat /\ DOMAIN q = 1..Len(q) /\ {q[i] : i \in 1..Len(q)} = S
    /\ \A i, j \in 1..Len(q) : q[i] = q[j] => i = j

LEMMA InOrderIs == ASSUME NEW s, NEW S, Distinct(s, S) PROVE Lists(InOrder(s, S), S)
<1> DEFINE size == Cardinality(S)
           q == InOrder(s, S)
<1>1. size \in Nat /\ IsFiniteSet(1..size) /\ Cardinality(1..size) = size
    BY FS_CardinalityType, FS_Interval DEF Distinct
<1>2. Sorted(s, S, q)
    <2>1. \E p : Sorted(s, S, p)
        BY SortedExists
    <2> QED
        BY <2>1 DEF Sorted, InOrder
<1> HIDE DEF q
<1>3. q \in [1..size -> S] /\ \A i, j \in 1..size : q[i] = q[j] => i = j
    <2>1. q \in [1..size -> S]
        BY <1>2 DEF Sorted
    <2>2. ASSUME NEW i \in 1..size, NEW j \in 1..size, i < j PROVE q[i] # q[j]
        <3>1. KeyOf(s, q[i]) < KeyOf(s, q[j]) /\ q[i] \in S /\ q[j] \in S
            BY <1>2, <2>2 DEF Sorted
        <3>2. KeyOf(s, q[i]) \in Nat /\ KeyOf(s, q[j]) \in Nat
            BY <3>1 DEF Distinct
        <3> QED
            BY <3>1, <3>2
    <2> QED
        BY <1>1, <2>1, <2>2
<1>4. \A c \in S : \E i \in 1..size : q[i] = c
    <2>1. q \in Injection(1..size, S)
        BY <1>3 DEF Injection, IsInjective
    <2>2. q \in Surjection(1..size, S)
        BY <1>1, <2>1, FS_Injection DEF Distinct
    <2> QED
        BY <2>2 DEF Surjection
<1>5. Len(q) = size /\ DOMAIN q = 1..size
    BY <1>1, <1>3
<1> QED
    BY <1>1, <1>3, <1>4, <1>5 DEF Lists, q

----------------------------------------------------------------------------
(* Ancestors.                                                              *)

IsUp(m, f) ==
    f = [i \in 0..m |-> IF i = 0 THEN [b \in Block |-> b]
                        ELSE [b \in Block |-> Parent[f[i - 1][b]]]]

\* Two such functions agree where both are defined.
LEMMA UpAgrees ==
    ASSUME NEW m \in Nat, NEW k \in Nat, NEW f, NEW g, IsUp(m, f), IsUp(k, g), m <= k
    PROVE  \A i \in 0..m : f[i] = g[i]
<1> DEFINE T == {i \in 0..m : f[i] = g[i]}
<1>1. 0 \in T
    BY DEF IsUp
<1>2. ASSUME NEW i \in 0..m, i \in T, i < m PROVE i + 1 \in T
    <2>1. i + 1 \in 0..m /\ i + 1 \in 0..k /\ i + 1 # 0 /\ (i + 1) - 1 = i
        BY <1>2
    <2>2. f[i + 1] = [b \in Block |-> Parent[f[i][b]]]
        BY <2>1 DEF IsUp
    <2>3. g[i + 1] = [b \in Block |-> Parent[g[i][b]]]
        BY <2>1 DEF IsUp
    <2> QED
        BY <1>2, <2>1, <2>2, <2>3
<1>3. 0..m \subseteq T
    <2> HIDE DEF T
    <2> QED
        BY <1>1, <1>2, Striking!Induct
<1> QED
    BY <1>3

LEMMA UpExists == ASSUME NEW m \in Nat PROVE \E f : IsUp(m, f)
<1> DEFINE T == {i \in 0..m : \E f : IsUp(i, f)}
<1>1. 0 \in T
    <2>1. IsUp(0, [i \in 0..0 |-> [b \in Block |-> b]])
        BY DEF IsUp
    <2> QED
        BY <2>1
<1>2. ASSUME NEW i \in 0..m, i \in T, i < m PROVE i + 1 \in T
    <2>1. PICK f : IsUp(i, f)
        BY <1>2
    <2> DEFINE g == [j \in 0..(i + 1) |->
                        IF j <= i THEN f[j] ELSE [b \in Block |-> Parent[f[i][b]]]]
               F(j) == IF j = 0 THEN [b \in Block |-> b]
                       ELSE [b \in Block |-> Parent[g[j - 1][b]]]
    <2>2. ASSUME NEW j \in 0..(i + 1) PROVE g[j] = F(j)
        <3>1. CASE j = 0
            BY <2>1, <3>1 DEF IsUp
        <3>2. CASE j # 0
            <4>1. j - 1 \in 0..(i + 1) /\ j - 1 <= i /\ g[j - 1] = f[j - 1]
                BY <3>2
            <4>2. F(j) = [b \in Block |-> Parent[f[j - 1][b]]]
                BY <3>2, <4>1
            <4>3. CASE j <= i
                <5>1. j \in 0..i /\ g[j] = f[j]
                    BY <4>3
                <5>2. f[j] = [b \in Block |-> Parent[f[j - 1][b]]]
                    BY <2>1, <3>2, <5>1 DEF IsUp
                <5> QED
                    BY <4>2, <5>1, <5>2
            <4>4. CASE ~ j <= i
                <5>1. j = i + 1 /\ j - 1 = i
                    BY <4>4
                <5> QED
                    BY <4>2, <4>4, <5>1
            <4> QED
                BY <4>3, <4>4
        <3> QED
            BY <3>1, <3>2
    <2>3. g = [j \in 0..(i + 1) |-> F(j)]
        <3>1. DOMAIN g = 0..(i + 1)
            OBVIOUS
        <3>2. g = [j \in 0..(i + 1) |-> g[j]]
            OBVIOUS
        <3> HIDE DEF g
        <3> QED
            BY <2>2, <3>2
    <2>4. IsUp(i + 1, g)
        <3> HIDE DEF g
        <3> QED
            BY <2>3 DEF IsUp
    <2> QED
        BY <2>4, <1>2
<1>3. 0..m \subseteq T
    <2> HIDE DEF T
    <2> QED
        BY <1>1, <1>2, Striking!Induct
<1> QED
    BY <1>3

\* The equations of Up.
LEMMA UpIs ==
    /\ Up[0] = [b \in Block |-> b]
    /\ \A i \in Nat : Up[i + 1] = [b \in Block |-> Parent[Up[i][b]]]
<1> DEFINE first(i) == CHOOSE f : IsUp(i, f)
           F == [i \in Nat |-> first(i)[i]]
           G(i) == IF i = 0 THEN [b \in Block |-> b] ELSE [b \in Block |-> Parent[F[i - 1][b]]]
<1>1. \A i \in Nat : IsUp(i, first(i))
    BY UpExists
<1> HIDE DEF first
<1>2. ASSUME NEW i \in Nat PROVE F[i] = G(i)
    <2>1. IsUp(i, first(i))
        BY <1>1
    <2>2. CASE i = 0
        BY <2>1, <2>2 DEF IsUp
    <2>3. CASE i # 0
        <3>1. i - 1 \in Nat /\ i - 1 <= i /\ i \in 0..i /\ i - 1 \in 0..(i - 1)
            BY <2>3
        <3>2. IsUp(i - 1, first(i - 1))
            BY <1>1, <3>1
        <3>3. first(i - 1)[i - 1] = first(i)[i - 1]
            BY <2>1, <3>1, <3>2, UpAgrees
        <3>4. first(i)[i] = [b \in Block |-> Parent[first(i)[i - 1][b]]]
            BY <2>1, <2>3, <3>1 DEF IsUp
        <3> QED
            BY <2>3, <3>1, <3>3, <3>4
    <2> QED
        BY <2>2, <2>3
<1>3. F = [i \in Nat |-> G(i)]
    <2>1. F = [i \in Nat |-> F[i]]
        OBVIOUS
    <2> HIDE DEF F
    <2> QED
        BY <1>2, <2>1
<1>4. Up = [i \in Nat |-> IF i = 0 THEN [b \in Block |-> b]
                          ELSE [b \in Block |-> Parent[Up[i - 1][b]]]]
    <2> HIDE DEF F
    <2> QED
        BY <1>3 DEF Up
<1> QED
    BY <1>4

LEMMA UpNext ==
    ASSUME NEW b \in Block, NEW i \in Nat
    PROVE  Up[0][b] = b /\ Up[i + 1][b] = Parent[Up[i][b]]
<1>1. Up[0] = [c \in Block |-> c]
    BY UpIs
<1>2. Up[i + 1] = [c \in Block |-> Parent[Up[i][c]]]
    BY UpIs
<1> QED
    BY <1>1, <1>2

\* The ancestors of a block are blocks.
LEMMA UpBlock == ASSUME NEW b \in Block, NEW i \in Nat PROVE Up[i][b] \in Block
<1> DEFINE T == {j \in 0..i : Up[j][b] \in Block}
<1>1. 0 \in T
    BY UpNext
<1>2. ASSUME NEW j \in 0..i, j \in T, j < i PROVE j + 1 \in T
    <2>1. j \in Nat /\ j + 1 \in 0..i /\ Up[j][b] \in Block
        BY <1>2
    <2>2. Up[j + 1][b] = Parent[Up[j][b]]
        BY <2>1, UpNext
    <2>3. Parent[Up[j][b]] \in Block
        BY <2>1, BlockSyncAssumption
    <2> QED
        BY <2>1, <2>2, <2>3
<1>3. 0..i \subseteq T
    <2> HIDE DEF T
    <2> QED
        BY <1>1, <1>2, Striking!Induct
<1> QED
    BY <1>3

\* The ancestors of the parent are those of the block.
LEMMA UpShift == ASSUME NEW b \in Block, NEW i \in Nat PROVE Up[i][Parent[b]] = Up[i + 1][b]
<1> DEFINE T == {j \in 0..i : Up[j][Parent[b]] = Up[j + 1][b]}
<1>0. Parent[b] \in Block
    BY BlockSyncAssumption
<1>1. 0 \in T
    <2>1. Up[0][Parent[b]] = Parent[b] /\ Up[0][b] = b /\ Up[0 + 1][b] = Parent[Up[0][b]]
        BY <1>0, UpNext
    <2> QED
        BY <2>1
<1>2. ASSUME NEW j \in 0..i, j \in T, j < i PROVE j + 1 \in T
    <2>1. j \in Nat /\ j + 1 \in 0..i /\ j + 1 \in Nat /\ Up[j][Parent[b]] = Up[j + 1][b]
        BY <1>2
    <2>2. Up[j + 1][Parent[b]] = Parent[Up[j][Parent[b]]]
        BY <1>0, <2>1, UpNext
    <2>3. Up[(j + 1) + 1][b] = Parent[Up[j + 1][b]]
        BY <2>1, UpNext
    <2> QED
        BY <2>1, <2>2, <2>3
<1>3. 0..i \subseteq T
    <2> HIDE DEF T
    <2> QED
        BY <1>1, <1>2, Striking!Induct
<1> QED
    BY <1>3

\* If two ancestors are the same block, so are those above them.
LEMMA UpAlong ==
    ASSUME NEW b \in Block, NEW i \in Nat, NEW j \in Nat, Up[i][b] = Up[j][b], NEW m \in Nat
    PROVE  Up[i + m][b] = Up[j + m][b]
<1> DEFINE T == {l \in 0..m : Up[i + l][b] = Up[j + l][b]}
<1>1. 0 \in T
    <2>1. i + 0 = i /\ j + 0 = j
        OBVIOUS
    <2> QED
        BY <2>1
<1>2. ASSUME NEW l \in 0..m, l \in T, l < m PROVE l + 1 \in T
    <2>1. /\ i + l \in Nat /\ j + l \in Nat /\ l + 1 \in 0..m
          /\ i + (l + 1) = (i + l) + 1 /\ j + (l + 1) = (j + l) + 1
        BY <1>2
    <2>2. Up[(i + l) + 1][b] = Parent[Up[i + l][b]] /\ Up[(j + l) + 1][b] = Parent[Up[j + l][b]]
        BY <2>1, UpNext
    <2> QED
        BY <1>2, <2>1, <2>2
<1>3. 0..m \subseteq T
    <2> HIDE DEF T
    <2> QED
        BY <1>1, <1>2, Striking!Induct
<1> QED
    BY <1>3

\* Among so many ancestors one comes twice.
LEMMA UpTwice ==
    ASSUME NEW b \in Block
    PROVE  /\ Cardinality(Block) \in Nat
           /\ \E i, j \in 0..Cardinality(Block) : i < j /\ Up[i][b] = Up[j][b]
<1> DEFINE N == Cardinality(Block)
           f == [i \in 0..N |-> Up[i][b]]
<1>1. N \in Nat /\ IsFiniteSet(Block)
    BY FS_CardinalityType, BlockSyncAssumption
<1>2. IsFiniteSet(0..N) /\ Cardinality(0..N) = N + 1
    BY <1>1, FS_Interval
<1>3. f \in [0..N -> Block]
    BY UpBlock, <1>1
<1>4. N < Cardinality(0..N)
    BY <1>1, <1>2
<1>5. \E x, y \in 0..N : x # y /\ f[x] = f[y]
    <2> HIDE DEF f
    <2> QED
        BY <1>1, <1>2, <1>3, <1>4, FS_PigeonHole
<1>6. PICK x \in 0..N, y \in 0..N : x # y /\ Up[x][b] = Up[y][b]
    BY <1>5
<1>7. x < y \/ y < x
    BY <1>1, <1>6
<1> QED
    BY <1>1, <1>6, <1>7

\* So the ancestors of a block that are looked at are all there are.
LEMMA TruthfulParent == ASSUME NEW b \in Block, Truthful(b) PROVE Truthful(Parent[b])
<1> DEFINE N == Cardinality(Block)
           Fine(c) == Verdict[c] = "good" /\ c \notin WrongHeight
<1>1. N \in Nat
    BY UpTwice
<1>2. PICK x \in 0..N, y \in 0..N : x < y /\ Up[x][b] = Up[y][b]
    BY UpTwice
<1>3. \A i \in 0..N : Fine(Up[i][b])
    BY DEF Truthful
<1> HIDE DEF Fine
<1>4. Fine(Up[N + 1][b])
    <2> DEFINE m == N + 1 - y
    <2>1. m \in Nat /\ x + m \in 0..N /\ y + m = N + 1
        BY <1>1, <1>2
    <2> HIDE DEF m
    <2>2. Up[x + m][b] = Up[y + m][b]
        BY <1>1, <1>2, <2>1, UpAlong
    <2> QED
        BY <1>3, <2>1, <2>2
<1>5. ASSUME NEW i \in 0..N PROVE Fine(Up[i][Parent[b]])
    <2>1. Up[i][Parent[b]] = Up[i + 1][b] /\ (i + 1 \in 0..N \/ i = N)
        BY <1>1, UpShift
    <2> QED
        BY <1>3, <1>4, <2>1
<1> QED
    BY <1>5 DEF Truthful, Fine

LEMMA TruthfulIs == ASSUME NEW b \in Block, Truthful(b) PROVE Verdict[b] = "good" /\ b \notin WrongHeight
<1>1. 0 \in 0..Cardinality(Block) /\ Up[0][b] = b
    BY UpTwice, UpNext
<1> QED
    BY <1>1 DEF Truthful

----------------------------------------------------------------------------
(* The inductive invariant. While a handler runs, the chains of one brief  *)
(* request, x, may be on their way elsewhere: they are in hand, rest, and  *)
(* the request still lists them. Between handlers, x is None and nothing   *)
(* is in hand. What a handler does not change is in e: the honest peers,   *)
(* the connections, and what was closed and heard of when it began.        *)
(***************************************************************************)

Brief(s, h) == s.m_pending_brief_reqs[h].m_chains
Detail(s, h) == s.m_pending_detail_reqs[h].m_chains

Right(b) == b \in Block /\ b # Genesis /\ b \notin WrongHeight

Hash(ch, i) == ch.m_req_blocks[i][1]
Tip(ch) == Hash(ch, Len(ch.m_req_blocks))

Gapless(ch) ==
    \A i \in 1..(Len(ch.m_req_blocks) - 1) : Parent[Hash(ch, i + 1)] = Hash(ch, i)

\* What a chain of an honest peer says is true.
Loyal(hon, ch) ==
    ch.m_peer \in hon => Truthful(Tip(ch)) /\ ch.m_declared_pow = Pow[Tip(ch)]

\* A chain on its way down: every header above its first is right, and the work
\* that remains is what it declares for the parent of the first.
Climbing(hon, s, ch) ==
    /\ ch \in Chain /\ ch.m_req_blocks # <<>> /\ ch.m_start = 0
    /\ Gapless(ch) /\ Loyal(hon, ch)
    /\ \A i \in 1..Len(ch.m_req_blocks) : Hash(ch, i) # Genesis /\ s.made[Hash(ch, i)] > 0
    /\ \A i \in 2..Len(ch.m_req_blocks) : Right(Hash(ch, i))
    /\ ch.m_remain_pow = ch.m_declared_pow - (Pow[Tip(ch)] - Pow[Parent[Foot(ch)]])

\* A chain that hangs from a known block; its first m_start blocks are known or
\* at hand.
Grounded(hon, s, ch) ==
    /\ ch \in Chain /\ ch.m_start < Len(ch.m_req_blocks)
    /\ Gapless(ch) /\ Loyal(hon, ch) /\ ch.m_declared_pow = Pow[Tip(ch)]
    /\ Parent[Foot(ch)] \in s.m_blocks
    /\ \A i \in 1..Len(ch.m_req_blocks) : Right(Hash(ch, i))
    /\ \A i \in 1..ch.m_start : Hash(ch, i) \in s.m_blocks \/ ch.m_req_blocks[i] \in s.docs

\* Chain c in the brief request, or the detail request, for h.
Waiting(hon, s, c, h) ==
    /\ Climbing(hon, s, s.chain[c]) /\ Unknown(s.chain[c]) = h
    /\ s.chain[c].m_brief_attached = h

Asking(hon, s, c, h) ==
    /\ Grounded(hon, s, s.chain[c]) /\ Hash(s.chain[c], s.chain[c].m_start + 1) = h
    /\ s.chain[c].m_brief_attached = None /\ s.chain[c].m_detail_attached = h

Content(e, s, x) ==
    /\ \A h \in Block : h # x => \A c \in Brief(s, h) : Waiting(e.hon, s, c, h)
    /\ \A h \in Block : \A c \in Detail(s, h) : Asking(e.hon, s, c, h)

Hurt(s) == \E b \in WrongHeight : s.made[b] > 0

Rooted(s) ==
    /\ Genesis \in s.m_blocks
    /\ \A b \in s.m_blocks : b # Genesis => Parent[b] \in s.m_blocks /\ Id[b] > 0

Base(e, s) ==
    /\ s \in Node /\ s.m_most_difficult_block \in s.m_blocks
    /\ s.punished \subseteq s.closed /\ ~ s.exited /\ Rooted(s)
    /\ \A b \in Block : IsPending(s, b) => s.made[b] > 0
    /\ s.punished \cap e.hon # {} => Hurt(s)
    /\ e.closed \subseteq s.closed /\ \A b \in e.heard : s.made[b] > 0

\* No key has stood for two connections so far. If one has, less is certain: a
\* chain in a request need not be the one of its key, which ends with any of them.
Single(e) == e.doubled = {}

\* A chain is dead when its peer was punished while it was already elsewhere:
\* nobody speaks for its key any more.
Dead(e, s, c) ==
    /\ s.chain[c].m_peer \in s.punished
    /\ s.m_chains_by_peer_key[KeyOf(s, c)] = None
    /\ \A p \in e.mp : Key[p] = KeyOf(s, c) => p \in s.closed

Held(e, s, c) ==
    /\ s.chain[c] \in Chain
    /\ s.chain[c].m_peer \in e.mp \cup s.closed
    /\ Single(e) => s.m_chains_by_peer_key[KeyOf(s, c)] = c \/ Dead(e, s, c)

Member(s, x, c) ==
    \E h \in Block : (h # x /\ c \in Brief(s, h)) \/ c \in Detail(s, h)

\* The request that the chain names lists it; at the least it names one.
Placed(e, s, x, c) ==
    LET brief == s.chain[c].m_brief_attached
        detail == s.chain[c].m_detail_attached
    IN  IF Single(e)
        THEN IF brief # None THEN brief \in Block \ {x} /\ c \in Brief(s, brief)
             ELSE detail \in Block /\ c \in Detail(s, detail)
        ELSE s.chain[c] \in Chain /\ (brief \in Block \/ detail \in Block)

\* A request lists one chain for a key, and those that wait are among them.
Neat(e, s, r) ==
    /\ \A c, d \in r.m_chains : KeyOf(s, c) = KeyOf(s, d) => c = d
    /\ r.m_try_num = 0 => r.m_chains = {}
    /\ IF Single(e)
       THEN /\ \A i \in DOMAIN r.m_attached_chains : r.m_attached_chains[i] \in r.m_chains
            /\ \A i, j \in DOMAIN r.m_attached_chains :
                  r.m_attached_chains[i] = r.m_attached_chains[j] => i = j
       ELSE \A i \in DOMAIN r.m_attached_chains : s.chain[r.m_attached_chains[i]] \in Chain

Apart(e) ==
    e.mp \subseteq Peer /\ (Single(e) => \A p, q \in e.mp : Key[p] = Key[q] => p = q)

Tidy(e, s, x, rest) ==
    /\ Apart(e) /\ rest \subseteq ChainId
    /\ \A h \in Block : h # x => Neat(e, s, s.m_pending_brief_reqs[h])
    /\ \A h \in Block : Neat(e, s, s.m_pending_detail_reqs[h])
    /\ \A c \in ChainId : Member(s, x, c) => Held(e, s, c)
    /\ \A c \in rest : Held(e, s, c) /\ ~ Member(s, x, c)
    /\ \A k \in Keys : LET c == s.m_chains_by_peer_key[k]
                       IN  c # None => KeyOf(s, c) = k /\ (c \in rest \/ Placed(e, s, x, c))

Sound(e, s, x, rest) == Base(e, s) /\ Tidy(e, s, x, rest) /\ Content(e, s, x)

\* A chain that was announced and is not in a request yet.
Announcing(hon, mp, s, ch) ==
    /\ Climbing(hon, s, ch) /\ ch.m_peer \in mp \cup s.closed
    /\ ch.m_brief_attached = None /\ ch.m_detail_attached = None

Around(hon, mp, dbl, s) ==
    [hon |-> hon, mp |-> mp, doubled |-> dbl, closed |-> s.closed,
     heard |-> {b \in Block : s.made[b] > 0}]

IInv ==
    /\ world \in World /\ Sound(Around(world.honest, m_peers, doubled, n), n, None, {})
    /\ doubled \subseteq Keys
    /\ delayed \in Seq(Chain)
    /\ \A i \in DOMAIN delayed : Announcing(world.honest, m_peers, n, delayed[i])

----------------------------------------------------------------------------
(* What a climb ends with.                                                 *)

LEMMA Numbers ==
    ASSUME NEW b \in Block
    PROVE  Parent[b] \in Block /\ Id[b] \in Nat /\ Pow[b] \in Nat
    BY BlockSyncAssumption

LEMMA TurnPushes ==
    ASSUME NEW s, NEW ch, NEW i, Turn(s, ch, i) = "push"
    PROVE  LET b == Up[i][Foot(ch)]
           IN  /\ Parent[b] \notin s.m_blocks /\ IsPending(s, Parent[b])
               /\ Id[b] > 1 /\ Id[b] = Id[Parent[b]] + 1
    BY DEF Turn

\* A loop that pushed at each turn would come to a height below zero.
LEMMA TurnsEnd ==
    ASSUME NEW s, NEW ch, Foot(ch) \in Block
    PROVE  \E i \in 0..Cardinality(Block) : Turn(s, ch, i) # "push"
<1> DEFINE N == Cardinality(Block)
           b == Foot(ch)
           T == {i \in 0..N : Id[Up[i][b]] = Id[b] - i}
<1>1. SUFFICES ASSUME \A i \in 0..N : Turn(s, ch, i) = "push" PROVE FALSE
    OBVIOUS
<1>2. PICK x \in 0..N, y \in 0..N : x < y /\ Up[x][b] = Up[y][b]
    BY UpTwice
<1>3. N \in Nat /\ Id[b] \in Nat
    BY UpTwice, Numbers
<1>4. 0 \in T
    <2>1. Up[0][b] = b
        BY UpNext
    <2> QED
        BY <1>3, <2>1
<1>5. ASSUME NEW i \in 0..N, i \in T, i < N PROVE i + 1 \in T
    <2>1. Turn(s, ch, i) = "push" /\ Up[i][b] \in Block /\ Up[i + 1][b] = Parent[Up[i][b]]
        BY <1>1, UpBlock, UpNext
    <2>2. Id[Up[i][b]] = Id[Parent[Up[i][b]]] + 1
        BY <2>1, TurnPushes
    <2>3. Id[Parent[Up[i][b]]] \in Nat /\ Id[Up[i][b]] \in Nat
        BY <2>1, Numbers
    <2>4. Id[Up[i][b]] = Id[b] - i /\ i + 1 \in 0..N
        BY <1>3, <1>5
    <2>5. Id[Up[i + 1][b]] = Id[b] - (i + 1)
        BY <1>3, <2>1, <2>2, <2>3, <2>4
    <2> QED
        BY <2>4, <2>5
<1>6. 0..N \subseteq T
    <2> HIDE DEF T
    <2> QED
        BY <1>3, <1>4, <1>5, Striking!Induct
<1>7. Id[Up[x][b]] = Id[b] - x /\ Id[Up[y][b]] = Id[b] - y
    BY <1>2, <1>6
<1> QED
    BY <1>2, <1>3, <1>7

LEMMA LastTurnIs ==
    ASSUME NEW s, NEW ch, Foot(ch) \in Block
    PROVE  /\ LastTurn(s, ch) \in Nat /\ Turn(s, ch, LastTurn(s, ch)) # "push"
           /\ \A j \in 0..(LastTurn(s, ch) - 1) : Turn(s, ch, j) = "push"
<1> DEFINE N == Cardinality(Block)
           Ends(i) == Turn(s, ch, i) # "push" /\ \A j \in 0..(i - 1) : Turn(s, ch, j) = "push"
           T == {i \in 0..N : \A j \in 0..i : Turn(s, ch, j) = "push"}
<1>1. PICK e \in 0..N : Turn(s, ch, e) # "push"
    BY TurnsEnd
<1>2. N \in Nat
    BY UpTwice
<1>3. \E i \in 0..N : Ends(i)
    <2> SUFFICES ASSUME \A i \in 0..N : ~ Ends(i) PROVE FALSE
        OBVIOUS
    <2>1. 0 \in T
        <3>1. ~ Ends(0) /\ 0..(0 - 1) = {} /\ 0..0 = {0}
            BY <1>2
        <3> QED
            BY <1>2, <3>1
    <2>2. ASSUME NEW i \in 0..N, i \in T, i < N PROVE i + 1 \in T
        <3>1. i + 1 \in 0..N /\ (i + 1) - 1 = i
            BY <1>2, <2>2
        <3>2. Turn(s, ch, i + 1) = "push"
            <4>1. ~ Ends(i + 1)
                BY <3>1
            <4> QED
                BY <2>2, <3>1, <4>1
        <3>3. \A j \in 0..(i + 1) : j \in 0..i \/ j = i + 1
            BY <3>1
        <3> QED
            BY <2>2, <3>1, <3>2, <3>3
    <2>3. 0..N \subseteq T
        <3> HIDE DEF T
        <3> QED
            BY <1>2, <2>1, <2>2, Striking!Induct
    <2> QED
        BY <1>1, <1>2, <2>3
<1>4. LastTurn(s, ch) \in 0..N /\ Ends(LastTurn(s, ch))
    BY <1>3 DEF LastTurn
<1> QED
    BY <1>2, <1>4

LEMMA TurnNotPush ==
    ASSUME NEW s, NEW ch, NEW i, Turn(s, ch, i) # "push", Foot(ch) \in Block, i \in Nat
    PROVE  LET b == Up[i][Foot(ch)]
               pre == Parent[b]
           IN  \/ /\ Turn(s, ch, i) = "height"
                  /\ pre \in s.m_blocks => Id[b] # Id[pre] + 1
                  /\ pre \notin s.m_blocks => Id[b] <= 1 \/ Id[b] # Id[pre] + 1
               \/ /\ Turn(s, ch, i) = "work"
                  /\ pre \in s.m_blocks => Pow[pre] # Left(ch, i)
                  /\ pre \notin s.m_blocks => Left(ch, i) < Pow[pre] - Pow[Parent[pre]]
               \/ /\ Turn(s, ch, i) = "known"
                  /\ pre \in s.m_blocks /\ Id[b] = Id[pre] + 1 /\ Pow[pre] = Left(ch, i)
               \/ Turn(s, ch, i) = "ask" /\ pre \notin s.m_blocks /\ ~ IsPending(s, pre)
<1> DEFINE b == Up[i][Foot(ch)]
           pre == Parent[b]
<1>1. b \in Block /\ pre \in Block /\ Id[b] \in Nat
    BY UpBlock, Numbers
<1>2. CASE pre \in s.m_blocks
    BY <1>2 DEF Turn
<1>3. CASE pre \notin s.m_blocks /\ Id[b] <= 1
    BY <1>1, <1>3 DEF Turn
<1>4. CASE pre \notin s.m_blocks /\ Id[b] > 1 /\ IsPending(s, pre)
    BY <1>1, <1>4 DEF Turn
<1>5. CASE pre \notin s.m_blocks /\ Id[b] > 1 /\ ~ IsPending(s, pre)
    BY <1>1, <1>5 DEF Turn
<1> QED
    BY <1>1, <1>2, <1>3, <1>4, <1>5

\* The blocks of a chain.
LEMMA Hashes ==
    ASSUME NEW ch \in Chain, NEW i \in 1..Len(ch.m_req_blocks)
    PROVE  Hash(ch, i) \in Block /\ ch.m_req_blocks[i] \in PendingBlock
<1>1. ch.m_req_blocks \in Seq(PendingBlock)
    BY DEF Chain
<1>2. ch.m_req_blocks[i] \in PendingBlock
    BY <1>1
<1> QED
    BY <1>2 DEF PendingBlock, Hash

LEMMA Lengths == ASSUME NEW ch \in Chain PROVE Len(ch.m_req_blocks) \in Nat
    BY DEF Chain

LEMMA SomeBlock ==
    ASSUME NEW ch \in Chain, ch.m_req_blocks # <<>> \/ ch.m_start < Len(ch.m_req_blocks)
    PROVE  /\ 1 \in 1..Len(ch.m_req_blocks) /\ Len(ch.m_req_blocks) \in 1..Len(ch.m_req_blocks)
           /\ Foot(ch) = Hash(ch, 1) /\ Foot(ch) \in Block /\ Tip(ch) \in Block
<1>1. ch.m_req_blocks \in Seq(PendingBlock) /\ ch.m_start \in Nat
    BY DEF Chain
<1>2. Len(ch.m_req_blocks) \in Nat /\ Len(ch.m_req_blocks) # 0
    BY <1>1
<1>3. 1 \in 1..Len(ch.m_req_blocks) /\ Len(ch.m_req_blocks) \in 1..Len(ch.m_req_blocks)
    BY <1>2
<1> QED
    BY <1>3, Hashes DEF Foot, Tip, Hash

\* A truthful chain is truthful at every block, and below its first.
LEMMA TruthfulBelow ==
    ASSUME NEW ch \in Chain, Gapless(ch), NEW i \in 1..Len(ch.m_req_blocks), Truthful(Tip(ch))
    PROVE  Truthful(Hash(ch, i)) /\ Truthful(Parent[Hash(ch, i)])
<1> DEFINE N == Len(ch.m_req_blocks)
           T == {j \in 0..(N - 1) : Truthful(Hash(ch, N - j))}
<1>1. N \in Nat /\ N - 1 \in Nat
    BY Lengths
<1>2. 0 \in T
    <2>1. N - 0 = N
        BY <1>1
    <2> QED
        BY <1>1, <2>1 DEF Tip
<1>3. ASSUME NEW j \in 0..(N - 1), j \in T, j < N - 1 PROVE j + 1 \in T
    <2>1. /\ N - j \in 1..N /\ N - (j + 1) \in 1..(N - 1) /\ (N - (j + 1)) + 1 = N - j
          /\ j + 1 \in 0..(N - 1)
        BY <1>1, <1>3
    <2>2. Parent[Hash(ch, N - j)] = Hash(ch, N - (j + 1))
        BY <2>1 DEF Gapless
    <2>3. Hash(ch, N - j) \in Block
        BY <2>1, Hashes
    <2>4. Truthful(Parent[Hash(ch, N - j)])
        BY <1>3, <2>3, TruthfulParent
    <2> QED
        BY <2>1, <2>2, <2>4
<1>4. 0..(N - 1) \subseteq T
    <2> HIDE DEF T
    <2> QED
        BY <1>1, <1>2, <1>3, Striking!Induct
<1>5. Truthful(Hash(ch, i))
    <2>1. N - i \in 0..(N - 1) /\ N - (N - i) = i
        BY <1>1
    <2>2. N - i \in T
        BY <1>4, <2>1
    <2> QED
        BY <2>1, <2>2
<1> QED
    BY <1>5, Hashes, TruthfulParent

\* The turns of a climb up to the last: what they went through.
LEMMA Passed ==
    ASSUME NEW e, NEW s, Base(e, s), NEW ch, Climbing(e.hon, s, ch)
    PROVE  LET last == LastTurn(s, ch)
               up(i) == Up[i][Foot(ch)]
           IN  /\ last \in Nat
               /\ \A i \in 0..last : up(i) \in Block /\ up(i) # Genesis /\ s.made[up(i)] > 0
               /\ \A i \in 0..(last - 1) : Right(up(i))
               /\ \A i \in 0..last : up(i + 1) = Parent[up(i)] /\ Parent[up(i)] \in Block
<1> DEFINE last == LastTurn(s, ch)
           up(i) == Up[i][Foot(ch)]
<1>1. Foot(ch) \in Block /\ Foot(ch) # Genesis /\ s.made[Foot(ch)] > 0
    BY SomeBlock DEF Climbing
<1>2. last \in Nat /\ \A j \in 0..(last - 1) : Turn(s, ch, j) = "push"
    BY <1>1, LastTurnIs
<1>3. \A i \in 0..last : up(i) \in Block /\ up(i + 1) = Parent[up(i)] /\ Parent[up(i)] \in Block
    BY <1>1, <1>2, UpBlock, UpNext, Numbers
<1>4. ASSUME NEW i \in 0..(last - 1)
      PROVE  /\ Parent[up(i)] \notin s.m_blocks /\ IsPending(s, Parent[up(i)])
             /\ Id[up(i)] > 1 /\ Id[up(i)] = Id[Parent[up(i)]] + 1
    BY <1>2, TurnPushes
<1>5. ASSUME NEW i \in 0..last PROVE up(i) # Genesis /\ s.made[up(i)] > 0
    <2>1. CASE i = 0
        BY <1>1, <2>1, UpNext
    <2>2. CASE i # 0
        <3>1. i - 1 \in 0..(last - 1) /\ i - 1 \in 0..last /\ (i - 1) + 1 = i
            BY <1>2, <2>2
        <3>2. up(i) = Parent[up(i - 1)]
            BY <1>3, <3>1
        <3>3. up(i) \notin s.m_blocks /\ IsPending(s, up(i)) /\ up(i) \in Block
            BY <1>3, <1>4, <3>1, <3>2
        <3> QED
            BY <3>3 DEF Base, Rooted
    <2> QED
        BY <2>1, <2>2
<1>6. ASSUME NEW i \in 0..(last - 1) PROVE Right(up(i))
    <2>1. i \in 0..last
        BY <1>2
    <2>2. up(i) \in Block /\ up(i) # Genesis
        BY <1>3, <1>5, <2>1
    <2>3. Id[up(i)] \in Nat /\ ~ Id[up(i)] <= 1 /\ Id[up(i)] = Id[Parent[up(i)]] + 1
        BY <1>4, <2>2, Numbers
    <2> HIDE DEF up
    <2> QED
        BY <2>2, <2>3 DEF Right, WrongHeight
<1> QED
    BY <1>2, <1>3, <1>5, <1>6

\* What a climb makes of a chain: one that climbs still.
LEMMA ClimbedOn ==
    ASSUME NEW e, NEW s, Base(e, s), NEW ch, Climbing(e.hon, s, ch)
    PROVE  LET up == Climb(s, ch).chain
               last == LastTurn(s, ch)
           IN  /\ Climbing(e.hon, s, up) /\ up.m_peer = ch.m_peer
               /\ up.m_brief_attached = ch.m_brief_attached
               /\ up.m_detail_attached = ch.m_detail_attached
               /\ Foot(up) = Up[last][Foot(ch)] /\ Tip(up) = Tip(ch)
               /\ up.m_declared_pow = ch.m_declared_pow /\ up.m_remain_pow = Left(ch, last)
<1> DEFINE last == LastTurn(s, ch)
           pbs == ch.m_req_blocks
           N == Len(pbs)
           over(i) == <<Up[last + 1 - i][Foot(ch)], s.made[Up[last + 1 - i][Foot(ch)]]>>
           new == [i \in 1..last |-> over(i)]
           all == new \o pbs
           up == Climb(s, ch).chain
<1>0. ch \in Chain /\ ch.m_req_blocks # <<>>
    BY DEF Climbing
<1>1. last \in Nat /\ N \in Nat /\ N # 0 /\ pbs \in Seq(PendingBlock) /\ Foot(ch) \in Block
    BY <1>0, Passed, SomeBlock DEF Chain
<1>2. up = [ch EXCEPT !.m_req_blocks = all, !.m_remain_pow = Left(ch, last)]
    BY DEF Climb, Climbed
<1>3. new \in Seq(PendingBlock) /\ Len(new) = last
    <2>1. ASSUME NEW i \in 1..last PROVE over(i) \in PendingBlock
        <3>1. last + 1 - i \in 0..last
            BY <1>1
        <3>2. Up[last + 1 - i][Foot(ch)] \in Block
            BY <3>1, Passed
        <3>3. s.made \in [Block -> Nat]
            BY DEF Base, Node
        <3> QED
            BY <3>2, <3>3 DEF PendingBlock
    <2> HIDE DEF over
    <2>2. new \in [1..last -> PendingBlock]
        BY <2>1
    <2> QED
        BY <1>1, <2>2
<1>4. /\ all \in Seq(PendingBlock) /\ Len(all) = last + N
      /\ \A i \in 1..last : all[i] = over(i)
      /\ \A i \in 1..N : all[last + i] = pbs[i]
    <2>1. \A i \in 1..last : new[i] = over(i)
        OBVIOUS
    <2> HIDE DEF new, over
    <2>2. \A i \in 1..(last + N) : all[i] = IF i <= last THEN new[i] ELSE pbs[i - last]
        BY <1>1, <1>3
    <2>3. \A i \in 1..last : i \in 1..(last + N) /\ i <= last
        BY <1>1
    <2>4. \A i \in 1..N : last + i \in 1..(last + N) /\ ~ last + i <= last /\ (last + i) - last = i
        BY <1>1
    <2>5. all \in Seq(PendingBlock) /\ Len(all) = last + N
        BY <1>1, <1>3
    <2> HIDE DEF all
    <2> QED
        BY <2>1, <2>2, <2>3, <2>4, <2>5
<1>5. Left(ch, last) \in Int /\ up.m_remain_pow = Left(ch, last) /\ ch.m_remain_pow \in Int
    <2>1. Parent[Foot(ch)] \in Block /\ Up[last + 1][Foot(ch)] \in Block
        BY <1>1, UpBlock, Numbers
    <2>2. Pow[Parent[Foot(ch)]] \in Nat /\ Pow[Up[last + 1][Foot(ch)]] \in Nat
        BY <2>1, Numbers
    <2>3. ch.m_remain_pow \in Int
        BY <1>0 DEF Chain
    <2> QED
        BY <1>0, <1>2, <2>2, <2>3 DEF Left, Chain
<1> HIDE DEF all, up, last, N, pbs
<1>6. /\ up.m_req_blocks = all /\ up.m_peer = ch.m_peer /\ up.m_start = ch.m_start
      /\ up.m_brief_attached = ch.m_brief_attached /\ up.m_detail_attached = ch.m_detail_attached
      /\ up.m_declared_pow = ch.m_declared_pow /\ up \in Chain
    BY <1>0, <1>2, <1>4, <1>5 DEF Chain
<1> USE DEF pbs, N
<1>7. \A i \in 1..(last + 1) : Hash(up, i) = Up[last + 1 - i][Foot(ch)]
    <2> SUFFICES ASSUME NEW i \in 1..(last + 1) PROVE Hash(up, i) = Up[last + 1 - i][Foot(ch)]
        OBVIOUS
    <2>1. CASE i \in 1..last
        BY <1>4, <1>6, <2>1 DEF Hash
    <2>2. CASE i = last + 1
        <3>1. last + 1 - i = 0 /\ Up[0][Foot(ch)] = Foot(ch) /\ 1 \in 1..N
            BY <1>1, <2>2, UpNext
        <3>2. all[last + 1] = pbs[1]
            BY <1>4, <3>1
        <3> QED
            BY <1>6, <2>2, <3>1, <3>2 DEF Hash, Foot
    <2> QED
        BY <1>1, <2>1, <2>2
<1>8. \A i \in 1..N : Hash(up, last + i) = Hash(ch, i)
    BY <1>4, <1>6 DEF Hash
<1>9. Foot(up) = Up[last][Foot(ch)] /\ Tip(up) = Tip(ch)
    <2>1. 1 \in 1..(last + 1) /\ last + 1 - 1 = last /\ N \in 1..N
        BY <1>1
    <2> QED
        BY <1>4, <1>6, <1>7, <1>8, <2>1 DEF Foot, Tip, Hash
<1>10. Gapless(up)
    <2> DEFINE L == Len(up.m_req_blocks)
    <2>0. L = last + N
        BY <1>4, <1>6
    <2> HIDE DEF L
    <2> SUFFICES ASSUME NEW i \in 1..(L - 1) PROVE Parent[Hash(up, i + 1)] = Hash(up, i)
        BY DEF Gapless, L
    <2>1. CASE i <= last
        <3>1. /\ i \in 1..(last + 1) /\ i + 1 \in 1..(last + 1) /\ last - i \in 0..last
              /\ last + 1 - (i + 1) = last - i /\ last + 1 - i = (last - i) + 1
            BY <1>1, <2>0, <2>1
        <3>2. Up[(last - i) + 1][Foot(ch)] = Parent[Up[last - i][Foot(ch)]]
            <4> DEFINE m == last - i
            <4>1. m \in Nat
                BY <1>1, <3>1
            <4> HIDE DEF m
            <4>2. Up[m + 1][Foot(ch)] = Parent[Up[m][Foot(ch)]]
                BY <1>1, <4>1, UpNext
            <4> QED
                BY <4>2 DEF m
        <3> QED
            BY <1>7, <3>1, <3>2
    <2>2. CASE ~ i <= last
        <3>1. /\ i - last \in 1..N - 1 /\ i - last \in 1..N /\ (i - last) + 1 \in 1..N
              /\ last + (i - last) = i /\ last + ((i - last) + 1) = i + 1
            BY <1>1, <2>0, <2>2
        <3>2. Parent[Hash(ch, (i - last) + 1)] = Hash(ch, i - last)
            BY <3>1 DEF Climbing, Gapless
        <3>3. Hash(up, i) = Hash(ch, i - last) /\ Hash(up, i + 1) = Hash(ch, (i - last) + 1)
            BY <1>8, <3>1
        <3> QED
            BY <3>2, <3>3
    <2> QED
        BY <2>1, <2>2
<1>11. Loyal(e.hon, up)
    BY <1>6, <1>9 DEF Loyal, Climbing
<1>12. \A i \in 1..Len(all) : Hash(up, i) # Genesis /\ s.made[Hash(up, i)] > 0
    <2> SUFFICES ASSUME NEW i \in 1..(last + N)
                 PROVE  Hash(up, i) # Genesis /\ s.made[Hash(up, i)] > 0
        BY <1>4
    <2>1. CASE i <= last
        <3>1. i \in 1..(last + 1) /\ last + 1 - i \in 0..last
            BY <1>1, <2>1
        <3> QED
            BY <1>7, <3>1, Passed DEF last
    <2>2. CASE ~ i <= last
        <3>1. i - last \in 1..N /\ last + (i - last) = i
            BY <1>1, <2>2
        <3>2. Hash(up, i) = Hash(ch, i - last)
            BY <1>8, <3>1
        <3> QED
            BY <3>1, <3>2 DEF Climbing
    <2> QED
        BY <2>1, <2>2
<1>13. \A i \in 2..Len(all) : Right(Hash(up, i))
    <2> SUFFICES ASSUME NEW i \in 2..(last + N) PROVE Right(Hash(up, i))
        BY <1>4
    <2>1. CASE i <= last + 1
        <3>1. i \in 1..(last + 1) /\ last + 1 - i \in 0..(last - 1)
            BY <1>1, <2>1
        <3> QED
            BY <1>7, <3>1, Passed DEF last
    <2>2. CASE ~ i <= last + 1
        <3>1. i - last \in 1..N /\ i - last \in 2..N /\ last + (i - last) = i
            BY <1>1, <2>2
        <3>2. Hash(up, i) = Hash(ch, i - last)
            BY <1>8, <3>1
        <3> QED
            BY <3>1, <3>2 DEF Climbing
    <2> QED
        BY <2>1, <2>2
<1>14. up.m_remain_pow = up.m_declared_pow - (Pow[Tip(up)] - Pow[Parent[Foot(up)]])
    <2>1. Tip(ch) \in Block /\ Parent[Foot(ch)] \in Block /\ Up[last + 1][Foot(ch)] \in Block
        BY <1>0, <1>1, SomeBlock, UpBlock, Numbers
    <2>2. Pow[Tip(ch)] \in Nat /\ Pow[Parent[Foot(ch)]] \in Nat /\ Pow[Up[last + 1][Foot(ch)]] \in Nat
        BY <2>1, Numbers
    <2>3. Parent[Foot(up)] = Up[last + 1][Foot(ch)]
        BY <1>1, <1>9, UpNext
    <2>4. ch.m_remain_pow = ch.m_declared_pow - (Pow[Tip(ch)] - Pow[Parent[Foot(ch)]])
        BY DEF Climbing
    <2>5. ch.m_declared_pow \in Nat
        BY <1>0 DEF Chain
    <2>6. Left(ch, last) = ch.m_remain_pow - (Pow[Parent[Foot(ch)]] - Pow[Up[last + 1][Foot(ch)]])
        BY DEF Left
    <2> QED
        BY <1>5, <1>6, <1>9, <2>2, <2>3, <2>4, <2>5, <2>6
<1>15. up.m_req_blocks # <<>> /\ up.m_start = 0
    BY <1>0, <1>1, <1>4, <1>6 DEF Climbing
<1>16. Climbing(e.hon, s, up)
    BY <1>6, <1>10, <1>11, <1>12, <1>13, <1>14, <1>15 DEF Climbing
<1> QED
    BY <1>5, <1>6, <1>9, <1>16 DEF up, last

\* The ends of a climb, and what each of them means.
LEMMA ClimbIs ==
    ASSUME NEW e, NEW s, Base(e, s), NEW ch, Climbing(e.hon, s, ch)
    PROVE  LET up == Climb(s, ch)
           IN  /\ Climbing(e.hon, s, up.chain) /\ up.chain.m_peer = ch.m_peer
               /\ up.chain.m_brief_attached = ch.m_brief_attached
               /\ up.chain.m_detail_attached = ch.m_detail_attached
               /\ Foot(up.chain) \in Block /\ Unknown(up.chain) \in Block
               /\ \/ up.end = "height" /\ Hurt(s)
                  \/ up.end = "work" /\ ch.m_peer \notin e.hon
                  \/ up.end = "known" /\ Grounded(e.hon, s, up.chain)
                  \/ up.end = "ask" /\ ~ IsPending(s, Unknown(up.chain))
<1> DEFINE last == LastTurn(s, ch)
           up == Climb(s, ch).chain
           b == Up[last][Foot(ch)]
           pre == Parent[b]
<1>1. /\ Climbing(e.hon, s, up) /\ up.m_peer = ch.m_peer
      /\ up.m_brief_attached = ch.m_brief_attached
      /\ up.m_detail_attached = ch.m_detail_attached
      /\ Foot(up) = b /\ Tip(up) = Tip(ch)
      /\ up.m_declared_pow = ch.m_declared_pow /\ up.m_remain_pow = Left(ch, last)
    BY ClimbedOn
<1>2. Foot(ch) \in Block /\ Tip(ch) \in Block
    BY SomeBlock DEF Climbing
<1>3. last \in Nat /\ Turn(s, ch, last) # "push"
    BY <1>2, LastTurnIs
<1>4. b \in Block /\ b # Genesis /\ s.made[b] > 0 /\ pre \in Block
    <2>1. last \in 0..last
        BY <1>3
    <2> QED
        BY <2>1, Passed
<1>5. /\ Id[b] \in Nat /\ Pow[b] \in Nat /\ Id[pre] \in Nat /\ Pow[pre] \in Nat
      /\ Parent[pre] \in Block /\ Pow[Parent[pre]] \in Nat /\ Pow[Tip(ch)] \in Nat
    BY <1>2, <1>4, Numbers
<1>6. up \in Chain /\ up.m_declared_pow \in Nat /\ up.m_remain_pow \in Int
    BY <1>1 DEF Climbing, Chain
<1>7. Left(ch, last) = up.m_declared_pow - (Pow[Tip(ch)] - Pow[pre])
    BY <1>1 DEF Climbing
<1>8. /\ Climb(s, ch).end = Turn(s, ch, last)
    BY DEF Climb, Climbed
<1>9. Unknown(up) = pre
    BY <1>1 DEF Unknown
<1> HIDE DEF up, b, pre, last
<1>10. \/ /\ Turn(s, ch, last) = "height"
          /\ pre \in s.m_blocks => Id[b] # Id[pre] + 1
          /\ pre \notin s.m_blocks => Id[b] <= 1 \/ Id[b] # Id[pre] + 1
       \/ /\ Turn(s, ch, last) = "work"
          /\ pre \in s.m_blocks => Pow[pre] # Left(ch, last)
          /\ pre \notin s.m_blocks => Left(ch, last) < Pow[pre] - Pow[Parent[pre]]
       \/ /\ Turn(s, ch, last) = "known"
          /\ pre \in s.m_blocks /\ Id[b] = Id[pre] + 1 /\ Pow[pre] = Left(ch, last)
       \/ Turn(s, ch, last) = "ask" /\ pre \notin s.m_blocks /\ ~ IsPending(s, pre)
    BY <1>2, <1>3, TurnNotPush DEF b, pre
<1>11. Genesis \in s.m_blocks /\ (pre \in s.m_blocks /\ pre # Genesis => Id[pre] > 0)
    BY DEF Base, Rooted
<1>12. ASSUME Turn(s, ch, last) = "height" PROVE Hurt(s)
    <2>1. Id[b] # Id[pre] + 1 \/ (Id[b] <= 1 /\ pre # Genesis)
        BY <1>10, <1>11, <1>12
    <2>2. b \in WrongHeight
        BY <1>4, <2>1 DEF WrongHeight, pre
    <2> QED
        BY <1>4, <2>2 DEF Hurt
<1>13. ASSUME Turn(s, ch, last) = "work" PROVE ch.m_peer \notin e.hon
    <2> SUFFICES ASSUME ch.m_peer \in e.hon PROVE FALSE
        OBVIOUS
    <2>1. up.m_declared_pow = Pow[Tip(ch)]
        BY <1>1 DEF Climbing, Loyal
    <2>2. Left(ch, last) = Pow[pre]
        BY <1>5, <1>7, <2>1
    <2> QED
        BY <1>5, <1>10, <1>13, <2>2
<1>14. ASSUME Turn(s, ch, last) = "known" PROVE Grounded(e.hon, s, up)
    <2>1. pre \in s.m_blocks /\ Id[b] = Id[pre] + 1 /\ Pow[pre] = Left(ch, last)
        BY <1>10, <1>14
    <2>2. up.m_declared_pow = Pow[Tip(up)]
        BY <1>1, <1>5, <1>6, <1>7, <2>1
    <2>3. b \notin WrongHeight
        <3>1. Id[b] <= 1 => pre = Genesis
            BY <1>5, <1>11, <2>1
        <3> QED
            BY <2>1, <3>1 DEF WrongHeight, pre
    <2>4. Right(b)
        BY <1>4, <2>3 DEF Right
    <2>5. Len(up.m_req_blocks) \in Nat /\ up.m_start < Len(up.m_req_blocks) /\ Hash(up, 1) = b
        <3>1. up.m_start = 0 /\ up.m_req_blocks # <<>>
            BY <1>1 DEF Climbing
        <3>2. 1 \in 1..Len(up.m_req_blocks) /\ Foot(up) = Hash(up, 1)
            BY <1>6, <3>1, SomeBlock
        <3> QED
            BY <1>1, <1>6, <3>1, <3>2, Lengths
    <2>6. \A i \in 1..Len(up.m_req_blocks) : Right(Hash(up, i))
        <3>1. \A i \in 2..Len(up.m_req_blocks) : Right(Hash(up, i))
            BY <1>1 DEF Climbing
        <3> QED
            BY <2>4, <2>5, <3>1
    <2>7. \A i \in 1..up.m_start : FALSE
        BY <1>1 DEF Climbing
    <2> QED
        BY <1>1, <1>6, <2>1, <2>2, <2>5, <2>6, <2>7 DEF Grounded, Climbing, pre
<1> QED
    BY <1>1, <1>4, <1>8, <1>9, <1>10, <1>12, <1>13, <1>14 DEF up, b

----------------------------------------------------------------------------
(* What the parts of the handlers do to the invariant.                     *)

\* The chains that are held are apart: two of one key are one, or both are dead.
LEMMA OneForKey ==
    ASSUME NEW e, Single(e), NEW s, NEW c \in ChainId, Held(e, s, c),
           NEW d \in ChainId, Held(e, s, d), KeyOf(s, c) = KeyOf(s, d), c # d
    PROVE  Dead(e, s, c) /\ Dead(e, s, d)
<1>1. None \notin ChainId
    BY BlockSyncAssumption
<1> QED
    BY <1>1 DEF Held, Dead

LEMMA KeyIs ==
    ASSUME NEW s, NEW c, s.chain[c] \in Chain
    PROVE  KeyOf(s, c) \in Keys /\ s.chain[c].m_peer \in Peer /\ KeyOf(s, c) \in Nat
<1>1. s.chain[c].m_peer \in Peer
    BY DEF Chain
<1> QED
    BY <1>1, BlockSyncAssumption DEF KeyOf, Keys

\* The chain in hand whose peer is connected is the one of its key.
LEMMA LiveKey ==
    ASSUME NEW e, NEW s, Base(e, s), NEW c, Held(e, s, c), ~ Closed(s, c)
    PROVE  /\ Single(e) => s.m_chains_by_peer_key[KeyOf(s, c)] = c
           /\ s.chain[c].m_peer \in e.mp
    BY DEF Held, Dead, Base, Closed

\* A key ends: the chains of rest that have it are given up, and left remains in
\* hand. While no key has doubled they are all the chains that it stood for.
LEMMA EraseSound ==
    ASSUME NEW e, NEW s, NEW x, NEW rest, Sound(e, s, x, rest), NEW k \in Keys,
           NEW left, left \subseteq rest, \A c \in rest \ left : KeyOf(s, c) = k,
           Single(e) => \A d \in ChainId :
               (Member(s, x, d) \/ d \in left) /\ KeyOf(s, d) = k => Dead(e, s, d)
    PROVE  Sound(e, EraseKey(s, k), x, left)
<1> DEFINE t == EraseKey(s, k)
<1>1. s \in Node /\ Base(e, s) /\ Tidy(e, s, x, rest) /\ Content(e, s, x)
    BY DEF Sound, Base
<1>2. t = [s EXCEPT !.m_chains_by_peer_key = [s.m_chains_by_peer_key EXCEPT ![k] = None]]
    BY <1>1 DEF EraseKey, Node
<1> DEFINE keys == [s.m_chains_by_peer_key EXCEPT ![k] = None]
<1>3. /\ keys \in [Keys -> ChainId \cup {None}] /\ keys[k] = None
      /\ \A l \in Keys \ {k} : keys[l] = s.m_chains_by_peer_key[l]
    BY <1>1 DEF Node
<1> HIDE DEF keys, t
<1>4. /\ t \in Node /\ t.m_chains_by_peer_key = keys
      /\ t.m_blocks = s.m_blocks /\ t.m_most_difficult_block = s.m_most_difficult_block
      /\ t.m_pending_block_hashes = s.m_pending_block_hashes /\ t.made = s.made
      /\ t.docs = s.docs /\ t.chain = s.chain
      /\ t.m_pending_brief_reqs = s.m_pending_brief_reqs
      /\ t.m_pending_detail_reqs = s.m_pending_detail_reqs
      /\ t.closed = s.closed /\ t.punished = s.punished /\ t.exited = s.exited
    BY <1>1, <1>2, <1>3 DEF Node
<1>5. Base(e, t)
    BY <1>1, <1>4 DEF Base, Rooted, IsPending, Hurt
<1>6. Content(e, t, x)
    BY <1>1, <1>4 DEF Content, Brief, Detail, Waiting, Asking, Climbing, Grounded
<1>7. \A d : KeyOf(t, d) = KeyOf(s, d) /\ Member(t, x, d) = Member(s, x, d)
    BY <1>4 DEF KeyOf, Member, Brief, Detail
<1>8. ASSUME NEW d \in ChainId, Held(e, s, d), Member(s, x, d) \/ d \in left PROVE Held(e, t, d)
    <2>1. KeyOf(s, d) \in Keys
        BY <1>8, KeyIs DEF Held
    <2>2. CASE KeyOf(s, d) = k /\ Single(e)
        <3>1. Dead(e, s, d)
            BY <1>8, <2>2
        <3> QED
            BY <1>3, <1>4, <1>7, <1>8, <2>2, <3>1 DEF Held, Dead
    <2>3. CASE KeyOf(s, d) # k
        BY <1>3, <1>4, <1>7, <1>8, <2>1, <2>3 DEF Held, Dead
    <2>4. CASE ~ Single(e)
        BY <1>4, <1>8, <2>4 DEF Held
    <2> QED
        BY <2>2, <2>3, <2>4
<1>9. Tidy(e, t, x, left)
    <2>1. Apart(e) /\ left \subseteq ChainId
        BY <1>1 DEF Tidy
    <2>2. /\ \A h \in Block : h # x => Neat(e, t, t.m_pending_brief_reqs[h])
          /\ \A h \in Block : Neat(e, t, t.m_pending_detail_reqs[h])
        BY <1>1, <1>4, <1>7 DEF Tidy, Neat
    <2>3. \A d \in ChainId : Member(t, x, d) => Held(e, t, d)
        BY <1>1, <1>7, <1>8 DEF Tidy
    <2>4. \A d \in left : Held(e, t, d) /\ ~ Member(t, x, d)
        BY <1>1, <1>7, <1>8 DEF Tidy
    <2>5. ASSUME NEW l \in Keys, t.m_chains_by_peer_key[l] # None
          PROVE  /\ KeyOf(t, t.m_chains_by_peer_key[l]) = l
                 /\ \/ t.m_chains_by_peer_key[l] \in left
                    \/ Placed(e, t, x, t.m_chains_by_peer_key[l])
        <3>1. l # k /\ t.m_chains_by_peer_key[l] = s.m_chains_by_peer_key[l]
            BY <1>3, <1>4, <2>5
        <3> DEFINE d == s.m_chains_by_peer_key[l]
        <3>2. KeyOf(s, d) = l /\ (d \in rest \/ Placed(e, s, x, d))
            BY <1>1, <2>5, <3>1 DEF Tidy
        <3>3. d \in rest => d \in left
            BY <3>1, <3>2
        <3>4. Placed(e, t, x, d) = Placed(e, s, x, d)
            BY <1>4 DEF Placed, Brief, Detail
        <3> QED
            BY <1>7, <3>1, <3>2, <3>3, <3>4
    <2> QED
        BY <2>1, <2>2, <2>3, <2>4, <2>5 DEF Tidy
<1> QED
    BY <1>5, <1>6, <1>9 DEF Sound, t

\* A chain in hand is given up.
LEMMA EraseHeld ==
    ASSUME NEW e, NEW s, NEW x, NEW rest, Sound(e, s, x, rest), NEW c \in rest
    PROVE  Sound(e, EraseKey(s, KeyOf(s, c)), x, rest \ {c})
<1> DEFINE k == KeyOf(s, c)
           left == rest \ {c}
<1>1. Tidy(e, s, x, rest)
    BY DEF Sound
<1>2. c \in ChainId /\ Held(e, s, c) /\ ~ Member(s, x, c) /\ k \in Keys
    BY <1>1, KeyIs DEF Tidy, Held
<1>3. left \subseteq rest /\ \A d \in rest \ left : KeyOf(s, d) = k
    OBVIOUS
<1>4. ASSUME Single(e), NEW d \in ChainId, Member(s, x, d) \/ d \in left, KeyOf(s, d) = k
      PROVE  Dead(e, s, d)
    <2>1. Held(e, s, d) /\ d # c
        BY <1>1, <1>2, <1>4 DEF Tidy
    <2> QED
        BY <1>2, <1>4, <2>1, OneForKey
<1> HIDE DEF k, left
<1> QED
    BY <1>2, <1>3, <1>4, EraseSound DEF k, left

\* The chains in hand, all of one key, are given up.
LEMMA EraseRest ==
    ASSUME NEW e, NEW s, NEW x, NEW R, Sound(e, s, x, R), NEW k \in Keys,
           \A c \in R : KeyOf(s, c) = k, Single(e) => R # {}
    PROVE  Sound(e, EraseKey(s, k), x, {})
<1>1. Tidy(e, s, x, R)
    BY DEF Sound
<1>2. ASSUME Single(e), NEW d \in ChainId, Member(s, x, d), KeyOf(s, d) = k
      PROVE  Dead(e, s, d)
    <2>1. PICK c \in R : TRUE
        BY <1>2
    <2>2. c \in ChainId /\ Held(e, s, c) /\ ~ Member(s, x, c) /\ Held(e, s, d) /\ KeyOf(s, c) = k
        BY <1>1, <1>2 DEF Tidy
    <2> QED
        BY <1>2, <2>2, OneForKey
<1> QED
    BY <1>2, EraseSound

\* A peer is punished.
LEMMA PunishSound ==
    ASSUME NEW e, NEW s, NEW x, NEW rest, Sound(e, s, x, rest), NEW p \in Peer,
           p \in e.hon => Hurt(s)
    PROVE  Sound(e, punish_peer(s, p), x, rest)
<1> DEFINE t == punish_peer(s, p)
<1>1. s \in Node /\ Base(e, s) /\ Tidy(e, s, x, rest) /\ Content(e, s, x)
    BY DEF Sound, Base
<1>2. t = [s EXCEPT !.closed = s.closed \cup {p}, !.punished = s.punished \cup {p}]
    BY <1>1 DEF punish_peer, Node
<1> HIDE DEF t
<1>3. /\ t \in Node /\ t.m_chains_by_peer_key = s.m_chains_by_peer_key
      /\ t.m_blocks = s.m_blocks /\ t.m_most_difficult_block = s.m_most_difficult_block
      /\ t.m_pending_block_hashes = s.m_pending_block_hashes /\ t.made = s.made
      /\ t.docs = s.docs /\ t.chain = s.chain
      /\ t.m_pending_brief_reqs = s.m_pending_brief_reqs
      /\ t.m_pending_detail_reqs = s.m_pending_detail_reqs /\ t.exited = s.exited
      /\ t.closed = s.closed \cup {p} /\ t.punished = s.punished \cup {p}
    BY <1>1, <1>2 DEF Node
<1>4. Base(e, t)
    BY <1>1, <1>3 DEF Base, Rooted, IsPending, Hurt
<1>5. Content(e, t, x)
    BY <1>1, <1>3 DEF Content, Brief, Detail, Waiting, Asking, Climbing, Grounded
<1>6. \A d : KeyOf(t, d) = KeyOf(s, d) /\ Member(t, x, d) = Member(s, x, d)
             /\ Placed(e, t, x, d) = Placed(e, s, x, d)
    BY <1>3 DEF KeyOf, Member, Placed, Brief, Detail
<1>7. ASSUME NEW d, Held(e, s, d) PROVE Held(e, t, d)
    BY <1>3, <1>6, <1>7 DEF Held, Dead
<1>8. Tidy(e, t, x, rest)
    <2>1. /\ \A h \in Block : h # x => Neat(e, t, t.m_pending_brief_reqs[h])
          /\ \A h \in Block : Neat(e, t, t.m_pending_detail_reqs[h])
        BY <1>1, <1>3, <1>6 DEF Tidy, Neat
    <2> QED
        BY <1>1, <1>3, <1>6, <1>7, <2>1 DEF Tidy
<1> QED
    BY <1>4, <1>5, <1>8 DEF Sound, t

\* A request stays neat while chains keep their keys.
LEMMA NeatIn ==
    ASSUME NEW e, NEW s, NEW t, NEW r \in Request, Neat(e, s, r),
           \A d \in ChainId : /\ KeyOf(t, d) = KeyOf(s, d)
                              /\ s.chain[d] \in Chain => t.chain[d] \in Chain
    PROVE  Neat(e, t, r)
<1>1. r.m_chains \subseteq ChainId
    BY DEF Request
<1>2. \A i \in DOMAIN r.m_attached_chains : r.m_attached_chains[i] \in ChainId
    <2>1. r.m_attached_chains \in Seq(ChainId)
        BY DEF Request
    <2> QED
        BY <2>1
<1> QED
    BY <1>1, <1>2 DEF Neat

\* A chain in hand is replaced by one of the same peer.
LEMMA SetHeld ==
    ASSUME NEW e, NEW s, NEW x, NEW rest, Sound(e, s, x, rest), NEW c \in rest,
           NEW ch \in Chain, ch.m_peer = s.chain[c].m_peer
    PROVE  Sound(e, [s EXCEPT !.chain[c] = ch], x, rest)
<1> DEFINE t == [s EXCEPT !.chain[c] = ch]
           new == [s.chain EXCEPT ![c] = ch]
<1>1. s \in Node /\ Base(e, s) /\ Tidy(e, s, x, rest) /\ Content(e, s, x)
    BY DEF Sound, Base
<1>2. Held(e, s, c) /\ ~ Member(s, x, c) /\ c \in ChainId
    BY <1>1 DEF Tidy
<1>3. /\ new \in [ChainId -> Chain \cup {NoChain}] /\ new[c] = ch
      /\ \A d \in ChainId \ {c} : new[d] = s.chain[d]
    BY <1>1, <1>2 DEF Node
<1>4. t = [s EXCEPT !.chain = new]
    BY <1>1 DEF Node
<1> HIDE DEF t, new
<1>5. /\ t \in Node /\ t.m_chains_by_peer_key = s.m_chains_by_peer_key
      /\ t.m_blocks = s.m_blocks /\ t.m_most_difficult_block = s.m_most_difficult_block
      /\ t.m_pending_block_hashes = s.m_pending_block_hashes /\ t.made = s.made
      /\ t.docs = s.docs /\ t.chain = new
      /\ t.m_pending_brief_reqs = s.m_pending_brief_reqs
      /\ t.m_pending_detail_reqs = s.m_pending_detail_reqs
      /\ t.closed = s.closed /\ t.punished = s.punished /\ t.exited = s.exited
    BY <1>1, <1>3, <1>4 DEF Node
<1>6. Base(e, t)
    BY <1>1, <1>5 DEF Base, Rooted, IsPending, Hurt
<1>7. /\ \A d \in ChainId : KeyOf(t, d) = KeyOf(s, d) /\ t.chain[d].m_peer = s.chain[d].m_peer
      /\ \A d \in ChainId : Member(t, x, d) = Member(s, x, d)
      /\ \A d \in ChainId \ {c} : t.chain[d] = s.chain[d]
    BY <1>3, <1>5 DEF KeyOf, Member, Brief, Detail
<1>8. \A h \in Block : Brief(t, h) = Brief(s, h) /\ Detail(t, h) = Detail(s, h)
    BY <1>5 DEF Brief, Detail
<1>9. \A h \in Block : Brief(s, h) \subseteq ChainId /\ Detail(s, h) \subseteq ChainId
    BY <1>1 DEF Brief, Detail, Node, Request
<1>10. Content(e, t, x)
    <2>1. ASSUME NEW h \in Block, h # x, NEW d \in Brief(t, h) PROVE Waiting(e.hon, t, d, h)
        <3>1. d \in ChainId \ {c} /\ Waiting(e.hon, s, d, h)
            BY <1>1, <1>2, <1>8, <1>9, <2>1 DEF Member, Content
        <3> QED
            BY <1>5, <1>7, <3>1 DEF Waiting, Climbing
    <2>2. ASSUME NEW h \in Block, NEW d \in Detail(t, h) PROVE Asking(e.hon, t, d, h)
        <3>1. d \in ChainId \ {c} /\ Asking(e.hon, s, d, h)
            BY <1>1, <1>2, <1>8, <1>9, <2>2 DEF Member, Content
        <3> QED
            BY <1>5, <1>7, <3>1 DEF Asking, Grounded
    <2> QED
        BY <2>1, <2>2 DEF Content
<1>11. ASSUME NEW d \in ChainId, Held(e, s, d) PROVE Held(e, t, d)
    <2>1. t.chain[d] \in Chain
        BY <1>3, <1>5, <1>7, <1>11 DEF Held
    <2> QED
        BY <1>5, <1>7, <1>11, <2>1 DEF Held, Dead
<1>12. Tidy(e, t, x, rest)
    <2>1. /\ \A h \in Block : h # x => Neat(e, t, t.m_pending_brief_reqs[h])
          /\ \A h \in Block : Neat(e, t, t.m_pending_detail_reqs[h])
        <3>1. \A d \in ChainId : s.chain[d] \in Chain => t.chain[d] \in Chain
            BY <1>3, <1>5, <1>7
        <3>2. \A h \in Block : s.m_pending_brief_reqs[h] \in Request
                             /\ s.m_pending_detail_reqs[h] \in Request
            BY <1>1 DEF Node
        <3> QED
            BY <1>1, <1>5, <1>7, <3>1, <3>2, NeatIn DEF Tidy
    <2>2. ASSUME NEW l \in Keys, t.m_chains_by_peer_key[l] # None
          PROVE  /\ KeyOf(t, t.m_chains_by_peer_key[l]) = l
                 /\ \/ t.m_chains_by_peer_key[l] \in rest
                    \/ Placed(e, t, x, t.m_chains_by_peer_key[l])
        <3> DEFINE d == s.m_chains_by_peer_key[l]
        <3>1. d \in ChainId /\ t.m_chains_by_peer_key[l] = d
            BY <1>1, <1>5, <2>2 DEF Node
        <3>2. KeyOf(s, d) = l /\ (d \in rest \/ Placed(e, s, x, d))
            BY <1>1, <2>2, <3>1 DEF Tidy
        <3>3. d # c => Placed(e, t, x, d) = Placed(e, s, x, d)
            BY <1>5, <1>7, <3>1 DEF Placed, Brief, Detail
        <3> QED
            BY <1>7, <3>1, <3>2, <3>3
    <2> QED
        BY <1>1, <1>7, <1>11, <2>1, <2>2 DEF Tidy
<1> QED
    BY <1>6, <1>10, <1>12 DEF Sound, t

\* A chain in hand that was put into one request, where it belongs.
Joins(e, s, t, x, c) ==
    /\ t \in Node
    /\ t.m_blocks = s.m_blocks /\ t.m_most_difficult_block = s.m_most_difficult_block
    /\ t.m_pending_block_hashes = s.m_pending_block_hashes /\ t.made = s.made
    /\ t.docs = s.docs
    /\ \/ t.m_chains_by_peer_key = s.m_chains_by_peer_key
       \/ ~ Single(e) /\ t.m_chains_by_peer_key
                          = [s.m_chains_by_peer_key EXCEPT ![KeyOf(s, c)] = c]
    /\ t.closed = s.closed /\ t.punished = s.punished /\ t.exited = s.exited
    /\ t.chain[c] \in Chain /\ t.chain[c].m_peer = s.chain[c].m_peer
    /\ \A d \in ChainId \ {c} : t.chain[d] = s.chain[d]
    /\ \A h \in Block :
           h # x => /\ Neat(e, t, t.m_pending_brief_reqs[h]) /\ Brief(t, h) \ {c} = Brief(s, h)
                    /\ c \in Brief(t, h) => Waiting(e.hon, t, c, h)
    /\ \A h \in Block :
           /\ Neat(e, t, t.m_pending_detail_reqs[h]) /\ Detail(t, h) \ {c} = Detail(s, h)
           /\ c \in Detail(t, h) => Asking(e.hon, t, c, h)
    /\ Placed(e, t, x, c)

LEMMA JoinSound ==
    ASSUME NEW e, NEW s, NEW x, NEW rest, Sound(e, s, x, rest), NEW c \in rest,
           NEW t, Joins(e, s, t, x, c)
    PROVE  Sound(e, t, x, rest \ {c})
<1>1. s \in Node /\ Base(e, s) /\ Tidy(e, s, x, rest) /\ Content(e, s, x)
    BY DEF Sound, Base
<1>2. Held(e, s, c) /\ c \in ChainId
    BY <1>1 DEF Tidy
<1>3. /\ t \in Node /\ t.m_blocks = s.m_blocks /\ t.m_most_difficult_block = s.m_most_difficult_block
      /\ t.m_pending_block_hashes = s.m_pending_block_hashes /\ t.made = s.made
      /\ t.docs = s.docs
      /\ t.closed = s.closed /\ t.punished = s.punished /\ t.exited = s.exited
      /\ Single(e) => t.m_chains_by_peer_key = s.m_chains_by_peer_key
      /\ \A k \in Keys : \/ t.m_chains_by_peer_key[k] = s.m_chains_by_peer_key[k]
                         \/ k = KeyOf(s, c) /\ t.m_chains_by_peer_key[k] = c
    <2>1. s.m_chains_by_peer_key \in [Keys -> ChainId \cup {None}]
        BY <1>1 DEF Node
    <2> QED
        BY <2>1 DEF Joins
<1>4. Base(e, t)
    BY <1>1, <1>3 DEF Base, Rooted, IsPending, Hurt
<1>5. /\ \A d \in ChainId : KeyOf(t, d) = KeyOf(s, d) /\ t.chain[d].m_peer = s.chain[d].m_peer
      /\ \A d \in ChainId \ {c} : t.chain[d] = s.chain[d]
    BY DEF KeyOf, Joins
<1>6. /\ \A h \in Block : h # x => Brief(t, h) \ {c} = Brief(s, h)
      /\ \A h \in Block : Detail(t, h) \ {c} = Detail(s, h)
    BY DEF Joins
<1>7. \A d : d # c => Member(t, x, d) = Member(s, x, d)
    BY <1>6 DEF Member
<1>8. \A h \in Block : Brief(t, h) \subseteq ChainId /\ Detail(t, h) \subseteq ChainId
    BY <1>3 DEF Brief, Detail, Node, Request
<1>9. Content(e, t, x)
    <2>1. ASSUME NEW h \in Block, h # x, NEW d \in Brief(t, h) PROVE Waiting(e.hon, t, d, h)
        <3>1. CASE d = c
            BY <2>1, <3>1 DEF Joins
        <3>2. CASE d # c
            <4>1. d \in ChainId \ {c} /\ Waiting(e.hon, s, d, h)
                BY <1>1, <1>6, <1>8, <2>1, <3>2 DEF Content
            <4> QED
                BY <1>3, <1>5, <4>1 DEF Waiting, Climbing
        <3> QED
            BY <3>1, <3>2
    <2>2. ASSUME NEW h \in Block, NEW d \in Detail(t, h) PROVE Asking(e.hon, t, d, h)
        <3>1. CASE d = c
            BY <2>2, <3>1 DEF Joins
        <3>2. CASE d # c
            <4>1. d \in ChainId \ {c} /\ Asking(e.hon, s, d, h)
                BY <1>1, <1>6, <1>8, <2>2, <3>2 DEF Content
            <4> QED
                BY <1>3, <1>5, <4>1 DEF Asking, Grounded
        <3> QED
            BY <3>1, <3>2
    <2> QED
        BY <2>1, <2>2 DEF Content
<1>10. ASSUME NEW d \in ChainId, Held(e, s, d) PROVE Held(e, t, d)
    <2>1. t.chain[d] \in Chain
        BY <1>5, <1>10 DEF Held, Joins
    <2> QED
        BY <1>3, <1>5, <1>10, <2>1 DEF Held, Dead
<1>11. Tidy(e, t, x, rest \ {c})
    <2>1. /\ \A h \in Block : h # x => Neat(e, t, t.m_pending_brief_reqs[h])
          /\ \A h \in Block : Neat(e, t, t.m_pending_detail_reqs[h])
        BY DEF Joins
    <2>2. \A d \in ChainId : Member(t, x, d) => Held(e, t, d)
        BY <1>1, <1>2, <1>7, <1>10 DEF Tidy
    <2>3. \A d \in rest \ {c} : Held(e, t, d) /\ ~ Member(t, x, d)
        BY <1>1, <1>7, <1>10 DEF Tidy
    <2>4. ASSUME NEW l \in Keys, t.m_chains_by_peer_key[l] # None
          PROVE  /\ KeyOf(t, t.m_chains_by_peer_key[l]) = l
                 /\ \/ t.m_chains_by_peer_key[l] \in rest \ {c}
                    \/ Placed(e, t, x, t.m_chains_by_peer_key[l])
        <3> DEFINE d == t.m_chains_by_peer_key[l]
        <3>0. CASE d = c /\ l = KeyOf(s, c)
            BY <1>2, <1>5, <3>0 DEF Joins
        <3>1. CASE d = s.m_chains_by_peer_key[l]
            <4>1. d \in ChainId
                BY <1>1, <2>4, <3>1 DEF Node
            <4>2. KeyOf(s, d) = l /\ (d \in rest \/ Placed(e, s, x, d))
                BY <1>1, <2>4, <3>1 DEF Tidy
            <4>3. d # c /\ Placed(e, s, x, d) => Placed(e, t, x, d)
                BY <1>5, <1>6, <4>1 DEF Placed
            <4>4. Placed(e, t, x, c)
                BY DEF Joins
            <4> QED
                BY <1>5, <3>1, <4>1, <4>2, <4>3, <4>4
        <3> QED
            BY <1>3, <3>0, <3>1
    <2>5. Apart(e) /\ rest \ {c} \subseteq ChainId
        BY <1>1 DEF Tidy
    <2> QED
        BY <2>1, <2>2, <2>3, <2>4, <2>5 DEF Tidy
<1> QED
    BY <1>4, <1>9, <1>11 DEF Sound

\* A request that a chain joins.
LEMMA JoinedIs ==
    ASSUME NEW e, NEW s, NEW r \in Request, NEW c \in ChainId, Neat(e, s, r), c \notin r.m_chains,
           s.chain[c] \in Chain, Single(e) => \A d \in r.m_chains : KeyOf(s, d) # KeyOf(s, c)
    PROVE  /\ Joined(s, r, c) \in Request /\ Joined(s, r, c).m_chains \ {c} = r.m_chains
           /\ Single(e) => c \in Joined(s, r, c).m_chains
           /\ Neat(e, s, Joined(s, r, c))
<1> DEFINE q == r.m_attached_chains
           j == Joined(s, r, c)
<1>1. /\ r.m_chains \subseteq ChainId /\ q \in Seq(ChainId)
      /\ r.m_try_num \in Nat /\ r.m_send_num \in Nat
    BY DEF Request
<1>2. CASE r.m_try_num = 0
    <2>1. j = [m_chains |-> {c}, m_attached_chains |-> <<>>, m_try_num |-> 1, m_send_num |-> 1]
        BY <1>2 DEF Joined
    <2>2. r.m_chains = {}
        BY <1>2 DEF Neat
    <2>3. <<>> \in Seq(ChainId) /\ DOMAIN <<>> = {}
        OBVIOUS
    <2> HIDE DEF j
    <2>4. /\ j.m_chains = {c} /\ j.m_attached_chains = <<>> /\ j.m_try_num = 1
          /\ j \in Request
        BY <2>1, <2>3 DEF Request
    <2> QED
        BY <2>2, <2>3, <2>4 DEF Neat, j
<1>3. CASE r.m_try_num # 0
    <2> DEFINE S == InsertChain(s, r.m_chains, c)
               in == [r EXCEPT !.m_chains = S]
    <2>1. /\ S \subseteq ChainId /\ S \ {c} = r.m_chains
          /\ Single(e) => c \in S
          /\ \A d, g \in S : KeyOf(s, d) = KeyOf(s, g) => d = g
        <3>1. CASE \E d \in r.m_chains : KeyOf(s, d) = KeyOf(s, c)
            <4>1. S = r.m_chains /\ ~ Single(e)
                BY <3>1 DEF InsertChain
            <4> QED
                BY <1>1, <4>1 DEF Neat
        <3>2. CASE ~ \E d \in r.m_chains : KeyOf(s, d) = KeyOf(s, c)
            <4>1. S = r.m_chains \cup {c}
                BY <3>2 DEF InsertChain
            <4> QED
                BY <1>1, <3>2, <4>1 DEF Neat
        <3> QED
            BY <3>1, <3>2
    <2>2. in = [r EXCEPT !.m_chains = InsertChain(s, @, c)]
        BY DEF Request
    <2> HIDE DEF S
    <2>3. \/ j = [in EXCEPT !.m_attached_chains = Append(q, c)]
          \/ j = [in EXCEPT !.m_send_num = r.m_send_num + 1]
        <3>1. in.m_attached_chains = q /\ in.m_send_num = r.m_send_num
            BY DEF Request
        <3>2. \/ j = [in EXCEPT !.m_attached_chains = Append(@, c)]
              \/ j = [in EXCEPT !.m_send_num = @ + 1]
            <4> HIDE DEF in
            <4> QED
                BY <1>3, <2>2 DEF Joined
        <3>3. in \in Request
            BY <1>1, <2>1 DEF Request
        <3> HIDE DEF in, j
        <3> QED
            BY <3>1, <3>2, <3>3 DEF Request
    <2>4. Append(q, c) \in Seq(ChainId) /\ r.m_send_num + 1 \in Nat
        BY <1>1
    <2>5. /\ j \in Request /\ j.m_chains = S /\ j.m_try_num = r.m_try_num
          /\ j.m_attached_chains \in {q, Append(q, c)}
        <3> HIDE DEF j
        <3> QED
            BY <1>1, <2>1, <2>3, <2>4 DEF Request
    <2> HIDE DEF j
    <2>6. \A i \in DOMAIN q : IF Single(e) THEN q[i] \in r.m_chains /\ q[i] # c
                              ELSE s.chain[q[i]] \in Chain
        BY DEF Neat
    <2>7. Single(e) => \A i, l \in DOMAIN q : q[i] = q[l] => i = l
        BY DEF Neat
    <2> HIDE DEF q
    <2>8. Single(e) => r.m_chains \cup {c} \subseteq S
        BY <2>1
    <2>9. ASSUME j.m_attached_chains = q PROVE Neat(e, s, j)
        BY <1>3, <2>1, <2>5, <2>6, <2>7, <2>8, <2>9 DEF Neat
    <2>10. ASSUME j.m_attached_chains = Append(q, c) PROVE Neat(e, s, j)
        <3> DEFINE p == Append(q, c)
        <3>1. /\ Len(q) \in Nat /\ DOMAIN q = 1..Len(q) /\ DOMAIN p = 1..(Len(q) + 1)
              /\ p[Len(q) + 1] = c /\ \A i \in 1..Len(q) : p[i] = q[i]
            BY <1>1
        <3> HIDE DEF p
        <3>2. \A i \in DOMAIN p : i \in DOMAIN q \/ i = Len(q) + 1
            BY <3>1
        <3>3. \A i \in DOMAIN p : IF Single(e) THEN p[i] \in S ELSE s.chain[p[i]] \in Chain
            BY <2>6, <2>8, <3>1, <3>2
        <3>4. Single(e) => \A i, l \in DOMAIN p : p[i] = p[l] => i = l
            BY <2>6, <2>7, <3>1, <3>2
        <3>5. j.m_attached_chains = p
            BY <2>10 DEF p
        <3> QED
            BY <1>3, <2>1, <2>5, <3>3, <3>4, <3>5 DEF Neat
    <2> QED
        BY <2>1, <2>5, <2>9, <2>10 DEF j
<1> QED
    BY <1>2, <1>3

\* No request lists a chain of the key of a live chain in hand.
LEMMA NoneOfKey ==
    ASSUME NEW e, Single(e), NEW s, NEW x, NEW rest, Sound(e, s, x, rest),
           NEW c \in rest, ~ Closed(s, c)
    PROVE  /\ \A h \in Block : h # x => \A d \in Brief(s, h) : KeyOf(s, d) # KeyOf(s, c)
           /\ \A h \in Block : \A d \in Detail(s, h) : KeyOf(s, d) # KeyOf(s, c)
<1>1. s \in Node /\ Base(e, s) /\ Tidy(e, s, x, rest)
    BY DEF Sound, Base
<1>2. Held(e, s, c) /\ ~ Member(s, x, c) /\ c \in ChainId
    BY <1>1 DEF Tidy
<1>3. s.m_chains_by_peer_key[KeyOf(s, c)] = c
    BY <1>1, <1>2, LiveKey
<1>4. ASSUME NEW d \in ChainId, Member(s, x, d) PROVE KeyOf(s, d) # KeyOf(s, c)
    <2>1. Held(e, s, d) /\ d # c /\ ~ Dead(e, s, c)
        BY <1>1, <1>2, <1>3, <1>4, BlockSyncAssumption DEF Tidy, Dead
    <2> QED
        BY <1>2, <2>1, OneForKey
<1>5. \A h \in Block : Brief(s, h) \subseteq ChainId /\ Detail(s, h) \subseteq ChainId
    BY <1>1 DEF Brief, Detail, Node, Request
<1> QED
    BY <1>4, <1>5 DEF Member

\* A live chain in hand asks for the header below it.
LEMMA AskBriefJoins ==
    ASSUME NEW e, NEW s, NEW x, NEW rest, Sound(e, s, x, rest), NEW c \in rest, ~ Closed(s, c),
           NEW h \in Block, h # x, Climbing(e.hon, s, s.chain[c]), Unknown(s.chain[c]) = h
    PROVE  /\ Joins(e, s, AskBrief(s, h, c), x, c)
           /\ \A g \in Block \ {h} : AskBrief(s, h, c).m_pending_brief_reqs[g]
                                       = s.m_pending_brief_reqs[g]
<1> DEFINE k == KeyOf(s, c)
           t == AskBrief(s, h, c)
           r == s.m_pending_brief_reqs[h]
           ch == [s.chain[c] EXCEPT !.m_brief_attached = h]
           chains == [s.chain EXCEPT ![c] = ch]
           reqs == [s.m_pending_brief_reqs EXCEPT ![h] = Joined(s, r, c)]
           keys == [s.m_chains_by_peer_key EXCEPT ![k] = IF @ = None THEN c ELSE @]
<1>1. s \in Node /\ Base(e, s) /\ Tidy(e, s, x, rest) /\ Content(e, s, x)
    BY DEF Sound, Base
<1>2. Held(e, s, c) /\ c \in ChainId /\ ~ Member(s, x, c) /\ s.chain[c] \in Chain /\ k \in Keys
    BY <1>1, KeyIs DEF Tidy, Held
<1>3. Single(e) => s.m_chains_by_peer_key[k] = c /\ c # None
    BY <1>1, <1>2, LiveKey, BlockSyncAssumption
<1>4. /\ keys \in [Keys -> ChainId \cup {None}]
      /\ \/ keys = s.m_chains_by_peer_key
         \/ ~ Single(e) /\ keys = [s.m_chains_by_peer_key EXCEPT ![k] = c]
    <2>1. s.m_chains_by_peer_key \in [Keys -> ChainId \cup {None}]
        BY <1>1 DEF Node
    <2> HIDE DEF k
    <2>2. CASE s.m_chains_by_peer_key[k] = None
        BY <1>2, <1>3, <2>1, <2>2
    <2>3. CASE s.m_chains_by_peer_key[k] # None
        BY <1>2, <2>1, <2>3
    <2> QED
        BY <2>2, <2>3
<1>5. r \in Request /\ Neat(e, s, r) /\ c \notin r.m_chains
    BY <1>1, <1>2 DEF Node, Tidy, Member, Brief
<1>6. Single(e) => \A d \in r.m_chains : KeyOf(s, d) # KeyOf(s, c)
    BY NoneOfKey DEF Brief
<1>7. /\ Joined(s, r, c) \in Request /\ Joined(s, r, c).m_chains \ {c} = r.m_chains
      /\ Single(e) => c \in Joined(s, r, c).m_chains
      /\ Neat(e, s, Joined(s, r, c))
    <2> HIDE DEF r
    <2> QED
        BY <1>2, <1>5, <1>6, JoinedIs
<1>8. /\ ch \in Chain /\ ch.m_peer = s.chain[c].m_peer /\ ch.m_brief_attached = h
      /\ Unknown(ch) = h /\ Climbing(e.hon, s, ch)
    <2>1. /\ ch \in Chain /\ ch.m_peer = s.chain[c].m_peer /\ ch.m_brief_attached = h
          /\ ch.m_req_blocks = s.chain[c].m_req_blocks
          /\ ch.m_declared_pow = s.chain[c].m_declared_pow
          /\ ch.m_remain_pow = s.chain[c].m_remain_pow /\ ch.m_start = s.chain[c].m_start
        BY <1>2 DEF Chain
    <2> HIDE DEF ch
    <2> QED
        BY <2>1 DEF Climbing, Gapless, Loyal, Hash, Tip, Foot, Unknown
<1> DEFINE J == Joined(s, r, c)
<1> HIDE DEF J, ch
<1>9. t = [s EXCEPT !.m_pending_brief_reqs = reqs, !.chain = chains, !.m_chains_by_peer_key = keys]
    BY <1>1 DEF AskBrief, Node, J, ch
<1>10. /\ reqs \in [Block -> Request] /\ reqs[h] = J
       /\ \A g \in Block \ {h} : reqs[g] = s.m_pending_brief_reqs[g]
       /\ chains \in [ChainId -> Chain \cup {NoChain}] /\ chains[c] = ch
       /\ \A d \in ChainId \ {c} : chains[d] = s.chain[d]
    BY <1>1, <1>2, <1>7, <1>8 DEF Node, J
<1> HIDE DEF t, reqs, chains, keys
<1>11. /\ t \in Node /\ t.m_chains_by_peer_key = keys
       /\ t.m_blocks = s.m_blocks /\ t.m_most_difficult_block = s.m_most_difficult_block
       /\ t.m_pending_block_hashes = s.m_pending_block_hashes /\ t.made = s.made
       /\ t.docs = s.docs /\ t.chain = chains
       /\ t.m_pending_brief_reqs = reqs
       /\ t.m_pending_detail_reqs = s.m_pending_detail_reqs
       /\ t.closed = s.closed /\ t.punished = s.punished /\ t.exited = s.exited
    BY <1>1, <1>4, <1>9, <1>10 DEF Node
<1>12. \A d \in ChainId : /\ KeyOf(t, d) = KeyOf(s, d)
                          /\ s.chain[d] \in Chain => t.chain[d] \in Chain
    BY <1>8, <1>10, <1>11 DEF KeyOf
<1>13. ASSUME NEW g \in Block, g # x
       PROVE  /\ Neat(e, t, t.m_pending_brief_reqs[g]) /\ Brief(t, g) \ {c} = Brief(s, g)
              /\ c \in Brief(t, g) => Waiting(e.hon, t, c, g)
    <2>1. c \notin Brief(s, g) /\ Neat(e, s, s.m_pending_brief_reqs[g])
        BY <1>1, <1>2, <1>13 DEF Member, Tidy
    <2>2. CASE g = h
        <3>1. Neat(e, t, J)
            BY <1>7, <1>12, NeatIn DEF J
        <3>2. Brief(t, h) \ {c} = Brief(s, h)
            BY <1>7, <1>10, <1>11 DEF Brief, J
        <3>3. Waiting(e.hon, t, c, h)
            BY <1>8, <1>10, <1>11 DEF Waiting, Climbing
        <3> QED
            BY <1>10, <1>11, <2>1, <2>2, <3>1, <3>2, <3>3
    <2>3. CASE g # h
        <3>1. t.m_pending_brief_reqs[g] = s.m_pending_brief_reqs[g]
            BY <1>10, <1>11, <2>3
        <3>2. s.m_pending_brief_reqs[g] \in Request
            BY <1>1 DEF Node
        <3>3. Neat(e, t, s.m_pending_brief_reqs[g])
            BY <1>12, <2>1, <3>2, NeatIn
        <3>4. Brief(t, g) = Brief(s, g)
            BY <3>1 DEF Brief
        <3> QED
            BY <2>1, <3>1, <3>3, <3>4
    <2> QED
        BY <2>2, <2>3
<1>14. ASSUME NEW g \in Block
       PROVE  /\ Neat(e, t, t.m_pending_detail_reqs[g]) /\ Detail(t, g) \ {c} = Detail(s, g)
              /\ c \in Detail(t, g) => Asking(e.hon, t, c, g)
    <2>1. c \notin Detail(s, g) /\ Neat(e, s, s.m_pending_detail_reqs[g])
        BY <1>1, <1>2 DEF Member, Tidy
    <2>2. s.m_pending_detail_reqs[g] \in Request
        BY <1>1 DEF Node
    <2>3. Neat(e, t, s.m_pending_detail_reqs[g])
        BY <1>12, <2>1, <2>2, NeatIn
    <2>4. Detail(t, g) = Detail(s, g)
        BY <1>11 DEF Detail
    <2> QED
        BY <1>11, <2>1, <2>3, <2>4
<1>15. Placed(e, t, x, c)
    <2>1. /\ Single(e) => c \in Brief(t, h)
          /\ t.chain[c] \in Chain /\ t.chain[c].m_brief_attached = h /\ h # None
        BY <1>7, <1>8, <1>10, <1>11, BlockSyncAssumption DEF Brief, J
    <2> QED
        BY <2>1 DEF Placed
<1>16. \A g \in Block \ {h} : t.m_pending_brief_reqs[g] = s.m_pending_brief_reqs[g]
    BY <1>10, <1>11
<1>17. Joins(e, s, t, x, c)
    BY <1>4, <1>8, <1>10, <1>11, <1>13, <1>14, <1>15 DEF Joins, k
<1> QED
    BY <1>16, <1>17 DEF t

\* A live chain in hand asks for the block it is at.
LEMMA AskDetailJoins ==
    ASSUME NEW e, NEW s, NEW x, NEW rest, Sound(e, s, x, rest), NEW c \in rest, ~ Closed(s, c),
           NEW h \in Block, Grounded(e.hon, s, s.chain[c]),
           Hash(s.chain[c], s.chain[c].m_start + 1) = h
    PROVE  /\ Joins(e, s, AskDetail(s, h, c), x, c)
           /\ AskDetail(s, h, c).m_pending_brief_reqs = s.m_pending_brief_reqs
<1> DEFINE t == AskDetail(s, h, c)
           r == s.m_pending_detail_reqs[h]
           ch == [s.chain[c] EXCEPT !.m_detail_attached = h, !.m_brief_attached = None]
           chains == [s.chain EXCEPT ![c] = ch]
           reqs == [s.m_pending_detail_reqs EXCEPT ![h] = Joined(s, r, c)]
<1>1. s \in Node /\ Base(e, s) /\ Tidy(e, s, x, rest) /\ Content(e, s, x)
    BY DEF Sound, Base
<1>2. Held(e, s, c) /\ c \in ChainId /\ ~ Member(s, x, c) /\ s.chain[c] \in Chain
    BY <1>1 DEF Tidy, Held
<1>5. r \in Request /\ Neat(e, s, r) /\ c \notin r.m_chains
    BY <1>1, <1>2 DEF Node, Tidy, Member, Detail
<1>6. Single(e) => \A d \in r.m_chains : KeyOf(s, d) # KeyOf(s, c)
    BY NoneOfKey DEF Detail
<1>7. /\ Joined(s, r, c) \in Request /\ Joined(s, r, c).m_chains \ {c} = r.m_chains
      /\ Single(e) => c \in Joined(s, r, c).m_chains
      /\ Neat(e, s, Joined(s, r, c))
    <2> HIDE DEF r
    <2> QED
        BY <1>2, <1>5, <1>6, JoinedIs
<1>8. /\ ch \in Chain /\ ch.m_peer = s.chain[c].m_peer
      /\ ch.m_brief_attached = None /\ ch.m_detail_attached = h
      /\ Grounded(e.hon, s, ch) /\ Hash(ch, ch.m_start + 1) = h
    <2>1. /\ ch \in Chain /\ ch.m_peer = s.chain[c].m_peer
          /\ ch.m_brief_attached = None /\ ch.m_detail_attached = h
          /\ ch.m_req_blocks = s.chain[c].m_req_blocks
          /\ ch.m_declared_pow = s.chain[c].m_declared_pow /\ ch.m_start = s.chain[c].m_start
        BY <1>2 DEF Chain
    <2> HIDE DEF ch
    <2> QED
        BY <2>1 DEF Grounded, Gapless, Loyal, Hash, Tip, Foot
<1> DEFINE J == Joined(s, r, c)
<1>9. t = [s EXCEPT !.m_pending_detail_reqs = reqs, !.chain = chains]
    <2> DEFINE u == [s EXCEPT !.m_pending_detail_reqs = reqs]
               mid == [s.chain[c] EXCEPT !.m_detail_attached = h]
               v == [u EXCEPT !.chain = [s.chain EXCEPT ![c] = mid]]
    <2>1. u = [s EXCEPT !.m_pending_detail_reqs[h] = Joined(s, @, c)] /\ u.chain = s.chain
        BY <1>1 DEF Node
    <2>2. /\ [u EXCEPT !.chain[c].m_detail_attached = h] = v
          /\ v.chain = [s.chain EXCEPT ![c] = mid] /\ v.chain[c] = mid
        <3> HIDE DEF reqs, mid
        <3>1. [u EXCEPT !.chain[c].m_detail_attached = h]
                = [u EXCEPT !.chain = [u.chain EXCEPT ![c] = [u.chain[c] EXCEPT !.m_detail_attached = h]]]
            BY <1>1 DEF Node
        <3>2. [s.chain EXCEPT ![c] = mid][c] = mid
            BY <1>1, <1>2 DEF Node
        <3>3. v.chain = [s.chain EXCEPT ![c] = mid]
            BY <1>1 DEF Node
        <3> HIDE DEF u, v
        <3> QED
            BY <2>1, <3>1, <3>2, <3>3 DEF v, mid
    <2>3. [v EXCEPT !.chain[c].m_brief_attached = None] = [v EXCEPT !.chain = chains]
        <3>1. [v EXCEPT !.chain[c].m_brief_attached = None]
                = [v EXCEPT !.chain = [v.chain EXCEPT ![c] = [v.chain[c] EXCEPT !.m_brief_attached = None]]]
            <4> HIDE DEF reqs, mid
            <4> QED
                BY <1>1 DEF Node
        <3>2. [mid EXCEPT !.m_brief_attached = None] = ch
            BY <1>2 DEF Chain
        <3>3. [[s.chain EXCEPT ![c] = mid] EXCEPT ![c] = ch] = chains
            <4> HIDE DEF mid, ch
            <4> QED
                BY <1>1, <1>2 DEF Node
        <3> HIDE DEF v, mid, ch, chains
        <3> QED
            BY <2>2, <3>1, <3>2, <3>3
    <2>4. [v EXCEPT !.chain = chains]
            = [s EXCEPT !.m_pending_detail_reqs = reqs, !.chain = chains]
        <3> HIDE DEF reqs, chains, mid
        <3> QED
            BY <1>1 DEF Node
    <2>5. t = [[u EXCEPT !.chain[c].m_detail_attached = h] EXCEPT !.chain[c].m_brief_attached = None]
        <3> HIDE DEF u
        <3> QED
            BY <2>1 DEF AskDetail
    <2> HIDE DEF u, v, reqs, chains
    <2> QED
        BY <2>2, <2>3, <2>4, <2>5
<1> HIDE DEF J, ch
<1>10. /\ reqs \in [Block -> Request] /\ reqs[h] = J
       /\ \A g \in Block \ {h} : reqs[g] = s.m_pending_detail_reqs[g]
       /\ chains \in [ChainId -> Chain \cup {NoChain}] /\ chains[c] = ch
       /\ \A d \in ChainId \ {c} : chains[d] = s.chain[d]
    BY <1>1, <1>2, <1>7, <1>8 DEF Node, J
<1> HIDE DEF t, reqs, chains
<1>11. /\ t \in Node /\ t.m_chains_by_peer_key = s.m_chains_by_peer_key
       /\ t.m_blocks = s.m_blocks /\ t.m_most_difficult_block = s.m_most_difficult_block
       /\ t.m_pending_block_hashes = s.m_pending_block_hashes /\ t.made = s.made
       /\ t.docs = s.docs /\ t.chain = chains
       /\ t.m_pending_brief_reqs = s.m_pending_brief_reqs
       /\ t.m_pending_detail_reqs = reqs
       /\ t.closed = s.closed /\ t.punished = s.punished /\ t.exited = s.exited
    BY <1>1, <1>9, <1>10 DEF Node
<1>12. \A d \in ChainId : /\ KeyOf(t, d) = KeyOf(s, d)
                          /\ s.chain[d] \in Chain => t.chain[d] \in Chain
    BY <1>8, <1>10, <1>11 DEF KeyOf
<1>13. ASSUME NEW g \in Block
       PROVE  /\ Neat(e, t, t.m_pending_detail_reqs[g]) /\ Detail(t, g) \ {c} = Detail(s, g)
              /\ c \in Detail(t, g) => Asking(e.hon, t, c, g)
    <2>1. c \notin Detail(s, g) /\ Neat(e, s, s.m_pending_detail_reqs[g])
        BY <1>1, <1>2 DEF Member, Tidy
    <2>2. CASE g = h
        <3>1. Neat(e, t, J)
            BY <1>7, <1>12, NeatIn DEF J
        <3>2. Detail(t, h) \ {c} = Detail(s, h)
            BY <1>7, <1>10, <1>11 DEF Detail, J
        <3>3. Asking(e.hon, t, c, h)
            BY <1>8, <1>10, <1>11 DEF Asking, Grounded
        <3> QED
            BY <1>10, <1>11, <2>1, <2>2, <3>1, <3>2, <3>3
    <2>3. CASE g # h
        <3>1. t.m_pending_detail_reqs[g] = s.m_pending_detail_reqs[g]
            BY <1>10, <1>11, <2>3
        <3>2. s.m_pending_detail_reqs[g] \in Request
            BY <1>1 DEF Node
        <3>3. Neat(e, t, s.m_pending_detail_reqs[g])
            BY <1>12, <2>1, <3>2, NeatIn
        <3>4. Detail(t, g) = Detail(s, g)
            BY <3>1 DEF Detail
        <3> QED
            BY <2>1, <3>1, <3>3, <3>4
    <2> QED
        BY <2>2, <2>3
<1>14. ASSUME NEW g \in Block, g # x
       PROVE  /\ Neat(e, t, t.m_pending_brief_reqs[g]) /\ Brief(t, g) \ {c} = Brief(s, g)
              /\ c \in Brief(t, g) => Waiting(e.hon, t, c, g)
    <2>1. c \notin Brief(s, g) /\ Neat(e, s, s.m_pending_brief_reqs[g])
        BY <1>1, <1>2, <1>14 DEF Member, Tidy
    <2>2. s.m_pending_brief_reqs[g] \in Request
        BY <1>1 DEF Node
    <2>3. Neat(e, t, s.m_pending_brief_reqs[g])
        BY <1>12, <2>1, <2>2, NeatIn
    <2>4. Brief(t, g) = Brief(s, g)
        BY <1>11 DEF Brief
    <2> QED
        BY <1>11, <2>1, <2>3, <2>4
<1>15. Placed(e, t, x, c)
    <2>1. /\ Single(e) => c \in Detail(t, h)
          /\ t.chain[c] \in Chain /\ t.chain[c].m_detail_attached = h
          /\ t.chain[c].m_brief_attached = None
        BY <1>7, <1>8, <1>10, <1>11 DEF Detail, J
    <2> QED
        BY <2>1 DEF Placed
<1>17. Joins(e, s, t, x, c)
    BY <1>8, <1>10, <1>11, <1>13, <1>14, <1>15 DEF Joins
<1> QED
    BY <1>11, <1>17 DEF t

\* What becomes of the state when the chains of S are struck.
Caught(s, S, punish) == IF punish THEN {s.chain[c].m_peer : c \in S} ELSE {}

KeysLeft(s, S) ==
    [k \in Keys |-> IF \E c \in S : KeyOf(s, c) = k THEN None ELSE s.m_chains_by_peer_key[k]]

Struck(s, S, punish) ==
    [s EXCEPT !.m_chains_by_peer_key = KeysLeft(s, S),
              !.closed = s.closed \cup Caught(s, S, punish),
              !.punished = s.punished \cup Caught(s, S, punish)]

\* The chains of a request can be listed in order.
Listed(s, S) ==
    /\ S \subseteq ChainId /\ \A c \in S : s.chain[c] \in Chain
    /\ \A c, d \in S : KeyOf(s, c) = KeyOf(s, d) => c = d

LEMMA ListedIs == ASSUME NEW s, NEW S, Listed(s, S) PROVE Lists(InOrder(s, S), S)
<1>1. IsFiniteSet(S)
    <2>1. S \in SUBSET ChainId /\ IsFiniteSet(ChainId)
        BY BlockSyncAssumption DEF Listed
    <2> QED
        BY <2>1, FS_Subset
<1>2. \A c \in S : KeyOf(s, c) \in Nat
    BY KeyIs DEF Listed
<1> QED
    BY <1>1, <1>2, InOrderIs DEF Listed, Distinct

LEMMA StruckFields ==
    ASSUME NEW s \in Node, NEW S, S \subseteq ChainId, \A c \in S : s.chain[c] \in Chain,
           NEW punish \in BOOLEAN
    PROVE  LET t == Struck(s, S, punish)
               peers == Caught(s, S, punish)
           IN  /\ t \in Node /\ t.m_chains_by_peer_key = KeysLeft(s, S)
               /\ t.m_blocks = s.m_blocks
               /\ t.m_most_difficult_block = s.m_most_difficult_block
               /\ t.m_pending_block_hashes = s.m_pending_block_hashes /\ t.made = s.made
               /\ t.docs = s.docs /\ t.chain = s.chain
               /\ t.m_pending_brief_reqs = s.m_pending_brief_reqs
               /\ t.m_pending_detail_reqs = s.m_pending_detail_reqs /\ t.exited = s.exited
               /\ t.closed = s.closed \cup peers /\ t.punished = s.punished \cup peers
<1> DEFINE peers == Caught(s, S, punish)
           keys == KeysLeft(s, S)
           t == Struck(s, S, punish)
<1>1. peers \subseteq Peer
    BY KeyIs DEF Caught
<1>2. keys \in [Keys -> ChainId \cup {None}]
    BY DEF Node, KeysLeft
<1>3. t = [s EXCEPT !.m_chains_by_peer_key = keys, !.closed = s.closed \cup peers,
                    !.punished = s.punished \cup peers]
    BY DEF Struck
<1> HIDE DEF t, keys, peers
<1>4. /\ t \in Node /\ t.m_chains_by_peer_key = keys
      /\ t.m_blocks = s.m_blocks
      /\ t.m_most_difficult_block = s.m_most_difficult_block
      /\ t.m_pending_block_hashes = s.m_pending_block_hashes /\ t.made = s.made
      /\ t.docs = s.docs /\ t.chain = s.chain
      /\ t.m_pending_brief_reqs = s.m_pending_brief_reqs
      /\ t.m_pending_detail_reqs = s.m_pending_detail_reqs /\ t.exited = s.exited
      /\ t.closed = s.closed \cup peers /\ t.punished = s.punished \cup peers
    BY <1>1, <1>2, <1>3 DEF Node
<1> QED
    BY <1>4 DEF t, peers, keys

\* One chain more.
LEMMA StrikeOne ==
    ASSUME NEW s \in Node, NEW S, S \subseteq ChainId, NEW c \in ChainId,
           s.chain[c] \in Chain, \A d \in S : s.chain[d] \in Chain, NEW punish \in BOOLEAN
    PROVE  Strike(Struck(s, S, punish), c, punish) = Struck(s, S \cup {c}, punish)
<1> DEFINE peers(T) == Caught(s, T, punish)
           keys(T) == KeysLeft(s, T)
           t == Struck(s, S, punish)
           With(K, C, P) == [s EXCEPT !.m_chains_by_peer_key = K, !.closed = C, !.punished = P]
           c0 == s.closed \cup peers(S)
           p0 == s.punished \cup peers(S)
           c1 == s.closed \cup peers(S \cup {c})
           p1 == s.punished \cup peers(S \cup {c})
           k0 == keys(S)
           k1 == keys(S \cup {c})
           K == KeyOf(s, c)
           P == s.chain[c].m_peer
<1>1. t = With(k0, c0, p0) /\ Struck(s, S \cup {c}, punish) = With(k1, c1, p1)
    BY DEF Struck
<1>2. t.chain = s.chain
    BY StruckFields
<1>3. KeyOf(t, c) = K /\ t.chain[c].m_peer = P
    BY <1>2 DEF KeyOf
<1>4. [k0 EXCEPT ![K] = None] = k1
    <2>1. K \in Keys
        BY KeyIs
    <2> HIDE DEF K
    <2>2. k1 = [k \in Keys |-> IF k = K THEN None ELSE k0[k]]
        BY DEF K, KeysLeft
    <2>3. DOMAIN k0 = Keys
        BY DEF KeysLeft
    <2> HIDE DEF k0, k1
    <2>4. [k0 EXCEPT ![K] = None] = [k \in Keys |-> IF k = K THEN None ELSE k0[k]]
        BY <2>1, <2>3
    <2> QED
        BY <2>2, <2>4
<1>5. punish => c0 \cup {P} = c1 /\ p0 \cup {P} = p1
    BY DEF Caught
<1>6. ~ punish => c0 = c1 /\ p0 = p1
    BY DEF Caught
<1> HIDE DEF t, k0, k1, c0, c1, p0, p1, K, P
<1>7. EraseKey(t, K) = With(k1, c0, p0)
    <2>1. EraseKey(t, K) = [t EXCEPT !.m_chains_by_peer_key = [t.m_chains_by_peer_key EXCEPT ![K] = None]]
        <3>1. t \in Node
            BY StruckFields DEF t
        <3> QED
            BY <3>1 DEF EraseKey, Node
    <2>2. t.m_chains_by_peer_key = k0
        BY <1>1 DEF Node
    <2>3. [t EXCEPT !.m_chains_by_peer_key = k1] = With(k1, c0, p0)
        BY <1>1 DEF Node
    <2> QED
        BY <1>4, <2>1, <2>2, <2>3
<1>8. punish_peer(With(k1, c0, p0), P) = With(k1, c0 \cup {P}, p0 \cup {P})
    BY DEF punish_peer, Node
<1>9. CASE punish
    <2>1. Strike(t, c, punish) = punish_peer(EraseKey(t, K), P)
        BY <1>3, <1>9 DEF Strike, PunishChain
    <2>2. Strike(t, c, punish) = With(k1, c1, p1)
        BY <1>5, <1>7, <1>8, <1>9, <2>1
    <2> QED
        BY <1>1, <2>2 DEF t
<1>10. CASE ~ punish
    <2>1. Strike(t, c, punish) = EraseKey(t, K)
        BY <1>3, <1>10 DEF Strike
    <2>2. Strike(t, c, punish) = With(k1, c1, p1)
        BY <1>6, <1>7, <1>10, <2>1
    <2> QED
        BY <1>1, <2>2 DEF t
<1> QED
    BY <1>9, <1>10

LEMMA StruckNone == ASSUME NEW s \in Node, NEW punish \in BOOLEAN PROVE Struck(s, {}, punish) = s
<1>1. KeysLeft(s, {}) = s.m_chains_by_peer_key
    <2>1. s.m_chains_by_peer_key = [k \in Keys |-> s.m_chains_by_peer_key[k]]
        BY DEF Node
    <2> QED
        BY <2>1 DEF KeysLeft
<1>2. Caught(s, {}, punish) = {}
    BY DEF Caught
<1>3. Struck(s, {}, punish) =
        [s EXCEPT !.m_chains_by_peer_key = s.m_chains_by_peer_key,
                  !.closed = s.closed, !.punished = s.punished]
    BY <1>1, <1>2 DEF Struck
<1> QED
    BY <1>3 DEF Node

\* A request that is given up strikes its chains one after the other.
LEMMA StrikeAllIs ==
    ASSUME NEW s \in Node, NEW S, Listed(s, S), NEW punish \in BOOLEAN
    PROVE  StrikeAll(s, S, punish) = Struck(s, S, punish)
<1> DEFINE q == InOrder(s, S)
           L == Len(q)
           got(i) == {q[j] : j \in 1..i}
<1>1. Lists(q, S)
    BY ListedIs
<1> HIDE DEF q
<1>2. L \in Nat /\ DOMAIN q = 1..L /\ got(L) = S
    BY <1>1 DEF Lists
<1>3. StrikeAll(s, S, punish) = Striking!Fold(punish, s, q)
    BY DEF StrikeAll, Striking!Fold, Striking!MapThenFoldSet, Striking!Greatest,
           FoldLeft, MapThenFoldSet, Max, StrikeTurn, q
<1>4. PICK run : Striking!IsRun(punish, s, q, run) /\ Striking!Fold(punish, s, q) = run[L]
    <2> HIDE DEF L
    <2>1. Len(q) \in Nat /\ DOMAIN q = 1..Len(q)
        BY <1>2 DEF L
    <2> QED
        BY <2>1, Striking!FoldRuns DEF L
<1> DEFINE T == {i \in 0..L : run[i] = Struck(s, got(i), punish)}
<1>5. 0 \in T
    <2>1. got(0) = {}
        OBVIOUS
    <2>2. run[0] = s
        BY <1>4 DEF Striking!IsRun
    <2>3. run[0] = Struck(s, got(0), punish)
        <3> HIDE DEF got
        <3> QED
            BY <2>1, <2>2, StruckNone
    <2> HIDE DEF got
    <2> QED
        BY <1>2, <2>3
<1>6. ASSUME NEW i \in 0..L, i \in T, i < L PROVE i + 1 \in T
    <2>1. i + 1 \in 1..L /\ (i + 1) - 1 = i /\ i + 1 \in 0..L
        BY <1>2, <1>6
    <2>2. run[i + 1] = StrikeTurn(punish, run[i], q[i + 1])
        BY <1>4, <2>1 DEF Striking!IsRun
    <2>3. got(i) \subseteq S /\ q[i + 1] \in S /\ got(i + 1) = got(i) \cup {q[i + 1]}
        BY <1>2, <2>1
    <2>4. run[i] = Struck(s, got(i), punish)
        BY <1>6
    <2> HIDE DEF got
    <2>5. /\ got(i) \subseteq ChainId /\ q[i + 1] \in ChainId /\ s.chain[q[i + 1]] \in Chain
          /\ \A d \in got(i) : s.chain[d] \in Chain
        BY <2>3 DEF Listed
    <2> DEFINE c == q[i + 1]
    <2> HIDE DEF c
    <2>6. Strike(Struck(s, got(i), punish), c, punish) = Struck(s, got(i) \cup {c}, punish)
        BY <2>5, StrikeOne DEF c
    <2> QED
        BY <2>1, <2>2, <2>3, <2>4, <2>6 DEF StrikeTurn, c
<1>7. 0..L \subseteq T
    <2> HIDE DEF T
    <2> QED
        BY <1>2, <1>5, <1>6, Striking!Induct
<1>8. run[L] = Struck(s, got(L), punish)
    <2>1. L \in 0..L
        BY <1>2
    <2> QED
        BY <1>7, <2>1
<1> QED
    BY <1>2, <1>3, <1>4, <1>8

\* Who else has a key of M: dead chains, and those of M that went on, of a peer
\* that is about to be punished.
Elsewhere(e, s, x, M, punish) ==
    Single(e) => \A c \in ChainId : Member(s, x, c) =>
        \A d \in M : KeyOf(s, c) = KeyOf(s, d) =>
            Dead(e, s, c) \/ (punish /\ c \in M /\ s.chain[c].m_peer \in e.mp)

\* The chains in hand are struck, together with those that went on.
LEMMA DropSound ==
    ASSUME NEW e, NEW s, NEW x, NEW rest, Sound(e, s, x, rest), NEW M, Listed(s, M),
           rest \subseteq M, NEW punish \in BOOLEAN, Elsewhere(e, s, x, M, punish),
           punish => Hurt(s) \/ \A c \in M : s.chain[c].m_peer \notin e.hon
    PROVE  Sound(e, Struck(s, M, punish), x, {})
<1> DEFINE t == Struck(s, M, punish)
           peers == Caught(s, M, punish)
<1>1. s \in Node /\ Base(e, s) /\ Tidy(e, s, x, rest) /\ Content(e, s, x)
    BY DEF Sound, Base
<1>2. M \subseteq ChainId /\ \A c \in M : s.chain[c] \in Chain
    BY DEF Listed
<1>11. /\ t \in Node /\ t.m_chains_by_peer_key = KeysLeft(s, M)
       /\ t.m_blocks = s.m_blocks
       /\ t.m_most_difficult_block = s.m_most_difficult_block
       /\ t.m_pending_block_hashes = s.m_pending_block_hashes /\ t.made = s.made
       /\ t.docs = s.docs /\ t.chain = s.chain
       /\ t.m_pending_brief_reqs = s.m_pending_brief_reqs
       /\ t.m_pending_detail_reqs = s.m_pending_detail_reqs /\ t.exited = s.exited
       /\ t.closed = s.closed \cup peers /\ t.punished = s.punished \cup peers
    <2>1. M \subseteq ChainId
        BY <1>2
    <2>2. \A c \in M : s.chain[c] \in Chain
        BY <1>2
    <2>3. s \in Node
        BY <1>1
    <2> QED
        BY <2>1, <2>2, <2>3, StruckFields
<1>12. \A k \in Keys : KeysLeft(s, M)[k]
         = IF \E c \in M : KeyOf(s, c) = k THEN None ELSE s.m_chains_by_peer_key[k]
    BY DEF KeysLeft
<1> HIDE DEF t, peers
<1>3. /\ t \in Node
      /\ t.m_blocks = s.m_blocks /\ t.m_most_difficult_block = s.m_most_difficult_block
      /\ t.m_pending_block_hashes = s.m_pending_block_hashes /\ t.made = s.made
      /\ t.docs = s.docs /\ t.chain = s.chain
      /\ t.m_pending_brief_reqs = s.m_pending_brief_reqs
      /\ t.m_pending_detail_reqs = s.m_pending_detail_reqs /\ t.exited = s.exited
      /\ t.closed = s.closed \cup peers /\ t.punished = s.punished \cup peers
      /\ \A k \in Keys : t.m_chains_by_peer_key[k]
           = IF \E c \in M : KeyOf(s, c) = k THEN None ELSE s.m_chains_by_peer_key[k]
    BY <1>11, <1>12
<1>4. \A c \in M : punish => s.chain[c].m_peer \in peers
    BY DEF Caught, peers
<1>5. peers \cap e.hon # {} => Hurt(s)
    BY DEF Caught, peers
<1>6. Base(e, t)
    BY <1>1, <1>3, <1>5 DEF Base, Rooted, IsPending, Hurt
<1>7. Content(e, t, x)
    BY <1>1, <1>3 DEF Content, Brief, Detail, Waiting, Asking, Climbing, Grounded
<1>8. \A d : KeyOf(t, d) = KeyOf(s, d) /\ Member(t, x, d) = Member(s, x, d)
             /\ Placed(e, t, x, d) = Placed(e, s, x, d)
    BY <1>3 DEF KeyOf, Member, Placed, Brief, Detail
<1>9. ASSUME NEW d \in ChainId, Member(s, x, d) PROVE Held(e, t, d)
    <2>1. Held(e, s, d)
        BY <1>1, <1>9 DEF Tidy
    <2>2. KeyOf(s, d) \in Keys
        BY <2>1, KeyIs DEF Held
    <2>3. t.chain[d] \in Chain /\ t.chain[d].m_peer \in e.mp \cup t.closed
        BY <1>3, <2>1 DEF Held
    <2>4. CASE Single(e) /\ \E c \in M : KeyOf(s, c) = KeyOf(s, d)
        <3>1. t.m_chains_by_peer_key[KeyOf(s, d)] = None
            BY <1>3, <2>2, <2>4
        <3>2. Dead(e, s, d) \/ (punish /\ d \in M /\ s.chain[d].m_peer \in e.mp)
            BY <1>9, <2>4 DEF Elsewhere
        <3>3. ASSUME Dead(e, s, d) PROVE Dead(e, t, d)
            BY <1>3, <1>8, <3>1, <3>3 DEF Dead
        <3>4. ASSUME punish, d \in M, s.chain[d].m_peer \in e.mp PROVE Dead(e, t, d)
            <4>1. s.chain[d].m_peer \in t.punished /\ s.chain[d].m_peer \in t.closed
                BY <1>3, <1>4, <3>4
            <4>2. \A p \in e.mp : Key[p] = KeyOf(s, d) => p = s.chain[d].m_peer
                BY <1>1, <2>4, <3>4 DEF Tidy, Apart, KeyOf
            <4> QED
                BY <1>3, <1>8, <3>1, <4>1, <4>2 DEF Dead
        <3> QED
            BY <2>3, <3>2, <3>3, <3>4 DEF Held
    <2>5. CASE ~ \E c \in M : KeyOf(s, c) = KeyOf(s, d)
        <3>1. t.m_chains_by_peer_key[KeyOf(s, d)] = s.m_chains_by_peer_key[KeyOf(s, d)]
            BY <1>3, <2>2, <2>5
        <3> QED
            BY <1>3, <1>8, <2>1, <2>3, <3>1 DEF Held, Dead
    <2>6. CASE ~ Single(e)
        BY <2>3, <2>6 DEF Held
    <2> QED
        BY <2>4, <2>5, <2>6
<1>10. Tidy(e, t, x, {})
    <2>1. /\ \A h \in Block : h # x => Neat(e, t, t.m_pending_brief_reqs[h])
          /\ \A h \in Block : Neat(e, t, t.m_pending_detail_reqs[h])
        BY <1>1, <1>3, <1>8 DEF Tidy, Neat
    <2>2. \A d \in ChainId : Member(t, x, d) => Held(e, t, d)
        BY <1>8, <1>9
    <2>3. ASSUME NEW l \in Keys, t.m_chains_by_peer_key[l] # None
          PROVE  /\ KeyOf(t, t.m_chains_by_peer_key[l]) = l
                 /\ Placed(e, t, x, t.m_chains_by_peer_key[l])
        <3>1. /\ ~ \E c \in M : KeyOf(s, c) = l
              /\ t.m_chains_by_peer_key[l] = s.m_chains_by_peer_key[l]
            BY <1>3, <2>3
        <3> DEFINE d == s.m_chains_by_peer_key[l]
        <3>2. KeyOf(s, d) = l /\ (d \in rest \/ Placed(e, s, x, d))
            BY <1>1, <2>3, <3>1 DEF Tidy
        <3> QED
            BY <1>8, <3>1, <3>2
    <2>4. Apart(e)
        BY <1>1 DEF Tidy
    <2> QED
        BY <2>1, <2>2, <2>3, <2>4 DEF Tidy
<1> QED
    BY <1>6, <1>7, <1>10 DEF Sound, t

LEMMA SetsOfChains ==
    ASSUME NEW s \in Node, NEW h \in Block
    PROVE  /\ Brief(s, h) \subseteq ChainId /\ Detail(s, h) \subseteq ChainId
           /\ s.m_pending_brief_reqs[h] \in Request /\ s.m_pending_detail_reqs[h] \in Request
    BY DEF Brief, Detail, Node, Request

\* A chain between handlers is in one request.
LEMMA OneRequest ==
    ASSUME NEW e, NEW s, Content(e, s, None), NEW h \in Block, NEW c
    PROVE  /\ c \in Brief(s, h) => /\ \A g \in Block : c \in Brief(s, g) => g = h
                                   /\ \A g \in Block : c \notin Detail(s, g)
           /\ c \in Detail(s, h) => /\ \A g \in Block : c \in Detail(s, g) => g = h
                                    /\ \A g \in Block : c \notin Brief(s, g)
<1>1. \A g \in Block : g # None
    BY BlockSyncAssumption
<1>2. \A g \in Block : c \in Brief(s, g) => s.chain[c].m_brief_attached = g
    BY <1>1 DEF Content, Waiting
<1>3. \A g \in Block : c \in Detail(s, g) =>
         s.chain[c].m_brief_attached = None /\ s.chain[c].m_detail_attached = g
    BY DEF Content, Asking
<1> QED
    BY <1>1, <1>2, <1>3

LEMMA HeldBetween ==
    ASSUME NEW e, NEW s, Sound(e, s, None, {}), NEW h \in Block, NEW c,
           c \in Brief(s, h) \/ c \in Detail(s, h)
    PROVE  c \in ChainId /\ Held(e, s, c) /\ s.chain[c] \in Chain
<1>1. c \in ChainId /\ Member(s, None, c)
    <2>1. s \in Node /\ h # None
        BY BlockSyncAssumption DEF Sound, Base
    <2> QED
        BY <2>1, SetsOfChains DEF Member
<1> QED
    BY <1>1 DEF Sound, Tidy, Held

\* The chains of a brief request are taken in hand.
LEMMA TakeBrief ==
    ASSUME NEW e, NEW s, Sound(e, s, None, {}), NEW h \in Block
    PROVE  /\ Sound(e, s, h, Brief(s, h)) /\ Listed(s, Brief(s, h))
           /\ Elsewhere(e, s, h, Brief(s, h), FALSE)
<1> DEFINE M == Brief(s, h)
<1>1. s \in Node /\ Base(e, s) /\ Tidy(e, s, None, {}) /\ Content(e, s, None)
    BY DEF Sound, Base
<1>2. \A g \in Block : g # None
    BY BlockSyncAssumption
<1>3. M \subseteq ChainId /\ \A c \in M : Held(e, s, c) /\ s.chain[c] \in Chain
    BY HeldBetween
<1>4. \A c : Member(s, h, c) => Member(s, None, c)
    BY <1>2 DEF Member
<1>5. \A c \in M : ~ Member(s, h, c)
    <2> SUFFICES ASSUME NEW c \in M PROVE ~ Member(s, h, c)
        OBVIOUS
    <2>1. /\ \A g \in Block : c \in Brief(s, g) => g = h
          /\ \A g \in Block : c \notin Detail(s, g)
        BY <1>1, OneRequest
    <2> QED
        BY <2>1 DEF Member
<1>6. Listed(s, M)
    <2>1. Neat(e, s, s.m_pending_brief_reqs[h])
        BY <1>1, <1>2 DEF Tidy
    <2> QED
        BY <1>3, <2>1 DEF Listed, Neat, Brief
<1>7. Elsewhere(e, s, h, M, FALSE)
    <2> SUFFICES ASSUME Single(e),
                        NEW c \in ChainId, Member(s, h, c), NEW d \in M, KeyOf(s, c) = KeyOf(s, d)
                 PROVE  Dead(e, s, c)
        BY DEF Elsewhere
    <2>1. Held(e, s, c) /\ Held(e, s, d) /\ c # d /\ d \in ChainId
        BY <1>1, <1>3, <1>4, <1>5 DEF Tidy
    <2> QED
        BY <2>1, OneForKey
<1>8. Content(e, s, h)
    BY <1>1, <1>2 DEF Content
<1>9. Tidy(e, s, h, M)
    <2>1. ASSUME NEW l \in Keys, s.m_chains_by_peer_key[l] # None
          PROVE  /\ KeyOf(s, s.m_chains_by_peer_key[l]) = l
                 /\ s.m_chains_by_peer_key[l] \in M \/ Placed(e, s, h, s.m_chains_by_peer_key[l])
        <3> DEFINE d == s.m_chains_by_peer_key[l]
        <3>1. KeyOf(s, d) = l /\ Placed(e, s, None, d)
            BY <1>1, <2>1 DEF Tidy
        <3>2. Placed(e, s, None, d) => d \in M \/ Placed(e, s, h, d)
            BY <1>2 DEF Placed
        <3> QED
            BY <3>1, <3>2
    <2> QED
        BY <1>1, <1>2, <1>3, <1>4, <1>5, <2>1 DEF Tidy
<1> QED
    BY <1>1, <1>6, <1>7, <1>8, <1>9 DEF Sound

\* The request whose chains have all gone on is forgotten.
LEMMA ClearBrief ==
    ASSUME NEW e, NEW s, NEW h \in Block, Sound(e, s, h, {})
    PROVE  Sound(e, [s EXCEPT !.m_pending_brief_reqs[h] = NoRequest], None, {})
<1> DEFINE reqs == [s.m_pending_brief_reqs EXCEPT ![h] = NoRequest]
           t == [s EXCEPT !.m_pending_brief_reqs[h] = NoRequest]
<1>1. s \in Node /\ Base(e, s) /\ Tidy(e, s, h, {}) /\ Content(e, s, h)
    BY DEF Sound, Base
<1>2. NoRequest \in Request /\ NoRequest.m_chains = {} /\ Neat(e, s, NoRequest)
    <2>1. <<>> \in Seq(ChainId) /\ DOMAIN <<>> = {}
        OBVIOUS
    <2> QED
        BY <2>1 DEF NoRequest, Request, Neat
<1>3. /\ reqs \in [Block -> Request] /\ reqs[h] = NoRequest
      /\ \A g \in Block \ {h} : reqs[g] = s.m_pending_brief_reqs[g]
    BY <1>1, <1>2 DEF Node
<1>4. t = [s EXCEPT !.m_pending_brief_reqs = reqs]
    BY <1>1 DEF Node
<1> HIDE DEF t, reqs
<1>5. /\ t \in Node /\ t.m_chains_by_peer_key = s.m_chains_by_peer_key
      /\ t.m_blocks = s.m_blocks /\ t.m_most_difficult_block = s.m_most_difficult_block
      /\ t.m_pending_block_hashes = s.m_pending_block_hashes /\ t.made = s.made
      /\ t.docs = s.docs /\ t.chain = s.chain /\ t.m_pending_brief_reqs = reqs
      /\ t.m_pending_detail_reqs = s.m_pending_detail_reqs
      /\ t.closed = s.closed /\ t.punished = s.punished /\ t.exited = s.exited
    BY <1>1, <1>3, <1>4 DEF Node
<1>6. Base(e, t)
    BY <1>1, <1>5 DEF Base, Rooted, IsPending, Hurt
<1>7. /\ \A g \in Block : g # h => Brief(t, g) = Brief(s, g)
      /\ Brief(t, h) = {} /\ \A g \in Block : Detail(t, g) = Detail(s, g)
      /\ \A d : KeyOf(t, d) = KeyOf(s, d)
    BY <1>2, <1>3, <1>5 DEF Brief, Detail, KeyOf
<1>8. Content(e, t, None)
    <2>1. \A g \in Block : \A c \in Brief(t, g) : Waiting(e.hon, t, c, g)
        BY <1>1, <1>5, <1>7 DEF Content, Waiting, Climbing
    <2>2. \A g \in Block : \A c \in Detail(t, g) : Asking(e.hon, t, c, g)
        BY <1>1, <1>5, <1>7 DEF Content, Asking, Grounded
    <2> QED
        BY <2>1, <2>2 DEF Content
<1>9. \A c : /\ Member(t, None, c) => Member(s, h, c)
             /\ Placed(e, s, h, c) => Placed(e, t, None, c)
             /\ Held(e, s, c) => Held(e, t, c)
    <2>1. \A c : Member(t, None, c) => Member(s, h, c)
        BY <1>7 DEF Member
    <2>2. \A c : Placed(e, s, h, c) => Placed(e, t, None, c)
        BY <1>5, <1>7, BlockSyncAssumption DEF Placed
    <2>3. \A c : Held(e, s, c) => Held(e, t, c)
        BY <1>5, <1>7 DEF Held, Dead
    <2> QED
        BY <2>1, <2>2, <2>3
<1>10. Tidy(e, t, None, {})
    <2>1. \A g \in Block : Neat(e, t, t.m_pending_brief_reqs[g])
        <3>1. \A g \in Block : Neat(e, s, t.m_pending_brief_reqs[g])
            BY <1>1, <1>2, <1>3, <1>5 DEF Tidy
        <3> QED
            BY <1>5, <1>7, <3>1 DEF Neat
    <2>2. \A g \in Block : Neat(e, t, t.m_pending_detail_reqs[g])
        BY <1>1, <1>5, <1>7 DEF Tidy, Neat
    <2> QED
        BY <1>1, <1>5, <1>7, <1>9, <2>1, <2>2 DEF Tidy
<1> QED
    BY <1>6, <1>8, <1>10 DEF Sound, t

\* A brief request is replaced by one that lacks the chains R.
LEMMA NewBrief ==
    ASSUME NEW e, NEW s, Sound(e, s, None, {}), NEW h \in Block, NEW r \in Request, Neat(e, s, r),
           NEW R, R \subseteq Brief(s, h), r.m_chains = Brief(s, h) \ R
    PROVE  Sound(e, [s EXCEPT !.m_pending_brief_reqs[h] = r], None, R)
<1> DEFINE reqs == [s.m_pending_brief_reqs EXCEPT ![h] = r]
           t == [s EXCEPT !.m_pending_brief_reqs[h] = r]
<1>1. s \in Node /\ Base(e, s) /\ Tidy(e, s, None, {}) /\ Content(e, s, None)
    BY DEF Sound, Base
<1>2. \A g \in Block : g # None
    BY BlockSyncAssumption
<1>3. /\ reqs \in [Block -> Request] /\ reqs[h] = r
      /\ \A g \in Block \ {h} : reqs[g] = s.m_pending_brief_reqs[g]
    BY <1>1 DEF Node
<1>4. t = [s EXCEPT !.m_pending_brief_reqs = reqs]
    BY <1>1 DEF Node
<1> HIDE DEF t, reqs
<1>5. /\ t \in Node /\ t.m_chains_by_peer_key = s.m_chains_by_peer_key
      /\ t.m_blocks = s.m_blocks /\ t.m_most_difficult_block = s.m_most_difficult_block
      /\ t.m_pending_block_hashes = s.m_pending_block_hashes /\ t.made = s.made
      /\ t.docs = s.docs /\ t.chain = s.chain /\ t.m_pending_brief_reqs = reqs
      /\ t.m_pending_detail_reqs = s.m_pending_detail_reqs
      /\ t.closed = s.closed /\ t.punished = s.punished /\ t.exited = s.exited
    BY <1>1, <1>3, <1>4 DEF Node
<1>6. Base(e, t)
    BY <1>1, <1>5 DEF Base, Rooted, IsPending, Hurt
<1>7. /\ \A g \in Block : g # h => Brief(t, g) = Brief(s, g)
      /\ Brief(t, h) = Brief(s, h) \ R /\ \A g \in Block : Detail(t, g) = Detail(s, g)
      /\ \A d : KeyOf(t, d) = KeyOf(s, d)
    BY <1>3, <1>5 DEF Brief, Detail, KeyOf
<1>8. Content(e, t, None)
    <2>1. \A g \in Block : \A c \in Brief(t, g) : Waiting(e.hon, t, c, g)
        <3>1. \A g \in Block : \A c \in Brief(t, g) : Waiting(e.hon, s, c, g)
            BY <1>1, <1>2, <1>7 DEF Content
        <3> QED
            BY <1>5, <3>1 DEF Waiting, Climbing
    <2>2. \A g \in Block : \A c \in Detail(t, g) : Asking(e.hon, t, c, g)
        BY <1>1, <1>5, <1>7 DEF Content, Asking, Grounded
    <2> QED
        BY <2>1, <2>2 DEF Content
<1>9. \A c : /\ Member(t, None, c) => Member(s, None, c)
             /\ Placed(e, s, None, c) => c \in R \/ Placed(e, t, None, c)
             /\ Held(e, s, c) => Held(e, t, c)
    <2>1. \A c : Member(t, None, c) => Member(s, None, c)
        BY <1>7 DEF Member
    <2>2. \A c : Placed(e, s, None, c) => c \in R \/ Placed(e, t, None, c)
        BY <1>5, <1>7 DEF Placed
    <2>3. \A c : Held(e, s, c) => Held(e, t, c)
        BY <1>5, <1>7 DEF Held, Dead
    <2> QED
        BY <2>1, <2>2, <2>3
<1>10. ASSUME NEW c \in R PROVE c \in ChainId /\ Held(e, t, c) /\ ~ Member(t, None, c)
    <2>1. c \in ChainId /\ Held(e, s, c)
        BY HeldBetween
    <2>2. /\ \A g \in Block : c \in Brief(s, g) => g = h
          /\ \A g \in Block : c \notin Detail(s, g)
        BY <1>1, OneRequest
    <2> QED
        BY <1>7, <1>9, <2>1, <2>2 DEF Member
<1>11. Tidy(e, t, None, R)
    <2>1. \A g \in Block : Neat(e, t, t.m_pending_brief_reqs[g])
        <3>1. \A g \in Block : Neat(e, s, t.m_pending_brief_reqs[g])
            BY <1>1, <1>2, <1>3, <1>5 DEF Tidy
        <3> QED
            BY <1>5, <1>7, <3>1 DEF Neat
    <2>2. \A g \in Block : Neat(e, t, t.m_pending_detail_reqs[g])
        BY <1>1, <1>5, <1>7 DEF Tidy, Neat
    <2> QED
        BY <1>1, <1>5, <1>7, <1>9, <1>10, <2>1, <2>2 DEF Tidy
<1> QED
    BY <1>6, <1>8, <1>11 DEF Sound, t

\* The same for a detail request.
LEMMA NewDetail ==
    ASSUME NEW e, NEW s, Sound(e, s, None, {}), NEW h \in Block, NEW r \in Request, Neat(e, s, r),
           NEW R, R \subseteq Detail(s, h), r.m_chains = Detail(s, h) \ R
    PROVE  Sound(e, [s EXCEPT !.m_pending_detail_reqs[h] = r], None, R)
<1> DEFINE reqs == [s.m_pending_detail_reqs EXCEPT ![h] = r]
           t == [s EXCEPT !.m_pending_detail_reqs[h] = r]
<1>1. s \in Node /\ Base(e, s) /\ Tidy(e, s, None, {}) /\ Content(e, s, None)
    BY DEF Sound, Base
<1>2. \A g \in Block : g # None
    BY BlockSyncAssumption
<1>3. /\ reqs \in [Block -> Request] /\ reqs[h] = r
      /\ \A g \in Block \ {h} : reqs[g] = s.m_pending_detail_reqs[g]
    BY <1>1 DEF Node
<1>4. t = [s EXCEPT !.m_pending_detail_reqs = reqs]
    BY <1>1 DEF Node
<1> HIDE DEF t, reqs
<1>5. /\ t \in Node /\ t.m_chains_by_peer_key = s.m_chains_by_peer_key
      /\ t.m_blocks = s.m_blocks /\ t.m_most_difficult_block = s.m_most_difficult_block
      /\ t.m_pending_block_hashes = s.m_pending_block_hashes /\ t.made = s.made
      /\ t.docs = s.docs /\ t.chain = s.chain /\ t.m_pending_detail_reqs = reqs
      /\ t.m_pending_brief_reqs = s.m_pending_brief_reqs
      /\ t.closed = s.closed /\ t.punished = s.punished /\ t.exited = s.exited
    BY <1>1, <1>3, <1>4 DEF Node
<1>6. Base(e, t)
    BY <1>1, <1>5 DEF Base, Rooted, IsPending, Hurt
<1>7. /\ \A g \in Block : g # h => Detail(t, g) = Detail(s, g)
      /\ Detail(t, h) = Detail(s, h) \ R /\ \A g \in Block : Brief(t, g) = Brief(s, g)
      /\ \A d : KeyOf(t, d) = KeyOf(s, d)
    BY <1>3, <1>5 DEF Brief, Detail, KeyOf
<1>8. Content(e, t, None)
    <2>1. \A g \in Block : \A c \in Brief(t, g) : Waiting(e.hon, t, c, g)
        <3>1. \A g \in Block : \A c \in Brief(t, g) : Waiting(e.hon, s, c, g)
            BY <1>1, <1>2, <1>7 DEF Content
        <3> QED
            BY <1>5, <3>1 DEF Waiting, Climbing
    <2>2. \A g \in Block : \A c \in Detail(t, g) : Asking(e.hon, t, c, g)
        <3>1. \A g \in Block : \A c \in Detail(t, g) : Asking(e.hon, s, c, g)
            BY <1>1, <1>7 DEF Content
        <3> QED
            BY <1>5, <3>1 DEF Asking, Grounded
    <2> QED
        BY <2>1, <2>2 DEF Content
<1>9. \A c : /\ Member(t, None, c) => Member(s, None, c)
             /\ Placed(e, s, None, c) => c \in R \/ Placed(e, t, None, c)
             /\ Held(e, s, c) => Held(e, t, c)
    <2>1. \A c : Member(t, None, c) => Member(s, None, c)
        BY <1>7 DEF Member
    <2>2. \A c : Placed(e, s, None, c) => c \in R \/ Placed(e, t, None, c)
        BY <1>5, <1>7 DEF Placed
    <2>3. \A c : Held(e, s, c) => Held(e, t, c)
        BY <1>5, <1>7 DEF Held, Dead
    <2> QED
        BY <2>1, <2>2, <2>3
<1>10. ASSUME NEW c \in R PROVE c \in ChainId /\ Held(e, t, c) /\ ~ Member(t, None, c)
    <2>1. c \in ChainId /\ Held(e, s, c)
        BY HeldBetween
    <2>2. /\ \A g \in Block : c \in Detail(s, g) => g = h
          /\ \A g \in Block : c \notin Brief(s, g)
        BY <1>1, OneRequest
    <2> QED
        BY <1>7, <1>9, <2>1, <2>2 DEF Member
<1>11. Tidy(e, t, None, R)
    <2>1. \A g \in Block : Neat(e, t, t.m_pending_detail_reqs[g])
        <3>1. \A g \in Block : Neat(e, s, t.m_pending_detail_reqs[g])
            BY <1>1, <1>2, <1>3, <1>5 DEF Tidy
        <3> QED
            BY <1>5, <1>7, <3>1 DEF Neat
    <2>2. \A g \in Block : Neat(e, t, t.m_pending_brief_reqs[g])
        BY <1>1, <1>2, <1>5, <1>7 DEF Tidy, Neat
    <2> QED
        BY <1>1, <1>5, <1>7, <1>9, <1>10, <2>1, <2>2 DEF Tidy
<1> QED
    BY <1>6, <1>8, <1>11 DEF Sound, t

\* What a turn of finish_brief for chain c leaves as it was.
Went(e, s, t, x, c) ==
    /\ t.m_blocks = s.m_blocks /\ t.made = s.made /\ t.docs = s.docs
    /\ t.m_pending_block_hashes = s.m_pending_block_hashes
    /\ x \in Block => t.m_pending_brief_reqs[x] = s.m_pending_brief_reqs[x]
    /\ \A d \in ChainId \ {c} : t.chain[d] = s.chain[d]
    /\ t.chain[c].m_peer = s.chain[c].m_peer /\ (s.chain[c] \in Chain => t.chain[c] \in Chain)
    /\ \A d \in ChainId : Member(t, x, d) => Member(s, x, d) \/ (d = c /\ s.chain[c].m_peer \in e.mp)
    /\ s.closed \subseteq t.closed /\ s.punished \subseteq t.punished
    /\ Single(e) =>
           \A k \in Keys : t.m_chains_by_peer_key[k] \in {s.m_chains_by_peer_key[k], None}

LEMMA WentOn ==
    ASSUME NEW e, NEW s, NEW t, NEW u, NEW x, NEW c, Went(e, s, t, x, c), Went(e, t, u, x, c)
    PROVE  Went(e, s, u, x, c)
    BY DEF Went

LEMMA WentErase ==
    ASSUME NEW e, NEW s \in Node, NEW x, NEW c
    PROVE  Went(e, s, EraseKey(s, KeyOf(s, c)), x, c)
<1> DEFINE k == KeyOf(s, c)
           t == EraseKey(s, k)
           keys == [s.m_chains_by_peer_key EXCEPT ![k] = None]
<1>1. t = [s EXCEPT !.m_chains_by_peer_key = keys]
    BY DEF EraseKey, Node
<1>2. \A l \in Keys : keys[l] \in {s.m_chains_by_peer_key[l], None}
    <2> HIDE DEF k
    <2> QED
        BY DEF Node
<1> HIDE DEF keys, t, k
<1>3. /\ t.m_chains_by_peer_key = keys
      /\ t.m_blocks = s.m_blocks
      /\ t.m_pending_block_hashes = s.m_pending_block_hashes /\ t.made = s.made
      /\ t.docs = s.docs /\ t.chain = s.chain
      /\ t.m_pending_brief_reqs = s.m_pending_brief_reqs
      /\ t.m_pending_detail_reqs = s.m_pending_detail_reqs
      /\ t.closed = s.closed /\ t.punished = s.punished
    BY <1>1 DEF Node
<1> QED
    BY <1>2, <1>3 DEF Went, Member, Brief, Detail, t, k

LEMMA WentPunish ==
    ASSUME NEW e, NEW s \in Node, NEW x, NEW c, NEW p
    PROVE  Went(e, s, punish_peer(s, p), x, c)
<1> DEFINE t == punish_peer(s, p)
<1>1. t = [s EXCEPT !.closed = s.closed \cup {p}, !.punished = s.punished \cup {p}]
    BY DEF punish_peer, Node
<1> HIDE DEF t
<1>2. /\ t.m_chains_by_peer_key = s.m_chains_by_peer_key
      /\ t.m_blocks = s.m_blocks
      /\ t.m_pending_block_hashes = s.m_pending_block_hashes /\ t.made = s.made
      /\ t.docs = s.docs /\ t.chain = s.chain
      /\ t.m_pending_brief_reqs = s.m_pending_brief_reqs
      /\ t.m_pending_detail_reqs = s.m_pending_detail_reqs
      /\ t.closed = s.closed \cup {p} /\ t.punished = s.punished \cup {p}
    BY <1>1 DEF Node
<1> QED
    BY <1>2 DEF Went, Member, Brief, Detail, t

LEMMA WentSet ==
    ASSUME NEW e, NEW s \in Node, NEW x, NEW c \in ChainId, NEW ch \in Chain,
           ch.m_peer = s.chain[c].m_peer
    PROVE  Went(e, s, [s EXCEPT !.chain[c] = ch], x, c)
<1> DEFINE t == [s EXCEPT !.chain[c] = ch]
           new == [s.chain EXCEPT ![c] = ch]
<1>1. t = [s EXCEPT !.chain = new]
    BY DEF Node
<1>2. new[c] = ch /\ \A d \in ChainId \ {c} : new[d] = s.chain[d]
    BY DEF Node
<1> HIDE DEF t, new
<1>3. /\ t.m_chains_by_peer_key = s.m_chains_by_peer_key
      /\ t.m_blocks = s.m_blocks
      /\ t.m_pending_block_hashes = s.m_pending_block_hashes /\ t.made = s.made
      /\ t.docs = s.docs /\ t.chain = new
      /\ t.m_pending_brief_reqs = s.m_pending_brief_reqs
      /\ t.m_pending_detail_reqs = s.m_pending_detail_reqs
      /\ t.closed = s.closed /\ t.punished = s.punished
    BY <1>1 DEF Node
<1> QED
    BY <1>2, <1>3 DEF Went, Member, Brief, Detail, t

LEMMA WentIn ==
    ASSUME NEW e, NEW s, NEW x, NEW c, NEW t, Joins(e, s, t, x, c), s.chain[c].m_peer \in e.mp,
           x \in Block => t.m_pending_brief_reqs[x] = s.m_pending_brief_reqs[x]
    PROVE  Went(e, s, t, x, c)
<1>1. \A d \in ChainId : Member(t, x, d) => Member(s, x, d) \/ d = c
    BY DEF Joins, Member
<1> QED
    BY <1>1 DEF Joins, Went

----------------------------------------------------------------------------
LEMMA FirstUnknownIs ==
    ASSUME NEW s, NEW pbs, Len(pbs) \in Nat
    PROVE  /\ FirstUnknown(s, pbs) \in 1..(Len(pbs) + 1)
           /\ FirstUnknown(s, pbs) <= Len(pbs) => pbs[FirstUnknown(s, pbs)][1] \notin s.m_blocks
           /\ \A j \in 1..(FirstUnknown(s, pbs) - 1) : pbs[j][1] \in s.m_blocks
<1> DEFINE N == Len(pbs)
           Is(i) == /\ i <= N => pbs[i][1] \notin s.m_blocks
                    /\ \A j \in 1..(i - 1) : pbs[j][1] \in s.m_blocks
           T == {i \in 0..N : \A j \in 1..i : pbs[j][1] \in s.m_blocks}
<1>1. \E i \in 1..(N + 1) : Is(i)
    <2> SUFFICES ASSUME \A i \in 1..(N + 1) : ~ Is(i) PROVE FALSE
        OBVIOUS
    <2>1. 0 \in T
        OBVIOUS
    <2>2. ASSUME NEW i \in 0..N, i \in T, i < N PROVE i + 1 \in T
        <3>1. i + 1 \in 1..(N + 1) /\ i + 1 \in 0..N /\ (i + 1) - 1 = i
            BY <2>2
        <3>2. ~ Is(i + 1)
            BY <3>1
        <3>3. pbs[i + 1][1] \in s.m_blocks
            BY <2>2, <3>1, <3>2
        <3>4. \A j \in 1..(i + 1) : j \in 1..i \/ j = i + 1
            BY <3>1
        <3> QED
            BY <2>2, <3>1, <3>3, <3>4
    <2>3. 0..N \subseteq T
        <3> HIDE DEF T
        <3> QED
            BY <2>1, <2>2, Striking!Induct
    <2>4. ~ Is(N + 1) /\ N \in T
        BY <2>3
    <2> QED
        BY <2>4
<1> QED
    BY <1>1 DEF FirstUnknown

\* What is left of a chain when its known blocks are dropped.
UnknownPart(s, ch) ==
    SubSeq(ch.m_req_blocks, FirstUnknown(s, ch.m_req_blocks), Len(ch.m_req_blocks))

Shortened(s, ch) == [ch EXCEPT !.m_req_blocks = UnknownPart(s, ch)]

LEMMA DetailRest ==
    ASSUME NEW hon, NEW s, NEW ch, Grounded(hon, s, ch), ch.m_start = 0,
           UnknownPart(s, ch) # <<>>
    PROVE  /\ Shortened(s, ch) \in Chain /\ Shortened(s, ch).m_peer = ch.m_peer
           /\ UnknownPart(s, ch)[1][1] \in Block /\ Grounded(hon, s, Shortened(s, ch))
           /\ Hash(Shortened(s, ch), Shortened(s, ch).m_start + 1) = UnknownPart(s, ch)[1][1]
<1> DEFINE pbs == ch.m_req_blocks
           N == Len(pbs)
           f == FirstUnknown(s, pbs)
           rest == SubSeq(pbs, f, N)
           new == [ch EXCEPT !.m_req_blocks = rest]
<1>1. ch \in Chain /\ pbs \in Seq(PendingBlock) /\ N \in Nat
    BY DEF Grounded, Chain
<1>2. f \in 1..(N + 1) /\ \A j \in 1..(f - 1) : pbs[j][1] \in s.m_blocks
    BY <1>1, FirstUnknownIs
<1> HIDE DEF f
<1>3. CASE f = N + 1
    <2>1. rest = <<>>
        BY <1>1, <1>3
    <2> QED
        BY <2>1 DEF f, UnknownPart
<1>4. CASE f \in 1..N
    <2> DEFINE M == (N - f) + 1
    <2>1. /\ rest \in Seq(PendingBlock) /\ Len(rest) = M /\ M \in Nat /\ M >= 1
          /\ \A i \in 1..M : i + (f - 1) \in 1..N /\ rest[i] = pbs[i + (f - 1)]
        BY <1>1, <1>4
    <2> HIDE DEF rest
    <2>2. /\ new \in Chain /\ new.m_peer = ch.m_peer /\ new.m_req_blocks = rest
          /\ new.m_declared_pow = ch.m_declared_pow /\ new.m_start = 0
        BY <1>1, <2>1 DEF Chain, Grounded
    <2> HIDE DEF new
    <2>3. \A i \in 1..M : Hash(new, i) = Hash(ch, i + (f - 1))
        BY <2>1, <2>2 DEF Hash
    <2>4. Tip(new) = Tip(ch)
        <3>1. M \in 1..M /\ M + (f - 1) = N
            BY <1>1, <1>4, <2>1
        <3>2. Hash(new, M) = Hash(ch, N)
            BY <2>3, <3>1
        <3> QED
            BY <2>1, <2>2, <3>2 DEF Tip
    <2>5. Gapless(new)
        <3> SUFFICES ASSUME NEW i \in 1..(M - 1) PROVE Parent[Hash(new, i + 1)] = Hash(new, i)
            BY <2>1, <2>2 DEF Gapless
        <3>1. i \in 1..M /\ i + 1 \in 1..M /\ i + (f - 1) \in 1..(N - 1)
              /\ (i + 1) + (f - 1) = (i + (f - 1)) + 1
            BY <1>1, <1>4, <2>1
        <3> DEFINE j == i + (f - 1)
        <3>2. Hash(new, i) = Hash(ch, j) /\ Hash(new, i + 1) = Hash(ch, j + 1)
            BY <2>3, <3>1
        <3> HIDE DEF j
        <3>3. j \in 1..(N - 1)
            BY <3>1 DEF j
        <3> QED
            BY <3>2, <3>3 DEF Grounded, Gapless
    <2>6. Parent[Foot(new)] \in s.m_blocks
        <3>1. Foot(new) = Hash(ch, f)
            <4>1. 1 \in 1..M /\ 1 + (f - 1) = f
                BY <1>4, <2>1
            <4> QED
                BY <2>3, <4>1 DEF Foot, Hash
        <3>2. CASE f = 1
            BY <3>1, <3>2 DEF Grounded, Foot, Hash
        <3>3. CASE f # 1
            <4> DEFINE j == f - 1
            <4>1. j \in 1..(N - 1) /\ j + 1 = f /\ pbs[j][1] \in s.m_blocks
                BY <1>1, <1>2, <1>4, <3>3
            <4> HIDE DEF j
            <4>2. Parent[Hash(ch, j + 1)] = Hash(ch, j)
                BY <4>1 DEF Grounded, Gapless
            <4> QED
                BY <3>1, <4>1, <4>2 DEF Hash
        <3> QED
            BY <3>2, <3>3
    <2>7. \A i \in 1..M : Right(Hash(new, i))
        BY <2>1, <2>3 DEF Grounded
    <2>8. Grounded(hon, s, new)
        <3>1. new.m_start < Len(new.m_req_blocks) /\ 1..new.m_start = {}
            BY <2>1, <2>2
        <3>2. Loyal(hon, new) /\ new.m_declared_pow = Pow[Tip(new)]
            BY <2>2, <2>4 DEF Grounded, Loyal
        <3>3. \A i \in 1..Len(new.m_req_blocks) : Right(Hash(new, i))
            BY <2>1, <2>2, <2>7
        <3> QED
            BY <2>2, <2>5, <2>6, <3>1, <3>2, <3>3 DEF Grounded
    <2>9. rest[1][1] \in Block /\ Hash(new, new.m_start + 1) = rest[1][1]
        <3>1. 1 \in 1..M /\ 0 + 1 = 1
            BY <2>1
        <3> QED
            BY <2>2, <2>7, <3>1 DEF Hash, Right
    <2> QED
        BY <2>2, <2>8, <2>9 DEF new, rest, f, UnknownPart, Shortened
<1>5. f = N + 1 \/ f \in 1..N
    BY <1>1, <1>2
<1> QED
    BY <1>3, <1>4, <1>5

\* do_detail_chain: the chain asks for its first unknown block, or is given up.
LEMMA DetailChain ==
    ASSUME NEW e, NEW s, NEW x, NEW rest, Sound(e, s, x, rest), NEW c \in rest,
           Grounded(e.hon, s, s.chain[c]), s.chain[c].m_start = 0
    PROVE  /\ Sound(e, do_detail_chain(s, c), x, rest \ {c})
           /\ Went(e, s, do_detail_chain(s, c), x, c)
<1> DEFINE ch == s.chain[c]
           left == UnknownPart(s, ch)
           new == Shortened(s, ch)
           t == [s EXCEPT !.chain[c] = new]
           h == left[1][1]
<1>1. s \in Node /\ Base(e, s) /\ c \in ChainId /\ Held(e, s, c) /\ ch \in Chain
    BY DEF Sound, Base, Tidy, Held
<1>2. CASE ~Heavier(s, c) \/ Closed(s, c) \/ left = <<>>
    <2>1. do_detail_chain(s, c) = EraseKey(s, KeyOf(s, c))
        BY <1>2 DEF do_detail_chain, UnknownPart
    <2> QED
        BY <1>1, <2>1, EraseHeld, WentErase
<1>3. CASE ~ (~Heavier(s, c) \/ Closed(s, c) \/ left = <<>>)
    <2>1. [s EXCEPT !.chain[c].m_req_blocks = left] = t
        <3>1. [s EXCEPT !.chain[c] = [s.chain[c] EXCEPT !.m_req_blocks = left]] = t
            BY DEF Shortened
        <3> HIDE DEF left
        <3> QED
            BY <1>1, <3>1 DEF Node
    <2>2. do_detail_chain(s, c) = AskDetail(t, h, c)
        <3>1. do_detail_chain(s, c) = AskDetail([s EXCEPT !.chain[c].m_req_blocks = left], h, c)
            BY <1>3 DEF do_detail_chain, UnknownPart
        <3> QED
            BY <2>1, <3>1
    <2>3. /\ new \in Chain /\ new.m_peer = ch.m_peer /\ h \in Block /\ Grounded(e.hon, s, new)
          /\ Hash(new, new.m_start + 1) = h
        <3>1. left # <<>>
            BY <1>3
        <3> HIDE DEF ch
        <3> QED
            BY <3>1, DetailRest DEF ch
    <2> HIDE DEF new, left, h, ch
    <2>4. Sound(e, t, x, rest) /\ Went(e, s, t, x, c)
        BY <1>1, <2>3, SetHeld, WentSet DEF ch
    <2>5. t \in Node /\ t.chain[c] = new /\ t.closed = s.closed /\ t.m_blocks = s.m_blocks
          /\ t.docs = s.docs
        <3>1. t \in Node
            BY <2>4 DEF Sound, Base
        <3> QED
            BY <1>1, <3>1 DEF Node
    <2> HIDE DEF t
    <2>6. ~ Closed(t, c) /\ Grounded(e.hon, t, t.chain[c])
          /\ Hash(t.chain[c], t.chain[c].m_start + 1) = h
        BY <1>3, <2>3, <2>5 DEF Closed, Grounded, ch
    <2> DEFINE u == AskDetail(t, h, c)
    <2>7. Joins(e, t, u, x, c) /\ u.m_pending_brief_reqs = t.m_pending_brief_reqs
        BY <2>3, <2>4, <2>6, AskDetailJoins
    <2> HIDE DEF u
    <2>8. Sound(e, u, x, rest \ {c})
        BY <2>4, <2>7, JoinSound
    <2>9. t.chain[c].m_peer \in e.mp
        <3>1. Held(e, t, c) /\ Base(e, t)
            BY <2>4 DEF Sound, Tidy
        <3> QED
            BY <2>6, <3>1, LiveKey
    <2>10. Went(e, t, u, x, c)
        BY <2>7, <2>9, WentIn
    <2> QED
        BY <2>2, <2>4, <2>8, <2>10, WentOn DEF u
<1> QED
    BY <1>2, <1>3

\* A brief request is given up, its chains and those that went on.
LEMMA GiveUpBrief ==
    ASSUME NEW e, NEW s, NEW h \in Block, NEW rest, Sound(e, s, h, rest), Listed(s, Brief(s, h)),
           rest \subseteq Brief(s, h), NEW punish \in BOOLEAN,
           Elsewhere(e, s, h, Brief(s, h), punish),
           punish => Hurt(s) \/ \A c \in Brief(s, h) : s.chain[c].m_peer \notin e.hon
    PROVE  /\ Sound(e, punish_brief_req(s, h, punish), None, {})
           /\ punish_brief_req(s, h, punish).m_pending_brief_reqs[h] = NoRequest
<1> DEFINE M == Brief(s, h)
           t == Struck(s, M, punish)
           u == [t EXCEPT !.m_pending_brief_reqs[h] = NoRequest]
<1>1. s \in Node
    BY DEF Sound, Base
<1>2. punish_brief_req(s, h, punish) = u
    <2>1. StrikeAll(s, M, punish) = t
        <3> HIDE DEF M
        <3> QED
            BY <1>1, StrikeAllIs DEF M
    <2> HIDE DEF t
    <2> QED
        BY <2>1 DEF punish_brief_req, Brief
<1>3. Sound(e, t, h, {})
    <2> HIDE DEF M
    <2> QED
        BY DropSound DEF M
<1> HIDE DEF t
<1>4. Sound(e, u, None, {})
    BY <1>3, ClearBrief
<1>5. u.m_pending_brief_reqs[h] = NoRequest
    <2>1. t \in Node
        BY <1>3 DEF Sound, Base
    <2> QED
        BY <2>1 DEF Node
<1> QED
    BY <1>2, <1>4, <1>5

\* The chains of a request in mid-loop: those of rest have not had their turn.
Going(e, s, h, M, rest) ==
    /\ Sound(e, s, h, rest) /\ rest \subseteq M /\ Brief(s, h) = M /\ Listed(s, M)
    /\ Elsewhere(e, s, h, M, TRUE) /\ IsPending(s, h)
    /\ \A d \in rest : Climbing(e.hon, s, s.chain[d])

Over(e, s, h) == Sound(e, s, None, {}) /\ s.m_pending_brief_reqs[h] = NoRequest

LEMMA WentKeeps ==
    ASSUME NEW e, NEW s, NEW h \in Block, NEW M, NEW rest, Going(e, s, h, M, rest), NEW c \in rest,
           NEW t, t \in Node, Went(e, s, t, h, c)
    PROVE  /\ Brief(t, h) = M /\ Listed(t, M) /\ Elsewhere(e, t, h, M, TRUE) /\ IsPending(t, h)
           /\ \A d \in rest \ {c} : Climbing(e.hon, t, t.chain[d])
<1>1. /\ Sound(e, s, h, rest) /\ rest \subseteq M /\ Brief(s, h) = M /\ Listed(s, M)
      /\ Elsewhere(e, s, h, M, TRUE) /\ IsPending(s, h)
      /\ \A d \in rest : Climbing(e.hon, s, s.chain[d])
    BY DEF Going
<1>2. s \in Node /\ Tidy(e, s, h, rest) /\ c \in M /\ c \in ChainId /\ M \subseteq ChainId
    BY <1>1 DEF Sound, Base, Listed
<1>3. /\ t.made = s.made /\ t.m_pending_block_hashes = s.m_pending_block_hashes
      /\ t.m_pending_brief_reqs[h] = s.m_pending_brief_reqs[h]
      /\ \A d \in ChainId \ {c} : t.chain[d] = s.chain[d]
      /\ t.chain[c].m_peer = s.chain[c].m_peer
      /\ \A d \in ChainId : Member(t, h, d) => Member(s, h, d) \/ (d = c /\ s.chain[c].m_peer \in e.mp)
      /\ s.closed \subseteq t.closed /\ s.punished \subseteq t.punished
      /\ Single(e) =>
             \A k \in Keys : t.m_chains_by_peer_key[k] \in {s.m_chains_by_peer_key[k], None}
    BY DEF Went
<1>4. \A d \in ChainId : KeyOf(t, d) = KeyOf(s, d) /\ t.chain[d].m_peer = s.chain[d].m_peer
    BY <1>3 DEF KeyOf
<1>5. Brief(t, h) = M /\ IsPending(t, h)
    BY <1>1, <1>3 DEF Brief, IsPending
<1>6. Listed(t, M)
    <2>1. t.chain[c] \in Chain
        BY <1>1, <1>2 DEF Listed, Went
    <2> QED
        BY <1>1, <1>2, <1>3, <1>4, <2>1 DEF Listed
<1>7. Elsewhere(e, t, h, M, TRUE)
    <2> SUFFICES ASSUME Single(e),
                        NEW d \in ChainId, Member(t, h, d), NEW g \in M, KeyOf(t, d) = KeyOf(t, g)
                 PROVE  Dead(e, t, d) \/ (d \in M /\ t.chain[d].m_peer \in e.mp)
        BY DEF Elsewhere
    <2>1. CASE d = c /\ s.chain[c].m_peer \in e.mp
        BY <1>2, <1>4, <2>1
    <2>2. CASE Member(s, h, d)
        <3>1. Dead(e, s, d) \/ (d \in M /\ s.chain[d].m_peer \in e.mp)
            BY <1>1, <1>2, <1>4, <2>2 DEF Elsewhere
        <3>2. KeyOf(s, d) \in Keys
            BY <1>2, <2>2, KeyIs DEF Tidy, Held
        <3>3. Dead(e, s, d) => Dead(e, t, d)
            BY <1>3, <1>4, <3>2 DEF Dead
        <3> QED
            BY <1>4, <3>1, <3>3
    <2> QED
        BY <1>3, <2>1, <2>2
<1>8. \A d \in rest \ {c} : Climbing(e.hon, t, t.chain[d])
    <2>1. \A d \in rest \ {c} : d \in ChainId \ {c}
        BY <1>1, <1>2
    <2> QED
        BY <1>1, <1>3, <2>1 DEF Climbing
<1> QED
    BY <1>5, <1>6, <1>7, <1>8

LEMMA WentGoing ==
    ASSUME NEW e, NEW s, NEW h \in Block, NEW M, NEW rest, Going(e, s, h, M, rest), NEW c \in rest,
           NEW t, Went(e, s, t, h, c), Sound(e, t, h, rest \ {c})
    PROVE  Going(e, t, h, M, rest \ {c})
<1>1. t \in Node /\ rest \ {c} \subseteq M
    BY DEF Sound, Base, Going
<1>2. /\ Brief(t, h) = M /\ Listed(t, M) /\ Elsewhere(e, t, h, M, TRUE) /\ IsPending(t, h)
      /\ \A d \in rest \ {c} : Climbing(e.hon, t, t.chain[d])
    BY <1>1, WentKeeps
<1> QED
    BY <1>1, <1>2 DEF Going

\* A chain of the request has climbed.
LEMMA GoOnIs ==
    ASSUME NEW e, NEW s, NEW h \in Block, NEW M, NEW rest, Going(e, s, h, M, rest), NEW c \in rest,
           NEW end, ~ Closed(s, c), Unknown(s.chain[c]) \in Block,
           \/ end = "height" /\ Hurt(s)
           \/ end = "work" /\ s.chain[c].m_peer \notin e.hon
           \/ end = "known" /\ Grounded(e.hon, s, s.chain[c])
           \/ end = "ask" /\ ~ IsPending(s, Unknown(s.chain[c]))
    PROVE  \/ GoOn(s, h, c, end).stop = TRUE /\ Over(e, GoOn(s, h, c, end).s, h)
           \/ GoOn(s, h, c, end).stop = FALSE /\ Going(e, GoOn(s, h, c, end).s, h, M, rest \ {c})
<1> DEFINE b == GoOn(s, h, c, end)
<1>1. /\ Sound(e, s, h, rest) /\ rest \subseteq M /\ Brief(s, h) = M /\ Listed(s, M)
      /\ Elsewhere(e, s, h, M, TRUE) /\ IsPending(s, h) /\ Climbing(e.hon, s, s.chain[c])
    BY DEF Going
<1>2. s \in Node /\ Base(e, s) /\ Tidy(e, s, h, rest) /\ c \in ChainId /\ Held(e, s, c)
    BY <1>1 DEF Sound, Base, Tidy
<1>3. s.chain[c] \in Chain /\ s.chain[c].m_peer \in Peer /\ s.chain[c].m_start = 0
    BY <1>1, <1>2, KeyIs DEF Held, Climbing
<1>4. CASE end = "height" /\ Hurt(s)
    <2>1. b.s = punish_brief_req(s, h, TRUE) /\ b.stop = TRUE
        BY <1>4 DEF GoOn
    <2>2. Sound(e, b.s, None, {}) /\ b.s.m_pending_brief_reqs[h] = NoRequest
        BY <1>1, <1>4, <2>1, GiveUpBrief
    <2> QED
        BY <2>1, <2>2 DEF Over
<1>5. CASE end = "work" /\ s.chain[c].m_peer \notin e.hon
    <2> DEFINE t == EraseKey(s, KeyOf(s, c))
               p == s.chain[c].m_peer
    <2>1. b.s = PunishChain(s, c) /\ b.stop = FALSE
        BY <1>5 DEF GoOn
    <2>2. PunishChain(s, c) = punish_peer(t, p)
        BY DEF PunishChain
    <2>3. Sound(e, t, h, rest \ {c}) /\ Went(e, s, t, h, c)
        BY <1>1, <1>2, EraseHeld, WentErase
    <2>4. t \in Node
        BY <2>3 DEF Sound, Base
    <2> HIDE DEF t, p
    <2>5. Sound(e, punish_peer(t, p), h, rest \ {c})
        BY <1>3, <1>5, <2>3, PunishSound DEF p
    <2>6. Went(e, s, punish_peer(t, p), h, c)
        BY <2>3, <2>4, WentPunish, WentOn
    <2>7. Going(e, punish_peer(t, p), h, M, rest \ {c})
        BY <2>5, <2>6, WentGoing
    <2> QED
        BY <2>1, <2>2, <2>7 DEF t, p
<1>6. CASE end = "known" /\ Grounded(e.hon, s, s.chain[c])
    <2>1. b.s = do_detail_chain(s, c) /\ b.stop = FALSE
        BY <1>6 DEF GoOn
    <2>2. Sound(e, b.s, h, rest \ {c}) /\ Went(e, s, b.s, h, c)
        BY <1>1, <1>3, <1>6, <2>1, DetailChain
    <2> HIDE DEF b
    <2>3. Going(e, b.s, h, M, rest \ {c})
        BY <2>2, WentGoing
    <2> QED
        BY <2>1, <2>3 DEF b
<1>7. CASE end = "ask" /\ ~ IsPending(s, Unknown(s.chain[c]))
    <2> DEFINE g == Unknown(s.chain[c])
               t == AskBrief(s, g, c)
    <2>1. b.s = t /\ b.stop = FALSE
        BY <1>7 DEF GoOn
    <2>2. g \in Block /\ g # h
        BY <1>1, <1>7
    <2>3. Joins(e, s, t, h, c) /\ \A i \in Block \ {g} : t.m_pending_brief_reqs[i] = s.m_pending_brief_reqs[i]
        <3> HIDE DEF g
        <3> QED
            BY <1>1, <2>2, AskBriefJoins DEF g
    <2> HIDE DEF t
    <2>4. Sound(e, t, h, rest \ {c})
        BY <1>1, <2>3, JoinSound
    <2>5. s.chain[c].m_peer \in e.mp
        BY <1>2, LiveKey
    <2>6. Went(e, s, t, h, c)
        <3>1. t.m_pending_brief_reqs[h] = s.m_pending_brief_reqs[h]
            BY <2>2, <2>3
        <3> QED
            BY <2>3, <2>5, <3>1, WentIn
    <2>7. Going(e, t, h, M, rest \ {c})
        BY <2>4, <2>6, WentGoing
    <2> QED
        BY <2>1, <2>7
<1> QED
    BY <1>4, <1>5, <1>6, <1>7

LEMMA BriefTurnIs ==
    ASSUME NEW e, NEW s, NEW h \in Block, NEW M, NEW rest, Going(e, s, h, M, rest), NEW c \in rest,
           NEW a, a.s = s, a.stop = FALSE, a = [s |-> a.s, stop |-> a.stop]
    PROVE  \/ BriefTurn(a, h, c).stop = TRUE /\ Over(e, BriefTurn(a, h, c).s, h)
           \/ /\ BriefTurn(a, h, c).stop = FALSE
              /\ Going(e, BriefTurn(a, h, c).s, h, M, rest \ {c})
<1>1. Sound(e, s, h, rest) /\ Climbing(e.hon, s, s.chain[c])
    BY DEF Going
<1>2. s \in Node /\ Base(e, s) /\ Tidy(e, s, h, rest) /\ c \in ChainId
    BY <1>1 DEF Sound, Base, Tidy
<1>3. CASE Closed(s, c)
    <2> DEFINE t == EraseKey(s, KeyOf(s, c))
    <2>1. BriefTurn(a, h, c) = [a EXCEPT !.s = t]
        BY <1>3 DEF BriefTurn
    <2>2. Sound(e, t, h, rest \ {c}) /\ Went(e, s, t, h, c)
        BY <1>1, <1>2, EraseHeld, WentErase
    <2> HIDE DEF t
    <2>3. Going(e, t, h, M, rest \ {c})
        BY <2>2, WentGoing
    <2>4. BriefTurn(a, h, c).s = t /\ BriefTurn(a, h, c).stop = FALSE
        BY <2>1
    <2> QED
        BY <2>3, <2>4
<1>4. CASE ~ Closed(s, c)
    <2> DEFINE up == Climb(s, s.chain[c])
               new == up.chain
               end == up.end
               t == [s EXCEPT !.chain[c] = new]
    <2>1. BriefTurn(a, h, c) = GoOn(t, h, c, end)
        BY <1>4 DEF BriefTurn, AfterClimb
    <2>2. /\ Climbing(e.hon, s, new) /\ new.m_peer = s.chain[c].m_peer
          /\ Foot(new) \in Block /\ Unknown(new) \in Block
          /\ \/ end = "height" /\ Hurt(s)
             \/ end = "work" /\ s.chain[c].m_peer \notin e.hon
             \/ end = "known" /\ Grounded(e.hon, s, new)
             \/ end = "ask" /\ ~ IsPending(s, Unknown(new))
        BY <1>1, <1>2, ClimbIs
    <2> HIDE DEF up, new, end
    <2>3. new \in Chain
        BY <2>2 DEF Climbing
    <2>4. Sound(e, t, h, rest)
        BY <1>1, <2>2, <2>3, SetHeld
    <2>5. /\ t \in Node /\ t.chain[c] = new /\ t.made = s.made /\ t.closed = s.closed
          /\ t.m_pending_block_hashes = s.m_pending_block_hashes
          /\ t.m_blocks = s.m_blocks /\ t.docs = s.docs
          /\ t.m_pending_brief_reqs = s.m_pending_brief_reqs
          /\ t.m_pending_detail_reqs = s.m_pending_detail_reqs
          /\ t.punished = s.punished /\ t.m_chains_by_peer_key = s.m_chains_by_peer_key
          /\ \A d \in ChainId \ {c} : t.chain[d] = s.chain[d]
        <3>1. t \in Node
            BY <2>4 DEF Sound, Base
        <3> QED
            BY <1>2, <3>1 DEF Node
    <2> HIDE DEF t
    <2>6. Going(e, t, h, M, rest)
        <3>1. /\ rest \subseteq M /\ Brief(s, h) = M /\ Listed(s, M)
              /\ Elsewhere(e, s, h, M, TRUE) /\ IsPending(s, h)
              /\ \A d \in rest : Climbing(e.hon, s, s.chain[d])
            BY DEF Going
        <3>2. \A d \in ChainId : KeyOf(t, d) = KeyOf(s, d) /\ t.chain[d].m_peer = s.chain[d].m_peer
            BY <2>2, <2>5 DEF KeyOf
        <3>3. Listed(t, M)
            BY <2>3, <2>5, <3>1, <3>2 DEF Listed
        <3>4. Elsewhere(e, t, h, M, TRUE)
            <4>1. M \subseteq ChainId
                BY <3>1 DEF Listed
            <4>2. \A d \in ChainId : Member(t, h, d) = Member(s, h, d)
                BY <2>5 DEF Member, Brief, Detail
            <4>3. \A d \in ChainId : Dead(e, s, d) => Dead(e, t, d)
                BY <2>5, <3>2 DEF Dead
            <4> QED
                BY <3>1, <3>2, <4>1, <4>2, <4>3 DEF Elsewhere
        <3>5. \A d \in rest : Climbing(e.hon, t, t.chain[d])
            <4> SUFFICES ASSUME NEW d \in rest PROVE Climbing(e.hon, t, t.chain[d])
                OBVIOUS
            <4>1. d \in ChainId
                BY <1>2 DEF Tidy
            <4>2. Climbing(e.hon, s, t.chain[d])
                BY <2>2, <2>5, <3>1, <4>1
            <4> QED
                BY <2>5, <4>2 DEF Climbing
        <3>6. Brief(t, h) = M /\ IsPending(t, h)
            BY <2>5, <3>1 DEF Brief, IsPending
        <3> QED
            BY <2>4, <3>1, <3>3, <3>4, <3>5, <3>6 DEF Going
    <2>7. /\ ~ Closed(t, c) /\ Unknown(t.chain[c]) \in Block
          /\ \/ end = "height" /\ Hurt(t)
             \/ end = "work" /\ t.chain[c].m_peer \notin e.hon
             \/ end = "known" /\ Grounded(e.hon, t, t.chain[c])
             \/ end = "ask" /\ ~ IsPending(t, Unknown(t.chain[c]))
        BY <1>4, <2>2, <2>5 DEF Closed, Hurt, Grounded, IsPending
    <2>8. \/ GoOn(t, h, c, end).stop = TRUE /\ Over(e, GoOn(t, h, c, end).s, h)
          \/ /\ GoOn(t, h, c, end).stop = FALSE
             /\ Going(e, GoOn(t, h, c, end).s, h, M, rest \ {c})
        BY <2>6, <2>7, GoOnIs
    <2> QED
        BY <2>1, <2>8
<1> QED
    BY <1>3, <1>4

TurnsGo(e, h, M, rest, a) ==
    /\ a = [s |-> a.s, stop |-> a.stop]
    /\ \/ a.stop = TRUE /\ Over(e, a.s, h)
       \/ a.stop = FALSE /\ Going(e, a.s, h, M, rest)

LEMMA TurnGoes ==
    ASSUME NEW e, NEW h \in Block, NEW M, NEW rest, NEW c \in rest,
           NEW a, TurnsGo(e, h, M, rest, a)
    PROVE  TurnsGo(e, h, M, rest \ {c}, BriefTurn(a, h, c))
<1> DEFINE b == BriefTurn(a, h, c)
<1>1. CASE a.stop = TRUE
    <2>1. b = a
        BY <1>1 DEF BriefTurn
    <2> QED
        BY <1>1, <2>1 DEF TurnsGo
<1>2. CASE a.stop = FALSE
    <2>1. Going(e, a.s, h, M, rest) /\ a = [s |-> a.s, stop |-> a.stop]
        BY <1>2 DEF TurnsGo
    <2>2. \/ b.stop = TRUE /\ Over(e, b.s, h)
          \/ b.stop = FALSE /\ Going(e, b.s, h, M, rest \ {c})
        BY <1>2, <2>1, BriefTurnIs
    <2>3. b = [s |-> b.s, stop |-> b.stop]
        <3>1. CASE Closed(a.s, c)
            <4>1. b = [a EXCEPT !.s = EraseKey(a.s, KeyOf(a.s, c))]
                BY <1>2, <3>1 DEF BriefTurn
            <4> QED
                BY <2>1, <4>1
        <3>2. CASE ~ Closed(a.s, c)
            <4> DEFINE up == Climb(a.s, a.s.chain[c])
                       t == [a.s EXCEPT !.chain[c] = up.chain]
            <4>1. b = GoOn(t, h, c, up.end)
                BY <1>2, <3>2 DEF BriefTurn, AfterClimb
            <4>2. up.end \in {"height", "work", "known", "ask"}
                <5>1. Base(e, a.s) /\ Climbing(e.hon, a.s, a.s.chain[c])
                    BY <2>1 DEF Going, Sound
                <5> QED
                    BY <5>1, ClimbIs
            <4> HIDE DEF up, t
            <4> QED
                BY <4>1, <4>2 DEF GoOn
        <3> QED
            BY <3>1, <3>2
    <2> HIDE DEF b
    <2>4. TurnsGo(e, h, M, rest \ {c}, b)
        BY <2>2, <2>3 DEF TurnsGo
    <2> QED
        BY <2>4 DEF b
<1> QED
    BY <1>1, <1>2 DEF TurnsGo

\* The header h came: every chain of its request goes elsewhere.
LEMMA FinishBrief ==
    ASSUME NEW e, NEW s, Sound(e, s, None, {}), NEW h \in Block, IsPending(s, h)
    PROVE  Sound(e, finish_brief(s, h), None, {})
<1> DEFINE M == Brief(s, h)
           q == InOrder(s, M)
           L == Len(q)
           rest(i) == {q[j] : j \in (i + 1)..L}
           a == [s |-> s, stop |-> FALSE]
<1>1. Sound(e, s, h, M) /\ Listed(s, M) /\ Elsewhere(e, s, h, M, FALSE)
    BY TakeBrief
<1>2. Lists(q, M)
    <2> HIDE DEF M
    <2> QED
        BY <1>1, ListedIs
<1>3. Going(e, s, h, M, M)
    <2>1. Elsewhere(e, s, h, M, TRUE)
        BY <1>1 DEF Elsewhere
    <2>2. \A d \in M : Climbing(e.hon, s, s.chain[d])
        <3>1. h # None
            BY BlockSyncAssumption
        <3> QED
            BY <3>1 DEF Sound, Content, Waiting
    <2> QED
        BY <1>1, <2>1, <2>2 DEF Going
<1> DEFINE f == Finishing!Fold(h, a, q)
<1>4. finish_brief(s, h) = [f.s EXCEPT !.m_pending_brief_reqs[h] = NoRequest]
    BY DEF finish_brief, Finishing!Fold, Finishing!MapThenFoldSet,
           Finishing!Greatest, FoldLeft, MapThenFoldSet, Max, BriefLoopTurn, Brief
<1> HIDE DEF q
<1>5. L \in Nat /\ DOMAIN q = 1..L
    BY <1>2 DEF Lists
<1>6. PICK run : Finishing!IsRun(h, a, q, run) /\ f = run[L]
    <2> HIDE DEF L, a
    <2>1. Len(q) \in Nat /\ DOMAIN q = 1..Len(q)
        BY <1>5 DEF L
    <2> QED
        BY <2>1, Finishing!FoldRuns DEF L
<1> HIDE DEF f
<1> DEFINE T == {i \in 0..L : TurnsGo(e, h, M, rest(i), run[i])}
<1>7. 0 \in T
    <2>1. rest(0) = M
        BY <1>2 DEF Lists
    <2>2. run[0] = a
        BY <1>6 DEF Finishing!IsRun
    <2> HIDE DEF rest, M
    <2>3. TurnsGo(e, h, M, M, a)
        BY <1>3 DEF TurnsGo
    <2> QED
        BY <1>5, <2>1, <2>2, <2>3
<1>8. ASSUME NEW i \in 0..L, i \in T, i < L PROVE i + 1 \in T
    <2> DEFINE c == q[i + 1]
    <2>1. i + 1 \in 1..L /\ (i + 1) - 1 = i /\ i + 1 \in 0..L
        BY <1>5, <1>8
    <2>2. run[i + 1] = BriefTurn(run[i], h, c)
        BY <1>6, <2>1 DEF Finishing!IsRun, BriefLoopTurn
    <2>3. c \in rest(i) /\ rest(i + 1) = rest(i) \ {c}
        <3>1. \A j, k \in 1..L : q[j] = q[k] => j = k
            BY <1>2 DEF Lists
        <3>2. \A j \in (i + 1)..L : j \in 1..L /\ (j = i + 1 \/ j \in ((i + 1) + 1)..L)
            BY <1>5, <2>1
        <3>3. \A j \in ((i + 1) + 1)..L : j \in (i + 1)..L /\ j # i + 1
            BY <1>5, <2>1
        <3>4. i + 1 \in (i + 1)..L
            BY <1>5, <2>1
        <3> QED
            BY <2>1, <3>1, <3>2, <3>3, <3>4
    <2> HIDE DEF rest, M, c
    <2>4. TurnsGo(e, h, M, rest(i), run[i])
        BY <1>8
    <2>5. TurnsGo(e, h, M, rest(i) \ {c}, BriefTurn(run[i], h, c))
        BY <2>3, <2>4, TurnGoes
    <2> QED
        BY <2>1, <2>2, <2>3, <2>5
<1>9. 0..L \subseteq T
    <2> HIDE DEF T
    <2> QED
        BY <1>5, <1>7, <1>8, Striking!Induct
<1>10. TurnsGo(e, h, M, {}, f)
    <2>1. L \in 0..L /\ rest(L) = {}
        BY <1>5
    <2> HIDE DEF rest, M
    <2> QED
        BY <1>6, <1>9, <2>1
<1>11. CASE f.stop = TRUE
    <2>1. Sound(e, f.s, None, {}) /\ f.s.m_pending_brief_reqs[h] = NoRequest
        BY <1>10, <1>11 DEF TurnsGo, Over
    <2>2. f.s \in Node
        BY <2>1 DEF Sound, Base
    <2>3. [f.s EXCEPT !.m_pending_brief_reqs[h] = NoRequest] = f.s
        <3> DEFINE t == f.s
        <3>1. [t.m_pending_brief_reqs EXCEPT ![h] = NoRequest] = t.m_pending_brief_reqs
            <4>1. t.m_pending_brief_reqs = [g \in Block |-> t.m_pending_brief_reqs[g]]
                BY <2>2 DEF Node
            <4> QED
                BY <2>1, <4>1
        <3>2. [t EXCEPT !.m_pending_brief_reqs = t.m_pending_brief_reqs] = t
            BY <2>2 DEF Node
        <3> HIDE DEF t
        <3>3. [t EXCEPT !.m_pending_brief_reqs[h] = NoRequest]
                = [t EXCEPT !.m_pending_brief_reqs = [t.m_pending_brief_reqs EXCEPT ![h] = NoRequest]]
            BY <2>2 DEF Node, t
        <3> QED
            BY <3>1, <3>2, <3>3 DEF t
    <2> QED
        BY <1>4, <2>1, <2>3
<1>12. CASE f.stop = FALSE
    <2>1. Sound(e, f.s, h, {})
        BY <1>10, <1>12 DEF TurnsGo, Going
    <2> QED
        BY <1>4, <2>1, ClearBrief
<1> QED
    BY <1>10, <1>11, <1>12 DEF TurnsGo

\* More blocks are known; documents go of known blocks only.
LEMMA Grow ==
    ASSUME NEW e, NEW s, NEW x, NEW rest, Sound(e, s, x, rest), NEW B \in SUBSET Block,
           NEW m \in B, NEW D \in SUBSET PendingBlock, s.m_blocks \subseteq B,
           \A b \in B : b # Genesis => Parent[b] \in B /\ Id[b] > 0,
           \A pb \in s.docs : pb \in D \/ pb[1] \in B
    PROVE  Sound(e, [s EXCEPT !.m_blocks = B, !.m_most_difficult_block = m, !.docs = D], x, rest)
<1> DEFINE t == [s EXCEPT !.m_blocks = B, !.m_most_difficult_block = m, !.docs = D]
<1>1. s \in Node /\ Base(e, s) /\ Tidy(e, s, x, rest) /\ Content(e, s, x)
    BY DEF Sound, Base
<1>2. /\ t \in Node /\ t.m_chains_by_peer_key = s.m_chains_by_peer_key
      /\ t.m_blocks = B /\ t.m_most_difficult_block = m
      /\ t.m_pending_block_hashes = s.m_pending_block_hashes /\ t.made = s.made
      /\ t.docs = D /\ t.chain = s.chain
      /\ t.m_pending_brief_reqs = s.m_pending_brief_reqs
      /\ t.m_pending_detail_reqs = s.m_pending_detail_reqs
      /\ t.closed = s.closed /\ t.punished = s.punished /\ t.exited = s.exited
    BY <1>1 DEF Node
<1> HIDE DEF t
<1>3. Base(e, t)
    <2>1. Rooted(t)
        BY <1>1, <1>2 DEF Base, Rooted
    <2> QED
        BY <1>1, <1>2, <2>1 DEF Base, IsPending, Hurt
<1>4. \A d : KeyOf(t, d) = KeyOf(s, d) /\ Member(t, x, d) = Member(s, x, d)
             /\ Placed(e, t, x, d) = Placed(e, s, x, d)
    BY <1>2 DEF KeyOf, Member, Placed, Brief, Detail
<1>5. \A ch : Grounded(e.hon, s, ch) => Grounded(e.hon, t, ch)
    <2> SUFFICES ASSUME NEW ch, Grounded(e.hon, s, ch) PROVE Grounded(e.hon, t, ch)
        OBVIOUS
    <2>1. \A i \in 1..ch.m_start : ch.m_req_blocks[i] \in s.docs
                => ch.m_req_blocks[i] \in D \/ Hash(ch, i) \in B
        BY DEF Hash
    <2> QED
        BY <1>2, <2>1 DEF Grounded
<1>6. Content(e, t, x)
    <2>1. \A h \in Block : h # x => \A c \in Brief(t, h) : Waiting(e.hon, t, c, h)
        BY <1>1, <1>2 DEF Content, Waiting, Climbing, Brief
    <2>2. \A h \in Block : \A c \in Detail(t, h) : Asking(e.hon, t, c, h)
        BY <1>1, <1>2, <1>5 DEF Content, Asking, Detail
    <2> QED
        BY <2>1, <2>2 DEF Content
<1>7. \A d : Held(e, s, d) => Held(e, t, d)
    BY <1>2, <1>4 DEF Held, Dead
<1>8. Tidy(e, t, x, rest)
    <2>1. /\ \A h \in Block : h # x => Neat(e, t, t.m_pending_brief_reqs[h])
          /\ \A h \in Block : Neat(e, t, t.m_pending_detail_reqs[h])
        BY <1>1, <1>2, <1>4 DEF Tidy, Neat
    <2> QED
        BY <1>1, <1>2, <1>4, <1>7, <2>1 DEF Tidy
<1> QED
    BY <1>3, <1>6, <1>8 DEF Sound, t

\* The request is empty: nobody asks.
LEMMA NoRequestIs ==
    ASSUME NEW e, NEW s PROVE NoRequest \in Request /\ NoRequest.m_chains = {} /\ Neat(e, s, NoRequest)
<1>1. <<>> \in Seq(ChainId) /\ DOMAIN <<>> = {}
    OBVIOUS
<1> QED
    BY <1>1 DEF NoRequest, Request, Neat

\* The chains of a detail request are taken in hand, and the request forgotten.
LEMMA TakeDetail ==
    ASSUME NEW e, NEW s, Sound(e, s, None, {}), NEW h \in Block
    PROVE  LET u == [s EXCEPT !.m_pending_detail_reqs[h] = NoRequest]
           IN  /\ Sound(e, u, None, Detail(s, h)) /\ Listed(s, Detail(s, h))
               /\ Elsewhere(e, u, None, Detail(s, h), FALSE)
               /\ u.chain = s.chain /\ u.m_blocks = s.m_blocks /\ u.docs = s.docs
               /\ u.made = s.made /\ u.m_chains_by_peer_key = s.m_chains_by_peer_key
               /\ u.closed = s.closed /\ u.punished = s.punished
<1> DEFINE u == [s EXCEPT !.m_pending_detail_reqs[h] = NoRequest]
           M == Detail(s, h)
<1>1. s \in Node /\ Base(e, s) /\ Tidy(e, s, None, {}) /\ Content(e, s, None)
    BY DEF Sound, Base
<1>2. Sound(e, u, None, M)
    <2>1. NoRequest \in Request /\ Neat(e, s, NoRequest) /\ NoRequest.m_chains = {}
        BY NoRequestIs
    <2> DEFINE r == NoRequest
    <2> HIDE DEF r, M
    <2>2. r \in Request /\ Neat(e, s, r) /\ M \subseteq Detail(s, h) /\ r.m_chains = Detail(s, h) \ M
        BY <2>1 DEF r, M
    <2>3. Sound(e, [s EXCEPT !.m_pending_detail_reqs[h] = r], None, M)
        BY <2>2, NewDetail
    <2> QED
        BY <2>3 DEF r
<1>3. /\ u.chain = s.chain /\ u.m_blocks = s.m_blocks /\ u.docs = s.docs
      /\ u.made = s.made /\ u.m_chains_by_peer_key = s.m_chains_by_peer_key
      /\ u.closed = s.closed /\ u.punished = s.punished
    BY <1>1 DEF Node
<1> HIDE DEF u
<1>4. \A c \in M : c \in ChainId /\ Held(e, s, c) /\ s.chain[c] \in Chain
    BY HeldBetween
<1>5. Listed(s, M)
    <2>1. Neat(e, s, s.m_pending_detail_reqs[h])
        BY <1>1 DEF Tidy
    <2> QED
        BY <1>4, <2>1 DEF Listed, Neat, Detail
<1>6. Elsewhere(e, u, None, M, FALSE)
    <2> SUFFICES ASSUME Single(e),
                        NEW c \in ChainId, Member(u, None, c), NEW d \in M, KeyOf(u, c) = KeyOf(u, d)
                 PROVE  Dead(e, u, c)
        BY DEF Elsewhere
    <2>1. Tidy(e, u, None, M)
        BY <1>2 DEF Sound
    <2>2. Held(e, u, c) /\ Held(e, u, d) /\ ~ Member(u, None, d) /\ d \in ChainId
        BY <1>4, <2>1 DEF Tidy
    <2>3. c # d
        BY <2>2
    <2> QED
        BY <2>2, <2>3, OneForKey
<1> QED
    BY <1>2, <1>3, <1>5, <1>6 DEF u

\* A detail request is given up.
LEMMA GiveUpDetail ==
    ASSUME NEW e, NEW s, Sound(e, s, None, {}), NEW h \in Block, NEW punish \in BOOLEAN,
           punish => Hurt(s) \/ \A c \in Detail(s, h) : s.chain[c].m_peer \notin e.hon
    PROVE  Sound(e, punish_detail_req(s, h, punish), None, {})
<1> DEFINE M == Detail(s, h)
           u == [s EXCEPT !.m_pending_detail_reqs[h] = NoRequest]
<1>1. s \in Node
    BY DEF Sound, Base
<1>2. /\ Sound(e, u, None, M) /\ Listed(s, M) /\ Elsewhere(e, u, None, M, FALSE)
      /\ u.chain = s.chain /\ u.made = s.made
      /\ u.m_chains_by_peer_key = s.m_chains_by_peer_key
      /\ u.closed = s.closed /\ u.punished = s.punished
    BY TakeDetail
<1>3. punish_detail_req(s, h, punish) = Struck(u, M, punish)
    <2>1. StrikeAll(s, M, punish) = Struck(s, M, punish)
        <3> HIDE DEF M
        <3> QED
            BY <1>1, <1>2, StrikeAllIs
    <2>2. punish_detail_req(s, h, punish)
            = [Struck(s, M, punish) EXCEPT !.m_pending_detail_reqs[h] = NoRequest]
        BY <2>1 DEF punish_detail_req, Detail
    <2> DEFINE K == KeysLeft(s, M)
               C == s.closed \cup Caught(s, M, punish)
               P == s.punished \cup Caught(s, M, punish)
    <2>3. Struck(s, M, punish)
            = [s EXCEPT !.m_chains_by_peer_key = K, !.closed = C, !.punished = P]
        BY DEF Struck
    <2>4. KeysLeft(u, M) = K /\ Caught(u, M, punish) = Caught(s, M, punish)
        <3> HIDE DEF u, M
        <3> QED
            BY <1>2 DEF KeysLeft, Caught, KeyOf
    <2>5. Struck(u, M, punish)
            = [u EXCEPT !.m_chains_by_peer_key = K, !.closed = C, !.punished = P]
        <3> HIDE DEF u, M
        <3> QED
            BY <1>2, <2>4 DEF Struck
    <2> HIDE DEF K, C, P, M
    <2>6. [[s EXCEPT !.m_chains_by_peer_key = K, !.closed = C, !.punished = P]
              EXCEPT !.m_pending_detail_reqs[h] = NoRequest]
            = [u EXCEPT !.m_chains_by_peer_key = K, !.closed = C, !.punished = P]
        BY <1>1 DEF Node
    <2> QED
        BY <2>2, <2>3, <2>5, <2>6
<1> HIDE DEF u
<1>4. Listed(u, M)
    BY <1>2 DEF Listed, KeyOf
<1>5. Elsewhere(e, u, None, M, punish)
    BY <1>2 DEF Elsewhere
<1>6. punish => Hurt(u) \/ \A c \in M : u.chain[c].m_peer \notin e.hon
    BY <1>2 DEF Hurt
<1>7. Sound(e, Struck(u, M, punish), None, {})
    <2> HIDE DEF M
    <2>1. M \subseteq M
        OBVIOUS
    <2> QED
        BY <1>2, <1>4, <1>5, <1>6, <2>1, DropSound
<1> QED
    BY <1>3, <1>7

\* The block that chain ch is at is known or at hand.
AtHand(s, ch) ==
    Hash(ch, ch.m_start + 1) \in s.m_blocks \/ ch.m_req_blocks[ch.m_start + 1] \in s.docs

Stepped(ch) == [ch EXCEPT !.m_start = ch.m_start + 1]

LEMMA SteppedIs ==
    ASSUME NEW hon, NEW s, NEW ch, Grounded(hon, s, ch), AtHand(s, ch)
    PROVE  /\ Stepped(ch) \in Chain /\ Stepped(ch).m_peer = ch.m_peer
           /\ Stepped(ch).m_req_blocks = ch.m_req_blocks /\ Stepped(ch).m_start = ch.m_start + 1
           /\ Stepped(ch).m_start # Len(ch.m_req_blocks) =>
                /\ Grounded(hon, s, Stepped(ch))
                /\ Hash(Stepped(ch), Stepped(ch).m_start + 1) \in Block
<1> DEFINE new == Stepped(ch)
           m == ch.m_start + 1
<1>1. ch \in Chain /\ ch.m_start \in Nat /\ Len(ch.m_req_blocks) \in Nat
      /\ ch.m_start < Len(ch.m_req_blocks)
    BY Lengths DEF Grounded, Chain
<1>2. /\ new \in Chain /\ new.m_peer = ch.m_peer /\ new.m_req_blocks = ch.m_req_blocks
      /\ new.m_declared_pow = ch.m_declared_pow /\ new.m_start = m /\ m \in Nat
    BY <1>1 DEF Chain, Stepped
<1> HIDE DEF new
<1>3. ASSUME m # Len(ch.m_req_blocks)
      PROVE  Grounded(hon, s, new) /\ Hash(new, m + 1) \in Block
    <2>1. m < Len(ch.m_req_blocks) /\ m + 1 \in 1..Len(ch.m_req_blocks)
        BY <1>1, <1>3
    <2>2. \A i \in 1..m : Hash(new, i) \in s.m_blocks \/ new.m_req_blocks[i] \in s.docs
        <3>1. \A i \in 1..m : i \in 1..ch.m_start \/ i = m
            BY <1>1
        <3>2. Hash(new, m) \in s.m_blocks \/ new.m_req_blocks[m] \in s.docs
            BY <1>2 DEF AtHand, Hash
        <3> HIDE DEF m
        <3> QED
            BY <1>2, <3>1, <3>2 DEF Grounded, Hash
    <2> HIDE DEF m
    <2>3. Grounded(hon, s, new)
        BY <1>2, <2>1, <2>2 DEF Grounded, Gapless, Loyal, Tip, Hash, Foot
    <2>4. Hash(new, m + 1) \in Block
        BY <1>2, <2>1, Hashes
    <2> QED
        BY <2>3, <2>4
<1> QED
    BY <1>2, <1>3 DEF new

StepOn(t, c) ==
    IF t.chain[c].m_start = Len(t.chain[c].m_req_blocks) \/ Closed(t, c) \/ ~Heavier(t, c)
    THEN EraseKey(t, KeyOf(t, c))
    ELSE AskDetail(t, t.chain[c].m_req_blocks[t.chain[c].m_start + 1][1], c)

\* A chain goes on with its next block, or is at its end.
LEMMA NextDetailIs ==
    ASSUME NEW e, NEW s, NEW rest, Sound(e, s, None, rest), NEW c \in rest,
           Grounded(e.hon, s, s.chain[c]), AtHand(s, s.chain[c])
    PROVE  /\ Sound(e, NextDetail(s, c), None, rest \ {c})
           /\ Went(e, s, NextDetail(s, c), None, c)
<1> DEFINE ch == s.chain[c]
           new == Stepped(ch)
           t == [s EXCEPT !.chain[c] = new]
           h == new.m_req_blocks[new.m_start + 1][1]
<1>1. s \in Node /\ Base(e, s) /\ c \in ChainId /\ Held(e, s, c) /\ ch \in Chain
    BY DEF Sound, Base, Tidy, Held
<1>2. [s EXCEPT !.chain[c].m_start = @ + 1] = t
    <2>1. [s EXCEPT !.chain[c].m_start = @ + 1]
            = [s EXCEPT !.chain[c] = [s.chain[c] EXCEPT !.m_start = @ + 1]]
        BY <1>1 DEF Node
    <2>2. [ch EXCEPT !.m_start = @ + 1] = new
        BY <1>1 DEF Chain, Stepped
    <2> QED
        BY <2>1, <2>2
<1>3. /\ new \in Chain /\ new.m_peer = ch.m_peer
      /\ new.m_start # Len(new.m_req_blocks) =>
            Grounded(e.hon, s, new) /\ Hash(new, new.m_start + 1) \in Block
    <2> HIDE DEF ch
    <2>1. Grounded(e.hon, s, ch) /\ AtHand(s, ch)
        BY DEF ch
    <2> QED
        BY <2>1, SteppedIs
<1> HIDE DEF new
<1>4. Sound(e, t, None, rest) /\ Went(e, s, t, None, c)
    BY <1>1, <1>3, SetHeld, WentSet
<1>5. t \in Node /\ t.chain[c] = new /\ t.m_blocks = s.m_blocks /\ t.docs = s.docs
    <2>1. t \in Node
        BY <1>4 DEF Sound, Base
    <2> QED
        BY <1>1, <2>1 DEF Node
<1>6. NextDetail(s, c)
        = IF new.m_start = Len(new.m_req_blocks) \/ Closed(t, c) \/ ~Heavier(t, c)
          THEN EraseKey(t, KeyOf(t, c)) ELSE AskDetail(t, h, c)
    <2>1. NextDetail(s, c) = StepOn([s EXCEPT !.chain[c].m_start = @ + 1], c)
        BY DEF NextDetail, StepOn
    <2> HIDE DEF t
    <2>2. NextDetail(s, c) = StepOn(t, c)
        BY <1>2, <2>1
    <2> QED
        BY <1>5, <2>2 DEF StepOn
<1> HIDE DEF t
<1>7. CASE new.m_start = Len(new.m_req_blocks) \/ Closed(t, c) \/ ~Heavier(t, c)
    <2>1. NextDetail(s, c) = EraseKey(t, KeyOf(t, c))
        BY <1>6, <1>7
    <2>2. Sound(e, EraseKey(t, KeyOf(t, c)), None, rest \ {c})
        BY <1>4, EraseHeld
    <2>3. Went(e, t, EraseKey(t, KeyOf(t, c)), None, c)
        BY <1>5, WentErase
    <2> QED
        BY <1>4, <2>1, <2>2, <2>3, WentOn
<1>8. CASE ~ (new.m_start = Len(new.m_req_blocks) \/ Closed(t, c) \/ ~Heavier(t, c))
    <2> DEFINE u == AskDetail(t, h, c)
    <2>1. NextDetail(s, c) = u
        BY <1>6, <1>8
    <2>2. /\ h \in Block /\ ~ Closed(t, c) /\ Grounded(e.hon, t, t.chain[c])
          /\ Hash(t.chain[c], t.chain[c].m_start + 1) = h
        BY <1>3, <1>5, <1>8 DEF Grounded, Hash
    <2> HIDE DEF h
    <2>3. Joins(e, t, u, None, c)
        BY <1>4, <2>2, AskDetailJoins
    <2> HIDE DEF u
    <2>4. Sound(e, u, None, rest \ {c})
        BY <1>4, <2>3, JoinSound
    <2>5. t.chain[c].m_peer \in e.mp
        <3>1. Held(e, t, c) /\ Base(e, t)
            BY <1>4 DEF Sound, Tidy
        <3> QED
            BY <2>2, <3>1, LiveKey
    <2>6. Went(e, t, u, None, c)
        BY <2>3, <2>5, WentIn, BlockSyncAssumption
    <2> QED
        BY <1>4, <2>1, <2>4, <2>6, WentOn
<1> QED
    BY <1>7, <1>8

Ready(e, s, rest) ==
    /\ Sound(e, s, None, rest)
    /\ \A d \in rest : Grounded(e.hon, s, s.chain[d]) /\ AtHand(s, s.chain[d])

LEMMA NextReady ==
    ASSUME NEW e, NEW s, NEW rest, Ready(e, s, rest), NEW c \in rest
    PROVE  Ready(e, NextDetail(s, c), rest \ {c})
<1> DEFINE t == NextDetail(s, c)
<1>1. /\ Sound(e, s, None, rest)
      /\ \A d \in rest : Grounded(e.hon, s, s.chain[d]) /\ AtHand(s, s.chain[d])
    BY DEF Ready
<1>2. Sound(e, t, None, rest \ {c}) /\ Went(e, s, t, None, c)
    BY <1>1, NextDetailIs
<1> HIDE DEF t
<1>3. t.m_blocks = s.m_blocks /\ t.docs = s.docs /\ \A d \in ChainId \ {c} : t.chain[d] = s.chain[d]
    BY <1>2 DEF Went
<1>4. rest \subseteq ChainId
    BY <1>1 DEF Sound, Tidy
<1>5. \A d \in rest \ {c} : Grounded(e.hon, t, t.chain[d]) /\ AtHand(t, t.chain[d])
    <2> SUFFICES ASSUME NEW d \in rest \ {c}
                 PROVE  Grounded(e.hon, t, t.chain[d]) /\ AtHand(t, t.chain[d])
        OBVIOUS
    <2>1. t.chain[d] = s.chain[d] /\ Grounded(e.hon, s, s.chain[d]) /\ AtHand(s, s.chain[d])
        BY <1>1, <1>3, <1>4
    <2> QED
        BY <1>3, <2>1 DEF Grounded, AtHand
<1> QED
    BY <1>2, <1>5 DEF Ready, t

\* All chains of a detail request go on.
LEMMA NextDetailsIs ==
    ASSUME NEW e, NEW s, Sound(e, s, None, {}), NEW h \in Block,
           \A c \in Detail(s, h) : AtHand(s, s.chain[c])
    PROVE  Sound(e, NextDetails(s, h), None, {})
<1> DEFINE M == Detail(s, h)
           q == InOrder(s, M)
           L == Len(q)
           rest(i) == {q[j] : j \in (i + 1)..L}
           u == [s EXCEPT !.m_pending_detail_reqs[h] = NoRequest]
           f == GoingOn!Fold(None, u, q)
<1>1. /\ Sound(e, u, None, M) /\ Listed(s, M)
      /\ u.chain = s.chain /\ u.m_blocks = s.m_blocks /\ u.docs = s.docs
    BY TakeDetail
<1>2. Lists(q, M)
    <2> HIDE DEF M
    <2> QED
        BY <1>1, ListedIs
<1>3. NextDetails(s, h) = f
    BY DEF NextDetails, GoingOn!Fold, GoingOn!MapThenFoldSet,
           GoingOn!Greatest, FoldLeft, MapThenFoldSet, Max, DetailTurn, Detail
<1> HIDE DEF q, u
<1>4. Ready(e, u, M)
    <2>1. \A d \in M : Grounded(e.hon, s, s.chain[d])
        BY DEF Sound, Content, Asking
    <2> QED
        BY <1>1, <2>1 DEF Ready, Grounded, AtHand
<1>5. L \in Nat /\ DOMAIN q = 1..L
    BY <1>2 DEF Lists
<1>6. PICK run : GoingOn!IsRun(None, u, q, run) /\ f = run[L]
    <2> HIDE DEF L
    <2>1. Len(q) \in Nat /\ DOMAIN q = 1..Len(q)
        BY <1>5 DEF L
    <2> QED
        BY <2>1, GoingOn!FoldRuns DEF L
<1> HIDE DEF f
<1> DEFINE T == {i \in 0..L : Ready(e, run[i], rest(i))}
<1>7. 0 \in T
    <2>1. rest(0) = M
        BY <1>2 DEF Lists
    <2>2. run[0] = u
        BY <1>6 DEF GoingOn!IsRun
    <2> HIDE DEF rest, M
    <2> QED
        BY <1>4, <1>5, <2>1, <2>2
<1>8. ASSUME NEW i \in 0..L, i \in T, i < L PROVE i + 1 \in T
    <2> DEFINE c == q[i + 1]
    <2>1. i + 1 \in 1..L /\ (i + 1) - 1 = i /\ i + 1 \in 0..L
        BY <1>5, <1>8
    <2>2. run[i + 1] = NextDetail(run[i], c)
        BY <1>6, <2>1 DEF GoingOn!IsRun, DetailTurn
    <2>3. c \in rest(i) /\ rest(i + 1) = rest(i) \ {c}
        <3>1. \A j, k \in 1..L : q[j] = q[k] => j = k
            BY <1>2 DEF Lists
        <3>2. \A j \in (i + 1)..L : j \in 1..L /\ (j = i + 1 \/ j \in ((i + 1) + 1)..L)
            BY <1>5, <2>1
        <3>3. \A j \in ((i + 1) + 1)..L : j \in (i + 1)..L /\ j # i + 1
            BY <1>5, <2>1
        <3>4. i + 1 \in (i + 1)..L
            BY <1>5, <2>1
        <3> QED
            BY <2>1, <3>1, <3>2, <3>3, <3>4
    <2> HIDE DEF rest, c
    <2>4. Ready(e, run[i], rest(i))
        BY <1>8
    <2>5. Ready(e, NextDetail(run[i], c), rest(i) \ {c})
        BY <2>3, <2>4, NextReady
    <2> QED
        BY <2>1, <2>2, <2>3, <2>5
<1>9. 0..L \subseteq T
    <2> HIDE DEF T
    <2> QED
        BY <1>5, <1>7, <1>8, Striking!Induct
<1>10. Ready(e, f, {})
    <2>1. L \in 0..L /\ rest(L) = {}
        BY <1>5
    <2> HIDE DEF rest
    <2> QED
        BY <1>6, <1>9, <2>1
<1> QED
    BY <1>3, <1>10 DEF Ready

\* The blocks of a chain are known from the first on.
LEMMA KnownBelow ==
    ASSUME NEW s, Rooted(s), NEW ch \in Chain, Gapless(ch),
           \A i \in 1..Len(ch.m_req_blocks) : Right(Hash(ch, i)),
           NEW j \in 1..Len(ch.m_req_blocks), Hash(ch, j) \in s.m_blocks, NEW i \in 1..j
    PROVE  Hash(ch, i) \in s.m_blocks
<1> DEFINE N == Len(ch.m_req_blocks)
           T == {k \in 0..(j - 1) : Hash(ch, j - k) \in s.m_blocks}
<1>1. N \in Nat /\ j \in 1..N /\ j - 1 \in Nat
    BY Lengths
<1>2. 0 \in T
    BY <1>1
<1>3. ASSUME NEW k \in 0..(j - 1), k \in T, k < j - 1 PROVE k + 1 \in T
    <2> DEFINE m == j - (k + 1)
    <2>1. m \in 1..(N - 1) /\ m + 1 = j - k /\ m + 1 \in 1..N /\ k + 1 \in 0..(j - 1)
        BY <1>1, <1>3
    <2>2. Hash(ch, j - k) \in s.m_blocks
        BY <1>3
    <2> HIDE DEF m
    <2>3. Hash(ch, m + 1) \in s.m_blocks /\ Hash(ch, m + 1) # Genesis
        BY <2>1, <2>2 DEF Right
    <2>4. Parent[Hash(ch, m + 1)] = Hash(ch, m)
        BY <2>1 DEF Gapless
    <2>5. Hash(ch, m) \in s.m_blocks
        BY <2>3, <2>4 DEF Rooted
    <2> QED
        BY <2>1, <2>5 DEF m
<1>4. 0..(j - 1) \subseteq T
    <2> DEFINE J == j - 1
    <2>1. J \in Nat /\ 0 \in T /\ \A k \in 0..J : k \in T /\ k < J => k + 1 \in T
        BY <1>1, <1>2, <1>3
    <2> HIDE DEF T, J
    <2>2. 0..J \subseteq T
        BY <2>1, Striking!Induct
    <2> QED
        BY <2>2 DEF J
<1>5. j - i \in 0..(j - 1) /\ j - (j - i) = i
    BY <1>1
<1> QED
    BY <1>4, <1>5

LEMMA TruthfulDown ==
    ASSUME NEW ch \in Chain, Gapless(ch),
           NEW j \in 1..Len(ch.m_req_blocks), Truthful(Hash(ch, j)), NEW i \in 1..j
    PROVE  Truthful(Hash(ch, i))
<1> DEFINE N == Len(ch.m_req_blocks)
           T == {k \in 0..(j - 1) : Truthful(Hash(ch, j - k))}
<1>1. N \in Nat /\ j \in 1..N /\ j - 1 \in Nat
    BY Lengths
<1>2. 0 \in T
    BY <1>1
<1>3. ASSUME NEW k \in 0..(j - 1), k \in T, k < j - 1 PROVE k + 1 \in T
    <2> DEFINE m == j - (k + 1)
    <2>1. m \in 1..(N - 1) /\ m + 1 = j - k /\ m + 1 \in 1..N /\ k + 1 \in 0..(j - 1)
        BY <1>1, <1>3
    <2>2. Truthful(Hash(ch, j - k))
        BY <1>3
    <2> HIDE DEF m
    <2>3. Truthful(Hash(ch, m + 1)) /\ Hash(ch, m + 1) \in Block
        BY <2>1, <2>2, Hashes
    <2>4. Parent[Hash(ch, m + 1)] = Hash(ch, m)
        BY <2>1 DEF Gapless
    <2>5. Truthful(Hash(ch, m))
        BY <2>3, <2>4, TruthfulParent
    <2> QED
        BY <2>1, <2>5 DEF m
<1>4. 0..(j - 1) \subseteq T
    <2> DEFINE J == j - 1
    <2>1. J \in Nat /\ 0 \in T /\ \A k \in 0..J : k \in T /\ k < J => k + 1 \in T
        BY <1>1, <1>2, <1>3
    <2> HIDE DEF T, J
    <2>2. 0..J \subseteq T
        BY <2>1, Striking!Induct
    <2> QED
        BY <2>2 DEF J
<1>5. j - i \in 0..(j - 1) /\ j - (j - i) = i
    BY <1>1
<1> QED
    BY <1>4, <1>5

----------------------------------------------------------------------------
\* The parts of finish_detail: the blocks to verify, how many are good, the
\* state once those are known.
Todo(s, ch) ==
    SubSeq(ch.m_req_blocks, FirstUnknown(s, ch.m_req_blocks), ch.m_start + 1)

Fine(s, q, i) == q[i] \in s.docs /\ Verdict[q[i][1]] = "good"

Good(s, q) ==
    CHOOSE i \in 0..Len(q) :
        /\ \A j \in 1..i : Fine(s, q, j)
        /\ i < Len(q) => ~Fine(s, q, i + 1)

Best(s, q) == IF Good(s, q) = 0 THEN Genesis ELSE q[Good(s, q)][1]

Grown(s, q) ==
    [s EXCEPT !.m_blocks = @ \cup {q[i][1] : i \in 1..Good(s, q)},
              !.m_most_difficult_block = IF Pow[Best(s, q)] > Pow[@] THEN Best(s, q) ELSE @]

LEMMA FinishIs ==
    ASSUME NEW s, NEW h
    PROVE  LET q == Todo(s, s.chain[FirstChain(s, h)])
           IN  finish_detail(s, h)
                 = IF Pow[h] <= Pow[s.m_most_difficult_block]
                   THEN NextDetails(KeepDocs(s, h), h)
                   ELSE IF Good(s, q) = Len(q) THEN NextDetails(ForgetDocs(Grown(s, q), h), h)
                   ELSE IF q[Good(s, q) + 1] \notin s.docs THEN [Grown(s, q) EXCEPT !.exited = TRUE]
                   ELSE punish_detail_req(Grown(s, q), h, TRUE)
    BY DEF finish_detail, Todo, Good, Fine, Best, Grown

LEMMA GoodIs ==
    ASSUME NEW s, NEW q, Len(q) \in Nat
    PROVE  /\ Good(s, q) \in 0..Len(q) /\ \A j \in 1..Good(s, q) : Fine(s, q, j)
           /\ Good(s, q) < Len(q) => ~Fine(s, q, Good(s, q) + 1)
<1> DEFINE N == Len(q)
           Is(i) == /\ \A j \in 1..i : Fine(s, q, j)
                    /\ i < N => ~Fine(s, q, i + 1)
           T == {i \in 0..N : \A j \in 1..i : Fine(s, q, j)}
<1>1. \E i \in 0..N : Is(i)
    <2> SUFFICES ASSUME \A i \in 0..N : ~ Is(i) PROVE FALSE
        OBVIOUS
    <2>1. 0 \in T
        OBVIOUS
    <2>2. ASSUME NEW i \in 0..N, i \in T, i < N PROVE i + 1 \in T
        <3>1. i + 1 \in 0..N /\ \A j \in 1..(i + 1) : j \in 1..i \/ j = i + 1
            BY <2>2
        <3>2. Fine(s, q, i + 1)
            <4>1. ~ Is(i)
                OBVIOUS
            <4> QED
                BY <2>2, <4>1
        <3> QED
            BY <2>2, <3>1, <3>2
    <2>3. 0..N \subseteq T
        <3> HIDE DEF T
        <3> QED
            BY <2>1, <2>2, Striking!Induct
    <2>4. ~ Is(N) /\ N \in T
        BY <2>3
    <2> QED
        BY <2>4
<1> QED
    BY <1>1 DEF Good

\* The blocks to verify: unknown, all at hand, each the child of the one before.
TodoFits(s, ch, q) ==
    /\ q \in Seq(PendingBlock)
    /\ \A i \in 1..Len(q) :
          /\ q[i] \in s.docs /\ Right(q[i][1]) /\ q[i][1] \in Block
          /\ i = 1 => Parent[q[i][1]] \in s.m_blocks
          /\ i # 1 => i - 1 \in 1..Len(q) /\ Parent[q[i][1]] = q[i - 1][1]
          /\ \E j \in 1..(ch.m_start + 1) : q[i][1] = Hash(ch, j)
    /\ Len(q) = 0 => Hash(ch, ch.m_start + 1) \in s.m_blocks
    /\ Len(q) # 0 => q[Len(q)][1] = Hash(ch, ch.m_start + 1)

LEMMA TodoIs ==
    ASSUME NEW hon, NEW s, Rooted(s), NEW ch, Grounded(hon, s, ch),
           ch.m_req_blocks[ch.m_start + 1] \in s.docs
    PROVE  TodoFits(s, ch, Todo(s, ch))
<1> DEFINE pbs == ch.m_req_blocks
           N == Len(pbs)
           K == ch.m_start + 1
           f == FirstUnknown(s, pbs)
           q == Todo(s, ch)
<1>1. /\ ch \in Chain /\ pbs \in Seq(PendingBlock) /\ N \in Nat /\ K \in 1..N
      /\ Gapless(ch) /\ Parent[Foot(ch)] \in s.m_blocks
      /\ \A i \in 1..N : Right(Hash(ch, i))
      /\ ch.m_start \in Nat /\ K = ch.m_start + 1 /\ pbs[K] \in s.docs
    BY Lengths DEF Grounded, Chain
<1>2. /\ f \in 1..(N + 1) /\ \A j \in 1..(f - 1) : pbs[j][1] \in s.m_blocks
      /\ f <= N => pbs[f][1] \notin s.m_blocks
    BY <1>1, FirstUnknownIs
<1>3. q = SubSeq(pbs, f, K)
    BY DEF Todo
<1>6. N \in Nat /\ K \in Nat /\ f \in Nat /\ 1 <= f /\ f <= N + 1 /\ 1 <= K /\ K <= N
    BY <1>1, <1>2
<1>7. pbs \in Seq(PendingBlock) /\ Len(pbs) = N
    BY <1>1
<1>8. \A j \in 1..(N - 1) : Parent[Hash(ch, j + 1)] = Hash(ch, j)
    BY <1>1 DEF Gapless
<1>9. \A p \in 1..N, i \in 1..N : i <= p /\ Hash(ch, p) \in s.m_blocks => Hash(ch, i) \in s.m_blocks
    <2> SUFFICES ASSUME NEW p \in 1..N, NEW i \in 1..N, i <= p, Hash(ch, p) \in s.m_blocks
                 PROVE  Hash(ch, i) \in s.m_blocks
        OBVIOUS
    <2>1. i \in 1..p
        BY <1>1
    <2> QED
        BY <1>1, <2>1, KnownBelow
<1> HIDE DEF q, f, K, N
<1>4. CASE f > K
    <2>1. q = <<>> /\ Len(q) = 0
        BY <1>1, <1>2, <1>3, <1>4
    <2>2. K \in 1..(f - 1)
        BY <1>1, <1>2, <1>4
    <2>3. Hash(ch, K) \in s.m_blocks
        BY <1>2, <2>2 DEF Hash
    <2>4. q \in Seq(PendingBlock) /\ 1..Len(q) = {}
        BY <2>1
    <2>5. TodoFits(s, ch, q)
        BY <1>1, <2>1, <2>3, <2>4 DEF TodoFits
    <2> QED
        BY <2>5 DEF q
<1>5. CASE f <= K
    <2> DEFINE M == (K - f) + 1
    <2>0. /\ M \in Nat /\ M >= 1 /\ f \in 1..N /\ f <= K /\ K <= N
          /\ \A i \in 1..M : i + (f - 1) \in f..K /\ i + (f - 1) \in 1..N
        BY <1>5, <1>6
    <2>1. /\ q \in Seq(PendingBlock) /\ Len(q) = M /\ M \in Nat /\ M >= 1 /\ f \in 1..N
          /\ \A i \in 1..M : i + (f - 1) \in f..K /\ i + (f - 1) \in 1..N /\ q[i] = pbs[i + (f - 1)]
        <3> HIDE DEF pbs, M
        <3>1. q \in Seq(PendingBlock)
            BY <1>3, <1>5, <1>6, <1>7
        <3> USE DEF M
        <3>2. Len(q) = M
            BY <1>3, <1>5, <1>6, <1>7
        <3>3. \A i \in 1..M : q[i] = pbs[i + (f - 1)]
            BY <1>3, <1>5, <1>6, <1>7
        <3> QED
            BY <2>0, <3>1, <3>2, <3>3
    <2>2. ASSUME NEW i \in 1..M
          PROVE  /\ q[i] \in s.docs /\ Right(q[i][1]) /\ q[i][1] \in Block
                 /\ i = 1 => Parent[q[i][1]] \in s.m_blocks
                 /\ i # 1 => i - 1 \in 1..M /\ Parent[q[i][1]] = q[i - 1][1]
                 /\ \E j \in 1..K : q[i][1] = Hash(ch, j)
        <3> DEFINE p == i + (f - 1)
        <3>1. p \in f..K /\ p \in 1..N /\ q[i] = pbs[p] /\ p \in 1..K
            BY <1>1, <1>2, <2>1
        <3>2. q[i][1] = Hash(ch, p) /\ Right(q[i][1]) /\ q[i][1] \in Block
            BY <1>1, <3>1 DEF Hash, Right
        <3>3. q[i] \in s.docs
            <4>1. CASE p = K
                <5> HIDE DEF p
                <5> QED
                    BY <1>1, <3>1, <4>1
            <4>2. CASE p # K
                <5>1. p \in 1..ch.m_start
                    BY <1>1, <3>1, <4>2
                <5> HIDE DEF p
                <5>2. Hash(ch, p) \in s.m_blocks \/ pbs[p] \in s.docs
                    BY <5>1 DEF Grounded
                <5>3. Hash(ch, p) \notin s.m_blocks
                    <6>1. f \in 1..N /\ f <= p /\ Hash(ch, f) \notin s.m_blocks
                        BY <1>2, <1>6, <2>0, <3>1 DEF Hash
                    <6> QED
                        BY <1>9, <3>1, <6>1
                <5> QED
                    BY <3>1, <5>2, <5>3
            <4> QED
                BY <4>1, <4>2
        <3>4. ASSUME i = 1 PROVE Parent[q[i][1]] \in s.m_blocks
            <4>1. p = f
                BY <1>2, <3>4
            <4>2. CASE f = 1
                BY <1>1, <3>2, <4>1, <4>2 DEF Hash, Foot
            <4>3. CASE f # 1
                <5> DEFINE j == f - 1
                <5>1. j \in 1..(N - 1) /\ j + 1 = f /\ pbs[j][1] \in s.m_blocks
                    <6>1. j \in 1..(N - 1) /\ j + 1 = f /\ j \in 1..(f - 1)
                        BY <1>6, <2>0, <4>3
                    <6> QED
                        BY <1>2, <6>1
                <5> HIDE DEF j
                <5>2. Parent[Hash(ch, j + 1)] = Hash(ch, j)
                    BY <1>8, <5>1
                <5> QED
                    BY <3>2, <4>1, <5>1, <5>2 DEF Hash
            <4> QED
                BY <4>2, <4>3
        <3>5. ASSUME i # 1 PROVE i - 1 \in 1..M /\ Parent[q[i][1]] = q[i - 1][1]
            <4> DEFINE j == p - 1
            <4>1. i - 1 \in 1..M /\ (i - 1) + (f - 1) = j /\ j \in 1..(N - 1) /\ j + 1 = p
                <5>1. i - 1 \in 1..M /\ (i - 1) + (f - 1) = j /\ j + 1 = p
                    BY <1>6, <2>0, <3>5
                <5>2. p \in 1..N /\ p # 1
                    BY <1>6, <2>0, <3>1, <3>5
                <5> HIDE DEF p
                <5>3. j \in 1..(N - 1)
                    BY <1>6, <5>2
                <5> QED
                    BY <5>1, <5>3
            <4>2. q[i - 1] = pbs[j]
                BY <2>1, <4>1
            <4> HIDE DEF j, p
            <4>3. Parent[Hash(ch, j + 1)] = Hash(ch, j)
                BY <1>8, <4>1
            <4> QED
                BY <3>2, <4>1, <4>2, <4>3 DEF Hash
        <3> HIDE DEF p
        <3> QED
            BY <3>1, <3>2, <3>3, <3>4, <3>5
    <2>3. q[M][1] = Hash(ch, K)
        <3>1. M \in 1..M /\ M + (f - 1) = K
            BY <1>6, <2>0
        <3>2. q[M] = pbs[M + (f - 1)]
            BY <2>1, <3>1
        <3> HIDE DEF M
        <3> QED
            BY <3>1, <3>2 DEF Hash
    <2>4. TodoFits(s, ch, q)
        <3>1. Len(q) = M /\ M # 0
            BY <2>1
        <3> HIDE DEF M
        <3> QED
            BY <1>1, <2>1, <2>2, <2>3, <3>1 DEF TodoFits
    <2> QED
        BY <2>4 DEF q
<1> QED
    BY <1>1, <1>2, <1>4, <1>5

LEMMA Same ==
    ASSUME NEW s \in Node
    PROVE  /\ \A D : [s EXCEPT !.docs = D]
                = [s EXCEPT !.m_blocks = s.m_blocks,
                            !.m_most_difficult_block = s.m_most_difficult_block, !.docs = D]
           /\ \A B, m : [s EXCEPT !.m_blocks = B, !.m_most_difficult_block = m]
                = [s EXCEPT !.m_blocks = B, !.m_most_difficult_block = m, !.docs = s.docs]
    BY DEF Node

LEMMA DocsSound ==
    ASSUME NEW e, NEW s, Sound(e, s, None, {}), NEW D \in SUBSET PendingBlock,
           \A pb \in s.docs : pb \in D \/ pb[1] \in s.m_blocks
    PROVE  Sound(e, [s EXCEPT !.docs = D], None, {})
<1> DEFINE B == s.m_blocks
           m == s.m_most_difficult_block
<1>1. s \in Node /\ Base(e, s)
    BY DEF Sound, Base
<1>2. B \in SUBSET Block /\ m \in B /\ \A b \in B : b # Genesis => Parent[b] \in B /\ Id[b] > 0
    BY <1>1 DEF Base, Rooted, Node
<1>3. Sound(e, [s EXCEPT !.m_blocks = B, !.m_most_difficult_block = m, !.docs = D], None, {})
    <2> HIDE DEF B, m
    <2>1. s.m_blocks \subseteq B /\ \A pb \in s.docs : pb \in D \/ pb[1] \in B
        BY DEF B
    <2> QED
        BY <1>2, <2>1, Grow
<1> QED
    BY <1>1, <1>3, Same

\* The blocks of a chain up to where it is.
LEMMA UpToHere ==
    ASSUME NEW hon, NEW s, NEW ch, Grounded(hon, s, ch)
    PROVE  /\ ch \in Chain /\ ch.m_start \in Nat /\ ch.m_start + 1 \in 1..Len(ch.m_req_blocks)
           /\ ch.m_req_blocks[ch.m_start + 1] \in PendingBlock
<1>1. ch \in Chain /\ ch.m_start \in Nat /\ Len(ch.m_req_blocks) \in Nat
      /\ ch.m_start < Len(ch.m_req_blocks)
    BY Lengths DEF Grounded, Chain
<1> DEFINE K == ch.m_start + 1
<1>2. K \in 1..Len(ch.m_req_blocks)
    BY <1>1
<1> HIDE DEF K
<1>3. ch.m_req_blocks[K] \in PendingBlock
    BY <1>1, <1>2, Hashes
<1> QED
    BY <1>1, <1>2, <1>3 DEF K

LEMMA KeepDocsSound ==
    ASSUME NEW e, NEW s, Sound(e, s, None, {}), NEW h \in Block
    PROVE  /\ Sound(e, KeepDocs(s, h), None, {})
           /\ \A c \in Detail(KeepDocs(s, h), h) :
                 AtHand(KeepDocs(s, h), KeepDocs(s, h).chain[c])
<1> DEFINE t == KeepDocs(s, h)
           D == s.docs \cup {s.chain[c].m_req_blocks[s.chain[c].m_start + 1] : c \in Detail(s, h)}
<1>1. s \in Node
    BY DEF Sound, Base
<1>2. t = [s EXCEPT !.docs = D]
    BY DEF KeepDocs, Detail
<1>3. \A c \in Detail(s, h) : s.chain[c].m_req_blocks[s.chain[c].m_start + 1] \in PendingBlock
    <2> SUFFICES ASSUME NEW c \in Detail(s, h)
                 PROVE  s.chain[c].m_req_blocks[s.chain[c].m_start + 1] \in PendingBlock
        OBVIOUS
    <2> DEFINE ch == s.chain[c]
    <2>1. Grounded(e.hon, s, ch)
        BY DEF Sound, Content, Asking
    <2> HIDE DEF ch
    <2>2. ch.m_req_blocks[ch.m_start + 1] \in PendingBlock
        BY <2>1, UpToHere
    <2> QED
        BY <2>2 DEF ch
<1>4. D \in SUBSET PendingBlock /\ s.docs \subseteq D
    BY <1>1, <1>3 DEF Node
<1>5. \A c \in Detail(s, h) : s.chain[c].m_req_blocks[s.chain[c].m_start + 1] \in D
    OBVIOUS
<1> HIDE DEF D, t
<1>6. Sound(e, t, None, {})
    BY <1>2, <1>4, DocsSound
<1>7. t.docs = D /\ t.chain = s.chain /\ Detail(t, h) = Detail(s, h)
    BY <1>1, <1>2 DEF Node, Detail
<1>8. \A c \in Detail(t, h) : AtHand(t, t.chain[c])
    BY <1>5, <1>7 DEF AtHand
<1> QED
    BY <1>6, <1>8 DEF t

LEMMA ForgetDocsSound ==
    ASSUME NEW e, NEW s, Sound(e, s, None, {}), NEW h \in Block, h \in s.m_blocks
    PROVE  /\ Sound(e, ForgetDocs(s, h), None, {})
           /\ \A c \in Detail(ForgetDocs(s, h), h) :
                 AtHand(ForgetDocs(s, h), ForgetDocs(s, h).chain[c])
<1> DEFINE Got(c) == SubSeq(s.chain[c].m_req_blocks, 1, s.chain[c].m_start + 1)
           D == s.docs \ UNION {ToSet(Got(c)) : c \in Detail(s, h)}
           t == ForgetDocs(s, h)
<1>1. s \in Node /\ Base(e, s) /\ Rooted(s)
    BY DEF Sound, Base
<1>2. t = [s EXCEPT !.docs = D]
    BY DEF ForgetDocs, Detail
<1>3. ASSUME NEW c \in Detail(s, h), NEW pb \in ToSet(Got(c)) PROVE pb[1] \in s.m_blocks
    <2> DEFINE ch == s.chain[c]
               K == ch.m_start + 1
    <2>1. Grounded(e.hon, s, ch) /\ Hash(ch, K) = h
        BY DEF Sound, Content, Asking
    <2> HIDE DEF ch
    <2>2. ch \in Chain /\ K \in 1..Len(ch.m_req_blocks) /\ Len(ch.m_req_blocks) \in Nat
        BY <2>1, UpToHere, Lengths
    <2>3. ch.m_req_blocks \in Seq(PendingBlock)
        BY <2>2 DEF Chain
    <2>4. PICK i \in DOMAIN Got(c) : pb = Got(c)[i]
        BY <1>3 DEF ToSet
    <2>5. Got(c) = SubSeq(ch.m_req_blocks, 1, K)
        BY DEF ch
    <2> HIDE DEF K, Got
    <2>6. i \in 1..K /\ Got(c)[i] = ch.m_req_blocks[i]
        <3> DEFINE pbs == ch.m_req_blocks
        <3>1. K \in Nat /\ K <= Len(pbs) /\ pbs \in Seq(PendingBlock)
            BY <2>2, <2>3
        <3> HIDE DEF pbs
        <3>2. Got(c) = SubSeq(pbs, 1, K)
            BY <2>5 DEF pbs
        <3>3. DOMAIN Got(c) = 1..K /\ \A j \in 1..K : Got(c)[j] = pbs[j]
            BY <3>1, <3>2
        <3> QED
            BY <2>4, <3>3 DEF pbs
    <2>7. Hash(ch, i) \in s.m_blocks
        BY <1>1, <2>1, <2>2, <2>6, KnownBelow DEF Grounded
    <2> QED
        BY <2>4, <2>6, <2>7 DEF Hash
<1>4. D \in SUBSET PendingBlock /\ \A pb \in s.docs : pb \in D \/ pb[1] \in s.m_blocks
    <2>1. s.docs \subseteq PendingBlock
        BY <1>1 DEF Node
    <2> HIDE DEF Got
    <2> QED
        BY <1>3, <2>1
<1> HIDE DEF D, t
<1>5. Sound(e, t, None, {})
    BY <1>2, <1>4, DocsSound
<1>6. t.m_blocks = s.m_blocks /\ t.chain = s.chain /\ Detail(t, h) = Detail(s, h)
    BY <1>1, <1>2 DEF Node, Detail
<1>7. \A c \in Detail(t, h) : AtHand(t, t.chain[c])
    <2>1. \A c \in Detail(s, h) : Hash(s.chain[c], s.chain[c].m_start + 1) = h
        BY DEF Sound, Content, Asking
    <2> QED
        BY <1>6, <2>1 DEF AtHand
<1> QED
    BY <1>5, <1>7 DEF t

\* Good blocks become known.
LEMMA GrownSound ==
    ASSUME NEW e, NEW s, Sound(e, s, None, {}), NEW ch, NEW q, TodoFits(s, ch, q)
    PROVE  /\ Sound(e, Grown(s, q), None, {})
           /\ Grown(s, q).docs = s.docs /\ Grown(s, q).chain = s.chain
           /\ Grown(s, q).m_pending_detail_reqs = s.m_pending_detail_reqs
           /\ Grown(s, q).m_blocks = s.m_blocks \cup {q[i][1] : i \in 1..Good(s, q)}
<1> DEFINE g == Good(s, q)
           t == Grown(s, q)
           B == s.m_blocks \cup {q[i][1] : i \in 1..g}
           m == IF Pow[Best(s, q)] > Pow[s.m_most_difficult_block]
                THEN Best(s, q) ELSE s.m_most_difficult_block
<1>1. s \in Node /\ Base(e, s) /\ Rooted(s)
    BY DEF Sound, Base
<1>2. t = [s EXCEPT !.m_blocks = B, !.m_most_difficult_block = m]
    BY <1>1 DEF Grown, Node
<1>3. g \in 0..Len(q) /\ Len(q) \in Nat
    BY GoodIs DEF TodoFits
<1> HIDE DEF g
<1>4. \A i \in 1..g : /\ i \in 1..Len(q) /\ Right(q[i][1]) /\ q[i][1] \in Block
                      /\ i = 1 => Parent[q[i][1]] \in s.m_blocks
                      /\ i # 1 => i - 1 \in 1..g /\ Parent[q[i][1]] = q[i - 1][1]
    <2>1. \A i \in 1..g : i \in 1..Len(q) /\ (i # 1 => i - 1 \in 1..g)
        BY <1>3
    <2> QED
        BY <2>1 DEF TodoFits
<1>5. B \in SUBSET Block
    BY <1>1, <1>4 DEF Node
<1>6. ASSUME NEW b \in B, b # Genesis PROVE Parent[b] \in B /\ Id[b] > 0
    <2>1. CASE b \in s.m_blocks
        BY <1>1, <1>6, <2>1 DEF Rooted
    <2>2. CASE b \in {q[i][1] : i \in 1..g}
        <3>1. PICK i \in 1..g : b = q[i][1]
            BY <2>2
        <3>2. Parent[b] \in B
            BY <1>4, <3>1
        <3>3. Id[b] > 0
            <4>1. Right(b) /\ b \in Block /\ Id[b] = Id[Parent[b]] + 1
                BY <1>4, <3>1 DEF Right, WrongHeight
            <4> QED
                BY <4>1, Numbers
        <3> QED
            BY <3>2, <3>3
    <2> QED
        BY <2>1, <2>2
<1>7. m \in B
    <2>1. Best(s, q) \in B
        <3>1. g # 0 => g \in 1..g
            BY <1>3
        <3> QED
            BY <1>1, <3>1 DEF Best, Rooted, g
    <2>2. s.m_most_difficult_block \in B
        BY <1>1 DEF Base
    <2> HIDE DEF B
    <2> QED
        BY <2>1, <2>2
<1> DEFINE D == s.docs
<1>8. D \in SUBSET PendingBlock /\ s.m_blocks \subseteq B /\ \A pb \in s.docs : pb \in D \/ pb[1] \in B
    BY <1>1 DEF Node
<1> HIDE DEF B, m, D, t
<1>9. Sound(e, [s EXCEPT !.m_blocks = B, !.m_most_difficult_block = m, !.docs = D], None, {})
    BY <1>5, <1>6, <1>7, <1>8, Grow
<1>10. t = [s EXCEPT !.m_blocks = B, !.m_most_difficult_block = m, !.docs = D]
    BY <1>1, <1>2, Same DEF D
<1>11. /\ t.docs = D /\ t.chain = s.chain /\ t.m_pending_detail_reqs = s.m_pending_detail_reqs
       /\ t.m_blocks = B
    BY <1>1, <1>10 DEF Node
<1> QED
    BY <1>9, <1>10, <1>11 DEF t, D, B, g

\* The block h came for the first chain of its request.
LEMMA FinishDetail ==
    ASSUME NEW e, NEW s, Sound(e, s, None, {}), NEW h \in Block, Detail(s, h) # {},
           s.chain[FirstChain(s, h)].m_req_blocks[s.chain[FirstChain(s, h)].m_start + 1] \in s.docs
    PROVE  Sound(e, finish_detail(s, h), None, {})
<1> DEFINE M == Detail(s, h)
           c == FirstChain(s, h)
           ch == s.chain[c]
           q == Todo(s, ch)
           g == Good(s, q)
           t == Grown(s, q)
           K == ch.m_start + 1
<1>1. s \in Node /\ Base(e, s) /\ Rooted(s)
    BY DEF Sound, Base
<1>2. c \in M
    <2>1. Listed(s, M)
        BY TakeDetail
    <2> HIDE DEF M
    <2>2. Lists(InOrder(s, M), M)
        BY <2>1, ListedIs
    <2> DEFINE p == InOrder(s, M)
    <2>3. Lists(p, M) /\ c = p[1] /\ M # {}
        BY <2>2 DEF FirstChain, M, Detail
    <2> HIDE DEF p, c
    <2>4. 1 \in 1..Len(p)
        BY <2>3 DEF Lists
    <2> QED
        BY <2>3, <2>4 DEF Lists
<1>3. Grounded(e.hon, s, ch) /\ Hash(ch, K) = h
    BY <1>2 DEF Sound, Content, Asking
<1>4. finish_detail(s, h)
        = IF Pow[h] <= Pow[s.m_most_difficult_block]
          THEN NextDetails(KeepDocs(s, h), h)
          ELSE IF g = Len(q) THEN NextDetails(ForgetDocs(t, h), h)
          ELSE IF q[g + 1] \notin s.docs THEN [t EXCEPT !.exited = TRUE]
          ELSE punish_detail_req(t, h, TRUE)
    BY FinishIs
<1>5. ch.m_req_blocks[ch.m_start + 1] \in s.docs
    OBVIOUS
<1> HIDE DEF ch
<1>6. TodoFits(s, ch, q)
    BY <1>1, <1>3, <1>5, TodoIs
<1> HIDE DEF q, t, g, c
<1>7. /\ Sound(e, t, None, {}) /\ t.docs = s.docs /\ t.chain = s.chain
      /\ t.m_pending_detail_reqs = s.m_pending_detail_reqs
      /\ t.m_blocks = s.m_blocks \cup {q[i][1] : i \in 1..g}
    BY <1>6, GrownSound DEF t, g
<1>8. /\ Len(q) \in Nat /\ g \in 0..Len(q) /\ \A j \in 1..g : Fine(s, q, j)
      /\ g < Len(q) => ~Fine(s, q, g + 1)
    BY <1>6, GoodIs DEF TodoFits, g
<1>9. ASSUME g = Len(q) PROVE Sound(e, NextDetails(ForgetDocs(t, h), h), None, {})
    <2>1. h \in t.m_blocks
        <3>1. CASE Len(q) = 0
            BY <1>3, <1>6, <1>7, <3>1 DEF TodoFits
        <3>2. CASE Len(q) # 0
            <4>1. g \in 1..g /\ q[g][1] = h
                BY <1>3, <1>6, <1>8, <1>9, <3>2 DEF TodoFits
            <4> QED
                BY <1>7, <4>1
        <3> QED
            BY <3>1, <3>2
    <2> DEFINE u == ForgetDocs(t, h)
    <2>2. Sound(e, u, None, {}) /\ \A d \in Detail(u, h) : AtHand(u, u.chain[d])
        BY <1>7, <2>1, ForgetDocsSound
    <2> HIDE DEF u
    <2>3. Sound(e, NextDetails(u, h), None, {})
        BY <2>2, NextDetailsIs
    <2> QED
        BY <2>3 DEF u
<1>10. ASSUME g # Len(q)
       PROVE  q[g + 1] \in s.docs /\ Sound(e, punish_detail_req(t, h, TRUE), None, {})
    <2>1. g + 1 \in 1..Len(q) /\ ~Fine(s, q, g + 1)
        BY <1>8, <1>10
    <2> DEFINE i == g + 1
    <2> HIDE DEF i
    <2>2. q[i] \in s.docs /\ \E j \in 1..K : q[i][1] = Hash(ch, j)
        BY <1>6, <2>1 DEF TodoFits, i
    <2>3. Verdict[q[i][1]] # "good"
        BY <2>1, <2>2 DEF Fine, i
    <2>4. PICK j \in 1..K : q[i][1] = Hash(ch, j)
        BY <2>2
    <2>5. ch \in Chain /\ K \in 1..Len(ch.m_req_blocks)
        BY <1>3, UpToHere
    <2>6. j \in 1..Len(ch.m_req_blocks)
        BY <2>5, Lengths
    <2> HIDE DEF K
    <2>7. ~ Truthful(h)
        <3> SUFFICES ASSUME Truthful(h) PROVE FALSE
            OBVIOUS
        <3>1. Truthful(Hash(ch, j))
            BY <1>3, <2>5, TruthfulDown DEF Grounded
        <3>2. Hash(ch, j) \in Block
            BY <2>5, <2>6, Hashes
        <3> QED
            BY <2>3, <2>4, <3>1, <3>2, TruthfulIs
    <2>8. \A d \in Detail(t, h) : t.chain[d].m_peer \notin e.hon
        <3> SUFFICES ASSUME NEW d \in M, s.chain[d].m_peer \in e.hon PROVE FALSE
            BY <1>7 DEF Detail
        <3> DEFINE dh == s.chain[d]
                   k == dh.m_start + 1
        <3>1. Grounded(e.hon, s, dh) /\ Hash(dh, k) = h
            BY DEF Sound, Content, Asking
        <3>2. dh.m_peer \in e.hon
            OBVIOUS
        <3> HIDE DEF dh
        <3>3. dh \in Chain /\ k \in 1..Len(dh.m_req_blocks)
            BY <3>1, UpToHere
        <3> HIDE DEF k
        <3>4. Gapless(dh) /\ Truthful(Tip(dh))
            BY <3>1, <3>2 DEF Grounded, Loyal
        <3>5. Truthful(Hash(dh, k))
            BY <3>3, <3>4, TruthfulBelow
        <3> QED
            BY <2>7, <3>1, <3>5
    <2>9. Sound(e, punish_detail_req(t, h, TRUE), None, {})
        BY <1>7, <2>8, GiveUpDetail
    <2> QED
        BY <2>2, <2>9 DEF i
<1>11. Sound(e, NextDetails(KeepDocs(s, h), h), None, {})
    <2> DEFINE u == KeepDocs(s, h)
    <2>1. Sound(e, u, None, {}) /\ \A d \in Detail(u, h) : AtHand(u, u.chain[d])
        BY KeepDocsSound
    <2> HIDE DEF u
    <2>2. Sound(e, NextDetails(u, h), None, {})
        BY <2>1, NextDetailsIs
    <2> QED
        BY <2>2 DEF u
<1> QED
    BY <1>4, <1>9, <1>10, <1>11

LEMMA RemoveAtIs ==
    ASSUME NEW S, NEW q \in Seq(S), NEW i \in 1..Len(q)
    PROVE  /\ RemoveAt(q, i) \in Seq(S) /\ Len(RemoveAt(q, i)) = Len(q) - 1
           /\ \A j \in 1..(Len(q) - 1) : RemoveAt(q, i)[j] = IF j < i THEN q[j] ELSE q[j + 1]
<1> DEFINE a == SubSeq(q, 1, i - 1)
           b == SubSeq(q, i + 1, Len(q))
           N == Len(q)
<1>1. N \in Nat /\ i \in Nat /\ 1 <= i /\ i <= N
    OBVIOUS
<1>2. a \in Seq(S) /\ Len(a) = i - 1 /\ \A j \in 1..(i - 1) : a[j] = q[j]
    BY <1>1
<1>3. b \in Seq(S) /\ Len(b) = N - i /\ \A j \in 1..(N - i) : b[j] = q[j + i]
    <2>1. b \in Seq(S)
        BY <1>1
    <2>2. Len(b) = N - i
        BY <1>1
    <2>3. \A j \in 1..(N - i) : b[j] = q[j + i]
        BY <1>1
    <2> QED
        BY <2>1, <2>2, <2>3
<1>4. RemoveAt(q, i) = a \o b
    BY DEF RemoveAt
<1> HIDE DEF a, b, N
<1>5. a \o b \in Seq(S) /\ Len(a \o b) = N - 1
    <2>1. a \o b \in Seq(S)
        BY <1>2, <1>3
    <2>2. Len(a \o b) = Len(a) + Len(b)
        <3>1. a \in Seq(S) /\ b \in Seq(S)
            BY <1>2, <1>3
        <3> QED
            BY <3>1
    <2> QED
        BY <1>1, <1>2, <1>3, <2>1, <2>2
<1>6. \A j \in 1..(N - 1) : (a \o b)[j] = IF j < i THEN q[j] ELSE q[j + 1]
    <2> SUFFICES ASSUME NEW j \in 1..(N - 1) PROVE (a \o b)[j] = IF j < i THEN q[j] ELSE q[j + 1]
        OBVIOUS
    <2>1. CASE j < i
        <3>1. j \in 1..(i - 1) /\ (a \o b)[j] = a[j]
            BY <1>1, <1>2, <1>3, <2>1
        <3> QED
            BY <1>2, <2>1, <3>1
    <2>2. CASE ~ j < i
        <3> DEFINE m == j - (i - 1)
        <3>1. m \in 1..(N - i) /\ m + i = j + 1
            BY <1>1, <2>2
        <3>2. (a \o b)[j] = b[m]
            BY <1>1, <1>2, <1>3, <2>2
        <3> HIDE DEF m
        <3>3. b[m] = q[m + i]
            BY <1>3, <3>1
        <3> QED
            BY <2>2, <3>1, <3>2, <3>3
    <2> QED
        BY <2>1, <2>2
<1> QED
    BY <1>4, <1>5, <1>6 DEF N

Different(q) == \A i, j \in DOMAIN q : q[i] = q[j] => i = j

LEMMA LeastIs ==
    ASSUME NEW N \in Nat, NEW I, I \subseteq 1..N, I # {}
    PROVE  Min(I) \in I
<1> DEFINE T == {i \in 0..N : \A j \in I : ~ j <= i}
<1>1. SUFFICES ASSUME ~ \E i \in I : \A j \in I : i <= j PROVE FALSE
    BY DEF Min
<1>2. 0 \in T
    OBVIOUS
<1>3. ASSUME NEW i \in 0..N, i \in T, i < N PROVE i + 1 \in T
    <2>1. \A j \in I : j \in Nat /\ i + 1 <= j
        BY <1>3
    <2>2. i + 1 \notin I
        BY <1>1, <2>1
    <2> QED
        BY <1>3, <2>1, <2>2
<1>4. 0..N \subseteq T
    <2> HIDE DEF T
    <2> QED
        BY <1>2, <1>3, Striking!Induct
<1>5. N \in T
    <2>1. N \in 0..N
        OBVIOUS
    <2> HIDE DEF T
    <2> QED
        BY <1>4, <2>1
<1>6. PICK j \in I : TRUE
    OBVIOUS
<1>7. j \in 1..N /\ ~ j <= N
    BY <1>5
<1> QED
    BY <1>7

LEMMA RemoveFirstIs ==
    ASSUME NEW S, NEW q \in Seq(S), NEW c
    PROVE  /\ RemoveFirst(q, c) \in Seq(S)
           /\ \A i \in DOMAIN RemoveFirst(q, c) : \E j \in DOMAIN q : RemoveFirst(q, c)[i] = q[j]
           /\ Different(q) => /\ Different(RemoveFirst(q, c))
                              /\ \A i \in DOMAIN RemoveFirst(q, c) : RemoveFirst(q, c)[i] # c
<1> DEFINE N == Len(q)
           p == RemoveFirst(q, c)
<1>1. N \in Nat /\ DOMAIN q = 1..N
    OBVIOUS
<1>2. CASE ~ \E i \in 1..N : q[i] = c
    <2>1. p = q
        BY <1>2 DEF RemoveFirst
    <2> HIDE DEF p
    <2> QED
        BY <1>1, <1>2, <2>1 DEF p
<1>3. ASSUME \E i \in 1..N : q[i] = c
      PROVE  /\ p \in Seq(S)
             /\ \A i \in DOMAIN p : \E j \in DOMAIN q : p[i] = q[j]
             /\ Different(q) => Different(p) /\ \A i \in DOMAIN p : p[i] # c
    <2> DEFINE I == {i \in 1..Len(q) : q[i] = c}
               k == Min(I)
    <2>1. I \subseteq 1..N /\ I # {}
        BY <1>3
    <2>2. p = RemoveAt(q, IF I # {} THEN k ELSE 0)
        BY <1>3 DEF RemoveFirst, SelectInSeq
    <2>3. k \in 1..N /\ q[k] = c
        <3>1. k \in I
            <4> HIDE DEF I, N
            <4> QED
                BY <1>1, <2>1, LeastIs
        <3> HIDE DEF k
        <3> QED
            BY <3>1
    <2>4. p = RemoveAt(q, k)
        <3> HIDE DEF I, k, p
        <3> QED
            BY <2>1, <2>2
    <2> HIDE DEF p, k, I
    <2>5. /\ p \in Seq(S) /\ Len(p) = N - 1
          /\ \A j \in 1..(N - 1) : p[j] = IF j < k THEN q[j] ELSE q[j + 1]
        BY <2>3, <2>4, RemoveAtIs
    <2>6. DOMAIN p = 1..(N - 1)
        BY <2>5
    <2> DEFINE at(j) == IF j < k THEN j ELSE j + 1
    <2>7. \A j \in 1..(N - 1) : at(j) \in 1..N /\ at(j) # k /\ p[j] = q[at(j)]
        BY <1>1, <2>3, <2>5
    <2>8. \A i, j \in 1..(N - 1) : at(i) = at(j) => i = j
        BY <1>1, <2>3
    <2> HIDE DEF at
    <2>9. Different(q) => Different(p)
        BY <1>1, <2>6, <2>7, <2>8 DEF Different
    <2>10. \A i \in DOMAIN p : \E j \in DOMAIN q : p[i] = q[j]
        BY <1>1, <2>6, <2>7
    <2>11. Different(q) => \A i \in DOMAIN p : p[i] # c
        BY <1>1, <2>3, <2>6, <2>7 DEF Different
    <2> QED
        BY <2>5, <2>9, <2>10, <2>11
<1> QED
    BY <1>2, <1>3

\* A chain leaves a request, with all that has its key.
LEMMA LeaveIs ==
    ASSUME NEW e, NEW s, NEW r \in Request, Neat(e, s, r), NEW c, Single(e) => c \in r.m_chains
    PROVE  /\ Leave(s, r, c) \in Request /\ Neat(e, s, Leave(s, r, c))
           /\ Leave(s, r, c).m_chains = EraseChain(s, r.m_chains, c)
<1> DEFINE l == Leave(s, r, c)
           M == EraseChain(s, r.m_chains, c)
           q == r.m_attached_chains
           p == RemoveFirst(q, c)
<1>1. M \subseteq r.m_chains /\ \A d \in r.m_chains : KeyOf(s, d) # KeyOf(s, c) => d \in M
    BY DEF EraseChain
<1>2. q \in Seq(ChainId) /\ r.m_chains \subseteq ChainId
    BY DEF Request
<1>3. Single(e) => Different(q)
    BY DEF Neat, Different
<1> HIDE DEF q
<1>4. /\ p \in Seq(ChainId) /\ \A i \in DOMAIN p : \E j \in DOMAIN q : p[i] = q[j]
      /\ Single(e) => Different(p) /\ \A i \in DOMAIN p : p[i] # c
    BY <1>2, <1>3, RemoveFirstIs
<1>5. l = [r EXCEPT !.m_chains = M, !.m_attached_chains = p]
    BY DEF Leave, Request, q
<1> HIDE DEF p, l, M
<1>6. /\ l \in Request /\ l.m_chains = M /\ l.m_attached_chains = p
      /\ l.m_try_num = r.m_try_num
    BY <1>1, <1>2, <1>4, <1>5 DEF Request
<1>7. Neat(e, s, l)
    <2>1. /\ \A d, g \in l.m_chains : KeyOf(s, d) = KeyOf(s, g) => d = g
          /\ l.m_try_num = 0 => l.m_chains = {}
        BY <1>1, <1>6 DEF Neat
    <2>2. CASE Single(e)
        <3>1. \A i \in DOMAIN p : p[i] \in r.m_chains /\ p[i] # c
            BY <1>4, <2>2 DEF Neat, q
        <3>2. \A i \in DOMAIN p : p[i] \in l.m_chains
            BY <1>1, <1>6, <2>2, <3>1 DEF Neat
        <3>3. \A i, j \in DOMAIN p : p[i] = p[j] => i = j
            BY <1>4, <2>2 DEF Different
        <3> QED
            BY <1>6, <2>1, <2>2, <3>2, <3>3 DEF Neat
    <2>3. CASE ~ Single(e)
        <3>1. \A i \in DOMAIN p : s.chain[p[i]] \in Chain
            BY <1>4, <2>3 DEF Neat, q
        <3> QED
            BY <1>6, <2>1, <2>3, <3>1 DEF Neat
    <2> QED
        BY <2>2, <2>3
<1> QED
    BY <1>6, <1>7 DEF l, M

\* The chain of a key is given up, and nothing else changes.
LEMMA DetachIs ==
    ASSUME NEW e, NEW s, Sound(e, s, None, {}), NEW k \in Keys, s.m_chains_by_peer_key[k] # None
    PROVE  /\ Sound(e, Detach(s, k), None, {}) /\ Detach(s, k).m_chains_by_peer_key[k] = None
           /\ Detach(s, k).made = s.made /\ Detach(s, k).closed = s.closed
           /\ Detach(s, k).chain = s.chain
<1> DEFINE c == s.m_chains_by_peer_key[k]
           brief == s.chain[c].m_brief_attached
           detail == s.chain[c].m_detail_attached
<1>1. s \in Node /\ Base(e, s) /\ Tidy(e, s, None, {}) /\ Content(e, s, None)
    BY DEF Sound, Base
<1>2. KeyOf(s, c) = k /\ Placed(e, s, None, c)
    BY <1>1 DEF Tidy
<1>3. ASSUME NEW u, NEW R, Sound(e, u, None, R), \A d \in R : KeyOf(s, d) = k,
             Single(e) => R # {}, u.chain = s.chain, u.made = s.made, u.closed = s.closed
      PROVE  LET t == EraseKey(u, k)
             IN  /\ Sound(e, t, None, {}) /\ t.m_chains_by_peer_key[k] = None
                 /\ t.made = s.made /\ t.closed = s.closed /\ t.chain = s.chain
    <2>1. \A d \in R : KeyOf(u, d) = k
        BY <1>3 DEF KeyOf
    <2> HIDE DEF c
    <2>2. u \in Node
        BY <1>3 DEF Sound, Base
    <2>3. Sound(e, EraseKey(u, k), None, {})
        BY <1>3, <2>1, EraseRest
    <2>4. EraseKey(u, k)
            = [u EXCEPT !.m_chains_by_peer_key = [u.m_chains_by_peer_key EXCEPT ![k] = None]]
        BY <2>2 DEF EraseKey, Node
    <2>5. [u.m_chains_by_peer_key EXCEPT ![k] = None][k] = None
        BY <2>2 DEF Node
    <2> QED
        BY <1>3, <2>2, <2>3, <2>4, <2>5 DEF Node
<1>4. CASE brief # None
    <2> DEFINE r == s.m_pending_brief_reqs[brief]
               u == [s EXCEPT !.m_pending_brief_reqs[brief] = Leave(s, r, c)]
    <2>1. brief \in Block /\ brief # None /\ (Single(e) => c \in Brief(s, brief))
        BY <1>2, <1>4, BlockSyncAssumption DEF Placed, Chain
    <2>2. r \in Request /\ Neat(e, s, r) /\ r.m_chains = Brief(s, brief)
        BY <1>1, <2>1 DEF Node, Tidy, Brief
    <2>3. Detach(s, k) = EraseKey(u, k)
        BY <1>4 DEF Detach
    <2> HIDE DEF r, brief, c
    <2> DEFINE l == Leave(s, r, c)
               R == {d \in Brief(s, brief) : KeyOf(s, d) = k}
    <2>4. l \in Request /\ Neat(e, s, l) /\ l.m_chains = EraseChain(s, r.m_chains, c)
        BY <2>1, <2>2, LeaveIs
    <2> HIDE DEF l
    <2>5. R \subseteq Brief(s, brief) /\ l.m_chains = Brief(s, brief) \ R
        BY <1>2, <2>2, <2>4 DEF EraseChain
    <2>6. (\A d \in R : KeyOf(s, d) = k) /\ (Single(e) => R # {})
        BY <1>2, <2>1
    <2> HIDE DEF R
    <2>7. Sound(e, [s EXCEPT !.m_pending_brief_reqs[brief] = l], None, R)
        BY <2>1, <2>4, <2>5, NewBrief
    <2>8. Sound(e, u, None, R) /\ u.chain = s.chain /\ u.made = s.made /\ u.closed = s.closed
        BY <1>1, <2>7 DEF Node, l
    <2> HIDE DEF u
    <2> QED
        BY <1>3, <2>3, <2>6, <2>8
<1>5. CASE brief = None
    <2> DEFINE r == s.m_pending_detail_reqs[detail]
               u == [s EXCEPT !.m_pending_detail_reqs[detail] = Leave(s, r, c)]
    <2>1. detail \in Block /\ detail # None /\ (Single(e) => c \in Detail(s, detail))
        BY <1>2, <1>5, BlockSyncAssumption DEF Placed, Chain
    <2>2. r \in Request /\ Neat(e, s, r) /\ r.m_chains = Detail(s, detail)
        BY <1>1, <2>1 DEF Node, Tidy, Detail
    <2>3. Detach(s, k) = EraseKey(u, k)
        BY <1>5, <2>1 DEF Detach
    <2> HIDE DEF r, detail, c
    <2> DEFINE l == Leave(s, r, c)
               R == {d \in Detail(s, detail) : KeyOf(s, d) = k}
    <2>4. l \in Request /\ Neat(e, s, l) /\ l.m_chains = EraseChain(s, r.m_chains, c)
        BY <2>1, <2>2, LeaveIs
    <2> HIDE DEF l
    <2>5. R \subseteq Detail(s, detail) /\ l.m_chains = Detail(s, detail) \ R
        BY <1>2, <2>2, <2>4 DEF EraseChain
    <2>6. (\A d \in R : KeyOf(s, d) = k) /\ (Single(e) => R # {})
        BY <1>2, <2>1
    <2> HIDE DEF R
    <2>7. Sound(e, [s EXCEPT !.m_pending_detail_reqs[detail] = l], None, R)
        BY <2>1, <2>4, <2>5, NewDetail
    <2>8. Sound(e, u, None, R) /\ u.chain = s.chain /\ u.made = s.made /\ u.closed = s.closed
        BY <1>1, <2>7 DEF Node, l
    <2> HIDE DEF u
    <2> QED
        BY <1>3, <2>3, <2>6, <2>8
<1> QED
    BY <1>4, <1>5

\* The chains of rest have not had their turn. While no key has doubled, none of
\* them waits.
Waits(e, s, r, rest) ==
    IF Single(e)
    THEN /\ rest \subseteq r.m_chains
         /\ \A i \in DOMAIN r.m_attached_chains : r.m_attached_chains[i] \notin rest
    ELSE \A c \in rest : c \in ChainId /\ s.chain[c] \in Chain

Asked(e, s, r, left, c, b) ==
    /\ b = [s |-> b.s, r |-> b.r] /\ b.r \in Request /\ Neat(e, s, b.r)
    /\ Waits(e, s, b.r, left)
    /\ \/ b.s = s /\ b.r.m_chains = r.m_chains
       \/ b.s = EraseKey(s, KeyOf(s, c)) /\ b.r.m_chains = EraseChain(s, r.m_chains, c)

\* One chain that waited is asked, waits on, or leaves.
LEMMA AskNextIs ==
    ASSUME NEW e, NEW s \in Node, NEW r \in Request, Neat(e, s, r), NEW rest,
           Waits(e, s, r, rest), NEW c \in rest,
           NEW left, left \subseteq rest, Single(e) => left = rest \ {c},
           NEW limit \in Nat, NEW useless \in BOOLEAN
    PROVE  Asked(e, s, r, left, c, AskNext([s |-> s, r |-> r], c, limit, useless))
<1> DEFINE a == [s |-> s, r |-> r]
           b == AskNext(a, c, limit, useless)
           q == r.m_attached_chains
<1>1. /\ q \in Seq(ChainId) /\ r.m_chains \subseteq ChainId /\ r.m_send_num \in Nat
      /\ a.r = r /\ a.s = s
    BY DEF Request
<1>2. /\ Single(e) => c \in r.m_chains /\ rest \subseteq r.m_chains /\ c \notin left
      /\ ~ Single(e) => s.chain[c] \in Chain
      /\ c \in ChainId
    BY <1>1 DEF Waits
<1>3. ASSUME Single(e), NEW i \in DOMAIN q PROVE q[i] \in r.m_chains /\ q[i] # c /\ q[i] \notin left
    BY <1>3 DEF Neat, Waits
<1>4. ASSUME ~ Single(e), NEW i \in DOMAIN q PROVE s.chain[q[i]] \in Chain
    BY <1>4 DEF Neat
<1>5. /\ \A d, g \in r.m_chains : KeyOf(s, d) = KeyOf(s, g) => d = g
      /\ r.m_try_num = 0 => r.m_chains = {}
      /\ Single(e) => \A i, j \in DOMAIN q : q[i] = q[j] => i = j
    BY DEF Neat
<1>6. ASSUME NEW t \in Request, NEW M, M \subseteq r.m_chains, t.m_chains = M,
             t.m_attached_chains = q, t.m_try_num = r.m_try_num,
             Single(e) => \A d \in r.m_chains : d # c => d \in M
      PROVE  Neat(e, s, t) /\ Waits(e, s, t, left)
    <2>1. CASE Single(e)
        <3>1. Neat(e, s, t)
            BY <1>3, <1>5, <1>6, <2>1 DEF Neat
        <3>2. Waits(e, s, t, left)
            BY <1>2, <1>3, <1>6, <2>1 DEF Waits
        <3> QED
            BY <3>1, <3>2
    <2>2. CASE ~ Single(e)
        <3>1. Neat(e, s, t)
            BY <1>4, <1>5, <1>6, <2>2 DEF Neat
        <3>2. Waits(e, s, t, left)
            BY <2>2 DEF Waits
        <3> QED
            BY <3>1, <3>2
    <2> QED
        BY <2>1, <2>2
<1>7. ASSUME r.m_send_num >= limit PROVE Asked(e, s, r, left, c, b)
    <2> DEFINE p == Append(q, c)
               t == [r EXCEPT !.m_attached_chains = p]
    <2>1. b = [s |-> s, r |-> t]
        BY <1>1, <1>7 DEF AskNext
    <2>2. p \in Seq(ChainId) /\ \A i \in DOMAIN p : (i \in DOMAIN q /\ p[i] = q[i]) \/ (i = Len(q) + 1 /\ p[i] = c)
        BY <1>1, <1>2
    <2> HIDE DEF p
    <2>3. t \in Request /\ t.m_chains = r.m_chains /\ t.m_attached_chains = p
          /\ t.m_try_num = r.m_try_num
        BY <2>2 DEF Request
    <2> HIDE DEF t, q
    <2>4. Neat(e, s, t) /\ Waits(e, s, t, left)
        <3>1. CASE Single(e)
            <4>1. \A i, j \in DOMAIN p : p[i] = p[j] => i = j
                BY <1>3, <1>5, <2>2, <3>1
            <4>2. \A i \in DOMAIN p : p[i] \in t.m_chains /\ p[i] \notin left
                BY <1>2, <1>3, <2>2, <2>3, <3>1
            <4>3. Neat(e, s, t)
                BY <1>5, <2>3, <3>1, <4>1, <4>2 DEF Neat
            <4>4. Waits(e, s, t, left)
                BY <1>2, <2>3, <3>1, <4>2 DEF Waits
            <4> QED
                BY <4>3, <4>4
        <3>2. CASE ~ Single(e)
            <4>1. \A i \in DOMAIN p : s.chain[p[i]] \in Chain
                BY <1>2, <1>4, <2>2, <3>2
            <4>2. Neat(e, s, t)
                BY <1>5, <2>3, <3>2, <4>1 DEF Neat
            <4>3. Waits(e, s, t, left)
                BY <3>2 DEF Waits
            <4> QED
                BY <4>2, <4>3
        <3> QED
            BY <3>1, <3>2
    <2> HIDE DEF b
    <2>5. b.s = s /\ b.r = t /\ b = [s |-> b.s, r |-> b.r]
        BY <2>1
    <2> QED
        BY <2>3, <2>4, <2>5 DEF Asked
<1>8. ASSUME ~ r.m_send_num >= limit /\ useless PROVE Asked(e, s, r, left, c, b)
    <2> DEFINE M == EraseChain(s, r.m_chains, c)
               t == [r EXCEPT !.m_chains = M]
    <2>1. M \subseteq r.m_chains /\ (Single(e) => \A d \in r.m_chains : d # c => d \in M)
        BY <1>2, <1>5 DEF EraseChain
    <2>2. b = [s |-> EraseKey(s, KeyOf(s, c)), r |-> t]
        BY <1>1, <1>8 DEF AskNext, Request
    <2> HIDE DEF M
    <2>3. t \in Request /\ t.m_chains = M /\ t.m_attached_chains = q /\ t.m_try_num = r.m_try_num
        BY <2>1 DEF Request
    <2> HIDE DEF t, b, q
    <2>4. Neat(e, s, t) /\ Waits(e, s, t, left)
        BY <1>6, <2>1, <2>3
    <2>5. b.s = EraseKey(s, KeyOf(s, c)) /\ b.r = t /\ b = [s |-> b.s, r |-> b.r]
        BY <2>2
    <2> QED
        BY <2>3, <2>4, <2>5 DEF Asked, M
<1>9. ASSUME ~ r.m_send_num >= limit /\ ~ useless PROVE Asked(e, s, r, left, c, b)
    <2> DEFINE t == [r EXCEPT !.m_send_num = r.m_send_num + 1]
    <2>1. b = [s |-> s, r |-> t]
        BY <1>1, <1>9 DEF AskNext, Request
    <2>2. t \in Request /\ t.m_chains = r.m_chains /\ t.m_attached_chains = q
          /\ t.m_try_num = r.m_try_num
        BY <1>1 DEF Request
    <2> HIDE DEF t, b, q
    <2>3. Neat(e, s, t) /\ Waits(e, s, t, left)
        BY <1>6, <2>2
    <2>4. b.s = s /\ b.r = t /\ b = [s |-> b.s, r |-> b.r]
        BY <2>1
    <2> QED
        BY <2>2, <2>3, <2>4 DEF Asked
<1>10. \/ r.m_send_num >= limit
       \/ ~ r.m_send_num >= limit /\ useless
       \/ ~ r.m_send_num >= limit /\ ~ useless
    BY <1>1
<1> HIDE DEF b
<1>11. Asked(e, s, r, left, c, b)
    BY <1>7, <1>8, <1>9, <1>10
<1> QED
    BY <1>11 DEF b

\* A request in mid-loop.
BriefAsks(e, h, rest, a) ==
    /\ a = [s |-> a.s, r |-> a.r] /\ a.s \in Node /\ a.r \in Request /\ Waits(e, a.s, a.r, rest)
    /\ Sound(e, [a.s EXCEPT !.m_pending_brief_reqs[h] = a.r], None, {})

DetailAsks(e, h, rest, a) ==
    /\ a = [s |-> a.s, r |-> a.r] /\ a.s \in Node /\ a.r \in Request /\ Waits(e, a.s, a.r, rest)
    /\ Sound(e, [a.s EXCEPT !.m_pending_detail_reqs[h] = a.r], None, {})

LEMMA BriefAsksOn ==
    ASSUME NEW e, NEW h \in Block, NEW rest, NEW a, BriefAsks(e, h, rest, a), NEW c \in rest,
           NEW left, left \subseteq rest, Single(e) => left = rest \ {c}, NEW limit \in Nat
    PROVE  BriefAsks(e, h, left, BriefAsk(limit, a, c))
<1> DEFINE s == a.s
           r == a.r
           v == [s EXCEPT !.m_pending_brief_reqs[h] = r]
           useless == Closed(s, c)
           b == AskNext([s |-> s, r |-> r], c, limit, useless)
           k == KeyOf(s, c)
<1>1. /\ a = [s |-> s, r |-> r] /\ s \in Node /\ r \in Request /\ Waits(e, s, r, rest)
      /\ Sound(e, v, None, {}) /\ useless \in BOOLEAN
    BY DEF BriefAsks, Closed
<1>2. BriefAsk(limit, a, c) = b
    BY <1>1 DEF BriefAsk
<1> HIDE DEF s, r, useless
<1>3. v \in Node /\ v.chain = s.chain /\ v.m_pending_brief_reqs[h] = r /\ Brief(v, h) = r.m_chains
    BY <1>1 DEF Node, Brief
<1> HIDE DEF v
<1>4. Neat(e, s, r)
    <2>1. Neat(e, v, r)
        <3>1. h # None
            BY BlockSyncAssumption
        <3> QED
            BY <1>1, <1>3, <3>1 DEF Sound, Tidy
    <2>2. \A d \in ChainId : KeyOf(s, d) = KeyOf(v, d) /\ s.chain[d] = v.chain[d]
        BY <1>3 DEF KeyOf
    <2> QED
        BY <1>1, <2>1, <2>2, NeatIn
<1>5. /\ b = [s |-> b.s, r |-> b.r] /\ b.r \in Request /\ Neat(e, s, b.r)
      /\ Waits(e, s, b.r, left)
      /\ \/ b.s = s /\ b.r.m_chains = r.m_chains
         \/ b.s = EraseKey(s, k) /\ b.r.m_chains = EraseChain(s, r.m_chains, c)
    <2>1. Asked(e, s, r, left, c, b)
        BY <1>1, <1>4, AskNextIs
    <2> HIDE DEF b
    <2> QED
        BY <2>1 DEF Asked
<1> DEFINE t == b.r
<1> HIDE DEF b
<1>6. t \in Request /\ Neat(e, v, t)
    <2>1. \A d \in ChainId : KeyOf(v, d) = KeyOf(s, d) /\ s.chain[d] = v.chain[d]
        BY <1>3 DEF KeyOf
    <2> QED
        BY <1>5, <2>1, NeatIn
<1>7. (Single(e) => c \in Brief(v, h)) /\ k \in Keys
    <2>1. CASE Single(e)
        <3>1. c \in Brief(v, h)
            BY <1>1, <1>3, <2>1 DEF Waits
        <3>2. v.chain[c] \in Chain
            <4>1. Member(v, None, c) /\ c \in ChainId
                BY <1>1, <1>3, <3>1, BlockSyncAssumption DEF Member, Request
            <4> QED
                BY <1>1, <4>1 DEF Sound, Tidy, Held
        <3> QED
            BY <1>3, <3>1, <3>2, KeyIs
    <2>2. CASE ~ Single(e)
        <3>1. s.chain[c] \in Chain
            BY <1>1, <2>2 DEF Waits
        <3> QED
            BY <2>2, <3>1, KeyIs
    <2> QED
        BY <2>1, <2>2
<1>8. ASSUME b.s = s, t.m_chains = r.m_chains
      PROVE  b.s \in Node /\ Sound(e, [b.s EXCEPT !.m_pending_brief_reqs[h] = t], None, {})
    <2>1. Sound(e, [v EXCEPT !.m_pending_brief_reqs[h] = t], None, {})
        <3> HIDE DEF t
        <3>1. {} \subseteq Brief(v, h) /\ t.m_chains = Brief(v, h) \ {}
            BY <1>3, <1>8
        <3> QED
            BY <1>1, <1>6, <3>1, NewBrief
    <2> HIDE DEF t
    <2>2. [v EXCEPT !.m_pending_brief_reqs[h] = t] = [s EXCEPT !.m_pending_brief_reqs[h] = t]
        BY <1>1 DEF Node, v
    <2> QED
        BY <1>1, <1>8, <2>1, <2>2
<1>9. ASSUME b.s = EraseKey(s, k), t.m_chains = EraseChain(s, r.m_chains, c)
      PROVE  b.s \in Node /\ Sound(e, [b.s EXCEPT !.m_pending_brief_reqs[h] = t], None, {})
    <2> DEFINE w == [v EXCEPT !.m_pending_brief_reqs[h] = t]
               R == {d \in Brief(v, h) : KeyOf(s, d) = k}
    <2>1. Sound(e, w, None, R)
        <3> HIDE DEF t
        <3>1. R \subseteq Brief(v, h) /\ t.m_chains = Brief(v, h) \ R
            BY <1>3, <1>9 DEF EraseChain
        <3> HIDE DEF R
        <3> QED
            BY <1>1, <1>6, <3>1, NewBrief
    <2>2. w = [s EXCEPT !.m_pending_brief_reqs[h] = t] /\ \A d : KeyOf(w, d) = KeyOf(s, d)
        <3> HIDE DEF t
        <3>1. w = [s EXCEPT !.m_pending_brief_reqs[h] = t]
            BY <1>1 DEF Node, v
        <3>2. w.chain = s.chain
            BY <1>1, <3>1 DEF Node
        <3> HIDE DEF w
        <3> QED
            BY <3>1, <3>2 DEF KeyOf
    <2>3. (\A d \in R : KeyOf(w, d) = k) /\ (Single(e) => R # {})
        <3> HIDE DEF w
        <3> QED
            BY <1>7, <2>2
    <2> HIDE DEF w, R, k
    <2>4. Sound(e, EraseKey(w, k), None, {})
        BY <1>7, <2>1, <2>3, EraseRest
    <2> HIDE DEF t
    <2>5. EraseKey(w, k) = [EraseKey(s, k) EXCEPT !.m_pending_brief_reqs[h] = t]
        BY <1>1, <2>2 DEF EraseKey, Node
    <2>6. EraseKey(s, k) \in Node
        BY <1>1 DEF EraseKey, Node
    <2> QED
        BY <1>9, <2>4, <2>5, <2>6
<1>10. b.s \in Node /\ Sound(e, [b.s EXCEPT !.m_pending_brief_reqs[h] = t], None, {})
    <2> HIDE DEF t
    <2>1. \/ b.s = s /\ t.m_chains = r.m_chains
          \/ b.s = EraseKey(s, k) /\ t.m_chains = EraseChain(s, r.m_chains, c)
        BY <1>5 DEF t
    <2> QED
        BY <1>8, <1>9, <2>1
<1>11. Waits(e, b.s, t, left)
    <2>1. b.s.chain = s.chain
        BY <1>1, <1>5 DEF EraseKey, Node
    <2> QED
        BY <1>5, <2>1 DEF Waits
<1>12. BriefAsks(e, h, left, b)
    BY <1>5, <1>10, <1>11 DEF BriefAsks
<1> QED
    BY <1>2, <1>12

LEMMA DetailAsksOn ==
    ASSUME NEW e, NEW h \in Block, NEW rest, NEW a, DetailAsks(e, h, rest, a), NEW c \in rest,
           NEW left, left \subseteq rest, Single(e) => left = rest \ {c}, NEW limit \in Nat
    PROVE  DetailAsks(e, h, left, DetailAsk(limit, a, c))
<1> DEFINE s == a.s
           r == a.r
           v == [s EXCEPT !.m_pending_detail_reqs[h] = r]
           useless == Useless(s, c)
           b == AskNext([s |-> s, r |-> r], c, limit, useless)
           k == KeyOf(s, c)
<1>1. /\ a = [s |-> s, r |-> r] /\ s \in Node /\ r \in Request /\ Waits(e, s, r, rest)
      /\ Sound(e, v, None, {}) /\ useless \in BOOLEAN
    BY DEF DetailAsks, Useless, Closed, Heavier
<1>2. DetailAsk(limit, a, c) = b
    BY <1>1 DEF DetailAsk
<1> HIDE DEF s, r, useless
<1>3. v \in Node /\ v.chain = s.chain /\ v.m_pending_detail_reqs[h] = r /\ Detail(v, h) = r.m_chains
    BY <1>1 DEF Node, Detail
<1> HIDE DEF v
<1>4. Neat(e, s, r)
    <2>1. Neat(e, v, r)
        <3>1. h # None
            BY BlockSyncAssumption
        <3> QED
            BY <1>1, <1>3, <3>1 DEF Sound, Tidy
    <2>2. \A d \in ChainId : KeyOf(s, d) = KeyOf(v, d) /\ s.chain[d] = v.chain[d]
        BY <1>3 DEF KeyOf
    <2> QED
        BY <1>1, <2>1, <2>2, NeatIn
<1>5. /\ b = [s |-> b.s, r |-> b.r] /\ b.r \in Request /\ Neat(e, s, b.r)
      /\ Waits(e, s, b.r, left)
      /\ \/ b.s = s /\ b.r.m_chains = r.m_chains
         \/ b.s = EraseKey(s, k) /\ b.r.m_chains = EraseChain(s, r.m_chains, c)
    <2>1. Asked(e, s, r, left, c, b)
        BY <1>1, <1>4, AskNextIs
    <2> HIDE DEF b
    <2> QED
        BY <2>1 DEF Asked
<1> DEFINE t == b.r
<1> HIDE DEF b
<1>6. t \in Request /\ Neat(e, v, t)
    <2>1. \A d \in ChainId : KeyOf(v, d) = KeyOf(s, d) /\ s.chain[d] = v.chain[d]
        BY <1>3 DEF KeyOf
    <2> QED
        BY <1>5, <2>1, NeatIn
<1>7. (Single(e) => c \in Detail(v, h)) /\ k \in Keys
    <2>1. CASE Single(e)
        <3>1. c \in Detail(v, h)
            BY <1>1, <1>3, <2>1 DEF Waits
        <3>2. v.chain[c] \in Chain
            <4>1. Member(v, None, c) /\ c \in ChainId
                BY <1>1, <1>3, <3>1, BlockSyncAssumption DEF Member, Request
            <4> QED
                BY <1>1, <4>1 DEF Sound, Tidy, Held
        <3> QED
            BY <1>3, <3>1, <3>2, KeyIs
    <2>2. CASE ~ Single(e)
        <3>1. s.chain[c] \in Chain
            BY <1>1, <2>2 DEF Waits
        <3> QED
            BY <2>2, <3>1, KeyIs
    <2> QED
        BY <2>1, <2>2
<1>8. ASSUME b.s = s, t.m_chains = r.m_chains
      PROVE  b.s \in Node /\ Sound(e, [b.s EXCEPT !.m_pending_detail_reqs[h] = t], None, {})
    <2>1. Sound(e, [v EXCEPT !.m_pending_detail_reqs[h] = t], None, {})
        <3> HIDE DEF t
        <3>1. {} \subseteq Detail(v, h) /\ t.m_chains = Detail(v, h) \ {}
            BY <1>3, <1>8
        <3> QED
            BY <1>1, <1>6, <3>1, NewDetail
    <2> HIDE DEF t
    <2>2. [v EXCEPT !.m_pending_detail_reqs[h] = t] = [s EXCEPT !.m_pending_detail_reqs[h] = t]
        BY <1>1 DEF Node, v
    <2> QED
        BY <1>1, <1>8, <2>1, <2>2
<1>9. ASSUME b.s = EraseKey(s, k), t.m_chains = EraseChain(s, r.m_chains, c)
      PROVE  b.s \in Node /\ Sound(e, [b.s EXCEPT !.m_pending_detail_reqs[h] = t], None, {})
    <2> DEFINE w == [v EXCEPT !.m_pending_detail_reqs[h] = t]
               R == {d \in Detail(v, h) : KeyOf(s, d) = k}
    <2>1. Sound(e, w, None, R)
        <3> HIDE DEF t
        <3>1. R \subseteq Detail(v, h) /\ t.m_chains = Detail(v, h) \ R
            BY <1>3, <1>9 DEF EraseChain
        <3> HIDE DEF R
        <3> QED
            BY <1>1, <1>6, <3>1, NewDetail
    <2>2. w = [s EXCEPT !.m_pending_detail_reqs[h] = t] /\ \A d : KeyOf(w, d) = KeyOf(s, d)
        <3> HIDE DEF t
        <3>1. w = [s EXCEPT !.m_pending_detail_reqs[h] = t]
            BY <1>1 DEF Node, v
        <3>2. w.chain = s.chain
            BY <1>1, <3>1 DEF Node
        <3> HIDE DEF w
        <3> QED
            BY <3>1, <3>2 DEF KeyOf
    <2>3. (\A d \in R : KeyOf(w, d) = k) /\ (Single(e) => R # {})
        <3> HIDE DEF w
        <3> QED
            BY <1>7, <2>2
    <2> HIDE DEF w, R, k
    <2>4. Sound(e, EraseKey(w, k), None, {})
        BY <1>7, <2>1, <2>3, EraseRest
    <2> HIDE DEF t
    <2>5. EraseKey(w, k) = [EraseKey(s, k) EXCEPT !.m_pending_detail_reqs[h] = t]
        BY <1>1, <2>2 DEF EraseKey, Node
    <2>6. EraseKey(s, k) \in Node
        BY <1>1 DEF EraseKey, Node
    <2> QED
        BY <1>9, <2>4, <2>5, <2>6
<1>10. b.s \in Node /\ Sound(e, [b.s EXCEPT !.m_pending_detail_reqs[h] = t], None, {})
    <2> HIDE DEF t
    <2>1. \/ b.s = s /\ t.m_chains = r.m_chains
          \/ b.s = EraseKey(s, k) /\ t.m_chains = EraseChain(s, r.m_chains, c)
        BY <1>5 DEF t
    <2> QED
        BY <1>8, <1>9, <2>1
<1>11. Waits(e, b.s, t, left)
    <2>1. b.s.chain = s.chain
        BY <1>1, <1>5 DEF EraseKey, Node
    <2> QED
        BY <1>5, <2>1 DEF Waits
<1>12. DetailAsks(e, h, left, b)
    BY <1>5, <1>10, <1>11 DEF DetailAsks
<1> QED
    BY <1>2, <1>12

\* Who waits in a request, before they take their turns.
Lined(e, s, r) ==
    IF Single(e)
    THEN /\ \A i \in DOMAIN r.m_attached_chains : r.m_attached_chains[i] \in r.m_chains
         /\ Different(r.m_attached_chains)
    ELSE \A i \in DOMAIN r.m_attached_chains : s.chain[r.m_attached_chains[i]] \in Chain

\* The chains that waited take their turns.
LEMMA BriefRepeatIs ==
    ASSUME NEW e, NEW h \in Block, NEW r \in Request, NEW s \in Node,
           Sound(e, [s EXCEPT !.m_pending_brief_reqs[h] = [r EXCEPT !.m_attached_chains = <<>>]], None, {}),
           Lined(e, s, r), SendNum[r.m_try_num] \in Nat
    PROVE  Sound(e, [Repeat(s, r, Closed).s EXCEPT !.m_pending_brief_reqs[h] = Repeat(s, r, Closed).r],
                 None, {})
<1> DEFINE q == r.m_attached_chains
           L == Len(q)
           rest(i) == {q[j] : j \in (i + 1)..L}
           r0 == [r EXCEPT !.m_attached_chains = <<>>]
           a == [s |-> s, r |-> r0]
           limit == SendNum[r.m_try_num]
           f == BriefAsking!Fold(limit, a, q)
<1>1. Repeat(s, r, Closed) = f
    BY DEF Repeat, BriefAsking!Fold, BriefAsking!MapThenFoldSet,
           BriefAsking!Greatest, FoldLeft, MapThenFoldSet, Max, BriefAsk
<1>2. q \in Seq(ChainId) /\ L \in Nat /\ DOMAIN q = 1..L
    BY DEF Request
<1>3. r0 \in Request /\ r0.m_chains = r.m_chains /\ r0.m_attached_chains = <<>>
    <2>1. <<>> \in Seq(ChainId)
        OBVIOUS
    <2> QED
        BY <2>1 DEF Request
<1>4. BriefAsks(e, h, rest(0), a)
    <2>1. Waits(e, s, r0, rest(0))
        <3>1. DOMAIN <<>> = {} /\ (0 + 1)..L = 1..L
            OBVIOUS
        <3> HIDE DEF r0
        <3>2. \A i \in 1..L : /\ q[i] \in ChainId
                              /\ IF Single(e) THEN q[i] \in r.m_chains ELSE s.chain[q[i]] \in Chain
            BY <1>2 DEF Lined
        <3> HIDE DEF L
        <3>3. CASE Single(e)
            <4>1. rest(0) \subseteq r.m_chains
                BY <3>1, <3>2, <3>3
            <4> HIDE DEF rest
            <4> QED
                BY <1>3, <3>1, <3>3, <4>1 DEF Waits
        <3>4. CASE ~ Single(e)
            <4>1. \A c \in rest(0) : c \in ChainId /\ s.chain[c] \in Chain
                BY <3>1, <3>2, <3>4
            <4> HIDE DEF rest
            <4> QED
                BY <3>4, <4>1 DEF Waits
        <3> QED
            BY <3>3, <3>4
    <2> HIDE DEF rest
    <2>2. a.s = s /\ a.r = r0 /\ a = [s |-> a.s, r |-> a.r]
        OBVIOUS
    <2> HIDE DEF a
    <2>3. Sound(e, [s EXCEPT !.m_pending_brief_reqs[h] = r0], None, {})
        OBVIOUS
    <2> HIDE DEF r0
    <2> QED
        BY <1>3, <2>1, <2>2, <2>3 DEF BriefAsks
<1> HIDE DEF a, r0, limit
<1>5. PICK run : BriefAsking!IsRun(limit, a, q, run) /\ f = run[L]
    <2> HIDE DEF L
    <2>1. Len(q) \in Nat /\ DOMAIN q = 1..Len(q)
        BY <1>2 DEF L
    <2> HIDE DEF q
    <2> QED
        BY <2>1, BriefAsking!FoldRuns DEF L
<1> HIDE DEF f
<1> DEFINE T == {i \in 0..L : BriefAsks(e, h, rest(i), run[i])}
<1>6. Single(e) => \A i, j \in 1..L : q[i] = q[j] => i = j
    BY <1>2 DEF Different, Lined
<1> HIDE DEF q
<1>7. 0 \in T
    <2>1. run[0] = a
        BY <1>5 DEF BriefAsking!IsRun
    <2> HIDE DEF rest
    <2> QED
        BY <1>2, <1>4, <2>1
<1>8. ASSUME NEW i \in 0..L, i \in T, i < L PROVE i + 1 \in T
    <2> DEFINE c == q[i + 1]
    <2>0. L \in Nat
        BY <1>2
    <2>1. i + 1 \in 1..L /\ (i + 1) - 1 = i /\ i + 1 \in 0..L
        BY <2>0, <1>8
    <2>2. run[i + 1] = BriefAsk(limit, run[i], c)
        BY <1>5, <2>1 DEF BriefAsking!IsRun, L
    <2>3. /\ c \in rest(i) /\ rest(i + 1) \subseteq rest(i)
          /\ Single(e) => rest(i + 1) = rest(i) \ {c}
        <3>2. \A j \in (i + 1)..L : j \in 1..L /\ (j = i + 1 \/ j \in ((i + 1) + 1)..L)
            BY <2>0, <2>1
        <3>3. \A j \in ((i + 1) + 1)..L : j \in (i + 1)..L /\ j # i + 1
            BY <2>0, <2>1
        <3>4. i + 1 \in (i + 1)..L
            BY <2>0, <2>1
        <3>5. c \in rest(i) /\ rest(i + 1) \subseteq rest(i)
            BY <3>3, <3>4
        <3>6. Single(e) => rest(i + 1) = rest(i) \ {c}
            BY <2>1, <1>6, <3>2, <3>3, <3>4
        <3> QED
            BY <3>5, <3>6
    <2> HIDE DEF c, rest
    <2>4. BriefAsks(e, h, rest(i), run[i]) /\ limit \in Nat
        BY <1>8 DEF limit
    <2> DEFINE R == rest(i)
               left == rest(i + 1)
               g == run[i]
    <2>5. BriefAsks(e, h, R, g) /\ c \in R /\ left \subseteq R /\ (Single(e) => left = R \ {c})
        BY <2>3, <2>4
    <2> HIDE DEF R, g, left
    <2>6. BriefAsks(e, h, left, BriefAsk(limit, g, c))
        BY <2>4, <2>5, BriefAsksOn
    <2> QED
        BY <2>1, <2>2, <2>6 DEF left, g
<1>9. L \in T
    <2>1. 0..L \subseteq T
        <3> HIDE DEF T, L
        <3> QED
            BY <1>2, <1>7, <1>8, Striking!Induct
    <2>2. L \in 0..L
        <3> HIDE DEF L
        <3> QED
            BY <1>2
    <2> HIDE DEF T, L
    <2> QED
        BY <2>1, <2>2
<1> QED
    BY <1>1, <1>5, <1>9 DEF BriefAsks

LEMMA DetailRepeatIs ==
    ASSUME NEW e, NEW h \in Block, NEW r \in Request, NEW s \in Node,
           Sound(e, [s EXCEPT !.m_pending_detail_reqs[h] = [r EXCEPT !.m_attached_chains = <<>>]], None, {}),
           Lined(e, s, r), SendNum[r.m_try_num] \in Nat
    PROVE  Sound(e, [Repeat(s, r, Useless).s EXCEPT !.m_pending_detail_reqs[h] = Repeat(s, r, Useless).r],
                 None, {})
<1> DEFINE q == r.m_attached_chains
           L == Len(q)
           rest(i) == {q[j] : j \in (i + 1)..L}
           r0 == [r EXCEPT !.m_attached_chains = <<>>]
           a == [s |-> s, r |-> r0]
           limit == SendNum[r.m_try_num]
           f == DetailAsking!Fold(limit, a, q)
<1>1. Repeat(s, r, Useless) = f
    BY DEF Repeat, DetailAsking!Fold, DetailAsking!MapThenFoldSet,
           DetailAsking!Greatest, FoldLeft, MapThenFoldSet, Max, DetailAsk
<1>2. q \in Seq(ChainId) /\ L \in Nat /\ DOMAIN q = 1..L
    BY DEF Request
<1>3. r0 \in Request /\ r0.m_chains = r.m_chains /\ r0.m_attached_chains = <<>>
    <2>1. <<>> \in Seq(ChainId)
        OBVIOUS
    <2> QED
        BY <2>1 DEF Request
<1>4. DetailAsks(e, h, rest(0), a)
    <2>1. Waits(e, s, r0, rest(0))
        <3>1. DOMAIN <<>> = {} /\ (0 + 1)..L = 1..L
            OBVIOUS
        <3> HIDE DEF r0
        <3>2. \A i \in 1..L : /\ q[i] \in ChainId
                              /\ IF Single(e) THEN q[i] \in r.m_chains ELSE s.chain[q[i]] \in Chain
            BY <1>2 DEF Lined
        <3> HIDE DEF L
        <3>3. CASE Single(e)
            <4>1. rest(0) \subseteq r.m_chains
                BY <3>1, <3>2, <3>3
            <4> HIDE DEF rest
            <4> QED
                BY <1>3, <3>1, <3>3, <4>1 DEF Waits
        <3>4. CASE ~ Single(e)
            <4>1. \A c \in rest(0) : c \in ChainId /\ s.chain[c] \in Chain
                BY <3>1, <3>2, <3>4
            <4> HIDE DEF rest
            <4> QED
                BY <3>4, <4>1 DEF Waits
        <3> QED
            BY <3>3, <3>4
    <2> HIDE DEF rest
    <2>2. a.s = s /\ a.r = r0 /\ a = [s |-> a.s, r |-> a.r]
        OBVIOUS
    <2> HIDE DEF a
    <2>3. Sound(e, [s EXCEPT !.m_pending_detail_reqs[h] = r0], None, {})
        OBVIOUS
    <2> HIDE DEF r0
    <2> QED
        BY <1>3, <2>1, <2>2, <2>3 DEF DetailAsks
<1> HIDE DEF a, r0, limit
<1>5. PICK run : DetailAsking!IsRun(limit, a, q, run) /\ f = run[L]
    <2> HIDE DEF L
    <2>1. Len(q) \in Nat /\ DOMAIN q = 1..Len(q)
        BY <1>2 DEF L
    <2> HIDE DEF q
    <2> QED
        BY <2>1, DetailAsking!FoldRuns DEF L
<1> HIDE DEF f
<1> DEFINE T == {i \in 0..L : DetailAsks(e, h, rest(i), run[i])}
<1>6. Single(e) => \A i, j \in 1..L : q[i] = q[j] => i = j
    BY <1>2 DEF Different, Lined
<1> HIDE DEF q
<1>7. 0 \in T
    <2>1. run[0] = a
        BY <1>5 DEF DetailAsking!IsRun
    <2> HIDE DEF rest
    <2> QED
        BY <1>2, <1>4, <2>1
<1>8. ASSUME NEW i \in 0..L, i \in T, i < L PROVE i + 1 \in T
    <2> DEFINE c == q[i + 1]
    <2>0. L \in Nat
        BY <1>2
    <2>1. i + 1 \in 1..L /\ (i + 1) - 1 = i /\ i + 1 \in 0..L
        BY <2>0, <1>8
    <2>2. run[i + 1] = DetailAsk(limit, run[i], c)
        BY <1>5, <2>1 DEF DetailAsking!IsRun, L
    <2>3. /\ c \in rest(i) /\ rest(i + 1) \subseteq rest(i)
          /\ Single(e) => rest(i + 1) = rest(i) \ {c}
        <3>2. \A j \in (i + 1)..L : j \in 1..L /\ (j = i + 1 \/ j \in ((i + 1) + 1)..L)
            BY <2>0, <2>1
        <3>3. \A j \in ((i + 1) + 1)..L : j \in (i + 1)..L /\ j # i + 1
            BY <2>0, <2>1
        <3>4. i + 1 \in (i + 1)..L
            BY <2>0, <2>1
        <3>5. c \in rest(i) /\ rest(i + 1) \subseteq rest(i)
            BY <3>3, <3>4
        <3>6. Single(e) => rest(i + 1) = rest(i) \ {c}
            BY <2>1, <1>6, <3>2, <3>3, <3>4
        <3> QED
            BY <3>5, <3>6
    <2> HIDE DEF c, rest
    <2>4. DetailAsks(e, h, rest(i), run[i]) /\ limit \in Nat
        BY <1>8 DEF limit
    <2> DEFINE R == rest(i)
               left == rest(i + 1)
               g == run[i]
    <2>5. DetailAsks(e, h, R, g) /\ c \in R /\ left \subseteq R /\ (Single(e) => left = R \ {c})
        BY <2>3, <2>4
    <2> HIDE DEF R, g, left
    <2>6. DetailAsks(e, h, left, DetailAsk(limit, g, c))
        BY <2>4, <2>5, DetailAsksOn
    <2> QED
        BY <2>1, <2>2, <2>6 DEF left, g
<1>9. L \in T
    <2>1. 0..L \subseteq T
        <3> HIDE DEF T, L
        <3> QED
            BY <1>2, <1>7, <1>8, Striking!Induct
    <2>2. L \in 0..L
        <3> HIDE DEF L
        <3> QED
            BY <1>2
    <2> HIDE DEF T, L
    <2> QED
        BY <2>1, <2>2
<1> QED
    BY <1>1, <1>5, <1>9 DEF DetailAsks

\* The timer of a request has gone off.
LEMMA RetryBriefIs ==
    ASSUME NEW e, NEW s, Sound(e, s, None, {}), NEW h \in Block, SendNum \in Seq(Nat)
    PROVE  LET r == s.m_pending_brief_reqs[h]
               next == [r EXCEPT !.m_try_num = @ + 1]
               done == Repeat(s, next, Closed)
           IN  /\ r.m_chains = {} => Sound(e, [s EXCEPT !.m_pending_brief_reqs[h] = NoRequest], None, {})
               /\ Sound(e, punish_brief_req(s, h, FALSE), None, {})
               /\ ~ next.m_try_num > Len(SendNum) =>
                     Sound(e, [done.s EXCEPT !.m_pending_brief_reqs[h] = done.r], None, {})
<1> DEFINE r == s.m_pending_brief_reqs[h]
           next == [r EXCEPT !.m_try_num = @ + 1]
           r0 == [next EXCEPT !.m_attached_chains = <<>>]
           done == Repeat(s, next, Closed)
<1>1. s \in Node /\ r \in Request /\ Neat(e, s, r) /\ Brief(s, h) = r.m_chains
    <2>1. h # None
        BY BlockSyncAssumption
    <2> QED
        BY <2>1 DEF Sound, Base, Tidy, Node, Brief
<1>2. ASSUME r.m_chains = {} PROVE Sound(e, [s EXCEPT !.m_pending_brief_reqs[h] = NoRequest], None, {})
    <2> DEFINE u == NoRequest
    <2>1. u \in Request /\ Neat(e, s, u) /\ u.m_chains = {}
        BY NoRequestIs
    <2> HIDE DEF u
    <2>2. {} \subseteq Brief(s, h) /\ u.m_chains = Brief(s, h) \ {}
        BY <1>1, <1>2, <2>1
    <2>3. Sound(e, [s EXCEPT !.m_pending_brief_reqs[h] = u], None, {})
        BY <2>1, <2>2, NewBrief
    <2> QED
        BY <2>3 DEF u
<1>3. Sound(e, punish_brief_req(s, h, FALSE), None, {})
    <2> DEFINE M == Brief(s, h)
    <2>1. Sound(e, s, h, M) /\ Listed(s, M) /\ Elsewhere(e, s, h, M, FALSE)
        BY TakeBrief
    <2>2. M \subseteq Brief(s, h)
        OBVIOUS
    <2> QED
        BY <2>1, <2>2, GiveUpBrief
<1>4. ASSUME ~ next.m_try_num > Len(SendNum)
      PROVE  Sound(e, [done.s EXCEPT !.m_pending_brief_reqs[h] = done.r], None, {})
    <2> HIDE DEF r
    <2>1. /\ next \in Request /\ next.m_chains = r.m_chains /\ next.m_try_num \in Nat \ {0}
          /\ next.m_attached_chains = r.m_attached_chains
        BY <1>1 DEF Request
    <2>2. SendNum[next.m_try_num] \in Nat
        <3> HIDE DEF next
        <3>1. Len(SendNum) \in Nat /\ next.m_try_num \in 1..Len(SendNum)
            BY <1>4, <2>1
        <3> HIDE DEF SendNum
        <3> QED
            BY <3>1
    <2>3. Lined(e, s, next)
        BY <1>1, <2>1 DEF Neat, Lined, Different
    <2> HIDE DEF next, SendNum
    <2>4. r0 \in Request /\ r0.m_chains = r.m_chains /\ Neat(e, s, r0)
        <3>1. DOMAIN <<>> = {} /\ <<>> \in Seq(ChainId)
            OBVIOUS
        <3>2. /\ r0 \in Request /\ r0.m_chains = r.m_chains /\ r0.m_attached_chains = <<>>
              /\ r0.m_try_num = next.m_try_num
            BY <2>1, <3>1 DEF Request
        <3> HIDE DEF r0
        <3> QED
            BY <1>1, <2>1, <3>1, <3>2 DEF Neat
    <2>5. Sound(e, [s EXCEPT !.m_pending_brief_reqs[h] = r0], None, {})
        <3> HIDE DEF r0
        <3>1. {} \subseteq Brief(s, h) /\ r0.m_chains = Brief(s, h) \ {}
            BY <1>1, <2>4
        <3> QED
            BY <2>4, <3>1, NewBrief
    <2> QED
        BY <1>1, <2>1, <2>2, <2>3, <2>5, BriefRepeatIs
<1> QED
    BY <1>2, <1>3, <1>4

LEMMA RetryDetailIs ==
    ASSUME NEW e, NEW s, Sound(e, s, None, {}), NEW h \in Block, SendNum \in Seq(Nat)
    PROVE  LET r == s.m_pending_detail_reqs[h]
               next == [r EXCEPT !.m_try_num = @ + 1]
               done == Repeat(s, next, Useless)
           IN  /\ r.m_chains = {} => Sound(e, [s EXCEPT !.m_pending_detail_reqs[h] = NoRequest], None, {})
               /\ Sound(e, punish_detail_req(s, h, FALSE), None, {})
               /\ ~ next.m_try_num > Len(SendNum) =>
                     Sound(e, [done.s EXCEPT !.m_pending_detail_reqs[h] = done.r], None, {})
<1> DEFINE r == s.m_pending_detail_reqs[h]
           next == [r EXCEPT !.m_try_num = @ + 1]
           r0 == [next EXCEPT !.m_attached_chains = <<>>]
           done == Repeat(s, next, Useless)
<1>1. s \in Node /\ r \in Request /\ Neat(e, s, r) /\ Detail(s, h) = r.m_chains
    BY DEF Sound, Base, Tidy, Node, Detail
<1>2. ASSUME r.m_chains = {} PROVE Sound(e, [s EXCEPT !.m_pending_detail_reqs[h] = NoRequest], None, {})
    <2> DEFINE u == NoRequest
    <2>1. u \in Request /\ Neat(e, s, u) /\ u.m_chains = {}
        BY NoRequestIs
    <2> HIDE DEF u
    <2>2. {} \subseteq Detail(s, h) /\ u.m_chains = Detail(s, h) \ {}
        BY <1>1, <1>2, <2>1
    <2>3. Sound(e, [s EXCEPT !.m_pending_detail_reqs[h] = u], None, {})
        BY <2>1, <2>2, NewDetail
    <2> QED
        BY <2>3 DEF u
<1>3. Sound(e, punish_detail_req(s, h, FALSE), None, {})
    BY GiveUpDetail
<1>4. ASSUME ~ next.m_try_num > Len(SendNum)
      PROVE  Sound(e, [done.s EXCEPT !.m_pending_detail_reqs[h] = done.r], None, {})
    <2> HIDE DEF r
    <2>1. /\ next \in Request /\ next.m_chains = r.m_chains /\ next.m_try_num \in Nat \ {0}
          /\ next.m_attached_chains = r.m_attached_chains
        BY <1>1 DEF Request
    <2>2. SendNum[next.m_try_num] \in Nat
        <3> HIDE DEF next
        <3>1. Len(SendNum) \in Nat /\ next.m_try_num \in 1..Len(SendNum)
            BY <1>4, <2>1
        <3> HIDE DEF SendNum
        <3> QED
            BY <3>1
    <2>3. Lined(e, s, next)
        BY <1>1, <2>1 DEF Neat, Lined, Different
    <2> HIDE DEF next, SendNum
    <2>4. r0 \in Request /\ r0.m_chains = r.m_chains /\ Neat(e, s, r0)
        <3>1. DOMAIN <<>> = {} /\ <<>> \in Seq(ChainId)
            OBVIOUS
        <3>2. /\ r0 \in Request /\ r0.m_chains = r.m_chains /\ r0.m_attached_chains = <<>>
              /\ r0.m_try_num = next.m_try_num
            BY <2>1, <3>1 DEF Request
        <3> HIDE DEF r0
        <3> QED
            BY <1>1, <2>1, <3>1, <3>2 DEF Neat
    <2>5. Sound(e, [s EXCEPT !.m_pending_detail_reqs[h] = r0], None, {})
        <3> HIDE DEF r0
        <3>1. {} \subseteq Detail(s, h) /\ r0.m_chains = Detail(s, h) \ {}
            BY <1>1, <2>4
        <3> QED
            BY <2>4, <3>1, NewDetail
    <2> QED
        BY <1>1, <2>1, <2>2, <2>3, <2>5, DetailRepeatIs
<1> QED
    BY <1>2, <1>3, <1>4

\* The addresses of the chains that something refers to.
Used(s) ==
    LET Of(reqs) == UNION {reqs[b].m_chains \cup ToSet(reqs[b].m_attached_chains) : b \in Block}
    IN  Of(s.m_pending_brief_reqs) \cup Of(s.m_pending_detail_reqs)
          \cup {s.m_chains_by_peer_key[k] : k \in Keys}

LEMMA UsedIs ==
    ASSUME NEW s
    PROVE  /\ \A h \in Block : \A c \in Brief(s, h) \cup Detail(s, h) : c \in Used(s)
           /\ \A h \in Block :
                 /\ LET r == s.m_pending_brief_reqs[h]
                    IN  \A i \in DOMAIN r.m_attached_chains : r.m_attached_chains[i] \in Used(s)
                 /\ LET r == s.m_pending_detail_reqs[h]
                    IN  \A i \in DOMAIN r.m_attached_chains : r.m_attached_chains[i] \in Used(s)
           /\ \A k \in Keys : s.m_chains_by_peer_key[k] \in Used(s)
<1>1. ASSUME NEW h \in Block, NEW c \in Brief(s, h) PROVE c \in Used(s)
    BY <1>1 DEF Used, Brief
<1>2. ASSUME NEW h \in Block, NEW c \in Detail(s, h) PROVE c \in Used(s)
    BY <1>2 DEF Used, Detail
<1>3. \A k \in Keys : s.m_chains_by_peer_key[k] \in Used(s)
    BY DEF Used
<1>4. ASSUME NEW h \in Block, NEW i \in DOMAIN s.m_pending_brief_reqs[h].m_attached_chains
      PROVE  s.m_pending_brief_reqs[h].m_attached_chains[i] \in Used(s)
    BY <1>4 DEF Used, ToSet
<1>5. ASSUME NEW h \in Block, NEW i \in DOMAIN s.m_pending_detail_reqs[h].m_attached_chains
      PROVE  s.m_pending_detail_reqs[h].m_attached_chains[i] \in Used(s)
    BY <1>5 DEF Used, ToSet
<1> QED
    BY <1>1, <1>2, <1>3, <1>4, <1>5

\* To free the chains that nothing refers to changes nothing else.
LEMMA FreedSound ==
    ASSUME NEW e, NEW s, Sound(e, s, None, {})
    PROVE  /\ Sound(e, Freed(s), None, {}) /\ Freed(s).made = s.made /\ Freed(s).closed = s.closed
           /\ Freed(s).m_chains_by_peer_key = s.m_chains_by_peer_key
<1> DEFINE ch == [c \in ChainId |-> IF c \in Used(s) THEN s.chain[c] ELSE NoChain]
           t == [s EXCEPT !.chain = ch]
<1>1. s \in Node /\ Base(e, s) /\ Tidy(e, s, None, {}) /\ Content(e, s, None)
    BY DEF Sound, Base
<1>2. Freed(s) = t
    BY <1>1 DEF Freed, Used, Node
<1>3. /\ ch \in [ChainId -> Chain \cup {NoChain}]
      /\ \A c \in ChainId : c \in Used(s) => ch[c] = s.chain[c]
    <2>1. s.chain \in [ChainId -> Chain \cup {NoChain}]
        BY <1>1 DEF Node
    <2> QED
        BY <2>1
<1> HIDE DEF ch
<1>4. /\ t \in Node /\ t.m_chains_by_peer_key = s.m_chains_by_peer_key
      /\ t.m_blocks = s.m_blocks /\ t.m_most_difficult_block = s.m_most_difficult_block
      /\ t.m_pending_block_hashes = s.m_pending_block_hashes /\ t.made = s.made
      /\ t.docs = s.docs /\ t.chain = ch
      /\ t.m_pending_brief_reqs = s.m_pending_brief_reqs
      /\ t.m_pending_detail_reqs = s.m_pending_detail_reqs
      /\ t.closed = s.closed /\ t.punished = s.punished /\ t.exited = s.exited
    BY <1>1, <1>3 DEF Node
<1> HIDE DEF t
<1>5. Base(e, t)
    BY <1>1, <1>4 DEF Base, IsPending, Hurt, Rooted
<1>6. \A d : Member(t, None, d) = Member(s, None, d)
    BY <1>4 DEF Member, Brief, Detail
<1>7. \A c \in ChainId : c \in Used(s) => t.chain[c] = s.chain[c]
    BY <1>3, <1>4
<1>8. \A h \in Block : /\ \A c \in Brief(s, h) : c \in ChainId /\ t.chain[c] = s.chain[c]
                       /\ \A c \in Detail(s, h) : c \in ChainId /\ t.chain[c] = s.chain[c]
    BY <1>1, <1>7, UsedIs, SetsOfChains
<1>9. Content(e, t, None)
    <2>1. \A h \in Block : h # None => \A c \in Brief(t, h) : Waiting(e.hon, t, c, h)
        BY <1>1, <1>4, <1>8 DEF Content, Waiting, Climbing, Brief
    <2>2. \A h \in Block : \A c \in Detail(t, h) : Asking(e.hon, t, c, h)
        BY <1>1, <1>4, <1>8 DEF Content, Asking, Grounded, Detail
    <2> QED
        BY <2>1, <2>2 DEF Content
<1>10. Tidy(e, t, None, {})
    <2>1. ASSUME NEW h \in Block PROVE Neat(e, t, t.m_pending_brief_reqs[h])
        <3>1. Neat(e, s, s.m_pending_brief_reqs[h])
            <4>1. h # None
                BY BlockSyncAssumption
            <4> QED
                BY <1>1, <4>1 DEF Tidy
        <3> DEFINE r == s.m_pending_brief_reqs[h]
        <3>2. r.m_chains \subseteq ChainId /\ \A i \in DOMAIN r.m_attached_chains : r.m_attached_chains[i] \in ChainId
            <4>1. r \in Request
                BY <1>1 DEF Node
            <4>2. r.m_attached_chains \in Seq(ChainId) /\ r.m_chains \subseteq ChainId
                BY <4>1 DEF Request
            <4> QED
                BY <4>2
        <3>3. \A i \in DOMAIN r.m_attached_chains :
                  t.chain[r.m_attached_chains[i]] = s.chain[r.m_attached_chains[i]]
            BY <1>7, <3>2, UsedIs
        <3>4. \A d \in r.m_chains : KeyOf(t, d) = KeyOf(s, d)
            BY <1>8 DEF KeyOf, Brief
        <3>5. Neat(e, t, r)
            BY <3>1, <3>3, <3>4 DEF Neat
        <3> QED
            BY <1>4, <3>5
    <2>2. ASSUME NEW h \in Block PROVE Neat(e, t, t.m_pending_detail_reqs[h])
        <3>1. Neat(e, s, s.m_pending_detail_reqs[h])
            BY <1>1 DEF Tidy
        <3> DEFINE r == s.m_pending_detail_reqs[h]
        <3>2. r.m_chains \subseteq ChainId /\ \A i \in DOMAIN r.m_attached_chains : r.m_attached_chains[i] \in ChainId
            <4>1. r \in Request
                BY <1>1 DEF Node
            <4>2. r.m_attached_chains \in Seq(ChainId) /\ r.m_chains \subseteq ChainId
                BY <4>1 DEF Request
            <4> QED
                BY <4>2
        <3>3. \A i \in DOMAIN r.m_attached_chains :
                  t.chain[r.m_attached_chains[i]] = s.chain[r.m_attached_chains[i]]
            BY <1>7, <3>2, UsedIs
        <3>4. \A d \in r.m_chains : KeyOf(t, d) = KeyOf(s, d)
            BY <1>8 DEF KeyOf, Detail
        <3>5. Neat(e, t, r)
            BY <3>1, <3>3, <3>4 DEF Neat
        <3> QED
            BY <1>4, <3>5
    <2>3. ASSUME NEW c \in ChainId, Member(t, None, c) PROVE Held(e, t, c)
        <3>1. Member(s, None, c)
            BY <1>6, <2>3
        <3>2. t.chain[c] = s.chain[c]
            BY <1>8, <3>1 DEF Member
        <3>3. Held(e, s, c)
            BY <1>1, <3>1 DEF Tidy
        <3> QED
            BY <1>4, <3>2, <3>3 DEF Held, Dead, KeyOf
    <2>4. ASSUME NEW k \in Keys, t.m_chains_by_peer_key[k] # None
          PROVE  KeyOf(t, t.m_chains_by_peer_key[k]) = k /\ Placed(e, t, None, t.m_chains_by_peer_key[k])
        <3> DEFINE c == s.m_chains_by_peer_key[k]
        <3>1. c \in ChainId /\ KeyOf(s, c) = k /\ Placed(e, s, None, c)
            BY <1>1, <1>4, <2>4 DEF Tidy, Node
        <3>2. t.chain[c] = s.chain[c]
            BY <1>7, <3>1, UsedIs
        <3> HIDE DEF c
        <3>3. KeyOf(t, c) = k /\ Placed(e, t, None, c)
            BY <1>4, <3>1, <3>2 DEF KeyOf, Placed, Brief, Detail
        <3> QED
            BY <1>4, <3>3 DEF c
    <2> QED
        BY <1>1, <2>1, <2>2, <2>3, <2>4 DEF Tidy
<1> QED
    BY <1>2, <1>4, <1>5, <1>9, <1>10 DEF Sound

LEMMA NoChainIs == NoChain \notin Chain
<1> SUFFICES ASSUME NoChain \in Chain PROVE FALSE
    OBVIOUS
<1>1. DOMAIN NoChain = {"m_peer"}
    BY DEF NoChain
<1>2. "m_start" \in DOMAIN NoChain
    BY DEF Chain
<1> QED
    BY <1>1, <1>2

\* A chain begins, at a free address, for a key that stands for no chain.
Begun(s, c, ch) ==
    [s EXCEPT !.chain[c] = ch, !.m_chains_by_peer_key[Key[ch.m_peer]] = c]

Begins(e, s, c, ch) ==
    /\ Sound(e, s, None, {}) /\ c \in Free(s) /\ ch \in Chain
    /\ ch.m_peer \in e.mp /\ ch.m_peer \notin s.closed
    /\ s.m_chains_by_peer_key[Key[ch.m_peer]] = None

LEMMA BegunIs ==
    ASSUME NEW e, NEW s, NEW c, NEW ch, Begins(e, s, c, ch)
    PROVE  /\ c \in ChainId /\ Begun(s, c, ch) \in Node
           /\ Begun(s, c, ch).chain[c] = ch
           /\ \A d \in ChainId \ {c} : Begun(s, c, ch).chain[d] = s.chain[d]
           /\ Begun(s, c, ch).m_chains_by_peer_key[Key[ch.m_peer]] = c
           /\ \A k \in Keys : k # Key[ch.m_peer] =>
                 Begun(s, c, ch).m_chains_by_peer_key[k] = s.m_chains_by_peer_key[k]
           /\ Begun(s, c, ch).m_blocks = s.m_blocks
           /\ Begun(s, c, ch).m_most_difficult_block = s.m_most_difficult_block
           /\ Begun(s, c, ch).m_pending_block_hashes = s.m_pending_block_hashes
           /\ Begun(s, c, ch).made = s.made /\ Begun(s, c, ch).docs = s.docs
           /\ Begun(s, c, ch).m_pending_brief_reqs = s.m_pending_brief_reqs
           /\ Begun(s, c, ch).m_pending_detail_reqs = s.m_pending_detail_reqs
           /\ Begun(s, c, ch).closed = s.closed /\ Begun(s, c, ch).punished = s.punished
           /\ Begun(s, c, ch).exited = s.exited
<1> DEFINE k == Key[ch.m_peer]
           chains == [s.chain EXCEPT ![c] = ch]
           keys == [s.m_chains_by_peer_key EXCEPT ![k] = c]
           t == [s EXCEPT !.chain = chains, !.m_chains_by_peer_key = keys]
<1>1. s \in Node /\ c \in ChainId /\ ch \in Chain
    BY DEF Begins, Sound, Base, Free
<1>2. k \in Keys
    BY <1>1 DEF Keys, Chain
<1>3. Begun(s, c, ch) = t
    BY <1>1 DEF Begun, Node
<1> HIDE DEF k
<1>4. /\ chains \in [ChainId -> Chain \cup {NoChain}] /\ chains[c] = ch
      /\ \A d \in ChainId \ {c} : chains[d] = s.chain[d]
    <2>1. s.chain \in [ChainId -> Chain \cup {NoChain}]
        BY <1>1 DEF Node
    <2> QED
        BY <1>1, <2>1
<1>5. /\ keys \in [Keys -> ChainId \cup {None}] /\ keys[k] = c
      /\ \A g \in Keys : g # k => keys[g] = s.m_chains_by_peer_key[g]
    <2>1. s.m_chains_by_peer_key \in [Keys -> ChainId \cup {None}]
        BY <1>1 DEF Node
    <2> QED
        BY <1>1, <1>2, <2>1
<1> HIDE DEF chains, keys
<1>6. /\ t \in Node /\ t.chain = chains /\ t.m_chains_by_peer_key = keys
      /\ t.m_blocks = s.m_blocks /\ t.m_most_difficult_block = s.m_most_difficult_block
      /\ t.m_pending_block_hashes = s.m_pending_block_hashes /\ t.made = s.made
      /\ t.docs = s.docs
      /\ t.m_pending_brief_reqs = s.m_pending_brief_reqs
      /\ t.m_pending_detail_reqs = s.m_pending_detail_reqs
      /\ t.closed = s.closed /\ t.punished = s.punished /\ t.exited = s.exited
    BY <1>1, <1>4, <1>5 DEF Node
<1> HIDE DEF t
<1> QED
    BY <1>1, <1>3, <1>4, <1>5, <1>6 DEF k

LEMMA BegunSound ==
    ASSUME NEW e, NEW s, NEW c, NEW ch, Begins(e, s, c, ch)
    PROVE  Sound(e, Begun(s, c, ch), None, {c})
<1> DEFINE t == Begun(s, c, ch)
           k == Key[ch.m_peer]
<1>1. /\ s \in Node /\ Base(e, s) /\ Tidy(e, s, None, {}) /\ Content(e, s, None)
      /\ s.chain[c] = NoChain /\ ch.m_peer \in e.mp /\ ch.m_peer \notin s.closed
      /\ s.m_chains_by_peer_key[k] = None /\ ch \in Chain
    BY DEF Begins, Sound, Base, Free
<1>2. /\ c \in ChainId /\ t \in Node /\ t.chain[c] = ch
      /\ \A d \in ChainId \ {c} : t.chain[d] = s.chain[d]
      /\ t.m_chains_by_peer_key[k] = c
      /\ \A g \in Keys : g # k => t.m_chains_by_peer_key[g] = s.m_chains_by_peer_key[g]
      /\ t.m_blocks = s.m_blocks
      /\ t.m_most_difficult_block = s.m_most_difficult_block
      /\ t.m_pending_block_hashes = s.m_pending_block_hashes
      /\ t.made = s.made /\ t.docs = s.docs
      /\ t.m_pending_brief_reqs = s.m_pending_brief_reqs
      /\ t.m_pending_detail_reqs = s.m_pending_detail_reqs
      /\ t.closed = s.closed /\ t.punished = s.punished /\ t.exited = s.exited
    BY BegunIs
<1> HIDE DEF t
<1>3. \A d : Member(t, None, d) = Member(s, None, d)
    BY <1>2 DEF Member, Brief, Detail
<1>4. \A d \in ChainId : Member(s, None, d) => Held(e, s, d) /\ d # c
    BY <1>1, NoChainIs DEF Tidy, Held
<1>5. \A h \in Block : /\ \A d \in Brief(s, h) : d \in ChainId /\ d # c
                       /\ \A d \in Detail(s, h) : d \in ChainId /\ d # c
    <2>1. \A h \in Block : h # None
        BY BlockSyncAssumption
    <2> QED
        BY <1>1, <1>4, <2>1, SetsOfChains DEF Member
<1>6. Base(e, t)
    BY <1>1, <1>2 DEF Base, IsPending, Hurt, Rooted
<1>7. Content(e, t, None)
    <2>1. \A h \in Block : h # None => \A d \in Brief(t, h) : Waiting(e.hon, t, d, h)
        BY <1>1, <1>2, <1>5 DEF Content, Waiting, Climbing, Brief
    <2>2. \A h \in Block : \A d \in Detail(t, h) : Asking(e.hon, t, d, h)
        BY <1>1, <1>2, <1>5 DEF Content, Asking, Grounded, Detail
    <2> QED
        BY <2>1, <2>2 DEF Content
<1>8. KeyOf(t, c) = k /\ Held(e, t, c)
    BY <1>1, <1>2 DEF KeyOf, Held
<1>9. ASSUME NEW d \in ChainId, Member(s, None, d) PROVE Held(e, t, d)
    <2>1. Held(e, s, d) /\ t.chain[d] = s.chain[d] /\ KeyOf(t, d) = KeyOf(s, d)
        BY <1>2, <1>4, <1>9 DEF KeyOf
    <2>2. Single(e) => KeyOf(s, d) # k
        <3> SUFFICES ASSUME Single(e), KeyOf(s, d) = k PROVE FALSE
            OBVIOUS
        <3>1. Dead(e, s, d)
            <4>1. d # None
                BY BlockSyncAssumption
            <4> QED
                BY <1>1, <2>1, <4>1 DEF Held
        <3> QED
            BY <1>1, <3>1 DEF Dead
    <2>3. KeyOf(s, d) \in Keys
        BY <2>1, KeyIs DEF Held
    <2> QED
        BY <1>2, <2>1, <2>2, <2>3 DEF Held, Dead
<1>10. Tidy(e, t, None, {c})
    <2>1. ASSUME NEW h \in Block PROVE Neat(e, t, t.m_pending_brief_reqs[h])
        <3>1. Neat(e, s, s.m_pending_brief_reqs[h])
            <4>1. h # None
                BY BlockSyncAssumption
            <4> QED
                BY <1>1, <4>1 DEF Tidy
        <3> DEFINE r == s.m_pending_brief_reqs[h]
        <3>2. \A i \in DOMAIN r.m_attached_chains : r.m_attached_chains[i] \in ChainId
            <4>1. r \in Request
                BY <1>1 DEF Node
            <4>2. r.m_attached_chains \in Seq(ChainId)
                BY <4>1 DEF Request
            <4> QED
                BY <4>2
        <3>3. \A i \in DOMAIN r.m_attached_chains : s.chain[r.m_attached_chains[i]] \in Chain
                  => t.chain[r.m_attached_chains[i]] \in Chain
            BY <1>1, <1>2, <3>2
        <3>4. \A d \in r.m_chains : KeyOf(t, d) = KeyOf(s, d)
            BY <1>2, <1>5 DEF KeyOf, Brief
        <3>5. Neat(e, t, r)
            BY <3>1, <3>3, <3>4 DEF Neat
        <3> QED
            BY <1>2, <3>5
    <2>2. ASSUME NEW h \in Block PROVE Neat(e, t, t.m_pending_detail_reqs[h])
        <3>1. Neat(e, s, s.m_pending_detail_reqs[h])
            BY <1>1 DEF Tidy
        <3> DEFINE r == s.m_pending_detail_reqs[h]
        <3>2. \A i \in DOMAIN r.m_attached_chains : r.m_attached_chains[i] \in ChainId
            <4>1. r \in Request
                BY <1>1 DEF Node
            <4>2. r.m_attached_chains \in Seq(ChainId)
                BY <4>1 DEF Request
            <4> QED
                BY <4>2
        <3>3. \A i \in DOMAIN r.m_attached_chains : s.chain[r.m_attached_chains[i]] \in Chain
                  => t.chain[r.m_attached_chains[i]] \in Chain
            BY <1>1, <1>2, <3>2
        <3>4. \A d \in r.m_chains : KeyOf(t, d) = KeyOf(s, d)
            BY <1>2, <1>5 DEF KeyOf, Detail
        <3>5. Neat(e, t, r)
            BY <3>1, <3>3, <3>4 DEF Neat
        <3> QED
            BY <1>2, <3>5
    <2>3. ASSUME NEW g \in Keys, t.m_chains_by_peer_key[g] # None, g # k
          PROVE  KeyOf(t, t.m_chains_by_peer_key[g]) = g /\ Placed(e, t, None, t.m_chains_by_peer_key[g])
        <3> DEFINE d == s.m_chains_by_peer_key[g]
        <3>1. t.m_chains_by_peer_key[g] = d
            BY <1>2, <2>3
        <3>2. d \in ChainId /\ KeyOf(s, d) = g /\ Placed(e, s, None, d)
            BY <1>1, <2>3, <3>1 DEF Tidy, Node
        <3> HIDE DEF d
        <3>3. d # c
            BY <1>1, <1>5, <3>2, NoChainIs DEF Placed
        <3>4. KeyOf(t, d) = g /\ Placed(e, t, None, d)
            BY <1>2, <3>2, <3>3 DEF KeyOf, Placed, Brief, Detail
        <3> QED
            BY <3>1, <3>4
    <2>4. \A d \in ChainId : Member(t, None, d) => Held(e, t, d)
        BY <1>3, <1>9
    <2>5. ~ Member(t, None, c)
        BY <1>2, <1>3, <1>4
    <2> QED
        BY <1>1, <1>2, <1>8, <2>1, <2>2, <2>3, <2>4, <2>5 DEF Tidy
<1>11. Sound(e, t, None, {c})
    BY <1>6, <1>7, <1>10 DEF Sound
<1> QED
    BY <1>11 DEF t

\* An announced chain goes where it belongs.
LEMMA StartIs ==
    ASSUME NEW e, NEW s, NEW c, NEW ch, Begins(e, s, c, ch), NEW end, Climbing(e.hon, s, ch),
           Unknown(ch) \in Block,
           \/ end = "height" /\ Hurt(s)
           \/ end = "work" /\ ch.m_peer \notin e.hon
           \/ end = "known" /\ Grounded(e.hon, s, ch)
           \/ end = "ask" /\ ~ IsPending(s, Unknown(ch))
    PROVE  Sound(e, Start(s, c, end, ch), None, {})
<1> DEFINE t == Begun(s, c, ch)
<1>1. /\ s \in Node /\ Sound(e, s, None, {}) /\ c \in ChainId /\ ch \in Chain /\ ch.m_peer \in Peer
      /\ ch.m_start = 0 /\ s.m_chains_by_peer_key[Key[ch.m_peer]] = None /\ ch.m_peer \notin s.closed
    BY DEF Begins, Free, Sound, Base, Climbing, Chain
<1>2. Sound(e, t, None, {c}) /\ {c} \ {c} = {} /\ c \in {c}
    BY BegunSound
<1>3. /\ t.chain[c] = ch /\ t.m_blocks = s.m_blocks /\ t.docs = s.docs /\ t.made = s.made
      /\ t.closed = s.closed /\ t.m_pending_block_hashes = s.m_pending_block_hashes
    BY BegunIs
<1>4. CASE end \in {"height", "work"}
    <2>1. Start(s, c, end, ch) = punish_peer(s, ch.m_peer)
        BY <1>4 DEF Start
    <2>2. ch.m_peer \in e.hon => Hurt(s)
        BY <1>4
    <2> QED
        BY <1>1, <2>1, <2>2, PunishSound
<1>5. CASE end = "known"
    <2>1. Start(s, c, end, ch) = do_detail_chain(t, c)
        BY <1>5 DEF Start, Begun
    <2> HIDE DEF t
    <2>2. Grounded(e.hon, t, t.chain[c]) /\ t.chain[c].m_start = 0
        BY <1>1, <1>3, <1>5 DEF Grounded
    <2>3. Sound(e, do_detail_chain(t, c), None, {c} \ {c})
        BY <1>2, <2>2, DetailChain
    <2> QED
        BY <1>2, <2>1, <2>3
<1>6. CASE end = "ask"
    <2> DEFINE h == Unknown(ch)
               u == [s EXCEPT !.chain[c] = ch]
    <2>1. Start(s, c, end, ch) = AskBrief(u, h, c)
        BY <1>6 DEF Start
    <2>2. AskBrief(u, h, c) = AskBrief(t, h, c)
        <3> DEFINE k == Key[ch.m_peer]
                   chains == [s.chain EXCEPT ![c] = ch]
                   keys == [s.m_chains_by_peer_key EXCEPT ![k] = c]
                   chains2 == [chains EXCEPT ![c].m_brief_attached = h]
        <3>1. u = [s EXCEPT !.chain = chains] /\ t = [s EXCEPT !.chain = chains, !.m_chains_by_peer_key = keys]
            BY <1>1 DEF Node, Begun
        <3>2. chains[c] = ch /\ keys[k] = c /\ k \in Keys
            BY <1>1 DEF Node, Keys
        <3> HIDE DEF chains, u, t
        <3>3. u.chain = chains /\ t.chain = chains /\ u.m_chains_by_peer_key = s.m_chains_by_peer_key
              /\ t.m_chains_by_peer_key = keys
              /\ u.m_pending_brief_reqs = s.m_pending_brief_reqs
              /\ t.m_pending_brief_reqs = s.m_pending_brief_reqs
            BY <1>1, <3>1 DEF Node
        <3>4. KeyOf(u, c) = k /\ KeyOf(t, c) = k
            BY <3>2, <3>3 DEF KeyOf
        <3>5. Joined(u, s.m_pending_brief_reqs[h], c) = Joined(t, s.m_pending_brief_reqs[h], c)
            BY <3>3 DEF Joined, InsertChain, KeyOf
        <3> DEFINE J == Joined(u, s.m_pending_brief_reqs[h], c)
                   reqs == [s.m_pending_brief_reqs EXCEPT ![h] = J]
        <3>6. AskBrief(u, h, c) = [u EXCEPT !.m_pending_brief_reqs = reqs, !.chain = chains2, !.m_chains_by_peer_key = keys]
            <4>1. [u.m_chains_by_peer_key EXCEPT ![k] = IF @ = None THEN c ELSE @] = keys
                BY <1>1, <3>3
            <4> HIDE DEF keys
            <4> QED
                BY <1>1, <3>1, <3>3, <3>4, <4>1 DEF AskBrief, Node
        <3>7. AskBrief(t, h, c) = [t EXCEPT !.m_pending_brief_reqs = reqs, !.chain = chains2, !.m_chains_by_peer_key = keys]
            <4>1. [t.m_chains_by_peer_key EXCEPT ![k] = IF @ = None THEN c ELSE @] = keys
                <5>1. keys \in [Keys -> ChainId \cup {None}]
                    BY <1>1 DEF Node
                <5>2. c # None
                    BY <1>1, BlockSyncAssumption
                <5> HIDE DEF keys
                <5>3. [keys EXCEPT ![k] = IF @ = None THEN c ELSE @] = keys
                    BY <3>2, <5>1, <5>2
                <5> QED
                    BY <3>3, <5>3
            <4> HIDE DEF keys
            <4> QED
                BY <1>1, <3>1, <3>3, <3>4, <3>5, <4>1 DEF AskBrief, Node
        <3> HIDE DEF reqs, chains2, keys
        <3> QED
            BY <1>1, <3>1, <3>6, <3>7 DEF Node
    <2> HIDE DEF t
    <2>3. /\ ~ Closed(t, c) /\ h \in Block /\ h # None /\ Climbing(e.hon, t, t.chain[c])
          /\ Unknown(t.chain[c]) = h
        BY <1>1, <1>3, BlockSyncAssumption DEF Closed, Climbing
    <2> HIDE DEF h
    <2>4. Joins(e, t, AskBrief(t, h, c), None, c)
        BY <1>2, <2>3, AskBriefJoins
    <2>5. Sound(e, AskBrief(t, h, c), None, {c} \ {c})
        BY <1>2, <2>4, JoinSound
    <2> QED
        BY <1>2, <2>1, <2>2, <2>5
<1> QED
    BY <1>4, <1>5, <1>6

LEMMA DoBriefChain ==
    ASSUME NEW e, NEW s, Sound(e, s, None, {}), NEW ch, Announcing(e.hon, e.mp, s, ch),
           Free(s) # {}
    PROVE  Sound(e, do_brief_chain(s, ch), None, {})
<1> DEFINE k == Key[ch.m_peer]
           u == IF s.m_chains_by_peer_key[k] = None THEN s ELSE Detach(s, k)
<1>1. ch \in Chain /\ k \in Keys /\ ch.m_peer \in e.mp \cup s.closed /\ Climbing(e.hon, s, ch)
    BY DEF Announcing, Climbing, Chain, Keys
<1> HIDE DEF k
<1>2. /\ Sound(e, u, None, {}) /\ u.m_chains_by_peer_key[k] = None
      /\ u.made = s.made /\ u.closed = s.closed /\ u.chain = s.chain
    <2>1. CASE s.m_chains_by_peer_key[k] = None
        BY <2>1
    <2>2. CASE s.m_chains_by_peer_key[k] # None
        BY <1>1, <2>2, DetachIs
    <2> QED
        BY <2>1, <2>2
<1>3. do_brief_chain(s, ch) = s \/ do_brief_chain(s, ch) = ClimbFirst(u, ch)
    BY DEF do_brief_chain, k
<1> HIDE DEF u
<1>4. Sound(e, ClimbFirst(u, ch), None, {})
    <2>1. CASE u.exited \/ ch.m_peer \in u.closed
        BY <1>2, <2>1 DEF ClimbFirst
    <2>2. CASE ~ (u.exited \/ ch.m_peer \in u.closed)
        <3> DEFINE c == CHOOSE c \in Free(u) : TRUE
                   up == Climb(u, ch)
                   to == up.chain
                   end == up.end
        <3>1. c \in Free(u)
            BY <1>2 DEF Free
        <3>2. ClimbFirst(u, ch) = Start(u, c, end, to)
            BY <2>2 DEF ClimbFirst, AfterFirstClimb
        <3>3. Base(e, u) /\ Climbing(e.hon, u, ch)
            BY <1>1, <1>2 DEF Sound, Climbing
        <3>4. /\ Climbing(e.hon, u, to) /\ to.m_peer = ch.m_peer /\ Unknown(to) \in Block
              /\ \/ end = "height" /\ Hurt(u)
                 \/ end = "work" /\ ch.m_peer \notin e.hon
                 \/ end = "known" /\ Grounded(e.hon, u, to)
                 \/ end = "ask" /\ ~ IsPending(u, Unknown(to))
            BY <3>3, ClimbIs
        <3> HIDE DEF c, up, to, end
        <3>5. Begins(e, u, c, to)
            BY <1>1, <1>2, <2>2, <3>1, <3>4 DEF Begins, k, Climbing
        <3>6. \/ end = "height" /\ Hurt(u)
              \/ end = "work" /\ to.m_peer \notin e.hon
              \/ end = "known" /\ Grounded(e.hon, u, to)
              \/ end = "ask" /\ ~ IsPending(u, Unknown(to))
            BY <3>4
        <3>7. Sound(e, Start(u, c, end, to), None, {})
            BY <3>4, <3>5, <3>6, StartIs
        <3> QED
            BY <3>2, <3>7
    <2> QED
        BY <2>1, <2>2
<1> QED
    BY <1>3, <1>4

More(e, b) ==
    [hon |-> e.hon, mp |-> e.mp, doubled |-> e.doubled, closed |-> e.closed,
     heard |-> e.heard \cup {b}]

\* What is sound stays so from a later point of view.
LEMMA MoreIs ==
    ASSUME NEW e, NEW s, NEW x, NEW rest, NEW b
    PROVE  /\ Sound(e, s, x, rest) /\ s.made[b] > 0 => Sound(More(e, b), s, x, rest)
           /\ Sound(More(e, b), s, x, rest) => Sound(e, s, x, rest) /\ s.made[b] > 0
<1> DEFINE f == More(e, b)
<1>1. /\ f.hon = e.hon /\ f.mp = e.mp /\ f.doubled = e.doubled /\ f.closed = e.closed
      /\ f.heard = e.heard \cup {b}
    BY DEF More
<1> HIDE DEF f
<1>2. Content(f, s, x) = Content(e, s, x)
    BY <1>1 DEF Content
<1>3. /\ \A c : Held(f, s, c) = Held(e, s, c) /\ Placed(f, s, x, c) = Placed(e, s, x, c)
      /\ \A r : Neat(f, s, r) = Neat(e, s, r)
      /\ Apart(f) = Apart(e)
    BY <1>1 DEF Held, Dead, Placed, Neat, Apart, Single
<1>4. Tidy(f, s, x, rest) = Tidy(e, s, x, rest)
    BY <1>1, <1>3 DEF Tidy
<1>5. Base(e, s) /\ s.made[b] > 0 => Base(f, s)
    BY <1>1 DEF Base
<1>6. Base(f, s) => Base(e, s) /\ s.made[b] > 0
    BY <1>1 DEF Base
<1> QED
    BY <1>2, <1>4, <1>5, <1>6 DEF Sound, f

LEMMA AnewIs ==
    ASSUME NEW e, NEW s, Sound(e, s, None, {})
    PROVE  Sound(Around(e.hon, e.mp, e.doubled, s), s, None, {})
<1> DEFINE f == Around(e.hon, e.mp, e.doubled, s)
<1>1. /\ f.hon = e.hon /\ f.mp = e.mp /\ f.doubled = e.doubled /\ f.closed = s.closed
      /\ f.heard = {b \in Block : s.made[b] > 0}
    BY DEF Around
<1> HIDE DEF f
<1>2. Content(f, s, None)
    BY <1>1 DEF Content, Sound
<1>3. /\ \A c : Held(f, s, c) = Held(e, s, c) /\ Placed(f, s, None, c) = Placed(e, s, None, c)
      /\ \A r : Neat(f, s, r) = Neat(e, s, r)
      /\ Apart(f) = Apart(e)
    BY <1>1 DEF Held, Dead, Placed, Neat, Apart, Single
<1>4. Tidy(f, s, None, {})
    BY <1>1, <1>3 DEF Tidy, Sound
<1>5. Base(f, s)
    BY <1>1 DEF Base, Sound
<1> QED
    BY <1>2, <1>4, <1>5 DEF Sound, f

\* A new header is kept.
LEMMA AddPendingIs ==
    ASSUME NEW e, NEW s, Sound(e, s, None, {}), NEW b \in Block, MaxPending \in Nat
    PROVE  /\ Sound(More(e, b), AddPending(s, b), None, {}) /\ IsPending(AddPending(s, b), b)
           /\ AddPending(s, b).m_blocks = s.m_blocks
<1> DEFINE made == [s.made EXCEPT ![b] = s.made[b] + 1]
           old == s.m_pending_block_hashes
           kept == IF Len(old) > MaxPending THEN Tail(old) ELSE old
           hashes == Append(kept, b)
           t == [s EXCEPT !.made = made, !.m_pending_block_hashes = hashes]
<1>1. s \in Node /\ Base(e, s) /\ Tidy(e, s, None, {}) /\ Content(e, s, None)
    BY DEF Sound, Base
<1>2. AddPending(s, b) = t
    BY <1>1 DEF AddPending, Node
<1>3. /\ made \in [Block -> Nat] /\ made[b] > 0
      /\ \A d \in Block : s.made[d] > 0 => made[d] > 0
    BY <1>1 DEF Node
<1>4. old \in Seq(Block)
    BY <1>1 DEF Node
<1> HIDE DEF old, MaxPending
<1>5. kept \in Seq(Block) /\ \A i \in DOMAIN kept : \E j \in DOMAIN old : kept[i] = old[j]
    <2>1. CASE Len(old) > MaxPending
        <3>1. old # <<>>
            BY <1>4, <2>1
        <3>2. Tail(old) \in Seq(Block)
            BY <1>4, <3>1
        <3>3. \A i \in DOMAIN Tail(old) : i + 1 \in DOMAIN old /\ Tail(old)[i] = old[i + 1]
            BY <1>4, <3>1
        <3> QED
            BY <2>1, <3>2, <3>3
    <2>2. CASE ~ Len(old) > MaxPending
        BY <1>4, <2>2
    <2> QED
        BY <2>1, <2>2
<1> HIDE DEF kept
<1>6. /\ hashes \in Seq(Block) /\ Len(kept) + 1 \in DOMAIN hashes /\ hashes[Len(kept) + 1] = b
      /\ \A i \in DOMAIN hashes : hashes[i] = b \/ \E j \in DOMAIN old : hashes[i] = old[j]
    <2>1. hashes \in Seq(Block) /\ Len(kept) + 1 \in DOMAIN hashes /\ hashes[Len(kept) + 1] = b
        BY <1>5
    <2>2. \A i \in DOMAIN hashes : hashes[i] = b \/ (i \in DOMAIN kept /\ hashes[i] = kept[i])
        BY <1>5
    <2> HIDE DEF hashes
    <2> QED
        BY <1>5, <2>1, <2>2
<1> HIDE DEF made, hashes
<1>7. /\ t \in Node /\ t.m_chains_by_peer_key = s.m_chains_by_peer_key
      /\ t.m_blocks = s.m_blocks /\ t.m_most_difficult_block = s.m_most_difficult_block
      /\ t.m_pending_block_hashes = hashes /\ t.made = made
      /\ t.docs = s.docs /\ t.chain = s.chain
      /\ t.m_pending_brief_reqs = s.m_pending_brief_reqs
      /\ t.m_pending_detail_reqs = s.m_pending_detail_reqs
      /\ t.closed = s.closed /\ t.punished = s.punished /\ t.exited = s.exited
    BY <1>1, <1>3, <1>6 DEF Node
<1> HIDE DEF t
<1>8. IsPending(t, b)
    BY <1>6, <1>7 DEF IsPending, ToSet
<1>9. \A d : IsPending(t, d) => d = b \/ IsPending(s, d)
    BY <1>6, <1>7 DEF IsPending, ToSet, old
<1>10. Base(More(e, b), t)
    <2> DEFINE f == More(e, b)
    <2>1. f.hon = e.hon /\ f.closed = e.closed /\ f.heard = e.heard \cup {b}
        BY DEF More
    <2> HIDE DEF f
    <2>2. Hurt(s) => Hurt(t)
        BY <1>3, <1>7 DEF Hurt, WrongHeight
    <2>3. \A d \in e.heard : made[d] > 0
        <3> SUFFICES ASSUME NEW d \in e.heard PROVE made[d] > 0
            OBVIOUS
        <3>1. s.made[d] > 0
            BY <1>1 DEF Base
        <3>2. CASE d \in Block
            BY <1>3, <3>1, <3>2
        <3>3. CASE d \notin Block
            <4>1. DOMAIN s.made = Block /\ d # b
                BY <1>1, <3>3 DEF Node
            <4> QED
                BY <3>1, <3>3, <4>1 DEF made
        <3> QED
            BY <3>2, <3>3
    <2> QED
        BY <1>1, <1>3, <1>7, <1>9, <2>1, <2>2, <2>3 DEF Base, Rooted, f
<1>11. Content(e, t, None)
    <2>1. \A ch : Climbing(e.hon, s, ch) => Climbing(e.hon, t, ch)
        <3> SUFFICES ASSUME NEW ch, Climbing(e.hon, s, ch) PROVE Climbing(e.hon, t, ch)
            OBVIOUS
        <3>1. \A i \in 1..Len(ch.m_req_blocks) : Hash(ch, i) \in Block
            BY Hashes DEF Climbing
        <3> QED
            BY <1>3, <1>7, <3>1 DEF Climbing
    <2>2. \A h \in Block : h # None => \A c \in Brief(t, h) : Waiting(e.hon, t, c, h)
        BY <1>1, <1>7, <2>1 DEF Content, Waiting, Brief
    <2>3. \A h \in Block : \A c \in Detail(t, h) : Asking(e.hon, t, c, h)
        BY <1>1, <1>7 DEF Content, Asking, Grounded, Detail
    <2> QED
        BY <2>2, <2>3 DEF Content
<1>12. Tidy(e, t, None, {})
    <2>1. \A d : KeyOf(t, d) = KeyOf(s, d) /\ Member(t, None, d) = Member(s, None, d)
                 /\ Placed(e, t, None, d) = Placed(e, s, None, d)
        BY <1>7 DEF KeyOf, Member, Placed, Brief, Detail
    <2>2. /\ \A h \in Block : h # None => Neat(e, t, t.m_pending_brief_reqs[h])
          /\ \A h \in Block : Neat(e, t, t.m_pending_detail_reqs[h])
        BY <1>1, <1>7, <2>1 DEF Tidy, Neat
    <2>3. \A d : Held(e, s, d) => Held(e, t, d)
        BY <1>7, <2>1 DEF Held, Dead
    <2> QED
        BY <1>1, <1>7, <2>1, <2>2, <2>3 DEF Tidy
<1>13. Sound(More(e, b), t, None, {})
    <2> DEFINE f == More(e, b)
    <2>1. f.hon = e.hon /\ f.mp = e.mp /\ f.doubled = e.doubled
        BY DEF More
    <2> HIDE DEF f
    <2>2. Content(f, t, None)
        BY <1>11, <2>1 DEF Content
    <2>3. /\ \A c : Held(f, t, c) = Held(e, t, c) /\ Placed(f, t, None, c) = Placed(e, t, None, c)
          /\ \A r : Neat(f, t, r) = Neat(e, t, r)
          /\ Apart(f) = Apart(e)
        BY <2>1 DEF Held, Dead, Placed, Neat, Apart, Single
    <2>4. Tidy(f, t, None, {})
        BY <1>12, <2>3 DEF Tidy
    <2> QED
        BY <1>10, <2>2, <2>4 DEF Sound, f
<1> QED
    BY <1>2, <1>7, <1>8, <1>13

\* A header is heard of, now or before.
LEMMA HeardIs ==
    ASSUME NEW e, NEW s, Sound(e, s, None, {}), NEW b \in Block, MaxPending \in Nat
    PROVE  Sound(More(e, b), Heard(s, b), None, {})
<1>1. CASE IsPending(s, b)
    <2>1. Heard(s, b) = s
        BY <1>1 DEF Heard
    <2>2. s.made[b] > 0
        BY <1>1 DEF Sound, Base
    <2> QED
        BY <2>1, <2>2, MoreIs
<1>2. CASE ~ IsPending(s, b)
    <2> DEFINE t == AddPending(s, b)
               f == More(e, b)
    <2>1. Sound(f, t, None, {}) /\ IsPending(t, b)
        BY AddPendingIs
    <2>2. Heard(s, b) = t \/ Heard(s, b) = finish_brief(t, b)
        BY <1>2 DEF Heard
    <2> HIDE DEF t, f
    <2>3. Sound(f, finish_brief(t, b), None, {})
        BY <2>1, FinishBrief
    <2> QED
        BY <2>1, <2>2, <2>3 DEF f
<1> QED
    BY <1>1, <1>2

\* What a chain says that was just announced.
LEMMA NewChainIs ==
    ASSUME NEW hon, NEW mp, NEW s, s.made \in [Block -> Nat], NEW p \in Peer, p \in mp,
           NEW b \in Block, NEW declared \in Nat, b # Genesis, s.made[b] > 0,
           p \in hon => Truthful(b) /\ declared = Pow[b]
    PROVE  Announcing(hon, mp, s, NewChain(s, p, b, declared)) /\ NewChain(s, p, b, declared) \in Chain
<1> DEFINE pb == <<b, s.made[b]>>
           q == <<pb>>
           ch == NewChain(s, p, b, declared)
<1>1. q \in Seq(PendingBlock) /\ Len(q) = 1 /\ q[1] = pb /\ pb[1] = b /\ q # <<>>
    <2>1. pb \in PendingBlock /\ pb[1] = b
        BY DEF PendingBlock
    <2> HIDE DEF pb
    <2> QED
        BY <2>1
<1>2. Parent[b] \in Block /\ Pow[b] \in Nat /\ Pow[Parent[b]] \in Nat
    BY Numbers
<1>3. /\ ch.m_req_blocks = q /\ ch.m_peer = p /\ ch.m_declared_pow = declared /\ ch.m_start = 0
      /\ ch.m_remain_pow = declared - (Pow[b] - Pow[Parent[b]])
      /\ ch.m_brief_attached = None /\ ch.m_detail_attached = None
    BY DEF NewChain
<1>4. ch \in Chain
    <2> DEFINE r == declared - (Pow[b] - Pow[Parent[b]])
    <2>1. r \in Int
        BY <1>2
    <2> HIDE DEF q, r
    <2>2. ch = [m_peer |-> p, m_req_blocks |-> q,
                m_declared_pow |-> declared, m_remain_pow |-> r, m_start |-> 0,
                m_brief_attached |-> None, m_detail_attached |-> None]
        BY DEF NewChain, q, r
    <2> HIDE DEF ch
    <2> QED
        BY <1>1, <2>1, <2>2 DEF Chain
<1> HIDE DEF ch, q
<1>5. Hash(ch, 1) = b /\ Tip(ch) = b /\ Foot(ch) = b /\ Len(ch.m_req_blocks) = 1
    BY <1>1, <1>3 DEF Hash, Tip, Foot
<1>6. Climbing(hon, s, ch)
    <2>1. Gapless(ch) /\ Loyal(hon, ch)
        BY <1>3, <1>5 DEF Gapless, Loyal
    <2>2. \A i \in 1..Len(ch.m_req_blocks) : Hash(ch, i) # Genesis /\ s.made[Hash(ch, i)] > 0
        BY <1>5
    <2>3. \A i \in 2..Len(ch.m_req_blocks) : Right(Hash(ch, i))
        BY <1>5
    <2> QED
        BY <1>1, <1>3, <1>4, <1>5, <2>1, <2>2, <2>3 DEF Climbing
<1> QED
    BY <1>3, <1>4, <1>6 DEF Announcing, ch

\* A delayed chain waits on while the node goes on.
LEMMA StillAnnouncing ==
    ASSUME NEW hon, NEW mp, NEW s, NEW t, NEW e, e.closed = s.closed,
           e.heard = {b \in Block : s.made[b] > 0}, Base(e, t), NEW ch, Announcing(hon, mp, s, ch)
    PROVE  Announcing(hon, mp, t, ch)
<1>1. \A i \in 1..Len(ch.m_req_blocks) : Hash(ch, i) \in Block /\ s.made[Hash(ch, i)] > 0
    BY Hashes DEF Announcing, Climbing
<1>2. \A i \in 1..Len(ch.m_req_blocks) : t.made[Hash(ch, i)] > 0
    BY <1>1 DEF Base
<1> QED
    BY <1>2 DEF Announcing, Climbing, Base

Now == Around(world.honest, m_peers, doubled, n)

\* A step that leaves the connections alone is right.
Onward ==
    /\ Sound(Now, n', None, {}) /\ delayed' \in Seq(Chain)
    /\ \A i \in DOMAIN delayed' : Announcing(world.honest, m_peers, n', delayed'[i])

LEMMA WorldIs ==
    ASSUME world \in World
    PROVE  /\ MaxPending \in Nat /\ SendNum \in Seq(Nat)
           /\ world.blocks \subseteq Block /\ world.peers \subseteq Peer
           /\ Says \in [Peer -> SUBSET Block]
    BY BlockSyncAssumption DEF MaxPending, SendNum, Says

LEMMA NowIs ==
    ASSUME IInv
    PROVE  /\ Sound(Now, n, None, {}) /\ n \in Node /\ m_peers \subseteq Peer /\ Rooted(n)
           /\ Now.hon = Honest /\ Now.mp = m_peers /\ Now.closed = n.closed
           /\ Now.doubled = doubled
           /\ Now.heard = {b \in Block : n.made[b] > 0}
<1>1. /\ Now.hon = Honest /\ Now.mp = m_peers /\ Now.closed = n.closed
      /\ Now.doubled = doubled
      /\ Now.heard = {b \in Block : n.made[b] > 0}
    BY DEF Now, Around, Honest
<1>2. Sound(Now, n, None, {})
    BY DEF IInv, Now
<1> QED
    BY <1>1, <1>2 DEF Sound, Base, Tidy, Apart

LEMMA DelayedStill ==
    ASSUME IInv, NEW t, Sound(Now, t, None, {})
    PROVE  \A i \in DOMAIN delayed : Announcing(world.honest, m_peers, t, delayed[i])
<1> SUFFICES ASSUME NEW i \in DOMAIN delayed
             PROVE  Announcing(world.honest, m_peers, t, delayed[i])
    OBVIOUS
<1>1. Announcing(world.honest, m_peers, n, delayed[i]) /\ Base(Now, t)
    BY DEF IInv, Sound
<1> QED
    BY <1>1, NowIs, StillAnnouncing

LEMMA OnwardIs ==
    ASSUME IInv, Sound(Now, n', None, {}), UNCHANGED delayed
    PROVE  Onward
<1>1. \A i \in DOMAIN delayed : Announcing(world.honest, m_peers, n', delayed[i])
    BY DelayedStill
<1> QED
    BY <1>1 DEF Onward, IInv

LEMMA TakeUpIs ==
    ASSUME IInv, NEW s, NEW ch \in Chain, Sound(Now, s, None, {}),
           Announcing(world.honest, m_peers, s, ch), TakeUp(s, ch)
    PROVE  Onward
<1>1. Now.hon = world.honest /\ Now.mp = m_peers
    BY NowIs DEF Honest
<1>2. CASE Free(s) # {} /\ n' = Freed(do_brief_chain(s, ch)) /\ UNCHANGED delayed
    <2> DEFINE t == do_brief_chain(s, ch)
    <2>1. Sound(Now, t, None, {})
        BY <1>1, <1>2, DoBriefChain
    <2> HIDE DEF t
    <2>2. Sound(Now, Freed(t), None, {})
        BY <2>1, FreedSound
    <2> QED
        BY <1>2, <2>2, OnwardIs DEF t
<1>3. CASE n' = Freed(s) /\ delayed' = Append(delayed, ch)
    <2>1. Sound(Now, n', None, {}) /\ n'.made = s.made /\ n'.closed = s.closed
        BY <1>3, FreedSound
    <2>2. \A i \in DOMAIN delayed : Announcing(world.honest, m_peers, n', delayed[i])
        BY <2>1, DelayedStill
    <2>3. Announcing(world.honest, m_peers, n', ch)
        BY <2>1 DEF Announcing, Climbing
    <2>4. delayed \in Seq(Chain)
        BY DEF IInv
    <2>5. /\ delayed' \in Seq(Chain)
          /\ \A i \in DOMAIN delayed' : delayed'[i] = ch \/ (i \in DOMAIN delayed /\ delayed'[i] = delayed[i])
        BY <1>3, <2>4
    <2> QED
        BY <2>1, <2>2, <2>3, <2>5 DEF Onward
<1> QED
    BY <1>2, <1>3 DEF TakeUp

\* An honest announcement passes the tests.
LEMMA BadIsNotHonest ==
    ASSUME NEW p, NEW b \in Block, NEW declared, NEW form,
           MayAnnounce(p, b, declared, form), BadBroadcast(b, declared, form)
    PROVE  p \notin Honest
<1> SUFFICES ASSUME p \in Honest PROVE FALSE
    OBVIOUS
<1>1. Truthful(b) /\ declared = Pow[b] /\ form = "ok"
    BY DEF MayAnnounce
<1>2. Verdict[b] = "good"
    BY <1>1, TruthfulIs
<1>3. Pow[b] \in Nat /\ Pow[Parent[b]] \in Nat
    BY Numbers
<1>4. ~ declared < Pow[b] - Pow[Parent[b]]
    BY <1>1, <1>3
<1> QED
    BY <1>1, <1>2, <1>4 DEF BadBroadcast, BadHeader

LEMMA BroadcastStep ==
    ASSUME IInv, NEW p \in Peer, NEW b \in Block, NEW declared \in Nat, NEW form,
           BlockBroadcast(p, b, declared, form)
    PROVE  Onward
<1>1. p \in m_peers /\ MayAnnounce(p, b, declared, form)
    BY DEF BlockBroadcast
<1>2. CASE BadBroadcast(b, declared, form) /\ n' = punish_peer(n, p) /\ UNCHANGED delayed
    <2>1. p \notin Now.hon
        BY <1>1, <1>2, BadIsNotHonest, NowIs
    <2>2. Sound(Now, punish_peer(n, p), None, {})
        BY <2>1, NowIs, PunishSound
    <2> QED
        BY <1>2, <2>2, OnwardIs
<1>3. CASE Fresh(b, declared) /\ Announced(Heard(n, b), p, b, declared)
    <2> DEFINE s == Heard(n, b)
               ch == NewChain(s, p, b, declared)
    <2>1. MaxPending \in Nat
        BY WorldIs DEF IInv
    <2>2. Sound(More(Now, b), s, None, {})
        BY <2>1, NowIs, HeardIs
    <2>3. TakeUp(s, ch)
        BY <1>3 DEF Announced
    <2> HIDE DEF s
    <2>4. Sound(Now, s, None, {}) /\ s.made[b] > 0
        BY <2>2, MoreIs
    <2>5. s.made \in [Block -> Nat]
        BY <2>4 DEF Sound, Base, Node
    <2>6. b # Genesis
        BY <1>3, NowIs DEF Fresh, Rooted
    <2>7. p \in world.honest => Truthful(b) /\ declared = Pow[b]
        BY <1>1 DEF MayAnnounce, Honest
    <2>8. Announcing(world.honest, m_peers, s, ch) /\ ch \in Chain
        BY <1>1, <2>4, <2>5, <2>6, <2>7, NewChainIs
    <2> HIDE DEF ch
    <2> QED
        BY <2>3, <2>4, <2>8, TakeUpIs
<1> QED
    BY <1>2, <1>3 DEF BlockBroadcast

LEMMA DueStep ==
    ASSUME IInv, Due
    PROVE  Onward
<1>1. PICK i \in DOMAIN delayed :
         /\ Free(n) # {} /\ n' = Freed(do_brief_chain(n, delayed[i]))
         /\ delayed' = RemoveAt(delayed, i)
    BY DEF Due
<1> DEFINE ch == delayed[i]
           t == do_brief_chain(n, ch)
<1>2. delayed \in Seq(Chain) /\ Announcing(world.honest, m_peers, n, ch)
    BY DEF IInv
<1> HIDE DEF ch
<1>3. Sound(Now, t, None, {})
    BY <1>1, <1>2, NowIs, DoBriefChain DEF Honest
<1> HIDE DEF t
<1>4. Sound(Now, n', None, {})
    BY <1>1, <1>3, FreedSound DEF t, ch
<1>5. \A j \in DOMAIN delayed : Announcing(world.honest, m_peers, n', delayed[j])
    BY <1>4, DelayedStill
<1>6. i \in 1..Len(delayed) /\ DOMAIN delayed = 1..Len(delayed) /\ Len(delayed) \in Nat
    BY <1>2
<1>7. /\ delayed' \in Seq(Chain) /\ Len(delayed') = Len(delayed) - 1
      /\ \A j \in 1..(Len(delayed) - 1) :
            delayed'[j] = IF j < i THEN delayed[j] ELSE delayed[j + 1]
    BY <1>1, <1>2, <1>6, RemoveAtIs
<1>8. DOMAIN delayed' = 1..(Len(delayed) - 1)
    BY <1>7
<1>9. \A j \in 1..(Len(delayed) - 1) : j \in 1..Len(delayed) /\ j + 1 \in 1..Len(delayed)
    BY <1>6
<1> QED
    BY <1>4, <1>5, <1>6, <1>7, <1>8, <1>9 DEF Onward

LEMMA NoneStep ==
    ASSUME IInv, NEW p \in Peer, NEW h \in Block, BriefRspNone(p, h)
    PROVE  Onward
<1> DEFINE k == Key[p]
           t == Detach(n, k)
<1>1. k \in Keys /\ n.m_chains_by_peer_key[k] # None /\ n' = Freed(t) /\ UNCHANGED delayed
    BY DEF BriefRspNone, Keys
<1> HIDE DEF k
<1>2. Sound(Now, t, None, {})
    BY <1>1, NowIs, DetachIs
<1> HIDE DEF t
<1>3. Sound(Now, n', None, {})
    BY <1>1, <1>2, FreedSound
<1> QED
    BY <1>1, <1>3, OnwardIs

LEMMA AnswerIsNotHonest ==
    ASSUME NEW p, NEW form, MayAnswer(p, form), form = "bad" PROVE p \notin Honest
    BY DEF MayAnswer

\* An honest chain asks for nothing that does not verify.
LEMMA AskedIsGood ==
    ASSUME NEW e, NEW s, Sound(e, s, None, {}), NEW h \in Block, Verdict[h] # "good"
    PROVE  /\ \A c \in Brief(s, h) : s.chain[c].m_peer \notin e.hon
           /\ \A c \in Detail(s, h) : s.chain[c].m_peer \notin e.hon
<1>0. h # None /\ Content(e, s, None)
    BY BlockSyncAssumption DEF Sound
<1>1. ASSUME NEW c \in Brief(s, h), s.chain[c].m_peer \in e.hon PROVE FALSE
    <2> DEFINE ch == s.chain[c]
    <2>1. Climbing(e.hon, s, ch) /\ Unknown(ch) = h
        BY <1>0 DEF Content, Waiting
    <2>2. ch \in Chain /\ Gapless(ch) /\ ch.m_req_blocks # <<>> /\ Truthful(Tip(ch))
        BY <1>1, <2>1 DEF Climbing, Loyal
    <2> HIDE DEF ch
    <2>3. 1 \in 1..Len(ch.m_req_blocks) /\ Foot(ch) = Hash(ch, 1)
        BY <2>2, SomeBlock
    <2>4. Truthful(Parent[Hash(ch, 1)])
        BY <2>2, <2>3, TruthfulBelow
    <2>5. Truthful(h)
        BY <2>1, <2>3, <2>4 DEF Unknown
    <2> QED
        BY <2>5, TruthfulIs
<1>2. ASSUME NEW c \in Detail(s, h), s.chain[c].m_peer \in e.hon PROVE FALSE
    <2> DEFINE ch == s.chain[c]
               j == ch.m_start + 1
    <2>1. Grounded(e.hon, s, ch) /\ Hash(ch, j) = h
        BY <1>0 DEF Content, Asking
    <2>2. ch \in Chain /\ Gapless(ch) /\ Truthful(Tip(ch))
        BY <1>2, <2>1 DEF Grounded, Loyal
    <2> HIDE DEF ch
    <2>3. j \in 1..Len(ch.m_req_blocks)
        BY <2>1, UpToHere
    <2> HIDE DEF j
    <2>4. Truthful(h)
        BY <2>1, <2>2, <2>3, TruthfulBelow
    <2> QED
        BY <2>4, TruthfulIs
<1> QED
    BY <1>1, <1>2

LEMMA BriefStep ==
    ASSUME IInv, NEW p \in Peer, NEW h \in Block, NEW form \in AnswerForm, BriefRsp(p, h, form)
    PROVE  Onward
<1>1. UNCHANGED delayed /\ MayAnswer(p, form)
    BY DEF BriefRsp
<1>2. CASE form = "bad"
    <2> DEFINE t == punish_peer(n, p)
    <2>1. n' = Freed(t)
        BY <1>2 DEF BriefRsp
    <2>2. Sound(Now, t, None, {})
        BY <1>1, <1>2, AnswerIsNotHonest, NowIs, PunishSound
    <2> HIDE DEF t
    <2> QED
        BY <1>1, <2>1, <2>2, FreedSound, OnwardIs
<1>3. CASE form # "bad" /\ BadHeader(h)
    <2> DEFINE t == punish_brief_req(n, h, TRUE)
               M == Brief(n, h)
    <2>1. n' = Freed(t)
        BY <1>3 DEF BriefRsp
    <2>2. Sound(Now, n, h, M) /\ Listed(n, M) /\ Elsewhere(Now, n, h, M, FALSE)
        BY NowIs, TakeBrief
    <2>3. Elsewhere(Now, n, h, M, TRUE) /\ M \subseteq Brief(n, h)
        BY <2>2 DEF Elsewhere
    <2>4. \A c \in M : n.chain[c].m_peer \notin Now.hon
        BY <1>3, NowIs, AskedIsGood DEF BadHeader
    <2>5. Sound(Now, t, None, {})
        BY <2>2, <2>3, <2>4, GiveUpBrief
    <2> HIDE DEF t
    <2> QED
        BY <1>1, <2>1, <2>5, FreedSound, OnwardIs
<1>4. CASE form # "bad" /\ ~ BadHeader(h)
    <2> DEFINE s == AddPending(n, h)
               t == finish_brief(s, h)
    <2>1. n' = Freed(t)
        BY <1>4 DEF BriefRsp
    <2>2. MaxPending \in Nat
        BY WorldIs DEF IInv
    <2>3. Sound(More(Now, h), s, None, {}) /\ IsPending(s, h)
        BY <2>2, NowIs, AddPendingIs
    <2> HIDE DEF s
    <2>4. Sound(Now, s, None, {})
        BY <2>3, MoreIs
    <2>5. Sound(Now, t, None, {})
        BY <2>3, <2>4, FinishBrief
    <2> HIDE DEF t
    <2> QED
        BY <1>1, <2>1, <2>5, FreedSound, OnwardIs
<1> QED
    BY <1>2, <1>3, <1>4

LEMMA DetailStep ==
    ASSUME IInv, NEW p \in Peer, NEW h \in Block, NEW form \in AnswerForm, DetailRsp(p, h, form)
    PROVE  Onward
<1>1. UNCHANGED delayed /\ MayAnswer(p, form)
    BY DEF DetailRsp
<1>2. CASE form = "bad"
    <2> DEFINE t == punish_peer(n, p)
    <2>1. n' = Freed(t)
        BY <1>2 DEF DetailRsp
    <2>2. Sound(Now, t, None, {})
        BY <1>1, <1>2, AnswerIsNotHonest, NowIs, PunishSound
    <2> HIDE DEF t
    <2> QED
        BY <1>1, <2>1, <2>2, FreedSound, OnwardIs
<1>3. CASE form # "bad" /\ BadTxs(h)
    <2> DEFINE t == punish_detail_req(n, h, TRUE)
    <2>1. n' = Freed(t)
        BY <1>3 DEF DetailRsp
    <2>2. \A c \in Detail(n, h) : n.chain[c].m_peer \notin Now.hon
        BY <1>3, NowIs, AskedIsGood DEF BadTxs
    <2>3. Sound(Now, t, None, {})
        BY <2>2, NowIs, GiveUpDetail
    <2> HIDE DEF t
    <2> QED
        BY <1>1, <2>1, <2>3, FreedSound, OnwardIs
<1>4. CASE form # "bad" /\ ~ BadTxs(h)
    <2> DEFINE first == n.chain[FirstChain(n, h)]
               pb == first.m_req_blocks[first.m_start + 1]
               D == n.docs \cup {pb}
               s == [n EXCEPT !.docs = D]
               t == finish_detail(s, h)
    <2>1. n' = Freed(t)
        BY <1>4 DEF DetailRsp
    <2>2. Detail(n, h) # {}
        BY <1>4 DEF DetailRsp, AnswerForm, Detail
    <2>3. FirstChain(n, h) \in Detail(n, h)
        <3> DEFINE M == Detail(n, h)
                   q == InOrder(n, M)
        <3>1. Listed(n, M)
            BY NowIs, TakeDetail
        <3> HIDE DEF M
        <3>2. Lists(q, M)
            BY <3>1, ListedIs
        <3> HIDE DEF q
        <3>3. q[1] \in M
            <4>1. Len(q) \in Nat /\ {q[i] : i \in 1..Len(q)} = M /\ M # {}
                BY <2>2, <3>2 DEF Lists, M
            <4>2. 1 \in 1..Len(q)
                BY <4>1
            <4> QED
                BY <4>1, <4>2
        <3> QED
            BY <3>3 DEF FirstChain, Detail, q, M
    <2>4. Grounded(Now.hon, n, first)
        BY <2>3, NowIs DEF Sound, Content, Asking
    <2>5. pb \in PendingBlock
        BY <2>4, UpToHere
    <2> HIDE DEF pb
    <2>6. D \in SUBSET PendingBlock /\ \A d \in n.docs : d \in D \/ d[1] \in n.m_blocks
        BY <2>5, NowIs DEF Node
    <2>7. pb \in D
        OBVIOUS
    <2> HIDE DEF D
    <2>8. Sound(Now, s, None, {})
        BY <2>6, NowIs, DocsSound
    <2>9. s.docs = D /\ s.chain = n.chain /\ s.m_pending_detail_reqs = n.m_pending_detail_reqs
        BY NowIs DEF Node
    <2> HIDE DEF s
    <2>10. FirstChain(s, h) = FirstChain(n, h) /\ Detail(s, h) = Detail(n, h)
        BY <2>9 DEF FirstChain, InOrder, KeyOf, Detail
    <2>11. s.chain[FirstChain(s, h)].m_req_blocks[s.chain[FirstChain(s, h)].m_start + 1] \in s.docs
        BY <2>7, <2>9, <2>10 DEF pb
    <2>12. Sound(Now, t, None, {})
        BY <2>2, <2>8, <2>10, <2>11, FinishDetail
    <2> HIDE DEF t
    <2> QED
        BY <1>1, <2>1, <2>12, FreedSound, OnwardIs DEF t, s, D, pb
<1> QED
    BY <1>2, <1>3, <1>4

LEMMA RetryStep ==
    ASSUME IInv, NEW h \in Block, RetryBrief(h) \/ RetryDetail(h)
    PROVE  Onward
<1>1. Sound(Now, n, None, {}) /\ SendNum \in Seq(Nat)
    BY NowIs, WorldIs DEF IInv
<1>2. CASE RetryBrief(h)
    <2> DEFINE r == n.m_pending_brief_reqs[h]
               next == [r EXCEPT !.m_try_num = @ + 1]
               done == Repeat(n, next, Closed)
               t1 == [n EXCEPT !.m_pending_brief_reqs[h] = NoRequest]
               t2 == punish_brief_req(n, h, FALSE)
               t3 == [done.s EXCEPT !.m_pending_brief_reqs[h] = done.r]
               t == IF r.m_chains = {} THEN t1 ELSE IF next.m_try_num > Len(SendNum) THEN t2 ELSE t3
    <2>1. /\ r.m_chains = {} => Sound(Now, t1, None, {})
          /\ Sound(Now, t2, None, {})
          /\ ~ next.m_try_num > Len(SendNum) => Sound(Now, t3, None, {})
        BY <1>1, RetryBriefIs
    <2>2. n' = Freed(t) /\ UNCHANGED delayed
        BY <1>2 DEF RetryBrief
    <2> HIDE DEF t1, t2, t3, r, next
    <2>3. Sound(Now, t, None, {})
        BY <2>1
    <2> HIDE DEF t
    <2>4. Sound(Now, n', None, {})
        BY <2>2, <2>3, FreedSound
    <2> QED
        BY <2>2, <2>4, OnwardIs
<1>3. CASE RetryDetail(h)
    <2> DEFINE r == n.m_pending_detail_reqs[h]
               next == [r EXCEPT !.m_try_num = @ + 1]
               done == Repeat(n, next, Useless)
               t1 == [n EXCEPT !.m_pending_detail_reqs[h] = NoRequest]
               t2 == punish_detail_req(n, h, FALSE)
               t3 == [done.s EXCEPT !.m_pending_detail_reqs[h] = done.r]
               t == IF r.m_chains = {} THEN t1 ELSE IF next.m_try_num > Len(SendNum) THEN t2 ELSE t3
    <2>1. /\ r.m_chains = {} => Sound(Now, t1, None, {})
          /\ Sound(Now, t2, None, {})
          /\ ~ next.m_try_num > Len(SendNum) => Sound(Now, t3, None, {})
        BY <1>1, RetryDetailIs
    <2>2. n' = Freed(t) /\ UNCHANGED delayed
        BY <1>3 DEF RetryDetail
    <2> HIDE DEF t1, t2, t3, r, next
    <2>3. Sound(Now, t, None, {})
        BY <2>1
    <2> HIDE DEF t
    <2>4. Sound(Now, n', None, {})
        BY <2>2, <2>3, FreedSound
    <2> QED
        BY <2>2, <2>4, OnwardIs
<1> QED
    BY <1>2, <1>3

LEMMA MinedStep ==
    ASSUME IInv, NEW b \in Block, MinedNewBlock(b)
    PROVE  Onward
<1> DEFINE B == n.m_blocks \cup {b}
<1>1. /\ b \in Own /\ Parent[b] \in n.m_blocks /\ UNCHANGED delayed
      /\ n' = [n EXCEPT !.m_blocks = B, !.m_most_difficult_block = b]
    BY DEF MinedNewBlock
<1>2. Id[b] > 0
    <2>1. Id[b] = Id[Parent[b]] + 1 /\ Id[Parent[b]] \in Nat
        BY <1>1, Numbers, BlockSyncAssumption
    <2> QED
        BY <2>1
<1>3. /\ B \in SUBSET Block /\ b \in B /\ n.m_blocks \subseteq B
      /\ \A d \in B : d # Genesis => Parent[d] \in B /\ Id[d] > 0
      /\ n.docs \in SUBSET PendingBlock
    BY <1>1, <1>2, NowIs DEF Rooted, Node
<1> DEFINE D == n.docs
<1>4. \A pb \in n.docs : pb \in D \/ pb[1] \in B
    OBVIOUS
<1>5. n' = [n EXCEPT !.m_blocks = B, !.m_most_difficult_block = b, !.docs = D]
    BY <1>1, NowIs DEF Node
<1>6. D \in SUBSET PendingBlock
    BY <1>3
<1> HIDE DEF B, D
<1>7. Sound(Now, n', None, {})
    BY <1>3, <1>4, <1>5, <1>6, NowIs, Grow
<1> QED
    BY <1>1, <1>7, OnwardIs

\* After a step that leaves the connections alone the invariant holds anew.
LEMMA Renewed ==
    ASSUME IInv, Onward, m_peers' = m_peers, doubled' = doubled, world' = world
    PROVE  IInv'
<1>1. Sound(Around(world.honest, m_peers, doubled, n'), n', None, {})
    <2>1. Now.hon = world.honest /\ Now.mp = m_peers /\ Now.doubled = doubled
        BY NowIs DEF Honest
    <2> QED
        BY <2>1, AnewIs DEF Onward
<1> QED
    BY <1>1 DEF IInv, Onward

\* Connections come and go: what is known when the one of e are those of f.
LEMMA OtherPeers ==
    ASSUME NEW e, NEW s, Sound(e, s, None, {}), NEW mp, NEW dbl, NEW f,
           f = Around(e.hon, mp, dbl, s), mp \subseteq Peer,
           e.closed = s.closed, e.heard = {b \in Block : s.made[b] > 0},
           e.mp \subseteq mp \cup s.closed,
           \/ ~ Single(f)
           \/ /\ Single(e)
              /\ \A p, q \in mp : Key[p] = Key[q] => p = q
              /\ \A p \in mp \ e.mp, q \in s.punished : Key[p] # Key[q]
    PROVE  Sound(f, s, None, {})
<1>1. /\ f.hon = e.hon /\ f.mp = mp /\ f.doubled = dbl /\ f.closed = s.closed
      /\ f.heard = {b \in Block : s.made[b] > 0}
    BY DEF Around
<1>2. Base(e, s) /\ Content(e, s, None) /\ Tidy(e, s, None, {}) /\ s \in Node
    BY DEF Sound, Base
<1> HIDE DEF Around
<1>3. Base(f, s) /\ Content(f, s, None)
    BY <1>1, <1>2 DEF Base, Content
<1>4. ASSUME NEW c \in ChainId, Held(e, s, c) PROVE Held(f, s, c)
    <2>1. CASE Single(f)
        <3>1. Single(e) /\ \A p \in mp \ e.mp, q \in s.punished : Key[p] # Key[q]
            BY <2>1
        <3>2. Dead(e, s, c) => Dead(f, s, c)
            BY <1>1, <1>2, <3>1 DEF Dead, KeyOf
        <3> QED
            BY <1>1, <1>4, <3>1, <3>2 DEF Held
    <2>2. CASE ~ Single(f)
        BY <1>1, <1>4, <2>2 DEF Held
    <2> QED
        BY <2>1, <2>2
<1>5. Apart(f)
    BY <1>1 DEF Apart
<1>6. ASSUME NEW r \in Request, Neat(e, s, r), \A c \in r.m_chains : s.chain[c] \in Chain
      PROVE  Neat(f, s, r)
    BY <1>6 DEF Neat
<1>7. ASSUME NEW c, Placed(e, s, None, c), \A d \in ChainId : Member(s, None, d) => s.chain[d] \in Chain,
             c \in ChainId
      PROVE  Placed(f, s, None, c)
    <2>1. CASE Single(f)
        BY <1>7, <2>1 DEF Placed
    <2>2. CASE ~ Single(f) /\ Single(e)
        BY <1>7, <2>2, BlockSyncAssumption DEF Placed, Member
    <2>3. CASE ~ Single(f) /\ ~ Single(e)
        BY <1>7, <2>3 DEF Placed
    <2> QED
        BY <2>1, <2>2, <2>3
<1>8. \A d \in ChainId : Member(s, None, d) => s.chain[d] \in Chain
    BY <1>2 DEF Tidy, Held
<1>9. \A h \in Block : /\ s.m_pending_brief_reqs[h] \in Request /\ s.m_pending_detail_reqs[h] \in Request
                       /\ h # None
    BY <1>2, BlockSyncAssumption DEF Node
<1>10. \A h \in Block : /\ \A c \in Brief(s, h) : s.chain[c] \in Chain
                        /\ \A c \in Detail(s, h) : s.chain[c] \in Chain
    BY <1>8, <1>9 DEF Member, Brief, Detail, Request
<1>11. \A h \in Block : Neat(f, s, s.m_pending_brief_reqs[h]) /\ Neat(f, s, s.m_pending_detail_reqs[h])
    BY <1>2, <1>6, <1>9, <1>10 DEF Tidy, Brief, Detail
<1>12. ASSUME NEW k \in Keys, s.m_chains_by_peer_key[k] # None
       PROVE  /\ KeyOf(s, s.m_chains_by_peer_key[k]) = k
              /\ Placed(f, s, None, s.m_chains_by_peer_key[k])
    <2>1. s.m_chains_by_peer_key[k] \in ChainId
        BY <1>2, <1>12 DEF Node
    <2>2. KeyOf(s, s.m_chains_by_peer_key[k]) = k /\ Placed(e, s, None, s.m_chains_by_peer_key[k])
        BY <1>2, <1>12 DEF Tidy
    <2> QED
        BY <1>7, <1>8, <2>1, <2>2
<1>13. Tidy(f, s, None, {})
    BY <1>2, <1>4, <1>5, <1>11, <1>12 DEF Tidy
<1> QED
    BY <1>3, <1>13 DEF Sound

LEMMA RegisterStep ==
    ASSUME IInv, NEW p \in Peer, Register(p), world' = world
    PROVE  IInv'
<1> DEFINE mp == m_peers \cup {p}
           dbl == IF Doubles(p) THEN doubled \cup {Key[p]} ELSE doubled
           f == Around(world.honest, mp, dbl, n)
<1>1. m_peers' = mp /\ n' = n /\ delayed' = delayed /\ doubled' = dbl
    BY DEF Register
<1>2. /\ Sound(Now, n, None, {}) /\ Now.hon = world.honest /\ Now.mp = m_peers
      /\ Now.closed = n.closed /\ Now.doubled = doubled /\ m_peers \subseteq Peer
      /\ Now.heard = {b \in Block : n.made[b] > 0}
    BY NowIs DEF Honest
<1>3. dbl \subseteq Keys /\ doubled \subseteq dbl
    BY DEF IInv, Keys
<1>4. f.doubled = dbl
    BY DEF Around
<1>5. mp \subseteq Peer /\ m_peers \subseteq mp
    BY <1>2
<1>6. ASSUME Single(f) PROVE Sound(f, n, None, {})
    <2>1. Single(Now) /\ ~ Doubles(p)
        BY <1>2, <1>4, <1>6 DEF Single
    <2>2. \A q \in m_peers \cup n.punished : Key[p] # Key[q]
        BY <2>1 DEF Doubles
    <2>3. \A q, r \in m_peers : Key[q] = Key[r] => q = r
        BY <1>2, <2>1 DEF Sound, Tidy, Apart
    <2>4. /\ \A q, r \in mp : Key[q] = Key[r] => q = r
          /\ \A q \in mp \ m_peers, r \in n.punished : Key[q] # Key[r]
        BY <2>2, <2>3
    <2> HIDE DEF dbl, mp, f
    <2> QED
        BY <1>2, <1>5, <2>1, <2>4, OtherPeers DEF f
<1>7. ASSUME ~ Single(f) PROVE Sound(f, n, None, {})
    <2> HIDE DEF dbl, mp, f
    <2> QED
        BY <1>2, <1>5, <1>7, OtherPeers DEF f
<1>8. Sound(f, n, None, {})
    BY <1>6, <1>7
<1>9. \A i \in DOMAIN delayed : Announcing(world.honest, mp, n, delayed[i])
    BY DEF IInv, Announcing
<1> HIDE DEF dbl, mp
<1> QED
    BY <1>1, <1>3, <1>8, <1>9 DEF IInv

LEMMA RemovedStep ==
    ASSUME IInv, NEW p \in Peer, Removed(p), doubled' = doubled, world' = world
    PROVE  IInv'
<1> DEFINE mp == m_peers \ {p}
           f == Around(world.honest, mp, doubled, n)
<1>1. m_peers' = mp /\ n' = n /\ delayed' = delayed /\ p \in n.closed
    BY DEF Removed
<1>2. /\ Sound(Now, n, None, {}) /\ Now.hon = world.honest /\ Now.mp = m_peers
      /\ Now.closed = n.closed /\ Now.doubled = doubled /\ m_peers \subseteq Peer
      /\ Now.heard = {b \in Block : n.made[b] > 0}
    BY NowIs DEF Honest
<1>3. f.doubled = doubled
    BY DEF Around
<1>4. Single(f) = Single(Now)
    BY <1>2, <1>3 DEF Single
<1>5. Single(Now) => \A q, r \in mp : Key[q] = Key[r] => q = r
    BY <1>2 DEF Sound, Tidy, Apart
<1> HIDE DEF f
<1>6. Sound(f, n, None, {})
    BY <1>1, <1>2, <1>4, <1>5, OtherPeers DEF f
<1>7. \A i \in DOMAIN delayed : Announcing(world.honest, mp, n, delayed[i])
    BY <1>1 DEF IInv, Announcing
<1> QED
    BY <1>1, <1>6, <1>7 DEF IInv, f

LEMMA DisconnectStep ==
    ASSUME IInv, NEW p \in Peer, Disconnect(p), doubled' = doubled, world' = world
    PROVE  IInv'
<1> DEFINE closed == n.closed \cup {p}
           t == [n EXCEPT !.closed = closed]
<1>1. m_peers' = m_peers /\ n' = t /\ delayed' = delayed
    BY NowIs DEF Disconnect, Node
<1>2. /\ Sound(Now, n, None, {}) /\ n \in Node
      /\ Now.mp = m_peers /\ Now.closed = n.closed
    BY NowIs
<1>3. closed \in SUBSET Peer /\ n.closed \subseteq closed
    BY <1>2 DEF Node
<1> HIDE DEF closed
<1>4. /\ t \in Node /\ t.m_chains_by_peer_key = n.m_chains_by_peer_key
      /\ t.m_blocks = n.m_blocks /\ t.m_most_difficult_block = n.m_most_difficult_block
      /\ t.m_pending_block_hashes = n.m_pending_block_hashes /\ t.made = n.made
      /\ t.docs = n.docs /\ t.chain = n.chain
      /\ t.m_pending_brief_reqs = n.m_pending_brief_reqs
      /\ t.m_pending_detail_reqs = n.m_pending_detail_reqs
      /\ t.closed = closed /\ t.punished = n.punished /\ t.exited = n.exited
    BY <1>2, <1>3 DEF Node
<1> HIDE DEF t
<1>5. Base(Now, t)
    BY <1>2, <1>3, <1>4 DEF Sound, Base, IsPending, Hurt, Rooted
<1>6. Content(Now, t, None)
    <2>1. \A h \in Block : h # None => \A c \in Brief(t, h) : Waiting(Now.hon, t, c, h)
        BY <1>2, <1>4 DEF Sound, Content, Waiting, Climbing, Brief
    <2>2. \A h \in Block : \A c \in Detail(t, h) : Asking(Now.hon, t, c, h)
        BY <1>2, <1>4 DEF Sound, Content, Asking, Grounded, Detail
    <2> QED
        BY <2>1, <2>2 DEF Content
<1>7. Tidy(Now, t, None, {})
    <2>1. \A d : KeyOf(t, d) = KeyOf(n, d) /\ Member(t, None, d) = Member(n, None, d)
                 /\ Placed(Now, t, None, d) = Placed(Now, n, None, d)
        BY <1>4 DEF KeyOf, Member, Placed, Brief, Detail
    <2>2. /\ \A h \in Block : h # None => Neat(Now, t, t.m_pending_brief_reqs[h])
          /\ \A h \in Block : Neat(Now, t, t.m_pending_detail_reqs[h])
        BY <1>2, <1>4, <2>1 DEF Sound, Tidy, Neat
    <2>3. \A d : Held(Now, n, d) => Held(Now, t, d)
        BY <1>3, <1>4, <2>1 DEF Held, Dead
    <2> QED
        BY <1>2, <1>4, <2>1, <2>2, <2>3 DEF Sound, Tidy
<1>8. Sound(Now, t, None, {})
    BY <1>5, <1>6, <1>7 DEF Sound
<1>9. Sound(Now, n', None, {}) /\ UNCHANGED delayed
    BY <1>1, <1>8
<1> QED
    BY <1>1, <1>9, OnwardIs, Renewed

----------------------------------------------------------------------------
(* The invariant.                                                          *)

\* The node begins with genesis alone.
LEMMA InitIs == ASSUME Init PROVE IInv
<1> DEFINE e == Around(world.honest, {}, {}, n)
<1>1. world \in World /\ m_peers = {} /\ delayed = <<>> /\ doubled = {}
    BY DEF Init
<1>2. /\ n.m_blocks = {Genesis} /\ n.m_most_difficult_block = Genesis
      /\ n.m_pending_block_hashes = <<>> /\ n.made = [b \in Block |-> 0] /\ n.docs = {}
      /\ n.chain = [c \in ChainId |-> NoChain]
      /\ n.m_chains_by_peer_key = [k \in Keys |-> None]
      /\ n.m_pending_brief_reqs = [b \in Block |-> NoRequest]
      /\ n.m_pending_detail_reqs = [b \in Block |-> NoRequest]
      /\ n.closed = {} /\ n.punished = {} /\ n.exited = FALSE
    BY DEF Init
<1>3. NoRequest \in Request /\ NoRequest.m_chains = {} /\ Neat(e, n, NoRequest)
    BY NoRequestIs
<1>4. n \in Node
    <2>1. <<>> \in Seq(Block)
        OBVIOUS
    <2> HIDE DEF e
    <2> QED
        BY <1>3, <2>1, BlockSyncAssumption DEF Init, Node
<1>5. e.hon = world.honest /\ e.mp = {} /\ e.closed = {} /\ e.heard = {}
    <2>1. e.heard = {b \in Block : n.made[b] > 0}
        BY DEF Around
    <2>2. \A b \in Block : n.made[b] = 0
        BY <1>2
    <2>3. e.heard = {}
        BY <2>1, <2>2
    <2> QED
        BY <1>2, <2>3 DEF Around
<1> HIDE DEF e
<1>6. Base(e, n)
    <2>1. DOMAIN <<>> = {}
        OBVIOUS
    <2>2. \A b \in Block : ~ IsPending(n, b)
        BY <1>2, <2>1 DEF IsPending, ToSet
    <2>3. Rooted(n)
        BY <1>2 DEF Rooted
    <2> QED
        BY <1>2, <1>4, <1>5, <2>2, <2>3 DEF Base
<1>7. \A h \in Block : /\ n.m_pending_brief_reqs[h] = NoRequest /\ n.m_pending_detail_reqs[h] = NoRequest
                       /\ Brief(n, h) = {} /\ Detail(n, h) = {}
    BY <1>2, <1>3 DEF Brief, Detail
<1>8. Content(e, n, None)
    BY <1>7 DEF Content
<1>9. Tidy(e, n, None, {})
    <2>1. \A k \in Keys : n.m_chains_by_peer_key[k] = None
        BY <1>2
    <2>2. \A d : ~ Member(n, None, d)
        BY <1>7 DEF Member
    <2>3. Apart(e)
        BY <1>5 DEF Apart
    <2> QED
        BY <1>3, <1>5, <1>7, <2>1, <2>2, <2>3 DEF Tidy
<1>10. Sound(e, n, None, {})
    BY <1>6, <1>8, <1>9 DEF Sound
<1>11. delayed \in Seq(Chain) /\ DOMAIN delayed = {}
    BY <1>1
<1> QED
    BY <1>1, <1>10, <1>11 DEF IInv, e

LEMMA MessageStep ==
    ASSUME IInv, NEW p \in Peer, Message(p)
    PROVE  Onward /\ m_peers' = m_peers
<1>1. world.blocks \subseteq Block /\ Says[p] \subseteq Block
    BY WorldIs DEF IInv
<1>2. ASSUME NEW b \in Says[p], NEW lie \in 0..1, NEW form \in BroadcastForm,
             BlockBroadcast(p, b, Pow[b] + lie, form)
      PROVE  Onward /\ m_peers' = m_peers
    <2> DEFINE declared == Pow[b] + lie
    <2>1. b \in Block /\ declared \in Nat
        BY <1>1, Numbers
    <2> HIDE DEF declared
    <2>2. BlockBroadcast(p, b, declared, form)
        BY <1>2 DEF declared
    <2> QED
        BY <2>1, <2>2, BroadcastStep DEF BlockBroadcast
<1>3. ASSUME NEW h \in world.blocks, BriefRspNone(p, h) PROVE Onward /\ m_peers' = m_peers
    BY <1>1, <1>3, NoneStep DEF BriefRspNone
<1>4. ASSUME NEW h \in world.blocks, NEW form \in AnswerForm, BriefRsp(p, h, form)
      PROVE  Onward /\ m_peers' = m_peers
    BY <1>1, <1>4, BriefStep DEF BriefRsp
<1>5. ASSUME NEW h \in world.blocks, NEW form \in AnswerForm, DetailRsp(p, h, form)
      PROVE  Onward /\ m_peers' = m_peers
    BY <1>1, <1>5, DetailStep DEF DetailRsp
<1> QED
    BY <1>2, <1>3, <1>4, <1>5 DEF Message

LEMMA NextIs == ASSUME IInv, Next PROVE IInv'
<1>1. world' = world
    BY DEF Next
<1>2. ASSUME NEW p \in Peer, Register(p) PROVE IInv'
    BY <1>1, <1>2, RegisterStep
<1>3. ASSUME doubled' = doubled,
             \/ \E p \in Peer : Message(p) \/ Disconnect(p) \/ Removed(p)
             \/ \E h \in Block : RetryBrief(h) \/ RetryDetail(h) \/ MinedNewBlock(h)
             \/ Due
      PROVE  IInv'
    <2>1. ASSUME NEW p \in Peer, Message(p) PROVE IInv'
        BY <1>1, <1>3, <2>1, MessageStep, Renewed
    <2>2. ASSUME NEW p \in Peer, Disconnect(p) PROVE IInv'
        BY <1>1, <1>3, <2>2, DisconnectStep
    <2>3. ASSUME NEW p \in Peer, Removed(p) PROVE IInv'
        BY <1>1, <1>3, <2>3, RemovedStep
    <2>4. ASSUME NEW h \in Block, RetryBrief(h) \/ RetryDetail(h) PROVE IInv'
        BY <1>1, <1>3, <2>4, RetryStep, Renewed DEF RetryBrief, RetryDetail
    <2>5. ASSUME NEW h \in Block, MinedNewBlock(h) PROVE IInv'
        BY <1>1, <1>3, <2>5, MinedStep, Renewed DEF MinedNewBlock
    <2>6. CASE Due
        BY <1>1, <1>3, <2>6, DueStep, Renewed DEF Due
    <2> QED
        BY <1>3, <2>1, <2>2, <2>3, <2>4, <2>5, <2>6
<1> QED
    BY <1>2, <1>3 DEF Next

\* What is asked for, and by whom, is always as the handlers take it to be.
THEOREM Invariance == Spec => []IInv
<1>1. Init => IInv
    BY InitIs
<1>2. IInv /\ [Next]_vars => IInv'
    <2> SUFFICES ASSUME IInv, [Next]_vars PROVE IInv'
        OBVIOUS
    <2>1. CASE Next
        BY <2>1, NextIs
    <2>2. CASE UNCHANGED vars
        BY <2>2 DEF vars, IInv
    <2> QED
        BY <2>1, <2>2
<1> QED
    BY <1>1, <1>2, PTL DEF Spec

----------------------------------------------------------------------------
(* What follows from it.                                                   *)

\* The data of the message thread always has its types.
THEOREM TypeCorrect == Spec => []TypeOK
<1>1. IInv => TypeOK
    BY DEF IInv, Sound, Base, Tidy, Apart, Around, TypeOK
<1> QED
    BY <1>1, Invariance, PTL

\* No handler reaches the exit for a chain that is attached to nothing, and
\* none reads a block whose document is gone.
THEOREM NeverAnExit == Spec => []NeverExits
<1>1. IInv => NeverExits
    BY DEF IInv, Sound, Base, NeverExits
<1> QED
    BY <1>1, Invariance, PTL

\* As long as no key has stood for two connections, the chain of a key is in the
\* one request that it names.
THEOREM AlwaysAttached == Spec => [](doubled = {} => AttachedWhereItSays)
<1>1. ASSUME IInv, doubled = {} PROVE AttachedWhereItSays
    <2> SUFFICES ASSUME NEW k \in Keys, n.m_chains_by_peer_key[k] # None
                 PROVE  LET c == n.m_chains_by_peer_key[k]
                        IN  /\ KeyOf(n, c) = k
                            /\ {h \in Block : c \in n.m_pending_brief_reqs[h].m_chains}
                                 = {n.chain[c].m_brief_attached} \ {None}
                            /\ {h \in Block : c \in n.m_pending_detail_reqs[h].m_chains}
                                 = IF n.chain[c].m_brief_attached # None THEN {}
                                   ELSE {n.chain[c].m_detail_attached}
        BY DEF AttachedWhereItSays
    <2> DEFINE c == n.m_chains_by_peer_key[k]
               brief == n.chain[c].m_brief_attached
               detail == n.chain[c].m_detail_attached
    <2>1. Tidy(Now, n, None, {}) /\ Content(Now, n, None)
        BY <1>1, NowIs DEF Sound
    <2>2. KeyOf(n, c) = k /\ Placed(Now, n, None, c)
        BY <2>1 DEF Tidy
    <2>3. Single(Now)
        BY <1>1, NowIs DEF Single
    <2>4. \A h \in Block : h # None
        BY BlockSyncAssumption
    <2>5. \A h \in Block : c \in Brief(n, h) => brief = h /\ brief # None
        BY <2>1, <2>4 DEF Content, Waiting
    <2>6. \A h \in Block : c \in Detail(n, h) => brief = None /\ detail = h
        BY <2>1 DEF Content, Asking
    <2>7. IF brief # None THEN brief \in Block /\ c \in Brief(n, brief)
          ELSE detail \in Block /\ c \in Detail(n, detail)
        BY <2>2, <2>3 DEF Placed
    <2> HIDE DEF c, brief, detail
    <2>8. {h \in Block : c \in Brief(n, h)} = {brief} \ {None}
        BY <2>4, <2>5, <2>7
    <2>9. {h \in Block : c \in Detail(n, h)} = IF brief # None THEN {} ELSE {detail}
        BY <2>6, <2>7
    <2> QED
        BY <2>2, <2>8, <2>9 DEF Brief, Detail, c, brief, detail
<1> QED
    BY <1>1, Invariance, PTL

\* A chain that asks for blocks hangs from a known block, without a gap.
THEOREM AlwaysSoundChains == Spec => []ChainIsSound
<1>1. ASSUME IInv PROVE ChainIsSound
    <2> SUFFICES ASSUME NEW h \in Block, NEW c \in Detail(n, h)
                 PROVE  LET ch == n.chain[c]
                            pbs == ch.m_req_blocks
                        IN  /\ Parent[pbs[1][1]] \in n.m_blocks
                            /\ \A i \in 1..(Len(pbs) - 1) : Parent[pbs[i + 1][1]] = pbs[i][1]
                            /\ \A i \in 1..Len(pbs) : pbs[i][1] \notin WrongHeight
                            /\ ch.m_declared_pow = Pow[Last(pbs)[1]]
                            /\ pbs[ch.m_start + 1][1] = h
                            /\ \A i \in 1..ch.m_start : pbs[i][1] \in n.m_blocks \/ pbs[i] \in n.docs
        BY DEF ChainIsSound, Detail
    <2> DEFINE ch == n.chain[c]
    <2>1. Grounded(Now.hon, n, ch) /\ Hash(ch, ch.m_start + 1) = h
        BY <1>1, NowIs DEF Sound, Content, Asking
    <2> HIDE DEF ch
    <2>2. Last(ch.m_req_blocks) = ch.m_req_blocks[Len(ch.m_req_blocks)]
        BY DEF Last
    <2>3. /\ Parent[ch.m_req_blocks[1][1]] \in n.m_blocks
          /\ ch.m_declared_pow = Pow[Last(ch.m_req_blocks)[1]]
          /\ ch.m_req_blocks[ch.m_start + 1][1] = h
        BY <2>1, <2>2 DEF Grounded, Foot, Tip, Hash
    <2>4. \A i \in 1..(Len(ch.m_req_blocks) - 1) :
             Parent[ch.m_req_blocks[i + 1][1]] = ch.m_req_blocks[i][1]
        BY <2>1 DEF Grounded, Gapless, Hash
    <2>5. /\ \A i \in 1..Len(ch.m_req_blocks) : ch.m_req_blocks[i][1] \notin WrongHeight
          /\ \A i \in 1..ch.m_start :
                ch.m_req_blocks[i][1] \in n.m_blocks \/ ch.m_req_blocks[i] \in n.docs
        BY <2>1 DEF Grounded, Right, Hash
    <2> QED
        BY <2>3, <2>4, <2>5 DEF ch
<1> QED
    BY <1>1, Invariance, PTL

\* Only a header of a wrong height hurts a peer that tells the truth.
THEOREM HonestAreSafe == Spec => []OnlyHeightsHurt
<1>1. IInv => OnlyHeightsHurt
    <2> SUFFICES ASSUME IInv PROVE OnlyHeightsHurt
        OBVIOUS
    <2> QED
        BY NowIs DEF Sound, Base, Hurt, OnlyHeightsHurt, HeightHurts
<1> QED
    BY <1>1, Invariance, PTL

\* As long as no key has stood for two connections, a request works for chains
\* that still speak for their key, or whose peer was punished.
THEOREM NeverOrphans == Spec => [](doubled = {} => NoOrphans)
<1>1. ASSUME IInv, doubled = {} PROVE NoOrphans
    <2> SUFFICES ASSUME NEW h \in Block, NEW c \in Brief(n, h) \cup Detail(n, h)
                 PROVE  \/ n.m_chains_by_peer_key[KeyOf(n, c)] = c
                        \/ n.chain[c].m_peer \in n.punished
        BY DEF NoOrphans, Brief, Detail
    <2>1. Held(Now, n, c)
        BY <1>1, NowIs, HeldBetween
    <2>2. Single(Now)
        BY <1>1, NowIs DEF Single
    <2> QED
        BY <2>1, <2>2 DEF Held, Dead
<1> QED
    BY <1>1, Invariance, PTL
=============================================================================
