----------------------------- MODULE FoldFacts -----------------------------
(***************************************************************************)
(* What FoldLeft of the community modules computes, for any operator: the  *)
(* last state of the run that its loop makes over the sequence. A loop of  *)
(* the code that the modules write as a fold is reasoned about through the *)
(* states of this run, one for each turn.                                  *)
(***************************************************************************)
EXTENDS Integers, Sequences, Folds, NaturalsInduction, WellFoundedInduction, TLAPS

CONSTANT op(_, _, _)    \* one turn: context, state and element to the next state

\* FoldLeft, written out: an instance brings along what this module extends.
Greatest(s) == CHOOSE x \in s : \A y \in s : x >= y

Fold(c, base, seq) ==
    MapThenFoldSet(LAMBDA e, s : op(c, s, e), base,
                   LAMBDA i : seq[i],
                   LAMBDA s : Greatest(s),
                   DOMAIN seq)

\* run[i] is the state after i turns.
IsRun(c, base, seq, run) ==
    /\ DOMAIN run = 0 .. Len(seq)
    /\ run[0] = base
    /\ \A i \in 1 .. Len(seq) : run[i] = op(c, run[i - 1], seq[i])

\* Recursion over the subsets of the positions 1 .. n, as the fold does it.
IsFold(c, base, seq, n, g) ==
    g = [s \in SUBSET (1 .. n) |->
            IF s = {} THEN base ELSE op(c, g[s \ {Greatest(s)}], seq[Greatest(s)])]

\* Induction over 0 .. n, for a set in place of a predicate.
THEOREM Induct ==
    ASSUME NEW n \in Nat, NEW T, 0 \in T,
           \A i \in 0 .. n : i \in T /\ i < n => i + 1 \in T
    PROVE  0 .. n \subseteq T
<1> DEFINE I == {i \in 0 .. n : i \notin T}
<1>1. SUFFICES ASSUME I # {} PROVE FALSE
    OBVIOUS
<1>2. IsWellFoundedOn({ss \in Nat \X Nat : ss[1] < ss[2]}, Nat)
    BY NatLessThanWellFounded DEF OpToRel
<1>3. I \subseteq Nat
    OBVIOUS
<1>4. PICK i \in I : \A j \in I : ~ (<<j, i>> \in {ss \in Nat \X Nat : ss[1] < ss[2]})
    <2> HIDE DEF I
    <2> QED
        BY <1>1, <1>2, <1>3, WFMin, Zenon
<1>5. i - 1 \in Nat /\ i - 1 \in 0 .. n /\ i - 1 < n /\ (i - 1) + 1 = i
    OBVIOUS
<1>6. i - 1 \notin I
    <2>1. i - 1 < i /\ i \in Nat
        BY <1>5
    <2>2. <<i - 1, i>> \in {ss \in Nat \X Nat : ss[1] < ss[2]}
        BY <2>1, <1>5
    <2> QED
        BY <1>4, <2>2
<1> QED
    BY <1>5, <1>6

-----------------------------------------------------------------------------
\* The fold begins with the last element.
LEMMA GreatestIs ==
    ASSUME NEW n \in Nat, NEW s \in SUBSET (1 .. n), n \in s
    PROVE  Greatest(s) = n
<1>1. \A x \in s : x \in Int /\ x <= n
    OBVIOUS
<1>2. \A x, y \in s : (\A z \in s : x >= z) /\ (\A z \in s : y >= z) => x = y
    BY <1>1
<1> QED
    BY <1>1, <1>2 DEF Greatest

\* A recursion over the subsets of 1 .. n is one over those of 1 .. n + 1.
LEMMA FoldStep ==
    ASSUME NEW c, NEW base, NEW seq, NEW n \in Nat, NEW g, IsFold(c, base, seq, n, g)
    PROVE  \E h : IsFold(c, base, seq, n + 1, h)
<1> DEFINE h == [s \in SUBSET (1 .. n + 1) |->
                    IF n + 1 \in s THEN op(c, g[s \ {n + 1}], seq[n + 1]) ELSE g[s]]
           Step(s) == IF s = {} THEN base ELSE op(c, h[s \ {Greatest(s)}], seq[Greatest(s)])
<1>1. ASSUME NEW s \in SUBSET (1 .. n + 1) PROVE h[s] = Step(s)
    <2>1. CASE n + 1 \in s
        <3>1. Greatest(s) = n + 1 /\ s # {}
            BY <2>1, GreatestIs
        <3>2. s \ {n + 1} \in SUBSET (1 .. n)
            OBVIOUS
        <3>3. h[s \ {n + 1}] = g[s \ {n + 1}]
            BY <3>2
        <3> QED
            BY <2>1, <3>1, <3>3
    <2>2. CASE n + 1 \notin s
        <3>1. s \in SUBSET (1 .. n)
            BY <2>2
        <3>2. g[s] = IF s = {} THEN base ELSE op(c, g[s \ {Greatest(s)}], seq[Greatest(s)])
            BY <3>1 DEF IsFold
        <3>3. s \ {Greatest(s)} \in SUBSET (1 .. n)
            BY <3>1
        <3>4. h[s \ {Greatest(s)}] = g[s \ {Greatest(s)}]
            BY <3>3
        <3>5. h[s] = g[s]
            BY <2>2
        <3> QED
            BY <3>2, <3>4, <3>5
    <2> QED
        BY <2>1, <2>2
<1>2. h = [s \in SUBSET (1 .. n + 1) |-> Step(s)]
    BY <1>1
<1>3. IsFold(c, base, seq, n + 1, h)
    BY <1>2 DEF IsFold
<1> QED
    BY <1>3

\* The recursion that defines the fold exists.
LEMMA FoldExists ==
    ASSUME NEW c, NEW base, NEW seq, NEW n \in Nat
    PROVE  \E g : IsFold(c, base, seq, n, g)
<1> DEFINE T == {i \in 0 .. n : \E g : IsFold(c, base, seq, i, g)}
<1>1. 0 \in T
    <2> DEFINE g == [s \in SUBSET (1 .. 0) |-> base]
    <2>1. SUBSET (1 .. 0) = {{}}
        OBVIOUS
    <2>2. IsFold(c, base, seq, 0, g)
        BY <2>1 DEF IsFold
    <2> QED
        BY <2>2
<1>2. \A i \in 0 .. n : i \in T /\ i < n => i + 1 \in T
    BY FoldStep
<1> HIDE DEF T
<1>3. 0 .. n \subseteq T
    BY <1>1, <1>2, Induct
<1> QED
    BY <1>3 DEF T

\* A fold is the end of a run.
THEOREM FoldRuns ==
    ASSUME NEW c, NEW base, NEW seq, Len(seq) \in Nat, DOMAIN seq = 1 .. Len(seq)
    PROVE  \E run : IsRun(c, base, seq, run) /\ Fold(c, base, seq) = run[Len(seq)]
<1> DEFINE n == Len(seq)
           iter == CHOOSE g : IsFold(c, base, seq, n, g)
           run == [i \in 0 .. n |-> iter[1 .. i]]
<1>1. IsFold(c, base, seq, n, iter)
    BY FoldExists
<1>2. Fold(c, base, seq) = iter[1 .. n]
    BY DEF Fold, MapThenFoldSet, IsFold
<1> HIDE DEF iter
<1>3. \A s \in SUBSET (1 .. n) :
         iter[s] = IF s = {} THEN base ELSE op(c, iter[s \ {Greatest(s)}], seq[Greatest(s)])
    BY <1>1 DEF IsFold
<1>4. run[0] = base
    <2>1. 1 .. 0 = {} /\ {} \in SUBSET (1 .. n)
        OBVIOUS
    <2>2. iter[{}] = base
        BY <1>3, <2>1
    <2>3. run[0] = iter[1 .. 0]
        OBVIOUS
    <2> QED
        BY <2>1, <2>2, <2>3
<1>5. ASSUME NEW i \in 1 .. n PROVE run[i] = op(c, run[i - 1], seq[i])
    <2>1. 1 .. i \in SUBSET (1 .. n) /\ i \in 1 .. i /\ i \in Nat
        <3>1. i \in Int /\ 1 <= i /\ i <= n /\ n \in Int
            OBVIOUS
        <3> QED
            BY <3>1
    <2>2. Greatest(1 .. i) = i
        BY <2>1, GreatestIs
    <2>3. (1 .. i) \ {i} = 1 .. (i - 1)
        OBVIOUS
    <2>4. iter[1 .. i] = op(c, iter[1 .. (i - 1)], seq[i])
        <3>1. 1 .. i # {}
            BY <2>1
        <3> QED
            BY <1>3, <2>1, <2>2, <2>3, <3>1
    <2> QED
        BY <2>4
<1>6. IsRun(c, base, seq, run)
    BY <1>4, <1>5 DEF IsRun
<1>7. Fold(c, base, seq) = run[n]
    BY <1>2
<1> QED
    BY <1>6, <1>7

\* Two runs over one sequence are one.
LEMMA RunsAgree ==
    ASSUME NEW c, NEW base, NEW seq, Len(seq) \in Nat,
           NEW q, IsRun(c, base, seq, q), NEW r, IsRun(c, base, seq, r)
    PROVE  q[Len(seq)] = r[Len(seq)]
<1> DEFINE n == Len(seq)
           T == {i \in 0 .. n : q[i] = r[i]}
<1>1. 0 \in T
    BY DEF IsRun
<1>2. \A i \in 0 .. n : i \in T /\ i < n => i + 1 \in T
    <2> SUFFICES ASSUME NEW i \in 0 .. n, q[i] = r[i], i < n PROVE q[i + 1] = r[i + 1]
        OBVIOUS
    <2>1. i + 1 \in 1 .. n /\ (i + 1) - 1 = i
        OBVIOUS
    <2> QED
        BY <2>1 DEF IsRun
<1> HIDE DEF T
<1>3. 0 .. n \subseteq T
    BY <1>1, <1>2, Induct
<1>4. n \in 0 .. n
    OBVIOUS
<1> QED
    BY <1>3, <1>4 DEF T

\* The first turn of a loop, and the loop over the rest, t without its first.
THEOREM FoldCons ==
    ASSUME NEW c, NEW base, NEW s, Len(s) \in Nat, DOMAIN s = 1 .. Len(s),
           NEW t, Len(t) = Len(s) + 1, DOMAIN t = 1 .. Len(t),
           \A i \in 1 .. Len(s) : t[i + 1] = s[i]
    PROVE  Fold(c, base, t) = Fold(c, op(c, base, t[1]), s)
<1> DEFINE n == Len(s)
           next == op(c, base, t[1])
<1>1. PICK r : IsRun(c, next, s, r) /\ Fold(c, next, s) = r[n]
    BY FoldRuns
<1>2. PICK q : IsRun(c, base, t, q) /\ Fold(c, base, t) = q[n + 1]
    <2>1. Len(t) \in Nat
        OBVIOUS
    <2> QED
        BY <2>1, FoldRuns
<1> DEFINE p == [i \in 0 .. n |-> q[i + 1]]
<1>3. p[0] = next
    <2>1. 1 \in 1 .. Len(t) /\ 1 - 1 = 0 /\ 0 \in 0 .. n /\ 0 + 1 = 1
        OBVIOUS
    <2>2. q[1] = op(c, q[1 - 1], t[1]) /\ q[0] = base
        BY <1>2, <2>1 DEF IsRun
    <2> QED
        BY <2>1, <2>2
<1>4. ASSUME NEW i \in 1 .. n PROVE p[i] = op(c, p[i - 1], s[i])
    <2>1. /\ i + 1 \in 1 .. Len(t) /\ (i + 1) - 1 = i /\ i - 1 \in 0 .. n
          /\ (i - 1) + 1 = i /\ i \in 0 .. n
        OBVIOUS
    <2>2. q[i + 1] = op(c, q[(i + 1) - 1], t[i + 1])
        BY <1>2, <2>1 DEF IsRun
    <2> QED
        BY <2>1, <2>2
<1>5. IsRun(c, next, s, p)
    BY <1>3, <1>4 DEF IsRun
<1>6. p[n] = r[n]
    <2> HIDE DEF p
    <2> QED
        BY <1>1, <1>5, RunsAgree
<1>7. n \in 0 .. n
    OBVIOUS
<1> QED
    BY <1>1, <1>2, <1>6, <1>7

\* A loop over nothing.
THEOREM FoldNone == ASSUME NEW c, NEW base PROVE Fold(c, base, <<>>) = base
<1>1. Len(<<>>) = 0 /\ DOMAIN <<>> = 1 .. 0
    OBVIOUS
<1>2. PICK r : IsRun(c, base, <<>>, r) /\ Fold(c, base, <<>>) = r[0]
    BY <1>1, FoldRuns
<1> QED
    BY <1>2 DEF IsRun

=============================================================================
