----------------------- MODULE MemoryCompaction_proofs -----------------------
(***************************************************************************)
(* Proofs about journaled compaction of cell memory.                       *)
(***************************************************************************)
EXTENDS MemoryCompaction, WellFoundedInduction, SequenceTheorems, TLAPS

-----------------------------------------------------------------------------
(***************************************************************************)
(* Induction over the numbers up to a bound, with a set in the place of    *)
(* the induction hypothesis.                                               *)
(***************************************************************************)
LEMMA LeastElement ==
    ASSUME NEW T \in SUBSET Nat, T # {}
    PROVE  \E m \in T : \A k \in T : m <= k
    <1> DEFINE R == {ss \in Nat \X Nat : ss[1] < ss[2]}
    <1>1. IsWellFoundedOn(R, Nat)
        BY NatLessThanWellFounded DEF OpToRel
    <1>2. PICK m \in T : \A k \in T : ~ (<<k, m>> \in R)
        <2> HIDE DEF R
        <2>1. QED BY <1>1, WFMin
    <1>3. \A k \in T : ~(k < m)
        BY <1>2
    <1>4. QED BY <1>3

LEMMA Inductive ==
    ASSUME NEW N \in Nat, NEW I, 0 \in I, \A n \in 0..N : n \in I /\ n < N => n + 1 \in I
    PROVE  \A n \in 0..N : n \in I
    <1> SUFFICES ASSUME ~ (0..N \subseteq I) PROVE FALSE
        OBVIOUS
    <1> DEFINE T == (0..N) \ I
    <1>1. PICK m \in T : \A k \in T : m <= k
        <2>1. T \in SUBSET Nat /\ T # {}
            OBVIOUS
        <2> HIDE DEF T
        <2>2. QED BY <2>1, LeastElement
    <1>2. m \in 0..N /\ m \notin I /\ m # 0
        BY <1>1
    <1>3. m - 1 \in 0..N /\ m - 1 \notin T /\ m - 1 < N
        BY <1>1, <1>2
    <1>4. QED BY <1>2, <1>3

LEMMA MaxInSet ==
    ASSUME NEW N \in Nat, NEW S \in SUBSET (1..N), S # {}
    PROVE  Max(S) \in S /\ \A n \in S : n <= Max(S)
    <1> DEFINE U == {n \in Nat : n <= N /\ N - n \in S}
    <1>1. PICK t \in S : TRUE
        OBVIOUS
    <1>2. N - t \in U
        BY <1>1
    <1>3. PICK u \in U : \A n \in U : u <= n
        <2> HIDE DEF U
        <2>1. U \in SUBSET Nat /\ U # {}
            BY <1>2 DEF U
        <2>2. QED BY <2>1, LeastElement
    <1>4. \A k \in S : N - k \in U
        OBVIOUS
    <1>5. \A k \in S : k <= N - u
        BY <1>3, <1>4
    <1>6. \E x \in S : \A y \in S : x >= y
        BY <1>3, <1>5
    <1>7. Max(S) \in S /\ \A y \in S : Max(S) >= y
        BY <1>6 DEF Max
    <1>8. QED BY <1>7

LEMMA MaxOfInterval ==
    ASSUME NEW n \in Nat
    PROVE  Max(1..(n + 1)) = n + 1 /\ (1..(n + 1)) \ {n + 1} = 1..n
    <1>1. /\ Max(1..(n + 1)) \in 1..(n + 1)
          /\ \A k \in 1..(n + 1) : k <= Max(1..(n + 1))
        BY MaxInSet, n + 1 \in Nat, 1..(n + 1) # {}
    <1>2. QED BY <1>1

-----------------------------------------------------------------------------
(***************************************************************************)
(* A fold over the numbers up to n exists, for a step given as a function. *)
(***************************************************************************)
IsFold(g, N, Y, y, F) ==
    /\ g \in [SUBSET (1..N) -> Y]
    /\ \A s \in SUBSET (1..N) : g[s] = IF s = {} THEN y ELSE F[<<Max(s), g[s \ {Max(s)}]>>]

LEMMA FoldExists ==
    ASSUME NEW N \in Nat, NEW Y, NEW y \in Y, NEW F, F \in [(1..N) \X Y -> Y]
    PROVE  \E g : IsFold(g, N, Y, y, F)
    <1> DEFINE Fold(n, g) == \A s \in SUBSET (1..n) :
                 g[s] = IF s = {} THEN y ELSE F[<<Max(s), g[s \ {Max(s)}]>>]
    <1> DEFINE I == {n \in 0..N : \E g \in [SUBSET (1..n) -> Y] : Fold(n, g)}
    <1>1. 0 \in I
        <2>1. [s \in SUBSET (1..0) |-> y] \in [SUBSET (1..0) -> Y]
            OBVIOUS
        <2>2. \A s \in SUBSET (1..0) : s = {}
            OBVIOUS
        <2>3. Fold(0, [s \in SUBSET (1..0) |-> y])
            BY <2>2
        <2> HIDE DEF Fold
        <2>4. QED BY <2>1, <2>3
    <1>2. ASSUME NEW n \in 0..N, n \in I, n < N PROVE n + 1 \in I
        <2>1. PICK g \in [SUBSET (1..n) -> Y] : Fold(n, g)
            BY <1>2
        <2> n \in Nat /\ n + 1 \in 1..N /\ n + 1 \in 0..N
            BY <1>2
        <2> DEFINE h == [s \in SUBSET (1..(n + 1)) |->
                           IF n + 1 \in s THEN F[<<n + 1, g[s \ {n + 1}]>>] ELSE g[s]]
        <2>2. \A s \in SUBSET (1..(n + 1)) : s \ {n + 1} \in SUBSET (1..n)
            OBVIOUS
        <2>3. \A s \in SUBSET (1..n) : s \in SUBSET (1..(n + 1)) /\ n + 1 \notin s
            OBVIOUS
        <2>4. \A s \in SUBSET (1..n) : h[s] = g[s]
            BY <2>3
        <2>5. h \in [SUBSET (1..(n + 1)) -> Y]
            <3>1. ASSUME NEW s \in SUBSET (1..(n + 1)) PROVE h[s] \in Y
                <4>1. CASE n + 1 \in s
                    <5>1. g[s \ {n + 1}] \in Y
                        BY <2>1, <2>2
                    <5>2. <<n + 1, g[s \ {n + 1}]>> \in (1..N) \X Y
                        BY <5>1
                    <5>3. QED BY <4>1, <5>2
                <4>2. CASE n + 1 \notin s
                    <5>1. s \in SUBSET (1..n)
                        BY <4>2, <2>2
                    <5>2. QED BY <4>2, <5>1, <2>1
                <4>3. QED BY <4>1, <4>2
            <3>2. QED BY <3>1
        <2>6. Fold(n + 1, h)
            <3>1. ASSUME NEW s \in SUBSET (1..(n + 1)), s # {}
                  PROVE  h[s] = F[<<Max(s), h[s \ {Max(s)}]>>]
                <4>1. Max(s) \in s /\ Max(s) \in 1..(n + 1) /\ \A k \in s : k <= Max(s)
                    BY <3>1, MaxInSet, n + 1 \in Nat
                <4>2. CASE n + 1 \in s
                    <5>1. n + 1 <= Max(s) /\ Max(s) <= n + 1 /\ Max(s) \in Nat
                        BY <4>1, <4>2
                    <5>2. Max(s) = n + 1
                        BY <5>1
                    <5>3. h[s \ {n + 1}] = g[s \ {n + 1}]
                        BY <2>2, <2>4
                    <5>4. h[s] = F[<<n + 1, g[s \ {n + 1}]>>]
                        BY <4>2
                    <5>5. QED BY <5>2, <5>3, <5>4
                <4>3. CASE n + 1 \notin s
                    <5>1. s \in SUBSET (1..n) /\ s \ {Max(s)} \in SUBSET (1..n)
                        BY <4>3, <2>2
                    <5>2. g[s] = F[<<Max(s), g[s \ {Max(s)}]>>]
                        BY <2>1, <3>1, <5>1
                    <5>3. h[s] = g[s] /\ h[s \ {Max(s)}] = g[s \ {Max(s)}]
                        BY <2>4, <5>1
                    <5>4. QED BY <5>2, <5>3
                <4>4. QED BY <4>2, <4>3
            <3>2. h[{}] = y
                <4>1. {} \in SUBSET (1..n)
                    OBVIOUS
                <4>2. h[{}] = g[{}] /\ g[{}] = y
                    BY <2>1, <2>4, <4>1
                <4>3. QED BY <4>2
            <3> HIDE DEF h
            <3>3. QED BY <3>1, <3>2
        <2> HIDE DEF h, Fold
        <2>7. QED BY <2>5, <2>6
    <1>3. \A n \in 0..N : n \in I
        <2> HIDE DEF I
        <2>1. QED BY <1>1, <1>2, Inductive
    <1>4. N \in I
        <2> HIDE DEF I
        <2>1. QED BY <1>3
    <1>5. PICK g \in [SUBSET (1..N) -> Y] : Fold(N, g)
        BY <1>4
    <1>6. QED BY <1>5 DEF IsFold

-----------------------------------------------------------------------------
(***************************************************************************)
(* The folds of MemoryImages step by step: what has been accumulated after *)
(* the first i elements.                                                   *)
(***************************************************************************)
LEMMA SummariseTyped ==
    ASSUME NEW t \in Seq(Summary), NEW k \in Keys
    PROVE  Summarise(t, k) \in Seq(Summary)
    <1>1. CASE \E i \in DOMAIN t : t[i].key = k
        <2>1. \A r \in Summary : [r EXCEPT !.count = @ + 1] \in Summary
            BY DEF Summary
        <2>2. DOMAIN t = 1..Len(t) /\ Len(t) \in Nat /\ \A i \in 1..Len(t) : t[i] \in Summary
            OBVIOUS
        <2>3. Summarise(t, k) = [i \in 1..Len(t) |-> IF t[i].key = k
                                                       THEN [t[i] EXCEPT !.count = @ + 1] ELSE t[i]]
            BY <1>1, <2>2 DEF Summarise
        <2>4. Summarise(t, k) \in [1..Len(t) -> Summary]
            BY <2>1, <2>2, <2>3
        <2>5. QED BY <2>2, <2>4, SeqDef
    <1>2. CASE ~ \E i \in DOMAIN t : t[i].key = k
        <2>1. [key |-> k, count |-> 1] \in Summary
            BY DEF Summary
        <2>2. QED BY <1>2, <2>1 DEF Summarise
    <1>3. QED BY <1>1, <1>2

\* acc is what a fold of records into summaries accumulates, beginning with t.
SummaryRun(acc, t, s) ==
    /\ acc \in [0..Len(s) -> Seq(Summary)]
    /\ acc[0] = t
    /\ \A i \in 1..Len(s) : acc[i] = Summarise(acc[i - 1], s[i])

LEMMA SummariesInSteps ==
    ASSUME NEW t \in Seq(Summary), NEW s \in Seq(Keys)
    PROVE  \E acc : SummaryRun(acc, t, s) /\ FoldLeft(Summarise, t, s) = acc[Len(s)]
    <1> DEFINE N == Len(s)
               Fold(h) == h = [S \in SUBSET DOMAIN s |->
                                 IF S = {} THEN t ELSE Summarise(h[S \ {Max(S)}], s[Max(S)])]
               H == CHOOSE h : Fold(h)
    <1>1. N \in Nat /\ DOMAIN s = 1..N /\ \A i \in 1..N : s[i] \in Keys
        OBVIOUS
    <1>2. \E h : Fold(h)
        <2> DEFINE F == [p \in (1..N) \X Seq(Summary) |-> Summarise(p[2], s[p[1]])]
        <2>1. F \in [(1..N) \X Seq(Summary) -> Seq(Summary)]
            BY <1>1, SummariseTyped
        <2>2. PICK g : IsFold(g, N, Seq(Summary), t, F)
            <3> HIDE DEF N, F
            <3>1. QED BY <1>1, <2>1, FoldExists, Zenon
        <2>3. ASSUME NEW S \in SUBSET (1..N), S # {}
              PROVE  g[S] = Summarise(g[S \ {Max(S)}], s[Max(S)])
            <3>1. Max(S) \in 1..N
                BY <1>1, <2>3, MaxInSet
            <3>2. g[S \ {Max(S)}] \in Seq(Summary)
                BY <2>2 DEF IsFold
            <3>3. F[<<Max(S), g[S \ {Max(S)}]>>] = Summarise(g[S \ {Max(S)}], s[Max(S)])
                BY <3>1, <3>2
            <3>4. g[S] = F[<<Max(S), g[S \ {Max(S)}]>>]
                BY <2>2, <2>3 DEF IsFold
            <3>5. QED BY <3>3, <3>4
        <2>4. \A S \in SUBSET (1..N) :
                 g[S] = IF S = {} THEN t ELSE Summarise(g[S \ {Max(S)}], s[Max(S)])
            BY <2>2, <2>3 DEF IsFold
        <2>5. Fold(g)
            <3> HIDE DEF N
            <3>1. QED BY <1>1, <2>2, <2>4 DEF IsFold
        <2> HIDE DEF Fold
        <2>6. QED BY <2>5
    <1>3. Fold(H)
        <2> HIDE DEF Fold
        <2>1. QED BY <1>2
    <1>4. FoldLeft(Summarise, t, s) = H[DOMAIN s]
        BY DEF FoldLeft, MapThenFoldSet
    <1> HIDE DEF H
    <1>5. /\ H[{}] = t
          /\ \A i \in 1..N : H[1..i] = Summarise(H[1..(i - 1)], s[i])
        <2>1. H[{}] = t
            BY <1>3
        <2>2. ASSUME NEW i \in 1..N PROVE H[1..i] = Summarise(H[1..(i - 1)], s[i])
            <3>1. Max(1..i) = i /\ (1..i) \ {i} = 1..(i - 1)
                BY MaxOfInterval, i - 1 \in Nat, (i - 1) + 1 = i
            <3>2. 1..i \in SUBSET DOMAIN s /\ 1..i # {}
                <4>1. i \in 1..i /\ \A j \in 1..i : j \in 1..N
                    BY <1>1
                <4>2. QED BY <1>1, <4>1
            <3>3. H[1..i] = Summarise(H[(1..i) \ {Max(1..i)}], s[Max(1..i)])
                BY <1>3, <3>2
            <3>4. QED BY <3>1, <3>3
        <2>3. QED BY <2>1, <2>2
    <1> DEFINE acc == [i \in 0..N |-> H[1..i]]
               I == {n \in 0..N : acc[n] \in Seq(Summary)}
    <1>6. 0 \in I
        BY <1>1, <1>5, 1..0 = {}
    <1>7. ASSUME NEW n \in 0..N, n \in I, n < N PROVE n + 1 \in I
        <2>1. n + 1 \in 1..N /\ n + 1 \in 0..N /\ (n + 1) - 1 = n
            BY <1>1, <1>7
        <2>2. H[1..(n + 1)] = Summarise(H[1..n], s[n + 1])
            BY <1>5, <2>1
        <2>3. acc[n + 1] = Summarise(acc[n], s[n + 1])
            BY <2>1, <2>2
        <2>4. acc[n] \in Seq(Summary) /\ s[n + 1] \in Keys
            BY <1>1, <1>7, <2>1
        <2> HIDE DEF acc
        <2>5. acc[n + 1] \in Seq(Summary)
            BY <2>3, <2>4, SummariseTyped
        <2>6. QED BY <2>1, <2>5
    <1>8. \A n \in 0..N : n \in I
        <2> HIDE DEF I, N
        <2>1. QED BY <1>1, <1>6, <1>7, Inductive
    <1>9. acc \in [0..N -> Seq(Summary)]
        BY <1>8
    <1>10. acc[0] = t /\ acc[N] = H[DOMAIN s]
        BY <1>1, <1>5, 1..0 = {}
    <1>11. \A i \in 1..N : acc[i] = Summarise(acc[i - 1], s[i])
        BY <1>1, <1>5
    <1> HIDE DEF acc, I
    <1>12. SummaryRun(acc, t, s)
        BY <1>9, <1>10, <1>11 DEF SummaryRun
    <1>13. QED BY <1>4, <1>10, <1>12

\* What a summary contributes to the count of a key.
Share(x, k) == IF x.key = k THEN x.count ELSE 0

\* acc is what counting the records of key k in s accumulates.
CountRun(acc, s, k) ==
    /\ acc \in [0..Len(s) -> Nat]
    /\ acc[0] = 0
    /\ \A i \in 1..Len(s) : acc[i] = acc[i - 1] + Share(s[i], k)

LEMMA CountedInSteps ==
    ASSUME NEW s \in Seq(Summary), NEW k \in Keys
    PROVE  \E acc : CountRun(acc, s, k) /\ Counted(s, k) = acc[Len(s)]
    <1> DEFINE Plus(n, x) == IF x.key = k THEN n + x.count ELSE n
    <1>0. \A n \in Nat, x \in Summary : Plus(n, x) \in Nat
        BY DEF Summary
    <1> DEFINE N == Len(s)
               Fold(h) == h = [S \in SUBSET DOMAIN s |->
                                 IF S = {} THEN 0 ELSE Plus(h[S \ {Max(S)}], s[Max(S)])]
               H == CHOOSE h : Fold(h)
    <1>1. N \in Nat /\ DOMAIN s = 1..N /\ \A i \in 1..N : s[i] \in Summary
        OBVIOUS
    <1>2. \E h : Fold(h)
        <2> DEFINE F == [p \in (1..N) \X Nat |-> Plus(p[2], s[p[1]])]
        <2>1. F \in [(1..N) \X Nat -> Nat]
            BY <1>1, <1>0
        <2>2. PICK g : IsFold(g, N, Nat, 0, F)
            <3> HIDE DEF N, F
            <3>1. QED BY <1>1, <2>1, FoldExists, Zenon
        <2>3. ASSUME NEW S \in SUBSET (1..N), S # {}
              PROVE  g[S] = Plus(g[S \ {Max(S)}], s[Max(S)])
            <3>1. Max(S) \in 1..N
                BY <1>1, <2>3, MaxInSet
            <3>2. g[S \ {Max(S)}] \in Nat
                BY <2>2 DEF IsFold
            <3>3. F[<<Max(S), g[S \ {Max(S)}]>>] = Plus(g[S \ {Max(S)}], s[Max(S)])
                BY <3>1, <3>2
            <3>4. g[S] = F[<<Max(S), g[S \ {Max(S)}]>>]
                BY <2>2, <2>3 DEF IsFold
            <3>5. QED BY <3>3, <3>4
        <2>4. \A S \in SUBSET (1..N) :
                 g[S] = IF S = {} THEN 0 ELSE Plus(g[S \ {Max(S)}], s[Max(S)])
            BY <2>2, <2>3 DEF IsFold
        <2>5. Fold(g)
            <3> HIDE DEF N
            <3>1. QED BY <1>1, <2>2, <2>4 DEF IsFold
        <2> HIDE DEF Fold
        <2>6. QED BY <2>5
    <1>3. Fold(H)
        <2> HIDE DEF Fold
        <2>1. QED BY <1>2
    <1>4. Counted(s, k) = H[DOMAIN s]
        BY DEF Counted, FoldLeft, MapThenFoldSet
    <1> HIDE DEF H
    <1>5. /\ H[{}] = 0
          /\ \A i \in 1..N : H[1..i] = Plus(H[1..(i - 1)], s[i])
        <2>1. H[{}] = 0
            BY <1>3
        <2>2. ASSUME NEW i \in 1..N PROVE H[1..i] = Plus(H[1..(i - 1)], s[i])
            <3>1. Max(1..i) = i /\ (1..i) \ {i} = 1..(i - 1)
                BY MaxOfInterval, i - 1 \in Nat, (i - 1) + 1 = i
            <3>2. 1..i \in SUBSET DOMAIN s /\ 1..i # {}
                <4>1. i \in 1..i /\ \A j \in 1..i : j \in 1..N
                    BY <1>1
                <4>2. QED BY <1>1, <4>1
            <3>3. H[1..i] = Plus(H[(1..i) \ {Max(1..i)}], s[Max(1..i)])
                BY <1>3, <3>2
            <3>4. QED BY <3>1, <3>3
        <2>3. QED BY <2>1, <2>2
    <1> DEFINE acc == [i \in 0..N |-> H[1..i]]
               I == {n \in 0..N : acc[n] \in Nat}
    <1>6. 0 \in I
        BY <1>1, <1>5, 1..0 = {}
    <1>7. ASSUME NEW n \in 0..N, n \in I, n < N PROVE n + 1 \in I
        <2>1. n + 1 \in 1..N /\ n + 1 \in 0..N /\ (n + 1) - 1 = n
            BY <1>1, <1>7
        <2>2. H[1..(n + 1)] = Plus(H[1..n], s[n + 1])
            BY <1>5, <2>1
        <2>3. acc[n + 1] = Plus(acc[n], s[n + 1])
            BY <2>1, <2>2
        <2>4. acc[n] \in Nat /\ s[n + 1] \in Summary
            BY <1>1, <1>7, <2>1
        <2> HIDE DEF acc
        <2>5. acc[n + 1] \in Nat
            BY <2>3, <2>4, <1>0
        <2>6. QED BY <2>1, <2>5
    <1>8. \A n \in 0..N : n \in I
        <2> HIDE DEF I, N
        <2>1. QED BY <1>1, <1>6, <1>7, Inductive
    <1>9. acc \in [0..N -> Nat]
        BY <1>8
    <1>10. acc[0] = 0 /\ acc[N] = H[DOMAIN s]
        BY <1>1, <1>5, 1..0 = {}
    <1>11. \A i \in 1..N : acc[i] = Plus(acc[i - 1], s[i])
        BY <1>1, <1>5
    <1> HIDE DEF acc, I
    <1>12. CountRun(acc, s, k)
        BY <1>1, <1>9, <1>10, <1>11 DEF CountRun, Share
    <1>13. QED BY <1>4, <1>10, <1>12

-----------------------------------------------------------------------------
(***************************************************************************)
(* Counting records in sequences of summaries.                             *)
(***************************************************************************)
LEMMA SameCount ==
    ASSUME NEW s \in Seq(Summary), NEW k \in Keys, NEW acc, CountRun(acc, s, k)
    PROVE  Counted(s, k) = acc[Len(s)]
    <1>1. PICK b : CountRun(b, s, k) /\ Counted(s, k) = b[Len(s)]
        BY CountedInSteps
    <1>2. PICK N : N = Len(s)
        OBVIOUS
    <1>3. N \in Nat /\ \A i \in 1..N : s[i] \in Summary
        BY <1>2
    <1> DEFINE I == {n \in 0..N : acc[n] = b[n]}
    <1>4. 0 \in I
        BY <1>1, <1>3 DEF CountRun
    <1>5. ASSUME NEW n \in 0..N, n \in I, n < N PROVE n + 1 \in I
        <2>1. n + 1 \in 1..N /\ n + 1 \in 0..N /\ (n + 1) - 1 = n
            BY <1>3, <1>5
        <2>2. acc[n + 1] = acc[n] + Share(s[n + 1], k) /\ b[n + 1] = b[n] + Share(s[n + 1], k)
            BY <1>1, <1>2, <2>1 DEF CountRun
        <2>3. QED BY <1>5, <2>1, <2>2
    <1> HIDE DEF I
    <1>6. \A n \in 0..N : n \in I
        BY <1>3, <1>4, <1>5, Inductive
    <1>7. N \in I
        BY <1>3, <1>6
    <1>8. QED BY <1>1, <1>2, <1>7 DEF I

LEMMA CountedIsNat ==
    ASSUME NEW s \in Seq(Summary), NEW k \in Keys
    PROVE  Counted(s, k) \in Nat
    <1>1. PICK acc : CountRun(acc, s, k) /\ Counted(s, k) = acc[Len(s)]
        BY CountedInSteps
    <1>2. Len(s) \in 0..Len(s)
        BY LenProperties
    <1>3. QED BY <1>1, <1>2 DEF CountRun

LEMMA CountedEmpty ==
    ASSUME NEW k \in Keys
    PROVE  Counted(<<>>, k) = 0
    <1>1. <<>> \in Seq(Summary) /\ Len(<<>>) = 0
        OBVIOUS
    <1>2. PICK acc : CountRun(acc, <<>>, k) /\ Counted(<<>>, k) = acc[0]
        BY <1>1, CountedInSteps
    <1>3. QED BY <1>2 DEF CountRun

LEMMA CountedConcat ==
    ASSUME NEW s \in Seq(Summary), NEW t \in Seq(Summary), NEW k \in Keys
    PROVE  Counted(s \o t, k) = Counted(s, k) + Counted(t, k)
    <1>1. PICK a : CountRun(a, s, k) /\ Counted(s, k) = a[Len(s)]
        BY CountedInSteps
    <1>2. PICK b : CountRun(b, t, k) /\ Counted(t, k) = b[Len(t)]
        BY CountedInSteps
    <1>3. PICK M : M = Len(s)
        OBVIOUS
    <1>4. PICK N : N = Len(t)
        OBVIOUS
    <1>5. PICK u : u = s \o t
        OBVIOUS
    <1>6. /\ u \in Seq(Summary) /\ Len(u) = M + N /\ M \in Nat /\ N \in Nat
          /\ \A i \in 1..M : u[i] = s[i]
          /\ \A i \in (M + 1)..(M + N) : u[i] = t[i - M]
        <2>1. M \in Nat /\ N \in Nat
            BY <1>3, <1>4
        <2>2. /\ u \in Seq(Summary) /\ Len(u) = M + N
              /\ \A i \in 1..(M + N) : u[i] = IF i <= M THEN s[i] ELSE t[i - M]
            BY <1>3, <1>4, <1>5, ConcatProperties
        <2>3. QED BY <2>1, <2>2
    <1>7. /\ a \in [0..M -> Nat] /\ a[0] = 0 /\ \A i \in 1..M : a[i] = a[i - 1] + Share(s[i], k)
          /\ b \in [0..N -> Nat] /\ b[0] = 0 /\ \A i \in 1..N : b[i] = b[i - 1] + Share(t[i], k)
        BY <1>1, <1>2, <1>3, <1>4 DEF CountRun
    <1> DEFINE acc == [i \in 0..(M + N) |-> IF i <= M THEN a[i] ELSE a[M] + b[i - M]]
    <1>8. acc \in [0..(M + N) -> Nat] /\ acc[0] = 0 /\ acc[M + N] = a[M] + b[N]
        BY <1>6, <1>7
    <1>9. ASSUME NEW i \in 1..(M + N) PROVE acc[i] = acc[i - 1] + Share(u[i], k)
        <2>1. i \in 0..(M + N) /\ i - 1 \in 0..(M + N)
            BY <1>6
        <2>2. CASE i <= M
            <3>1. i \in 1..M /\ i - 1 <= M
                BY <1>6, <2>2
            <3>2. acc[i] = a[i] /\ acc[i - 1] = a[i - 1] /\ u[i] = s[i]
                BY <1>6, <2>1, <2>2, <3>1
            <3>3. QED BY <1>7, <3>1, <3>2
        <2>3. CASE i > M
            <3>1. i - M \in 1..N /\ (i - M) - 1 = (i - 1) - M
                BY <1>6, <2>3
            <3>2. acc[i] = a[M] + b[i - M] /\ u[i] = t[i - M]
                <4>1. ~(i <= M) /\ i \in (M + 1)..(M + N)
                    BY <1>6, <2>3
                <4>2. QED BY <1>6, <2>1, <4>1
            <3>3. acc[i - 1] = a[M] + b[(i - M) - 1]
                <4>1. CASE i - 1 = M
                    <5>1. (i - M) - 1 = 0 /\ a[M] \in Nat /\ M <= M
                        BY <1>6, <1>7, <4>1
                    <5>2. acc[i - 1] = a[M]
                        BY <2>1, <4>1, <5>1
                    <5>3. QED BY <1>7, <5>1, <5>2
                <4>2. CASE i - 1 # M
                    <5>1. ~(i - 1 <= M)
                        BY <1>6, <2>3, <4>2
                    <5>2. acc[i - 1] = a[M] + b[(i - 1) - M]
                        BY <2>1, <5>1
                    <5>3. QED BY <3>1, <5>2
                <4>3. QED BY <4>1, <4>2
            <3>4. b[i - M] = b[(i - M) - 1] + Share(t[i - M], k)
                BY <1>7, <3>1
            <3>5. a[M] \in Nat /\ b[(i - M) - 1] \in Nat /\ Share(t[i - M], k) \in Nat
                <4>1. t[i - M] \in Summary
                    BY <1>4, <3>1
                <4>2. (i - M) - 1 \in 0..N /\ M \in 0..M
                    BY <1>6, <3>1
                <4>3. QED BY <1>7, <4>1, <4>2 DEF Share, Summary
            <3>6. QED BY <3>2, <3>3, <3>4, <3>5
        <2>4. QED BY <1>6, <2>2, <2>3
    <1> HIDE DEF acc
    <1>10. CountRun(acc, u, k)
        BY <1>6, <1>8, <1>9 DEF CountRun
    <1>11. QED BY <1>1, <1>2, <1>3, <1>4, <1>5, <1>6, <1>8, <1>10, SameCount

LEMMA CountedOne ==
    ASSUME NEW x \in Summary, NEW k \in Keys
    PROVE  Counted(<<x>>, k) = Share(x, k)
    <1>1. <<x>> \in Seq(Summary) /\ Len(<<x>>) = 1 /\ <<x>>[1] = x
        OBVIOUS
    <1>2. PICK acc : CountRun(acc, <<x>>, k) /\ Counted(<<x>>, k) = acc[1]
        BY <1>1, CountedInSteps
    <1>3. Share(x, k) \in Nat
        BY DEF Share, Summary
    <1>4. acc[0] = 0 /\ acc[1] = acc[1 - 1] + Share(x, k)
        BY <1>1, <1>2 DEF CountRun
    <1>5. QED BY <1>2, <1>3, <1>4

LEMMA CountedAppend ==
    ASSUME NEW s \in Seq(Summary), NEW x \in Summary, NEW k \in Keys
    PROVE  Counted(Append(s, x), k) = Counted(s, k) + Share(x, k)
    <1>1. Append(s, x) = s \o <<x>> /\ <<x>> \in Seq(Summary)
        BY AppendIsConcat
    <1>2. QED BY <1>1, CountedConcat, CountedOne

LEMMA CountedSummarise ==
    ASSUME NEW s \in Seq(Summary), Distinct(s), NEW r \in Keys, NEW k \in Keys
    PROVE  /\ Distinct(Summarise(s, r))
           /\ Counted(Summarise(s, r), k) = Counted(s, k) + (IF r = k THEN 1 ELSE 0)
    <1>1. PICK N : N = Len(s)
        OBVIOUS
    <1>2. N \in Nat /\ DOMAIN s = 1..N /\ \A i \in 1..N : s[i] \in Summary
        BY <1>1
    <1>3. CASE \E i \in DOMAIN s : s[i].key = r
        <2>1. PICK j \in 1..N : s[j].key = r
            BY <1>2, <1>3
        <2>2. PICK a : CountRun(a, s, k) /\ Counted(s, k) = a[N]
            BY <1>1, CountedInSteps
        <2>3. PICK t : t = Summarise(s, r)
            OBVIOUS
        <2>4. t = [i \in 1..N |-> IF s[i].key = r THEN [s[i] EXCEPT !.count = @ + 1] ELSE s[i]]
            BY <1>2, <1>3, <2>3 DEF Summarise
        <2>5. \A x \in Summary : LET y == [x EXCEPT !.count = @ + 1] IN
                 y \in Summary /\ y.key = x.key /\ y.count = x.count + 1
            BY DEF Summary
        <2>6. /\ t \in Seq(Summary) /\ DOMAIN t = 1..N /\ Len(t) = N
              /\ \A i \in 1..N : t[i].key = s[i].key
              /\ \A i \in 1..N : Share(t[i], k) = Share(s[i], k) + (IF i = j /\ r = k THEN 1 ELSE 0)
            <3>1. t \in Seq(Summary)
                BY <2>3, SummariseTyped
            <3>2. DOMAIN t = 1..N /\ Len(t) = N
                BY <1>2, <2>4, <3>1
            <3>3. ASSUME NEW i \in 1..N
                  PROVE  /\ t[i].key = s[i].key
                         /\ Share(t[i], k) = Share(s[i], k) + (IF i = j /\ r = k THEN 1 ELSE 0)
                <4>1. s[i].key = r <=> i = j
                    BY <1>2, <2>1 DEF Distinct
                <4>2. s[i] \in Summary /\ s[i].count \in Nat
                    BY <1>2 DEF Summary
                <4>3. CASE i = j
                    <5>1. t[i] = [s[i] EXCEPT !.count = @ + 1]
                        BY <2>4, <4>1, <4>3
                    <5>2. t[i].key = s[i].key /\ t[i].count = s[i].count + 1
                        BY <2>5, <4>2, <5>1
                    <5>3. QED BY <4>1, <4>2, <4>3, <5>2 DEF Share
                <4>4. CASE i # j
                    <5>1. t[i] = s[i]
                        BY <2>4, <4>1, <4>4
                    <5>2. QED BY <4>2, <4>4, <5>1 DEF Share
                <4>5. QED BY <4>3, <4>4
            <3>4. QED BY <3>1, <3>2, <3>3
        <2>7. Distinct(t)
            BY <1>2, <2>6 DEF Distinct
        <2> DEFINE acc == [i \in 0..N |-> a[i] + (IF j <= i /\ r = k THEN 1 ELSE 0)]
        <2>8. a \in [0..N -> Nat] /\ a[0] = 0 /\ \A i \in 1..N : a[i] = a[i - 1] + Share(s[i], k)
            BY <1>1, <2>2 DEF CountRun
        <2>9. acc \in [0..N -> Nat] /\ acc[0] = 0 /\ acc[N] = a[N] + (IF r = k THEN 1 ELSE 0)
            BY <1>2, <2>8
        <2>10. ASSUME NEW i \in 1..N PROVE acc[i] = acc[i - 1] + Share(t[i], k)
            <3>1. i \in 0..N /\ i - 1 \in 0..N /\ a[i - 1] \in Nat
                BY <1>2, <2>8
            <3>2. Share(s[i], k) \in Nat
                BY <1>2 DEF Share, Summary
            <3>3. /\ acc[i] = a[i] + (IF j <= i /\ r = k THEN 1 ELSE 0)
                  /\ acc[i - 1] = a[i - 1] + (IF j <= i - 1 /\ r = k THEN 1 ELSE 0)
                BY <3>1
            <3>4. /\ a[i] = a[i - 1] + Share(s[i], k)
                  /\ Share(t[i], k) = Share(s[i], k) + (IF i = j /\ r = k THEN 1 ELSE 0)
                BY <2>6, <2>8
            <3> HIDE DEF acc
            <3>5. QED BY <1>2, <2>1, <3>1, <3>2, <3>3, <3>4
        <2> HIDE DEF acc
        <2>11. CountRun(acc, t, k)
            BY <2>6, <2>9, <2>10 DEF CountRun
        <2>12. Counted(t, k) = acc[N]
            BY <2>6, <2>11, SameCount
        <2>13. QED BY <2>2, <2>3, <2>7, <2>9, <2>12
    <1>4. CASE ~ \E i \in DOMAIN s : s[i].key = r
        <2>1. PICK x : x = [key |-> r, count |-> 1]
            OBVIOUS
        <2>2. x \in Summary /\ x.key = r /\ Share(x, k) = IF r = k THEN 1 ELSE 0
            BY <2>1 DEF Summary, Share
        <2>3. Summarise(s, r) = Append(s, x)
            BY <1>4, <2>1 DEF Summarise
        <2>4. Distinct(Append(s, x))
            BY <1>2, <1>4, <2>2, AppendProperties DEF Distinct
        <2>5. QED BY <2>2, <2>3, <2>4, CountedAppend
    <1>5. QED BY <1>3, <1>4

LEMMA RecordsTyped ==
    ASSUME NEW s \in Seq(Keys)
    PROVE  /\ Records(s) \in Seq(Summary) /\ Len(Records(s)) = Len(s)
           /\ \A i \in 1..Len(s) : Records(s)[i] = [key |-> s[i], count |-> 1]
           /\ \A i \in 1..Len(s), k \in Keys :
                 Share(Records(s)[i], k) = IF s[i] = k THEN 1 ELSE 0
    <1>1. DOMAIN s = 1..Len(s) /\ Len(s) \in Nat /\ \A i \in 1..Len(s) : s[i] \in Keys
        OBVIOUS
    <1>2. Records(s) = [i \in 1..Len(s) |-> [key |-> s[i], count |-> 1]]
        BY <1>1 DEF Records
    <1>3. Records(s) \in [1..Len(s) -> Summary]
        BY <1>1, <1>2 DEF Summary
    <1>4. Records(s) \in Seq(Summary) /\ Len(Records(s)) = Len(s)
        BY <1>1, <1>3, SeqDef
    <1>5. \A i \in 1..Len(s) : Records(s)[i] = [key |-> s[i], count |-> 1]
        BY <1>2
    <1>6. ASSUME NEW i \in 1..Len(s), NEW k \in Keys
          PROVE  Share(Records(s)[i], k) = IF s[i] = k THEN 1 ELSE 0
        <2>1. PICK x : x = Records(s)[i]
            OBVIOUS
        <2>2. x = [key |-> s[i], count |-> 1]
            BY <1>5, <2>1
        <2>3. Share(x, k) = IF s[i] = k THEN 1 ELSE 0
            BY <2>2 DEF Share
        <2>4. QED BY <2>1, <2>3
    <1>7. QED BY <1>4, <1>5, <1>6

\* Summarising records neither loses nor invents one.
LEMMA Summarised ==
    ASSUME NEW t \in Seq(Summary), Distinct(t), NEW s \in Seq(Keys), NEW k \in Keys
    PROVE  LET u == FoldLeft(Summarise, t, s) IN
             /\ u \in Seq(Summary)
             /\ Distinct(u)
             /\ Counted(u, k) = Counted(t, k) + Counted(Records(s), k)
    <1>1. PICK acc : SummaryRun(acc, t, s) /\ FoldLeft(Summarise, t, s) = acc[Len(s)]
        BY SummariesInSteps
    <1>2. PICK b : CountRun(b, Records(s), k) /\ Counted(Records(s), k) = b[Len(s)]
        BY RecordsTyped, CountedInSteps
    <1>3. PICK N : N = Len(s)
        OBVIOUS
    <1>4. N \in Nat /\ \A i \in 1..N : s[i] \in Keys
        BY <1>3
    <1>5. /\ acc \in [0..N -> Seq(Summary)] /\ acc[0] = t
          /\ \A i \in 1..N : acc[i] = Summarise(acc[i - 1], s[i])
        BY <1>1, <1>3 DEF SummaryRun
    <1>6. /\ b \in [0..N -> Nat] /\ b[0] = 0
          /\ \A i \in 1..N : b[i] = b[i - 1] + (IF s[i] = k THEN 1 ELSE 0)
        <2>1. Len(Records(s)) = N
            BY <1>3, RecordsTyped
        <2>2. \A i \in 1..N : Share(Records(s)[i], k) = IF s[i] = k THEN 1 ELSE 0
            BY <1>3, RecordsTyped
        <2>3. QED BY <1>2, <2>1, <2>2 DEF CountRun
    <1>7. Counted(t, k) \in Nat
        BY CountedIsNat
    <1> DEFINE I == {n \in 0..N : Distinct(acc[n]) /\ Counted(acc[n], k) = Counted(t, k) + b[n]}
    <1>8. 0 \in I
        BY <1>4, <1>5, <1>6, <1>7
    <1>9. ASSUME NEW n \in 0..N, n \in I, n < N PROVE n + 1 \in I
        <2>1. n + 1 \in 1..N /\ n + 1 \in 0..N /\ (n + 1) - 1 = n /\ s[n + 1] \in Keys
            BY <1>4, <1>9
        <2>2. acc[n] \in Seq(Summary) /\ Distinct(acc[n])
            BY <1>5, <1>9
        <2>3. acc[n + 1] = Summarise(acc[n], s[n + 1])
            BY <1>5, <2>1
        <2>4. /\ Distinct(acc[n + 1])
              /\ Counted(acc[n + 1], k) = Counted(acc[n], k) + (IF s[n + 1] = k THEN 1 ELSE 0)
            BY <2>1, <2>2, <2>3, CountedSummarise
        <2>5. /\ b[n + 1] = b[n] + (IF s[n + 1] = k THEN 1 ELSE 0)
              /\ b[n] \in Nat /\ Counted(acc[n], k) = Counted(t, k) + b[n]
            BY <1>6, <1>9, <2>1
        <2>6. Counted(acc[n + 1], k) = Counted(t, k) + b[n + 1]
            BY <1>7, <2>4, <2>5
        <2>7. QED BY <2>1, <2>4, <2>6
    <1> HIDE DEF I
    <1>10. \A n \in 0..N : n \in I
        BY <1>4, <1>8, <1>9, Inductive
    <1>11. N \in I /\ N \in 0..N
        BY <1>4, <1>10
    <1>12. QED BY <1>1, <1>2, <1>3, <1>5, <1>11 DEF I

-----------------------------------------------------------------------------
(***************************************************************************)
(* Whole images.                                                           *)
(***************************************************************************)
LEMMA Budgets == WorkingBudget \in Nat /\ CompressedBudget \in Nat
    BY BudgetAssumption

LEMMA ImageFields ==
    ASSUME NEW m \in Image
    PROVE  /\ m.working \in Seq(Keys) /\ m.compressed \in Seq(Summary)
           /\ m = [working |-> m.working, compressed |-> m.compressed]
    BY DEF Image

LEMMA SplitAt ==
    ASSUME NEW S, NEW s \in Seq(S), NEW n \in 0..Len(s)
    PROVE  /\ SubSeq(s, 1, n) \in Seq(S) /\ SubSeq(s, n + 1, Len(s)) \in Seq(S)
           /\ Len(SubSeq(s, 1, n)) = n /\ Len(SubSeq(s, n + 1, Len(s))) = Len(s) - n
           /\ s = SubSeq(s, 1, n) \o SubSeq(s, n + 1, Len(s))
           /\ \A i \in 1..n : SubSeq(s, 1, n)[i] = s[i]
           /\ \A i \in 1..(Len(s) - n) : SubSeq(s, n + 1, Len(s))[i] = s[n + i]
    <1>1. Len(s) \in Nat /\ \A i \in 1..Len(s) : s[i] \in S
        OBVIOUS
    <1>2. /\ SubSeq(s, 1, n) \in Seq(S) /\ Len(SubSeq(s, 1, n)) = n
          /\ \A i \in 1..n : SubSeq(s, 1, n)[i] = s[i]
        <2>1. \A i \in 1..n : s[i] \in S
            BY <1>1
        <2>2. QED BY <1>1, <2>1, SubSeqProperties
    <1>3. /\ SubSeq(s, n + 1, Len(s)) \in Seq(S) /\ Len(SubSeq(s, n + 1, Len(s))) = Len(s) - n
          /\ \A i \in 1..(Len(s) - n) : SubSeq(s, n + 1, Len(s))[i] = s[n + i]
        <2>1. \A i \in (n + 1)..Len(s) : s[i] \in S
            BY <1>1
        <2>2. QED BY <1>1, <2>1, SubSeqProperties
    <1>4. SubSeq(s, 1, n) \o SubSeq(s, n + 1, Len(s)) = s
        <2>1. SubSeq(s, 1, n) \o SubSeq(s, n + 1, Len(s)) = SubSeq(s, 1, Len(s))
            <3>1. 1 \in 1..(Len(s) + 1) /\ n \in (1 - 1)..Len(s) /\ Len(s) \in n..Len(s)
                BY <1>1
            <3>2. QED BY <3>1, ConcatAdjacentSubSeq
        <2>2. QED BY <2>1, SubSeqFull
    <1>5. QED BY <1>2, <1>3, <1>4

LEMMA RecordsSplit ==
    ASSUME NEW s \in Seq(Keys), NEW t \in Seq(Keys), NEW k \in Keys
    PROVE  Counted(Records(s \o t), k) = Counted(Records(s), k) + Counted(Records(t), k)
    <1>1. s \o t \in Seq(Keys)
        BY ConcatProperties
    <1>2. /\ Records(s \o t) \in Seq(Summary) /\ Records(s) \in Seq(Summary)
          /\ Records(t) \in Seq(Summary)
        BY <1>1, RecordsTyped
    <1>3. Records(s \o t) = Records(s) \o Records(t)
        <2>1. Len(s) \in Nat /\ Len(t) \in Nat /\ Len(s \o t) = Len(s) + Len(t)
            BY ConcatProperties
        <2>2. /\ Len(Records(s \o t)) = Len(s) + Len(t)
              /\ Len(Records(s)) = Len(s) /\ Len(Records(t)) = Len(t)
            BY <1>1, <2>1, RecordsTyped
        <2>3. /\ Records(s) \o Records(t) \in Seq(Summary)
              /\ Len(Records(s) \o Records(t)) = Len(s) + Len(t)
              /\ \A i \in 1..(Len(s) + Len(t)) : (Records(s) \o Records(t))[i] =
                    IF i <= Len(s) THEN Records(s)[i] ELSE Records(t)[i - Len(s)]
            <3>1. PICK u : u = Records(s)
                OBVIOUS
            <3>2. PICK v : v = Records(t)
                OBVIOUS
            <3>3. /\ u \in Seq(Summary) /\ v \in Seq(Summary)
                  /\ Len(u) = Len(s) /\ Len(v) = Len(t)
                BY <1>2, <2>2, <3>1, <3>2
            <3>4. /\ u \o v \in Seq(Summary) /\ Len(u \o v) = Len(u) + Len(v)
                  /\ \A i \in 1..(Len(u) + Len(v)) :
                        (u \o v)[i] = IF i <= Len(u) THEN u[i] ELSE v[i - Len(u)]
                BY <3>3, ConcatProperties
            <3>5. QED BY <3>1, <3>2, <3>3, <3>4
        <2>4. ASSUME NEW i \in 1..(Len(s) + Len(t))
              PROVE  Records(s \o t)[i] = (Records(s) \o Records(t))[i]
            <3>1. /\ Records(s \o t)[i] = [key |-> (s \o t)[i], count |-> 1]
                  /\ (s \o t)[i] = IF i <= Len(s) THEN s[i] ELSE t[i - Len(s)]
                BY <1>1, <2>1, RecordsTyped, ConcatProperties
            <3>2. CASE i <= Len(s)
                <4>1. i \in 1..Len(s)
                    BY <2>1, <3>2
                <4>2. Records(s)[i] = [key |-> s[i], count |-> 1]
                    BY <4>1, RecordsTyped
                <4>3. QED BY <2>3, <3>1, <3>2, <4>2
            <3>3. CASE ~(i <= Len(s))
                <4>1. i - Len(s) \in 1..Len(t)
                    BY <2>1, <3>3
                <4>2. Records(t)[i - Len(s)] = [key |-> t[i - Len(s)], count |-> 1]
                    BY <4>1, RecordsTyped
                <4>3. QED BY <2>3, <3>1, <3>3, <4>2
            <3>4. QED BY <3>2, <3>3
        <2>5. QED BY <1>2, <2>2, <2>3, <2>4, SeqEqual
    <1>4. QED BY <1>2, <1>3, CountedConcat

LEMMA RememberedIsNat ==
    ASSUME NEW m \in Image, NEW k \in Keys
    PROVE  Remembered(m, k) \in Nat
    <1>1. Counted(Records(m.working), k) \in Nat /\ Counted(m.compressed, k) \in Nat
        BY ImageFields, RecordsTyped, CountedIsNat
    <1>2. QED BY <1>1 DEF Remembered

LEMMA RememberKeeps ==
    ASSUME NEW m, Sound(m), NEW r \in Keys
    PROVE  /\ Sound(Remember(m, r))
           /\ \A k \in Keys : Remembered(Remember(m, r), k) =
                 Remembered(m, k) + (IF r = k THEN 1 ELSE 0)
    <1>1. m \in Image /\ m.working \in Seq(Keys) /\ m.compressed \in Seq(Summary)
        BY ImageFields DEF Sound
    <1>2. PICK w : w = Append(m.working, r)
        OBVIOUS
    <1>3. w \in Seq(Keys) /\ w = m.working \o <<r>> /\ <<r>> \in Seq(Keys)
        BY <1>1, <1>2, AppendIsConcat
    <1>4. PICK n : n = Remember(m, r)
        OBVIOUS
    <1>5. n = [m EXCEPT !.working = w]
        BY <1>2, <1>4 DEF Remember
    <1>6. n \in Image /\ n.working = w /\ n.compressed = m.compressed
        BY <1>1, <1>3, <1>5 DEF Image
    <1>7. ASSUME NEW k \in Keys
          PROVE  Remembered(n, k) = Remembered(m, k) + (IF r = k THEN 1 ELSE 0)
        <2>1. Counted(Records(w), k) = Counted(Records(m.working), k) + Counted(Records(<<r>>), k)
            BY <1>1, <1>3, RecordsSplit
        <2>2. Counted(Records(<<r>>), k) = IF r = k THEN 1 ELSE 0
            <3>1. PICK x : x = [key |-> r, count |-> 1]
                OBVIOUS
            <3>2. x \in Summary /\ Share(x, k) = IF r = k THEN 1 ELSE 0
                BY <3>1 DEF Summary, Share
            <3>3. Records(<<r>>) = <<x>>
                <4>1. Len(<<r>>) = 1 /\ <<r>>[1] = r
                    OBVIOUS
                <4>2. Records(<<r>>) \in Seq(Summary) /\ Len(Records(<<r>>)) = 1
                      /\ \A i \in 1..1 : Records(<<r>>)[i] = [key |-> <<r>>[i], count |-> 1]
                    BY <1>3, <4>1, RecordsTyped
                <4>3. Records(<<r>>)[1] = x
                    BY <3>1, <4>1, <4>2
                <4>4. QED BY <3>2, <4>2, <4>3
            <3>4. QED BY <3>2, <3>3, CountedOne
        <2>3. /\ Counted(Records(m.working), k) \in Nat /\ Counted(m.compressed, k) \in Nat
            BY <1>1, RecordsTyped, CountedIsNat
        <2>4. QED BY <1>6, <2>1, <2>2, <2>3 DEF Remembered
    <1>8. Sound(n)
        BY <1>6 DEF Sound
    <1>9. QED BY <1>4, <1>7, <1>8

LEMMA ExcessBounds ==
    ASSUME NEW S, NEW s \in Seq(S), NEW budget \in Nat
    PROVE  /\ Excess(s, budget) \in 0..Len(s)
           /\ Len(s) - Excess(s, budget) <= budget
           /\ Excess(s, budget) = 0 <=> Len(s) <= budget
    <1>1. Len(s) \in Nat
        OBVIOUS
    <1>2. QED BY <1>1 DEF Excess

\* Compaction moves records into summaries and drops the oldest ones: every
\* record of a sound image is in the compacted image or in an evicted summary.
LEMMA CompactionKeeps ==
    ASSUME NEW m, Sound(m)
    PROVE  /\ Sound(Compacted(m))
           /\ Evicted(m) \in Seq(Summary)
           /\ Overflow(m) \in Nat
           /\ Overflow(m) = 0 => Compacted(m) = m /\ Evicted(m) = <<>>
           /\ \A k \in Keys :
                 Remembered(m, k) = Remembered(Compacted(m), k) + Counted(Evicted(m), k)
    <1>1. /\ m \in Image /\ m.working \in Seq(Keys) /\ m.compressed \in Seq(Summary)
          /\ Distinct(m.compressed) /\ Len(m.compressed) <= CompressedBudget
        BY ImageFields DEF Sound
    <1>2. PICK n : n = Overflow(m)
        OBVIOUS
    <1>3. PICK w : w = m.working
        OBVIOUS
    <1>4. PICK t : t = Summaries(m)
        OBVIOUS
    <1>5. PICK e : e = Excess(t, CompressedBudget)
        OBVIOUS
    <1>6. n \in 0..Len(w) /\ w \in Seq(Keys) /\ n \in Nat /\ Len(w) \in Nat
        <2>1. n \in 0..Len(w) /\ w \in Seq(Keys) /\ Len(w) \in Nat
            BY <1>1, <1>2, <1>3, Budgets, ExcessBounds DEF Overflow
        <2>2. QED BY <2>1
    <1>7. PICK old : old = SubSeq(w, 1, n)
        OBVIOUS
    <1>8. PICK young : young = SubSeq(w, n + 1, Len(w))
        OBVIOUS
    <1>9. old \in Seq(Keys) /\ young \in Seq(Keys) /\ w = old \o young
        BY <1>6, <1>7, <1>8, SplitAt
    <1>10. t = FoldLeft(Summarise, m.compressed, old)
        BY <1>2, <1>3, <1>4, <1>7 DEF Summaries
    <1>11. /\ t \in Seq(Summary) /\ Distinct(t)
           /\ \A k \in Keys : Counted(t, k) = Counted(m.compressed, k) + Counted(Records(old), k)
        <2>1. ASSUME NEW k \in Keys
              PROVE  /\ t \in Seq(Summary) /\ Distinct(t)
                     /\ Counted(t, k) = Counted(m.compressed, k) + Counted(Records(old), k)
            BY <1>1, <1>9, <1>10, Summarised
        <2>2. ASSUME Keys = {} PROVE t \in Seq(Summary) /\ Distinct(t)
            <3>1. PICK acc : SummaryRun(acc, m.compressed, old) /\ t = acc[Len(old)]
                BY <1>1, <1>9, <1>10, SummariesInSteps
            <3>2. Len(old) = 0
                BY <1>9, <2>2
            <3>3. QED BY <1>1, <3>1, <3>2 DEF SummaryRun
        <2>3. QED BY <2>1, <2>2
    <1>12. e \in 0..Len(t) /\ Len(t) - e <= CompressedBudget /\ Len(t) \in Nat
        BY <1>5, <1>11, Budgets, ExcessBounds
    <1>13. PICK out : out = SubSeq(t, 1, e)
        OBVIOUS
    <1>14. PICK kept : kept = SubSeq(t, e + 1, Len(t))
        OBVIOUS
    <1>15. /\ out \in Seq(Summary) /\ kept \in Seq(Summary) /\ t = out \o kept
           /\ Len(kept) = Len(t) - e /\ \A i \in 1..(Len(t) - e) : kept[i] = t[e + i]
        BY <1>11, <1>12, <1>13, <1>14, SplitAt
    <1>16. Distinct(kept)
        <2>1. /\ DOMAIN kept = 1..(Len(t) - e) /\ DOMAIN t = 1..Len(t)
            BY <1>11, <1>15, LenProperties
        <2>2. \A i \in 1..(Len(t) - e) : e + i \in 1..Len(t)
            BY <1>12
        <2>3. ASSUME NEW i \in 1..(Len(t) - e), NEW j \in 1..(Len(t) - e), kept[i].key = kept[j].key
              PROVE  i = j
            <3>1. PICK a : a = e + i
                OBVIOUS
            <3>2. PICK b : b = e + j
                OBVIOUS
            <3>3. a \in DOMAIN t /\ b \in DOMAIN t /\ t[a].key = t[b].key
                BY <1>15, <2>1, <2>2, <2>3, <3>1, <3>2
            <3>4. a = b
                BY <1>11, <3>3 DEF Distinct
            <3>5. QED BY <1>12, <3>1, <3>2, <3>4
        <2>4. QED BY <2>1, <2>3 DEF Distinct
    <1>17. Evicted(m) = out
        BY <1>4, <1>5, <1>13 DEF Evicted
    <1>18. CASE n = 0
        <2>1. Compacted(m) = m
            BY <1>2, <1>18 DEF Compacted
        <2>2. out = <<>>
            <3>1. old = <<>>
                BY <1>6, <1>7, <1>18, SubSeqEmpty
            <3>2. PICK acc : SummaryRun(acc, m.compressed, old) /\ t = acc[Len(old)]
                BY <1>1, <1>9, <1>10, SummariesInSteps
            <3>3. t = m.compressed
                BY <3>1, <3>2 DEF SummaryRun
            <3>4. e = 0
                BY <1>1, <1>5, <3>3, Budgets, ExcessBounds
            <3>5. QED BY <1>13, <3>4, SubSeqEmpty
        <2>3. \A k \in Keys : Remembered(m, k) = Remembered(m, k) + Counted(<<>>, k)
            BY <1>1, RememberedIsNat, CountedEmpty
        <2>4. QED BY <1>2, <1>6, <1>15, <1>17, <2>1, <2>2, <2>3
    <1>19. CASE n # 0
        <2>1. PICK c : c = Compacted(m)
            OBVIOUS
        <2>2. c = [working |-> young, compressed |-> kept]
            BY <1>2, <1>3, <1>4, <1>5, <1>8, <1>14, <1>19, <2>1 DEF Compacted
        <2>3. c \in Image /\ c.working = young /\ c.compressed = kept
            BY <1>9, <1>15, <2>2 DEF Image
        <2>4. Sound(c)
            BY <1>12, <1>15, <1>16, <2>3 DEF Sound
        <2>5. ASSUME NEW k \in Keys PROVE Remembered(m, k) = Remembered(c, k) + Counted(out, k)
            <3>1. Counted(Records(w), k) = Counted(Records(old), k) + Counted(Records(young), k)
                BY <1>9, RecordsSplit
            <3>2. Counted(t, k) = Counted(out, k) + Counted(kept, k)
                BY <1>15, CountedConcat
            <3>3. Counted(t, k) = Counted(m.compressed, k) + Counted(Records(old), k)
                BY <1>11
            <3>4. /\ Counted(Records(old), k) \in Nat /\ Counted(Records(young), k) \in Nat
                  /\ Counted(out, k) \in Nat /\ Counted(kept, k) \in Nat
                  /\ Counted(m.compressed, k) \in Nat
                BY <1>1, <1>9, <1>15, RecordsTyped, CountedIsNat
            <3>5. /\ Remembered(m, k) = Counted(Records(w), k) + Counted(m.compressed, k)
                  /\ Remembered(c, k) = Counted(Records(young), k) + Counted(kept, k)
                BY <1>3, <2>3 DEF Remembered
            <3>6. QED BY <3>1, <3>2, <3>3, <3>4, <3>5
        <2>6. QED BY <1>2, <1>6, <1>15, <1>17, <1>19, <2>1, <2>4, <2>5
    <1>20. QED BY <1>18, <1>19

-----------------------------------------------------------------------------
(***************************************************************************)
(* One cell and its journal.                                               *)
(***************************************************************************)

\* What ReceiptsNumbered says of one cell.
Numbered(m, undamaged) ==
    /\ \A i, j \in DOMAIN m.finals : m.finals[i] = m.finals[j] => i = j
    /\ undamaged =>
          /\ \A i \in DOMAIN m.finals : m.finals[i].generation = i
          /\ Len(m.finals) - m.generation \in IF Pending(m) THEN {0, 1} ELSE {0}

Good(m, undamaged) ==
    /\ m \in CellMemory
    /\ CellInv(m, undamaged) /\ LastReceipt(m, undamaged) /\ Numbered(m, undamaged)

LEMMA MaxOfTwo ==
    ASSUME NEW m \in Nat, NEW n \in Nat
    PROVE  Max({m, n}) = IF m <= n THEN n ELSE m
    <1>1. \E x \in {m, n} : \A y \in {m, n} : x >= y
        OBVIOUS
    <1>2. Max({m, n}) \in {m, n} /\ \A y \in {m, n} : Max({m, n}) >= y
        BY <1>1 DEF Max
    <1>3. QED BY <1>2

LEMMA CellFields ==
    ASSUME NEW m \in CellMemory
    PROVE  /\ m.arrays \in Image /\ m.diverged \in BOOLEAN /\ m.repair \in BOOLEAN
           /\ m.journal \in Journal \cup {NoJournal} /\ m.generation \in Nat
           /\ m.finals \in Seq(CompactionId)
           /\ Pending(m) =>
                 /\ m.journal \in Journal /\ m.journal.generation \in Nat
                 /\ m.journal.before \in Image /\ m.journal.after \in Image
                 /\ m.journal.beforeIntact \in BOOLEAN /\ m.journal.afterIntact \in BOOLEAN
                 /\ IdOf(m.journal) \in CompactionId
                 /\ IdOf(m.journal).generation = m.journal.generation
    <1>1. /\ m.arrays \in Image /\ m.journal \in Journal \cup {NoJournal} /\ m.generation \in Nat
          /\ m.finals \in Seq(CompactionId)
        BY DEF CellMemory
    <1>2. m.diverged \in BOOLEAN /\ m.repair \in BOOLEAN
        BY DEF CellMemory
    <1>3. ASSUME Pending(m)
          PROVE  /\ m.journal \in Journal /\ m.journal.generation \in Nat
                 /\ m.journal.before \in Image /\ m.journal.after \in Image
                 /\ IdOf(m.journal) \in CompactionId
                 /\ IdOf(m.journal).generation = m.journal.generation
        BY <1>1, <1>3 DEF Pending, Journal, IdOf, CompactionId
    <1>4. ASSUME Pending(m)
          PROVE  m.journal.beforeIntact \in BOOLEAN /\ m.journal.afterIntact \in BOOLEAN
        <2>1. m.journal \in Journal
            BY <1>3, <1>4
        <2>2. QED BY <2>1 DEF Journal
    <1>5. QED BY <1>1, <1>2, <1>3, <1>4

LEMMA SwappedFields ==
    ASSUME NEW m \in CellMemory, Pending(m)
    PROVE  LET c == CompressedSwapped(WorkingSwapped(m)) IN
             /\ c \in CellMemory /\ c.arrays = m.journal.after
             /\ c.diverged = m.diverged /\ c.repair = m.repair /\ c.journal = m.journal
             /\ c.generation = m.generation /\ c.finals = m.finals
    <1>1. PICK w : w = WorkingSwapped(m)
        OBVIOUS
    <1>2. PICK c : c = CompressedSwapped(w)
        OBVIOUS
    <1>3. /\ w \in CellMemory /\ w.arrays.working = m.journal.after.working
          /\ w.diverged = m.diverged /\ w.repair = m.repair /\ w.journal = m.journal
          /\ w.generation = m.generation /\ w.finals = m.finals
        BY <1>1, CellFields DEF WorkingSwapped, CellMemory, Image
    <1>4. /\ c \in CellMemory /\ c.arrays.working = w.arrays.working
          /\ c.arrays.compressed = m.journal.after.compressed
          /\ c.diverged = m.diverged /\ c.repair = m.repair /\ c.journal = m.journal
          /\ c.generation = m.generation /\ c.finals = m.finals
        BY <1>2, <1>3, CellFields DEF CompressedSwapped, CellMemory, Image
    <1>5. c.arrays = m.journal.after
        BY <1>3, <1>4, CellFields, ImageFields
    <1>6. QED BY <1>1, <1>2, <1>4, <1>5

LEMMA ReceiptedFields ==
    ASSUME NEW m \in CellMemory, Pending(m)
    PROVE  LET r == Receipted(m) IN
             /\ r \in CellMemory /\ r.arrays = m.arrays /\ r.diverged = m.diverged
             /\ r.repair = m.repair /\ r.journal = m.journal /\ r.generation = m.generation
             /\ r.finals = IF IdOf(m.journal) \in Range(m.finals)
                             THEN m.finals ELSE Append(m.finals, IdOf(m.journal))
    <1>1. CASE IdOf(m.journal) \in Range(m.finals)
        BY <1>1 DEF Receipted
    <1>2. CASE IdOf(m.journal) \notin Range(m.finals)
        <2>1. PICK f : f = Append(m.finals, IdOf(m.journal))
            OBVIOUS
        <2>2. f \in Seq(CompactionId)
            BY <2>1, CellFields, AppendProperties
        <2>3. Receipted(m) = [m EXCEPT !.finals = f]
            BY <1>2, <2>1 DEF Receipted
        <2>4. QED BY <1>2, <2>1, <2>2, <2>3 DEF CellMemory
    <1>3. QED BY <1>1, <1>2

LEMMA NoJournalIsNone == NoJournal \notin Journal
    <1>1. DOMAIN NoJournal = {"generation"}
        BY DEF NoJournal
    <1>2. \A j \in Journal : "before" \in DOMAIN j
        BY DEF Journal
    <1>3. QED BY <1>1, <1>2

LEMMA ClearedFields ==
    ASSUME NEW m \in CellMemory, Pending(m)
    PROVE  LET r == Cleared(m) IN
             /\ r \in CellMemory /\ r.arrays = m.arrays /\ r.diverged = FALSE
             /\ r.repair = FALSE /\ r.journal = NoJournal /\ ~Pending(r) /\ r.finals = m.finals
             /\ r.generation = IF m.generation <= m.journal.generation
                                 THEN m.journal.generation ELSE m.generation
    <1>1. PICK g : g = Max({m.generation, m.journal.generation})
        OBVIOUS
    <1>2. /\ g \in Nat /\ g = IF m.generation <= m.journal.generation
                                THEN m.journal.generation ELSE m.generation
        BY <1>1, CellFields, MaxOfTwo
    <1>3. PICK r : r = Cleared(m)
        OBVIOUS
    <1>4. r = [m EXCEPT !.generation = g, !.repair = FALSE, !.journal = NoJournal,
                        !.diverged = FALSE]
        BY <1>1, <1>3 DEF Cleared
    <1>5. /\ r \in CellMemory /\ r.arrays = m.arrays /\ r.diverged = FALSE
          /\ r.repair = FALSE /\ r.journal = NoJournal /\ r.finals = m.finals /\ r.generation = g
        BY <1>2, <1>4 DEF CellMemory
    <1>6. QED BY <1>2, <1>3, <1>5 DEF Pending

LEMMA RolledBackFields ==
    ASSUME NEW m \in CellMemory, Pending(m)
    PROVE  LET r == RolledBack(m) IN
             /\ r \in CellMemory /\ r.arrays = m.journal.before /\ r.diverged = FALSE
             /\ r.repair = FALSE /\ r.journal = NoJournal /\ ~Pending(r) /\ r.finals = m.finals
             /\ r.generation = m.generation
    <1>1. PICK b : b = m.journal.before
        OBVIOUS
    <1>2. b \in Image
        BY <1>1, CellFields
    <1>3. PICK r : r = RolledBack(m)
        OBVIOUS
    <1>4. r = [m EXCEPT !.arrays = b, !.journal = NoJournal, !.repair = FALSE, !.diverged = FALSE]
        BY <1>1, <1>3 DEF RolledBack
    <1>5. /\ r \in CellMemory /\ r.arrays = b /\ r.diverged = FALSE
          /\ r.repair = FALSE /\ r.journal = NoJournal /\ r.finals = m.finals
          /\ r.generation = m.generation
        BY <1>2, <1>4 DEF CellMemory
    <1>6. QED BY <1>1, <1>3, <1>5 DEF Pending

LEMMA PreparedFields ==
    ASSUME NEW m \in CellMemory, Sound(m.arrays)
    PROVE  LET p == Prepared(m) IN
             /\ p \in CellMemory /\ p.arrays = m.arrays /\ p.diverged = m.diverged
             /\ p.repair = m.repair /\ Pending(p) /\ p.finals = m.finals
             /\ p.generation = m.generation /\ p.journal.generation = m.generation + 1
             /\ p.journal.before = m.arrays /\ p.journal.after = Compacted(m.arrays)
             /\ p.journal.beforeIntact = TRUE /\ p.journal.afterIntact = TRUE
    <1>1. PICK a : a = Compacted(m.arrays)
        OBVIOUS
    <1>2. a \in Image
        BY <1>1, CompactionKeeps DEF Sound
    <1>3. PICK j : j = [generation |-> m.generation + 1, before |-> m.arrays, after |-> a,
                        beforeIntact |-> TRUE, afterIntact |-> TRUE]
        OBVIOUS
    <1>4. j \in Journal
        BY <1>2, <1>3, CellFields DEF Journal
    <1>5. PICK p : p = Prepared(m)
        OBVIOUS
    <1>6. p = [m EXCEPT !.journal = j]
        BY <1>1, <1>3, <1>5 DEF Prepared
    <1>7. /\ p \in CellMemory /\ p.arrays = m.arrays /\ p.diverged = m.diverged
          /\ p.repair = m.repair /\ p.finals = m.finals /\ p.generation = m.generation
          /\ p.journal = j
        BY <1>4, <1>6 DEF CellMemory
    <1>8. Pending(p)
        BY <1>4, <1>7, NoJournalIsNone DEF Pending
    <1>9. /\ j.generation = m.generation + 1 /\ j.before = m.arrays /\ j.after = a
          /\ j.beforeIntact = TRUE /\ j.afterIntact = TRUE
        BY <1>3
    <1>10. QED BY <1>1, <1>5, <1>7, <1>8, <1>9

\* With its receipt written, a pending compaction is the last one receipted, and
\* nothing is receipted twice.
LEMMA ReceiptWritten ==
    ASSUME NEW m \in CellMemory, Pending(m), m.journal.generation = m.generation + 1,
           NEW undamaged \in BOOLEAN, Numbered(m, undamaged), LastReceipt(m, undamaged),
           NEW f, f = Receipted(m).finals
    PROVE  /\ \A i, j \in DOMAIN f : f[i] = f[j] => i = j
           /\ undamaged =>
                 /\ \A i \in DOMAIN f : f[i].generation = i
                 /\ Len(f) = m.generation + 1
                 /\ f[Len(f)] = IdOf(m.journal)
    <1>1. PICK s : s = m.finals
        OBVIOUS
    <1>2. PICK x : x = IdOf(m.journal)
        OBVIOUS
    <1>3. /\ s \in Seq(CompactionId) /\ x \in CompactionId /\ x.generation = m.generation + 1
          /\ m.generation \in Nat /\ Len(s) \in Nat /\ DOMAIN s = 1..Len(s)
        BY <1>1, <1>2, CellFields, LenProperties
    <1>4. /\ \A i, j \in DOMAIN s : s[i] = s[j] => i = j
          /\ undamaged =>
                /\ \A i \in DOMAIN s : s[i].generation = i
                /\ Len(s) = m.generation \/ Len(s) = m.generation + 1
                /\ Len(s) = m.generation + 1 => s[Len(s)] = x
        <2>1. \A i, j \in DOMAIN s : s[i] = s[j] => i = j
            BY <1>1 DEF Numbered
        <2>2. ASSUME undamaged
              PROVE  (\A i \in DOMAIN s : s[i].generation = i) /\ Len(s) - m.generation \in {0, 1}
            BY <1>1, <2>2 DEF Numbered
        <2>3. ASSUME undamaged PROVE Len(s) = m.generation \/ Len(s) = m.generation + 1
            BY <1>3, <2>2, <2>3
        <2>4. ASSUME undamaged, Len(s) = m.generation + 1 PROVE s[Len(s)] = x
            BY <1>1, <1>2, <2>4 DEF LastReceipt
        <2>5. QED BY <2>1, <2>2, <2>3, <2>4
    <1>5. f = IF x \in Range(s) THEN s ELSE Append(s, x)
        BY <1>1, <1>2, ReceiptedFields
    <1>6. CASE x \in Range(s)
        <2>1. PICK i \in 1..Len(s) : s[i] = x
            BY <1>3, <1>6 DEF Range
        <2>2. ASSUME undamaged PROVE Len(s) = m.generation + 1
            <3>1. i = m.generation + 1
                BY <1>3, <1>4, <2>1, <2>2
            <3>2. QED BY <1>3, <1>4, <2>1, <2>2, <3>1
        <2>3. QED BY <1>2, <1>4, <1>5, <1>6, <2>2
    <1>7. CASE x \notin Range(s)
        <2>1. f = Append(s, x)
            BY <1>5, <1>7
        <2>2. /\ DOMAIN f = 1..(Len(s) + 1) /\ Len(f) = Len(s) + 1 /\ f[Len(s) + 1] = x
              /\ \A i \in 1..Len(s) : f[i] = s[i]
            BY <1>3, <2>1, AppendProperties
        <2>3. \A i \in 1..Len(s) : s[i] # x
            BY <1>3, <1>7 DEF Range
        <2>4. ASSUME NEW i \in 1..(Len(s) + 1), NEW j \in 1..(Len(s) + 1), f[i] = f[j] PROVE i = j
            <3>1. CASE i \in 1..Len(s) /\ j \in 1..Len(s)
                BY <1>3, <1>4, <2>2, <2>4, <3>1
            <3>2. CASE i = Len(s) + 1 /\ j \in 1..Len(s)
                BY <2>2, <2>3, <2>4, <3>2
            <3>3. CASE i \in 1..Len(s) /\ j = Len(s) + 1
                BY <2>2, <2>3, <2>4, <3>3
            <3>4. CASE i = Len(s) + 1 /\ j = Len(s) + 1
                BY <3>4
            <3>5. QED BY <1>3, <3>1, <3>2, <3>3, <3>4
        <2>5. ASSUME undamaged PROVE Len(s) = m.generation
            <3>1. CASE Len(s) = m.generation + 1
                BY <1>3, <1>4, <2>3, <2>5, <3>1
            <3>2. QED BY <1>4, <2>5, <3>1
        <2>6. ASSUME undamaged, NEW i \in 1..(Len(s) + 1) PROVE f[i].generation = i
            <3>1. CASE i \in 1..Len(s)
                BY <1>3, <1>4, <2>2, <2>6, <3>1
            <3>2. CASE i = Len(s) + 1
                BY <1>3, <2>2, <2>5, <2>6, <3>2
            <3>3. QED BY <1>3, <3>1, <3>2
        <2>7. QED BY <1>2, <2>2, <2>4, <2>5, <2>6
    <1>8. QED BY <1>6, <1>7

\* What recovery makes of a cell, and that every record of it is still there or
\* was in a summary that the compaction evicts.
LEMMA RecoveredKeeps ==
    ASSUME NEW m, NEW undamaged \in BOOLEAN, Good(m, undamaged)
    PROVE  LET r == Recovered(m) IN
             /\ Good(r, undamaged)
             /\ ~Pending(m) => r = m /\ ~r.repair
             /\ Pending(m) /\ ~m.journal.beforeIntact =>
                   r = [m EXCEPT !.repair = TRUE] /\ r.repair /\ Pending(r)
             /\ Pending(m) /\ m.journal.beforeIntact =>
                   /\ ~Pending(r) /\ ~r.repair
                   /\ r.arrays = IF RollsForward(m) THEN Compacted(m.journal.before)
                                                    ELSE m.journal.before
             /\ undamaged /\ Pending(m) => RollsForward(m)
             /\ Evicted(Settled(m)) \in Seq(Summary)
             /\ DroppedByRecovery(m) \in Seq(Summary)
             /\ \A k \in Keys : Remembered(Settled(m), k) =
                   Remembered(Settled(r), k) + Counted(DroppedByRecovery(m), k)
    <1> DEFINE r == Recovered(m)
    <1>1. /\ m \in CellMemory /\ CellInv(m, undamaged) /\ LastReceipt(m, undamaged)
          /\ Numbered(m, undamaged)
        BY DEF Good
    <1>2. Sound(Settled(m)) /\ Settled(m) \in Image
        BY <1>1 DEF CellInv, Settled, JournalOf, Sound
    <1>3. /\ Evicted(Settled(m)) \in Seq(Summary)
          /\ \A k \in Keys : Remembered(Settled(m), k) \in Nat
        BY <1>2, CompactionKeeps, RememberedIsNat
    <1>4. /\ <<>> \in Seq(Summary)
          /\ \A k \in Keys : Remembered(Settled(m), k) =
                Remembered(Settled(m), k) + Counted(<<>>, k)
        BY <1>3, CountedEmpty
    <1>5. undamaged /\ Pending(m) => RollsForward(m)
        BY <1>1 DEF CellInv, Undamaged, JournalOf, RollsForward, Recognised
    <1>6. CASE ~Pending(m)
        <2>1. r = m /\ DroppedByRecovery(m) = <<>> /\ ~m.repair
            BY <1>1, <1>6 DEF Recovered, DroppedByRecovery, CellInv
        <2>2. QED BY <1>1, <1>3, <1>4, <1>6, <2>1 DEF Good
    <1>7. CASE Pending(m) /\ ~m.journal.beforeIntact
        <2>1. r = [m EXCEPT !.repair = TRUE] /\ DroppedByRecovery(m) = <<>>
            BY <1>7 DEF Recovered, DroppedByRecovery, RollsForward
        <2>2. /\ r \in CellMemory /\ r.arrays = m.arrays /\ r.diverged = m.diverged /\ r.repair
              /\ r.journal = m.journal /\ r.generation = m.generation /\ r.finals = m.finals
            BY <1>1, <2>1 DEF CellMemory
        <2> HIDE DEF r
        <2>3. Pending(r) /\ Settled(r) = Settled(m)
            BY <1>7, <2>2 DEF Pending, Settled
        <2>4. JournalOf(r)
            BY <1>1, <1>7, <2>2 DEF CellInv, JournalOf
        <2>5. CellInv(r, undamaged)
            BY <1>1, <1>7, <2>2, <2>3, <2>4 DEF CellInv, Undamaged
        <2>6. LastReceipt(r, undamaged) /\ Numbered(r, undamaged)
            BY <1>1, <1>7, <2>2, <2>3 DEF LastReceipt, Numbered
        <2>7. Good(r, undamaged)
            BY <2>2, <2>5, <2>6 DEF Good
        <2>8. QED BY <1>3, <1>4, <1>5, <1>7, <2>1, <2>2, <2>3, <2>7 DEF r
    <1>8. CASE Pending(m) /\ m.journal.beforeIntact /\ RollsForward(m)
        <2>1. PICK c : c = CompressedSwapped(WorkingSwapped(m))
            OBVIOUS
        <2>2. PICK d : d = Receipted(c)
            OBVIOUS
        <2>3. r = Cleared(d)
            BY <1>8, <2>1, <2>2 DEF Recovered
        <2>4. /\ JournalOf(m) /\ m.journal.generation = m.generation + 1
              /\ Sound(m.journal.before) /\ m.journal.after = Compacted(m.journal.before)
              /\ Settled(m) = m.journal.before
            BY <1>1, <1>8 DEF CellInv, JournalOf, Settled
        <2>5. /\ c \in CellMemory /\ Pending(c) /\ c.arrays = m.journal.after
              /\ c.diverged = m.diverged /\ c.repair = m.repair /\ c.journal = m.journal
              /\ c.generation = m.generation /\ c.finals = m.finals
            BY <1>1, <1>8, <2>1, SwappedFields DEF Pending
        <2>6. /\ d \in CellMemory /\ Pending(d) /\ d.arrays = m.journal.after
              /\ d.journal = m.journal /\ d.generation = m.generation
            BY <2>2, <2>5, ReceiptedFields DEF Pending
        <2>7. LastReceipt(c, undamaged) /\ Numbered(c, undamaged)
            BY <1>1, <1>8, <2>5 DEF LastReceipt, Numbered
        <2>8. /\ \A i, j \in DOMAIN d.finals : d.finals[i] = d.finals[j] => i = j
              /\ undamaged => /\ \A i \in DOMAIN d.finals : d.finals[i].generation = i
                              /\ Len(d.finals) = m.generation + 1
            BY <2>2, <2>4, <2>5, <2>7, ReceiptWritten
        <2>9. m.generation \in Nat
            BY <1>1, CellFields
        <2>10. /\ r \in CellMemory /\ r.arrays = m.journal.after /\ r.diverged = FALSE
               /\ r.repair = FALSE /\ ~Pending(r) /\ r.finals = d.finals
               /\ r.generation = m.generation + 1
            <3>1. d.generation <= d.journal.generation /\ d.journal.generation = m.generation + 1
                BY <2>4, <2>6, <2>9
            <3>2. /\ r \in CellMemory /\ r.arrays = d.arrays /\ r.diverged = FALSE
                  /\ r.repair = FALSE /\ ~Pending(r) /\ r.finals = d.finals
                  /\ r.generation = IF d.generation <= d.journal.generation
                                      THEN d.journal.generation ELSE d.generation
                <4> HIDE DEF r
                <4>1. QED BY <2>3, <2>6, ClearedFields, Zenon
            <3> HIDE DEF r
            <3>3. QED BY <2>6, <3>1, <3>2
        <2> HIDE DEF r
        <2>11. Sound(r.arrays)
            BY <2>4, <2>10, CompactionKeeps
        <2>12. CellInv(r, undamaged)
            BY <2>10, <2>11 DEF CellInv, Undamaged
        <2>13. LastReceipt(r, undamaged) /\ Numbered(r, undamaged)
            BY <2>8, <2>9, <2>10 DEF LastReceipt, Numbered
        <2>14. Good(r, undamaged)
            BY <2>10, <2>12, <2>13 DEF Good
        <2>15. DroppedByRecovery(m) = Evicted(m.journal.before)
            BY <1>8 DEF DroppedByRecovery
        <2>16. Settled(r) = Compacted(m.journal.before)
            BY <2>4, <2>10 DEF Settled
        <2>17. \A k \in Keys : Remembered(Settled(m), k) =
                  Remembered(Settled(r), k) + Counted(DroppedByRecovery(m), k)
            BY <2>4, <2>15, <2>16, CompactionKeeps
        <2>18. QED BY <1>3, <1>5, <1>8, <2>4, <2>10, <2>14, <2>15, <2>17 DEF r
    <1>9. CASE Pending(m) /\ m.journal.beforeIntact /\ ~RollsForward(m)
        <2>1. r = RolledBack(m) /\ DroppedByRecovery(m) = <<>>
            BY <1>9 DEF Recovered, DroppedByRecovery
        <2>2. /\ r \in CellMemory /\ r.arrays = m.journal.before /\ r.diverged = FALSE
              /\ r.repair = FALSE /\ ~Pending(r) /\ r.finals = m.finals
              /\ r.generation = m.generation
            BY <1>1, <1>9, <2>1, RolledBackFields
        <2> HIDE DEF r
        <2>3. ~undamaged
            BY <1>5, <1>9
        <2>4. Settled(m) = m.journal.before /\ Settled(r) = m.journal.before
            BY <1>9, <2>2 DEF Settled
        <2>5. CellInv(r, undamaged)
            BY <1>2, <2>2, <2>3, <2>4 DEF CellInv
        <2>6. LastReceipt(r, undamaged) /\ Numbered(r, undamaged)
            BY <1>1, <2>2, <2>3 DEF LastReceipt, Numbered
        <2>7. Good(r, undamaged)
            BY <2>2, <2>5, <2>6 DEF Good
        <2>8. QED BY <1>3, <1>4, <1>9, <2>1, <2>2, <2>3, <2>4, <2>7 DEF r
    <1>10. QED BY <1>6, <1>7, <1>8, <1>9

\* A compaction up to an interruption leaves a journal that rolls forward.
LEMMA InterruptedKeeps ==
    ASSUME NEW m, NEW undamaged \in BOOLEAN, Good(m, undamaged), ~Pending(m), ~m.repair,
           Overflow(m.arrays) > 0, NEW point \in Points
    PROVE  LET n == CompactedUntil(m, point) IN
             /\ Good(n, undamaged)
             /\ Pending(n) /\ ~n.repair /\ n.journal.before = m.arrays
             /\ n.journal.after = Compacted(m.arrays) /\ RollsForward(n)
             /\ point = "AFTER_COMMIT_RECEIPT" =>
                   /\ n.arrays = Compacted(m.arrays) /\ n.generation = m.generation
                   /\ n.journal.generation = m.generation + 1
                   /\ undamaged => Len(n.finals) = m.generation + 1
    <1>1. /\ m \in CellMemory /\ CellInv(m, undamaged) /\ LastReceipt(m, undamaged)
          /\ Numbered(m, undamaged)
        BY DEF Good
    <1>2. Sound(m.arrays) /\ ~m.diverged /\ m.generation \in Nat
        BY <1>1, CellFields DEF CellInv
    <1>3. PICK p : p = Prepared(m)
        OBVIOUS
    <1>4. PICK w : w = WorkingSwapped(p)
        OBVIOUS
    <1>5. PICK c : c = CompressedSwapped(w)
        OBVIOUS
    <1>6. PICK d : d = Receipted(c)
        OBVIOUS
    <1>7. PICK n : n = CompactedUntil(m, point)
        OBVIOUS
    <1>8. n \in {p, w, c, d} /\ (point = "AFTER_COMMIT_RECEIPT" => n = d)
        BY <1>3, <1>4, <1>5, <1>6, <1>7 DEF CompactedUntil, Points
    <1>9. PICK a : a = Compacted(m.arrays)
        OBVIOUS
    <1>10. /\ p \in CellMemory /\ p.arrays = m.arrays /\ p.diverged = m.diverged
           /\ p.repair = m.repair /\ Pending(p) /\ p.finals = m.finals
           /\ p.generation = m.generation /\ p.journal.generation = m.generation + 1
           /\ p.journal.before = m.arrays /\ p.journal.after = a
           /\ p.journal.beforeIntact = TRUE /\ p.journal.afterIntact = TRUE
        BY <1>1, <1>2, <1>3, <1>9, PreparedFields
    <1>11. /\ w \in CellMemory /\ w.arrays.working = a.working
           /\ w.arrays.compressed = m.arrays.compressed /\ w.diverged = m.diverged
           /\ w.repair = m.repair /\ w.journal = p.journal
           /\ w.generation = m.generation /\ w.finals = m.finals
        BY <1>4, <1>10, CellFields DEF WorkingSwapped, CellMemory, Image
    <1>12. /\ c \in CellMemory /\ c.arrays = a /\ c.diverged = m.diverged
           /\ c.repair = m.repair /\ c.journal = p.journal
           /\ c.generation = m.generation /\ c.finals = m.finals
        BY <1>4, <1>5, <1>10, SwappedFields
    <1>13. Pending(w) /\ Pending(c)
        BY <1>10, <1>11, <1>12 DEF Pending
    <1>14. /\ d \in CellMemory /\ d.arrays = a /\ d.diverged = m.diverged
           /\ d.repair = m.repair /\ d.journal = p.journal
           /\ d.generation = m.generation /\ Pending(d)
        BY <1>6, <1>12, <1>13, ReceiptedFields DEF Pending
    <1>15. Sound(a)
        BY <1>2, <1>9, CompactionKeeps
    <1>16. /\ n \in CellMemory /\ n.journal = p.journal /\ Pending(n) /\ ~n.repair /\ ~n.diverged
           /\ n.generation = m.generation
           /\ n.arrays.working \in {m.arrays.working, a.working}
           /\ n.arrays.compressed \in {m.arrays.compressed, a.compressed}
        BY <1>2, <1>8, <1>10, <1>11, <1>12, <1>13, <1>14
    <1>17. Sound(n.arrays)
        <2>1. n.arrays \in Image
            BY <1>16, CellFields
        <2>2. /\ Distinct(n.arrays.compressed)
              /\ Len(n.arrays.compressed) <= CompressedBudget
            BY <1>2, <1>15, <1>16 DEF Sound
        <2>3. QED BY <2>1, <2>2 DEF Sound
    <1>18. JournalOf(n)
        BY <1>2, <1>9, <1>10, <1>16 DEF JournalOf
    <1>19. CellInv(n, undamaged)
        BY <1>10, <1>16, <1>17, <1>18 DEF CellInv, Undamaged
    <1>20. LastReceipt(c, undamaged) /\ Numbered(c, undamaged)
        <2>1. undamaged => Len(c.finals) = m.generation
            <3>1. undamaged => Len(m.finals) - m.generation = 0
                BY <1>1 DEF Numbered
            <3>2. Len(m.finals) \in Nat
                BY <1>1, CellFields, LenProperties
            <3>3. QED BY <1>2, <1>12, <3>1, <3>2
        <2>2. LastReceipt(c, undamaged)
            BY <1>2, <1>12, <2>1 DEF LastReceipt
        <2>3. Numbered(c, undamaged)
            BY <1>1, <1>2, <1>12, <1>13, <2>1 DEF Numbered
        <2>4. QED BY <2>2, <2>3
    <1>21. LastReceipt(d, undamaged) /\ Numbered(d, undamaged)
           /\ (undamaged => Len(d.finals) = m.generation + 1)
        <2>1. /\ \A i, j \in DOMAIN d.finals : d.finals[i] = d.finals[j] => i = j
              /\ undamaged =>
                    /\ \A i \in DOMAIN d.finals : d.finals[i].generation = i
                    /\ Len(d.finals) = m.generation + 1
                    /\ d.finals[Len(d.finals)] = IdOf(p.journal)
            BY <1>6, <1>10, <1>12, <1>13, <1>20, ReceiptWritten
        <2>2. QED BY <1>2, <1>14, <2>1 DEF LastReceipt, Numbered
    <1>22. LastReceipt(n, undamaged) /\ Numbered(n, undamaged)
        <2>1. CASE n = d
            BY <1>21, <2>1
        <2>2. CASE n # d
            <3>1. n.finals = c.finals /\ n.generation = c.generation /\ n.journal = c.journal
                BY <1>8, <1>10, <1>11, <1>12, <2>2
            <3>2. QED BY <1>13, <1>16, <1>20, <3>1 DEF LastReceipt, Numbered
        <2>3. QED BY <2>1, <2>2
    <1>23. Good(n, undamaged)
        BY <1>16, <1>19, <1>22 DEF Good
    <1>24. RollsForward(n)
        BY <1>10, <1>16, <1>18 DEF RollsForward, Recognised, JournalOf
    <1>25. QED BY <1>7, <1>8, <1>9, <1>10, <1>14, <1>16, <1>21, <1>23, <1>24

\* A compaction that is not interrupted.
LEMMA CompactedFullyKeeps ==
    ASSUME NEW m, NEW undamaged \in BOOLEAN, Good(m, undamaged), ~Pending(m), ~m.repair
    PROVE  LET n == CompactedFully(m) IN
             /\ Good(n, undamaged)
             /\ ~Pending(n) /\ ~n.repair /\ n.arrays = Compacted(m.arrays)
    <1>1. /\ m \in CellMemory /\ CellInv(m, undamaged)
        BY DEF Good
    <1>2. Sound(m.arrays) /\ ~m.diverged /\ m.generation \in Nat
        BY <1>1, CellFields DEF CellInv
    <1>3. CASE Overflow(m.arrays) = 0
        BY <1>2, <1>3, CompactionKeeps DEF CompactedFully
    <1>4. CASE Overflow(m.arrays) # 0
        <2>1. Overflow(m.arrays) > 0
            BY <1>2, <1>4, CompactionKeeps
        <2>2. PICK d : d = CompactedUntil(m, "AFTER_COMMIT_RECEIPT")
            OBVIOUS
        <2>3. PICK n : n = CompactedFully(m)
            OBVIOUS
        <2>4. n = Cleared(d)
            BY <1>4, <2>2, <2>3 DEF CompactedFully
        <2>5. /\ Good(d, undamaged) /\ Pending(d)
              /\ d.arrays = Compacted(m.arrays) /\ d.generation = m.generation
              /\ d.journal.generation = m.generation + 1
              /\ undamaged => Len(d.finals) = m.generation + 1
            BY <2>1, <2>2, InterruptedKeeps DEF Points
        <2>6. /\ n \in CellMemory /\ n.arrays = d.arrays /\ n.diverged = FALSE
              /\ n.repair = FALSE /\ ~Pending(n) /\ n.finals = d.finals
              /\ n.generation = IF d.generation <= d.journal.generation
                                  THEN d.journal.generation ELSE d.generation
            BY <2>4, <2>5, ClearedFields DEF Good
        <2>7. n.generation = m.generation + 1
            BY <1>2, <2>5, <2>6
        <2>8. CellInv(n, undamaged)
            BY <1>2, <2>5, <2>6, CompactionKeeps DEF CellInv, Undamaged
        <2>9. LastReceipt(n, undamaged) /\ Numbered(n, undamaged)
            BY <1>2, <2>5, <2>6, <2>7 DEF Good, LastReceipt, Numbered
        <2>10. QED BY <2>3, <2>5, <2>6, <2>8, <2>9 DEF Good
    <1>5. QED BY <1>3, <1>4

\* What retainMemory makes of a cell: recovery, one record more if it counts as
\* a record, and a compaction; every record is accounted for.
LEMMA RetainingKeeps ==
    ASSUME NEW m, NEW undamaged \in BOOLEAN, Good(m, undamaged),
           NEW k \in Keys, NEW important \in BOOLEAN
    PROVE  LET r == Recovered(m)
               n == Retaining(m, k, important)
           IN
             /\ Good(n, undamaged)
             /\ r.repair => n = r
             /\ ~r.repair =>
                   /\ ~Pending(n) /\ ~n.repair
                   /\ n.arrays = Compacted(IF important THEN Remember(r.arrays, k) ELSE r.arrays)
             /\ DroppedByRetaining(m, k, important) \in Seq(Summary)
             /\ \A q \in Keys :
                   Remembered(Settled(m), q)
                       + (IF important /\ ~r.repair /\ k = q THEN 1 ELSE 0) =
                   Remembered(Settled(n), q) + Counted(DroppedByRetaining(m, k, important), q)
    <1>1. PICK r : r = Recovered(m)
        OBVIOUS
    <1>2. PICK d : d = DroppedByRecovery(m)
        OBVIOUS
    <1>3. PICK n : n = Retaining(m, k, important)
        OBVIOUS
    <1>4. PICK x : x = DroppedByRetaining(m, k, important)
        OBVIOUS
    <1>5. /\ Good(r, undamaged) /\ d \in Seq(Summary)
          /\ \A q \in Keys :
                Remembered(Settled(m), q) = Remembered(Settled(r), q) + Counted(d, q)
        BY <1>1, <1>2, RecoveredKeeps
    <1>6. /\ r \in CellMemory /\ CellInv(r, undamaged) /\ LastReceipt(r, undamaged)
          /\ Numbered(r, undamaged) /\ Sound(r.arrays)
        BY <1>5 DEF Good, CellInv
    <1>7. CASE r.repair
        <2>1. n = r /\ x = d \o <<>>
            BY <1>1, <1>2, <1>3, <1>4, <1>7 DEF Retaining, DroppedByRetaining
        <2>2. x = d
            BY <1>5, <2>1, ConcatEmptySeq
        <2>3. \A q \in Keys : Remembered(Settled(n), q) \in Nat
            BY <1>6, <2>1, RememberedIsNat DEF CellInv, Settled, JournalOf, Sound
        <2>4. \A q \in Keys : Counted(d, q) \in Nat
            BY <1>5, CountedIsNat
        <2>5. QED BY <1>1, <1>3, <1>4, <1>5, <1>7, <2>1, <2>2, <2>3, <2>4
    <1>8. CASE ~r.repair
        <2>1. ~Pending(r)
            BY <1>1, <1>8, RecoveredKeeps
        <2>2. PICK a : a = IF important THEN Remember(r.arrays, k) ELSE r.arrays
            OBVIOUS
        <2>3. /\ Sound(a)
              /\ \A q \in Keys : Remembered(a, q) =
                    Remembered(r.arrays, q) + (IF important /\ k = q THEN 1 ELSE 0)
            <3>1. CASE important
                BY <1>6, <2>2, <3>1, RememberKeeps
            <3>2. CASE ~important
                <4>1. \A q \in Keys : Remembered(r.arrays, q) \in Nat
                    BY <1>6, RememberedIsNat DEF Sound
                <4>2. QED BY <1>6, <2>2, <3>2, <4>1
            <3>3. QED BY <3>1, <3>2
        <2>4. PICK s : s = [r EXCEPT !.arrays = a]
            OBVIOUS
        <2>5. /\ s \in CellMemory /\ s.arrays = a /\ s.diverged = r.diverged
              /\ s.repair = r.repair /\ s.journal = r.journal /\ s.generation = r.generation
              /\ s.finals = r.finals
            BY <1>6, <2>3, <2>4 DEF CellMemory, Sound
        <2>6. ~Pending(s)
            BY <2>1, <2>5 DEF Pending
        <2>7. CellInv(s, undamaged)
            BY <1>6, <2>1, <2>3, <2>5, <2>6 DEF CellInv, Undamaged
        <2>8. LastReceipt(s, undamaged) /\ Numbered(s, undamaged)
            BY <1>6, <2>1, <2>5, <2>6 DEF LastReceipt, Numbered
        <2>9. Good(s, undamaged)
            BY <2>5, <2>7, <2>8 DEF Good
        <2>10. s = IF important THEN [r EXCEPT !.arrays = Remember(@, k)] ELSE r
            <3>1. CASE important
                BY <2>2, <2>4, <3>1
            <3>2. CASE ~important
                BY <1>6, <2>2, <2>4, <3>2 DEF CellMemory
            <3>3. QED BY <3>1, <3>2
        <2>11. n = CompactedFully(s)
            BY <1>1, <1>3, <1>8, <2>10 DEF Retaining
        <2>12. Good(n, undamaged) /\ ~Pending(n) /\ ~n.repair /\ n.arrays = Compacted(a)
            BY <1>8, <2>5, <2>6, <2>9, <2>11, CompactedFullyKeeps
        <2>13. PICK e : e = Evicted(a)
            OBVIOUS
        <2>14. x = d \o e
            BY <1>1, <1>2, <1>4, <1>8, <2>2, <2>13 DEF DroppedByRetaining
        <2>15. /\ e \in Seq(Summary)
               /\ \A q \in Keys : Remembered(a, q) = Remembered(Compacted(a), q) + Counted(e, q)
               /\ Sound(Compacted(a))
            BY <2>3, <2>13, CompactionKeeps
        <2>16. x \in Seq(Summary)
            BY <1>5, <2>14, <2>15, ConcatProperties
        <2>17. Settled(r) = r.arrays /\ Settled(n) = Compacted(a)
            BY <2>1, <2>12 DEF Settled
        <2>18. ASSUME NEW q \in Keys
               PROVE  Remembered(Settled(m), q) + (IF important /\ k = q THEN 1 ELSE 0) =
                      Remembered(Settled(n), q) + Counted(x, q)
            <3>1. Counted(x, q) = Counted(d, q) + Counted(e, q)
                BY <1>5, <2>14, <2>15, CountedConcat
            <3>2. /\ Counted(d, q) \in Nat /\ Counted(e, q) \in Nat
                  /\ Remembered(Compacted(a), q) \in Nat /\ Remembered(r.arrays, q) \in Nat
                BY <1>5, <1>6, <2>15, CountedIsNat, RememberedIsNat DEF Sound
            <3>3. /\ Remembered(Settled(m), q) = Remembered(r.arrays, q) + Counted(d, q)
                  /\ Remembered(a, q) =
                        Remembered(r.arrays, q) + (IF important /\ k = q THEN 1 ELSE 0)
                  /\ Remembered(a, q) = Remembered(Compacted(a), q) + Counted(e, q)
                BY <1>5, <2>3, <2>15, <2>17
            <3>4. QED BY <2>17, <3>1, <3>2, <3>3
        <2>19. QED BY <1>1, <1>3, <1>4, <1>8, <2>2, <2>12, <2>16, <2>18
    <1>9. QED BY <1>6, <1>7, <1>8, CellFields

-----------------------------------------------------------------------------
(***************************************************************************)
(* The invariant, cell by cell.                                            *)
(***************************************************************************)

Fine(c) == Good(memory[c], damaged[c] = 0)

\* The part of the invariant that is about one cell at a time.
LEMMA CellByCell ==
    ASSUME memory \in [Cells -> CellMemory]
    PROVE  MemoryInv /\ ReceiptsNumbered <=> \A c \in Cells : Fine(c)
    <1>1. \A c \in Cells : memory[c] \in CellMemory
        OBVIOUS
    <1>2. ReceiptsNumbered <=> \A c \in Cells : Numbered(memory[c], damaged[c] = 0)
        BY DEF ReceiptsNumbered, Numbered
    <1>3. QED BY <1>1, <1>2 DEF MemoryInv, Fine, Good

\* The same after a step.
LEMMA CellByCellNext ==
    ASSUME memory' \in [Cells -> CellMemory], \A c \in Cells : Fine(c)'
    PROVE  MemoryInv' /\ ReceiptsNumbered'
    <1>1. \A c \in Cells : memory'[c] \in CellMemory
        OBVIOUS
    <1>2. ReceiptsNumbered' <=> \A c \in Cells : Numbered(memory'[c], damaged'[c] = 0)
        BY DEF ReceiptsNumbered, Numbered
    <1>3. QED BY <1>1, <1>2 DEF MemoryInv, Fine, Good

\* Recovery gives a memory up exactly if its before-image cannot be trusted, and a
\* memory that needs repair stays as it is.
LEMMA RepairStays ==
    ASSUME NEW c \in Cells, Fine(c)
    PROVE  /\ Recovered(memory[c]).repair <=> Pending(memory[c]) /\ ~memory[c].journal.beforeIntact
           /\ memory[c].repair => /\ Recovered(memory[c]) = memory[c]
                                  /\ DroppedByRecovery(memory[c]) = <<>>
    <1>1. PICK m : m = memory[c]
        OBVIOUS
    <1>2. PICK r : r = Recovered(m)
        OBVIOUS
    <1>3. /\ m \in CellMemory /\ m.repair \in BOOLEAN
          /\ m.repair => Pending(m) /\ ~m.journal.beforeIntact
        BY <1>1, CellFields DEF Fine, Good, CellInv
    <1>4. /\ ~Pending(m) => ~r.repair
          /\ Pending(m) /\ ~m.journal.beforeIntact => r = [m EXCEPT !.repair = TRUE] /\ r.repair
          /\ Pending(m) /\ m.journal.beforeIntact => ~r.repair
        <2>1. (damaged[c] = 0) \in BOOLEAN
            OBVIOUS
        <2>2. QED BY <1>1, <1>2, <2>1, RecoveredKeeps DEF Fine
    <1>5. m.repair => r = m
        BY <1>3, <1>4 DEF CellMemory
    <1>6. m.repair => DroppedByRecovery(m) = <<>>
        BY <1>3 DEF DroppedByRecovery, RollsForward
    <1>7. QED BY <1>1, <1>2, <1>4, <1>5, <1>6

LEMMA InitIInv == Init => IInv
    <1> SUFFICES ASSUME Init PROVE IInv
        OBVIOUS
    <1>1. PICK preset \in [Cells -> Presets] :
             /\ memory = [c \in Cells |-> [arrays |-> [Empty EXCEPT !.working = preset[c]],
                                           diverged |-> FALSE, journal |-> NoJournal,
                                           generation |-> 0, repair |-> FALSE,
                                           finals |-> <<>>]]
             /\ retained = [c \in Cells |-> [k \in Keys |-> Remembered(memory[c].arrays, k)]]
        BY DEF Init
    <1>2. \A s \in Presets : s \in Seq(Keys)
        <2>1. SUFFICES ASSUME NEW n \in 0..Preset, NEW s \in [1..n -> Keys] PROVE s \in Seq(Keys)
            BY DEF Presets
        <2>2. n \in Nat
            BY MemoryAssumption
        <2>3. QED BY <2>2, SeqDef
    <1>3. ASSUME NEW c \in Cells
          PROVE  /\ memory[c] \in CellMemory /\ Sound(memory[c].arrays)
                 /\ memory[c].journal = NoJournal /\ memory[c].diverged = FALSE
                 /\ memory[c].repair = FALSE /\ memory[c].generation = 0
                 /\ memory[c].finals = <<>>
        <2>1. PICK s : s = preset[c]
            OBVIOUS
        <2>2. PICK a : a = [Empty EXCEPT !.working = s]
            OBVIOUS
        <2>3. s \in Seq(Keys)
            BY <1>1, <1>2, <2>1
        <2>4. a = [working |-> s, compressed |-> <<>>]
            BY <2>2 DEF Empty
        <2>5. a \in Image
            BY <2>3, <2>4 DEF Image
        <2>6. Sound(a)
            BY <2>4, <2>5, Budgets DEF Sound, Distinct
        <2>7. memory[c] = [arrays |-> a, diverged |-> FALSE, journal |-> NoJournal,
                           generation |-> 0, repair |-> FALSE, finals |-> <<>>]
            BY <1>1, <2>1, <2>2
        <2>8. QED BY <2>5, <2>6, <2>7 DEF CellMemory
    <1>4. /\ memory \in [Cells -> CellMemory] /\ wake = [c \in Cells |-> "DORMANT"]
          /\ evicted = [c \in Cells |-> [k \in Keys |-> 0]] /\ damaged = [c \in Cells |-> 0]
        <2>1. memory = [c \in Cells |-> memory[c]]
            BY <1>1
        <2>2. QED BY <1>3, <2>1 DEF Init
    <1>5. \A c \in Cells, k \in Keys : Remembered(memory[c].arrays, k) \in Nat
        BY <1>3, RememberedIsNat DEF Sound
    <1>6. TypeOK
        BY <1>1, <1>4, <1>5 DEF TypeOK
    <1>7. \A c \in Cells : Fine(c)
        <2> SUFFICES ASSUME NEW c \in Cells PROVE Fine(c)
            OBVIOUS
        <2>1. ~Pending(memory[c])
            BY <1>3 DEF Pending
        <2>2. CellInv(memory[c], damaged[c] = 0)
            BY <1>3, <2>1 DEF CellInv, Undamaged
        <2>3. LastReceipt(memory[c], damaged[c] = 0) /\ Numbered(memory[c], damaged[c] = 0)
            <3>1. /\ Len(memory[c].finals) = 0 /\ DOMAIN memory[c].finals = {}
                  /\ memory[c].generation = 0
                <4>1. Len(<<>>) = 0 /\ DOMAIN <<>> = {}
                    OBVIOUS
                <4>2. memory[c].finals = <<>> /\ memory[c].generation = 0
                    BY <1>3
                <4>3. QED BY <4>1, <4>2
            <3>2. LastReceipt(memory[c], damaged[c] = 0)
                BY <3>1 DEF LastReceipt
            <3>3. Len(memory[c].finals) - memory[c].generation = 0
                BY <3>1
            <3>4. Numbered(memory[c], damaged[c] = 0)
                BY <2>1, <3>1, <3>3 DEF Numbered
            <3>5. QED BY <3>2, <3>4
        <2>4. QED BY <1>3, <2>2, <2>3 DEF Fine, Good
    <1>8. MemoryInv /\ ReceiptsNumbered
        BY <1>4, <1>7, CellByCell
    <1>9. ConservedInv
        <2> SUFFICES ASSUME NEW c \in Cells, NEW k \in Keys
                     PROVE  retained[c][k] = Remembered(Settled(memory[c]), k) + evicted[c][k]
            BY DEF ConservedInv
        <2>1. Settled(memory[c]) = memory[c].arrays
            BY <1>3 DEF Settled, Pending
        <2>2. /\ retained[c][k] = Remembered(memory[c].arrays, k)
              /\ retained[c][k] \in Nat /\ evicted[c][k] = 0
            BY <1>1, <1>4, <1>5
        <2>3. QED BY <2>1, <2>2
    <1>10. WakeFitsRepair
        BY <1>3, <1>4 DEF WakeFitsRepair
    <1>11. QED BY <1>6, <1>8, <1>9, <1>10 DEF IInv

-----------------------------------------------------------------------------
(***************************************************************************)
(* Each step keeps the invariant.                                          *)
(***************************************************************************)

\* A step that alters one cell, and neither what it settles to nor its repair.
LEMMA QuietStepKeeps ==
    ASSUME IInv, NEW c \in Cells, NEW n \in CellMemory, memory' = [memory EXCEPT ![c] = n],
           damaged' \in [Cells -> Nat], \A d \in Cells : d = c \/ damaged'[d] = damaged[d],
           Good(n, damaged'[c] = 0), Settled(n) = Settled(memory[c]),
           n.repair = memory[c].repair, UNCHANGED <<wake, retained, evicted>>
    PROVE  IInv'
    <1>1. TypeOK /\ MemoryInv /\ ReceiptsNumbered /\ ConservedInv /\ WakeFitsRepair
        BY DEF IInv
    <1>2. memory' \in [Cells -> CellMemory] /\ memory'[c] = n
          /\ \A d \in Cells : d = c \/ memory'[d] = memory[d]
        BY <1>1 DEF TypeOK
    <1>3. TypeOK'
        BY <1>1, <1>2 DEF TypeOK
    <1>4. \A d \in Cells : Fine(d)
        BY <1>1, CellByCell DEF TypeOK
    <1>5. ASSUME NEW d \in Cells PROVE Fine(d)'
        <2>1. CASE d = c
            BY <1>2, <2>1 DEF Fine
        <2>2. CASE d # c
            <3>1. memory'[d] = memory[d] /\ damaged'[d] = damaged[d]
                BY <1>2, <2>2
            <3>2. QED BY <1>4, <3>1 DEF Fine
        <2>3. QED BY <2>1, <2>2
    <1>6. MemoryInv' /\ ReceiptsNumbered'
        BY <1>2, <1>5, CellByCellNext
    <1>7. \A d \in Cells : Settled(memory'[d]) = Settled(memory[d])
        BY <1>2
    <1>8. ConservedInv'
        BY <1>1, <1>7 DEF ConservedInv
    <1>9. \A d \in Cells : memory'[d].repair = memory[d].repair
        BY <1>2
    <1>10. WakeFitsRepair'
        BY <1>1, <1>9 DEF WakeFitsRepair
    <1>11. QED BY <1>3, <1>6, <1>8, <1>10 DEF IInv

LEMMA InterruptKeeps ==
    ASSUME IInv, NEW c \in Cells, NEW point \in Points, Interrupt(c, point)
    PROVE  IInv'
    <1>1. TypeOK /\ \A d \in Cells : Fine(d)
        BY CellByCell DEF IInv, TypeOK
    <1>2. PICK m : m = memory[c]
        OBVIOUS
    <1>3. PICK n : n = CompactedUntil(m, point)
        OBVIOUS
    <1>4. /\ ~Pending(m) /\ ~m.repair /\ Overflow(m.arrays) > 0
          /\ memory' = [memory EXCEPT ![c] = n]
          /\ UNCHANGED <<wake, retained, evicted, damaged>>
        BY <1>2, <1>3 DEF Interrupt, history
    <1>5. /\ Good(n, damaged[c] = 0) /\ Pending(n) /\ ~n.repair /\ n.journal.before = m.arrays
        <2>1. (damaged[c] = 0) \in BOOLEAN
            OBVIOUS
        <2>2. Good(m, damaged[c] = 0)
            BY <1>1, <1>2 DEF Fine
        <2>3. QED BY <1>3, <1>4, <2>1, <2>2, InterruptedKeeps
    <1>6. n \in CellMemory /\ Settled(n) = Settled(m)
        BY <1>4, <1>5 DEF Good, Settled
    <1>7. n.repair = m.repair
        <2>1. m \in CellMemory /\ n.repair \in BOOLEAN /\ m.repair \in BOOLEAN
            BY <1>1, <1>2, <1>6, CellFields DEF TypeOK
        <2>2. QED BY <1>4, <1>5, <2>1
    <1>8. damaged' \in [Cells -> Nat] /\ damaged' = damaged
        BY <1>1, <1>4 DEF TypeOK
    <1>9. Good(n, damaged'[c] = 0)
        BY <1>5, <1>8
    <1>10. QED BY <1>2, <1>4, <1>6, <1>7, <1>8, <1>9, QuietStepKeeps

\* What Damage makes of the cell it is done to.
Damaged(m, part) ==
    CASE part = "before" -> [m EXCEPT !.journal.beforeIntact = FALSE]
      [] part = "after"  -> [m EXCEPT !.journal.afterIntact = FALSE]
      [] part = "arrays" -> [m EXCEPT !.diverged = TRUE]

\* Damage is done to a cell with a journal.  It leaves what the cell settles to
\* alone, and keeps it from rolling forward.
LEMMA DamagedCell ==
    ASSUME NEW m, NEW undamaged \in BOOLEAN, Good(m, undamaged), Pending(m),
           NEW part, part = "before" \/ part = "after" \/ part = "arrays"
    PROVE  LET n == Damaged(m, part) IN
             /\ n \in CellMemory /\ Good(n, FALSE) /\ Pending(n)
             /\ Settled(n) = Settled(m) /\ n.repair = m.repair
             /\ n.journal.before = m.journal.before /\ ~RollsForward(n)
             /\ ~m.journal.beforeIntact => ~n.journal.beforeIntact
    <1>1. /\ m \in CellMemory /\ CellInv(m, undamaged) /\ Numbered(m, undamaged)
          /\ m.journal \in Journal
        BY CellFields DEF Good
    <1>2. PICK n : n = Damaged(m, part)
        OBVIOUS
    <1>3. /\ n \in CellMemory /\ n.arrays = m.arrays /\ n.generation = m.generation
          /\ n.repair = m.repair /\ n.finals = m.finals /\ n.journal \in Journal
          /\ n.journal.generation = m.journal.generation
          /\ n.journal.before = m.journal.before /\ n.journal.after = m.journal.after
          /\ ~m.journal.beforeIntact => ~n.journal.beforeIntact
          /\ ~n.journal.beforeIntact \/ ~n.journal.afterIntact \/ n.diverged
        <2>1. CASE part = "before"
            <3>1. PICK j : j = [m.journal EXCEPT !.beforeIntact = FALSE]
                OBVIOUS
            <3>2. /\ j \in Journal /\ j.generation = m.journal.generation
                  /\ j.before = m.journal.before /\ j.after = m.journal.after
                  /\ j.beforeIntact = FALSE
                BY <1>1, <3>1 DEF Journal
            <3>3. n = [m EXCEPT !.journal = j]
                BY <1>1, <1>2, <2>1, <3>1 DEF CellMemory, Damaged
            <3>4. QED BY <1>1, <3>2, <3>3 DEF CellMemory
        <2>2. CASE part = "after"
            <3>1. PICK j : j = [m.journal EXCEPT !.afterIntact = FALSE]
                OBVIOUS
            <3>2. /\ j \in Journal /\ j.generation = m.journal.generation
                  /\ j.before = m.journal.before /\ j.after = m.journal.after
                  /\ j.beforeIntact = m.journal.beforeIntact /\ j.afterIntact = FALSE
                BY <1>1, <3>1 DEF Journal
            <3>3. n = [m EXCEPT !.journal = j]
                BY <1>1, <1>2, <2>2, <3>1 DEF CellMemory, Damaged
            <3>4. QED BY <1>1, <3>2, <3>3 DEF CellMemory
        <2>3. CASE part = "arrays"
            <3>1. n = [m EXCEPT !.diverged = TRUE]
                BY <1>2, <2>3 DEF Damaged
            <3>2. QED BY <1>1, <3>1 DEF CellMemory
        <2>4. QED BY <2>1, <2>2, <2>3
    <1>4. Pending(n)
        BY <1>3, NoJournalIsNone DEF Pending
    <1>5. CellInv(n, FALSE)
        BY <1>1, <1>3, <1>4 DEF CellInv, JournalOf
    <1>6. LastReceipt(n, FALSE) /\ Numbered(n, FALSE)
        BY <1>1, <1>3 DEF LastReceipt, Numbered
    <1>7. Good(n, FALSE)
        BY <1>3, <1>5, <1>6 DEF Good
    <1>8. Settled(n) = Settled(m)
        BY <1>3, <1>4 DEF Settled
    <1>9. ~RollsForward(n)
        BY <1>3 DEF RollsForward, Recognised
    <1>10. QED BY <1>2, <1>3, <1>4, <1>7, <1>8, <1>9

LEMMA DamageKeeps ==
    ASSUME IInv, NEW c \in Cells, NEW part \in {"before", "after", "arrays"}, Damage(c, part)
    PROVE  IInv'
    <1>1. TypeOK /\ \A d \in Cells : Fine(d)
        BY CellByCell DEF IInv, TypeOK
    <1>2. PICK m : m = memory[c]
        OBVIOUS
    <1>3. PICK n : n = Damaged(m, part)
        OBVIOUS
    <1>4. memory' = [memory EXCEPT ![c] = n]
        BY <1>1, <1>2, <1>3 DEF Damage, TypeOK, Damaged
    <1>5. /\ damaged' \in [Cells -> Nat] /\ damaged'[c] # 0
          /\ \A d \in Cells : d = c \/ damaged'[d] = damaged[d]
          /\ UNCHANGED <<wake, retained, evicted>>
        <2>1. damaged' = [damaged EXCEPT ![c] = damaged[c] + 1]
            BY DEF Damage
        <2>2. damaged'[c] = damaged[c] + 1 /\ damaged[c] + 1 \in Nat \ {0}
            BY <1>1, <2>1 DEF TypeOK
        <2>3. UNCHANGED <<wake, retained, evicted>>
            BY DEF Damage
        <2>4. QED BY <1>1, <2>1, <2>2, <2>3 DEF TypeOK
    <1>6. /\ n \in CellMemory /\ Good(n, FALSE) /\ Settled(n) = Settled(m)
          /\ n.repair = m.repair
        <2>1. (damaged[c] = 0) \in BOOLEAN
            OBVIOUS
        <2>2. Good(m, damaged[c] = 0) /\ Pending(m)
            BY <1>1, <1>2 DEF Fine, Damage
        <2>3. QED BY <1>3, <2>1, <2>2, DamagedCell
    <1>7. Good(n, damaged'[c] = 0)
        BY <1>5, <1>6
    <1>8. QED BY <1>2, <1>4, <1>5, <1>6, <1>7, QuietStepKeeps

\* What a good cell settles to is sound.
LEMMA GoodSettles ==
    ASSUME NEW m, NEW undamaged, Good(m, undamaged)
    PROVE  m \in CellMemory /\ Sound(Settled(m))
    BY DEF Good, CellInv, JournalOf, Settled

\* A step that gives records to the cells and drops the summaries x.
Given(given) ==
    /\ given \in [Cells -> [Keys -> Nat]]
    /\ retained' \in [Cells -> [Keys -> Nat]]
    /\ \A c \in Cells, k \in Keys : retained'[c][k] = retained[c][k] + given[c][k]
Moved(given, x) ==
    /\ \A c \in Cells : Sound(Settled(memory'[c])) /\ x[c] \in Seq(Summary)
    /\ \A c \in Cells, k \in Keys :
          Remembered(Settled(memory[c]), k) + given[c][k] =
             Remembered(Settled(memory'[c]), k) + Counted(x[c], k)

\* Records that are given to the cells, and summaries that are dropped, are counted.
LEMMA CountsKept ==
    ASSUME IInv, NEW given, NEW x, Given(given), Drop(x), Moved(given, x)
    PROVE  ConservedInv' /\ evicted' \in [Cells -> [Keys -> Nat]]
    <1>1. TypeOK /\ ConservedInv /\ \A c \in Cells : Fine(c)
        BY CellByCell DEF IInv, TypeOK
    <1>2. \A c \in Cells, k \in Keys : Counted(x[c], k) \in Nat
        BY CountedIsNat DEF Moved
    <1>3. /\ \A c \in Cells, k \in Keys : evicted'[c][k] = evicted[c][k] + Counted(x[c], k)
          /\ evicted' \in [Cells -> [Keys -> Nat]]
        BY <1>1, <1>2 DEF Drop, TypeOK
    <1>4. ASSUME NEW c \in Cells, NEW k \in Keys
          PROVE  retained'[c][k] = Remembered(Settled(memory'[c]), k) + evicted'[c][k]
        <2>1. Sound(Settled(memory[c])) /\ Sound(Settled(memory'[c]))
            BY <1>1, GoodSettles DEF Fine, Moved
        <2>2. /\ Remembered(Settled(memory[c]), k) \in Nat
              /\ Remembered(Settled(memory'[c]), k) \in Nat
            BY <2>1, RememberedIsNat DEF Sound
        <2>3. retained[c][k] = Remembered(Settled(memory[c]), k) + evicted[c][k]
            BY <1>1 DEF ConservedInv
        <2>4. /\ retained[c][k] \in Nat /\ evicted[c][k] \in Nat /\ given[c][k] \in Nat
              /\ Counted(x[c], k) \in Nat
            BY <1>1, <1>2 DEF TypeOK, Given
        <2>5. /\ retained'[c][k] = retained[c][k] + given[c][k]
              /\ evicted'[c][k] = evicted[c][k] + Counted(x[c], k)
              /\ Remembered(Settled(memory[c]), k) + given[c][k] =
                     Remembered(Settled(memory'[c]), k) + Counted(x[c], k)
            BY <1>3 DEF Given, Moved
        <2>6. PICK v : v = Remembered(Settled(memory[c]), k)
            OBVIOUS
        <2>7. PICK w : w = Remembered(Settled(memory'[c]), k)
            OBVIOUS
        <2>8. PICK n : n = Counted(x[c], k)
            OBVIOUS
        <2>9. /\ v \in Nat /\ w \in Nat /\ n \in Nat /\ retained[c][k] = v + evicted[c][k]
              /\ v + given[c][k] = w + n /\ evicted'[c][k] = evicted[c][k] + n
            BY <2>2, <2>3, <2>4, <2>5, <2>6, <2>7, <2>8
        <2>10. /\ retained[c][k] \in Nat /\ evicted[c][k] \in Nat /\ given[c][k] \in Nat
               /\ retained'[c][k] = retained[c][k] + given[c][k]
            BY <2>4, <2>5
        <2>11. retained'[c][k] = w + evicted'[c][k]
            BY <2>9, <2>10
        <2>12. QED BY <2>7, <2>11
    <1>5. QED BY <1>3, <1>4 DEF ConservedInv

LEMMA ReloadKeeps ==
    ASSUME IInv, Reload
    PROVE  IInv'
    <1>1. TypeOK /\ \A d \in Cells : Fine(d)
        BY CellByCell DEF IInv, TypeOK
    <1>2. /\ memory' = [c \in Cells |-> Recovered(memory[c])]
          /\ wake' = [c \in Cells |-> IF Recovered(memory[c]).repair THEN "REPAIR" ELSE wake[c]]
          /\ retained' = retained /\ damaged' = damaged
        BY DEF Reload
    <1>3. PICK x : x = [c \in Cells |-> DroppedByRecovery(memory[c])]
        OBVIOUS
    <1>4. Drop(x)
        BY <1>3 DEF Reload
    <1>5. PICK given : given = [c \in Cells |-> [k \in Keys |-> 0]]
        OBVIOUS
    <1>6. ASSUME NEW c \in Cells
          PROVE  /\ Good(memory'[c], damaged[c] = 0)
                 /\ x[c] \in Seq(Summary)
                 /\ \A k \in Keys : Remembered(Settled(memory[c]), k) =
                       Remembered(Settled(memory'[c]), k) + Counted(x[c], k)
                 /\ memory[c].repair => memory'[c].repair
                 /\ memory'[c].repair = Recovered(memory[c]).repair
        <2>1. (damaged[c] = 0) \in BOOLEAN
            OBVIOUS
        <2>2. Good(memory[c], damaged[c] = 0)
            BY <1>1 DEF Fine
        <2>3. memory'[c] = Recovered(memory[c]) /\ x[c] = DroppedByRecovery(memory[c])
            BY <1>2, <1>3
        <2>4. memory[c].repair => Recovered(memory[c]) = memory[c]
            BY <1>1, RepairStays
        <2>5. /\ Good(Recovered(memory[c]), damaged[c] = 0)
              /\ DroppedByRecovery(memory[c]) \in Seq(Summary)
              /\ \A k \in Keys : Remembered(Settled(memory[c]), k) =
                    Remembered(Settled(Recovered(memory[c])), k)
                        + Counted(DroppedByRecovery(memory[c]), k)
            BY <2>1, <2>2, RecoveredKeeps
        <2>6. memory[c].repair => memory'[c].repair
            BY <2>3, <2>4
        <2>7. QED BY <2>3, <2>5, <2>6
    <1>7. memory' \in [Cells -> CellMemory] /\ \A c \in Cells : Sound(Settled(memory'[c]))
        BY <1>2, <1>6, GoodSettles
    <1>8. MemoryInv' /\ ReceiptsNumbered'
        <2>1. \A c \in Cells : Fine(c)'
            BY <1>2, <1>6 DEF Fine
        <2>2. QED BY <1>7, <2>1, CellByCellNext
    <1>9. ConservedInv' /\ evicted' \in [Cells -> [Keys -> Nat]]
        <2>1. given \in [Cells -> [Keys -> Nat]] /\ \A c \in Cells, k \in Keys : given[c][k] = 0
            BY <1>5
        <2>2. \A c \in Cells, k \in Keys : retained'[c][k] = retained[c][k] + given[c][k]
            BY <1>1, <1>2, <2>1 DEF TypeOK
        <2>3. retained' \in [Cells -> [Keys -> Nat]]
            BY <1>1, <1>2 DEF TypeOK
        <2>4. \A c \in Cells, k \in Keys :
                 Remembered(Settled(memory[c]), k) + given[c][k] =
                    Remembered(Settled(memory'[c]), k) + Counted(x[c], k)
            <3>1. \A c \in Cells, k \in Keys : Remembered(Settled(memory[c]), k) \in Nat
                BY <1>1, GoodSettles, RememberedIsNat DEF Fine, Sound
            <3>2. QED BY <1>6, <2>1, <3>1
        <2>5. Given(given) /\ Moved(given, x)
            BY <1>6, <1>7, <2>1, <2>2, <2>3, <2>4 DEF Given, Moved
        <2>6. QED BY <1>4, <2>5, CountsKept
    <1>10. wake' \in [Cells -> {"DORMANT", "ACTIVE", "REPAIR"}]
        BY <1>1, <1>2 DEF TypeOK
    <1>11. TypeOK'
        BY <1>1, <1>2, <1>7, <1>9, <1>10 DEF TypeOK
    <1>12. WakeFitsRepair'
        <2>1. WakeFitsRepair
            BY DEF IInv
        <2>2. \A c \in Cells : wake'[c] = IF memory'[c].repair THEN "REPAIR" ELSE wake[c]
            BY <1>2, <1>6
        <2>3. QED BY <1>6, <2>1, <2>2 DEF WakeFitsRepair
    <1>13. QED BY <1>8, <1>9, <1>11, <1>12 DEF IInv

\* The cells that an event reaches, of which only the last may need repair.
Reached(S) == {c \in S : \A f \in Failing(S) : c <= f}

LEMMA FirstFails ==
    ASSUME NEW S \in SUBSET Cells
    PROVE  /\ Handling(S) = Reached(S) \ Failing(S)
           /\ Failing(S) # {} => Reached(S) \cap Failing(S) # {}
           /\ Failing(S) = {} => Reached(S) = S
           /\ Failing(S) \subseteq S
    <1>1. S \subseteq Nat /\ Failing(S) \subseteq S
        BY MemoryAssumption DEF Failing
    <1>2. Handling(S) \subseteq Reached(S) \ Failing(S)
        <2>1. \A c \in Nat, f \in Nat : c < f => c <= f /\ c # f
            OBVIOUS
        <2>2. QED BY <1>1, <2>1 DEF Handling, Reached
    <1>3. Reached(S) \ Failing(S) \subseteq Handling(S)
        <2>1. \A c \in Nat, f \in Nat : c <= f /\ c # f => c < f
            OBVIOUS
        <2>2. QED BY <1>1, <2>1 DEF Handling, Reached
    <1>4. Failing(S) # {} => Reached(S) \cap Failing(S) # {}
        BY <1>1, LeastElement DEF Reached
    <1>5. Failing(S) = {} => Reached(S) = S
        BY DEF Reached
    <1>6. QED BY <1>1, <1>2, <1>3, <1>4, <1>5

LEMMA HandleKeeps ==
    ASSUME IInv, NEW S \in SUBSET Cells, NEW k \in Keys, NEW important \in BOOLEAN,
           Handle(S, k, important)
    PROVE  IInv'
    <1>1. TypeOK /\ WakeFitsRepair /\ \A d \in Cells : Fine(d)
        BY CellByCell DEF IInv, TypeOK
    <1>2. /\ memory' = [c \in Cells |-> IF c \in Reached(S) THEN Retaining(memory[c], k, important)
                                                           ELSE memory[c]]
          /\ wake' = [c \in Cells |-> IF c \in S THEN WakeStateAfter(S, c) ELSE wake[c]]
          /\ retained' = [c \in Cells |->
                            IF important /\ c \in Handling(S)
                              THEN [retained[c] EXCEPT ![k] = @ + 1] ELSE retained[c]]
          /\ damaged' = damaged
        BY DEF Handle, Reached
    <1>3. PICK x : x = [c \in Cells |->
                          IF c \in Reached(S) THEN DroppedByRetaining(memory[c], k, important)
                                              ELSE <<>>]
        OBVIOUS
    <1>4. Drop(x)
        BY <1>3 DEF Handle, Reached
    <1>5. PICK given : given = [c \in Cells |-> [q \in Keys |->
                                  IF important /\ c \in Handling(S) /\ k = q THEN 1 ELSE 0]]
        OBVIOUS
    <1>6. /\ Handling(S) = Reached(S) \ Failing(S) /\ Failing(S) \subseteq S
          /\ Failing(S) # {} => Reached(S) \cap Failing(S) # {}
          /\ Failing(S) = {} => Reached(S) = S
          /\ Reached(S) \subseteq S
        BY FirstFails DEF Reached
    <1>7. \A c \in Cells, q \in Keys :
             given[c][q] = IF important /\ c \in Handling(S) /\ k = q THEN 1 ELSE 0
        BY <1>5
    <1>8. ASSUME NEW c \in Reached(S)
          PROVE  /\ Good(memory'[c], damaged[c] = 0)
                 /\ x[c] \in Seq(Summary)
                 /\ \A q \in Keys : Remembered(Settled(memory[c]), q) + given[c][q] =
                       Remembered(Settled(memory'[c]), q) + Counted(x[c], q)
                 /\ memory'[c].repair <=> c \in Failing(S)
        <2>1. c \in S /\ c \in Cells /\ (damaged[c] = 0) \in BOOLEAN
            BY <1>6
        <2>2. Good(memory[c], damaged[c] = 0)
            BY <1>1, <2>1 DEF Fine
        <2>3. /\ memory'[c] = Retaining(memory[c], k, important)
              /\ x[c] = DroppedByRetaining(memory[c], k, important)
            BY <1>2, <1>3, <2>1
        <2>4. PICK m : m = memory[c]
            OBVIOUS
        <2>5. PICK r : r = Recovered(m)
            OBVIOUS
        <2>6. PICK n : n = Retaining(m, k, important)
            OBVIOUS
        <2>7. PICK y : y = DroppedByRetaining(m, k, important)
            OBVIOUS
        <2>8. /\ Good(n, damaged[c] = 0) /\ y \in Seq(Summary)
              /\ r.repair => n = r
              /\ ~r.repair => ~n.repair
              /\ \A q \in Keys :
                    Remembered(Settled(m), q)
                        + (IF important /\ ~r.repair /\ k = q THEN 1 ELSE 0) =
                    Remembered(Settled(n), q) + Counted(y, q)
            <3>1. PICK u \in BOOLEAN : u = (damaged[c] = 0)
                BY <2>1
            <3>2. Good(m, u)
                BY <2>2, <2>4, <3>1
            <3>3. Good(n, u) /\ y \in Seq(Summary)
                BY <2>6, <2>7, <3>2, RetainingKeeps
            <3>4. (r.repair => n = r) /\ (~r.repair => ~n.repair)
                BY <2>5, <2>6, <3>2, RetainingKeeps
            <3>5. \A q \in Keys :
                     Remembered(Settled(m), q)
                         + (IF important /\ ~r.repair /\ k = q THEN 1 ELSE 0) =
                     Remembered(Settled(n), q) + Counted(y, q)
                BY <2>5, <2>6, <2>7, <3>2, RetainingKeeps
            <3>6. QED BY <3>1, <3>3, <3>4, <3>5
        <2>9. c \in Failing(S) <=> r.repair
            BY <2>1, <2>4, <2>5 DEF Failing
        <2>10. c \in Handling(S) <=> ~r.repair
            BY <1>6, <2>9
        <2>11. \A q \in Keys :
                  given[c][q] = IF important /\ ~r.repair /\ k = q THEN 1 ELSE 0
            BY <1>7, <2>1, <2>10
        <2>12. \A q \in Keys : Remembered(Settled(m), q) + given[c][q] =
                  Remembered(Settled(n), q) + Counted(y, q)
            BY <2>8, <2>11
        <2>13. n.repair <=> c \in Failing(S)
            BY <2>8, <2>9
        <2>14. QED BY <2>3, <2>4, <2>6, <2>7, <2>8, <2>12, <2>13
    <1>9. ASSUME NEW c \in Cells, c \notin Reached(S)
          PROVE  /\ memory'[c] = memory[c] /\ x[c] = <<>>
                 /\ \A q \in Keys : Remembered(Settled(memory[c]), q) + given[c][q] =
                       Remembered(Settled(memory'[c]), q) + Counted(x[c], q)
        <2>1. memory'[c] = memory[c] /\ x[c] = <<>>
            BY <1>2, <1>3, <1>9
        <2>2. \A q \in Keys : given[c][q] = 0
            BY <1>6, <1>7, <1>9
        <2>3. \A q \in Keys : Remembered(Settled(memory[c]), q) \in Nat /\ Counted(<<>>, q) = 0
            BY <1>1, GoodSettles, RememberedIsNat, CountedEmpty DEF Fine, Sound
        <2>4. QED BY <2>1, <2>2, <2>3
    <1>10. \A c \in Cells : Fine(c)'
        <2> SUFFICES ASSUME NEW c \in Cells PROVE Fine(c)'
            OBVIOUS
        <2>1. CASE c \in Reached(S)
            BY <1>2, <1>8, <2>1 DEF Fine
        <2>2. CASE c \notin Reached(S)
            BY <1>1, <1>2, <1>9, <2>2 DEF Fine
        <2>3. QED BY <2>1, <2>2
    <1>11. memory' \in [Cells -> CellMemory] /\ \A c \in Cells : Sound(Settled(memory'[c]))
        <2>1. \A c \in Cells : memory'[c] \in CellMemory /\ Sound(Settled(memory'[c]))
            BY <1>10, GoodSettles DEF Fine
        <2>2. memory' = [c \in Cells |-> memory'[c]]
            BY <1>2
        <2>3. QED BY <2>1, <2>2
    <1>12. MemoryInv' /\ ReceiptsNumbered'
        BY <1>10, <1>11, CellByCellNext
    <1>13. Given(given)
        <2>1. given \in [Cells -> [Keys -> Nat]]
            BY <1>5
        <2>2. retained' \in [Cells -> [Keys -> Nat]]
            BY <1>1, <1>2 DEF TypeOK
        <2>3. ASSUME NEW c \in Cells, NEW q \in Keys
              PROVE  retained'[c][q] = retained[c][q] + given[c][q]
            <3>1. retained[c] \in [Keys -> Nat] /\ retained[c][q] \in Nat
                BY <1>1 DEF TypeOK
            <3>2. retained'[c] = IF important /\ c \in Handling(S)
                                   THEN [retained[c] EXCEPT ![k] = retained[c][k] + 1]
                                   ELSE retained[c]
                BY <1>2
            <3>3. given[c][q] = IF important /\ c \in Handling(S) /\ k = q THEN 1 ELSE 0
                BY <1>7
            <3>4. CASE important /\ c \in Handling(S)
                BY <3>1, <3>2, <3>3, <3>4
            <3>5. CASE ~(important /\ c \in Handling(S))
                BY <3>1, <3>2, <3>3, <3>5
            <3>6. QED BY <3>4, <3>5
        <2>4. QED BY <2>1, <2>2, <2>3 DEF Given
    <1>14. ConservedInv' /\ evicted' \in [Cells -> [Keys -> Nat]]
        <2>1. \A c \in Cells : x[c] \in Seq(Summary)
            <3>1. <<>> \in Seq(Summary)
                OBVIOUS
            <3>2. QED BY <1>8, <1>9, <3>1
        <2>2. \A c \in Cells, q \in Keys : Remembered(Settled(memory[c]), q) + given[c][q] =
                 Remembered(Settled(memory'[c]), q) + Counted(x[c], q)
            BY <1>8, <1>9
        <2>3. Moved(given, x)
            BY <1>11, <2>1, <2>2 DEF Moved
        <2>4. QED BY <1>4, <1>13, <2>3, CountsKept
    <1>15. TypeOK'
        <2>1. \A c \in Cells : WakeStateAfter(S, c) \in {"DORMANT", "ACTIVE", "REPAIR"}
            BY DEF WakeStateAfter
        <2>2. wake' \in [Cells -> {"DORMANT", "ACTIVE", "REPAIR"}]
            BY <1>1, <1>2, <2>1 DEF TypeOK
        <2>3. QED BY <1>1, <1>2, <1>11, <1>13, <1>14, <2>2 DEF TypeOK, Given
    <1>16. WakeFitsRepair'
        <2>1. \A c \in Cells : memory[c].repair => memory'[c].repair
            <3> SUFFICES ASSUME NEW c \in Cells, memory[c].repair PROVE memory'[c].repair
                OBVIOUS
            <3>1. CASE c \in Reached(S)
                <4>1. Recovered(memory[c]).repair
                    BY <1>1, RepairStays
                <4>2. c \in Failing(S)
                    BY <1>6, <3>1, <4>1 DEF Failing
                <4>3. QED BY <1>8, <3>1, <4>2
            <3>2. CASE c \notin Reached(S)
                BY <1>9, <3>2
            <3>3. QED BY <3>1, <3>2
        <2>2. ASSUME NEW c \in Cells, memory'[c].repair PROVE wake'[c] # "DORMANT"
            <3>1. CASE c \in Reached(S)
                <4>1. c \in S /\ c \notin Handling(S)
                    BY <1>6, <1>8, <2>2, <3>1
                <4>2. QED BY <1>2, <4>1 DEF WakeStateAfter
            <3>2. CASE c \in S \ Reached(S)
                <4>1. c \notin Handling(S)
                    BY <1>6, <3>2
                <4>2. QED BY <1>2, <3>2, <4>1 DEF WakeStateAfter
            <3>3. CASE c \notin S
                <4>1. memory'[c] = memory[c] /\ wake'[c] = wake[c]
                    BY <1>2, <1>6, <3>3
                <4>2. QED BY <1>1, <2>2, <4>1 DEF WakeFitsRepair
            <3>4. QED BY <3>1, <3>2, <3>3
        <2>3. ASSUME NEW c \in Cells, wake'[c] = "ACTIVE"
              PROVE  \E d \in Cells \ {c} : memory'[d].repair
            <3>1. CASE c \in S
                <4>1. c \notin Reached(S)
                    BY <1>2, <2>3, <3>1 DEF WakeStateAfter, Reached
                <4>2. PICK d \in Reached(S) : d \in Failing(S)
                    BY <1>6, <3>1, <4>1
                <4>3. d \in Cells \ {c} /\ memory'[d].repair
                    BY <1>6, <1>8, <4>1, <4>2
                <4>4. QED BY <4>3
            <3>2. CASE c \notin S
                <4>1. wake[c] = "ACTIVE"
                    BY <1>2, <2>3, <3>2
                <4>2. PICK d \in Cells \ {c} : memory[d].repair
                    BY <1>1, <4>1 DEF WakeFitsRepair
                <4>3. QED BY <2>1, <4>2
            <3>3. QED BY <3>1, <3>2
        <2>4. QED BY <2>2, <2>3 DEF WakeFitsRepair
    <1>17. QED BY <1>12, <1>14, <1>15, <1>16 DEF IInv

LEMMA StepIInv == IInv /\ [Next]_vars => IInv'
    <1> SUFFICES ASSUME IInv, [Next]_vars PROVE IInv'
        OBVIOUS
    <1>1. ASSUME NEW c \in Cells, NEW point \in Points, Interrupt(c, point) PROVE IInv'
        BY <1>1, InterruptKeeps
    <1>2. CASE Reload
        BY <1>2, ReloadKeeps
    <1>3. ASSUME NEW c \in Cells, NEW d \in Cells, NEW k \in Keys, NEW important \in BOOLEAN,
                 Event({c, d}, k, important)
          PROVE  IInv'
        <2>1. Handle({c, d}, k, important) /\ {c, d} \in SUBSET Cells
            BY <1>3 DEF Event
        <2>2. QED BY <2>1, HandleKeeps
    <1>4. ASSUME NEW c \in Cells, NEW k \in Keys, NEW important \in BOOLEAN,
                 Observe(c, k, important)
          PROVE  IInv'
        <2>1. Handle({c}, k, important) /\ {c} \in SUBSET Cells
            BY <1>4 DEF Observe
        <2>2. QED BY <2>1, HandleKeeps
    <1>5. ASSUME NEW c \in Cells, NEW part \in {"before", "after", "arrays"}, Damage(c, part)
          PROVE  IInv'
        BY <1>5, DamageKeeps
    <1>6. CASE UNCHANGED vars
        BY <1>6 DEF vars, history, IInv, TypeOK, MemoryInv, ConservedInv, ReceiptsNumbered,
                    WakeFitsRepair
    <1>7. QED BY <1>1, <1>2, <1>3, <1>4, <1>5, <1>6 DEF Next

-----------------------------------------------------------------------------
(***************************************************************************)
(* The theorems about the events of a cell.                                *)
(***************************************************************************)

\* The inductive invariant holds of every behaviour of journaled compaction.
THEOREM Invariant == Spec => []IInv
    <1>1. Init => IInv
        BY InitIInv
    <1>2. IInv /\ [Next]_vars => IInv'
        BY StepIInv
    <1>3. QED BY <1>1, <1>2, PTL DEF Spec

\* Memories, wake states and the histories have their types, whatever is
\* interrupted, reloaded or damaged.
THEOREM TypeCorrect == Spec => []TypeOK
    <1>1. IInv => TypeOK
        BY DEF IInv
    <1>2. QED BY <1>1, Invariant, PTL

\* compactWorkingMemory, its four interruptions and its recovery lose no record:
\* what a cell was given is in its memory, counted in a summary of its own class,
\* or went with a summary that was dropped for being over the budget.
THEOREM RecordsConserved == Spec => []Conserved
    <1>1. IInv => Conserved
        BY DEF IInv, ConservedInv, Conserved, Settled
    <1>2. QED BY <1>1, Invariant, PTL

\* finalReceipt writes at most one receipt for a compaction, and without damage
\* the receipts are those of the generations in order.
THEOREM ReceiptsAlwaysNumbered == Spec => []ReceiptsNumbered
    <1>1. IInv => ReceiptsNumbered
        BY DEF IInv
    <1>2. QED BY <1>1, Invariant, PTL

\* processEvent and the reload leave no cell that needs repair dormant, so that no
\* handoff is delivered to it.
THEOREM RepairNeverDormant == Spec => []WakeFitsRepair
    <1>1. IInv => WakeFitsRepair
        BY DEF IInv
    <1>2. QED BY <1>1, Invariant, PTL

\* What recovery makes of a cell.
LEMMA OutcomeOf ==
    ASSUME NEW m, NEW undamaged \in BOOLEAN, Good(m, undamaged)
    PROVE  /\ ~Pending(m) => Outcome(m) = m.arrays /\ Revertible(m) = m.arrays
           /\ Pending(m) /\ ~m.journal.beforeIntact =>
                 Outcome(m) = GivenUp /\ Revertible(m) = GivenUp
           /\ Pending(m) /\ m.journal.beforeIntact =>
                 /\ Outcome(m) = IF RollsForward(m) THEN Compacted(m.journal.before)
                                                    ELSE m.journal.before
                 /\ Outcome(m) # GivenUp
                 /\ Revertible(m) = m.journal.before
           /\ Recovered(m).repair <=> Outcome(m) = GivenUp
           /\ ~Recovered(m).repair => Outcome(m) = Recovered(m).arrays
           /\ undamaged /\ Pending(m) => RollsForward(m)
    <1>1. PICK r : r = Recovered(m)
        OBVIOUS
    <1>2. PICK a : a = r.arrays
        OBVIOUS
    <1>3. PICK b : b = IF RollsForward(m) THEN Compacted(m.journal.before) ELSE m.journal.before
        OBVIOUS
    <1>4. /\ Good(r, undamaged)
          /\ ~Pending(m) => r = m /\ ~r.repair
          /\ Pending(m) /\ ~m.journal.beforeIntact => r.repair
          /\ Pending(m) /\ m.journal.beforeIntact => ~r.repair /\ a = b
          /\ undamaged /\ Pending(m) => RollsForward(m)
        BY <1>1, <1>2, <1>3, RecoveredKeeps
    <1>5. a \in Image /\ a # GivenUp
        BY <1>2, <1>4, MemoryAssumption DEF Good, CellInv, Sound
    <1>6. Outcome(m) = IF r.repair THEN GivenUp ELSE a
        BY <1>1, <1>2 DEF Outcome
    <1>7. Revertible(m) = IF Pending(m) /\ Outcome(m) # GivenUp THEN m.journal.before
                                                                ELSE Outcome(m)
        BY DEF Revertible
    <1>8. QED BY <1>1, <1>2, <1>3, <1>4, <1>5, <1>6, <1>7

\* A compaction that was interrupted where nothing was damaged completes: what
\* recovery yields is what it would have yielded without the interruption.
THEOREM InterruptionsComplete == Spec => []InterruptedCompletes
    <1>1. IInv => InterruptedCompletes
        <2> SUFFICES ASSUME IInv, NEW c \in Cells, Pending(memory[c]), damaged[c] = 0
                     PROVE  Outcome(memory[c]) = Compacted(memory[c].journal.before)
            BY DEF InterruptedCompletes
        <2>1. Fine(c)
            BY CellByCell DEF IInv, TypeOK
        <2>2. Good(memory[c], TRUE)
            BY <2>1 DEF Fine
        <2>3. RollsForward(memory[c])
            BY <2>2, OutcomeOf
        <2>4. memory[c].journal.beforeIntact
            BY <2>3 DEF RollsForward
        <2>5. QED BY <2>2, <2>3, <2>4, OutcomeOf
    <1>2. QED BY <1>1, Invariant, PTL

\* No event, recovery or compaction alters a memory that needs repair: retainMemory
\* throws at it and recoverCellMemoryCompaction leaves it as the evidence it is.
THEOREM EvidenceIsKept == Spec => FailClosed
    <1>1. ASSUME IInv, [Next]_vars
          PROVE  [\A c \in Cells : memory[c].repair /\ damaged'[c] = damaged[c] =>
                     memory'[c] = memory[c]]_vars
        <2>1. TypeOK /\ \A d \in Cells : Fine(d)
            BY <1>1, CellByCell DEF IInv, TypeOK
        <2>2. SUFFICES ASSUME Next, NEW c \in Cells, memory[c].repair, damaged'[c] = damaged[c]
                       PROVE  memory'[c] = memory[c]
            BY <1>1
        <2>3. Recovered(memory[c]) = memory[c]
            BY <2>1, <2>2, RepairStays
        <2>4. ASSUME NEW d \in Cells, NEW point \in Points, Interrupt(d, point)
              PROVE  memory'[c] = memory[c]
            <3>1. d # c
                BY <2>2, <2>4 DEF Interrupt
            <3>2. QED BY <2>1, <2>4, <3>1 DEF Interrupt, TypeOK
        <2>5. CASE Reload
            BY <2>3, <2>5 DEF Reload
        <2>6. ASSUME NEW S \in SUBSET Cells, NEW k \in Keys, NEW important \in BOOLEAN,
                     Handle(S, k, important)
              PROVE  memory'[c] = memory[c]
            <3>1. memory'[c] = IF c \in Reached(S) THEN Retaining(memory[c], k, important)
                                                  ELSE memory[c]
                BY <2>6 DEF Handle, Reached
            <3>2. Retaining(memory[c], k, important) = memory[c]
                BY <2>2, <2>3 DEF Retaining
            <3>3. QED BY <3>1, <3>2
        <2>7. ASSUME NEW d \in Cells, NEW part \in {"before", "after", "arrays"}, Damage(d, part)
              PROVE  memory'[c] = memory[c]
            <3>1. damaged' = [damaged EXCEPT ![d] = damaged[d] + 1]
                BY <2>7 DEF Damage
            <3>2. damaged[d] \in Nat /\ damaged[d] + 1 # damaged[d]
                BY <2>1 DEF TypeOK
            <3>3. d # c
                BY <2>1, <2>2, <3>1, <3>2 DEF TypeOK
            <3>4. QED BY <2>1, <2>7, <3>3 DEF Damage, TypeOK
        <2>8. ASSUME NEW d \in Cells, NEW e \in Cells, NEW k \in Keys, NEW important \in BOOLEAN,
                     Event({d, e}, k, important) \/ Observe(d, k, important)
              PROVE  memory'[c] = memory[c]
            <3>1. Handle({d, e}, k, important) \/ Handle({d}, k, important)
                BY <2>8 DEF Event, Observe
            <3>2. {d, e} \in SUBSET Cells /\ {d} \in SUBSET Cells
                OBVIOUS
            <3>3. QED BY <2>6, <3>1, <3>2
        <2>9. QED BY <2>2, <2>4, <2>5, <2>7, <2>8 DEF Next
    <1>2. QED BY <1>1, Invariant, PTL DEF Spec, FailClosed

-----------------------------------------------------------------------------
(***************************************************************************)
(* The cells implement RetainedMemory.                                     *)
(***************************************************************************)

\* RetainedMemory remembers and compacts as the cells do.
LEMMA SameOperators ==
    ASSUME NEW m
    PROVE  /\ Retained!Compacted(m) = Compacted(m)
           /\ \A k : Retained!Remember(m, k) = Remember(m, k)
    <1>1. ASSUME NEW s, NEW budget PROVE Retained!Excess(s, budget) = Excess(s, budget)
        BY DEF Retained!Excess, Excess
    <1>2. Retained!Overflow(m) = Overflow(m)
        BY <1>1 DEF Retained!Overflow, Overflow
    <1>3. Retained!Summaries(m) = Summaries(m)
        <2>1. PICK old : old = SubSeq(m.working, 1, Overflow(m))
            OBVIOUS
        <2>2. SubSeq(m.working, 1, Retained!Overflow(m)) = old
            BY <1>2, <2>1
        <2>3. Summaries(m) = FoldLeft(Summarise, m.compressed, old)
            BY <2>1 DEF Summaries
        <2>4. Retained!Summaries(m) = Retained!FoldLeft(Retained!Summarise, m.compressed, old)
            BY <2>2, Zenon DEF Retained!Summaries
        <2>5. Retained!FoldLeft(Retained!Summarise, m.compressed, old) =
              FoldLeft(Summarise, m.compressed, old)
            BY Zenon DEF FoldLeft, MapThenFoldSet, Max, Summarise,
                         Retained!FoldLeft, Retained!MapThenFoldSet, Retained!Max,
                         Retained!Summarise
        <2>6. QED BY <2>3, <2>4, <2>5
    <1>4. Retained!Compacted(m) = Compacted(m)
        BY <1>1, <1>2, <1>3 DEF Retained!Compacted, Compacted
    <1>5. QED BY <1>4 DEF Retained!Remember, Remember

\* What a step may do to the image a cell holds and to the one it can go back to.
Moves(image, back, image1, back1, tampered) ==
    \/ image1 = image /\ back1 = back
    \/ /\ image # GivenUp
       /\ \/ back1 = image /\ image1 \in {image, Compacted(image)}
          \/ back1 = image1 /\ image1 = Compacted(image)
          \/ back1 = image1 /\ \E k \in Keys : image1 = Compacted(Remember(image, k))
          \/ tampered /\ back1 = image1 /\ image1 \in {back, GivenUp}

CellMoves(c) ==
    Moves(Outcome(memory[c]), Revertible(memory[c]),
          Outcome(memory[c])', Revertible(memory[c])', damaged'[c] > 0)

Tampered == {c \in Cells : damaged[c] > 0}
Images == [c \in Cells |-> Outcome(memory[c])]
Backs == [c \in Cells |-> Revertible(memory[c])]

LEMMA MovesRefine ==
    ASSUME Tampered \subseteq Tampered', \A c \in Cells : CellMoves(c)
    PROVE  Retained!Next
    <1>1. ASSUME NEW c \in Cells PROVE Retained!Change(c) \/ Retained!Stays(c)
        <2>1. /\ Images[c] = Outcome(memory[c]) /\ Backs[c] = Revertible(memory[c])
              /\ Images'[c] = Outcome(memory[c])' /\ Backs'[c] = Revertible(memory[c])'
              /\ damaged'[c] > 0 => c \in Tampered'
            BY DEF Images, Backs, Tampered
        <2>2. Moves(Images[c], Backs[c], Images'[c], Backs'[c], damaged'[c] > 0)
            BY <2>1 DEF CellMoves
        <2>3. Moves(Images[c], Backs[c], Images'[c], Backs'[c], c \in Tampered')
            BY <2>1, <2>2 DEF Moves
        <2>4. QED BY <2>3, SameOperators
            DEF Moves, Images, Backs, Tampered, Retained!Change, Retained!Stays, Retained!Become,
                Retained!Settles, Retained!Reverts, Retained!Compacts,
                Retained!CompactsAndSettles, Retained!Retains, Retained!GivesUp
    <1>2. QED BY <1>1 DEF Retained!Next, Tampered

\* A cell that a step leaves alone.
LEMMA StillMoves ==
    ASSUME NEW c, memory'[c] = memory[c]
    PROVE  CellMoves(c)
    <1>1. Outcome(memory[c])' = Outcome(memory[c]) /\ Revertible(memory[c])' = Revertible(memory[c])
        BY DEF Outcome, Revertible
    <1>2. QED BY <1>1 DEF CellMoves, Moves

\* Recovery makes no difference to what recovery would make of the cell; it settles
\* what could still be taken back.
LEMMA RecoveringMoves ==
    ASSUME NEW m, NEW undamaged \in BOOLEAN, Good(m, undamaged),
           NEW n, n = Recovered(m), NEW tampered
    PROVE  Moves(Outcome(m), Revertible(m), Outcome(n), Revertible(n), tampered)
    <1>1. Good(n, undamaged) /\ m \in CellMemory
        BY RecoveredKeeps DEF Good
    <1>2. CASE ~Pending(m)
        <2>1. n = m
            BY <1>2, RecoveredKeeps
        <2>2. QED BY <2>1 DEF Moves
    <1>3. CASE Pending(m) /\ ~m.journal.beforeIntact
        <2>1. Pending(n) /\ n = [m EXCEPT !.repair = TRUE]
            BY <1>3, RecoveredKeeps
        <2>2. n.journal = m.journal
            BY <1>1, <2>1 DEF CellMemory
        <2>3. /\ Outcome(m) = GivenUp /\ Revertible(m) = GivenUp
              /\ Outcome(n) = GivenUp /\ Revertible(n) = GivenUp
            BY <1>1, <1>3, <2>1, <2>2, OutcomeOf
        <2>4. QED BY <2>3 DEF Moves
    <1>4. CASE Pending(m) /\ m.journal.beforeIntact
        <2>1. ~Pending(n) /\ ~Recovered(m).repair
            BY <1>4, RecoveredKeeps
        <2>2. Outcome(n) = n.arrays /\ Revertible(n) = n.arrays
            BY <1>1, <2>1, OutcomeOf
        <2>3. Outcome(m) = n.arrays /\ Outcome(m) # GivenUp
            BY <1>4, <2>1, OutcomeOf
        <2>4. QED BY <2>2, <2>3 DEF Moves
    <1>5. QED BY <1>2, <1>3, <1>4

\* An event is one record more and a compaction, or a compaction, on top of what
\* recovery would make of the cell.
LEMMA RetainingMoves ==
    ASSUME NEW m, NEW undamaged \in BOOLEAN, Good(m, undamaged),
           NEW k \in Keys, NEW important \in BOOLEAN,
           NEW n, n = Retaining(m, k, important), NEW tampered
    PROVE  Moves(Outcome(m), Revertible(m), Outcome(n), Revertible(n), tampered)
    <1>1. PICK r : r = Recovered(m)
        OBVIOUS
    <1>2. CASE r.repair
        <2>1. n = r
            BY <1>1, <1>2 DEF Retaining
        <2>2. QED BY <1>1, <2>1, RecoveringMoves
    <1>3. CASE ~r.repair
        <2>1. Good(n, undamaged)
            BY RetainingKeeps
        <2>2. ~Pending(n) /\ n.arrays = Compacted(IF important THEN Remember(r.arrays, k)
                                                              ELSE r.arrays)
            BY <1>1, <1>3, RetainingKeeps
        <2>3. Outcome(n) = n.arrays /\ Revertible(n) = n.arrays
            BY <2>1, <2>2, OutcomeOf
        <2>4. Outcome(m) = r.arrays /\ Outcome(m) # GivenUp
            BY <1>1, <1>3, OutcomeOf
        <2>5. CASE important
            BY <2>2, <2>3, <2>4, <2>5 DEF Moves
        <2>6. CASE ~important
            BY <2>2, <2>3, <2>4, <2>6 DEF Moves
        <2>7. QED BY <2>5, <2>6
    <1>4. QED BY <1>2, <1>3

\* Damage gives a memory up, or takes its pending compaction back.
LEMMA DamagingMoves ==
    ASSUME NEW m, NEW undamaged \in BOOLEAN, Good(m, undamaged), Pending(m),
           NEW part, part = "before" \/ part = "after" \/ part = "arrays",
           NEW n, n = Damaged(m, part)
    PROVE  Moves(Outcome(m), Revertible(m), Outcome(n), Revertible(n), TRUE)
    <1>1. /\ Good(n, FALSE) /\ Pending(n) /\ n.journal.before = m.journal.before
          /\ ~RollsForward(n) /\ (~m.journal.beforeIntact => ~n.journal.beforeIntact)
        BY DamagedCell
    <1>2. CASE ~m.journal.beforeIntact
        <2>1. /\ Outcome(m) = GivenUp /\ Revertible(m) = GivenUp
              /\ Outcome(n) = GivenUp /\ Revertible(n) = GivenUp
            BY <1>1, <1>2, OutcomeOf
        <2>2. QED BY <2>1 DEF Moves
    <1>3. CASE m.journal.beforeIntact /\ ~n.journal.beforeIntact
        <2>1. Outcome(m) # GivenUp /\ Outcome(n) = GivenUp /\ Revertible(n) = GivenUp
            BY <1>1, <1>3, OutcomeOf
        <2>2. QED BY <2>1 DEF Moves
    <1>4. CASE m.journal.beforeIntact /\ n.journal.beforeIntact
        <2>1. Outcome(m) # GivenUp /\ Revertible(m) = m.journal.before
            BY <1>4, OutcomeOf
        <2>2. Outcome(n) = m.journal.before /\ Revertible(n) = m.journal.before
            BY <1>1, <1>4, OutcomeOf
        <2>3. QED BY <2>1, <2>2 DEF Moves
    <1>5. QED BY <1>2, <1>3, <1>4

LEMMA InterruptingMoves ==
    ASSUME NEW m, NEW undamaged \in BOOLEAN, Good(m, undamaged), ~Pending(m), ~m.repair,
           Overflow(m.arrays) > 0, NEW point \in Points,
           NEW n, n = CompactedUntil(m, point), NEW tampered
    PROVE  Moves(Outcome(m), Revertible(m), Outcome(n), Revertible(n), tampered)
    <1>1. /\ Good(n, undamaged) /\ Pending(n) /\ n.journal.before = m.arrays /\ RollsForward(n)
        BY InterruptedKeeps
    <1>2. n.journal.beforeIntact
        BY <1>1 DEF RollsForward
    <1>3. Outcome(n) = Compacted(m.arrays) /\ Revertible(n) = m.arrays
        BY <1>1, <1>2, OutcomeOf
    <1>4. Outcome(m) = m.arrays /\ Outcome(m) # GivenUp
        <2>1. Outcome(m) = m.arrays
            BY OutcomeOf
        <2>2. m.arrays \in Image
            BY DEF Good, CellInv, Sound
        <2>3. QED BY <2>1, <2>2, MemoryAssumption
    <1>5. QED BY <1>3, <1>4 DEF Moves

LEMMA StepRefines ==
    ASSUME IInv, Next
    PROVE  Retained!Next
    <1>1. TypeOK /\ \A d \in Cells : Fine(d)
        BY CellByCell DEF IInv, TypeOK
    <1>2. \A c \in Cells : (damaged[c] = 0) \in BOOLEAN /\ Good(memory[c], damaged[c] = 0)
        BY <1>1 DEF Fine
    <1>3. ASSUME NEW c \in Cells,
                 Moves(Outcome(memory[c]), Revertible(memory[c]),
                       Outcome(memory'[c]), Revertible(memory'[c]), damaged'[c] > 0)
          PROVE  CellMoves(c)
        BY <1>3 DEF CellMoves, Outcome, Revertible
    <1>4. ASSUME NEW c \in Cells, NEW point \in Points, Interrupt(c, point)
          PROVE  Retained!Next
        <2>1. \A d \in Cells : CellMoves(d)
            <3> SUFFICES ASSUME NEW d \in Cells PROVE CellMoves(d)
                OBVIOUS
            <3>1. CASE d = c
                <4>1. memory'[d] = CompactedUntil(memory[d], point)
                    BY <1>1, <1>4, <3>1 DEF Interrupt, TypeOK
                <4>2. /\ ~Pending(memory[d]) /\ ~memory[d].repair
                      /\ Overflow(memory[d].arrays) > 0
                    BY <1>4, <3>1 DEF Interrupt
                <4>3. QED BY <1>2, <1>3, <4>1, <4>2, InterruptingMoves
            <3>2. CASE d # c
                <4>1. memory'[d] = memory[d]
                    BY <1>1, <1>4, <3>2 DEF Interrupt, TypeOK
                <4>2. QED BY <4>1, StillMoves
            <3>3. QED BY <3>1, <3>2
        <2>2. damaged' = damaged
            BY <1>4 DEF Interrupt, history
        <2>3. QED BY <2>1, <2>2, MovesRefine DEF Tampered
    <1>5. CASE Reload
        <2>1. \A d \in Cells : CellMoves(d)
            <3> SUFFICES ASSUME NEW d \in Cells PROVE CellMoves(d)
                OBVIOUS
            <3>1. memory'[d] = Recovered(memory[d])
                BY <1>5 DEF Reload
            <3>2. QED BY <1>2, <1>3, <3>1, RecoveringMoves
        <2>2. damaged' = damaged
            BY <1>5 DEF Reload
        <2>3. QED BY <2>1, <2>2, MovesRefine DEF Tampered
    <1>6. ASSUME NEW S \in SUBSET Cells, NEW k \in Keys, NEW important \in BOOLEAN,
                 Handle(S, k, important)
          PROVE  Retained!Next
        <2>1. \A d \in Cells : CellMoves(d)
            <3> SUFFICES ASSUME NEW d \in Cells PROVE CellMoves(d)
                OBVIOUS
            <3>1. memory'[d] = IF d \in Reached(S) THEN Retaining(memory[d], k, important)
                                                  ELSE memory[d]
                BY <1>6 DEF Handle, Reached
            <3>2. CASE d \in Reached(S)
                <4>1. memory'[d] = Retaining(memory[d], k, important)
                    BY <3>1, <3>2
                <4>2. QED BY <1>2, <1>3, <4>1, RetainingMoves
            <3>3. CASE d \notin Reached(S)
                BY <3>1, <3>3, StillMoves
            <3>4. QED BY <3>2, <3>3
        <2>2. damaged' = damaged
            BY <1>6 DEF Handle
        <2>3. QED BY <2>1, <2>2, MovesRefine DEF Tampered
    <1>7. ASSUME NEW c \in Cells, NEW part \in {"before", "after", "arrays"}, Damage(c, part)
          PROVE  Retained!Next
        <2>1. damaged' = [damaged EXCEPT ![c] = damaged[c] + 1]
            BY <1>7 DEF Damage
        <2>2. \A d \in Cells : damaged[d] \in Nat
            BY <1>1 DEF TypeOK
        <2>3. damaged'[c] = damaged[c] + 1 /\ \A d \in Cells : d = c \/ damaged'[d] = damaged[d]
            BY <1>1, <2>1 DEF TypeOK
        <2>4. damaged'[c] > 0 /\ Tampered \subseteq Tampered'
            BY <2>2, <2>3 DEF Tampered
        <2>5. memory' = [memory EXCEPT ![c] = Damaged(memory[c], part)]
            BY <1>1, <1>7 DEF Damage, TypeOK, Damaged
        <2>6. \A d \in Cells : CellMoves(d)
            <3> SUFFICES ASSUME NEW d \in Cells PROVE CellMoves(d)
                OBVIOUS
            <3>1. CASE d = c
                <4>1. memory'[c] = Damaged(memory[c], part)
                    BY <1>1, <2>5 DEF TypeOK
                <4>2. Pending(memory[c])
                    BY <1>7 DEF Damage
                <4>3. Moves(Outcome(memory[c]), Revertible(memory[c]),
                            Outcome(memory'[c]), Revertible(memory'[c]), TRUE)
                    BY <1>2, <4>1, <4>2, DamagingMoves
                <4>4. Moves(Outcome(memory[c]), Revertible(memory[c]),
                            Outcome(memory'[c]), Revertible(memory'[c]), damaged'[c] > 0)
                    BY <2>4, <4>3 DEF Moves
                <4>5. QED BY <1>3, <3>1, <4>4
            <3>2. CASE d # c
                <4>1. memory'[d] = memory[d]
                    BY <1>1, <2>5, <3>2 DEF TypeOK
                <4>2. QED BY <4>1, StillMoves
            <3>3. QED BY <3>1, <3>2
        <2>7. QED BY <2>4, <2>6, MovesRefine
    <1>8. ASSUME NEW c \in Cells, NEW d \in Cells, NEW k \in Keys, NEW important \in BOOLEAN,
                 Event({c, d}, k, important) \/ Observe(c, k, important)
          PROVE  Retained!Next
        <2>1. Handle({c, d}, k, important) \/ Handle({c}, k, important)
            BY <1>8 DEF Event, Observe
        <2>2. {c, d} \in SUBSET Cells /\ {c} \in SUBSET Cells
            OBVIOUS
        <2>3. QED BY <1>6, <2>1, <2>2
    <1>9. QED BY <1>4, <1>5, <1>7, <1>8 DEF Next

\* Interrupted, damaged or neither, the cells implement a memory that changes by
\* whole records and whole compactions: no mixture of the two images of a journal
\* is ever taken for a memory.
THEOREM ImplementsRetainedMemory == Spec => ImplementsRetained
    <1>1. Init => Retained!Init
        <2> SUFFICES ASSUME Init PROVE Retained!Init
            OBVIOUS
        <2>1. IInv
            BY InitIInv
        <2>2. \A c \in Cells : ~Pending(memory[c]) /\ damaged[c] = 0
            BY DEF Init, Pending
        <2>3. ASSUME NEW c \in Cells
              PROVE  Outcome(memory[c]) \in Image /\ Revertible(memory[c]) = Outcome(memory[c])
            <3>1. Good(memory[c], TRUE)
                BY <2>1, <2>2, CellByCell DEF IInv, TypeOK, Fine
            <3>2. memory[c].arrays \in Image
                BY <3>1 DEF Good, CellInv, Sound
            <3>3. QED BY <2>2, <3>1, <3>2, OutcomeOf
        <2>4. Image = Retained!Image
            BY DEF Image, Retained!Image, Summary, Retained!Summary
        <2>5. QED BY <2>2, <2>3, <2>4 DEF Retained!Init
    <1>2. IInv /\ [Next]_vars => [Retained!Next]_(Retained!retainedVars)
        <2>1. CASE UNCHANGED vars
            BY <2>1 DEF vars, history, Retained!retainedVars, Outcome, Revertible
        <2>2. QED BY <2>1, StepRefines
    <1>3. QED BY <1>1, <1>2, Invariant, PTL DEF Spec, ImplementsRetained, Retained!Spec
=============================================================================
