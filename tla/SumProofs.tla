----------------------------- MODULE SumProofs -----------------------------
(***************************************************************************)
(* Sums over finite sets: MapThenSumSet of FiniteSetsExt is a fold, defined *)
(* by recursion over the subsets of the set.  The facts below are what the *)
(* proofs about counters need of it.                                       *)
(***************************************************************************)
EXTENDS Integers, FiniteSets, FiniteSetsExt, FiniteSetTheorems, WellFoundedInduction, TLAPS

\* The sum of f[x] for x in S.
SumOver(f, S) == MapThenSumSet(LAMBDA x : f[x], S)

\* Induction with the set of the numbers that satisfy a property in place of
\* the property.
LEMMA SetInduction ==
    ASSUME NEW T \in SUBSET Nat, 0 \in T, \A n \in T : n + 1 \in T
    PROVE  T = Nat
<1> SUFFICES ASSUME T # Nat PROVE FALSE
    OBVIOUS
<1> DEFINE U == Nat \ T
<1>1. U \subseteq Nat /\ U # {}
    OBVIOUS
<1> HIDE DEF U
<1>2. PICK x \in U : \A y \in U : ~(<<y, x>> \in OpToRel(<, Nat))
    BY <1>1, NatLessThanWellFounded, WFMin
<1>3. x \in Nat /\ x \notin T /\ x # 0
    BY <1>1, <1>2 DEF U
<1>4. x - 1 \in Nat /\ x - 1 < x /\ (x - 1) + 1 = x
    BY <1>3
<1>5. x - 1 \notin U
    <2> SUFFICES ASSUME x - 1 \in U PROVE FALSE
        OBVIOUS
    <2>1. <<x - 1, x>> \in OpToRel(<, Nat)
        BY <1>3, <1>4 DEF OpToRel
    <2> QED BY <2>1, <1>2
<1> QED BY <1>3, <1>4, <1>5 DEF U
----------------------------------------------------------------------------
(* The recursion of the fold *)

First(s) == CHOOSE x \in s : TRUE

Adds(f, g, s) == IF s = {} THEN 0 ELSE f[First(s)] + g[s \ {First(s)}]

IsSum(f, S, g) == g = [s \in SUBSET S |-> Adds(f, g, s)]

Small(S, n) == {s \in SUBSET S : Cardinality(s) <= n}

\* The element that the fold takes first.
LEMMA FirstIn == ASSUME NEW s, s # {} PROVE First(s) \in s
BY DEF First

\* What is left without it is smaller.
LEMMA Smaller ==
    ASSUME NEW S, IsFiniteSet(S), NEW n \in Nat, NEW s \in Small(S, n + 1), NEW x \in s
    PROVE  s \ {x} \in Small(S, n)
<1>1. s \in SUBSET S /\ IsFiniteSet(s) /\ Cardinality(s) <= n + 1
    BY FS_Subset DEF Small
<1>2. Cardinality(s \ {x}) = Cardinality(s) - 1 /\ Cardinality(s) \in Nat
    BY <1>1, FS_RemoveElement, FS_CardinalityType
<1> QED BY <1>1, <1>2 DEF Small

\* The least subset is empty.
LEMMA SmallNone == ASSUME NEW S, IsFiniteSet(S), NEW s \in Small(S, 0) PROVE s = {}
<1>1. IsFiniteSet(s) /\ Cardinality(s) <= 0
    BY FS_Subset DEF Small
<1>2. Cardinality(s) \in Nat
    BY <1>1, FS_CardinalityType
<1>3. Cardinality(s) = 0
    BY <1>1, <1>2
<1> QED BY <1>1, <1>3, FS_EmptySet

\* Every subset is small for some number.
LEMMA SmallAll ==
    ASSUME NEW S, IsFiniteSet(S) PROVE Cardinality(S) \in Nat /\ Small(S, Cardinality(S)) = SUBSET S
<1>1. \A s \in SUBSET S : Cardinality(s) <= Cardinality(S)
    BY FS_Subset
<1> QED BY <1>1, FS_CardinalityType DEF Small

\* There is a function that satisfies the fold's recursion: CHOOSE finds it.
LEMMA SumExists ==
    ASSUME NEW S, IsFiniteSet(S), NEW f \in [S -> Nat]
    PROVE  \E g : IsSum(f, S, g)
<1> DEFINE Good(n, g) == g \in [Small(S, n) -> Nat] /\ \A s \in Small(S, n) : g[s] = Adds(f, g, s)
           T == {n \in Nat : \E g : Good(n, g)}
<1>1. 0 \in T
    <2> DEFINE g == [s \in Small(S, 0) |-> 0]
    <2>1. Good(0, g)
        BY SmallNone DEF Adds
    <2> QED BY <2>1
<1>2. ASSUME NEW n \in T PROVE n + 1 \in T
    <2>1. PICK g : Good(n, g)
        OBVIOUS
    <2>2. n \in Nat
        OBVIOUS
    <2> DEFINE h == [s \in Small(S, n + 1) |-> Adds(f, g, s)]
    <2>3. ASSUME NEW s \in Small(S, n + 1), s # {}
          PROVE  First(s) \in S /\ s \ {First(s)} \in Small(S, n)
        <3>1. First(s) \in s
            BY <2>3, FirstIn
        <3>2. s \ {First(s)} \in Small(S, n)
            BY <3>1, <2>2, Smaller
        <3> QED BY <3>1, <3>2 DEF Small
    <2>4. h \in [Small(S, n + 1) -> Nat]
        <3> SUFFICES ASSUME NEW s \in Small(S, n + 1) PROVE Adds(f, g, s) \in Nat
            OBVIOUS
        <3> QED BY <2>1, <2>3 DEF Adds
    <2>5. ASSUME NEW t \in Small(S, n) PROVE h[t] = g[t]
        <3>1. t \in Small(S, n + 1)
            <4>1. t \in SUBSET S /\ Cardinality(t) <= n
                BY DEF Small
            <4>2. Cardinality(t) \in Nat
                BY <4>1, FS_Subset, FS_CardinalityType
            <4> QED BY <4>1, <4>2, <2>2 DEF Small
        <3> QED BY <3>1, <2>1
    <2>6. ASSUME NEW s \in Small(S, n + 1) PROVE h[s] = Adds(f, h, s)
        BY <2>3, <2>5 DEF Adds
    <2>7. Good(n + 1, h)
        BY <2>4, <2>6
    <2> HIDE DEF Good, h
    <2> QED BY <2>2, <2>7
<1>3. T = Nat
    <2> HIDE DEF Good
    <2>1. T \in SUBSET Nat
        OBVIOUS
    <2> HIDE DEF T
    <2> QED BY <2>1, <1>1, <1>2, SetInduction
<1>4. PICK g : Good(Cardinality(S), g)
    BY <1>3, SmallAll
<1>5. g = [s \in SUBSET S |-> Adds(f, g, s)]
    BY <1>4, SmallAll
<1> QED BY <1>5 DEF IsSum

\* The fold satisfies its recursion.
LEMMA SumIs ==
    ASSUME NEW S, IsFiniteSet(S), NEW f \in [S -> Nat]
    PROVE  \E g : IsSum(f, S, g) /\ SumOver(f, S) = g[S]
<1> DEFINE g == CHOOSE g : IsSum(f, S, g)
<1>1. IsSum(f, S, g)
    BY SumExists
<1>2. SumOver(f, S) = g[S]
    BY DEF SumOver, MapThenSumSet, MapThenFoldSet, IsSum, Adds, First
<1> QED BY <1>1, <1>2
----------------------------------------------------------------------------
(* What a sum does *)

Splits(f, S, g) == \A s \in SUBSET S : g[s] \in Nat /\ \A x \in s : g[s] = f[x] + g[s \ {x}]

\* Any element may be split off, not only the one that the recursion takes.
LEMMA SumSplits ==
    ASSUME NEW S, IsFiniteSet(S), NEW f \in [S -> Nat], NEW g, IsSum(f, S, g)
    PROVE  Splits(f, S, g)
<1> DEFINE Good(s) == g[s] \in Nat /\ \A x \in s : g[s] = f[x] + g[s \ {x}]
           T == {n \in Nat : \A s \in Small(S, n) : Good(s)}
<1>1. \A s \in SUBSET S : g[s] = Adds(f, g, s)
    BY DEF IsSum
<1>2. 0 \in T
    <2>1. ASSUME NEW s \in Small(S, 0) PROVE Good(s)
        <3>1. s = {}
            BY SmallNone
        <3>2. g[s] = 0
            BY <1>1, <3>1 DEF Adds
        <3> QED BY <3>1, <3>2
    <2> QED BY <2>1
<1>3. ASSUME NEW n \in T PROVE n + 1 \in T
    <2>1. n \in Nat /\ \A s \in Small(S, n) : Good(s)
        OBVIOUS
    <2>2. ASSUME NEW s \in Small(S, n + 1) PROVE Good(s)
        <3>1. CASE s = {}
            BY <1>1, <3>1 DEF Adds
        <3>2. CASE s # {}
            <4> DEFINE y == First(s)
            <4>1. y \in s /\ s \in SUBSET S
                BY <3>2, FirstIn DEF Small
            <4>2. g[s] = f[y] + g[s \ {y}]
                BY <1>1, <3>2, <4>1 DEF Adds
            <4> HIDE DEF y
            <4>3. s \ {y} \in Small(S, n) /\ Good(s \ {y})
                BY <2>1, <4>1, Smaller
            <4>4. g[s] \in Nat
                BY <4>1, <4>2, <4>3
            <4>5. ASSUME NEW x \in s, x # y PROVE g[s] = f[x] + g[s \ {x}]
                <5>1. s \ {x} \in Small(S, n) /\ Good(s \ {x}) /\ y \in s \ {x} /\ x \in s \ {y}
                    BY <2>1, <4>1, <4>5, Smaller
                <5>2. g[s \ {y}] = f[x] + g[(s \ {y}) \ {x}] /\ g[s \ {x}] = f[y] + g[(s \ {x}) \ {y}]
                    BY <4>3, <5>1
                <5>3. (s \ {y}) \ {x} = (s \ {x}) \ {y}
                    OBVIOUS
                <5>4. (s \ {x}) \ {y} \in Small(S, n)
                    <6>1. (s \ {x}) \ {y} \in SUBSET S /\ IsFiniteSet(s \ {x}) /\ Cardinality(s \ {x}) <= n
                        BY <5>1, <4>1, FS_Subset DEF Small
                    <6>2. /\ Cardinality((s \ {x}) \ {y}) <= Cardinality(s \ {x})
                          /\ Cardinality((s \ {x}) \ {y}) \in Nat /\ Cardinality(s \ {x}) \in Nat
                        BY <6>1, FS_Subset, FS_CardinalityType
                    <6> QED BY <6>1, <6>2, <2>1 DEF Small
                <5>5. g[(s \ {x}) \ {y}] \in Nat
                    BY <5>4, <2>1
                <5>6. f[x] \in Nat /\ f[y] \in Nat
                    BY <4>1
                <5>7. g[s \ {y}] = f[x] + g[(s \ {x}) \ {y}]
                    BY <5>2, <5>3
                <5> QED BY ONLY <4>2, <5>2, <5>5, <5>6, <5>7
            <4> QED BY <4>2, <4>4, <4>5
        <3> QED BY <3>1, <3>2
    <2> HIDE DEF Good
    <2> QED BY <2>1, <2>2
<1>4. T = Nat
    <2> HIDE DEF Good
    <2>1. T \in SUBSET Nat
        OBVIOUS
    <2> HIDE DEF T
    <2> QED BY <2>1, <1>2, <1>3, SetInduction
<1>5. \A s \in SUBSET S : Good(s)
    <2> HIDE DEF Good
    <2> QED BY <1>4, SmallAll
<1> QED BY <1>5 DEF Splits

\* A sum grows with its terms.
LEMMA SumGrows ==
    ASSUME NEW S, IsFiniteSet(S), NEW f \in [S -> Nat], NEW g, IsSum(f, S, g),
           NEW h \in [S -> Nat], NEW k, IsSum(h, S, k),
           NEW R \in SUBSET S, \A x \in R : f[x] <= h[x]
    PROVE  g[R] <= k[R]
<1> DEFINE T == {n \in Nat : \A s \in Small(S, n) : s \subseteq R => g[s] <= k[s]}
<1>1. Splits(f, S, g) /\ Splits(h, S, k)
    BY SumSplits
<1>2. g[{}] = 0 /\ k[{}] = 0
    <2>1. g[{}] = Adds(f, g, {}) /\ k[{}] = Adds(h, k, {})
        BY DEF IsSum
    <2> QED BY <2>1 DEF Adds
<1>3. 0 \in T
    <2>1. ASSUME NEW s \in Small(S, 0) PROVE g[s] <= k[s]
        <3>1. s = {}
            BY SmallNone
        <3> QED BY <3>1, <1>2
    <2> QED BY <2>1
<1>4. ASSUME NEW n \in T PROVE n + 1 \in T
    <2>1. n \in Nat /\ \A s \in Small(S, n) : s \subseteq R => g[s] <= k[s]
        OBVIOUS
    <2>2. ASSUME NEW s \in Small(S, n + 1), s \subseteq R PROVE g[s] <= k[s]
        <3>1. CASE s = {}
            BY <1>2, <3>1
        <3>2. CASE s # {}
            <4>1. PICK x \in s : TRUE
                BY <3>2
            <4>2. s \in SUBSET S /\ s \ {x} \in Small(S, n) /\ s \ {x} \in SUBSET S
                BY <2>1, Smaller DEF Small
            <4>3. g[s \ {x}] <= k[s \ {x}]
                BY <2>1, <2>2, <4>2
            <4>4. /\ g[s] = f[x] + g[s \ {x}] /\ k[s] = h[x] + k[s \ {x}]
                  /\ g[s \ {x}] \in Nat /\ k[s \ {x}] \in Nat
                BY <1>1, <4>2 DEF Splits
            <4>5. f[x] \in Nat /\ h[x] \in Nat /\ f[x] <= h[x]
                BY <2>2, <4>2
            <4> QED BY <4>3, <4>4, <4>5
        <3> QED BY <3>1, <3>2
    <2> QED BY <2>1, <2>2
<1>5. T = Nat
    <2>1. T \in SUBSET Nat
        OBVIOUS
    <2> HIDE DEF T
    <2> QED BY <2>1, <1>3, <1>4, SetInduction
<1> QED BY <1>5, SmallAll

\* The sum is a number that no term exceeds.
LEMMA SumType ==
    ASSUME NEW S, IsFiniteSet(S), NEW f \in [S -> Nat]
    PROVE  SumOver(f, S) \in Nat /\ \A x \in S : f[x] <= SumOver(f, S)
<1>1. PICK g : IsSum(f, S, g) /\ SumOver(f, S) = g[S]
    BY SumIs
<1>2. \A s \in SUBSET S : g[s] \in Nat /\ \A x \in s : g[s] = f[x] + g[s \ {x}]
    <2>1. Splits(f, S, g)
        BY <1>1, SumSplits
    <2> QED BY <2>1 DEF Splits
<1>3. ASSUME NEW x \in S PROVE f[x] <= g[S]
    <2>1. f[x] \in Nat /\ g[S \ {x}] \in Nat /\ g[S] = f[x] + g[S \ {x}]
        BY <1>2
    <2> QED BY ONLY <2>1
<1> QED BY <1>1, <1>2, <1>3

\* Of two sums, the one with the greater terms is the greater.
LEMMA SumMonotone ==
    ASSUME NEW S, IsFiniteSet(S), NEW f \in [S -> Nat], NEW h \in [S -> Nat],
           \A x \in S : f[x] <= h[x]
    PROVE  SumOver(f, S) <= SumOver(h, S)
<1>1. PICK g : IsSum(f, S, g) /\ SumOver(f, S) = g[S]
    BY SumIs
<1>2. PICK k : IsSum(h, S, k) /\ SumOver(h, S) = k[S]
    BY SumIs
<1> QED BY <1>1, <1>2, SumGrows

\* A sum without terms that count is zero.
LEMMA SumZero ==
    ASSUME NEW S, IsFiniteSet(S), NEW f \in [S -> Nat], \A x \in S : f[x] = 0
    PROVE  SumOver(f, S) = 0
<1>1. PICK g : IsSum(f, S, g) /\ SumOver(f, S) = g[S]
    BY SumIs
<1> DEFINE T == {n \in Nat : \A s \in Small(S, n) : g[s] = 0}
<1>2. \A s \in SUBSET S : g[s] \in Nat /\ \A x \in s : g[s] = f[x] + g[s \ {x}]
    <2>1. Splits(f, S, g)
        BY <1>1, SumSplits
    <2> QED BY <2>1 DEF Splits
<1>3. g[{}] = 0
    BY <1>1 DEF IsSum, Adds
<1>4. 0 \in T
    BY <1>3, SmallNone
<1>5. ASSUME NEW n \in T PROVE n + 1 \in T
    <2>1. n \in Nat /\ \A s \in Small(S, n) : g[s] = 0
        OBVIOUS
    <2>2. ASSUME NEW s \in Small(S, n + 1), s # {} PROVE g[s] = 0
        <3>1. PICK x \in s : TRUE
            BY <2>2
        <3>2. s \in SUBSET S /\ g[s \ {x}] = 0
            BY <2>1, Smaller DEF Small
        <3>3. x \in S /\ g[s] = f[x] + g[s \ {x}]
            BY <1>2, <3>2
        <3> QED BY <3>2, <3>3
    <2>3. \A s \in Small(S, n + 1) : g[s] = 0
        BY <1>3, <2>2
    <2> QED BY <2>1, <2>3
<1>6. T = Nat
    <2>1. T \in SUBSET Nat
        OBVIOUS
    <2> HIDE DEF T
    <2> QED BY <2>1, <1>4, <1>5, SetInduction
<1> QED BY <1>1, <1>6, SmallAll

\* Sums that differ in one term differ by as much.
LEMMA SumChange ==
    ASSUME NEW S, IsFiniteSet(S), NEW f \in [S -> Nat], NEW h \in [S -> Nat], NEW y \in S,
           \A x \in S \ {y} : h[x] = f[x]
    PROVE  SumOver(h, S) = SumOver(f, S) - f[y] + h[y]
<1>2. PICK g : IsSum(f, S, g) /\ SumOver(f, S) = g[S]
    BY SumIs
<1>3. PICK k : IsSum(h, S, k) /\ SumOver(h, S) = k[S]
    BY SumIs
<1>4. S \ {y} \in SUBSET S /\ \A x \in S \ {y} : f[x] <= h[x] /\ h[x] <= f[x]
    <2>1. ASSUME NEW x \in S \ {y} PROVE f[x] <= h[x] /\ h[x] <= f[x]
        OBVIOUS
    <2> QED BY <2>1
<1>5. g[S \ {y}] <= k[S \ {y}] /\ k[S \ {y}] <= g[S \ {y}]
    BY <1>2, <1>3, <1>4, SumGrows
<1>6. /\ g[S] = f[y] + g[S \ {y}] /\ g[S \ {y}] \in Nat
      /\ k[S] = h[y] + k[S \ {y}] /\ k[S \ {y}] \in Nat
    <2>1. Splits(f, S, g) /\ Splits(h, S, k)
        BY <1>2, <1>3, SumSplits
    <2> QED BY <2>1, <1>4 DEF Splits
<1>7. h[y] \in Nat /\ f[y] \in Nat
    OBVIOUS
<1> QED BY <1>2, <1>3, <1>5, <1>6, <1>7

\* Changing one term changes the sum by as much.
LEMMA SumUpdate ==
    ASSUME NEW S, IsFiniteSet(S), NEW f \in [S -> Nat], NEW y \in S, NEW v \in Nat
    PROVE  SumOver([f EXCEPT ![y] = v], S) = SumOver(f, S) - f[y] + v
<1>1. PICK h \in [S -> Nat] : h = [f EXCEPT ![y] = v]
    OBVIOUS
<1>2. h[y] = v /\ \A x \in S \ {y} : h[x] = f[x]
    BY <1>1
<1>3. SumOver(h, S) = SumOver(f, S) - f[y] + h[y]
    BY <1>2, SumChange
<1> QED BY <1>1, <1>2, <1>3

\* Sums of the same terms are the same, on a part of the set as well.
LEMMA SumPart ==
    ASSUME NEW S, IsFiniteSet(S), NEW f \in [S -> Nat], NEW g, IsSum(f, S, g),
           NEW T \in SUBSET S, NEW h \in [T -> Nat], \A x \in T : h[x] = f[x], NEW k, IsSum(h, T, k)
    PROVE  g[T] = k[T]
<1> DEFINE p == [t \in SUBSET T |-> g[t]]
<1>1. IsFiniteSet(T)
    BY FS_Subset
<1>2. IsSum(h, T, p)
    <2>1. ASSUME NEW t \in SUBSET T PROVE g[t] = Adds(h, p, t)
        <3>1. g[t] = Adds(f, g, t)
            BY DEF IsSum
        <3>2. CASE t = {}
            BY <3>1, <3>2 DEF Adds
        <3>3. CASE t # {}
            <4>1. First(t) \in T /\ t \ {First(t)} \in SUBSET T
                BY <3>3, FirstIn
            <4> QED BY <3>1, <3>3, <4>1 DEF Adds
        <3> QED BY <3>2, <3>3
    <2> QED BY <2>1 DEF IsSum
<1> HIDE DEF p
<1>3. T \in SUBSET T /\ \A x \in T : h[x] <= h[x]
    OBVIOUS
<1>4. p[T] <= k[T] /\ k[T] <= p[T]
    BY <1>1, <1>2, <1>3, SumGrows
<1>5. p[T] \in Nat /\ k[T] \in Nat
    BY <1>1, <1>2, SumSplits DEF Splits
<1>6. p[T] = g[T]
    BY DEF p
<1> QED BY <1>4, <1>5, <1>6

\* What holds of the empty set and is kept by adding an element holds of every
\* part of a finite set.
LEMMA PartInduction ==
    ASSUME NEW S, IsFiniteSet(S), NEW Q \in SUBSET (SUBSET S), {} \in Q,
           \A s \in SUBSET S : \A x \in s : s \ {x} \in Q => s \in Q
    PROVE  Q = SUBSET S
<1> DEFINE T == {n \in Nat : Small(S, n) \subseteq Q}
<1>1. 0 \in T
    BY SmallNone
<1>2. ASSUME NEW n \in T PROVE n + 1 \in T
    <2>1. n \in Nat /\ Small(S, n) \subseteq Q
        OBVIOUS
    <2>2. ASSUME NEW s \in Small(S, n + 1), s # {} PROVE s \in Q
        <3>1. PICK x \in s : TRUE
            BY <2>2
        <3>2. s \in SUBSET S /\ s \ {x} \in Q
            BY <2>1, Smaller DEF Small
        <3> QED BY <3>2
    <2>3. Small(S, n + 1) \subseteq Q
        BY <2>2
    <2>4. n + 1 \in Nat
        BY <2>1
    <2> QED BY <2>3, <2>4
<1>3. T = Nat
    <2>1. T \in SUBSET Nat
        OBVIOUS
    <2> HIDE DEF T
    <2> QED BY <2>1, <1>1, <1>2, SetInduction
<1> QED BY <1>3, SmallAll

Indicates(f, S, P) == \A x \in S : f[x] = IF x \in P THEN 1 ELSE 0

\* A set counts as much as the ones of its elements add up to.
LEMMA SumCounts ==
    ASSUME NEW S, IsFiniteSet(S), NEW P, NEW f \in [S -> Nat], NEW g, IsSum(f, S, g),
           Indicates(f, S, P)
    PROVE  \A s \in SUBSET S : g[s] = Cardinality(s \cap P)
<1>2. \A s \in SUBSET S : g[s] \in Nat /\ \A x \in s : g[s] = f[x] + g[s \ {x}]
    <2>1. Splits(f, S, g)
        BY SumSplits
    <2> QED BY <2>1 DEF Splits
<1>3. g[{}] = 0
    BY DEF IsSum, Adds
<1> DEFINE Q == {s \in SUBSET S : g[s] = Cardinality(s \cap P)}
<1>4. {} \in Q
    BY <1>3, FS_EmptySet
<1>5. ASSUME NEW s \in SUBSET S, NEW x \in s, s \ {x} \in Q PROVE s \in Q
    <2>1. g[s] = f[x] + Cardinality((s \ {x}) \cap P)
        BY <1>2, <1>5
    <2>2. IsFiniteSet(s \cap P)
        BY FS_Subset
    <2>3. Cardinality(s \cap P) \in Nat
        BY <2>2, FS_CardinalityType
    <2>4. CASE x \in P
        <3>1. (s \ {x}) \cap P = (s \cap P) \ {x} /\ x \in s \cap P
            BY <2>4
        <3>2. Cardinality((s \cap P) \ {x}) = Cardinality(s \cap P) - 1
            BY <2>2, <3>1, FS_RemoveElement
        <3>3. f[x] = 1
            BY <2>4 DEF Indicates
        <3>4. g[s] = 1 + Cardinality((s \cap P) \ {x})
            BY <2>1, <3>1, <3>3
        <3>5. g[s] = Cardinality(s \cap P)
            BY ONLY <2>3, <3>2, <3>4
        <3> QED BY <3>5
    <2>5. CASE x \notin P
        <3>1. (s \ {x}) \cap P = s \cap P
            BY <2>5
        <3>2. f[x] = 0
            BY <2>5 DEF Indicates
        <3>3. g[s] = Cardinality(s \cap P)
            BY <2>1, <2>3, <3>1, <3>2
        <3> QED BY <3>3
    <2> QED BY <2>4, <2>5
<1>6. Q \in SUBSET (SUBSET S)
    OBVIOUS
<1> HIDE DEF Q
<1>7. Q = SUBSET S
    BY <1>4, <1>5, <1>6, PartInduction
<1> QED BY <1>7 DEF Q

\* The elements of R that have value w.
Valued(R, value, w) == {x \in R : value[x] = w}

\* The sums of these, by value.
ByValue(g, R, value, W) == [w \in W |-> g[Valued(R, value, w)]]

\* The parts of a set by value add up to the whole.
LEMMA SumByValue ==
    ASSUME NEW S, IsFiniteSet(S), NEW f \in [S -> Nat], NEW g, IsSum(f, S, g),
           NEW W, IsFiniteSet(W), NEW value, NEW R \in SUBSET S, \A x \in R : value[x] \in W
    PROVE  SumOver(ByValue(g, R, value, W), W) = g[R]
<1> DEFINE Cells(s) == ByValue(g, s, value, W)
           Q == {s \in SUBSET R : SumOver(Cells(s), W) = g[s]}
<1>1. \A s \in SUBSET S : g[s] \in Nat /\ \A x \in s : g[s] = f[x] + g[s \ {x}]
    <2>1. Splits(f, S, g)
        BY SumSplits
    <2> QED BY <2>1 DEF Splits
<1>2. g[{}] = 0
    BY DEF IsSum, Adds
<1>3. ASSUME NEW s \in SUBSET R PROVE Cells(s) \in [W -> Nat]
    <2>1. ASSUME NEW w \in W PROVE g[Valued(s, value, w)] \in Nat
        <3>1. Valued(s, value, w) \in SUBSET S
            BY DEF Valued
        <3> QED BY <3>1, <1>1
    <2> QED BY <2>1 DEF ByValue
<1>4. {} \in Q
    <2>1. \A w \in W : Cells({})[w] = 0
        <3>1. ASSUME NEW w \in W PROVE Cells({})[w] = 0
            <4>1. Valued({}, value, w) = {}
                BY DEF Valued
            <4> QED BY <4>1, <1>2 DEF ByValue
        <3> QED BY <3>1
    <2>2. Cells({}) \in [W -> Nat]
        BY <1>3
    <2> HIDE DEF Cells
    <2>3. SumOver(Cells({}), W) = 0
        BY <2>1, <2>2, SumZero
    <2> QED BY <2>3, <1>2
<1>5. ASSUME NEW s \in SUBSET R, NEW y \in s, s \ {y} \in Q PROVE s \in Q
    <2>1. PICK c \in [W -> Nat] : c = Cells(s \ {y})
        BY <1>3
    <2> DEFINE u == value[y]
               v == f[y] + c[u]
    <2>2. u \in W /\ f[y] \in Nat /\ c[u] \in Nat /\ v \in Nat
        BY <2>1
    <2>3. PICK d \in [W -> Nat] : d = Cells(s)
        BY <1>3
    <2>4. SumOver(d, W) = SumOver(c, W) - c[u] + v
        <3>1. ASSUME NEW w \in W \ {u} PROVE d[w] = c[w]
            <4>1. Valued(s, value, w) = Valued(s \ {y}, value, w)
                BY DEF Valued
            <4> QED BY <4>1, <2>1, <2>3 DEF ByValue
        <3>2. d[u] = v
            <4> DEFINE part == Valued(s, value, u)
            <4>1. part \in SUBSET S /\ y \in part /\ part \ {y} = Valued(s \ {y}, value, u)
                BY DEF Valued
            <4>2. c[u] = g[part \ {y}] /\ d[u] = g[part]
                BY <2>1, <2>2, <2>3, <4>1 DEF ByValue
            <4> HIDE DEF part
            <4>3. g[part] = f[y] + g[part \ {y}]
                BY <1>1, <4>1
            <4> QED BY <4>2, <4>3
        <3> HIDE DEF u, v, Cells
        <3>3. IsFiniteSet(W) /\ c \in [W -> Nat] /\ d \in [W -> Nat] /\ u \in W
            BY <2>1, <2>2, <2>3
        <3>4. SumOver(d, W) = SumOver(c, W) - c[u] + d[u]
            BY ONLY <3>1, <3>3, SumChange
        <3> QED BY <3>2, <3>4
    <2>5. SumOver(c, W) = g[s \ {y}]
        BY <1>5, <2>1
    <2>6. g[s] = f[y] + g[s \ {y}] /\ g[s \ {y}] \in Nat
        <3>1. s \in SUBSET S /\ s \ {y} \in SUBSET S
            OBVIOUS
        <3> QED BY <3>1, <1>1
    <2>7. SumOver(Cells(s), W) = g[s]
        <3> HIDE DEF Cells
        <3> QED BY <2>2, <2>3, <2>4, <2>5, <2>6
    <2> HIDE DEF Cells
    <2> QED BY <2>7
<1>6. Q \in SUBSET (SUBSET R) /\ IsFiniteSet(R)
    BY FS_Subset
<1> HIDE DEF Q
<1>7. Q = SUBSET R
    BY <1>4, <1>5, <1>6, PartInduction
<1>8. R \in Q
    BY <1>7
<1> QED BY <1>8 DEF Q
============================================================================
