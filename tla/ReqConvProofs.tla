--------------------------- MODULE ReqConvProofs ---------------------------
(***************************************************************************)
(* ReqConv for conversations of any length: what each step of the          *)
(* conversion keeps (messages in order, results after their uses, the      *)
(* tools that are named), and that the payload is one the upstream         *)
(* accepts.                                                                *)
(***************************************************************************)
EXTENDS ReqConv, SumProofs
----------------------------------------------------------------------------
(* Sequences *)

\* A function on 1..n is a sequence of length n.
LEMMA FunctionIsSeq ==
    ASSUME NEW n \in Nat, NEW s, DOMAIN s = 1..n, s = [i \in DOMAIN s |-> s[i]]
    PROVE  IsSeq(s) /\ Len(s) = n
<1>1. s \in Seq({s[i] : i \in 1..n})
    OBVIOUS
<1>2. Len(s) = n
    BY <1>1
<1> QED BY <1>2 DEF IsSeq

\* What is known of a sequence.
LEMMA SeqFacts ==
    ASSUME NEW s, IsSeq(s)
    PROVE  /\ Len(s) \in Nat /\ DOMAIN s = 1..Len(s) /\ s \in Seq({s[i] : i \in 1..Len(s)})
           /\ s = <<>> <=> Len(s) = 0
<1>1. Len(s) \in Nat /\ DOMAIN s = 1..Len(s) /\ s = [i \in 1..Len(s) |-> s[i]]
    BY DEF IsSeq
<1>2. s \in Seq({s[i] : i \in 1..Len(s)})
    BY <1>1
<1> QED BY <1>1, <1>2

\* A sequence over a set is a sequence.
LEMMA TypedIsSeq == ASSUME NEW S, NEW s \in Seq(S) PROVE IsSeq(s)
BY DEF IsSeq

\* What a concatenation holds, and where.
LEMMA ConcatIsSeq ==
    ASSUME NEW s, NEW t, IsSeq(s), IsSeq(t)
    PROVE  /\ IsSeq(s \o t) /\ Len(s \o t) = Len(s) + Len(t)
           /\ \A i \in 1..Len(s) : (s \o t)[i] = s[i]
           /\ \A i \in 1..Len(t) : (s \o t)[Len(s) + i] = t[i]
<1> DEFINE S == {s[i] : i \in 1..Len(s)} \cup {t[i] : i \in 1..Len(t)}
<1>1. s \in Seq(S) /\ t \in Seq(S)
    BY DEF IsSeq
<1> HIDE DEF S
<1>2. s \o t \in Seq(S) /\ Len(s \o t) = Len(s) + Len(t)
    BY <1>1
<1>3. /\ \A i \in 1..Len(s) : (s \o t)[i] = s[i]
      /\ \A i \in 1..Len(t) : (s \o t)[Len(s) + i] = t[i]
    BY <1>1
<1>4. IsSeq(s \o t)
    BY <1>2, TypedIsSeq
<1> QED BY <1>2, <1>3, <1>4

\* What a sequence holds after an append.
LEMMA AppendIsSeq ==
    ASSUME NEW s, NEW x, IsSeq(s)
    PROVE  /\ IsSeq(Append(s, x)) /\ Len(Append(s, x)) = Len(s) + 1
           /\ \A i \in 1..Len(s) : Append(s, x)[i] = s[i]
           /\ Append(s, x)[Len(s) + 1] = x
<1> DEFINE S == {s[i] : i \in 1..Len(s)} \cup {x}
<1>1. s \in Seq(S) /\ x \in S
    BY DEF IsSeq
<1> HIDE DEF S
<1>2. /\ Append(s, x) \in Seq(S) /\ Len(Append(s, x)) = Len(s) + 1
      /\ \A i \in 1..Len(s) : Append(s, x)[i] = s[i]
      /\ Append(s, x)[Len(s) + 1] = x
    BY <1>1
<1>3. IsSeq(Append(s, x))
    BY <1>2, TypedIsSeq
<1> QED BY <1>2, <1>3

\* What a part of a sequence holds.
LEMMA SubSeqIsSeq ==
    ASSUME NEW s, IsSeq(s), NEW n \in 0..Len(s)
    PROVE  /\ IsSeq(SubSeq(s, 1, n)) /\ Len(SubSeq(s, 1, n)) = n
           /\ \A i \in 1..n : SubSeq(s, 1, n)[i] = s[i]
<1> DEFINE S == {s[i] : i \in 1..Len(s)}
<1>1. s \in Seq(S) /\ Len(s) \in Nat
    BY DEF IsSeq
<1> HIDE DEF S
<1>2. SubSeq(s, 1, n) \in Seq(S) /\ Len(SubSeq(s, 1, n)) = n /\ \A i \in 1..n : SubSeq(s, 1, n)[i] = s[i]
    BY <1>1
<1> QED BY <1>2, TypedIsSeq

\* Short sequences.
LEMMA SingleIsSeq == \A x, y : IsSeq(<<x>>) /\ IsSeq(<<x, y>>) /\ IsSeq(<<>>)
<1> SUFFICES ASSUME NEW x, NEW y PROVE IsSeq(<<x>>) /\ IsSeq(<<x, y>>) /\ IsSeq(<<>>)
    OBVIOUS
<1>1. <<x>> \in Seq({x}) /\ <<x, y>> \in Seq({x, y}) /\ <<>> \in Seq({x})
    OBVIOUS
<1> QED BY <1>1, TypedIsSeq

\* Sequences are equal when their elements are.
LEMMA SameSeq ==
    ASSUME NEW s, NEW t, IsSeq(s), IsSeq(t), Len(s) = Len(t), \A i \in 1..Len(s) : s[i] = t[i]
    PROVE  s = t
<1>1. PICK S : S = {s[i] : i \in 1..Len(s)}
    OBVIOUS
<1>2. s \in [1..Len(s) -> S] /\ t \in [1..Len(s) -> S]
    BY <1>1 DEF IsSeq
<1>3. s = t
    BY <1>2
<1> QED BY <1>3

\* A set of positions has a last one.
LEMMA MaxIn ==
    ASSUME NEW n \in Nat, NEW I, I \subseteq 1..n, I # {}
    PROVE  Max(I) \in I /\ \A i \in I : i <= Max(I)
<1> DEFINE T == {k \in Nat : \A J : J \subseteq 1..k /\ J # {} => \E x \in J : \A y \in J : x >= y}
<1>1. 0 \in T
    OBVIOUS
<1>2. ASSUME NEW k \in T PROVE k + 1 \in T
    <2> SUFFICES ASSUME NEW J, J \subseteq 1..(k + 1), J # {}
                 PROVE  \E x \in J : \A y \in J : x >= y
        OBVIOUS
    <2>1. k \in Nat
        OBVIOUS
    <2>2. CASE k + 1 \in J
        <3>1. \A y \in J : k + 1 >= y
            BY <2>1
        <3> QED BY <3>1, <2>2
    <2>3. CASE k + 1 \notin J
        <3>1. J \subseteq 1..k
            BY <2>1, <2>3
        <3> QED BY <3>1
    <2> QED BY <2>2, <2>3
<1>3. T \in SUBSET Nat
    OBVIOUS
<1> HIDE DEF T
<1>4. n \in T
    BY <1>1, <1>2, <1>3, SetInduction
<1>5. \E x \in I : \A y \in I : x >= y
    BY <1>4 DEF T
<1>6. Max(I) \in I /\ \A y \in I : Max(I) >= y
    BY <1>5 DEF Max
<1> QED BY <1>6
----------------------------------------------------------------------------
(* Flattening *)

\* f[i] is the first i sequences put together.
Flattens(f, ss) ==
    /\ DOMAIN f = 1..Len(ss)
    /\ f[1] = ss[1]
    /\ \A i \in 2..Len(ss) : f[i] = f[i - 1] \o ss[i]

\* FlattenSeq appends one sequence after the other.
LEMMA FlattenIs ==
    ASSUME NEW ss, IsSeq(ss), ss # <<>>
    PROVE  \E f : Flattens(f, ss) /\ FlattenSeq(ss) = f[Len(ss)]
<1>1. Len(ss) \in Nat \ {0} /\ DOMAIN ss = 1..Len(ss)
    BY SeqFacts
<1> DEFINE Step(f, i) == IF i = 1 THEN ss[i] ELSE f[i - 1] \o ss[i]
           T == {n \in Nat : \E f : \A i \in 1..n : f[i] = Step(f, i)}
<1>2. 0 \in T
    OBVIOUS
<1>3. ASSUME NEW n \in T PROVE n + 1 \in T
    <2>1. PICK f : \A i \in 1..n : f[i] = Step(f, i)
        OBVIOUS
    <2>2. n \in Nat
        OBVIOUS
    <2> DEFINE g == [i \in 1..(n + 1) |-> IF i = n + 1 THEN Step(f, i) ELSE f[i]]
    <2>3. \A i \in 1..(n + 1) : g[i] = Step(g, i)
        <3> SUFFICES ASSUME NEW i \in 1..(n + 1) PROVE g[i] = Step(g, i)
            OBVIOUS
        <3>1. i # 1 => g[i - 1] = f[i - 1]
            BY <2>2
        <3>2. g[i] = Step(f, i)
            BY <2>1, <2>2
        <3> QED BY <3>1, <3>2
    <2> HIDE DEF g
    <2> QED BY <2>2, <2>3
<1>4. T \in SUBSET Nat
    OBVIOUS
<1>5. Len(ss) \in T
    <2> HIDE DEF T
    <2> QED BY <1>1, <1>2, <1>3, <1>4, SetInduction
<1>6. PICK f : \A i \in 1..Len(ss) : f[i] = Step(f, i)
    BY <1>5
<1> DEFINE Recursion(g) == g = [i \in 1..Len(ss) |-> IF i = 1 THEN ss[i] ELSE g[i - 1] \o ss[i]]
           h == CHOOSE g : Recursion(g)
<1>7. \E g : Recursion(g)
    <2> DEFINE g == [i \in 1..Len(ss) |-> f[i]]
    <2>1. Recursion(g)
        BY <1>1, <1>6
    <2> QED BY <2>1
<1>8. Recursion(h)
    BY <1>7
<1>9. FlattenSeq(ss) = h[Len(ss)]
    BY <1>1 DEF FlattenSeq
<1> HIDE DEF h
<1>10. DOMAIN h = 1..Len(ss) /\ \A i \in 1..Len(ss) : h[i] = IF i = 1 THEN ss[i] ELSE h[i - 1] \o ss[i]
    BY <1>8
<1>11. Flattens(h, ss)
    <2>1. h[1] = ss[1]
        BY <1>10, <1>1
    <2>2. ASSUME NEW i \in 2..Len(ss) PROVE h[i] = h[i - 1] \o ss[i]
        <3>1. i \in 1..Len(ss) /\ i # 1
            BY <1>1
        <3> QED BY <3>1, <1>10
    <2> QED BY <1>10, <2>1, <2>2 DEF Flattens
<1> QED BY <1>9, <1>11

\* r consists of elements of the sequences ss, and of all of them.
Covers(r, ss, n) ==
    /\ IsSeq(r)
    /\ \A k \in DOMAIN r : \E i \in 1..n : \E j \in DOMAIN ss[i] : r[k] = ss[i][j]
    /\ \A i \in 1..n : \A j \in DOMAIN ss[i] : \E k \in DOMAIN r : r[k] = ss[i][j]

\* One more sequence is covered.
LEMMA CoversMore ==
    ASSUME NEW ss, NEW n \in Nat, NEW r, Covers(r, ss, n), IsSeq(ss[n + 1])
    PROVE  Covers(r \o ss[n + 1], ss, n + 1)
<1> DEFINE t == ss[n + 1]
           u == r \o t
<1>1. /\ IsSeq(u) /\ Len(u) = Len(r) + Len(t)
      /\ \A i \in 1..Len(r) : u[i] = r[i]
      /\ \A i \in 1..Len(t) : u[Len(r) + i] = t[i]
    BY ConcatIsSeq DEF Covers
<1>2. /\ Len(r) \in Nat /\ DOMAIN r = 1..Len(r) /\ Len(t) \in Nat /\ DOMAIN t = 1..Len(t)
      /\ DOMAIN u = 1..Len(u)
    BY <1>1, SeqFacts DEF Covers
<1>3. ASSUME NEW k \in DOMAIN u PROVE \E i \in 1..(n + 1) : \E j \in DOMAIN ss[i] : u[k] = ss[i][j]
    <2> HIDE DEF u
    <2>1. CASE k \in DOMAIN r
        <3>1. u[k] = r[k]
            BY <2>1, <1>1, <1>2
        <3>2. PICK i \in 1..n : \E j \in DOMAIN ss[i] : r[k] = ss[i][j]
            BY <2>1 DEF Covers
        <3>3. i \in 1..(n + 1)
            OBVIOUS
        <3> QED BY <3>1, <3>2, <3>3
    <2>2. CASE k \notin DOMAIN r
        <3> DEFINE j == k - Len(r)
        <3>1. j \in DOMAIN t /\ u[Len(r) + j] = t[j] /\ Len(r) + j = k
            BY <2>2, <1>1, <1>2
        <3>2. n + 1 \in 1..(n + 1)
            OBVIOUS
        <3> HIDE DEF j
        <3> QED BY <3>1, <3>2
    <2> QED BY <2>1, <2>2
<1>4. ASSUME NEW i \in 1..(n + 1), NEW j \in DOMAIN ss[i] PROVE \E k \in DOMAIN u : u[k] = ss[i][j]
    <2> HIDE DEF u
    <2>1. CASE i \in 1..n
        <3>1. PICK k \in DOMAIN r : r[k] = ss[i][j]
            BY <2>1 DEF Covers
        <3>2. k \in DOMAIN u /\ u[k] = r[k]
            BY <1>1, <1>2
        <3> QED BY <3>1, <3>2
    <2>2. CASE i \notin 1..n
        <3>1. i = n + 1
            BY <2>2
        <3>2. j \in 1..Len(t)
            BY <3>1, <1>2
        <3>3. Len(r) + j \in DOMAIN u /\ u[Len(r) + j] = t[j]
            BY <3>2, <1>1, <1>2
        <3> QED BY <3>1, <3>3
    <2> QED BY <2>1, <2>2
<1> QED BY <1>1, <1>3, <1>4 DEF Covers

\* Flattening keeps the elements.
LEMMA FlattenCovers ==
    ASSUME NEW ss, IsSeq(ss), \A i \in DOMAIN ss : IsSeq(ss[i])
    PROVE  Covers(FlattenSeq(ss), ss, Len(ss)) /\ IsSeq(FlattenSeq(ss))
<1>1. CASE ss = <<>>
    <2>1. FlattenSeq(ss) = <<>> /\ Len(ss) = 0
        BY <1>1, SeqFacts DEF FlattenSeq
    <2> QED BY <2>1, SingleIsSeq DEF Covers
<1>2. CASE ss # <<>>
    <2>1. PICK f : Flattens(f, ss) /\ FlattenSeq(ss) = f[Len(ss)]
        BY <1>2, FlattenIs
    <2>2. Len(ss) \in Nat \ {0} /\ DOMAIN ss = 1..Len(ss)
        BY <1>2, SeqFacts
    <2> DEFINE T == {n \in Nat : n + 1 <= Len(ss) => Covers(f[n + 1], ss, n + 1)}
    <2>3. 0 \in T
        <3>1. f[1] = ss[1] /\ IsSeq(ss[1])
            BY <2>1, <2>2 DEF Flattens
        <3>2. Covers(ss[1], ss, 1)
            BY <3>1 DEF Covers
        <3> QED BY <3>1, <3>2
    <2>4. ASSUME NEW n \in T PROVE n + 1 \in T
        <3>1. n \in Nat
            OBVIOUS
        <3> SUFFICES ASSUME n + 2 <= Len(ss) PROVE Covers(f[n + 2], ss, n + 2)
            BY <3>1
        <3>2. Covers(f[n + 1], ss, n + 1)
            BY <3>1, <2>2
        <3>3. n + 2 \in 2..Len(ss) /\ n + 2 \in DOMAIN ss
            BY <3>1, <2>2
        <3>4. f[n + 2] = f[(n + 2) - 1] \o ss[n + 2] /\ IsSeq(ss[n + 2])
            BY <3>3, <2>1 DEF Flattens
        <3>5. (n + 2) - 1 = n + 1 /\ (n + 1) + 1 = n + 2 /\ n + 1 \in Nat
            BY <3>1
        <3>6. Covers(f[n + 1] \o ss[(n + 1) + 1], ss, (n + 1) + 1)
            BY <3>2, <3>4, <3>5, CoversMore
        <3> QED BY <3>4, <3>5, <3>6
    <2>5. T \in SUBSET Nat
        OBVIOUS
    <2>6. T = Nat
        <3> HIDE DEF T
        <3> QED BY <2>3, <2>4, <2>5, SetInduction
    <2>7. Covers(f[Len(ss)], ss, Len(ss))
        <3>1. Len(ss) - 1 \in Nat /\ (Len(ss) - 1) + 1 = Len(ss) /\ (Len(ss) - 1) + 1 <= Len(ss)
            BY <2>2
        <3> QED BY <3>1, <2>6
    <2> QED BY <2>1, <2>7 DEF Covers
<1> QED BY <1>1, <1>2
----------------------------------------------------------------------------
(* Selections *)

\* pos says where in s the elements of r come from: from all positions of I up
\* to n, in order.
Picks(r, s, I, n, pos) ==
    /\ IsSeq(r)
    /\ DOMAIN pos = 1..Len(r)
    /\ \A k \in 1..Len(r) : pos[k] \in I /\ pos[k] \in 1..n /\ r[k] = s[pos[k]]
    /\ \A k, l \in 1..Len(r) : k < l => pos[k] < pos[l]
    /\ \A i \in I : i \in 1..n => \E k \in 1..Len(r) : pos[k] = i

\* One more element is picked, or passed over.
LEMMA PicksMore ==
    ASSUME NEW r, NEW s, NEW I, NEW n \in Nat, NEW pos, Picks(r, s, I, n, pos)
    PROVE  \E p : Picks(r \o (IF n + 1 \in I THEN <<s[n + 1]>> ELSE <<>>), s, I, n + 1, p)
<1>1. IsSeq(r) /\ Len(r) \in Nat /\ DOMAIN r = 1..Len(r)
    BY SeqFacts DEF Picks
<1>2. CASE n + 1 \in I
    <2> DEFINE u == r \o <<s[n + 1]>>
               p == [k \in 1..(Len(r) + 1) |-> IF k = Len(r) + 1 THEN n + 1 ELSE pos[k]]
    <2>1. IsSeq(<<s[n + 1]>>) /\ Len(<<s[n + 1]>>) = 1 /\ <<s[n + 1]>>[1] = s[n + 1]
        BY SingleIsSeq
    <2>2. /\ IsSeq(u) /\ Len(u) = Len(r) + 1
          /\ \A i \in 1..Len(r) : u[i] = r[i]
          /\ u[Len(r) + 1] = s[n + 1]
        <3>0. PICK t : t = <<s[n + 1]>>
            OBVIOUS
        <3>1. Len(t) = 1 /\ t[1] = s[n + 1]
            BY <2>1, <3>0
        <3>2. IsSeq(t)
            BY <2>1, <3>0
        <3>3. /\ IsSeq(r \o t) /\ Len(r \o t) = Len(r) + Len(t)
              /\ \A i \in 1..Len(r) : (r \o t)[i] = r[i]
              /\ \A i \in 1..Len(t) : (r \o t)[Len(r) + i] = t[i]
            BY <3>2, <1>1, ConcatIsSeq
        <3>4. 1 \in 1..Len(t)
            BY <3>1
        <3> QED BY <3>0, <3>1, <3>3, <3>4
    <2> HIDE DEF u
    <2>3. /\ DOMAIN p = 1..Len(u)
          /\ p[Len(r) + 1] = n + 1
          /\ \A k \in 1..Len(r) : p[k] = pos[k]
        BY <2>2, <1>1
    <2> HIDE DEF p
    <2>4. \A k \in 1..Len(u) : p[k] \in I /\ p[k] \in 1..(n + 1) /\ u[k] = s[p[k]]
        BY <1>1, <1>2, <2>2, <2>3 DEF Picks
    <2>5. \A k, l \in 1..Len(u) : k < l => p[k] < p[l]
        <3> SUFFICES ASSUME NEW k \in 1..Len(u), NEW l \in 1..Len(u), k < l PROVE p[k] < p[l]
            OBVIOUS
        <3>1. k \in 1..Len(r) /\ p[k] = pos[k] /\ pos[k] \in 1..n
            BY <1>1, <2>2, <2>3 DEF Picks
        <3>2. CASE l = Len(r) + 1
            BY <3>1, <3>2, <2>3
        <3>3. CASE l # Len(r) + 1
            <4>1. l \in 1..Len(r)
                BY <3>3, <1>1, <2>2
            <4> QED BY <3>1, <4>1, <2>3 DEF Picks
        <3> QED BY <3>2, <3>3
    <2>6. ASSUME NEW i \in I, i \in 1..(n + 1) PROVE \E k \in 1..Len(u) : p[k] = i
        <3>1. CASE i = n + 1
            <4>1. Len(r) + 1 \in 1..Len(u)
                BY <1>1, <2>2
            <4> QED BY <4>1, <3>1, <2>3
        <3>2. CASE i # n + 1
            <4>1. i \in 1..n
                BY <3>2, <2>6
            <4>2. PICK k \in 1..Len(r) : pos[k] = i
                BY <4>1 DEF Picks
            <4>3. k \in 1..Len(u)
                BY <1>1, <2>2
            <4> QED BY <4>2, <4>3, <2>3
        <3> QED BY <3>1, <3>2
    <2>7. Picks(u, s, I, n + 1, p)
        BY <2>2, <2>3, <2>4, <2>5, <2>6 DEF Picks
    <2> QED BY <2>7, <1>2 DEF u
<1>3. CASE n + 1 \notin I
    <2> DEFINE e == <<>>
    <2>1. IsSeq(e) /\ Len(e) = 0
        BY SingleIsSeq
    <2> HIDE DEF e
    <2>2. /\ IsSeq(r \o e) /\ Len(r \o e) = Len(r)
          /\ \A i \in 1..Len(r) : (r \o e)[i] = r[i]
        BY <1>1, <2>1, ConcatIsSeq
    <2>3. r \o e = r
        BY <1>1, <2>2, SameSeq
    <2>4. Picks(r, s, I, n + 1, pos)
        BY <1>3 DEF Picks
    <2> QED BY <2>3, <2>4, <1>3 DEF e
<1> QED BY <1>2, <1>3

\* Where a selection comes from.
LEMMA AtPicks ==
    ASSUME NEW s, IsSeq(s), NEW I, I \subseteq DOMAIN s
    PROVE  \E pos : Picks(At(s, I), s, I, Len(s), pos)
<1>1. Len(s) \in Nat /\ DOMAIN s = 1..Len(s)
    BY SeqFacts
<1> DEFINE e == <<>>
           Part(n) == IF n \in I THEN <<s[n]>> ELSE e
           ss == [n \in DOMAIN s |-> Part(n)]
<1>2. DOMAIN ss = 1..Len(s) /\ \A n \in 1..Len(s) : ss[n] = Part(n)
    BY <1>1
<1>3. IsSeq(ss) /\ Len(ss) = Len(s)
    <2>1. ss = [n \in DOMAIN ss |-> ss[n]]
        BY <1>1
    <2> HIDE DEF ss
    <2> QED BY <2>1, <1>1, <1>2, FunctionIsSeq
<1>4. At(s, I) = FlattenSeq(ss)
    BY DEF At
<1> DEFINE none == [k \in 1..0 |-> k]
<1>5. Picks(e, s, I, 0, none)
    <2>1. IsSeq(e) /\ Len(e) = 0
        BY SingleIsSeq
    <2>2. DOMAIN none = 1..0
        OBVIOUS
    <2> HIDE DEF e, none
    <2> QED BY <2>1, <2>2 DEF Picks
<1> HIDE DEF ss, none
<1>6. CASE Len(s) = 0
    <2>1. FlattenSeq(ss) = e
        <3>1. Len(ss) = 0 /\ ss = <<>>
            BY <1>3, <1>6, SeqFacts
        <3> QED BY <3>1 DEF FlattenSeq
    <2> HIDE DEF e
    <2> QED BY <2>1, <1>4, <1>5, <1>6
<1>7. CASE Len(s) # 0
    <2>1. PICK f : Flattens(f, ss) /\ FlattenSeq(ss) = f[Len(ss)]
        BY <1>3, <1>7, FlattenIs, SeqFacts
    <2> DEFINE T == {n \in Nat : n + 1 <= Len(s) => \E pos : Picks(f[n + 1], s, I, n + 1, pos)}
    <2>2. 0 \in T
        <3>1. f[1] = Part(1)
            BY <2>1, <1>1, <1>2, <1>7 DEF Flattens
        <3>2. \E p : Picks(e \o (IF 0 + 1 \in I THEN <<s[0 + 1]>> ELSE <<>>), s, I, 0 + 1, p)
            <4> HIDE DEF e
            <4> QED BY <1>5, PicksMore
        <3>3. e \o Part(1) = Part(1)
            <4>1. IsSeq(Part(1)) /\ IsSeq(e) /\ Len(e) = 0
                BY SingleIsSeq
            <4> HIDE DEF e, Part
            <4>2. /\ IsSeq(e \o Part(1)) /\ Len(e \o Part(1)) = Len(Part(1))
                  /\ \A i \in 1..Len(Part(1)) : (e \o Part(1))[0 + i] = Part(1)[i]
                BY <4>1, ConcatIsSeq, SeqFacts
            <4>3. \A i \in 1..Len(Part(1)) : (e \o Part(1))[i] = Part(1)[i]
                BY <4>1, <4>2, SeqFacts
            <4> QED BY <4>1, <4>2, <4>3, SameSeq
        <3> QED BY <3>1, <3>2, <3>3
    <2>3. ASSUME NEW n \in T PROVE n + 1 \in T
        <3>1. n \in Nat
            OBVIOUS
        <3> SUFFICES ASSUME n + 2 <= Len(s) PROVE \E pos : Picks(f[n + 2], s, I, n + 2, pos)
            BY <3>1
        <3>2. PICK pos : Picks(f[n + 1], s, I, n + 1, pos)
            BY <3>1, <1>1
        <3>3. n + 2 \in 2..Len(ss) /\ n + 2 \in 1..Len(s)
            BY <3>1, <1>1, <1>3
        <3>4. f[n + 2] = f[(n + 2) - 1] \o Part(n + 2)
            BY <3>3, <2>1, <1>2 DEF Flattens
        <3>5. (n + 2) - 1 = n + 1 /\ (n + 1) + 1 = n + 2 /\ n + 1 \in Nat
            BY <3>1
        <3>6. \E p : Picks(f[n + 1] \o (IF (n + 1) + 1 \in I THEN <<s[(n + 1) + 1]>> ELSE <<>>),
                           s, I, (n + 1) + 1, p)
            BY <3>2, <3>5, PicksMore
        <3> QED BY <3>4, <3>5, <3>6
    <2>4. T \in SUBSET Nat
        OBVIOUS
    <2>5. Len(s) - 1 \in Nat /\ (Len(s) - 1) + 1 = Len(s) /\ (Len(s) - 1) + 1 <= Len(s)
        BY <1>1, <1>7
    <2>6. T = Nat
        <3> HIDE DEF T
        <3> QED BY <2>2, <2>3, <2>4, SetInduction
    <2>7. \E pos : Picks(f[Len(s)], s, I, Len(s), pos)
        BY <2>5, <2>6
    <2> QED BY <2>1, <2>7, <1>3, <1>4
<1> QED BY <1>6, <1>7

\* What is known of a selection.
LEMMA AtFacts ==
    ASSUME NEW s, IsSeq(s), NEW I, I \subseteq DOMAIN s
    PROVE  /\ IsSeq(At(s, I))
           /\ \A k \in DOMAIN At(s, I) : \E i \in I : At(s, I)[k] = s[i]
           /\ \A i \in I : \E k \in DOMAIN At(s, I) : At(s, I)[k] = s[i]
           /\ At(s, I) = <<>> <=> I = {}
<1>1. PICK pos : Picks(At(s, I), s, I, Len(s), pos)
    BY AtPicks
<1>2. IsSeq(At(s, I)) /\ DOMAIN At(s, I) = 1..Len(At(s, I)) /\ Len(At(s, I)) \in Nat
      /\ (At(s, I) = <<>> <=> Len(At(s, I)) = 0)
    BY <1>1, SeqFacts DEF Picks
<1>3. \A i \in I : i \in 1..Len(s)
    BY SeqFacts
<1>4. \A k \in DOMAIN At(s, I) : \E i \in I : At(s, I)[k] = s[i]
    BY <1>1, <1>2 DEF Picks
<1>5. \A i \in I : \E k \in DOMAIN At(s, I) : At(s, I)[k] = s[i]
    BY <1>1, <1>2, <1>3 DEF Picks
<1>6. At(s, I) = <<>> <=> I = {}
    <2>1. I = {} => DOMAIN At(s, I) = {}
        BY <1>4
    <2>2. I # {} => DOMAIN At(s, I) # {}
        BY <1>5
    <2> QED BY <1>2, <2>1, <2>2
<1> QED BY <1>2, <1>4, <1>5, <1>6
----------------------------------------------------------------------------
(* Texts, contents and messages *)

\* The tools that a text names are in A.
TextIn(t, A) == IsSeq(t) /\ \A i \in DOMAIN t : t[i].kind = "tool" => t[i].id \in A

BlockIn(b, A) == DOMAIN b = {"type", "id", "text", "cache"} /\ TextIn(b.text, A)

ContentIn(blocks, A) == IsSeq(blocks) /\ \A n \in DOMAIN blocks : BlockIn(blocks[n], A)

MessageIn(m, A) == DOMAIN m = {"role", "str", "blocks"} /\ ContentIn(m.blocks, A)

MessagesIn(msgs, A) == IsSeq(msgs) /\ \A n \in DOMAIN msgs : MessageIn(msgs[n], A)

\* An image of a sequence.
LEMMA MapIsSeq ==
    ASSUME NEW s, IsSeq(s), NEW t, t = [n \in DOMAIN s |-> t[n]]
    PROVE  IsSeq(t) /\ Len(t) = Len(s) /\ DOMAIN t = DOMAIN s
<1>1. Len(s) \in Nat /\ DOMAIN s = 1..Len(s)
    BY SeqFacts
<1>2. DOMAIN t = DOMAIN s
    OBVIOUS
<1> QED BY <1>1, <1>2, FunctionIsSeq

\* An empty text names nothing.
LEMMA TextNone == \A A : TextIn(<<>>, A)
<1> DEFINE e == <<>>
<1>1. IsSeq(e)
    BY SingleIsSeq
<1>2. DOMAIN e = {}
    OBVIOUS
<1> HIDE DEF e
<1>3. \A A : TextIn(e, A)
    BY <1>1, <1>2 DEF TextIn
<1> QED BY <1>3 DEF e

\* A fragment that is no tool's name names nothing.
LEMMA TextOne ==
    ASSUME NEW A, NEW kind, NEW id, kind # "tool" PROVE TextIn(<<Fragment(kind, id)>>, A)
<1>1. PICK t : t = <<Fragment(kind, id)>>
    OBVIOUS
<1>2. IsSeq(t)
    BY <1>1, SingleIsSeq
<1>3. DOMAIN t = {1} /\ t[1].kind = kind
    BY <1>1 DEF Fragment
<1>4. TextIn(t, A)
    BY <1>2, <1>3 DEF TextIn
<1> QED BY <1>1, <1>4

\* A text names what its parts name.
LEMMA TextConcat ==
    ASSUME NEW A, NEW s, NEW t, TextIn(s, A), TextIn(t, A) PROVE TextIn(s \o t, A)
<1>1. PICK u : u = s \o t
    OBVIOUS
<1>2. /\ IsSeq(u) /\ Len(u) = Len(s) + Len(t)
      /\ \A i \in 1..Len(s) : u[i] = s[i]
      /\ \A i \in 1..Len(t) : u[Len(s) + i] = t[i]
    BY <1>1, ConcatIsSeq DEF TextIn
<1>3. /\ Len(s) \in Nat /\ DOMAIN s = 1..Len(s) /\ Len(t) \in Nat /\ DOMAIN t = 1..Len(t)
      /\ DOMAIN u = 1..Len(u)
    BY <1>2, SeqFacts DEF TextIn
<1>4. ASSUME NEW i \in DOMAIN u, u[i].kind = "tool" PROVE u[i].id \in A
    <2>1. CASE i \in DOMAIN s
        <3>1. u[i] = s[i]
            BY <2>1, <1>2, <1>3
        <3> QED BY <3>1, <2>1, <1>4 DEF TextIn
    <2>2. CASE i \notin DOMAIN s
        <3>1. i - Len(s) \in DOMAIN t /\ Len(s) + (i - Len(s)) = i
            BY <2>2, <1>2, <1>3
        <3>2. u[i] = t[i - Len(s)]
            BY <3>1, <1>2, <1>3
        <3> QED BY <3>1, <3>2, <1>4 DEF TextIn
    <2> QED BY <2>1, <2>2
<1> QED BY <1>1, <1>2, <1>4 DEF TextIn

\* The same for any number of parts.
LEMMA TextFlatten ==
    ASSUME NEW A, NEW ss, IsSeq(ss), \A i \in DOMAIN ss : TextIn(ss[i], A)
    PROVE  TextIn(FlattenSeq(ss), A)
<1>1. PICK u : u = FlattenSeq(ss)
    OBVIOUS
<1>2. Covers(u, ss, Len(ss)) /\ IsSeq(u)
    BY <1>1, FlattenCovers DEF TextIn
<1>3. DOMAIN ss = 1..Len(ss)
    BY SeqFacts
<1>4. ASSUME NEW k \in DOMAIN u, u[k].kind = "tool" PROVE u[k].id \in A
    <2>1. PICK i \in 1..Len(ss) : \E j \in DOMAIN ss[i] : u[k] = ss[i][j]
        BY <1>2 DEF Covers
    <2>2. PICK j \in DOMAIN ss[i] : u[k] = ss[i][j]
        BY <2>1
    <2> QED BY <2>2, <1>3, <1>4 DEF TextIn
<1> QED BY <1>1, <1>2, <1>4 DEF TextIn

\* Leaving fragments out adds no names.
LEMMA TextAt ==
    ASSUME NEW A, NEW t, TextIn(t, A), NEW I, I \subseteq DOMAIN t PROVE TextIn(At(t, I), A)
<1>1. PICK u : u = At(t, I)
    OBVIOUS
<1>2. IsSeq(u) /\ \A k \in DOMAIN u : \E i \in I : u[k] = t[i]
    BY <1>1, AtFacts DEF TextIn
<1>3. ASSUME NEW k \in DOMAIN u, u[k].kind = "tool" PROVE u[k].id \in A
    <2>1. PICK i \in I : u[k] = t[i]
        BY <1>2
    <2> QED BY <2>1, <1>3 DEF TextIn
<1> QED BY <1>1, <1>2, <1>3 DEF TextIn

\* The blocks that the proxy makes itself.
LEMMA BlockMade ==
    ASSUME NEW A, NEW type, NEW id, NEW text, TextIn(text, A)
    PROVE  BlockIn(Block(type, id, text), A) /\ BlockIn(TextBlock(text), A)
BY DEF BlockIn, Block, TextBlock

\* One block.
LEMMA ContentOne == ASSUME NEW A, NEW b, BlockIn(b, A) PROVE ContentIn(<<b>>, A)
<1>1. PICK s : s = <<b>>
    OBVIOUS
<1>2. IsSeq(s)
    BY <1>1, SingleIsSeq
<1>3. DOMAIN s = {1} /\ s[1] = b
    BY <1>1
<1>4. ContentIn(s, A)
    BY <1>2, <1>3 DEF ContentIn
<1> QED BY <1>1, <1>4

\* A message with one text.
LEMMA StringMessageIn ==
    ASSUME NEW A, NEW role, NEW text, TextIn(text, A) PROVE MessageIn(StringMessage(role, text), A)
<1>1. ContentIn(<<TextBlock(text)>>, A)
    BY BlockMade, ContentOne
<1> QED BY <1>1 DEF MessageIn, StringMessage

\* A block that is turned into text names what it named.
LEMMA TextualizedIn ==
    ASSUME NEW A, NEW b, BlockIn(b, A) PROVE BlockIn(TextualizeBlock(b), A)
<1>1. TextIn(<<Fragment("use", b.id)>>, A) /\ TextIn(<<Fragment("result", b.id)>>, A)
    BY TextOne
<1>2. TextIn(<<Fragment("result", b.id)>> \o b.text, A)
    BY <1>1, TextConcat DEF BlockIn
<1> QED BY <1>1, <1>2, BlockMade DEF TextualizeBlock

\* The text of a message.
LEMMA MessageText == ASSUME NEW A, NEW m, MessageIn(m, A) PROVE TextIn(ExtractTextContent(m), A)
<1> DEFINE ss == [n \in DOMAIN m.blocks |-> BlockText(m.blocks[n])]
<1>1. IsSeq(m.blocks)
    BY DEF MessageIn, ContentIn
<1>2. IsSeq(ss) /\ DOMAIN ss = DOMAIN m.blocks
    <2>1. ss = [n \in DOMAIN m.blocks |-> ss[n]]
        OBVIOUS
    <2> HIDE DEF ss
    <2> QED BY <2>1, <1>1, MapIsSeq
<1>3. ASSUME NEW n \in DOMAIN ss PROVE TextIn(ss[n], A)
    <2>1. ss[n] = BlockText(m.blocks[n]) /\ TextIn(m.blocks[n].text, A)
        BY <1>2 DEF MessageIn, ContentIn, BlockIn
    <2>2. TextIn(<<Fragment("unknown", m.blocks[n].id)>>, A)
        BY TextOne
    <2> HIDE DEF ss
    <2> QED BY <2>1, <2>2, TextNone DEF BlockText
<1>4. ExtractTextContent(m) = FlattenSeq(ss)
    BY DEF ExtractTextContent, MapSeq
<1> HIDE DEF ss
<1> QED BY <1>2, <1>3, <1>4, TextFlatten
----------------------------------------------------------------------------
(* The two passes over the messages *)

\* Induction up to a bound.
LEMMA UpTo ==
    ASSUME NEW N \in Nat, NEW T, 0 \in T, \A n \in 0..(N - 1) : n \in T => n + 1 \in T
    PROVE  N \in T
<1> DEFINE U == {n \in Nat : n <= N => n \in T}
<1>1. 0 \in U
    OBVIOUS
<1>2. ASSUME NEW n \in U PROVE n + 1 \in U
    OBVIOUS
<1>3. U = Nat
    <2>1. U \in SUBSET Nat
        OBVIOUS
    <2> HIDE DEF U
    <2> QED BY <2>1, <1>1, <1>2, SetInduction
<1> QED BY <1>3

\* f[i] is what merging has made of the first i messages.
Merges(f, msgs) ==
    /\ DOMAIN f = 0..Len(msgs)
    /\ f[0] = <<>>
    /\ \A i \in 1..Len(msgs) : f[i] = Joined(f[i - 1], msgs[i])

\* MergeAdjacentSameRole is the last of the steps that Merges describes.
LEMMA MergesExists ==
    ASSUME NEW msgs, IsSeq(msgs)
    PROVE  \E f : Merges(f, msgs) /\ MergeAdjacentSameRole(msgs) = f[Len(msgs)]
<1>1. Len(msgs) \in Nat
    BY SeqFacts
<1> DEFINE Step(f, i) == IF i = 0 THEN <<>> ELSE Joined(f[i - 1], msgs[i])
           T == {n \in Nat : \E f : \A i \in 0..n : f[i] = Step(f, i)}
<1>2. 0 \in T
    <2> DEFINE f == [i \in {0} |-> <<>>]
    <2>1. \A i \in 0..0 : f[i] = Step(f, i)
        OBVIOUS
    <2> QED BY <2>1
<1>3. ASSUME NEW n \in T PROVE n + 1 \in T
    <2>1. PICK f : \A i \in 0..n : f[i] = Step(f, i)
        OBVIOUS
    <2>2. n \in Nat
        OBVIOUS
    <2> DEFINE g == [i \in 0..(n + 1) |-> IF i = n + 1 THEN Step(f, i) ELSE f[i]]
    <2>3. \A i \in 0..(n + 1) : g[i] = Step(g, i)
        <3> SUFFICES ASSUME NEW i \in 0..(n + 1) PROVE g[i] = Step(g, i)
            OBVIOUS
        <3>1. i # 0 => g[i - 1] = f[i - 1]
            BY <2>2
        <3>2. g[i] = Step(f, i)
            BY <2>1, <2>2
        <3> QED BY <3>1, <3>2
    <2> HIDE DEF g
    <2> QED BY <2>2, <2>3
<1>4. T = Nat
    <2>1. T \in SUBSET Nat
        OBVIOUS
    <2> HIDE DEF T
    <2> QED BY <2>1, <1>2, <1>3, SetInduction
<1>5. PICK f : \A i \in 0..Len(msgs) : f[i] = Step(f, i)
    BY <1>1, <1>4
<1> DEFINE Recursion(g) == g = [n \in 0..Len(msgs) |-> IF n = 0 THEN <<>> ELSE Joined(g[n - 1], msgs[n])]
           h == CHOOSE g : Recursion(g)
<1>6. \E g : Recursion(g)
    <2> DEFINE g == [i \in 0..Len(msgs) |-> f[i]]
    <2>1. Recursion(g)
        BY <1>1, <1>5
    <2> QED BY <2>1
<1>7. Recursion(h)
    BY <1>6
<1>8. MergeAdjacentSameRole(msgs) = h[Len(msgs)]
    BY DEF MergeAdjacentSameRole
<1> HIDE DEF h
<1>9. /\ DOMAIN h = 0..Len(msgs)
      /\ \A n \in 0..Len(msgs) : h[n] = IF n = 0 THEN <<>> ELSE Joined(h[n - 1], msgs[n])
    BY <1>7
<1>10. h[0] = <<>>
    BY <1>1, <1>9
<1>11. ASSUME NEW i \in 1..Len(msgs) PROVE h[i] = Joined(h[i - 1], msgs[i])
    <2>1. i \in 0..Len(msgs) /\ i # 0
        BY <1>1
    <2> QED BY <2>1, <1>9
<1> QED BY <1>8, <1>9, <1>10, <1>11 DEF Merges

\* f[i] is what spacing has made of the first i messages.
Spaces(f, msgs) ==
    /\ DOMAIN f = 0..Len(msgs)
    /\ f[0] = <<>>
    /\ \A i \in 1..Len(msgs) : f[i] = Alternated(f[i - 1], msgs[i])

\* EnsureAlternatingRoles is the last of the steps that Spaces describes.
LEMMA SpacesExists ==
    ASSUME NEW msgs, IsSeq(msgs)
    PROVE  \E f : Spaces(f, msgs) /\ EnsureAlternatingRoles(msgs) = f[Len(msgs)]
<1>1. Len(msgs) \in Nat
    BY SeqFacts
<1> DEFINE Step(f, i) == IF i = 0 THEN <<>> ELSE Alternated(f[i - 1], msgs[i])
           T == {n \in Nat : \E f : \A i \in 0..n : f[i] = Step(f, i)}
<1>2. 0 \in T
    <2> DEFINE f == [i \in {0} |-> <<>>]
    <2>1. \A i \in 0..0 : f[i] = Step(f, i)
        OBVIOUS
    <2> QED BY <2>1
<1>3. ASSUME NEW n \in T PROVE n + 1 \in T
    <2>1. PICK f : \A i \in 0..n : f[i] = Step(f, i)
        OBVIOUS
    <2>2. n \in Nat
        OBVIOUS
    <2> DEFINE g == [i \in 0..(n + 1) |-> IF i = n + 1 THEN Step(f, i) ELSE f[i]]
    <2>3. \A i \in 0..(n + 1) : g[i] = Step(g, i)
        <3> SUFFICES ASSUME NEW i \in 0..(n + 1) PROVE g[i] = Step(g, i)
            OBVIOUS
        <3>1. i # 0 => g[i - 1] = f[i - 1]
            BY <2>2
        <3>2. g[i] = Step(f, i)
            BY <2>1, <2>2
        <3> QED BY <3>1, <3>2
    <2> HIDE DEF g
    <2> QED BY <2>2, <2>3
<1>4. T = Nat
    <2>1. T \in SUBSET Nat
        OBVIOUS
    <2> HIDE DEF T
    <2> QED BY <2>1, <1>2, <1>3, SetInduction
<1>5. PICK f : \A i \in 0..Len(msgs) : f[i] = Step(f, i)
    BY <1>1, <1>4
<1> DEFINE Recursion(g) == g = [n \in 0..Len(msgs) |-> IF n = 0 THEN <<>> ELSE Alternated(g[n - 1], msgs[n])]
           h == CHOOSE g : Recursion(g)
<1>6. \E g : Recursion(g)
    <2> DEFINE g == [i \in 0..Len(msgs) |-> f[i]]
    <2>1. Recursion(g)
        BY <1>1, <1>5
    <2> QED BY <2>1
<1>7. Recursion(h)
    BY <1>6
<1>8. EnsureAlternatingRoles(msgs) = h[Len(msgs)]
    BY DEF EnsureAlternatingRoles
<1> HIDE DEF h
<1>9. /\ DOMAIN h = 0..Len(msgs)
      /\ \A n \in 0..Len(msgs) : h[n] = IF n = 0 THEN <<>> ELSE Alternated(h[n - 1], msgs[n])
    BY <1>7
<1>10. h[0] = <<>>
    BY <1>1, <1>9
<1>11. ASSUME NEW i \in 1..Len(msgs) PROVE h[i] = Alternated(h[i - 1], msgs[i])
    <2>1. i \in 0..Len(msgs) /\ i # 0
        BY <1>1
    <2> QED BY <2>1, <1>9
<1> QED BY <1>8, <1>9, <1>10, <1>11 DEF Spaces

\* Messages of the two roles.
InOrder(ms, A) ==
    /\ IsSeq(ms)
    /\ \A n \in DOMAIN ms : MessageIn(ms[n], A) /\ ms[n].role \in {"user", "assistant"}

\* A user's message that answers tool uses, and the message before it.
HasResults(m) == m.role = "user" /\ ~m.str /\ \E k \in DOMAIN m.blocks : IsToolResult(m.blocks[k])

Follows(m, p) ==
    /\ p.role = "assistant"
    /\ \A k \in DOMAIN m.blocks :
          IsToolResult(m.blocks[k]) => Contains(ExtractToolUseIDs(p), m.blocks[k].id)

\* Every tool result answers the message before it, and no message uses one id
\* twice.
Linked(ms) ==
    \A n \in DOMAIN ms : /\ HasResults(ms[n]) => n > 1 /\ Follows(ms[n], ms[n - 1])
                         /\ IsInjective(ExtractToolUseIDs(ms[n]))

\* A longer list, by one message.
LEMMA InOrderAppend ==
    ASSUME NEW A, NEW ms, InOrder(ms, A), NEW m, MessageIn(m, A), m.role \in {"user", "assistant"}
    PROVE  InOrder(Append(ms, m), A) /\ Append(ms, m) # <<>>
<1>1. PICK u : u = Append(ms, m)
    OBVIOUS
<1>2. IsSeq(u) /\ Len(u) = Len(ms) + 1 /\ (\A i \in 1..Len(ms) : u[i] = ms[i]) /\ u[Len(ms) + 1] = m
    BY <1>1, AppendIsSeq DEF InOrder
<1>3. Len(ms) \in Nat /\ DOMAIN ms = 1..Len(ms) /\ DOMAIN u = 1..Len(u) /\ (u = <<>> <=> Len(u) = 0)
    BY <1>2, SeqFacts DEF InOrder
<1>4. ASSUME NEW n \in DOMAIN u PROVE MessageIn(u[n], A) /\ u[n].role \in {"user", "assistant"}
    <2>1. CASE n \in DOMAIN ms
        BY <2>1, <1>2, <1>3 DEF InOrder
    <2>2. CASE n \notin DOMAIN ms
        <3>1. n = Len(ms) + 1
            BY <2>2, <1>2, <1>3
        <3> QED BY <3>1, <1>2
    <2> QED BY <2>1, <2>2
<1> QED BY <1>1, <1>2, <1>3, <1>4 DEF InOrder

\* A message that follows the last one keeps the messages linked.
LEMMA LinkedAppend ==
    ASSUME NEW ms, IsSeq(ms), Linked(ms), NEW m, IsInjective(ExtractToolUseIDs(m)),
           HasResults(m) => ms # <<>> /\ Follows(m, Last(ms))
    PROVE  Linked(Append(ms, m))
<1>1. PICK u : u = Append(ms, m)
    OBVIOUS
<1>2. IsSeq(u) /\ Len(u) = Len(ms) + 1 /\ (\A i \in 1..Len(ms) : u[i] = ms[i]) /\ u[Len(ms) + 1] = m
    BY <1>1, AppendIsSeq
<1>3. Len(ms) \in Nat /\ DOMAIN ms = 1..Len(ms) /\ DOMAIN u = 1..Len(u) /\ (ms = <<>> <=> Len(ms) = 0)
    BY <1>2, SeqFacts
<1>4. ASSUME NEW n \in DOMAIN u
      PROVE  /\ HasResults(u[n]) => n > 1 /\ Follows(u[n], u[n - 1])
             /\ IsInjective(ExtractToolUseIDs(u[n]))
    <2>1. CASE n \in DOMAIN ms
        <3>1. u[n] = ms[n] /\ (n > 1 => u[n - 1] = ms[n - 1])
            BY <2>1, <1>2, <1>3
        <3> QED BY <3>1, <2>1 DEF Linked
    <2>2. CASE n \notin DOMAIN ms
        <3>1. n = Len(ms) + 1 /\ u[n] = m
            BY <2>2, <1>2, <1>3
        <3>2. ms # <<>> => n > 1 /\ u[n - 1] = Last(ms)
            <4>1. Len(ms) # 0 => n > 1 /\ n - 1 = Len(ms) /\ Len(ms) \in 1..Len(ms)
                BY <3>1, <1>3
            <4> QED BY <4>1, <1>2, <1>3 DEF Last
        <3> QED BY <3>1, <3>2
    <2> QED BY <2>1, <2>2
<1> QED BY <1>1, <1>4 DEF Linked

\* A shorter list, by one message.
LEMMA FrontFacts ==
    ASSUME NEW ms, IsSeq(ms), ms # <<>>
    PROVE  /\ IsSeq(Front(ms)) /\ Len(Front(ms)) = Len(ms) - 1 /\ Len(ms) \in Nat \ {0}
           /\ DOMAIN Front(ms) = 1..(Len(ms) - 1)
           /\ \A i \in DOMAIN Front(ms) : Front(ms)[i] = ms[i]
           /\ Last(ms) = ms[Len(ms)] /\ Len(ms) \in DOMAIN ms
<1>1. Len(ms) \in Nat \ {0} /\ DOMAIN ms = 1..Len(ms) /\ Len(ms) - 1 \in 0..Len(ms)
    BY SeqFacts
<1>2. PICK u : u = SubSeq(ms, 1, Len(ms) - 1)
    OBVIOUS
<1>3. IsSeq(u) /\ Len(u) = Len(ms) - 1 /\ \A i \in 1..(Len(ms) - 1) : u[i] = ms[i]
    BY <1>1, <1>2, SubSeqIsSeq
<1>4. DOMAIN u = 1..(Len(ms) - 1)
    BY <1>3, SeqFacts
<1> QED BY <1>1, <1>2, <1>3, <1>4 DEF Front, Last

\* The messages before the last are in order.
LEMMA InOrderFront ==
    ASSUME NEW A, NEW ms, InOrder(ms, A), ms # <<>>
    PROVE  InOrder(Front(ms), A) /\ MessageIn(Last(ms), A) /\ Last(ms).role \in {"user", "assistant"}
<1>1. /\ IsSeq(Front(ms)) /\ Len(ms) \in Nat \ {0}
      /\ DOMAIN Front(ms) = 1..(Len(ms) - 1)
      /\ \A i \in DOMAIN Front(ms) : Front(ms)[i] = ms[i]
      /\ Last(ms) = ms[Len(ms)] /\ Len(ms) \in DOMAIN ms
    BY FrontFacts DEF InOrder
<1>2. DOMAIN ms = 1..Len(ms)
    BY SeqFacts DEF InOrder
<1> QED BY <1>1, <1>2 DEF InOrder

\* The messages before the last are linked.
LEMMA LinkedFront == ASSUME NEW ms, IsSeq(ms), Linked(ms), ms # <<>> PROVE Linked(Front(ms))
<1>1. /\ Len(ms) \in Nat \ {0}
      /\ DOMAIN Front(ms) = 1..(Len(ms) - 1)
      /\ \A i \in DOMAIN Front(ms) : Front(ms)[i] = ms[i]
    BY FrontFacts
<1>2. DOMAIN ms = 1..Len(ms)
    BY SeqFacts
<1>3. ASSUME NEW n \in DOMAIN Front(ms)
      PROVE  n \in DOMAIN ms /\ Front(ms)[n] = ms[n] /\ (n > 1 => Front(ms)[n - 1] = ms[n - 1])
    BY <1>1, <1>2
<1> QED BY <1>3 DEF Linked

\* A string has neither uses nor results.
LEMMA StringMessageFacts ==
    ASSUME NEW role, NEW text
    PROVE  /\ ~HasResults(StringMessage(role, text))
           /\ ExtractToolUseIDs(StringMessage(role, text)) = <<>>
           /\ IsInjective(ExtractToolUseIDs(StringMessage(role, text)))
           /\ StringMessage(role, text).role = role /\ StringMessage(role, text).str
           /\ ExtractToolResults(StringMessage(role, text)) = <<>>
<1>1. StringMessage(role, text).role = role /\ StringMessage(role, text).str
    BY DEF StringMessage
<1>2. ExtractToolUseIDs(StringMessage(role, text)) = <<>> /\ ExtractToolResults(StringMessage(role, text)) = <<>>
    BY <1>1 DEF ExtractToolUseIDs, ExtractToolResults
<1>3. IsInjective(<<>>)
    <2> DEFINE e == <<>>
    <2>1. DOMAIN e = {}
        OBVIOUS
    <2> HIDE DEF e
    <2>2. IsInjective(e)
        BY <2>1 DEF IsInjective
    <2> QED BY <2>2 DEF e
<1> QED BY <1>1, <1>2, <1>3 DEF HasResults

\* The ids of a message's tool uses.
LEMMA UseIDs ==
    ASSUME NEW m, IsSeq(m.blocks)
    PROVE  /\ IsSeq(ExtractToolUseIDs(m))
           /\ \A k \in DOMAIN ExtractToolUseIDs(m) : ~m.str /\
                 \E n \in DOMAIN m.blocks : IsToolUse(m.blocks[n]) /\ ExtractToolUseIDs(m)[k] = m.blocks[n].id
<1>1. CASE m.str
    <2>1. PICK e : e = <<>>
        OBVIOUS
    <2>2. IsSeq(e)
        BY <2>1, SingleIsSeq
    <2>3. DOMAIN e = {}
        BY <2>1
    <2> QED BY <1>1, <2>1, <2>2, <2>3 DEF ExtractToolUseIDs
<1>2. CASE ~m.str
    <2> DEFINE I == {n \in DOMAIN m.blocks : IsToolUse(m.blocks[n])}
               r == At(m.blocks, I)
               ids == [n \in DOMAIN r |-> r[n].id]
    <2>1. I \subseteq DOMAIN m.blocks
        OBVIOUS
    <2>2. IsSeq(r) /\ \A k \in DOMAIN r : \E i \in I : r[k] = m.blocks[i]
        <3> HIDE DEF I
        <3> QED BY <2>1, AtFacts
    <2>3. ExtractToolUseIDs(m) = ids
        BY <1>2 DEF ExtractToolUseIDs, MapSeq, Keep
    <2>4. IsSeq(ids) /\ DOMAIN ids = DOMAIN r
        <3>1. ids = [n \in DOMAIN r |-> ids[n]]
            OBVIOUS
        <3> HIDE DEF ids, r
        <3> QED BY <3>1, <2>2, MapIsSeq
    <2>5. \A k \in DOMAIN r : ids[k] = r[k].id
        OBVIOUS
    <2> HIDE DEF ids, r
    <2> QED BY <1>2, <2>2, <2>3, <2>4, <2>5
<1> QED BY <1>1, <1>2

\* A message with tool uses is not one of plain text.
LEMMA UsesNotPlain ==
    ASSUME NEW m, IsSeq(m.blocks), NEW id, Contains(ExtractToolUseIDs(m), id)
    PROVE  ~IsPlainTextContent(m)
<1>1. PICK k \in 1..Len(ExtractToolUseIDs(m)) : ExtractToolUseIDs(m)[k] = id
    BY DEF Contains
<1>2. k \in DOMAIN ExtractToolUseIDs(m)
    BY UseIDs, SeqFacts
<1>3. ~m.str /\ \E n \in DOMAIN m.blocks : IsToolUse(m.blocks[n])
    BY <1>2, UseIDs
<1> QED BY <1>3 DEF IsPlainTextContent, IsToolUse
----------------------------------------------------------------------------
(* Merging *)

\* Joining a message with those before it keeps them in order.
LEMMA JoinedIn ==
    ASSUME NEW A, NEW done, InOrder(done, A), NEW m, MessageIn(m, A), m.role \in {"user", "assistant"}
    PROVE  InOrder(Joined(done, m), A) /\ Joined(done, m) # <<>>
<1>1. CASE /\ done # <<>> /\ Last(done).role = m.role
           /\ IsPlainTextContent(Last(done)) /\ IsPlainTextContent(m)
    <2>1. InOrder(Front(done), A) /\ MessageIn(Last(done), A)
        BY <1>1, InOrderFront
    <2>2. TextIn(ExtractTextContent(Last(done)) \o ExtractTextContent(m), A)
        BY <2>1, MessageText, TextConcat
    <2>3. MessageIn(Merge(Last(done), m), A) /\ Merge(Last(done), m).role = m.role
        BY <1>1, <2>2, StringMessageIn, StringMessageFacts DEF Merge
    <2>4. Joined(done, m) = Append(Front(done), Merge(Last(done), m))
        BY <1>1 DEF Joined
    <2> QED BY <2>1, <2>3, <2>4, InOrderAppend
<1>2. CASE ~(/\ done # <<>> /\ Last(done).role = m.role
             /\ IsPlainTextContent(Last(done)) /\ IsPlainTextContent(m))
    <2>1. Joined(done, m) = Append(done, m)
        BY <1>2 DEF Joined
    <2> QED BY <2>1, InOrderAppend
<1> QED BY <1>1, <1>2

\* A message that answers tool uses comes after the message that has them, not
\* after one that it was merged into.
LEMMA JoinedLinked ==
    ASSUME NEW A, NEW done, InOrder(done, A), Linked(done), NEW m, MessageIn(m, A),
           IsInjective(ExtractToolUseIDs(m)), NEW p, MessageIn(p, A),
           HasResults(m) => /\ done # <<>> /\ Follows(m, p)
                            /\ Last(done) = p \/ IsPlainTextContent(p)
    PROVE  Linked(Joined(done, m)) /\ (Last(Joined(done, m)) = m \/ IsPlainTextContent(m))
<1>1. CASE /\ done # <<>> /\ Last(done).role = m.role
           /\ IsPlainTextContent(Last(done)) /\ IsPlainTextContent(m)
    <2>1. Linked(Front(done)) /\ IsSeq(Front(done))
        BY <1>1, LinkedFront, FrontFacts DEF InOrder
    <2>2. ~HasResults(Merge(Last(done), m)) /\ IsInjective(ExtractToolUseIDs(Merge(Last(done), m)))
        BY StringMessageFacts DEF Merge
    <2>3. Joined(done, m) = Append(Front(done), Merge(Last(done), m))
        BY <1>1 DEF Joined
    <2> QED BY <1>1, <2>1, <2>2, <2>3, LinkedAppend
<1>2. CASE ~(/\ done # <<>> /\ Last(done).role = m.role
             /\ IsPlainTextContent(Last(done)) /\ IsPlainTextContent(m))
    <2>1. Joined(done, m) = Append(done, m)
        BY <1>2 DEF Joined
    <2>2. IsSeq(done)
        BY DEF InOrder
    <2>3. ASSUME HasResults(m) PROVE done # <<>> /\ Follows(m, Last(done))
        <3>1. PICK k \in DOMAIN m.blocks : IsToolResult(m.blocks[k])
            BY <2>3 DEF HasResults
        <3>2. Contains(ExtractToolUseIDs(p), m.blocks[k].id)
            BY <2>3, <3>1 DEF Follows
        <3>3. ~IsPlainTextContent(p)
            BY <3>2, UsesNotPlain DEF MessageIn, ContentIn
        <3> QED BY <2>3, <3>3
    <2>4. Linked(Append(done, m))
        BY <2>2, <2>3, LinkedAppend
    <2>5. Last(Append(done, m)) = m
        <3>1. IsSeq(Append(done, m)) /\ Len(Append(done, m)) = Len(done) + 1 /\ Append(done, m)[Len(done) + 1] = m
            BY <2>2, AppendIsSeq
        <3> QED BY <3>1 DEF Last
    <2> QED BY <2>1, <2>4, <2>5
<1> QED BY <1>1, <1>2

\* MergeAdjacentSameRole keeps a conversation in order.
LEMMA MergedIn ==
    ASSUME NEW A, NEW ms, InOrder(ms, A), ms # <<>>
    PROVE  InOrder(MergeAdjacentSameRole(ms), A) /\ MergeAdjacentSameRole(ms) # <<>>
<1>1. Len(ms) \in Nat \ {0} /\ DOMAIN ms = 1..Len(ms)
    BY SeqFacts DEF InOrder
<1>2. PICK f : Merges(f, ms) /\ MergeAdjacentSameRole(ms) = f[Len(ms)]
    BY MergesExists DEF InOrder
<1> DEFINE T == {n \in Nat : InOrder(f[n], A) /\ (n > 0 => f[n] # <<>>)}
<1>3. 0 \in T
    <2> DEFINE e == <<>>
    <2>1. IsSeq(e)
        BY SingleIsSeq
    <2>2. DOMAIN e = {}
        OBVIOUS
    <2>3. f[0] = e
        BY <1>2 DEF Merges
    <2> HIDE DEF e
    <2> QED BY <2>1, <2>2, <2>3 DEF InOrder
<1>4. ASSUME NEW n \in 0..(Len(ms) - 1), n \in T PROVE n + 1 \in T
    <2>1. n + 1 \in 1..Len(ms) /\ (n + 1) - 1 = n
        BY <1>1
    <2>2. f[n + 1] = Joined(f[n], ms[n + 1])
        BY <2>1, <1>2 DEF Merges
    <2>3. MessageIn(ms[n + 1], A) /\ ms[n + 1].role \in {"user", "assistant"}
        BY <2>1, <1>1 DEF InOrder
    <2>4. InOrder(f[n + 1], A) /\ f[n + 1] # <<>>
        BY <1>4, <2>2, <2>3, JoinedIn
    <2> QED BY <2>4
<1>5. Len(ms) \in T
    <2> HIDE DEF T
    <2> QED BY <1>1, <1>3, <1>4, UpTo
<1> QED BY <1>1, <1>2, <1>5

\* MergeAdjacentSameRole keeps results after their uses.
LEMMA MergedLinked ==
    ASSUME NEW A, NEW ms, InOrder(ms, A), Linked(ms), ms # <<>>
    PROVE  Linked(MergeAdjacentSameRole(ms))
<1>1. Len(ms) \in Nat \ {0} /\ DOMAIN ms = 1..Len(ms)
    BY SeqFacts DEF InOrder
<1>2. PICK f : Merges(f, ms) /\ MergeAdjacentSameRole(ms) = f[Len(ms)]
    BY MergesExists DEF InOrder
<1> DEFINE T == {n \in Nat : /\ InOrder(f[n], A) /\ Linked(f[n])
                             /\ n > 0 => f[n] # <<>> /\ (Last(f[n]) = ms[n] \/ IsPlainTextContent(ms[n]))}
<1>3. 0 \in T
    <2> DEFINE e == <<>>
    <2>1. IsSeq(e)
        BY SingleIsSeq
    <2>2. DOMAIN e = {}
        OBVIOUS
    <2>3. f[0] = e
        BY <1>2 DEF Merges
    <2> HIDE DEF e
    <2> QED BY <2>1, <2>2, <2>3 DEF InOrder, Linked
<1>4. ASSUME NEW n \in 0..(Len(ms) - 1), n \in T PROVE n + 1 \in T
    <2>1. n + 1 \in 1..Len(ms) /\ (n + 1) - 1 = n /\ n \in Nat
        BY <1>1
    <2>2. f[n + 1] = Joined(f[n], ms[n + 1])
        BY <2>1, <1>2 DEF Merges
    <2>3. MessageIn(ms[n + 1], A) /\ ms[n + 1].role \in {"user", "assistant"}
        BY <2>1, <1>1 DEF InOrder
    <2>4. InOrder(f[n + 1], A) /\ f[n + 1] # <<>>
        BY <1>4, <2>2, <2>3, JoinedIn
    <2>5. IsInjective(ExtractToolUseIDs(ms[n + 1]))
        BY <2>1, <1>1 DEF Linked
    <2>6. HasResults(ms[n + 1]) => n > 0 /\ Follows(ms[n + 1], ms[n])
        <3>1. HasResults(ms[n + 1]) => n + 1 > 1 /\ Follows(ms[n + 1], ms[(n + 1) - 1])
            BY <2>1, <1>1 DEF Linked
        <3> QED BY <3>1, <2>1
    <2> DEFINE p == IF n > 0 THEN ms[n] ELSE ms[n + 1]
    <2>7. MessageIn(p, A)
        BY <2>1, <2>3, <1>1 DEF InOrder
    <2>8. HasResults(ms[n + 1]) => /\ f[n] # <<>> /\ Follows(ms[n + 1], p)
                                   /\ Last(f[n]) = p \/ IsPlainTextContent(p)
        BY <1>4, <2>6
    <2>9. InOrder(f[n], A) /\ Linked(f[n])
        BY <1>4
    <2> HIDE DEF p
    <2>10. Linked(f[n + 1]) /\ (Last(f[n + 1]) = ms[n + 1] \/ IsPlainTextContent(ms[n + 1]))
        BY <2>2, <2>3, <2>5, <2>7, <2>8, <2>9, JoinedLinked
    <2> QED BY <2>1, <2>4, <2>10
<1>5. Len(ms) \in T
    <2> HIDE DEF T
    <2> QED BY <1>1, <1>3, <1>4, UpTo
<1> QED BY <1>2, <1>5
----------------------------------------------------------------------------
(* Alternation *)

TurnOf(n) == IF n % 2 = 1 THEN "user" ELSE "assistant"

Alternates(ms) == \A n \in DOMAIN ms : ms[n].role = TurnOf(n)

\* The turns alternate.
LEMMA TurnNext == ASSUME NEW n \in Nat PROVE TurnOf(n + 1) = Opposite(TurnOf(n)) /\ TurnOf(n + 2) = TurnOf(n)
BY DEF TurnOf, Opposite

\* The texts that the proxy adds name no tool.
LEMMA SyntheticIn ==
    \A A : /\ TextIn(Empty, A) /\ TextIn(ContinueText, A) /\ TextIn(AckText, A) /\ TextIn(OkText, A)
           /\ TextIn(<<Fragment("synthetic", "thinking_mode")>>, A)
BY TextOne DEF Empty, ContinueText, AckText, OkText

\* EnsureStartsWithUser: what it puts first disturbs nothing.
LEMMA StartIn ==
    ASSUME NEW A, NEW ms, InOrder(ms, A), ms # <<>>
    PROVE  /\ InOrder(EnsureStartsWithUser(ms), A) /\ EnsureStartsWithUser(ms) # <<>>
           /\ EnsureStartsWithUser(ms)[1].role = "user"
           /\ Linked(ms) => Linked(EnsureStartsWithUser(ms))
<1>1. CASE ms[1].role = "user"
    BY <1>1 DEF EnsureStartsWithUser
<1>2. CASE ms[1].role # "user"
    <2>1. PICK x : x = StringMessage("user", Empty)
        OBVIOUS
    <2>2. MessageIn(x, A) /\ x.role = "user" /\ ~HasResults(x) /\ IsInjective(ExtractToolUseIDs(x))
        BY <2>1, SyntheticIn, StringMessageIn, StringMessageFacts
    <2>3. PICK s : s = <<x>>
        OBVIOUS
    <2>4. IsSeq(s)
        BY <2>3, SingleIsSeq
    <2>5. Len(s) = 1 /\ s[1] = x
        BY <2>3
    <2>6. PICK u : u = s \o ms
        OBVIOUS
    <2>7. EnsureStartsWithUser(ms) = u
        BY <1>2, <2>1, <2>3, <2>6 DEF EnsureStartsWithUser
    <2>8. /\ IsSeq(u) /\ Len(u) = Len(s) + Len(ms)
          /\ \A i \in 1..Len(s) : u[i] = s[i]
          /\ \A i \in 1..Len(ms) : u[Len(s) + i] = ms[i]
        BY <2>4, <2>6, ConcatIsSeq DEF InOrder
    <2>9. Len(ms) \in Nat \ {0} /\ DOMAIN ms = 1..Len(ms)
        BY SeqFacts DEF InOrder
    <2>10. DOMAIN u = 1..(1 + Len(ms)) /\ u[1] = x /\ \A i \in 1..Len(ms) : u[1 + i] = ms[i]
        <3>1. DOMAIN u = 1..Len(u) /\ 1 \in 1..Len(s)
            BY <2>5, <2>8, SeqFacts
        <3> QED BY <3>1, <2>5, <2>8
    <2>11. ASSUME NEW n \in DOMAIN u, n # 1 PROVE n - 1 \in DOMAIN ms /\ u[n] = ms[n - 1]
        <3>1. n - 1 \in 1..Len(ms) /\ 1 + (n - 1) = n
            BY <2>9, <2>10, <2>11
        <3> QED BY <3>1, <2>9, <2>10
    <2>12. InOrder(u, A)
        BY <2>2, <2>8, <2>10, <2>11 DEF InOrder
    <2>13. u # <<>>
        <3>1. Len(u) # 0
            BY <2>5, <2>8, <2>9
        <3> QED BY <3>1, <2>8, SeqFacts
    <2>14. ASSUME Linked(ms) PROVE Linked(u)
        <3> SUFFICES ASSUME NEW n \in DOMAIN u
                     PROVE  /\ HasResults(u[n]) => n > 1 /\ Follows(u[n], u[n - 1])
                            /\ IsInjective(ExtractToolUseIDs(u[n]))
            BY DEF Linked
        <3>1. CASE n = 1
            BY <3>1, <2>2, <2>10
        <3>2. CASE n # 1
            <4>1. n - 1 \in DOMAIN ms /\ u[n] = ms[n - 1]
                BY <3>2, <2>11
            <4>2. /\ HasResults(ms[n - 1]) => n - 1 > 1 /\ Follows(ms[n - 1], ms[(n - 1) - 1])
                  /\ IsInjective(ExtractToolUseIDs(ms[n - 1]))
                BY <4>1, <2>14 DEF Linked
            <4>3. n - 1 > 1 => u[n - 1] = ms[(n - 1) - 1] /\ n > 1
                <5> SUFFICES ASSUME n - 1 > 1 PROVE u[n - 1] = ms[(n - 1) - 1] /\ n > 1
                    OBVIOUS
                <5>1. n - 1 \in DOMAIN u /\ n - 1 # 1 /\ n > 1
                    BY <2>9, <2>10
                <5> QED BY <5>1, <2>11
            <4> QED BY <4>1, <4>2, <4>3
        <3> QED BY <3>1, <3>2
    <2> QED BY <2>2, <2>7, <2>10, <2>12, <2>13, <2>14
<1> QED BY <1>1, <1>2

\* One message more, with a filler before it where it is needed.
LEMMA AlternatedIn ==
    ASSUME NEW A, NEW done, InOrder(done, A), Alternates(done),
           NEW m, MessageIn(m, A), m.role \in {"user", "assistant"}, done = <<>> => m.role = "user"
    PROVE  /\ InOrder(Alternated(done, m), A) /\ Alternates(Alternated(done, m))
           /\ Alternated(done, m) # <<>> /\ Last(Alternated(done, m)) = m
           /\ (/\ Linked(done) /\ IsInjective(ExtractToolUseIDs(m))
               /\ HasResults(m) => done # <<>> /\ Follows(m, Last(done))) => Linked(Alternated(done, m))
<1>1. IsSeq(done) /\ Len(done) \in Nat /\ DOMAIN done = 1..Len(done) /\ (done = <<>> <=> Len(done) = 0)
    BY SeqFacts DEF InOrder
<1>2. done # <<>> => Last(done).role = TurnOf(Len(done))
    BY <1>1 DEF Last, Alternates
<1>3. ASSUME NEW ms, IsSeq(ms), Alternates(ms), NEW x, x.role = TurnOf(Len(ms) + 1)
      PROVE  Alternates(Append(ms, x)) /\ Last(Append(ms, x)) = x /\ Len(Append(ms, x)) = Len(ms) + 1
    <2>1. PICK u : u = Append(ms, x)
        OBVIOUS
    <2>2. IsSeq(u) /\ Len(u) = Len(ms) + 1 /\ (\A i \in 1..Len(ms) : u[i] = ms[i]) /\ u[Len(ms) + 1] = x
        BY <2>1, <1>3, AppendIsSeq
    <2>3. Len(ms) \in Nat /\ DOMAIN ms = 1..Len(ms) /\ DOMAIN u = 1..Len(u)
        BY <2>2, <1>3, SeqFacts
    <2>4. ASSUME NEW n \in DOMAIN u PROVE u[n].role = TurnOf(n)
        <3>1. CASE n \in DOMAIN ms
            BY <3>1, <2>2, <2>3, <1>3 DEF Alternates
        <3>2. CASE n \notin DOMAIN ms
            <4>1. n = Len(ms) + 1
                BY <3>2, <2>2, <2>3
            <4> QED BY <4>1, <2>2, <1>3
        <3> QED BY <3>1, <3>2
    <2> QED BY <2>1, <2>2, <2>4 DEF Alternates, Last
<1>4. CASE done # <<>> /\ Last(done).role = m.role
    <2>1. PICK x : x = StringMessage(Opposite(m.role), Empty)
        OBVIOUS
    <2>2. /\ MessageIn(x, A) /\ x.role = Opposite(m.role) /\ ~HasResults(x)
          /\ IsInjective(ExtractToolUseIDs(x))
        BY <2>1, SyntheticIn, StringMessageIn, StringMessageFacts
    <2>3. x.role \in {"user", "assistant"} /\ x.role # m.role
        BY <2>2 DEF Opposite
    <2>4. PICK u : u = Append(done, x)
        OBVIOUS
    <2>5. PICK v : v = Append(u, m)
        OBVIOUS
    <2>6. InOrder(u, A) /\ u # <<>>
        BY <2>2, <2>3, <2>4, InOrderAppend
    <2>7. InOrder(v, A) /\ v # <<>>
        BY <2>5, <2>6, InOrderAppend
    <2>8. /\ IsSeq(u) /\ Len(u) = Len(done) + 1
          /\ (\A i \in 1..Len(done) : u[i] = done[i]) /\ u[Len(done) + 1] = x
        BY <2>4, <1>1, AppendIsSeq
    <2>9. IsSeq(v) /\ Len(v) = Len(u) + 1 /\ (\A i \in 1..Len(u) : v[i] = u[i]) /\ v[Len(u) + 1] = m
        BY <2>5, <2>8, AppendIsSeq
    <2>10. Alternated(done, m) = v
        <3>1. PICK t : t = <<x, m>>
            OBVIOUS
        <3>2. IsSeq(t)
            BY <3>1, SingleIsSeq
        <3>3. Len(t) = 2 /\ t[1] = x /\ t[2] = m
            BY <3>1
        <3>4. PICK w : w = done \o t
            OBVIOUS
        <3>5. /\ IsSeq(w) /\ Len(w) = Len(done) + Len(t)
              /\ \A i \in 1..Len(done) : w[i] = done[i]
              /\ \A i \in 1..Len(t) : w[Len(done) + i] = t[i]
            BY <3>2, <3>4, <1>1, ConcatIsSeq
        <3>6. Len(w) = Len(v) /\ w[Len(done) + 1] = x /\ w[Len(done) + 2] = m
            <4>1. 1 \in 1..Len(t) /\ 2 \in 1..Len(t)
                BY <3>3
            <4> QED BY <4>1, <3>3, <3>5, <2>8, <2>9, <1>1
        <3>7. ASSUME NEW i \in 1..Len(w) PROVE w[i] = v[i]
            <4>1. i \in 1..Len(done) \/ i = Len(done) + 1 \/ i = Len(done) + 2
                BY <3>3, <3>5, <1>1
            <4>2. CASE i \in 1..Len(done)
                BY <4>2, <3>5, <2>8, <2>9, <1>1
            <4>3. CASE i = Len(done) + 1
                BY <4>3, <3>6, <2>8, <2>9, <1>1
            <4>4. CASE i = Len(done) + 2
                <5>1. i = Len(u) + 1
                    BY <4>4, <2>8, <1>1
                <5> QED BY <5>1, <4>4, <3>6, <2>9
            <4> QED BY <4>1, <4>2, <4>3, <4>4
        <3>8. w = v
            BY <3>5, <3>6, <3>7, <2>9, SameSeq
        <3> QED BY <3>1, <3>4, <3>8, <2>1, <1>4 DEF Alternated
    <2>11. x.role = TurnOf(Len(done) + 1) /\ m.role = TurnOf(Len(done) + 2)
        BY <1>1, <1>2, <1>4, <2>2, TurnNext
    <2>12. Alternates(u) /\ Last(u) = x
        BY <2>4, <2>11, <1>1, <1>3
    <2>13. m.role = TurnOf(Len(u) + 1)
        BY <2>8, <2>11, <1>1
    <2>14. Alternates(v) /\ Last(v) = m
        BY <2>5, <2>8, <2>12, <2>13, <1>3
    <2>15. ASSUME Linked(done), IsInjective(ExtractToolUseIDs(m)),
                  HasResults(m) => done # <<>> /\ Follows(m, Last(done))
           PROVE  Linked(v)
        <3>1. Linked(u)
            BY <2>15, <2>2, <2>4, <1>1, LinkedAppend
        <3>2. ~HasResults(m)
            BY <2>15, <1>4 DEF HasResults, Follows
        <3> QED BY <3>1, <3>2, <2>5, <2>8, <2>15, LinkedAppend
    <2> QED BY <2>7, <2>10, <2>14, <2>15
<1>5. CASE ~(done # <<>> /\ Last(done).role = m.role)
    <2>1. Alternated(done, m) = Append(done, m)
        BY <1>5 DEF Alternated
    <2>2. m.role = TurnOf(Len(done) + 1)
        <3>1. CASE done = <<>>
            BY <3>1, <1>1 DEF TurnOf
        <3>2. CASE done # <<>>
            <4>1. TurnOf(Len(done) + 1) = Opposite(TurnOf(Len(done))) /\ TurnOf(Len(done)) \in {"user", "assistant"}
                BY <1>1, TurnNext DEF TurnOf
            <4> QED BY <4>1, <3>2, <1>2, <1>5 DEF Opposite
        <3> QED BY <3>1, <3>2
    <2>3. Alternates(Append(done, m)) /\ Last(Append(done, m)) = m
        BY <2>2, <1>1, <1>3
    <2>4. InOrder(Append(done, m), A) /\ Append(done, m) # <<>>
        BY InOrderAppend
    <2>5. ASSUME Linked(done), IsInjective(ExtractToolUseIDs(m)),
                 HasResults(m) => done # <<>> /\ Follows(m, Last(done))
          PROVE  Linked(Append(done, m))
        BY <2>5, <1>1, LinkedAppend
    <2> QED BY <2>1, <2>3, <2>4, <2>5
<1> QED BY <1>4, <1>5

\* EnsureAlternatingRoles: the roles alternate and nothing is disturbed.
LEMMA SpacedIn ==
    ASSUME NEW A, NEW ms, InOrder(ms, A), ms # <<>>, ms[1].role = "user"
    PROVE  LET r == EnsureAlternatingRoles(ms)
           IN  InOrder(r, A) /\ r # <<>> /\ Alternates(r) /\ (Linked(ms) => Linked(r))
<1>1. Len(ms) \in Nat \ {0} /\ DOMAIN ms = 1..Len(ms)
    BY SeqFacts DEF InOrder
<1>2. PICK f : Spaces(f, ms) /\ EnsureAlternatingRoles(ms) = f[Len(ms)]
    BY SpacesExists DEF InOrder
<1> DEFINE T == {n \in Nat : /\ InOrder(f[n], A) /\ Alternates(f[n]) /\ (Linked(ms) => Linked(f[n]))
                             /\ n > 0 => f[n] # <<>> /\ Last(f[n]) = ms[n]}
<1>3. 0 \in T
    <2> DEFINE e == <<>>
    <2>1. IsSeq(e)
        BY SingleIsSeq
    <2>2. DOMAIN e = {}
        OBVIOUS
    <2>3. f[0] = e
        BY <1>2 DEF Spaces
    <2> HIDE DEF e
    <2> QED BY <2>1, <2>2, <2>3 DEF InOrder, Linked, Alternates
<1>4. ASSUME NEW n \in 0..(Len(ms) - 1), n \in T PROVE n + 1 \in T
    <2>1. n + 1 \in 1..Len(ms) /\ (n + 1) - 1 = n /\ n \in Nat
        BY <1>1
    <2>2. f[n + 1] = Alternated(f[n], ms[n + 1])
        BY <2>1, <1>2 DEF Spaces
    <2>3. MessageIn(ms[n + 1], A) /\ ms[n + 1].role \in {"user", "assistant"}
        BY <2>1, <1>1 DEF InOrder
    <2>4. f[n] = <<>> => ms[n + 1].role = "user"
        BY <1>4, <2>1
    <2>5. InOrder(f[n], A) /\ Alternates(f[n]) /\ (Linked(ms) => Linked(f[n]))
          /\ (n > 0 => f[n] # <<>> /\ Last(f[n]) = ms[n])
        BY <1>4
    <2>6. Linked(ms) => /\ IsInjective(ExtractToolUseIDs(ms[n + 1]))
                        /\ HasResults(ms[n + 1]) => n + 1 > 1 /\ Follows(ms[n + 1], ms[(n + 1) - 1])
        BY <2>1, <1>1 DEF Linked
    <2>7. Linked(ms) => /\ IsInjective(ExtractToolUseIDs(ms[n + 1]))
                        /\ HasResults(ms[n + 1]) => f[n] # <<>> /\ Follows(ms[n + 1], Last(f[n]))
        BY <2>1, <2>5, <2>6
    <2>8. /\ InOrder(f[n + 1], A) /\ Alternates(f[n + 1]) /\ f[n + 1] # <<>> /\ Last(f[n + 1]) = ms[n + 1]
          /\ Linked(ms) => Linked(f[n + 1])
        BY <2>2, <2>3, <2>4, <2>5, <2>7, AlternatedIn
    <2> QED BY <2>1, <2>8
<1>5. Len(ms) \in T
    <2> HIDE DEF T
    <2> QED BY <1>1, <1>3, <1>4, UpTo
<1> QED BY <1>1, <1>2, <1>5
----------------------------------------------------------------------------
(* Textualising and the roles *)

\* The blocks of a message once orphans, or all uses and results, are text.
OrphansOut(msgs, n) ==
    [k \in DOMAIN msgs[n].blocks |-> IF Orphan(msgs, n, msgs[n].blocks[k]) THEN TextualizeBlock(msgs[n].blocks[k])
                                     ELSE msgs[n].blocks[k]]
AllOut(m) == [k \in DOMAIN m.blocks |-> TextualizeBlock(m.blocks[k])]

\* Contents block by block.
LEMMA ContentMade ==
    ASSUME NEW A, NEW s, IsSeq(s), NEW t, t = [n \in DOMAIN s |-> t[n]], \A n \in DOMAIN s : BlockIn(t[n], A)
    PROVE  ContentIn(t, A)
<1>1. IsSeq(t) /\ DOMAIN t = DOMAIN s
    BY MapIsSeq
<1> QED BY <1>1 DEF ContentIn

\* Messages one by one.
LEMMA MessagesMade ==
    ASSUME NEW A, NEW s, IsSeq(s), NEW t, t = [n \in DOMAIN s |-> t[n]], \A n \in DOMAIN s : MessageIn(t[n], A)
    PROVE  MessagesIn(t, A) /\ DOMAIN t = DOMAIN s /\ Len(t) = Len(s)
<1>1. IsSeq(t) /\ DOMAIN t = DOMAIN s /\ Len(t) = Len(s)
    BY MapIsSeq
<1> QED BY <1>1 DEF MessagesIn

\* A message as it is after the first step: textualised block by block, or left
\* alone.
TextualizedFrom(m, msgs, hasTools, n) ==
    /\ DOMAIN m = {"role", "str", "blocks"} /\ m.role = msgs[n].role
    /\ \/ m = msgs[n] /\ (msgs[n].str \/ (hasTools /\ msgs[n].role # "user"))
       \/ /\ ~msgs[n].str /\ ~m.str /\ (hasTools => msgs[n].role = "user")
          /\ m.blocks = IF hasTools THEN OrphansOut(msgs, n) ELSE AllOut(msgs[n])

\* TextualizeToolContent, message by message.
LEMMA TextualizedMessages ==
    ASSUME NEW A, NEW msgs, MessagesIn(msgs, A), NEW hasTools \in BOOLEAN,
           NEW r, r = TextualizeToolContent(msgs, hasTools)
    PROVE  /\ MessagesIn(r, A) /\ DOMAIN r = DOMAIN msgs /\ Len(r) = Len(msgs)
           /\ \A n \in DOMAIN msgs : TextualizedFrom(r[n], msgs, hasTools, n)
<1>1. r = [n \in DOMAIN msgs |-> r[n]]
    BY DEF TextualizeToolContent, TextualizeOrphanToolResults, TextualizeAllToolContent, MapSeq
<1>2. ASSUME NEW n \in DOMAIN msgs PROVE TextualizedFrom(r[n], msgs, hasTools, n)
    <2>0. DOMAIN msgs[n] = {"role", "str", "blocks"}
        BY DEF MessagesIn, MessageIn
    <2>1. CASE hasTools
        <3>1. r[n] = IF msgs[n].role # "user" \/ msgs[n].str THEN msgs[n]
                     ELSE Message("user", OrphansOut(msgs, n))
            BY <2>1 DEF TextualizeToolContent, TextualizeOrphanToolResults, MapSeq, OrphansOut
        <3>2. CASE msgs[n].role # "user" \/ msgs[n].str
            BY <2>0, <2>1, <3>1, <3>2 DEF TextualizedFrom
        <3>3. CASE msgs[n].role = "user" /\ ~msgs[n].str
            <4>1. r[n] = Message("user", OrphansOut(msgs, n))
                BY <3>1, <3>3
            <4>2. /\ DOMAIN r[n] = {"role", "str", "blocks"} /\ r[n].role = "user" /\ ~r[n].str
                  /\ r[n].blocks = OrphansOut(msgs, n)
                BY <4>1 DEF Message
            <4> QED BY <2>1, <3>3, <4>2 DEF TextualizedFrom
        <3> QED BY <3>2, <3>3
    <2>2. CASE ~hasTools
        <3>1. r[n] = IF msgs[n].str THEN msgs[n] ELSE Message(msgs[n].role, AllOut(msgs[n]))
            BY <2>2 DEF TextualizeToolContent, TextualizeAllToolContent, MapSeq, AllOut
        <3> QED BY <2>0, <2>2, <3>1 DEF TextualizedFrom, Message
    <2> QED BY <2>1, <2>2
<1>3. ASSUME NEW n \in DOMAIN msgs PROVE MessageIn(r[n], A)
    <2>1. TextualizedFrom(r[n], msgs, hasTools, n) /\ MessageIn(msgs[n], A)
        BY <1>2 DEF MessagesIn
    <2>2. CASE r[n] = msgs[n]
        BY <2>1, <2>2
    <2>3. CASE r[n] # msgs[n]
        <3>1. PICK c : c = r[n].blocks
            OBVIOUS
        <3>2. c = [k \in DOMAIN msgs[n].blocks |-> c[k]]
            BY <2>1, <2>3, <3>1 DEF TextualizedFrom, OrphansOut, AllOut
        <3>3. \A k \in DOMAIN msgs[n].blocks : c[k] = msgs[n].blocks[k] \/ c[k] = TextualizeBlock(msgs[n].blocks[k])
            BY <2>1, <2>3, <3>1 DEF TextualizedFrom, OrphansOut, AllOut
        <3>4. IsSeq(msgs[n].blocks) /\ \A k \in DOMAIN msgs[n].blocks : BlockIn(msgs[n].blocks[k], A)
            BY <2>1 DEF MessageIn, ContentIn
        <3>5. \A k \in DOMAIN msgs[n].blocks : BlockIn(c[k], A)
            BY <3>3, <3>4, TextualizedIn
        <3>6. ContentIn(c, A)
            BY <3>2, <3>4, <3>5, ContentMade
        <3> QED BY <2>1, <3>1, <3>6 DEF MessageIn, TextualizedFrom
    <2> QED BY <2>2, <2>3
<1>4. IsSeq(msgs)
    BY DEF MessagesIn
<1> QED BY <1>1, <1>2, <1>3, <1>4, MessagesMade

\* Of a block, textualising leaves neither use nor result.
LEMMA TextualizedPlain == ASSUME NEW b PROVE ~IsToolUse(TextualizeBlock(b)) /\ ~IsToolResult(TextualizeBlock(b))
BY DEF TextualizeBlock, TextBlock, Block, IsToolUse, IsToolResult

\* Selections from equal places.
LEMMA AtSame ==
    ASSUME NEW s, NEW t, DOMAIN s = DOMAIN t, NEW I, \A n \in DOMAIN s : n \in I => s[n] = t[n]
    PROVE  At(s, I) = At(t, I)
<1>1. [n \in DOMAIN s |-> IF n \in I THEN <<s[n]>> ELSE <<>>] = [n \in DOMAIN t |-> IF n \in I THEN <<t[n]>> ELSE <<>>]
    OBVIOUS
<1> QED BY <1>1 DEF At

\* The uses among blocks that differ in other blocks only.
LEMMA KeepUsesSame ==
    ASSUME NEW s, NEW t, DOMAIN s = DOMAIN t,
           \A k \in DOMAIN s : /\ IsToolUse(s[k]) <=> IsToolUse(t[k])
                               /\ IsToolUse(t[k]) => s[k] = t[k]
    PROVE  Keep(s, IsToolUse) = Keep(t, IsToolUse)
<1> DEFINE I == {n \in DOMAIN s : IsToolUse(s[n])}
           J == {n \in DOMAIN t : IsToolUse(t[n])}
<1>1. I = J
    OBVIOUS
<1>2. At(s, I) = At(t, I)
    BY AtSame
<1> QED BY <1>1, <1>2 DEF Keep

\* NormalizeRoles leaves the two roles alone, and contents too.
LEMMA RolesNormalized ==
    ASSUME NEW A, NEW ms, MessagesIn(ms, A), NEW r, r = NormalizeRoles(ms)
    PROVE  /\ InOrder(r, A) /\ DOMAIN r = DOMAIN ms /\ Len(r) = Len(ms)
           /\ \A n \in DOMAIN ms : /\ r[n].str = ms[n].str /\ r[n].blocks = ms[n].blocks
                                   /\ r[n].role = IF ms[n].role \in {"user", "assistant"} THEN ms[n].role ELSE "user"
<1>1. /\ r = [n \in DOMAIN ms |-> r[n]]
      /\ \A n \in DOMAIN ms : r[n] = IF ms[n].role \in {"user", "assistant"} THEN ms[n]
                                     ELSE [ms[n] EXCEPT !.role = "user"]
    BY DEF NormalizeRoles, MapSeq
<1>2. ASSUME NEW n \in DOMAIN ms
      PROVE  /\ DOMAIN r[n] = {"role", "str", "blocks"} /\ r[n].str = ms[n].str /\ r[n].blocks = ms[n].blocks
             /\ r[n].role = IF ms[n].role \in {"user", "assistant"} THEN ms[n].role ELSE "user"
    <2>1. DOMAIN ms[n] = {"role", "str", "blocks"}
        BY DEF MessagesIn, MessageIn
    <2> QED BY <1>1, <2>1
<1>3. \A n \in DOMAIN ms : MessageIn(r[n], A)
    BY <1>2 DEF MessagesIn, MessageIn
<1>4. MessagesIn(r, A) /\ DOMAIN r = DOMAIN ms /\ Len(r) = Len(ms)
    BY <1>1, <1>3, MessagesMade DEF MessagesIn
<1> QED BY <1>2, <1>4 DEF InOrder, MessagesIn

\* Without tools nothing is left to answer.
LEMMA NoToolsLinked ==
    ASSUME NEW A, NEW msgs, MessagesIn(msgs, A),
           NEW t, MessagesIn(t, A), DOMAIN t = DOMAIN msgs,
           \A n \in DOMAIN msgs : TextualizedFrom(t[n], msgs, FALSE, n),
           NEW r, r = NormalizeRoles(t)
    PROVE  Linked(r)
<1>1. /\ InOrder(r, A) /\ DOMAIN r = DOMAIN t
      /\ \A n \in DOMAIN t : r[n].str = t[n].str /\ r[n].blocks = t[n].blocks
    BY RolesNormalized
<1>2. ASSUME NEW n \in DOMAIN r
      PROVE  ~HasResults(r[n]) /\ IsInjective(ExtractToolUseIDs(r[n]))
    <2>1. ASSUME ~r[n].str, NEW k \in DOMAIN r[n].blocks
          PROVE  ~IsToolUse(r[n].blocks[k]) /\ ~IsToolResult(r[n].blocks[k])
        <3>1. n \in DOMAIN msgs /\ TextualizedFrom(t[n], msgs, FALSE, n) /\ ~t[n].str /\ r[n].blocks = t[n].blocks
            BY <1>1, <2>1
        <3>2. t[n].blocks = AllOut(msgs[n])
            BY <3>1 DEF TextualizedFrom
        <3>3. r[n].blocks[k] = TextualizeBlock(msgs[n].blocks[k])
            BY <2>1, <3>1, <3>2 DEF AllOut
        <3> QED BY <3>3, TextualizedPlain
    <2>2. IsSeq(r[n].blocks)
        BY <1>1 DEF InOrder, MessageIn, ContentIn
    <2>3. DOMAIN ExtractToolUseIDs(r[n]) = {}
        BY <2>1, <2>2, UseIDs
    <2>4. IsInjective(ExtractToolUseIDs(r[n]))
        BY <2>3 DEF IsInjective
    <2> QED BY <2>1, <2>4 DEF HasResults
<1> QED BY <1>2 DEF Linked

\* With tools every result that is left answers a use of the message before it.
LEMMA ToolsLinked ==
    ASSUME NEW A, NEW msgs, MessagesIn(msgs, A), Regular(msgs),
           NEW t, MessagesIn(t, A), DOMAIN t = DOMAIN msgs,
           \A n \in DOMAIN msgs : TextualizedFrom(t[n], msgs, TRUE, n),
           NEW r, r = NormalizeRoles(t)
    PROVE  Linked(r)
<1>1. /\ InOrder(r, A) /\ DOMAIN r = DOMAIN t
      /\ \A n \in DOMAIN t : /\ r[n].str = t[n].str /\ r[n].blocks = t[n].blocks
                             /\ r[n].role = IF t[n].role \in {"user", "assistant"} THEN t[n].role ELSE "user"
    BY RolesNormalized
<1>2. ASSUME NEW n \in DOMAIN msgs
      PROVE  ExtractToolUseIDs(r[n]) = ExtractToolUseIDs(msgs[n])
    <2>1. TextualizedFrom(t[n], msgs, TRUE, n) /\ r[n].str = t[n].str /\ r[n].blocks = t[n].blocks
        BY <1>1, <1>2
    <2>2. CASE t[n] = msgs[n]
        BY <2>1, <2>2 DEF ExtractToolUseIDs
    <2>3. CASE t[n] # msgs[n]
        <3>1. ~msgs[n].str /\ ~t[n].str /\ t[n].blocks = OrphansOut(msgs, n)
            BY <2>1, <2>3 DEF TextualizedFrom
        <3>2. DOMAIN t[n].blocks = DOMAIN msgs[n].blocks
            BY <3>1 DEF OrphansOut
        <3>3. ASSUME NEW k \in DOMAIN t[n].blocks
              PROVE  /\ IsToolUse(t[n].blocks[k]) <=> IsToolUse(msgs[n].blocks[k])
                     /\ IsToolUse(msgs[n].blocks[k]) => t[n].blocks[k] = msgs[n].blocks[k]
            <4>1. t[n].blocks[k] = IF Orphan(msgs, n, msgs[n].blocks[k]) THEN TextualizeBlock(msgs[n].blocks[k])
                                   ELSE msgs[n].blocks[k]
                BY <3>1, <3>2, <3>3 DEF OrphansOut
            <4>2. Orphan(msgs, n, msgs[n].blocks[k]) => ~IsToolUse(msgs[n].blocks[k])
                BY DEF Orphan, IsToolUse, IsToolResult
            <4> QED BY <4>1, <4>2, TextualizedPlain
        <3>4. Keep(t[n].blocks, IsToolUse) = Keep(msgs[n].blocks, IsToolUse)
            BY <3>2, <3>3, KeepUsesSame
        <3> QED BY <3>1, <3>4, <2>1 DEF ExtractToolUseIDs
    <2> QED BY <2>2, <2>3
<1>3. ASSUME NEW n \in DOMAIN r, HasResults(r[n])
      PROVE  n > 1 /\ Follows(r[n], r[n - 1])
    <2>1. n \in DOMAIN msgs /\ TextualizedFrom(t[n], msgs, TRUE, n) /\ RegularMessage(msgs[n])
        BY <1>1 DEF Regular
    <2>2. r[n].str = t[n].str /\ r[n].blocks = t[n].blocks /\ t[n].role = msgs[n].role
        BY <1>1, <2>1 DEF TextualizedFrom
    <2>3. ~t[n].str /\ \E k \in DOMAIN t[n].blocks : IsToolResult(t[n].blocks[k])
        BY <1>3, <2>2 DEF HasResults
    <2>4. msgs[n].role = "user" /\ ~msgs[n].str /\ t[n].blocks = OrphansOut(msgs, n)
        <3>1. CASE t[n] = msgs[n] /\ msgs[n].role # "user"
            <4>1. r[n].role = "user" /\ msgs[n].role \notin {"user", "assistant"}
                BY <3>1, <1>1, <1>3, <2>2, <2>1 DEF HasResults
            <4> QED BY <4>1, <3>1, <2>1, <2>3 DEF RegularMessage
        <3> QED BY <3>1, <2>1, <2>3 DEF TextualizedFrom
    <2>5. ASSUME NEW k \in DOMAIN r[n].blocks, IsToolResult(r[n].blocks[k])
          PROVE  n > 1 /\ msgs[n - 1].role = "assistant" /\ Contains(ExtractToolUseIDs(msgs[n - 1]), r[n].blocks[k].id)
        <3>1. k \in DOMAIN msgs[n].blocks
            BY <2>2, <2>4, <2>5 DEF OrphansOut
        <3>2. r[n].blocks[k] = IF Orphan(msgs, n, msgs[n].blocks[k]) THEN TextualizeBlock(msgs[n].blocks[k])
                               ELSE msgs[n].blocks[k]
            BY <2>2, <2>4, <3>1 DEF OrphansOut
        <3>3. ~Orphan(msgs, n, msgs[n].blocks[k]) /\ r[n].blocks[k] = msgs[n].blocks[k]
            BY <3>2, <2>5, TextualizedPlain
        <3>4. n \in Nat \ {0}
            BY <2>1, SeqFacts DEF MessagesIn
        <3> QED BY <3>3, <3>4, <2>5 DEF Orphan
    <2>6. n > 1 /\ msgs[n - 1].role = "assistant"
        BY <2>2, <2>3, <2>5
    <2>7. n - 1 \in DOMAIN msgs
        BY <2>1, <2>6, SeqFacts DEF MessagesIn
    <2>8. r[n - 1].role = "assistant" /\ ExtractToolUseIDs(r[n - 1]) = ExtractToolUseIDs(msgs[n - 1])
        BY <2>6, <2>7, <1>1, <1>2 DEF TextualizedFrom
    <2> QED BY <2>5, <2>6, <2>8 DEF Follows
<1>4. \A n \in DOMAIN r : IsInjective(ExtractToolUseIDs(r[n]))
    BY <1>1, <1>2 DEF Regular, RegularMessage
<1> QED BY <1>3, <1>4 DEF Linked

\* message_normalizer.go, all of it: the roles alternate from the user on, and
\* of a client that tags its tool uses with distinct ids every result that is
\* left answers a use of the message before it.
LEMMA NormalizeIn ==
    ASSUME NEW A, NEW msgs, MessagesIn(msgs, A), msgs # <<>>, NEW hasTools \in BOOLEAN
    PROVE  LET r == Normalize(msgs, hasTools)
           IN  InOrder(r, A) /\ r # <<>> /\ Alternates(r) /\ (Regular(msgs) => Linked(r))
<1>1. PICK t : t = TextualizeToolContent(msgs, hasTools)
    OBVIOUS
<1>2. /\ MessagesIn(t, A) /\ DOMAIN t = DOMAIN msgs /\ Len(t) = Len(msgs)
      /\ \A n \in DOMAIN msgs : TextualizedFrom(t[n], msgs, hasTools, n)
    BY <1>1, TextualizedMessages
<1>3. PICK o : o = NormalizeRoles(t)
    OBVIOUS
<1>4. InOrder(o, A) /\ Len(o) = Len(t)
    BY <1>2, <1>3, RolesNormalized
<1>5. o # <<>>
    BY <1>2, <1>4, SeqFacts DEF InOrder, MessagesIn
<1>6. Regular(msgs) => Linked(o)
    <2>1. CASE hasTools
        <3>1. \A n \in DOMAIN msgs : TextualizedFrom(t[n], msgs, TRUE, n)
            BY <2>1, <1>2
        <3> QED BY <3>1, <1>2, <1>3, ToolsLinked
    <2>2. CASE ~hasTools
        <3>1. \A n \in DOMAIN msgs : TextualizedFrom(t[n], msgs, FALSE, n)
            BY <2>2, <1>2
        <3> QED BY <3>1, <1>2, <1>3, NoToolsLinked
    <2> QED BY <2>1, <2>2
<1>7. PICK j : j = MergeAdjacentSameRole(o)
    OBVIOUS
<1>8. InOrder(j, A) /\ j # <<>> /\ (Linked(o) => Linked(j))
    BY <1>4, <1>5, <1>7, MergedIn, MergedLinked
<1>9. PICK u : u = EnsureStartsWithUser(j)
    OBVIOUS
<1>10. InOrder(u, A) /\ u # <<>> /\ u[1].role = "user" /\ (Linked(j) => Linked(u))
    BY <1>8, <1>9, StartIn
<1>11. PICK r : r = EnsureAlternatingRoles(u)
    OBVIOUS
<1>12. InOrder(r, A) /\ r # <<>> /\ Alternates(r) /\ (Linked(u) => Linked(r))
    BY <1>10, <1>11, SpacedIn
<1>13. Normalize(msgs, hasTools) = r
    BY <1>1, <1>3, <1>7, <1>9, <1>11 DEF Normalize
<1> QED BY <1>6, <1>8, <1>10, <1>12, <1>13
----------------------------------------------------------------------------
(* Tool results *)

ResultsIn(rs, A) == IsSeq(rs) /\ \A n \in DOMAIN rs : TextIn(rs[n].text, A)

\* No results.
LEMMA NoResults == \A A : ResultsIn(<<>>, A)
<1> DEFINE e == <<>>
<1>1. IsSeq(e)
    BY SingleIsSeq
<1>2. DOMAIN e = {}
    OBVIOUS
<1> HIDE DEF e
<1>3. \A A : ResultsIn(e, A)
    BY <1>1, <1>2 DEF ResultsIn
<1> QED BY <1>3 DEF e

\* The results of a message are those of its blocks.
LEMMA ExtractResults ==
    ASSUME NEW A, NEW m, MessageIn(m, A), NEW rs, rs = ExtractToolResults(m)
    PROVE  /\ ResultsIn(rs, A)
           /\ \A n \in DOMAIN rs : ~m.str /\
                 \E k \in DOMAIN m.blocks : IsToolResult(m.blocks[k]) /\ rs[n].id = m.blocks[k].id
<1>1. CASE m.str
    <2>1. rs = <<>>
        BY <1>1 DEF ExtractToolResults
    <2>2. ResultsIn(rs, A)
        BY <2>1, NoResults
    <2>3. DOMAIN rs = {}
        BY <2>1
    <2> QED BY <2>2, <2>3
<1>2. CASE ~m.str
    <2> DEFINE I == {n \in DOMAIN m.blocks : IsToolResult(m.blocks[n])}
               t == At(m.blocks, I)
    <2>1. I \subseteq DOMAIN m.blocks /\ IsSeq(m.blocks)
        BY DEF MessageIn, ContentIn
    <2>2. IsSeq(t) /\ \A k \in DOMAIN t : \E i \in I : t[k] = m.blocks[i]
        <3> HIDE DEF I
        <3> QED BY <2>1, AtFacts
    <2>3. rs = [n \in DOMAIN t |-> [id |-> t[n].id, text |-> t[n].text]]
        BY <1>2 DEF ExtractToolResults, MapSeq, Keep
    <2> HIDE DEF t
    <2>4. rs = [n \in DOMAIN t |-> rs[n]] /\ \A n \in DOMAIN t : rs[n].id = t[n].id /\ rs[n].text = t[n].text
        BY <2>3
    <2>5. IsSeq(rs) /\ DOMAIN rs = DOMAIN t
        BY <2>2, <2>4, MapIsSeq
    <2>6. ASSUME NEW n \in DOMAIN rs
          PROVE  /\ TextIn(rs[n].text, A)
                 /\ \E k \in DOMAIN m.blocks : IsToolResult(m.blocks[k]) /\ rs[n].id = m.blocks[k].id
        <3>1. PICK i \in I : t[n] = m.blocks[i]
            BY <2>2, <2>5
        <3>2. rs[n].id = m.blocks[i].id /\ rs[n].text = m.blocks[i].text /\ i \in DOMAIN m.blocks
            BY <3>1, <2>4, <2>5
        <3> QED BY <3>1, <3>2 DEF MessageIn, ContentIn, BlockIn
    <2> QED BY <1>2, <2>5, <2>6 DEF ResultsIn
<1> QED BY <1>1, <1>2

\* The last result for an id.
LastResult(rs, id) == SelectLastInSeq(rs, LAMBDA r : r.id = id)

\* The last result for an id is a result for that id.
LEMMA LastResultIs ==
    ASSUME NEW rs, IsSeq(rs), NEW id
    PROVE  LastResult(rs, id) # 0 => LastResult(rs, id) \in DOMAIN rs /\ rs[LastResult(rs, id)].id = id
<1> DEFINE I == {i \in 1..Len(rs) : rs[i].id = id}
<1>1. LastResult(rs, id) = IF I # {} THEN Max(I) ELSE 0
    BY DEF LastResult, SelectLastInSeq
<1>2. I \subseteq 1..Len(rs) /\ Len(rs) \in Nat /\ DOMAIN rs = 1..Len(rs)
    BY SeqFacts
<1>3. I # {} => Max(I) \in I
    <2> HIDE DEF I
    <2> QED BY <1>2, MaxIn
<1> QED BY <1>1, <1>2, <1>3

\* The results in the order of the uses, and those that answer none.
Ordered(rs, ids) == At(ids, {n \in DOMAIN ids : LastResult(rs, ids[n]) # 0})
Others(rs, ids) == At(rs, {n \in DOMAIN rs : ~Contains(ids, rs[n].id)})
InOrderOf(rs, ids) == [n \in DOMAIN Ordered(rs, ids) |-> rs[LastResult(rs, Ordered(rs, ids)[n])]]

\* ReorderToolResults in terms of its two parts.
LEMMA Reordered ==
    ASSUME NEW rs, NEW ids
    PROVE  ReorderToolResults(rs, ids) = IF Len(rs) <= 1 \/ ids = <<>> THEN rs
                                         ELSE InOrderOf(rs, ids) \o Others(rs, ids)
BY DEF ReorderToolResults, InOrderOf, Others, Ordered, Keep, MapSeq, LastResult

\* Reordered results are some of the results.
LEMMA InOrderOfFacts ==
    ASSUME NEW rs, IsSeq(rs), NEW ids, IsSeq(ids)
    PROVE  /\ IsSeq(InOrderOf(rs, ids)) /\ DOMAIN InOrderOf(rs, ids) = DOMAIN Ordered(rs, ids)
           /\ \A n \in DOMAIN InOrderOf(rs, ids) :
                 /\ InOrderOf(rs, ids)[n].id = Ordered(rs, ids)[n]
                 /\ \E k \in DOMAIN rs : InOrderOf(rs, ids)[n] = rs[k]
           /\ IsSeq(Others(rs, ids))
           /\ \A n \in DOMAIN Others(rs, ids) : \E k \in DOMAIN rs : Others(rs, ids)[n] = rs[k]
           /\ (\A k \in DOMAIN rs : Contains(ids, rs[k].id)) => Others(rs, ids) = <<>>
<1> DEFINE I == {n \in DOMAIN ids : LastResult(rs, ids[n]) # 0}
           J == {n \in DOMAIN rs : ~Contains(ids, rs[n].id)}
<1>1. PICK o : o = Ordered(rs, ids)
    OBVIOUS
<1>2. PICK u : u = InOrderOf(rs, ids)
    OBVIOUS
<1>3. IsSeq(o) /\ \A k \in DOMAIN o : \E i \in I : o[k] = ids[i]
    <2>1. o = At(ids, I) /\ I \subseteq DOMAIN ids
        BY <1>1 DEF Ordered
    <2> HIDE DEF I
    <2> QED BY <2>1, AtFacts
<1>4. u = [n \in DOMAIN o |-> u[n]] /\ \A n \in DOMAIN o : u[n] = rs[LastResult(rs, o[n])]
    BY <1>1, <1>2 DEF InOrderOf
<1>5. IsSeq(u) /\ DOMAIN u = DOMAIN o
    BY <1>3, <1>4, MapIsSeq
<1>6. ASSUME NEW n \in DOMAIN u PROVE u[n].id = o[n] /\ \E k \in DOMAIN rs : u[n] = rs[k]
    <2>1. LastResult(rs, o[n]) # 0
        BY <1>3, <1>5, <1>6
    <2> QED BY <2>1, <1>4, <1>5, LastResultIs
<1>7. PICK v : v = Others(rs, ids)
    OBVIOUS
<1>8. IsSeq(v) /\ (\A k \in DOMAIN v : \E i \in J : v[k] = rs[i]) /\ (v = <<>> <=> J = {})
    <2>1. v = At(rs, J) /\ J \subseteq DOMAIN rs
        BY <1>7 DEF Others
    <2> HIDE DEF J
    <2> QED BY <2>1, AtFacts
<1> QED BY <1>1, <1>2, <1>5, <1>6, <1>7, <1>8

\* Reordering keeps what the results name.
LEMMA ReorderedIn ==
    ASSUME NEW A, NEW rs, ResultsIn(rs, A), NEW ids, IsSeq(ids)
    PROVE  ResultsIn(ReorderToolResults(rs, ids), A)
<1>1. PICK u : u = InOrderOf(rs, ids)
    OBVIOUS
<1>2. PICK v : v = Others(rs, ids)
    OBVIOUS
<1>3. /\ IsSeq(u) /\ \A n \in DOMAIN u : \E k \in DOMAIN rs : u[n] = rs[k]
      /\ IsSeq(v) /\ \A n \in DOMAIN v : \E k \in DOMAIN rs : v[n] = rs[k]
    BY <1>1, <1>2, InOrderOfFacts DEF ResultsIn
<1>4. PICK w : w = u \o v
    OBVIOUS
<1>5. /\ IsSeq(w) /\ Len(w) = Len(u) + Len(v)
      /\ \A i \in 1..Len(u) : w[i] = u[i]
      /\ \A i \in 1..Len(v) : w[Len(u) + i] = v[i]
    BY <1>3, <1>4, ConcatIsSeq
<1>6. /\ Len(u) \in Nat /\ DOMAIN u = 1..Len(u) /\ Len(v) \in Nat /\ DOMAIN v = 1..Len(v)
      /\ DOMAIN w = 1..Len(w)
    BY <1>3, <1>5, SeqFacts
<1>7. ASSUME NEW n \in DOMAIN w PROVE TextIn(w[n].text, A)
    <2>1. CASE n \in DOMAIN u
        <3>1. w[n] = u[n]
            BY <2>1, <1>5, <1>6
        <3> QED BY <3>1, <2>1, <1>3 DEF ResultsIn
    <2>2. CASE n \notin DOMAIN u
        <3>1. n - Len(u) \in DOMAIN v /\ Len(u) + (n - Len(u)) = n
            BY <2>2, <1>5, <1>6
        <3>2. w[n] = v[n - Len(u)]
            BY <3>1, <1>5, <1>6
        <3> QED BY <3>1, <3>2, <1>3 DEF ResultsIn
    <2> QED BY <2>1, <2>2
<1> QED BY <1>1, <1>2, <1>4, <1>5, <1>7, Reordered DEF ResultsIn

\* The place of an id among distinct ones.
Place(ids, id) == SelectInSeq(ids, LAMBDA u : u = id)

\* The place of an id is where it stands.
LEMMA PlaceOf ==
    ASSUME NEW ids, IsSeq(ids), IsInjective(ids), NEW p \in DOMAIN ids, NEW id, id = ids[p]
    PROVE  Place(ids, id) = p
<1> DEFINE I == {i \in 1..Len(ids) : ids[i] = id}
<1>1. DOMAIN ids = 1..Len(ids) /\ Len(ids) \in Nat
    BY SeqFacts
<1>2. I = {p}
    BY <1>1 DEF IsInjective
<1>3. Place(ids, id) = IF I # {} THEN Min(I) ELSE 0
    BY DEF Place, SelectInSeq
<1>4. Min({p}) = p
    BY <1>1 DEF Min
<1> QED BY <1>2, <1>3, <1>4

\* Where every result answers a use they come in the order of the uses.
LEMMA ReorderedAnswers ==
    ASSUME NEW rs, IsSeq(rs), NEW ids, IsSeq(ids), IsInjective(ids),
           \A n \in DOMAIN rs : Contains(ids, rs[n].id)
    PROVE  Answers(ReorderToolResults(rs, ids), ids)
<1>1. Len(rs) \in Nat /\ DOMAIN rs = 1..Len(rs) /\ Len(ids) \in Nat /\ DOMAIN ids = 1..Len(ids)
    BY SeqFacts
<1>2. CASE Len(rs) <= 1
    <2>1. ReorderToolResults(rs, ids) = rs
        BY <1>2, Reordered
    <2>2. \A n, k \in DOMAIN rs : ~(n < k)
        BY <1>1, <1>2
    <2> QED BY <2>1, <2>2 DEF Answers
<1>3. CASE Len(rs) > 1
    <2>1. ids # <<>>
        <3>1. Contains(ids, rs[1].id)
            BY <1>1, <1>3
        <3>2. 1 <= Len(ids)
            BY <1>1, <3>1 DEF Contains
        <3> QED BY <3>2, SeqFacts
    <2>2. PICK w : w = InOrderOf(rs, ids)
        OBVIOUS
    <2>3. PICK o : o = Ordered(rs, ids)
        OBVIOUS
    <2>4. IsSeq(w) /\ DOMAIN w = DOMAIN o /\ (\A n \in DOMAIN w : w[n].id = o[n]) /\ Others(rs, ids) = <<>>
        BY <2>2, <2>3, InOrderOfFacts
    <2>5. w \o <<>> = w
        BY <2>4, SeqFacts
    <2>6. ReorderToolResults(rs, ids) = w
        <3>1. ~(Len(rs) <= 1 \/ ids = <<>>)
            BY <1>1, <1>3, <2>1
        <3>2. ReorderToolResults(rs, ids) = InOrderOf(rs, ids) \o Others(rs, ids)
            BY <3>1, Reordered
        <3> QED BY <3>2, <2>2, <2>4, <2>5
    <2> DEFINE I == {n \in DOMAIN ids : LastResult(rs, ids[n]) # 0}
    <2>7. I \subseteq DOMAIN ids /\ o = At(ids, I)
        BY <2>3 DEF Ordered
    <2> HIDE DEF I
    <2>8. PICK pos : Picks(o, ids, I, Len(ids), pos)
        BY <2>7, AtPicks
    <2>9. DOMAIN o = 1..Len(o)
        BY <2>8, SeqFacts DEF Picks
    <2>10. ASSUME NEW n \in DOMAIN w PROVE pos[n] \in DOMAIN ids /\ w[n].id = ids[pos[n]]
        BY <1>1, <2>4, <2>8, <2>9 DEF Picks
    <2>11. ASSUME NEW n \in DOMAIN w PROVE Place(ids, w[n].id) = pos[n]
        BY <2>10, PlaceOf
    <2>12. ASSUME NEW n \in DOMAIN w PROVE Contains(ids, w[n].id)
        BY <1>1, <2>10 DEF Contains
    <2>13. ASSUME NEW n \in DOMAIN w, NEW k \in DOMAIN w, n < k PROVE pos[n] < pos[k]
        BY <2>4, <2>8, <2>9, <2>13 DEF Picks
    <2>14. Answers(w, ids)
        BY <2>11, <2>12, <2>13 DEF Answers, Place
    <2> QED BY <2>6, <2>14
<1> QED BY <1>1, <1>2, <1>3
----------------------------------------------------------------------------
(* The history *)

EntryIn(e, A) == TextIn(e.text, A) /\ ResultsIn(e.results, A)

HistoryIn(h, A) == IsSeq(h) /\ \A n \in DOMAIN h : EntryIn(h[n], A)

UsesBefore(h, n) == IF n = 1 THEN <<>> ELSE h[n - 1].uses

\* The part of WellFormed that is about the history.
HistoryOK(h) ==
    /\ \A n \in DOMAIN h : h[n].role = TurnOf(n) /\ Answers(h[n].results, UsesBefore(h, n))
    /\ Len(h) % 2 = 0

\* No results answer anything.
LEMMA AnswersNone == ASSUME NEW rs, DOMAIN rs = {}, NEW ids PROVE Answers(rs, ids)
BY DEF Answers

\* The fields of an entry.
LEMMA EntryFacts ==
    ASSUME NEW role, NEW text, NEW results, NEW uses
    PROVE  LET e == Entry(role, text, results, uses)
           IN  e.role = role /\ e.text = text /\ e.results = results /\ e.uses = uses
BY DEF Entry

\* CleanCurrentText takes fragments out.
LEMMA CleanedIn == ASSUME NEW A, NEW t, TextIn(t, A) PROVE TextIn(CleanCurrentText(t), A)
<1> DEFINE I == {n \in DOMAIN t : t[n].kind # "mcp"}
<1>1. CleanCurrentText(t) = At(t, I) /\ I \subseteq DOMAIN t
    BY DEF CleanCurrentText, Keep
<1> HIDE DEF I
<1> QED BY <1>1, TextAt

\* The results of a message that follows the uses of another.
LEMMA FollowedResults ==
    ASSUME NEW A, NEW m, MessageIn(m, A), m.role = "user", NEW p, MessageIn(p, A), HasResults(m) => Follows(m, p),
           NEW rs, rs = ExtractToolResults(m)
    PROVE  \A n \in DOMAIN rs : Contains(ExtractToolUseIDs(p), rs[n].id) /\ p.role = "assistant"
<1> SUFFICES ASSUME NEW n \in DOMAIN rs
             PROVE  Contains(ExtractToolUseIDs(p), rs[n].id) /\ p.role = "assistant"
    OBVIOUS
<1>1. ~m.str
    BY ExtractResults
<1>2. PICK k \in DOMAIN m.blocks : IsToolResult(m.blocks[k]) /\ rs[n].id = m.blocks[k].id
    BY ExtractResults
<1>3. Follows(m, p)
    BY <1>1, <1>2 DEF HasResults
<1> QED BY <1>2, <1>3 DEF Follows

\* The history names what the messages name.
LEMMA BuildHistoryIn ==
    ASSUME NEW A, NEW ms, InOrder(ms, A), NEW h, h = BuildHistory(ms)
    PROVE  /\ HistoryIn(h, A) /\ DOMAIN h = DOMAIN ms /\ Len(h) = Len(ms)
           /\ \A n \in DOMAIN ms : /\ h[n].role = ms[n].role
                                   /\ ms[n].role = "assistant" => h[n].uses = ExtractToolUseIDs(ms[n])
           /\ Alternates(ms) /\ Linked(ms) =>
                 \A n \in DOMAIN h : h[n].role = TurnOf(n) /\ Answers(h[n].results, UsesBefore(h, n))
<1>1. Len(ms) \in Nat /\ DOMAIN ms = 1..Len(ms)
    BY SeqFacts DEF InOrder
<1>2. h = [n \in DOMAIN ms |-> h[n]]
    BY DEF BuildHistory
<1>3. IsSeq(h) /\ DOMAIN h = DOMAIN ms /\ Len(h) = Len(ms)
    BY <1>2, MapIsSeq DEF InOrder
<1>4. ASSUME NEW n \in DOMAIN ms
      PROVE  /\ EntryIn(h[n], A) /\ h[n].role = ms[n].role
             /\ ms[n].role = "assistant" => h[n].uses = ExtractToolUseIDs(ms[n]) /\ h[n].results = <<>>
             /\ ms[n].role = "user" =>
                   h[n].results = IF Len(ExtractToolResults(ms[n])) > 1 /\ n > 1
                                  THEN ReorderToolResults(ExtractToolResults(ms[n]), ExtractToolUseIDs(ms[n - 1]))
                                  ELSE ExtractToolResults(ms[n])
    <2>1. MessageIn(ms[n], A) /\ ms[n].role \in {"user", "assistant"}
        BY DEF InOrder
    <2>2. CASE ms[n].role = "user"
        <3>1. PICK rs : rs = ExtractToolResults(ms[n])
            OBVIOUS
        <3>2. PICK r : r = IF Len(rs) > 1 /\ n > 1 THEN ReorderToolResults(rs, ExtractToolUseIDs(ms[n - 1])) ELSE rs
            OBVIOUS
        <3>3. h[n] = Entry("user", CleanCurrentText(ExtractTextContent(ms[n])), r, <<>>)
            BY <2>2, <3>1, <3>2 DEF BuildHistory
        <3>4. ResultsIn(rs, A)
            BY <2>1, <3>1, ExtractResults
        <3>5. ResultsIn(r, A)
            <4>1. CASE Len(rs) > 1 /\ n > 1
                <5>1. n - 1 \in DOMAIN ms
                    BY <4>1, <1>1
                <5>2. IsSeq(ExtractToolUseIDs(ms[n - 1]))
                    BY <5>1, UseIDs DEF InOrder, MessageIn, ContentIn
                <5> QED BY <4>1, <5>2, <3>2, <3>4, ReorderedIn
            <4>2. CASE ~(Len(rs) > 1 /\ n > 1)
                BY <4>2, <3>2, <3>4
            <4> QED BY <4>1, <4>2
        <3>6. TextIn(CleanCurrentText(ExtractTextContent(ms[n])), A)
            BY <2>1, MessageText, CleanedIn
        <3>7. h[n].role = "user" /\ h[n].results = r /\ h[n].text = CleanCurrentText(ExtractTextContent(ms[n]))
            BY <3>3, EntryFacts
        <3> QED BY <2>2, <3>1, <3>2, <3>5, <3>6, <3>7 DEF EntryIn
    <2>3. CASE ms[n].role = "assistant"
        <3>1. h[n] = Entry("assistant", ExtractTextContent(ms[n]), <<>>, ExtractToolUseIDs(ms[n]))
            BY <2>3 DEF BuildHistory
        <3>2. /\ h[n].role = "assistant" /\ h[n].results = <<>> /\ h[n].text = ExtractTextContent(ms[n])
              /\ h[n].uses = ExtractToolUseIDs(ms[n])
            BY <3>1, EntryFacts
        <3> QED BY <2>1, <2>3, <3>2, MessageText, NoResults DEF EntryIn
    <2> QED BY <2>1, <2>2, <2>3
<1>5. ASSUME Alternates(ms), Linked(ms), NEW n \in DOMAIN ms
      PROVE  h[n].role = TurnOf(n) /\ Answers(h[n].results, UsesBefore(h, n))
    <2>1. h[n].role = TurnOf(n) /\ ms[n].role \in {"user", "assistant"}
        BY <1>4, <1>5 DEF Alternates, InOrder
    <2>2. CASE ms[n].role = "assistant"
        <3>1. DOMAIN h[n].results = {}
            BY <1>4, <2>2
        <3> QED BY <2>1, <3>1, AnswersNone
    <2>3. CASE ms[n].role = "user"
        <3>1. PICK rs : rs = ExtractToolResults(ms[n])
            OBVIOUS
        <3>2. IsSeq(rs)
            BY <3>1, ExtractResults DEF InOrder, ResultsIn
        <3>3. Len(rs) \in Nat /\ DOMAIN rs = 1..Len(rs)
            BY <3>2, SeqFacts
        <3>4. CASE n = 1
            <4>1. h[n].results = rs
                BY <1>4, <2>3, <3>1, <3>4
            <4>2. ~HasResults(ms[n])
                BY <1>5, <3>4 DEF Linked
            <4>3. DOMAIN rs = {}
                BY <4>2, <2>3, <3>1, ExtractResults DEF InOrder, HasResults
            <4> QED BY <2>1, <4>1, <4>3, AnswersNone
        <3>5. CASE n > 1
            <4> DEFINE ids == ExtractToolUseIDs(ms[n - 1])
            <4>1. n - 1 \in DOMAIN ms /\ MessageIn(ms[n - 1], A)
                BY <3>5, <1>1 DEF InOrder
            <4>2. IsSeq(ids)
                BY <4>1, UseIDs DEF MessageIn, ContentIn
            <4>3. IsInjective(ids) /\ (HasResults(ms[n]) => Follows(ms[n], ms[n - 1]))
                BY <4>1, <1>5 DEF Linked
            <4>4. \A k \in DOMAIN rs : Contains(ids, rs[k].id) /\ ms[n - 1].role = "assistant"
                BY <4>1, <4>3, <2>3, <3>1, FollowedResults DEF InOrder
            <4>5. UsesBefore(h, n) = h[n - 1].uses
                BY <3>5, <1>1 DEF UsesBefore
            <4> HIDE DEF ids
            <4>6. CASE Len(rs) > 1
                <5>1. h[n].results = ReorderToolResults(rs, ids)
                    BY <1>4, <2>3, <3>1, <3>5, <4>6 DEF ids
                <5>2. ms[n - 1].role = "assistant"
                    BY <4>4, <4>6, <3>3
                <5>3. h[n - 1].uses = ids
                    BY <5>2, <4>1, <1>4 DEF ids
                <5>4. Answers(ReorderToolResults(rs, ids), ids)
                    BY <3>2, <4>2, <4>3, <4>4, ReorderedAnswers
                <5> QED BY <2>1, <4>5, <5>1, <5>3, <5>4
            <4>7. CASE ~(Len(rs) > 1)
                <5>1. h[n].results = rs
                    BY <1>4, <2>3, <3>1, <4>7
                <5>2. \A k \in DOMAIN rs : h[n - 1].uses = ids
                    BY <4>1, <4>4, <1>4 DEF ids
                <5>3. \A k, l \in DOMAIN rs : ~(k < l)
                    BY <3>3, <4>7
                <5>4. Answers(rs, UsesBefore(h, n))
                    BY <5>2, <5>3, <4>4, <4>5 DEF Answers
                <5> QED BY <2>1, <5>1, <5>4
            <4> QED BY <4>6, <4>7
        <3> QED BY <3>4, <3>5, <1>1
    <2> QED BY <2>1, <2>2, <2>3
<1> QED BY <1>3, <1>4, <1>5 DEF HistoryIn
----------------------------------------------------------------------------
(* The payload *)

\* What SplitMessages gives to the rest of BuildPayload.
Parted(parts, A) ==
    /\ InOrder(parts.history, A) /\ MessageIn(parts.last, A) /\ parts.last.role = "user"

PartedWell(parts) ==
    /\ Alternates(parts.history) /\ Linked(parts.history) /\ Len(parts.history) % 2 = 0
    /\ HasResults(parts.last) => parts.history # <<>> /\ Follows(parts.last, Last(parts.history))

\* SplitMessages: the last message is a user's and fits the history before it.
LEMMA SplitInParts ==
    ASSUME NEW A, NEW ms, InOrder(ms, A), ms # <<>>, Alternates(ms)
    PROVE  Parted(SplitMessages(ms), A) /\ (Linked(ms) => PartedWell(SplitMessages(ms)))
<1>1. /\ IsSeq(Front(ms)) /\ Len(Front(ms)) = Len(ms) - 1 /\ Len(ms) \in Nat \ {0}
      /\ DOMAIN Front(ms) = 1..(Len(ms) - 1)
      /\ \A i \in DOMAIN Front(ms) : Front(ms)[i] = ms[i]
      /\ Last(ms) = ms[Len(ms)] /\ Len(ms) \in DOMAIN ms
    BY FrontFacts DEF InOrder
<1>2. DOMAIN ms = 1..Len(ms)
    BY SeqFacts DEF InOrder
<1>3. InOrder(Front(ms), A) /\ MessageIn(Last(ms), A) /\ Last(ms).role \in {"user", "assistant"}
    BY InOrderFront
<1>4. Last(ms).role = TurnOf(Len(ms))
    BY <1>1 DEF Alternates
<1>5. CASE Last(ms).role = "assistant"
    <2>1. PICK m : m = StringMessage("user", ContinueText)
        OBVIOUS
    <2>2. SplitMessages(ms).history = ms /\ SplitMessages(ms).last = m
        BY <1>5, <2>1 DEF SplitMessages
    <2>3. MessageIn(m, A) /\ m.role = "user" /\ ~HasResults(m)
        BY <2>1, StringMessageIn, StringMessageFacts, SyntheticIn
    <2>4. Len(ms) % 2 = 0
        BY <1>1, <1>4, <1>5 DEF TurnOf
    <2> QED BY <2>2, <2>3, <2>4 DEF Parted, PartedWell
<1>6. CASE Last(ms).role = "user"
    <2>1. SplitMessages(ms).history = Front(ms) /\ SplitMessages(ms).last = Last(ms)
        BY <1>6 DEF SplitMessages
    <2>2. Parted(SplitMessages(ms), A)
        BY <2>1, <1>3, <1>6 DEF Parted
    <2>3. ASSUME Linked(ms) PROVE PartedWell(SplitMessages(ms))
        <3>1. Linked(Front(ms))
            BY <2>3, LinkedFront DEF InOrder
        <3>2. Alternates(Front(ms))
            BY <1>1, <1>2 DEF Alternates
        <3>3. Len(Front(ms)) % 2 = 0
            BY <1>1, <1>4, <1>6 DEF TurnOf
        <3>4. ASSUME HasResults(Last(ms)) PROVE Front(ms) # <<>> /\ Follows(Last(ms), Last(Front(ms)))
            <4>1. Len(ms) > 1 /\ Follows(ms[Len(ms)], ms[Len(ms) - 1])
                BY <1>1, <2>3, <3>4 DEF Linked
            <4>2. Front(ms) # <<>>
                BY <4>1, <1>1, SeqFacts
            <4>3. Last(Front(ms)) = ms[Len(ms) - 1]
                BY <4>1, <1>1 DEF Last
            <4> QED BY <4>1, <4>2, <4>3, <1>1
        <3> QED BY <2>1, <3>1, <3>2, <3>3, <3>4 DEF PartedWell
    <2> QED BY <2>2, <2>3
<1> QED BY <1>3, <1>5, <1>6

\* The system prompt is what its text blocks say.
LEMMA SystemPromptIn == ASSUME NEW A, NEW system, ContentIn(system, A) PROVE TextIn(ExtractSystemPrompt(system), A)
<1> DEFINE ss == [n \in DOMAIN system |-> IF system[n].type = "text" THEN CleanSystemPromptText(system[n].text)
                                          ELSE <<>>]
<1>1. ss = [n \in DOMAIN system |-> ss[n]]
    OBVIOUS
<1>2. ASSUME NEW n \in DOMAIN system PROVE TextIn(ss[n], A)
    <2>1. TextIn(system[n].text, A)
        BY DEF ContentIn, BlockIn
    <2> QED BY <2>1, TextNone DEF CleanSystemPromptText
<1>3. ExtractSystemPrompt(system) = FlattenSeq(ss)
    BY DEF ExtractSystemPrompt, MapSeq
<1> HIDE DEF ss
<1>4. IsSeq(ss) /\ DOMAIN ss = DOMAIN system
    BY <1>1, MapIsSeq DEF ContentIn
<1> QED BY <1>2, <1>3, <1>4, TextFlatten

\* Histories one after the other.
LEMMA HistoryConcat ==
    ASSUME NEW A, NEW s, NEW t, HistoryIn(s, A), HistoryIn(t, A) PROVE HistoryIn(s \o t, A)
<1>1. PICK w : w = s \o t
    OBVIOUS
<1>2. /\ IsSeq(w) /\ Len(w) = Len(s) + Len(t)
      /\ \A i \in 1..Len(s) : w[i] = s[i]
      /\ \A i \in 1..Len(t) : w[Len(s) + i] = t[i]
    BY <1>1, ConcatIsSeq DEF HistoryIn
<1>3. /\ Len(s) \in Nat /\ DOMAIN s = 1..Len(s) /\ Len(t) \in Nat /\ DOMAIN t = 1..Len(t)
      /\ DOMAIN w = 1..Len(w)
    BY <1>2, SeqFacts DEF HistoryIn
<1>4. ASSUME NEW i \in DOMAIN w PROVE EntryIn(w[i], A)
    <2>1. CASE i \in DOMAIN s
        <3>1. w[i] = s[i]
            BY <2>1, <1>2, <1>3
        <3> QED BY <3>1, <2>1 DEF HistoryIn
    <2>2. CASE i \notin DOMAIN s
        <3>1. i - Len(s) \in DOMAIN t /\ Len(s) + (i - Len(s)) = i
            BY <2>2, <1>2, <1>3
        <3>2. w[i] = t[i - Len(s)]
            BY <3>1, <1>2, <1>3
        <3> QED BY <3>1, <3>2 DEF HistoryIn
    <2> QED BY <2>1, <2>2
<1> QED BY <1>1, <1>2, <1>4 DEF HistoryIn

\* An exchange of texts alone, and what comes after a history.
PlainEntry(e, role) == e.role = role /\ e.results = <<>> /\ e.uses = <<>>
Pair(b, x, y) == IsSeq(b) /\ Len(b) = 2 /\ b[1] = x /\ b[2] = y
PutBefore(w, b, h) == w = b \o h
UsesAtEnd(h) == UsesBefore(h, Len(h) + 1)

\* An exchange put before a history leaves it as it was.
LEMMA HistoryBehind ==
    ASSUME NEW A, NEW h, HistoryIn(h, A), NEW x, EntryIn(x, A), NEW y, EntryIn(y, A),
           NEW b, Pair(b, x, y), NEW w, PutBefore(w, b, h)
    PROVE  /\ HistoryIn(w, A)
           /\ HistoryOK(h) /\ PlainEntry(x, "user") /\ PlainEntry(y, "assistant")
              => HistoryOK(w) /\ UsesAtEnd(w) = UsesAtEnd(h)
<1>1. IsSeq(b)
    BY DEF Pair
<1>2. Len(b) = 2 /\ b[1] = x /\ b[2] = y
    BY DEF Pair
<1>3. IsSeq(h)
    BY DEF HistoryIn
<1>4. /\ IsSeq(w) /\ Len(w) = Len(b) + Len(h)
      /\ \A i \in 1..Len(b) : w[i] = b[i]
      /\ \A i \in 1..Len(h) : w[Len(b) + i] = h[i]
    BY ONLY <1>1, <1>3, PutBefore(w, b, h), ConcatIsSeq DEF PutBefore
<1>5. Len(h) \in Nat /\ DOMAIN h = 1..Len(h) /\ DOMAIN w = 1..Len(w)
    BY <1>4, SeqFacts DEF HistoryIn
<1>6. Len(w) = Len(h) + 2 /\ w[1] = x /\ w[2] = y
    BY <1>2, <1>4, <1>5
<1>7. ASSUME NEW n \in DOMAIN w, n > 2 PROVE n - 2 \in DOMAIN h /\ w[n] = h[n - 2]
    <2>1. n \in Nat /\ n <= Len(h) + 2
        BY <1>5, <1>6, <1>7
    <2>2. n - 2 \in 1..Len(h) /\ 2 + (n - 2) = n
        BY <2>1, <1>5, <1>7
    <2> QED BY <2>2, <1>2, <1>4, <1>5
<1>8. ASSUME NEW n \in DOMAIN w PROVE n = 1 \/ n = 2 \/ n > 2
    BY <1>5
<1>9. HistoryIn(w, A)
    BY <1>4, <1>6, <1>7, <1>8 DEF HistoryIn
<1>10. ASSUME HistoryOK(h), PlainEntry(x, "user"), PlainEntry(y, "assistant")
       PROVE  HistoryOK(w) /\ UsesAtEnd(w) = UsesAtEnd(h)
    <2>0. /\ x.role = "user" /\ x.results = <<>> /\ x.uses = <<>>
          /\ y.role = "assistant" /\ y.results = <<>> /\ y.uses = <<>>
        BY <1>10 DEF PlainEntry
    <2>1. ASSUME NEW n \in Nat, n > 2, n <= Len(w) + 1 PROVE UsesBefore(w, n) = UsesBefore(h, n - 2)
        <3>1. CASE n = 3
            BY <3>1, <1>6, <2>0 DEF UsesBefore
        <3>2. CASE n > 3
            <4>1. n - 1 \in DOMAIN w /\ n - 1 > 2 /\ (n - 1) - 2 = (n - 2) - 1 /\ n # 1 /\ n - 2 # 1
                BY <2>1, <3>2, <1>5, <1>6
            <4>2. w[n - 1] = h[(n - 1) - 2]
                BY <4>1, <1>7
            <4> QED BY <4>1, <4>2 DEF UsesBefore
        <3> QED BY <3>1, <3>2, <2>1
    <2>2. DOMAIN x.results = {} /\ DOMAIN y.results = {}
        BY <2>0
    <2>3. ASSUME NEW n \in DOMAIN w PROVE w[n].role = TurnOf(n) /\ Answers(w[n].results, UsesBefore(w, n))
        <3>1. CASE n = 1
            BY <3>1, <2>2, <1>6, <2>0, AnswersNone DEF TurnOf
        <3>2. CASE n = 2
            BY <3>2, <2>2, <1>6, <2>0, AnswersNone DEF TurnOf
        <3>3. CASE n > 2
            <4>1. n - 2 \in DOMAIN h /\ w[n] = h[n - 2] /\ n - 2 \in Nat /\ (n - 2) + 2 = n
                BY <3>3, <1>5, <1>7
            <4>2. TurnOf(n) = TurnOf(n - 2)
                BY <4>1, TurnNext
            <4>3. n \in Nat /\ n <= Len(w) + 1
                BY <1>5, <1>6
            <4>4. UsesBefore(w, n) = UsesBefore(h, n - 2)
                BY <2>1, <3>3, <4>3
            <4> QED BY <4>1, <4>2, <4>4, <1>10 DEF HistoryOK
        <3> QED BY <3>1, <3>2, <3>3, <1>8
    <2>4. Len(w) % 2 = 0
        BY <1>5, <1>6, <1>10 DEF HistoryOK
    <2>5. UsesBefore(w, Len(w) + 1) = UsesBefore(h, Len(h) + 1)
        <3>1. CASE Len(h) = 0
            <4>1. Len(w) + 1 # 1 /\ (Len(w) + 1) - 1 = 2 /\ Len(h) + 1 = 1
                BY <3>1, <1>6
            <4> QED BY <4>1, <1>6, <2>0 DEF UsesBefore
        <3>2. CASE Len(h) > 0
            <4>1. w[Len(w)] = h[Len(h)] /\ Len(w) + 1 # 1 /\ Len(h) + 1 # 1
                  /\ (Len(w) + 1) - 1 = Len(w) /\ (Len(h) + 1) - 1 = Len(h)
                BY <3>2, <1>5, <1>6, <1>7
            <4> QED BY <4>1 DEF UsesBefore
        <3> QED BY <3>1, <3>2, <1>5
    <2> QED BY <2>3, <2>4, <2>5 DEF HistoryOK, UsesAtEnd
<1> QED BY <1>9, <1>10

\* PlaceSystemPrompt keeps the history's shape, but in the mode that leaves the
\* assistant's part of the exchange out.
LEMMA Placed ==
    ASSUME NEW A, NEW prompt, TextIn(prompt, A), NEW h, HistoryIn(h, A), NEW text, TextIn(text, A),
           NEW p, p = PlaceSystemPrompt(prompt, h, text)
    PROVE  /\ HistoryIn(p.history, A) /\ TextIn(p.text, A)
           /\ SystemMode # "noack" /\ HistoryOK(h) =>
                 HistoryOK(p.history) /\ UsesAtEnd(p.history) = UsesAtEnd(h)
<1>1. PICK x : x = Entry("user", prompt, <<>>, <<>>)
    OBVIOUS
<1>2. PICK y : y = Entry("assistant", AckText, <<>>, <<>>)
    OBVIOUS
<1>3. /\ x.role = "user" /\ x.text = prompt /\ x.results = <<>> /\ x.uses = <<>>
      /\ y.role = "assistant" /\ y.text = AckText /\ y.results = <<>> /\ y.uses = <<>>
    BY <1>1, <1>2, EntryFacts
<1>4. EntryIn(x, A) /\ EntryIn(y, A)
    BY <1>3, NoResults, SyntheticIn DEF EntryIn
<1>5. TextIn(p.text, A)
    <2>1. p.text = IF SystemMode = "current" THEN prompt \o text ELSE text
        BY DEF PlaceSystemPrompt
    <2> QED BY <2>1, TextConcat
<1>6. CASE prompt = <<>> \/ SystemMode \in {"drop", "current"}
    <2>1. PICK e : e = <<>>
        OBVIOUS
    <2>2. e \o h = h
        BY <2>1, SeqFacts DEF HistoryIn
    <2>3. p.history = e \o h
        BY ONLY <1>6, <2>1, p = PlaceSystemPrompt(prompt, h, text) DEF PlaceSystemPrompt
    <2> QED BY <1>5, <2>2, <2>3
<1>7. CASE ~(prompt = <<>> \/ SystemMode \in {"drop", "current"}) /\ SystemMode = "noack"
    <2>1. p.history = <<x>> \o h
        BY <1>1, <1>7 DEF PlaceSystemPrompt
    <2>2. PICK b : b = <<x>>
        OBVIOUS
    <2>3. IsSeq(b)
        BY <2>2, SingleIsSeq
    <2>4. DOMAIN b = {1} /\ b[1] = x
        BY <2>2
    <2>5. HistoryIn(b, A)
        BY <2>3, <2>4, <1>4 DEF HistoryIn
    <2>6. HistoryIn(b \o h, A)
        BY <2>5, HistoryConcat
    <2> QED BY <1>5, <1>7, <2>1, <2>2, <2>6
<1>8. CASE ~(prompt = <<>> \/ SystemMode \in {"drop", "current"}) /\ SystemMode # "noack"
    <2>1. PICK b : b = <<x, y>>
        OBVIOUS
    <2>2. IsSeq(b)
        BY <2>1, SingleIsSeq
    <2>3. Len(b) = 2 /\ b[1] = x /\ b[2] = y
        BY <2>1
    <2>4. PICK w : w = b \o h
        OBVIOUS
    <2>5. p.history = w
        BY <1>1, <1>2, <1>8, <2>1, <2>4 DEF PlaceSystemPrompt
    <2>6. /\ HistoryIn(w, A)
          /\ HistoryOK(h) => HistoryOK(w) /\ UsesAtEnd(w) = UsesAtEnd(h)
        <3>1. Pair(b, x, y)
            BY ONLY <2>2, <2>3 DEF Pair
        <3>2. PlainEntry(x, "user") /\ PlainEntry(y, "assistant")
            BY ONLY <1>3 DEF PlainEntry
        <3>3. EntryIn(x, A)
            BY <1>4
        <3>4. EntryIn(y, A)
            BY <1>4
        <3>5. PutBefore(w, b, h)
            BY <2>4 DEF PutBefore
        <3> QED BY ONLY <3>1, <3>2, <3>3, <3>4, <3>5, HistoryIn(h, A), HistoryBehind
    <2> QED BY <1>5, <2>5, <2>6
<1> QED BY <1>6, <1>7, <1>8

PayloadIn(p, A) ==
    HistoryIn(p.history, A) /\ TextIn(p.current.text, A) /\ ResultsIn(p.current.results, A)

\* A text that something is put before.
LEMMA NotEmptied ==
    ASSUME NEW s, IsSeq(s), NEW t, IsSeq(t), t # <<>> PROVE s \o t # <<>>
<1>1. Len(s) \in Nat /\ Len(t) \in Nat /\ Len(t) # 0
    BY SeqFacts
<1>2. PICK w : w = s \o t
    OBVIOUS
<1>3. IsSeq(w) /\ Len(w) = Len(s) + Len(t)
    BY <1>2, ConcatIsSeq
<1>4. Len(w) # 0
    BY <1>1, <1>3
<1> QED BY <1>2, <1>3, <1>4, SeqFacts

\* The current message says something, or answers something.
LEMMA CurrentMessage ==
    ASSUME NEW A, NEW last, MessageIn(last, A), NEW text, TextIn(text, A), NEW tools, NEW prefix,
           NEW ids, IsSeq(ids), NEW c, c = BuildCurrentMessage(last, text, tools, prefix, ids)
    PROVE  /\ TextIn(c.text, A) /\ ResultsIn(c.results, A) /\ c.tools = tools
           /\ c.results = ReorderToolResults(ExtractToolResults(last), ids)
           /\ c.text # <<>> \/ c.results # <<>>
<1>1. PICK rs : rs = ReorderToolResults(ExtractToolResults(last), ids)
    OBVIOUS
<1>2. ResultsIn(rs, A)
    BY <1>1, ExtractResults, ReorderedIn
<1>3. PICK content : content = IF text = <<>> /\ rs = <<>> THEN ContinueText ELSE text
    OBVIOUS
<1>4. TextIn(content, A)
    BY <1>3, SyntheticIn
<1>5. PICK tags : tags = IF prefix /\ (content # <<>> \/ rs = <<>>)
                         THEN <<Fragment("synthetic", "thinking_mode")>> ELSE <<>>
    OBVIOUS
<1>6. TextIn(tags, A)
    BY <1>5, SyntheticIn, TextNone
<1>7. c.text = tags \o content /\ c.results = rs /\ c.tools = tools
    BY <1>1, <1>3, <1>5 DEF BuildCurrentMessage
<1>8. rs = <<>> => content # <<>>
    <2>1. ContinueText # <<>>
        <3>1. PICK t : t = ContinueText
            OBVIOUS
        <3>2. Len(t) = 1
            BY <3>1 DEF ContinueText
        <3> QED BY <3>1, <3>2
    <2> QED BY <2>1, <1>3
<1>9. rs = <<>> => tags \o content # <<>>
    BY <1>4, <1>6, <1>8, NotEmptied DEF TextIn
<1>10. TextIn(c.text, A)
    BY <1>4, <1>6, <1>7, TextConcat
<1> QED BY <1>1, <1>2, <1>7, <1>9, <1>10

\* BuildPayload, for all conversations: the payload names no tools but those of
\* the conversation, and of a client that tags its tool uses with distinct ids
\* it is one the upstream accepts.
THEOREM PayloadAccepted ==
    ASSUME NEW A, NEW system, ContentIn(system, A), NEW msgs, MessagesIn(msgs, A), msgs # <<>>,
           NEW opts, NEW p, p = BuildPayload(system, msgs, opts)
    PROVE  /\ PayloadIn(p, A) /\ p.current.tools = opts.tools
           /\ Regular(msgs) /\ SystemMode # "noack" => WellFormed(p)
<1>1. PICK hasTools \in BOOLEAN : hasTools = (opts.tools # {} \/ opts.preserve)
    OBVIOUS
<1>2. PICK ms : ms = Normalize(msgs, hasTools)
    OBVIOUS
<1>3. InOrder(ms, A) /\ ms # <<>> /\ Alternates(ms) /\ (Regular(msgs) => Linked(ms))
    BY <1>2, NormalizeIn
<1>4. PICK parts : parts = SplitMessages(ms)
    OBVIOUS
<1>5. Parted(parts, A) /\ (Linked(ms) => PartedWell(parts))
    BY <1>3, <1>4, SplitInParts
<1>6. PICK ids : ids = IF parts.history = <<>> THEN <<>> ELSE ExtractToolUseIDs(Last(parts.history))
    OBVIOUS
<1>7. PICK h : h = BuildHistory(parts.history)
    OBVIOUS
<1>8. PICK placed : placed = PlaceSystemPrompt(ExtractSystemPrompt(system), h,
                                               CleanCurrentText(ExtractTextContent(parts.last)))
    OBVIOUS
<1>9. PICK c : c = BuildCurrentMessage(parts.last, placed.text, opts.tools, opts.prefix, ids)
    OBVIOUS
<1>10. p.history = placed.history /\ p.current = c
    BY <1>1, <1>2, <1>4, <1>6, <1>7, <1>8, <1>9 DEF BuildPayload
<1>11. InOrder(parts.history, A) /\ MessageIn(parts.last, A) /\ parts.last.role = "user"
    BY <1>5 DEF Parted
<1>12. /\ HistoryIn(h, A) /\ Len(h) = Len(parts.history)
       /\ \A n \in DOMAIN parts.history : parts.history[n].role = "assistant" =>
             h[n].uses = ExtractToolUseIDs(parts.history[n])
       /\ Alternates(parts.history) /\ Linked(parts.history) =>
             \A n \in DOMAIN h : h[n].role = TurnOf(n) /\ Answers(h[n].results, UsesBefore(h, n))
    BY <1>7, <1>11, BuildHistoryIn
<1>13. TextIn(CleanCurrentText(ExtractTextContent(parts.last)), A)
    BY <1>11, MessageText, CleanedIn
<1>14. /\ HistoryIn(placed.history, A) /\ TextIn(placed.text, A)
       /\ SystemMode # "noack" /\ HistoryOK(h) =>
             HistoryOK(placed.history) /\ UsesAtEnd(placed.history) = UsesAtEnd(h)
    <2>1. TextIn(ExtractSystemPrompt(system), A)
        BY SystemPromptIn
    <2>2. HistoryIn(h, A)
        BY <1>12
    <2>3. PICK prompt : prompt = ExtractSystemPrompt(system)
        OBVIOUS
    <2>4. PICK text : text = CleanCurrentText(ExtractTextContent(parts.last))
        OBVIOUS
    <2>5. TextIn(prompt, A) /\ TextIn(text, A) /\ placed = PlaceSystemPrompt(prompt, h, text)
        BY <2>1, <2>3, <2>4, <1>8, <1>13
    <2> QED BY ONLY <2>2, <2>5, Placed
<1>15. IsSeq(ids)
    <2>1. CASE parts.history = <<>>
        BY <2>1, <1>6, SingleIsSeq
    <2>2. CASE parts.history # <<>>
        <3>1. MessageIn(Last(parts.history), A)
            BY <2>2, <1>11, InOrderFront
        <3> QED BY <3>1, <2>2, <1>6, UseIDs DEF MessageIn, ContentIn
    <2> QED BY <2>1, <2>2
<1>16. /\ TextIn(c.text, A) /\ ResultsIn(c.results, A) /\ c.tools = opts.tools
       /\ c.results = ReorderToolResults(ExtractToolResults(parts.last), ids)
       /\ c.text # <<>> \/ c.results # <<>>
    BY <1>9, <1>11, <1>14, <1>15, CurrentMessage
<1>17. ASSUME Regular(msgs), SystemMode # "noack" PROVE WellFormed(p)
    <2>1. /\ Alternates(parts.history) /\ Linked(parts.history) /\ Len(parts.history) % 2 = 0
          /\ HasResults(parts.last) => parts.history # <<>> /\ Follows(parts.last, Last(parts.history))
        BY <1>3, <1>5, <1>17 DEF PartedWell
    <2>2. HistoryOK(h)
        BY <2>1, <1>12 DEF HistoryOK
    <2>3. PICK rs : rs = ExtractToolResults(parts.last)
        OBVIOUS
    <2>4. IsSeq(rs)
        BY <2>3, <1>11, ExtractResults DEF ResultsIn
    <2>5. Answers(c.results, ids) /\ ids = UsesAtEnd(h)
        <3>1. CASE parts.history = <<>>
            <4>1. DOMAIN rs = {}
                BY <2>1, <2>3, <3>1, <1>11, ExtractResults DEF HasResults
            <4>2. Len(rs) <= 1
                BY <4>1, <2>4, SeqFacts
            <4>3. c.results = rs
                BY <4>2, <2>3, <1>16, Reordered
            <4>4. Len(h) = 0
                BY <3>1, <1>12
            <4>5. UsesAtEnd(h) = <<>>
                BY <4>4 DEF UsesAtEnd, UsesBefore
            <4> QED BY <4>1, <4>3, <4>5, <3>1, <1>6, AnswersNone
        <3>2. CASE parts.history # <<>>
            <4>1. PICK l : l = Last(parts.history)
                OBVIOUS
            <4>2. /\ MessageIn(l, A) /\ Len(parts.history) \in DOMAIN parts.history
                  /\ l = parts.history[Len(parts.history)] /\ Len(parts.history) \in Nat \ {0}
                BY <4>1, <3>2, <1>11, InOrderFront, FrontFacts DEF InOrder
            <4>3. l.role = "assistant"
                <5>1. l.role = TurnOf(Len(parts.history))
                    BY <4>2, <2>1 DEF Alternates
                <5>2. Len(parts.history) % 2 = 0
                    BY <2>1
                <5>3. TurnOf(Len(parts.history)) = "assistant"
                    <6>1. PICK k \in Nat : k = Len(parts.history)
                        BY <4>2
                    <6>2. k % 2 = 0
                        BY <5>2, <6>1
                    <6>3. TurnOf(k) = "assistant"
                        BY ONLY <6>2, k \in Nat DEF TurnOf
                    <6> QED BY <6>1, <6>3
                <5> QED BY <5>1, <5>3
            <4>4. IsInjective(ExtractToolUseIDs(l)) /\ ids = ExtractToolUseIDs(l)
                BY <4>1, <4>2, <3>2, <2>1, <1>6 DEF Linked
            <4>5. UsesAtEnd(h) = h[Len(h)].uses
                BY <4>2, <1>12 DEF UsesAtEnd, UsesBefore
            <4>6. UsesAtEnd(h) = ids
                BY <4>2, <4>3, <4>4, <4>5, <1>12
            <4>7. HasResults(parts.last) => Follows(parts.last, l)
                BY <4>1, <2>1
            <4>8. \A n \in DOMAIN rs : Contains(ids, rs[n].id)
                BY <4>2, <4>4, <4>7, <2>3, <1>11, FollowedResults
            <4>9. Answers(ReorderToolResults(rs, ids), ids)
                BY <4>4, <4>8, <2>4, <1>15, ReorderedAnswers
            <4> QED BY <4>6, <4>9, <2>3, <1>16
        <3> QED BY <3>1, <3>2
    <2>6. HistoryOK(p.history) /\ UsesAtEnd(p.history) = ids
        BY <2>2, <2>5, <1>10, <1>14, <1>17
    <2>7. /\ \A n \in DOMAIN p.history : p.history[n].role = (IF n % 2 = 1 THEN "user" ELSE "assistant")
          /\ Len(p.history) % 2 = 0
          /\ \A n \in DOMAIN p.history : Answers(p.history[n].results, UsesBefore(p.history, n))
        BY <2>6 DEF HistoryOK, TurnOf
    <2>8. Answers(p.current.results, UsesBefore(p.history, Len(p.history) + 1))
        BY <2>5, <2>6, <1>10 DEF UsesAtEnd
    <2> QED BY <2>7, <2>8, <1>10, <1>16 DEF WellFormed, UsesBefore
<1> QED BY <1>10, <1>14, <1>16, <1>17 DEF PayloadIn

\* The texts of the results, and of the history.
LEMMA ResultTextIn == ASSUME NEW A, NEW rs, ResultsIn(rs, A) PROVE TextIn(ResultText(rs), A)
<1> DEFINE ss == [n \in DOMAIN rs |-> rs[n].text]
<1>1. ss = [n \in DOMAIN rs |-> ss[n]] /\ \A n \in DOMAIN rs : ss[n] = rs[n].text
    OBVIOUS
<1>2. ResultText(rs) = FlattenSeq(ss)
    BY DEF ResultText, MapSeq
<1> HIDE DEF ss
<1>3. IsSeq(ss) /\ DOMAIN ss = DOMAIN rs
    BY <1>1, MapIsSeq DEF ResultsIn
<1> QED BY <1>1, <1>2, <1>3, TextFlatten DEF ResultsIn

HistoryText(h) == FlattenSeq(MapSeq(h, LAMBDA e : e.text \o ResultText(e.results)))

\* The text of a history names what its entries name.
LEMMA HistoryTextIn == ASSUME NEW A, NEW h, HistoryIn(h, A) PROVE TextIn(HistoryText(h), A)
<1> DEFINE ss == [n \in DOMAIN h |-> h[n].text \o ResultText(h[n].results)]
<1>1. ss = [n \in DOMAIN h |-> ss[n]] /\ \A n \in DOMAIN h : ss[n] = h[n].text \o ResultText(h[n].results)
    OBVIOUS
<1>2. HistoryText(h) = FlattenSeq(ss)
    BY DEF HistoryText, MapSeq
<1> HIDE DEF ss
<1>3. IsSeq(ss) /\ DOMAIN ss = DOMAIN h
    BY <1>1, MapIsSeq DEF HistoryIn
<1>4. ASSUME NEW n \in DOMAIN ss PROVE TextIn(ss[n], A)
    <2>1. TextIn(h[n].text, A) /\ TextIn(ResultText(h[n].results), A)
        BY <1>3, <1>4, ResultTextIn DEF HistoryIn, EntryIn
    <2> QED BY <2>1, <1>1, <1>3, TextConcat
<1> QED BY <1>2, <1>3, <1>4, TextFlatten

\* A conversation names some tools.
NamesOf(blocks) == UNION {{blocks[n].text[i].id : i \in DOMAIN blocks[n].text} : n \in DOMAIN blocks}

\* Content names the tools that its fragments are called by.
LEMMA ContentNamed ==
    ASSUME NEW blocks, IsContent(blocks), NEW A, NamesOf(blocks) \subseteq A PROVE ContentIn(blocks, A)
<1>1. ASSUME NEW n \in DOMAIN blocks PROVE BlockIn(blocks[n], A)
    <2>1. DOMAIN blocks[n] = {"type", "id", "text", "cache"} /\ IsSeq(blocks[n].text)
        BY DEF IsContent
    <2>2. ASSUME NEW i \in DOMAIN blocks[n].text PROVE blocks[n].text[i].id \in A
        <3>1. blocks[n].text[i].id \in {blocks[n].text[j].id : j \in DOMAIN blocks[n].text}
            OBVIOUS
        <3> QED BY <3>1 DEF NamesOf
    <2> QED BY <2>1, <2>2 DEF BlockIn, TextIn
<1> QED BY <1>1 DEF ContentIn, IsContent

\* Every conversation names some set of tools.
LEMMA ConversationNamed ==
    ASSUME NEW msgs, IsConversation(msgs), NEW system, IsContent(system)
    PROVE  \E A : MessagesIn(msgs, A) /\ ContentIn(system, A)
<1> DEFINE B == UNION {NamesOf(msgs[n].blocks) : n \in DOMAIN msgs}
           A == B \cup NamesOf(system)
<1>1. ASSUME NEW n \in DOMAIN msgs PROVE NamesOf(msgs[n].blocks) \subseteq A
    OBVIOUS
<1> HIDE DEF B
<1>2. NamesOf(system) \subseteq A
    OBVIOUS
<1> HIDE DEF A
<1>3. ContentIn(system, A)
    BY <1>2, ContentNamed
<1>4. ASSUME NEW n \in DOMAIN msgs PROVE MessageIn(msgs[n], A)
    <2>1. DOMAIN msgs[n] = {"role", "str", "blocks"} /\ IsContent(msgs[n].blocks)
        BY DEF IsConversation
    <2> QED BY <2>1, <1>1, ContentNamed DEF MessageIn
<1> QED BY <1>3, <1>4 DEF MessagesIn, IsConversation

\* The elements of a longer sequence.
LEMMA ConcatFrom ==
    ASSUME NEW s, NEW t, IsSeq(s), IsSeq(t), NEW w, PutBefore(w, s, t)
    PROVE  /\ IsSeq(w) /\ (s # <<>> => w # <<>>)
           /\ \A i \in DOMAIN w : (\E j \in DOMAIN s : w[i] = s[j]) \/ (\E j \in DOMAIN t : w[i] = t[j])
<1>2. /\ IsSeq(w) /\ Len(w) = Len(s) + Len(t)
      /\ \A i \in 1..Len(s) : w[i] = s[i]
      /\ \A i \in 1..Len(t) : w[Len(s) + i] = t[i]
    BY ConcatIsSeq DEF PutBefore
<1>3. /\ Len(s) \in Nat /\ DOMAIN s = 1..Len(s) /\ Len(t) \in Nat /\ DOMAIN t = 1..Len(t)
      /\ DOMAIN w = 1..Len(w) /\ (s = <<>> <=> Len(s) = 0) /\ (w = <<>> <=> Len(w) = 0)
    BY <1>2, SeqFacts
<1>4. ASSUME NEW i \in DOMAIN w
      PROVE  (\E j \in DOMAIN s : w[i] = s[j]) \/ (\E j \in DOMAIN t : w[i] = t[j])
    <2>1. CASE i \in DOMAIN s
        BY <2>1, <1>2, <1>3
    <2>2. CASE i \notin DOMAIN s
        <3>1. i - Len(s) \in DOMAIN t /\ Len(s) + (i - Len(s)) = i
            BY <2>2, <1>2, <1>3
        <3>2. w[i] = t[i - Len(s)]
            BY <3>1, <1>2, <1>3
        <3> QED BY <3>1, <3>2
    <2> QED BY <2>1, <2>2
<1> QED BY <1>2, <1>3, <1>4

\* Every message has its results apart.
AllApart(ms) == \A n \in DOMAIN ms : OneAnswerEach(ms[n])

\* More messages.
LEMMA MoreMessages ==
    ASSUME NEW s, NEW t, IsConversation(s), IsConversation(t)
    PROVE  /\ IsConversation(s \o t)
           /\ Regular(s) /\ Regular(t) => Regular(s \o t)
           /\ AllApart(s) /\ AllApart(t) => AllApart(s \o t)
           /\ \A A : MessagesIn(s, A) /\ MessagesIn(t, A) => MessagesIn(s \o t, A)
<1>1. PICK w : w = s \o t
    OBVIOUS
<1>2. /\ IsSeq(w) /\ w # <<>>
      /\ \A i \in DOMAIN w : (\E j \in DOMAIN s : w[i] = s[j]) \/ (\E j \in DOMAIN t : w[i] = t[j])
    <2>1. IsSeq(s) /\ s # <<>> /\ IsSeq(t)
        BY DEF IsConversation
    <2>2. PutBefore(w, s, t)
        BY <1>1 DEF PutBefore
    <2> QED BY ONLY <2>1, <2>2, ConcatFrom
<1>3. IsConversation(w)
    BY <1>2 DEF IsConversation
<1>4. Regular(s) /\ Regular(t) => Regular(w)
    BY <1>2 DEF Regular
<1>5. \A A : MessagesIn(s, A) /\ MessagesIn(t, A) => MessagesIn(w, A)
    BY <1>2 DEF MessagesIn
<1>6. AllApart(s) /\ AllApart(t) => AllApart(w)
    BY <1>2 DEF AllApart
<1> QED BY <1>1, <1>3, <1>4, <1>5, <1>6

\* A larger set of tools.
LEMMA MessagesMonotone ==
    ASSUME NEW A, NEW B, A \subseteq B, NEW msgs, MessagesIn(msgs, A) PROVE MessagesIn(msgs, B)
BY DEF MessagesIn, MessageIn, ContentIn, BlockIn, TextIn
----------------------------------------------------------------------------
(* Messages that the proxy adds *)

\* Messages that name only tools of A are a conversation, and the names say so.
LEMMA ConversationFrom ==
    ASSUME NEW A, NEW ms, MessagesIn(ms, A), ms # <<>> PROVE IsConversation(ms)
BY DEF MessagesIn, MessageIn, ContentIn, BlockIn, TextIn, IsConversation, IsContent

\* The tools a text names, as the properties say it.
LEMMA TextNames ==
    ASSUME NEW A, NEW t, IsSeq(t) PROVE TextIn(t, A) <=> ToolNames(t) \subseteq A
BY DEF TextIn, ToolNames

\* A message with one tool use, or none, is regular if a user or an assistant
\* sends it.
LEMMA OneUse ==
    ASSUME NEW m, IsSeq(m.blocks), m.role \in {"user", "assistant"},
           \A i, j \in DOMAIN m.blocks : IsToolUse(m.blocks[i]) /\ IsToolUse(m.blocks[j]) => i = j
    PROVE  RegularMessage(m)
<1> SUFFICES IsInjective(ExtractToolUseIDs(m))
    BY DEF RegularMessage
<1>1. CASE m.str
    <2> DEFINE e == <<>>
    <2>1. DOMAIN e = {}
        OBVIOUS
    <2> HIDE DEF e
    <2>2. IsInjective(e)
        BY <2>1 DEF IsInjective
    <2> QED BY <1>1, <2>2 DEF ExtractToolUseIDs, e
<1>2. CASE ~m.str
    <2> DEFINE I == {n \in DOMAIN m.blocks : IsToolUse(m.blocks[n])}
               r == At(m.blocks, I)
               ids == [n \in DOMAIN r |-> r[n].id]
    <2>1. I \subseteq DOMAIN m.blocks /\ \A i, j \in I : i = j
        OBVIOUS
    <2>2. \E pos : Picks(r, m.blocks, I, Len(m.blocks), pos)
        <3> HIDE DEF I
        <3> QED BY <2>1, AtPicks
    <2>3. PICK pos : Picks(r, m.blocks, I, Len(m.blocks), pos)
        BY <2>2
    <2>4. ExtractToolUseIDs(m) = ids /\ DOMAIN ids = DOMAIN r
        BY <1>2 DEF ExtractToolUseIDs, MapSeq, Keep
    <2> HIDE DEF ids, r, I
    <2>5. IsSeq(r) /\ Len(r) \in Nat /\ DOMAIN r = 1..Len(r) /\ Len(m.blocks) \in Nat
        BY <2>3, SeqFacts DEF Picks
    <2>6. \A k, l \in DOMAIN r : k = l
        <3> SUFFICES ASSUME NEW k \in 1..Len(r), NEW l \in 1..Len(r), k < l PROVE FALSE
            BY <2>5
        <3>1. pos[k] \in I /\ pos[l] \in I /\ pos[k] < pos[l] /\ pos[k] \in 1..Len(m.blocks)
            BY <2>3 DEF Picks
        <3> QED BY <3>1, <2>1, <2>5
    <2> QED BY <2>4, <2>6 DEF IsInjective
<1> QED BY <1>1, <1>2

\* The references that a search returns.
LEMMA FoundText ==
    ASSUME NEW S, IsFiniteSet(S), NEW t, t = MapSeq(SetToSeq(S), LAMBDA x : Fragment("tool", x))
    PROVE  TextIn(t, S)
<1>1. /\ Cardinality(S) \in Nat
      /\ ExistsBijection(1..Cardinality(S), S)
    BY FS_CardinalityType
<1>2. PICK n : n = Cardinality(S) /\ n \in Nat
    BY <1>1
<1>3. \E f \in [1..n -> S] : IsInjective(f)
    BY <1>1, <1>2 DEF ExistsBijection, Bijection, Injection, IsInjective
<1>4. PICK f : f = SetToSeq(S)
    OBVIOUS
<1>5. f \in [1..n -> S]
    BY <1>2, <1>3, <1>4 DEF SetToSeq
<1>6. t = [i \in 1..n |-> Fragment("tool", f[i])]
    BY <1>4, <1>5 DEF MapSeq
<1>7. DOMAIN t = 1..n /\ t = [i \in DOMAIN t |-> t[i]] /\ \A i \in 1..n : t[i].id \in S
    <2>1. DOMAIN t = 1..n /\ \A i \in 1..n : t[i] = Fragment("tool", f[i])
        BY <1>6
    <2>2. t = [i \in DOMAIN t |-> t[i]]
        BY ONLY <1>6
    <2>3. \A x : Fragment("tool", x).id = x
        BY DEF Fragment
    <2>4. \A i \in 1..n : t[i].id \in S
        BY <2>1, <2>3, <1>5
    <2> QED BY <2>1, <2>2, <2>4
<1>8. IsSeq(t)
    BY <1>2, <1>7, FunctionIsSeq
<1> QED BY <1>7, <1>8 DEF TextIn
----------------------------------------------------------------------------
(* What is told, and where *)

\* What a text says is said by one of its fragments.
LEMMA SaidIs ==
    ASSUME NEW t, NEW x
    PROVE  x \in SaidBy(t) <=> \E i \in DOMAIN t : t[i].kind = "said" /\ t[i].id = x
BY DEF SaidBy

\* A text says what another says if it has the other's fragments.
LEMMA SaidMore ==
    ASSUME NEW s, NEW t, \A i \in DOMAIN s : s[i].kind = "said" => \E k \in DOMAIN t : t[k] = s[i]
    PROVE  SaidBy(s) \subseteq SaidBy(t)
BY SaidIs

\* Texts put together say what both say.
LEMMA SaidConcat ==
    ASSUME NEW s, NEW t, IsSeq(s), IsSeq(t)
    PROVE  /\ SaidBy(s) \subseteq SaidBy(s \o t) /\ SaidBy(t) \subseteq SaidBy(s \o t)
           /\ SaidBy(s \o t) \subseteq SaidBy(s) \cup SaidBy(t)
<1>1. PICK u : u = s \o t
    OBVIOUS
<1>2. /\ IsSeq(u) /\ Len(u) = Len(s) + Len(t)
      /\ \A i \in 1..Len(s) : u[i] = s[i]
      /\ \A i \in 1..Len(t) : u[Len(s) + i] = t[i]
    BY <1>1, ConcatIsSeq
<1>3. /\ Len(s) \in Nat /\ DOMAIN s = 1..Len(s) /\ Len(t) \in Nat /\ DOMAIN t = 1..Len(t)
      /\ DOMAIN u = 1..Len(u)
    BY <1>2, SeqFacts
<1>4. \A i \in DOMAIN s : i \in DOMAIN u /\ u[i] = s[i]
    BY <1>2, <1>3
<1>5. \A i \in DOMAIN t : Len(s) + i \in DOMAIN u /\ u[Len(s) + i] = t[i]
    BY <1>2, <1>3
<1>6. SaidBy(s) \subseteq SaidBy(u)
    BY <1>4, SaidMore
<1>7. SaidBy(t) \subseteq SaidBy(u)
    BY <1>5, SaidMore
<1>8. \A i \in DOMAIN u : (\E j \in DOMAIN s : u[i] = s[j]) \/ (\E j \in DOMAIN t : u[i] = t[j])
    BY <1>1, ConcatFrom DEF PutBefore
<1>9. ASSUME NEW x \in SaidBy(u) PROVE x \in SaidBy(s) \cup SaidBy(t)
    <2>1. PICK i \in DOMAIN u : u[i].kind = "said" /\ u[i].id = x
        BY SaidIs
    <2> QED BY <2>1, <1>8, SaidIs
<1> QED BY <1>1, <1>6, <1>7, <1>9

\* The same for any number of texts.
LEMMA SaidFlatten ==
    ASSUME NEW ss, IsSeq(ss), \A i \in DOMAIN ss : IsSeq(ss[i])
    PROVE  /\ \A n \in DOMAIN ss : SaidBy(ss[n]) \subseteq SaidBy(FlattenSeq(ss))
           /\ \A x \in SaidBy(FlattenSeq(ss)) : \E n \in DOMAIN ss : x \in SaidBy(ss[n])
<1>1. PICK u : u = FlattenSeq(ss)
    OBVIOUS
<1>2. Covers(u, ss, Len(ss))
    BY <1>1, FlattenCovers
<1>3. DOMAIN ss = 1..Len(ss)
    BY SeqFacts
<1>4. ASSUME NEW n \in DOMAIN ss PROVE SaidBy(ss[n]) \subseteq SaidBy(u)
    <2>1. \A j \in DOMAIN ss[n] : \E k \in DOMAIN u : u[k] = ss[n][j]
        BY <1>2, <1>3 DEF Covers
    <2> QED BY <2>1, SaidMore
<1>5. ASSUME NEW x \in SaidBy(u) PROVE \E n \in DOMAIN ss : x \in SaidBy(ss[n])
    <2>1. PICK k \in DOMAIN u : u[k].kind = "said" /\ u[k].id = x
        BY SaidIs
    <2>2. PICK n \in DOMAIN ss : \E j \in DOMAIN ss[n] : u[k] = ss[n][j]
        BY <1>2, <1>3 DEF Covers
    <2> QED BY <2>1, <2>2, SaidIs
<1> QED BY <1>1, <1>4, <1>5

\* CleanCurrentText takes nothing out that the client said, and adds nothing.
LEMMA SaidCleaned == ASSUME NEW t, IsSeq(t) PROVE SaidBy(CleanCurrentText(t)) = SaidBy(t)
<1> DEFINE I == {n \in DOMAIN t : t[n].kind # "mcp"}
<1>1. CleanCurrentText(t) = At(t, I) /\ I \subseteq DOMAIN t
    BY DEF CleanCurrentText, Keep
<1>2. \A i \in DOMAIN t : t[i].kind = "said" => i \in I
    OBVIOUS
<1> HIDE DEF I
<1>3. \A i \in I : \E k \in DOMAIN At(t, I) : At(t, I)[k] = t[i]
    BY <1>1, AtFacts
<1>4. SaidBy(t) \subseteq SaidBy(At(t, I))
    BY <1>2, <1>3, SaidMore
<1>5. \A k \in DOMAIN At(t, I) : \E i \in I : At(t, I)[k] = t[i]
    BY <1>1, AtFacts
<1>6. SaidBy(At(t, I)) \subseteq SaidBy(t)
    BY <1>1, <1>5, SaidMore
<1> QED BY <1>1, <1>4, <1>6

\* What is said in a content is said in a block of it.
LEMMA SaysIs ==
    ASSUME NEW blocks, NEW x
    PROVE  x \in Says(blocks) <=> \E k \in DOMAIN blocks : x \in SaidBy(blocks[k].text)
BY DEF Says

\* Nothing is said by nobody.
LEMMA NothingSaid == ASSUME NEW t, \A i \in DOMAIN t : t[i].kind # "said" PROVE SaidBy(t) = {}
BY SaidIs

\* Of a block only the text is taken.
LEMMA BlockSays == ASSUME NEW b PROVE SaidBy(BlockText(b)) \subseteq SaidBy(b.text)
<1>1. CASE BlockText(b) = b.text
    BY <1>1
<1>2. CASE BlockText(b) = <<>>
    <2>1. PICK e : e = <<>>
        OBVIOUS
    <2>2. DOMAIN e = {}
        BY <2>1
    <2>3. SaidBy(e) = {}
        BY <2>2, NothingSaid
    <2> QED BY <2>1, <2>3, <1>2
<1>3. CASE BlockText(b) = <<Fragment("unknown", b.id)>>
    <2>1. PICK f : f = Fragment("unknown", b.id)
        OBVIOUS
    <2>2. f.kind # "said"
        BY <2>1 DEF Fragment
    <2>3. PICK e : e = <<f>>
        OBVIOUS
    <2>4. DOMAIN e = {1} /\ e[1] = f
        BY <2>3
    <2>5. SaidBy(e) = {}
        BY <2>2, <2>4, NothingSaid
    <2> QED BY <2>1, <2>3, <2>5, <1>3
<1> QED BY <1>1, <1>2, <1>3 DEF BlockText

\* The text of a message says what its text blocks say, and nothing else.
LEMMA SaidInText ==
    ASSUME NEW A, NEW m, MessageIn(m, A)
    PROVE  /\ \A k \in DOMAIN m.blocks : m.blocks[k].type = "text" =>
                 SaidBy(m.blocks[k].text) \subseteq SaidBy(ExtractTextContent(m))
           /\ SaidBy(ExtractTextContent(m)) \subseteq Says(m.blocks)
<1> DEFINE ss == [n \in DOMAIN m.blocks |-> BlockText(m.blocks[n])]
<1>1. IsSeq(m.blocks)
    BY DEF MessageIn, ContentIn
<1>2. IsSeq(ss) /\ DOMAIN ss = DOMAIN m.blocks
    <2>1. ss = [n \in DOMAIN m.blocks |-> ss[n]]
        OBVIOUS
    <2> HIDE DEF ss
    <2> QED BY <2>1, <1>1, MapIsSeq
<1>3. ASSUME NEW n \in DOMAIN ss PROVE IsSeq(ss[n]) /\ SaidBy(ss[n]) \subseteq SaidBy(m.blocks[n].text)
    <2>1. ss[n] = BlockText(m.blocks[n]) /\ IsSeq(m.blocks[n].text)
        BY <1>2 DEF MessageIn, ContentIn, BlockIn, TextIn
    <2> HIDE DEF ss
    <2>2. IsSeq(ss[n])
        BY <2>1, SingleIsSeq DEF BlockText
    <2> QED BY <2>1, <2>2, BlockSays
<1>4. ExtractTextContent(m) = FlattenSeq(ss)
    BY DEF ExtractTextContent, MapSeq
<1>5. \A k \in DOMAIN m.blocks : m.blocks[k].type = "text" => ss[k] = m.blocks[k].text
    BY DEF BlockText, IsToolUse, IsToolResult
<1> HIDE DEF ss
<1>6. /\ \A n \in DOMAIN ss : SaidBy(ss[n]) \subseteq SaidBy(ExtractTextContent(m))
      /\ \A x \in SaidBy(ExtractTextContent(m)) : \E n \in DOMAIN ss : x \in SaidBy(ss[n])
    BY <1>2, <1>3, <1>4, SaidFlatten
<1>7. \A k \in DOMAIN m.blocks : m.blocks[k].type = "text" =>
         SaidBy(m.blocks[k].text) \subseteq SaidBy(ExtractTextContent(m))
    BY <1>2, <1>5, <1>6
<1>8. ASSUME NEW x \in SaidBy(ExtractTextContent(m)) PROVE x \in Says(m.blocks)
    BY <1>2, <1>3, <1>6, SaysIs
<1> QED BY <1>7, <1>8

\* The results of a message are all there, and for different uses if they were.
LEMMA ResultsExtracted ==
    ASSUME NEW A, NEW m, MessageIn(m, A), ~m.str, NEW rs, rs = ExtractToolResults(m)
    PROVE  /\ IsSeq(rs)
           /\ \A k \in DOMAIN m.blocks : IsToolResult(m.blocks[k]) =>
                 \E n \in DOMAIN rs : rs[n].text = m.blocks[k].text
           /\ \A n \in DOMAIN rs : \E k \in DOMAIN m.blocks : rs[n].text = m.blocks[k].text
           /\ OneAnswerEach(m) => \A i, j \in DOMAIN rs : rs[i].id = rs[j].id => i = j
<1> DEFINE I == {n \in DOMAIN m.blocks : IsToolResult(m.blocks[n])}
           t == At(m.blocks, I)
<1>1. I \subseteq DOMAIN m.blocks /\ IsSeq(m.blocks) /\ \A k \in DOMAIN m.blocks : k \in I <=> IsToolResult(m.blocks[k])
    BY DEF MessageIn, ContentIn
<1>2. rs = [n \in DOMAIN t |-> [id |-> t[n].id, text |-> t[n].text]]
    BY DEF ExtractToolResults, MapSeq, Keep
<1> HIDE DEF I
<1>3. PICK pos : Picks(t, m.blocks, I, Len(m.blocks), pos)
    BY <1>1, AtPicks
<1> HIDE DEF t
<1>4. rs = [n \in DOMAIN t |-> rs[n]] /\ \A n \in DOMAIN t : rs[n].id = t[n].id /\ rs[n].text = t[n].text
    BY <1>2
<1>5. IsSeq(t) /\ Len(t) \in Nat /\ DOMAIN t = 1..Len(t) /\ Len(m.blocks) \in Nat /\ DOMAIN m.blocks = 1..Len(m.blocks)
    BY <1>1, <1>3, SeqFacts DEF Picks
<1>6. IsSeq(rs) /\ DOMAIN rs = DOMAIN t
    BY <1>4, <1>5, MapIsSeq
<1>7. ASSUME NEW k \in DOMAIN m.blocks, IsToolResult(m.blocks[k])
      PROVE  \E n \in DOMAIN rs : rs[n].text = m.blocks[k].text
    <2>1. PICK n \in 1..Len(t) : pos[n] = k
        BY <1>1, <1>3, <1>5, <1>7 DEF Picks
    <2>2. t[n] = m.blocks[k]
        BY <2>1, <1>3 DEF Picks
    <2> QED BY <2>2, <1>4, <1>5, <1>6
<1>8. ASSUME OneAnswerEach(m), NEW i \in DOMAIN rs, NEW j \in DOMAIN rs, rs[i].id = rs[j].id, i < j PROVE FALSE
    <2>1. /\ pos[i] \in I /\ pos[j] \in I /\ pos[i] < pos[j]
          /\ t[i] = m.blocks[pos[i]] /\ t[j] = m.blocks[pos[j]] /\ pos[i] \in 1..Len(m.blocks)
        BY <1>3, <1>5, <1>6, <1>8 DEF Picks
    <2>2. m.blocks[pos[i]].id = m.blocks[pos[j]].id
        BY <2>1, <1>4, <1>6, <1>8
    <2>3. pos[i] = pos[j]
        BY <2>1, <2>2, <1>1, <1>8 DEF OneAnswerEach
    <2> QED BY <2>1, <2>3, <1>5
<1>9. ASSUME OneAnswerEach(m), NEW i \in DOMAIN rs, NEW j \in DOMAIN rs, rs[i].id = rs[j].id PROVE i = j
    <2>1. i \in Nat /\ j \in Nat
        BY <1>5, <1>6
    <2>2. ~(i < j) /\ ~(j < i)
        BY <1>8, <1>9
    <2> QED BY <2>1, <2>2
<1>10. ASSUME NEW n \in DOMAIN rs PROVE \E k \in DOMAIN m.blocks : rs[n].text = m.blocks[k].text
    <2>1. pos[n] \in DOMAIN m.blocks /\ t[n] = m.blocks[pos[n]] /\ rs[n].text = t[n].text
        BY <1>3, <1>4, <1>5, <1>6 DEF Picks
    <2> QED BY <2>1
<1> QED BY <1>6, <1>7, <1>9, <1>10

\* Of different results none is dropped by the reordering.
LEMMA ReorderedKeeps ==
    ASSUME NEW rs, IsSeq(rs), \A i, j \in DOMAIN rs : rs[i].id = rs[j].id => i = j,
           NEW ids, IsSeq(ids), NEW n \in DOMAIN rs
    PROVE  \E k \in DOMAIN ReorderToolResults(rs, ids) : ReorderToolResults(rs, ids)[k] = rs[n]
<1>1. CASE Len(rs) <= 1 \/ ids = <<>>
    BY <1>1, Reordered
<1>2. CASE ~(Len(rs) <= 1 \/ ids = <<>>)
    <2> DEFINE I == {i \in DOMAIN ids : LastResult(rs, ids[i]) # 0}
               J == {i \in DOMAIN rs : ~Contains(ids, rs[i].id)}
    <2>1. PICK o : o = Ordered(rs, ids)
        OBVIOUS
    <2>2. PICK u : u = InOrderOf(rs, ids)
        OBVIOUS
    <2>3. PICK v : v = Others(rs, ids)
        OBVIOUS
    <2>4. PICK w : w = u \o v
        OBVIOUS
    <2>5. ReorderToolResults(rs, ids) = w
        BY <1>2, <2>2, <2>3, <2>4, Reordered
    <2>6. IsSeq(u) /\ IsSeq(v) /\ DOMAIN u = DOMAIN o
        BY <2>1, <2>2, <2>3, InOrderOfFacts
    <2>7. /\ IsSeq(w) /\ Len(w) = Len(u) + Len(v)
          /\ \A i \in 1..Len(u) : w[i] = u[i]
          /\ \A i \in 1..Len(v) : w[Len(u) + i] = v[i]
        BY <2>4, <2>6, ConcatIsSeq
    <2>8. /\ Len(u) \in Nat /\ DOMAIN u = 1..Len(u) /\ Len(v) \in Nat /\ DOMAIN v = 1..Len(v)
          /\ DOMAIN w = 1..Len(w) /\ Len(rs) \in Nat /\ DOMAIN rs = 1..Len(rs) /\ DOMAIN ids = 1..Len(ids)
        BY <2>6, <2>7, SeqFacts
    <2>9. CASE n \in J
        <3>1. v = At(rs, J) /\ J \subseteq DOMAIN rs
            BY <2>3 DEF Others
        <3> HIDE DEF J
        <3>2. PICK k \in DOMAIN v : v[k] = rs[n]
            BY <3>1, <2>9, AtFacts
        <3>3. Len(u) + k \in DOMAIN w /\ w[Len(u) + k] = rs[n]
            BY <3>2, <2>7, <2>8
        <3> QED BY <3>3, <2>5
    <2>10. CASE n \notin J
        <3>1. Contains(ids, rs[n].id)
            BY <2>10
        <3>2. PICK p \in DOMAIN ids : ids[p] = rs[n].id
            BY <3>1, <2>8 DEF Contains
        <3>3. LastResult(rs, rs[n].id) = n
            <4>1. {i \in 1..Len(rs) : rs[i].id = rs[n].id} = {n}
                BY <2>8
            <4>2. LastResult(rs, rs[n].id) = Max({n})
                BY <4>1 DEF LastResult, SelectLastInSeq
            <4>3. n \in 1..Len(rs) /\ {n} \subseteq 1..Len(rs)
                BY <2>8
            <4>4. Max({n}) \in {n}
                BY <4>3, <2>8, MaxIn
            <4> QED BY <4>2, <4>4
        <3>4. p \in I
            BY <3>2, <3>3, <2>8
        <3>5. o = At(ids, I) /\ I \subseteq DOMAIN ids
            BY <2>1 DEF Ordered
        <3> HIDE DEF I
        <3>6. PICK k \in DOMAIN o : o[k] = ids[p]
            BY <3>4, <3>5, AtFacts
        <3>7. u[k] = rs[LastResult(rs, o[k])]
            BY <2>1, <2>2, <3>6 DEF InOrderOf
        <3>8. k \in DOMAIN w /\ w[k] = rs[n]
            BY <3>2, <3>3, <3>6, <3>7, <2>6, <2>7, <2>8
        <3> QED BY <3>8, <2>5
    <2> QED BY <2>9, <2>10
<1> QED BY <1>1, <1>2

\* An element of what a message tells.
LEMMA TellsIs ==
    ASSUME NEW m, NEW x
    PROVE  x \in Tells(m) <=> \E k \in DOMAIN m.blocks : Telling(m, k) /\ x \in SaidBy(m.blocks[k].text)
BY DEF Tells

\* Blocks that say as much tell as much.
LEMMA TellsMore ==
    ASSUME NEW m, NEW r, DOMAIN r.blocks = DOMAIN m.blocks,
           \A k \in DOMAIN m.blocks : Telling(m, k) =>
              Telling(r, k) /\ SaidBy(m.blocks[k].text) \subseteq SaidBy(r.blocks[k].text)
    PROVE  Tells(m) \subseteq Tells(r)
<1> SUFFICES ASSUME NEW x \in Tells(m) PROVE x \in Tells(r)
    OBVIOUS
<1>1. PICK k \in DOMAIN m.blocks : Telling(m, k) /\ x \in SaidBy(m.blocks[k].text)
    BY TellsIs
<1>2. k \in DOMAIN r.blocks /\ Telling(r, k) /\ x \in SaidBy(r.blocks[k].text)
    BY <1>1
<1> QED BY <1>2, TellsIs

\* A string tells what its text says.
LEMMA StringTells ==
    ASSUME NEW role, NEW text
    PROVE  /\ SaidBy(text) \subseteq Tells(StringMessage(role, text)) /\ OneAnswerEach(StringMessage(role, text))
           /\ Says(StringMessage(role, text).blocks) = SaidBy(text)
<1>1. PICK m : m = StringMessage(role, text)
    OBVIOUS
<1>2. DOMAIN m.blocks = {1} /\ m.blocks[1].type = "text" /\ m.blocks[1].text = text
    <2>1. PICK b : b = TextBlock(text)
        OBVIOUS
    <2>2. b.type = "text" /\ b.text = text
        BY <2>1 DEF TextBlock, Block
    <2>3. PICK c : c = <<b>>
        OBVIOUS
    <2>4. DOMAIN c = {1} /\ c[1] = b
        BY <2>3
    <2>5. m.blocks = c
        BY <1>1, <2>1, <2>3 DEF StringMessage
    <2> QED BY <2>2, <2>4, <2>5
<1>3. SaidBy(text) \subseteq Tells(m)
    BY <1>2, TellsIs DEF Telling
<1>4. OneAnswerEach(m)
    BY <1>2 DEF OneAnswerEach
<1>5. Says(m.blocks) = SaidBy(text)
    <2>1. ASSUME NEW x PROVE x \in Says(m.blocks) <=> x \in SaidBy(text)
        BY ONLY <1>2, SaysIs
    <2> QED BY ONLY <2>1
<1> QED BY <1>1, <1>3, <1>4, <1>5

\* A filler says nothing.
LEMMA FillerSays == ASSUME NEW role PROVE Says(StringMessage(role, Empty).blocks) = {}
<1>1. PICK f : f = Fragment("synthetic", "(empty)")
    OBVIOUS
<1>2. f.kind # "said"
    BY <1>1 DEF Fragment
<1>3. PICK e : e = <<f>>
    OBVIOUS
<1>4. DOMAIN e = {1} /\ e[1] = f
    BY <1>3
<1>5. SaidBy(e) = {}
    BY <1>2, <1>4, NothingSaid
<1>6. Empty = e
    BY <1>1, <1>3 DEF Empty
<1> QED BY <1>5, <1>6, StringTells

\* A plain message tells what its text says.
LEMMA PlainTells ==
    ASSUME NEW A, NEW m, MessageIn(m, A), IsPlainTextContent(m)
    PROVE  Tells(m) \subseteq SaidBy(ExtractTextContent(m))
<1> SUFFICES ASSUME NEW x \in Tells(m) PROVE x \in SaidBy(ExtractTextContent(m))
    OBVIOUS
<1>1. PICK k \in DOMAIN m.blocks : Telling(m, k) /\ x \in SaidBy(m.blocks[k].text)
    BY TellsIs
<1>2. m.blocks[k].type = "text"
    BY <1>1 DEF Telling, IsPlainTextContent
<1> QED BY <1>1, <1>2, SaidInText

\* A merged message tells what both of its parts told.
LEMMA MergeTells ==
    ASSUME NEW A, NEW a, MessageIn(a, A), IsPlainTextContent(a), NEW b, MessageIn(b, A), IsPlainTextContent(b)
    PROVE  /\ Tells(a) \subseteq Tells(Merge(a, b)) /\ Tells(b) \subseteq Tells(Merge(a, b))
           /\ OneAnswerEach(Merge(a, b)) /\ Speaker(Merge(a, b)) = Speaker(a)
           /\ Says(Merge(a, b).blocks) \subseteq Says(a.blocks) \cup Says(b.blocks)
<1>1. PICK s, t : s = ExtractTextContent(a) /\ t = ExtractTextContent(b)
    OBVIOUS
<1>2. IsSeq(s) /\ IsSeq(t)
    BY <1>1, MessageText DEF TextIn
<1>3. Merge(a, b) = StringMessage(a.role, s \o t)
    BY <1>1 DEF Merge
<1>4. /\ SaidBy(s \o t) \subseteq Tells(Merge(a, b)) /\ OneAnswerEach(Merge(a, b))
      /\ Says(Merge(a, b).blocks) = SaidBy(s \o t)
    BY <1>3, StringTells
<1>5. Tells(a) \subseteq SaidBy(s) /\ Tells(b) \subseteq SaidBy(t)
    BY <1>1, PlainTells
<1>6. /\ SaidBy(s) \subseteq SaidBy(s \o t) /\ SaidBy(t) \subseteq SaidBy(s \o t)
      /\ SaidBy(s \o t) \subseteq SaidBy(s) \cup SaidBy(t)
    BY <1>2, SaidConcat
<1>7. Merge(a, b).role = a.role
    BY <1>3, StringMessageFacts
<1>8. SaidBy(s) \subseteq Says(a.blocks) /\ SaidBy(t) \subseteq Says(b.blocks)
    BY <1>1, SaidInText
<1> QED BY <1>4, <1>5, <1>6, <1>7, <1>8 DEF Speaker

\* f says where the messages of ms are in ns: in their order, said by the same
\* side, and telling what they told; and nothing else is said in ns.
Moved(ms, ns, f) ==
    /\ DOMAIN f = DOMAIN ms
    /\ \A n \in DOMAIN ms : /\ f[n] \in DOMAIN ns
                            /\ Speaker(ns[f[n]]) = Speaker(ms[n])
                            /\ Tells(ms[n]) \subseteq Tells(ns[f[n]])
    /\ \A n, k \in DOMAIN ms : n <= k => f[n] <= f[k]
    /\ \A i \in DOMAIN ns : \A x \in Says(ns[i].blocks) :
          \E n \in DOMAIN ms : f[n] = i /\ x \in Says(ms[n].blocks)

\* What moves twice moves.
LEMMA MovedTwice ==
    ASSUME NEW ms, NEW ns, NEW os, NEW f, NEW g, Moved(ms, ns, f), Moved(ns, os, g)
    PROVE  \E h : Moved(ms, os, h)
<1> DEFINE h == [n \in DOMAIN ms |-> g[f[n]]]
<1>1. DOMAIN h = DOMAIN ms /\ \A n \in DOMAIN ms : h[n] = g[f[n]]
    OBVIOUS
<1> HIDE DEF h
<1>2. ASSUME NEW n \in DOMAIN ms
      PROVE  h[n] \in DOMAIN os /\ Speaker(os[h[n]]) = Speaker(ms[n]) /\ Tells(ms[n]) \subseteq Tells(os[h[n]])
    <2>1. f[n] \in DOMAIN ns /\ Speaker(ns[f[n]]) = Speaker(ms[n]) /\ Tells(ms[n]) \subseteq Tells(ns[f[n]])
        BY DEF Moved
    <2>2. /\ g[f[n]] \in DOMAIN os /\ Speaker(os[g[f[n]]]) = Speaker(ns[f[n]])
          /\ Tells(ns[f[n]]) \subseteq Tells(os[g[f[n]]])
        BY <2>1 DEF Moved
    <2> QED BY <2>1, <2>2, <1>1
<1>3. ASSUME NEW n \in DOMAIN ms, NEW k \in DOMAIN ms, n <= k PROVE h[n] <= h[k]
    BY <1>1, <1>3 DEF Moved
<1>4. ASSUME NEW i \in DOMAIN os, NEW x \in Says(os[i].blocks)
      PROVE  \E n \in DOMAIN ms : h[n] = i /\ x \in Says(ms[n].blocks)
    <2>1. PICK k \in DOMAIN ns : g[k] = i /\ x \in Says(ns[k].blocks)
        BY DEF Moved
    <2>2. PICK n \in DOMAIN ms : f[n] = k /\ x \in Says(ms[n].blocks)
        BY <2>1 DEF Moved
    <2> QED BY <2>1, <2>2, <1>1
<1>5. Moved(ms, os, h)
    BY <1>1, <1>2, <1>3, <1>4 DEF Moved
<1> QED BY <1>5

\* Messages that stay where they are.
LEMMA MovedInPlace ==
    ASSUME NEW ms, NEW ns, DOMAIN ns = DOMAIN ms,
           \A n \in DOMAIN ms : /\ Speaker(ns[n]) = Speaker(ms[n]) /\ Tells(ms[n]) \subseteq Tells(ns[n])
                                /\ Says(ns[n].blocks) \subseteq Says(ms[n].blocks)
    PROVE  \E f : Moved(ms, ns, f)
<1> DEFINE f == [n \in DOMAIN ms |-> n]
<1>1. DOMAIN f = DOMAIN ms /\ \A n \in DOMAIN ms : f[n] = n
    OBVIOUS
<1> HIDE DEF f
<1>2. Moved(ms, ns, f)
    BY <1>1 DEF Moved
<1> QED BY <1>2

\* A block that is turned into text says what it said, unless it is a tool use.
LEMMA TextualizedSays ==
    ASSUME NEW A, NEW b, BlockIn(b, A), NEW c, c = TextualizeBlock(b)
    PROVE  /\ IsToolResult(b) => c.type = "text" /\ SaidBy(b.text) \subseteq SaidBy(c.text)
           /\ ~IsToolResult(b) /\ ~IsToolUse(b) => c = b
           /\ SaidBy(c.text) \subseteq SaidBy(b.text)
<1>1. ASSUME NEW kind \in {"use", "result"} PROVE SaidBy(<<Fragment(kind, b.id)>>) = {} /\ IsSeq(<<Fragment(kind, b.id)>>)
    <2>1. PICK f : f = Fragment(kind, b.id)
        OBVIOUS
    <2>2. f.kind # "said"
        BY <2>1, <1>1 DEF Fragment
    <2>3. PICK s : s = <<f>>
        OBVIOUS
    <2>4. DOMAIN s = {1} /\ s[1] = f
        BY <2>3
    <2>5. IsSeq(s)
        BY <2>3, SingleIsSeq
    <2>6. SaidBy(s) = {}
        BY <2>2, <2>4, NothingSaid
    <2> QED BY <2>1, <2>3, <2>5, <2>6
<1>2. ASSUME IsToolResult(b) PROVE c.type = "text" /\ SaidBy(c.text) = SaidBy(b.text)
    <2>1. PICK s : s = <<Fragment("result", b.id)>>
        OBVIOUS
    <2>2. IsSeq(s) /\ IsSeq(b.text) /\ SaidBy(s) = {}
        BY <2>1, <1>1 DEF BlockIn, TextIn
    <2>3. c.type = "text" /\ c.text = s \o b.text
        BY <1>2, <2>1 DEF TextualizeBlock, IsToolUse, IsToolResult, TextBlock, Block
    <2>4. SaidBy(b.text) \subseteq SaidBy(s \o b.text) /\ SaidBy(s \o b.text) \subseteq SaidBy(s) \cup SaidBy(b.text)
        BY <2>2, SaidConcat
    <2> QED BY <2>2, <2>3, <2>4
<1>3. ASSUME ~IsToolResult(b), ~IsToolUse(b) PROVE c = b
    BY <1>3 DEF TextualizeBlock
<1>4. ASSUME IsToolUse(b) PROVE SaidBy(c.text) = {}
    <2>1. c.text = <<Fragment("use", b.id)>>
        BY <1>4 DEF TextualizeBlock, TextBlock, Block
    <2> QED BY <2>1, <1>1
<1> QED BY <1>2, <1>3, <1>4

\* TextualizeToolContent moves nothing.
LEMMA TextualizedMoved ==
    ASSUME NEW A, NEW msgs, MessagesIn(msgs, A), NEW hasTools \in BOOLEAN,
           NEW t, DOMAIN t = DOMAIN msgs, \A n \in DOMAIN msgs : TextualizedFrom(t[n], msgs, hasTools, n)
    PROVE  (\E f : Moved(msgs, t, f)) /\ (AllApart(msgs) => AllApart(t))
<1>1. ASSUME NEW n \in DOMAIN msgs
      PROVE  /\ Speaker(t[n]) = Speaker(msgs[n]) /\ Tells(msgs[n]) \subseteq Tells(t[n])
             /\ OneAnswerEach(msgs[n]) => OneAnswerEach(t[n])
             /\ Says(t[n].blocks) \subseteq Says(msgs[n].blocks)
    <2>1. PICK m, r : m = msgs[n] /\ r = t[n]
        OBVIOUS
    <2>2. TextualizedFrom(r, msgs, hasTools, n) /\ r.role = m.role /\ MessageIn(m, A)
        BY <2>1 DEF TextualizedFrom, MessagesIn
    <2>3. CASE r = m
        BY <2>1, <2>3
    <2>4. CASE r # m
        <3>1. /\ DOMAIN r.blocks = DOMAIN m.blocks /\ ~m.str /\ ~r.str
              /\ \A k \in DOMAIN m.blocks : r.blocks[k] = m.blocks[k] \/ r.blocks[k] = TextualizeBlock(m.blocks[k])
            BY <2>1, <2>2, <2>4 DEF TextualizedFrom, OrphansOut, AllOut
        <3>2. ASSUME NEW k \in DOMAIN m.blocks, Telling(m, k)
              PROVE  Telling(r, k) /\ SaidBy(m.blocks[k].text) \subseteq SaidBy(r.blocks[k].text)
            <4>1. CASE r.blocks[k] = m.blocks[k]
                BY <4>1, <3>1, <3>2, <2>2 DEF Telling
            <4>2. CASE r.blocks[k] = TextualizeBlock(m.blocks[k])
                <5>1. BlockIn(m.blocks[k], A)
                    BY <2>2 DEF MessageIn, ContentIn
                <5>2. CASE IsToolResult(m.blocks[k])
                    <6>1. r.blocks[k].type = "text" /\ SaidBy(m.blocks[k].text) \subseteq SaidBy(r.blocks[k].text)
                        BY <5>1, <5>2, <4>2, TextualizedSays
                    <6> QED BY <6>1 DEF Telling
                <5>3. CASE ~IsToolResult(m.blocks[k])
                    <6>1. m.blocks[k].type = "text" /\ ~IsToolUse(m.blocks[k])
                        BY <5>3, <3>2 DEF Telling, IsToolUse
                    <6>2. r.blocks[k] = m.blocks[k]
                        BY <6>1, <5>1, <5>3, <4>2, TextualizedSays
                    <6> QED BY <6>1, <6>2 DEF Telling
                <5> QED BY <5>2, <5>3
            <4> QED BY <4>1, <4>2, <3>1
        <3>3. Tells(m) \subseteq Tells(r)
            BY <3>1, <3>2, TellsMore
        <3>4. \A k \in DOMAIN m.blocks : IsToolResult(r.blocks[k]) => r.blocks[k] = m.blocks[k]
            BY <3>1, TextualizedPlain
        <3>5. OneAnswerEach(m) => OneAnswerEach(r)
            BY <3>1, <3>4 DEF OneAnswerEach
        <3>6. ASSUME NEW k \in DOMAIN m.blocks PROVE SaidBy(r.blocks[k].text) \subseteq SaidBy(m.blocks[k].text)
            <4>1. BlockIn(m.blocks[k], A)
                BY <2>2 DEF MessageIn, ContentIn
            <4> QED BY <4>1, <3>1, TextualizedSays
        <3>7. Says(r.blocks) \subseteq Says(m.blocks)
            BY <3>1, <3>6, SaysIs
        <3> QED BY <3>3, <3>5, <3>7, <2>1, <2>2 DEF Speaker
    <2> QED BY <2>3, <2>4
<1>2. \E f : Moved(msgs, t, f)
    BY <1>1, MovedInPlace
<1>3. AllApart(msgs) => AllApart(t)
    BY <1>1 DEF AllApart
<1> QED BY <1>2, <1>3

\* NormalizeRoles moves nothing.
LEMMA RolesMoved ==
    ASSUME NEW A, NEW t, MessagesIn(t, A), NEW r, r = NormalizeRoles(t)
    PROVE  (\E f : Moved(t, r, f)) /\ (AllApart(t) => AllApart(r))
<1>1. /\ DOMAIN r = DOMAIN t
      /\ \A n \in DOMAIN t : /\ r[n].str = t[n].str /\ r[n].blocks = t[n].blocks
                             /\ r[n].role = IF t[n].role \in {"user", "assistant"} THEN t[n].role ELSE "user"
    BY RolesNormalized
<1>2. ASSUME NEW n \in DOMAIN t
      PROVE  /\ Speaker(r[n]) = Speaker(t[n]) /\ Tells(t[n]) \subseteq Tells(r[n])
             /\ Says(r[n].blocks) \subseteq Says(t[n].blocks)
    <2>1. Speaker(r[n]) = Speaker(t[n]) /\ (r[n].role = "assistant" <=> t[n].role = "assistant")
        BY <1>1 DEF Speaker
    <2>2. \A k \in DOMAIN t[n].blocks : Telling(t[n], k) => Telling(r[n], k)
        BY <1>1, <2>1 DEF Telling
    <2>3. Tells(t[n]) \subseteq Tells(r[n])
        BY <1>1, <2>2, TellsMore
    <2>4. r[n].blocks = t[n].blocks
        BY <1>1
    <2> QED BY <2>1, <2>3, <2>4
<1>3. AllApart(t) => AllApart(r)
    BY <1>1 DEF AllApart, OneAnswerEach
<1> QED BY <1>1, <1>2, <1>3, MovedInPlace

\* From the messages d to the messages e by one more: it is told at the end, and
\* what was told before is told where it was, and nothing else.
Grows(d, e, m) ==
    /\ IsSeq(d) /\ IsSeq(e) /\ e # <<>> /\ Len(d) <= Len(e)
    /\ \A i \in DOMAIN d : Speaker(e[i]) = Speaker(d[i]) /\ Tells(d[i]) \subseteq Tells(e[i])
    /\ Speaker(e[Len(e)]) = Speaker(m) /\ Tells(m) \subseteq Tells(e[Len(e)])
    /\ AllApart(d) /\ OneAnswerEach(m) => AllApart(e)
    /\ \A i \in DOMAIN e : \A x \in Says(e[i].blocks) :
          (i \in DOMAIN d /\ x \in Says(d[i].blocks)) \/ (i = Len(e) /\ x \in Says(m.blocks))

\* What grows message by message tells all of them, in their order.
LEMMA GrownMoved ==
    ASSUME NEW ms, IsSeq(ms), ms # <<>>, NEW f, f[0] = <<>>,
           \A i \in 1..Len(ms) : Grows(f[i - 1], f[i], ms[i])
    PROVE  (\E g : Moved(ms, f[Len(ms)], g)) /\ (AllApart(ms) => AllApart(f[Len(ms)]))
<1>1. Len(ms) \in Nat \ {0} /\ DOMAIN ms = 1..Len(ms)
    BY SeqFacts
<1> DEFINE P(n) ==
             /\ IsSeq(f[n])
             /\ \A k \in 1..n : /\ Len(f[k]) \in DOMAIN f[n] /\ Len(f[k]) <= Len(f[n])
                                /\ Speaker(f[n][Len(f[k])]) = Speaker(ms[k])
                                /\ Tells(ms[k]) \subseteq Tells(f[n][Len(f[k])])
             /\ AllApart(ms) => AllApart(f[n])
             /\ \A i \in DOMAIN f[n] : \A x \in Says(f[n][i].blocks) :
                   \E k \in 1..n : Len(f[k]) = i /\ x \in Says(ms[k].blocks)
           T == {n \in Nat : P(n)}
<1>2. 0 \in T
    <2>1. PICK e : e = <<>>
        OBVIOUS
    <2>2. IsSeq(e) /\ f[0] = e
        BY <2>1, SingleIsSeq
    <2>3. DOMAIN e = {}
        BY <2>1
    <2>4. AllApart(e)
        BY <2>3 DEF AllApart
    <2> QED BY <2>2, <2>3, <2>4
<1>3. ASSUME NEW n \in 0..(Len(ms) - 1), n \in T PROVE n + 1 \in T
    <2>1. n + 1 \in 1..Len(ms) /\ (n + 1) - 1 = n /\ n \in Nat
        BY <1>1
    <2>2. PICK d, e, m : d = f[n] /\ e = f[n + 1] /\ m = ms[n + 1]
        OBVIOUS
    <2>3. Grows(d, e, m) /\ P(n)
        BY <2>1, <2>2, <1>3
    <2>4. /\ IsSeq(e) /\ Len(d) \in Nat /\ DOMAIN d = 1..Len(d) /\ Len(e) \in Nat /\ DOMAIN e = 1..Len(e)
          /\ Len(e) # 0 /\ Len(d) <= Len(e)
        BY <2>3, SeqFacts DEF Grows
    <2>5. ASSUME NEW k \in 1..(n + 1)
          PROVE  /\ Len(f[k]) \in DOMAIN e /\ Len(f[k]) <= Len(e)
                 /\ Speaker(e[Len(f[k])]) = Speaker(ms[k]) /\ Tells(ms[k]) \subseteq Tells(e[Len(f[k])])
        <3>1. CASE k = n + 1
            <4>1. f[k] = e /\ ms[k] = m
                BY <3>1, <2>2
            <4>2. Len(e) \in DOMAIN e
                BY <2>4
            <4> QED BY <4>1, <4>2, <2>3, <2>4 DEF Grows
        <3>2. CASE k # n + 1
            <4>1. k \in 1..n
                BY <3>2, <2>1
            <4>2. PICK l : l = Len(f[k])
                OBVIOUS
            <4>3. l \in DOMAIN d /\ Speaker(d[l]) = Speaker(ms[k]) /\ Tells(ms[k]) \subseteq Tells(d[l])
                BY <4>1, <4>2, <2>2, <2>3
            <4>4. Speaker(e[l]) = Speaker(d[l]) /\ Tells(d[l]) \subseteq Tells(e[l])
                BY <4>3, <2>3 DEF Grows
            <4>5. l \in DOMAIN e /\ l <= Len(e)
                BY <4>3, <2>4
            <4> QED BY <4>2, <4>3, <4>4, <4>5
        <3> QED BY <3>1, <3>2
    <2>6. AllApart(ms) => AllApart(e)
        <3>1. AllApart(ms) => OneAnswerEach(m)
            BY <2>1, <2>2, <1>1 DEF AllApart
        <3> QED BY <3>1, <2>2, <2>3 DEF Grows
    <2>7. ASSUME NEW i \in DOMAIN e, NEW x \in Says(e[i].blocks)
          PROVE  \E k \in 1..(n + 1) : Len(f[k]) = i /\ x \in Says(ms[k].blocks)
        <3>1. CASE i \in DOMAIN d /\ x \in Says(d[i].blocks)
            <4>1. PICK k \in 1..n : Len(f[k]) = i /\ x \in Says(ms[k].blocks)
                BY <3>1, <2>2, <2>3
            <4>2. k \in 1..(n + 1)
                BY <2>1
            <4> QED BY <4>1, <4>2
        <3>2. CASE i = Len(e) /\ x \in Says(m.blocks)
            <4>1. n + 1 \in 1..(n + 1)
                BY <2>1
            <4> QED BY <4>1, <3>2, <2>2
        <3> QED BY <3>1, <3>2, <2>3 DEF Grows
    <2>8. P(n + 1)
        BY <2>2, <2>4, <2>5, <2>6, <2>7
    <2>9. n + 1 \in Nat
        BY <2>1
    <2> HIDE DEF P
    <2> QED BY <2>8, <2>9
<1>4. ASSUME NEW n \in 1..Len(ms) PROVE P(n)
    <2>1. n \in Nat /\ \A k \in 0..(n - 1) : k \in 0..(Len(ms) - 1)
        BY <1>1
    <2>2. \A k \in 0..(n - 1) : k \in T => k + 1 \in T
        BY <2>1, <1>3
    <2>3. n \in T
        <3> HIDE DEF T
        <3> QED BY <2>1, <2>2, <1>2, UpTo
    <2> QED BY <2>3
<1> DEFINE g == [n \in DOMAIN ms |-> Len(f[n])]
           r == f[Len(ms)]
<1>5. P(Len(ms))
    <2>1. Len(ms) \in 1..Len(ms)
        BY <1>1
    <2> HIDE DEF P
    <2> QED BY <2>1, <1>4
<1>6. ASSUME NEW n \in DOMAIN ms
      PROVE  g[n] \in DOMAIN r /\ Speaker(r[g[n]]) = Speaker(ms[n]) /\ Tells(ms[n]) \subseteq Tells(r[g[n]])
    <2>1. g[n] = Len(f[n]) /\ n \in 1..Len(ms)
        BY <1>1
    <2> QED BY <2>1, <1>5
<1>7. ASSUME NEW n \in DOMAIN ms, NEW k \in DOMAIN ms, n <= k PROVE g[n] <= g[k]
    <2>1. g[n] = Len(f[n]) /\ g[k] = Len(f[k]) /\ k \in 1..Len(ms) /\ n \in 1..k
        BY <1>1, <1>7
    <2>2. P(k)
        BY <2>1, <1>4
    <2> QED BY <2>1, <2>2
<1>8. DOMAIN g = DOMAIN ms
    OBVIOUS
<1>9. ASSUME NEW i \in DOMAIN r, NEW x \in Says(r[i].blocks)
      PROVE  \E n \in DOMAIN ms : g[n] = i /\ x \in Says(ms[n].blocks)
    <2>1. PICK k \in 1..Len(ms) : Len(f[k]) = i /\ x \in Says(ms[k].blocks)
        BY <1>5
    <2>2. k \in DOMAIN ms /\ g[k] = Len(f[k])
        BY <1>1
    <2> QED BY <2>1, <2>2
<1> HIDE DEF g
<1>10. Moved(ms, r, g)
    BY <1>6, <1>7, <1>8, <1>9 DEF Moved
<1> QED BY <1>5, <1>10

\* One message more, at the end.
LEMMA AppendGrows ==
    ASSUME NEW d, IsSeq(d), NEW m PROVE Grows(d, Append(d, m), m)
<1>1. PICK e : e = Append(d, m)
    OBVIOUS
<1>2. IsSeq(e) /\ Len(e) = Len(d) + 1 /\ (\A i \in 1..Len(d) : e[i] = d[i]) /\ e[Len(d) + 1] = m
    BY <1>1, AppendIsSeq
<1>3. /\ Len(d) \in Nat /\ DOMAIN d = 1..Len(d) /\ DOMAIN e = 1..Len(e)
      /\ (e = <<>> <=> Len(e) = 0)
    BY <1>2, SeqFacts
<1>4. e # <<>> /\ Len(d) <= Len(e) /\ e[Len(e)] = m /\ \A i \in DOMAIN d : e[i] = d[i]
    BY <1>2, <1>3
<1>5. AllApart(d) /\ OneAnswerEach(m) => AllApart(e)
    <2> SUFFICES ASSUME AllApart(d), OneAnswerEach(m), NEW n \in DOMAIN e PROVE OneAnswerEach(e[n])
        BY DEF AllApart
    <2>1. n \in DOMAIN d \/ n = Len(e)
        BY <1>2, <1>3
    <2> QED BY <2>1, <1>4 DEF AllApart
<1>6. ASSUME NEW i \in DOMAIN e PROVE (i \in DOMAIN d /\ e[i] = d[i]) \/ (i = Len(e) /\ e[i] = m)
    BY <1>2, <1>3, <1>4
<1>7. \A i \in DOMAIN e : \A x \in Says(e[i].blocks) :
         (i \in DOMAIN d /\ x \in Says(d[i].blocks)) \/ (i = Len(e) /\ x \in Says(m.blocks))
    BY <1>6
<1>8. Grows(d, e, m)
    BY <1>2, <1>4, <1>5, <1>7 DEF Grows
<1> QED BY <1>1, <1>8

\* A message that is merged into the last one.
LEMMA JoinedGrows ==
    ASSUME NEW A, NEW done, InOrder(done, A), NEW m, MessageIn(m, A) PROVE Grows(done, Joined(done, m), m)
<1>1. CASE /\ done # <<>> /\ Last(done).role = m.role
           /\ IsPlainTextContent(Last(done)) /\ IsPlainTextContent(m)
    <2>1. PICK d, l, x : d = Front(done) /\ l = Last(done) /\ x = Merge(l, m)
        OBVIOUS
    <2>2. /\ IsSeq(d) /\ Len(d) = Len(done) - 1 /\ Len(done) \in Nat \ {0}
          /\ DOMAIN d = 1..(Len(done) - 1)
          /\ \A i \in DOMAIN d : d[i] = done[i]
          /\ l = done[Len(done)] /\ Len(done) \in DOMAIN done
        BY <1>1, <2>1, FrontFacts DEF InOrder
    <2>3. IsSeq(done) /\ DOMAIN done = 1..Len(done)
        BY SeqFacts DEF InOrder
    <2>4. MessageIn(l, A)
        BY <1>1, <2>1, InOrderFront
    <2>5. /\ Tells(l) \subseteq Tells(x) /\ Tells(m) \subseteq Tells(x) /\ OneAnswerEach(x)
          /\ Speaker(x) = Speaker(l) /\ Says(x.blocks) \subseteq Says(l.blocks) \cup Says(m.blocks)
        BY <1>1, <2>1, <2>4, MergeTells
    <2>6. Speaker(l) = Speaker(m)
        BY <1>1, <2>1 DEF Speaker
    <2>7. PICK e : e = Append(d, x)
        OBVIOUS
    <2>8. Joined(done, m) = e
        BY <1>1, <2>1, <2>7 DEF Joined
    <2>9. IsSeq(e) /\ Len(e) = Len(d) + 1 /\ (\A i \in 1..Len(d) : e[i] = d[i]) /\ e[Len(d) + 1] = x
        BY <2>2, <2>7, AppendIsSeq
    <2>10. Len(e) = Len(done) /\ e[Len(e)] = x /\ DOMAIN e = DOMAIN done /\ e # <<>>
        BY <2>2, <2>3, <2>9, SeqFacts
    <2>11. ASSUME NEW i \in DOMAIN done PROVE (e[i] = done[i]) \/ (i = Len(e) /\ e[i] = x /\ done[i] = l)
        BY <2>2, <2>3, <2>9, <2>10
    <2>12. AllApart(done) => AllApart(e)
        BY <2>5, <2>10, <2>11 DEF AllApart
    <2>13. \A i \in DOMAIN done : Speaker(e[i]) = Speaker(done[i]) /\ Tells(done[i]) \subseteq Tells(e[i])
        BY <2>5, <2>11
    <2>14. Len(done) <= Len(e)
        BY <2>2, <2>10
    <2>15. \A i \in DOMAIN e : \A y \in Says(e[i].blocks) :
              (i \in DOMAIN done /\ y \in Says(done[i].blocks)) \/ (i = Len(e) /\ y \in Says(m.blocks))
        BY <2>5, <2>10, <2>11
    <2>16. Grows(done, e, m)
        BY <2>3, <2>5, <2>6, <2>9, <2>10, <2>12, <2>13, <2>14, <2>15 DEF Grows
    <2> QED BY <2>8, <2>16
<1>2. CASE ~(/\ done # <<>> /\ Last(done).role = m.role
             /\ IsPlainTextContent(Last(done)) /\ IsPlainTextContent(m))
    <2>1. Joined(done, m) = Append(done, m)
        BY <1>2 DEF Joined
    <2> QED BY <2>1, AppendGrows DEF InOrder
<1> QED BY <1>1, <1>2

\* MergeAdjacentSameRole.
LEMMA MergedMoved ==
    ASSUME NEW A, NEW ms, InOrder(ms, A), ms # <<>>, NEW r, r = MergeAdjacentSameRole(ms)
    PROVE  (\E g : Moved(ms, r, g)) /\ (AllApart(ms) => AllApart(r))
<1>1. Len(ms) \in Nat \ {0} /\ DOMAIN ms = 1..Len(ms) /\ IsSeq(ms)
    BY SeqFacts DEF InOrder
<1>2. PICK f : Merges(f, ms) /\ r = f[Len(ms)]
    BY MergesExists DEF InOrder
<1> DEFINE T == {n \in Nat : InOrder(f[n], A)}
<1>3. 0 \in T
    <2>1. PICK e : e = <<>>
        OBVIOUS
    <2>2. IsSeq(e) /\ f[0] = e
        BY <2>1, <1>2, SingleIsSeq DEF Merges
    <2>3. DOMAIN e = {}
        BY <2>1
    <2> QED BY <2>2, <2>3 DEF InOrder
<1>4. ASSUME NEW n \in 0..(Len(ms) - 1)
      PROVE  /\ n \in Nat /\ f[n + 1] = Joined(f[n], ms[n + 1])
             /\ MessageIn(ms[n + 1], A) /\ ms[n + 1].role \in {"user", "assistant"}
    <2>1. n + 1 \in 1..Len(ms) /\ (n + 1) - 1 = n /\ n \in Nat
        BY <1>1
    <2> QED BY <2>1, <1>1, <1>2 DEF Merges, InOrder
<1>5. ASSUME NEW n \in 0..(Len(ms) - 1), n \in T PROVE n + 1 \in T
    <2>1. InOrder(f[n + 1], A)
        BY <1>4, <1>5, JoinedIn
    <2> QED BY <2>1, <1>4
<1>6. ASSUME NEW i \in 1..Len(ms) PROVE Grows(f[i - 1], f[i], ms[i])
    <2>1. PICK n \in 0..(Len(ms) - 1) : n = i - 1 /\ i = n + 1
        BY <1>1
    <2>2. n \in Nat /\ \A k \in 0..(n - 1) : k \in 0..(Len(ms) - 1)
        BY <1>1
    <2>3. n \in T
        <3>1. \A k \in 0..(n - 1) : k \in T => k + 1 \in T
            BY <2>2, <1>5
        <3> HIDE DEF T
        <3> QED BY <3>1, <2>2, <1>3, UpTo
    <2>4. Grows(f[n], f[n + 1], ms[n + 1])
        BY <2>3, <1>4, JoinedGrows
    <2> QED BY <2>1, <2>4
<1>7. f[0] = <<>>
    BY <1>2 DEF Merges
<1> QED BY <1>1, <1>2, <1>6, <1>7, GrownMoved

\* A message with a filler before it.
LEMMA AlternatedGrows == ASSUME NEW d, IsSeq(d), NEW m PROVE Grows(d, Alternated(d, m), m)
<1>1. CASE d # <<>> /\ Last(d).role = m.role
    <2>1. PICK x : x = StringMessage(Opposite(m.role), Empty)
        OBVIOUS
    <2>2. PICK t : t = <<x, m>>
        OBVIOUS
    <2>3. IsSeq(t)
        BY <2>2, SingleIsSeq
    <2>4. Len(t) = 2 /\ t[1] = x /\ t[2] = m
        BY <2>2
    <2>5. PICK e : e = d \o t
        OBVIOUS
    <2>6. /\ IsSeq(e) /\ Len(e) = Len(d) + Len(t)
          /\ \A i \in 1..Len(d) : e[i] = d[i]
          /\ \A i \in 1..Len(t) : e[Len(d) + i] = t[i]
        BY <2>3, <2>5, ConcatIsSeq
    <2>7. /\ Len(d) \in Nat /\ DOMAIN d = 1..Len(d) /\ DOMAIN e = 1..Len(e)
          /\ (e = <<>> <=> Len(e) = 0)
        BY <2>6, SeqFacts
    <2>8. 1 \in 1..Len(t) /\ 2 \in 1..Len(t)
        BY <2>4
    <2>9. e[Len(d) + 1] = x /\ e[Len(d) + 2] = m /\ Len(e) = Len(d) + 2
        BY <2>4, <2>6, <2>8
    <2>10. e # <<>> /\ Len(d) <= Len(e) /\ e[Len(e)] = m /\ \A i \in DOMAIN d : e[i] = d[i]
        BY <2>6, <2>7, <2>9
    <2>11. AllApart(d) /\ OneAnswerEach(m) => AllApart(e)
        <3> SUFFICES ASSUME AllApart(d), OneAnswerEach(m), NEW n \in DOMAIN e PROVE OneAnswerEach(e[n])
            BY DEF AllApart
        <3>1. n \in DOMAIN d \/ n = Len(d) + 1 \/ n = Len(d) + 2
            BY <2>7, <2>9
        <3>2. OneAnswerEach(x)
            BY <2>1, StringTells
        <3> QED BY <3>1, <3>2, <2>9, <2>10 DEF AllApart
    <2>12. ASSUME NEW i \in DOMAIN e
           PROVE  (i \in DOMAIN d /\ e[i] = d[i]) \/ (i = Len(e) /\ e[i] = m) \/ Says(e[i].blocks) = {}
        <3>1. Says(x.blocks) = {}
            BY <2>1, FillerSays
        <3>2. i \in DOMAIN d \/ i = Len(d) + 1 \/ i = Len(e)
            BY <2>7, <2>9
        <3> QED BY <3>1, <3>2, <2>9, <2>10
    <2>13. \A i \in DOMAIN e : \A y \in Says(e[i].blocks) :
              (i \in DOMAIN d /\ y \in Says(d[i].blocks)) \/ (i = Len(e) /\ y \in Says(m.blocks))
        BY <2>12
    <2>14. Grows(d, e, m)
        BY <2>6, <2>10, <2>11, <2>13 DEF Grows
    <2>15. Alternated(d, m) = e
        BY <1>1, <2>1, <2>2, <2>5 DEF Alternated
    <2> QED BY <2>14, <2>15
<1>2. CASE ~(d # <<>> /\ Last(d).role = m.role)
    <2>1. Alternated(d, m) = Append(d, m)
        BY <1>2 DEF Alternated
    <2> QED BY <2>1, AppendGrows
<1> QED BY <1>1, <1>2

\* EnsureAlternatingRoles.
LEMMA SpacedMoved ==
    ASSUME NEW ms, IsSeq(ms), ms # <<>>, NEW r, r = EnsureAlternatingRoles(ms)
    PROVE  (\E g : Moved(ms, r, g)) /\ (AllApart(ms) => AllApart(r))
<1>1. Len(ms) \in Nat \ {0}
    BY SeqFacts
<1>2. PICK f : Spaces(f, ms) /\ r = f[Len(ms)]
    BY SpacesExists
<1> DEFINE T == {n \in Nat : IsSeq(f[n])}
<1>3. 0 \in T
    BY <1>2, SingleIsSeq DEF Spaces
<1>4. ASSUME NEW n \in 0..(Len(ms) - 1), n \in T PROVE n + 1 \in T /\ Grows(f[n], f[n + 1], ms[n + 1])
    <2>1. n + 1 \in 1..Len(ms) /\ (n + 1) - 1 = n /\ n \in Nat
        BY <1>1
    <2>2. f[n + 1] = Alternated(f[n], ms[n + 1])
        BY <2>1, <1>2 DEF Spaces
    <2>3. Grows(f[n], f[n + 1], ms[n + 1])
        BY <2>2, <1>4, AlternatedGrows
    <2>4. IsSeq(f[n + 1]) /\ n + 1 \in Nat
        BY <2>1, <2>3 DEF Grows
    <2> QED BY <2>3, <2>4
<1>5. ASSUME NEW i \in 1..Len(ms) PROVE Grows(f[i - 1], f[i], ms[i])
    <2>1. PICK n \in 0..(Len(ms) - 1) : n = i - 1 /\ i = n + 1
        BY <1>1
    <2>2. n \in Nat /\ \A k \in 0..(n - 1) : k \in 0..(Len(ms) - 1)
        BY <1>1
    <2>3. n \in T
        <3>1. \A k \in 0..(n - 1) : k \in T => k + 1 \in T
            BY <2>2, <1>4
        <3> HIDE DEF T
        <3> QED BY <3>1, <2>2, <1>3, UpTo
    <2>4. Grows(f[n], f[n + 1], ms[n + 1])
        BY <2>3, <1>4
    <2> QED BY <2>1, <2>4
<1>6. f[0] = <<>>
    BY <1>2 DEF Spaces
<1> QED BY <1>2, <1>5, <1>6, GrownMoved

\* EnsureStartsWithUser.
LEMMA StartMoved ==
    ASSUME NEW ms, IsSeq(ms), ms # <<>>, NEW r, r = EnsureStartsWithUser(ms)
    PROVE  (\E g : Moved(ms, r, g)) /\ (AllApart(ms) => AllApart(r)) /\ IsSeq(r) /\ r # <<>>
<1>1. CASE ms[1].role = "user"
    <2>1. r = ms
        BY <1>1 DEF EnsureStartsWithUser
    <2> QED BY <2>1, MovedInPlace
<1>2. CASE ms[1].role # "user"
    <2>1. PICK x : x = StringMessage("user", Empty)
        OBVIOUS
    <2>2. PICK s : s = <<x>>
        OBVIOUS
    <2>3. IsSeq(s)
        BY <2>2, SingleIsSeq
    <2>4. Len(s) = 1 /\ s[1] = x
        BY <2>2
    <2>5. r = s \o ms
        BY <1>2, <2>1, <2>2 DEF EnsureStartsWithUser
    <2>6. /\ IsSeq(r) /\ Len(r) = Len(s) + Len(ms)
          /\ \A i \in 1..Len(s) : r[i] = s[i]
          /\ \A i \in 1..Len(ms) : r[Len(s) + i] = ms[i]
        BY <2>3, <2>5, ConcatIsSeq
    <2>7. /\ Len(ms) \in Nat /\ DOMAIN ms = 1..Len(ms) /\ DOMAIN r = 1..Len(r)
          /\ (r = <<>> <=> Len(r) = 0)
        BY <2>6, SeqFacts
    <2>8. /\ r # <<>> /\ r[1] = x
          /\ \A i \in DOMAIN ms : i + 1 \in DOMAIN r /\ r[i + 1] = ms[i]
          /\ \A n \in DOMAIN r : n = 1 \/ (n - 1 \in DOMAIN ms /\ r[n] = ms[n - 1])
        BY <2>4, <2>6, <2>7
    <2> DEFINE g == [n \in DOMAIN ms |-> n + 1]
    <2>9. DOMAIN g = DOMAIN ms /\ \A n \in DOMAIN ms : g[n] = n + 1
        OBVIOUS
    <2> HIDE DEF g
    <2>10. \A n, k \in DOMAIN ms : n <= k => g[n] <= g[k]
        BY <2>7, <2>9
    <2>11. \A n \in DOMAIN ms : g[n] \in DOMAIN r /\ r[g[n]] = ms[n]
        BY <2>8, <2>9
    <2>12. OneAnswerEach(x) /\ Says(x.blocks) = {}
        BY <2>1, StringTells, FillerSays
    <2>13. ASSUME NEW i \in DOMAIN r, NEW y \in Says(r[i].blocks)
           PROVE  \E n \in DOMAIN ms : g[n] = i /\ y \in Says(ms[n].blocks)
        <3>1. i # 1
            BY <2>8, <2>12
        <3>2. i - 1 \in DOMAIN ms /\ r[i] = ms[i - 1]
            BY <3>1, <2>8
        <3>3. g[i - 1] = i
            BY <3>2, <2>7, <2>9
        <3> QED BY <3>2, <3>3
    <2>14. Moved(ms, r, g)
        BY <2>9, <2>10, <2>11, <2>13 DEF Moved
    <2>15. AllApart(ms) => AllApart(r)
        BY <2>8, <2>12 DEF AllApart
    <2> QED BY <2>6, <2>8, <2>14, <2>15
<1> QED BY <1>1, <1>2

\* message_normalizer.go: all of it moves the messages without losing anything.
LEMMA NormalizeMoved ==
    ASSUME NEW A, NEW msgs, MessagesIn(msgs, A), msgs # <<>>, NEW hasTools \in BOOLEAN,
           NEW r, r = Normalize(msgs, hasTools)
    PROVE  (\E f : Moved(msgs, r, f)) /\ (AllApart(msgs) => AllApart(r))
<1>1. PICK t : t = TextualizeToolContent(msgs, hasTools)
    OBVIOUS
<1>2. /\ MessagesIn(t, A) /\ DOMAIN t = DOMAIN msgs /\ Len(t) = Len(msgs)
      /\ \A n \in DOMAIN msgs : TextualizedFrom(t[n], msgs, hasTools, n)
    BY <1>1, TextualizedMessages
<1>3. (\E f : Moved(msgs, t, f)) /\ (AllApart(msgs) => AllApart(t))
    BY <1>2, TextualizedMoved
<1>4. PICK o : o = NormalizeRoles(t)
    OBVIOUS
<1>5. InOrder(o, A) /\ Len(o) = Len(t) /\ (\E f : Moved(t, o, f)) /\ (AllApart(t) => AllApart(o))
    BY <1>2, <1>4, RolesNormalized, RolesMoved
<1>6. o # <<>>
    BY <1>2, <1>5, SeqFacts DEF InOrder, MessagesIn
<1>7. PICK j : j = MergeAdjacentSameRole(o)
    OBVIOUS
<1>8. InOrder(j, A) /\ j # <<>> /\ (\E f : Moved(o, j, f)) /\ (AllApart(o) => AllApart(j))
    BY <1>5, <1>6, <1>7, MergedIn, MergedMoved
<1>9. PICK u : u = EnsureStartsWithUser(j)
    OBVIOUS
<1>10. IsSeq(u) /\ u # <<>> /\ (\E f : Moved(j, u, f)) /\ (AllApart(j) => AllApart(u))
    BY <1>8, <1>9, StartMoved DEF InOrder
<1>11. r = EnsureAlternatingRoles(u)
    BY <1>1, <1>4, <1>7, <1>9 DEF Normalize
<1>12. (\E f : Moved(u, r, f)) /\ (AllApart(u) => AllApart(r))
    BY <1>10, <1>11, SpacedMoved
<1>13. \E f : Moved(msgs, o, f)
    BY <1>3, <1>5, MovedTwice
<1>14. \E f : Moved(msgs, j, f)
    BY <1>8, <1>13, MovedTwice
<1>15. \E f : Moved(msgs, u, f)
    BY <1>10, <1>14, MovedTwice
<1>16. \E f : Moved(msgs, r, f)
    BY <1>12, <1>15, MovedTwice
<1> QED BY <1>3, <1>5, <1>8, <1>10, <1>12, <1>16

\* An entry with a message's text and results tells what the message tells.
LEMMA EntryTold ==
    ASSUME NEW A, NEW m, MessageIn(m, A), OneAnswerEach(m), NEW e,
           SaidBy(ExtractTextContent(m)) \subseteq SaidBy(e.text),
           NEW ids, IsSeq(ids),
           m.role # "assistant" => \/ e.results = ExtractToolResults(m)
                                   \/ e.results = ReorderToolResults(ExtractToolResults(m), ids)
    PROVE  Tells(m) \subseteq EntryTells(e)
<1> SUFFICES ASSUME NEW x \in Tells(m) PROVE x \in EntryTells(e)
    OBVIOUS
<1>1. PICK k \in DOMAIN m.blocks : Telling(m, k) /\ x \in SaidBy(m.blocks[k].text)
    BY TellsIs
<1>2. CASE m.blocks[k].type = "text"
    <2>1. x \in SaidBy(e.text)
        BY <1>1, <1>2, SaidInText
    <2> QED BY <2>1 DEF EntryTells
<1>3. CASE IsToolResult(m.blocks[k]) /\ ~m.str /\ m.role # "assistant"
    <2>1. PICK rs : rs = ExtractToolResults(m)
        OBVIOUS
    <2>2. /\ IsSeq(rs) /\ \E n \in DOMAIN rs : rs[n].text = m.blocks[k].text
          /\ \A i, j \in DOMAIN rs : rs[i].id = rs[j].id => i = j
        BY <1>3, <2>1, ResultsExtracted
    <2>3. PICK n \in DOMAIN rs : rs[n].text = m.blocks[k].text
        BY <2>2
    <2>4. \E l \in DOMAIN ReorderToolResults(rs, ids) : ReorderToolResults(rs, ids)[l] = rs[n]
        BY <2>2, ReorderedKeeps
    <2>5. PICK l \in DOMAIN e.results : e.results[l] = rs[n]
        BY <1>3, <2>1, <2>4
    <2>6. x \in SaidBy(e.results[l].text)
        BY <1>1, <2>3, <2>5
    <2>7. SaidBy(e.results[l].text) \in {SaidBy(e.results[j].text) : j \in DOMAIN e.results}
        OBVIOUS
    <2> QED BY <2>6, <2>7 DEF EntryTells
<1> QED BY <1>1, <1>2, <1>3 DEF Telling

\* Reordered results are some of the results.
LEMMA ReorderedFrom ==
    ASSUME NEW rs, IsSeq(rs), NEW ids, IsSeq(ids), NEW q, q = ReorderToolResults(rs, ids), NEW n \in DOMAIN q
    PROVE  \E k \in DOMAIN rs : q[n] = rs[k]
<1>1. CASE Len(rs) <= 1 \/ ids = <<>>
    BY <1>1, Reordered
<1>2. CASE ~(Len(rs) <= 1 \/ ids = <<>>)
    <2>1. PICK u, v : u = InOrderOf(rs, ids) /\ v = Others(rs, ids)
        OBVIOUS
    <2>2. PutBefore(q, u, v)
        BY <1>2, <2>1, Reordered DEF PutBefore
    <2>3. /\ IsSeq(u) /\ IsSeq(v)
          /\ \A i \in DOMAIN u : \E k \in DOMAIN rs : u[i] = rs[k]
          /\ \A i \in DOMAIN v : \E k \in DOMAIN rs : v[i] = rs[k]
        BY <2>1, InOrderOfFacts
    <2>4. (\E j \in DOMAIN u : q[n] = u[j]) \/ (\E j \in DOMAIN v : q[n] = v[j])
        BY <2>2, <2>3, ConcatFrom
    <2> QED BY <2>3, <2>4
<1> QED BY <1>1, <1>2

\* An entry with a message's text and some of its results tells nothing else.
LEMMA EntryTellsOnly ==
    ASSUME NEW A, NEW m, MessageIn(m, A), NEW S, Says(m.blocks) \subseteq S, NEW e, SaidBy(e.text) \subseteq S,
           NEW ids, IsSeq(ids),
           \/ e.results = <<>> \/ e.results = ExtractToolResults(m)
           \/ e.results = ReorderToolResults(ExtractToolResults(m), ids)
    PROVE  EntryTells(e) \subseteq S
<1>1. PICK rs : rs = ExtractToolResults(m)
    OBVIOUS
<1>2. PICK none : none = <<>>
    OBVIOUS
<1>3. DOMAIN none = {} /\ IsSeq(none)
    <2>1. DOMAIN none = {}
        BY <1>2
    <2>2. IsSeq(none)
        BY <1>2, SingleIsSeq
    <2> QED BY <2>1, <2>2
<1>4. IsSeq(rs) /\ \A n \in DOMAIN rs : \E k \in DOMAIN m.blocks : rs[n].text = m.blocks[k].text
    <2>1. CASE m.str
        <3>1. rs = none
            BY <2>1, <1>1, <1>2 DEF ExtractToolResults
        <3> QED BY <3>1, <1>3
    <2>2. CASE ~m.str
        BY <2>2, <1>1, ResultsExtracted
    <2> QED BY <2>1, <2>2
<1>5. ASSUME NEW n \in DOMAIN e.results PROVE SaidBy(e.results[n].text) \subseteq S
    <2>1. e.results # <<>>
        BY <1>2, <1>3
    <2>2. \E k \in DOMAIN rs : e.results[n] = rs[k]
        <3>1. CASE e.results = rs
            BY <3>1
        <3>2. CASE e.results = ReorderToolResults(rs, ids)
            BY <3>2, <1>4, ReorderedFrom
        <3> QED BY <3>1, <3>2, <2>1, <1>1
    <2>3. PICK k \in DOMAIN m.blocks : e.results[n].text = m.blocks[k].text
        BY <2>2, <1>4
    <2> QED BY <2>3, SaysIs
<1> QED BY <1>5 DEF EntryTells

\* BuildHistory: each entry tells what its message tells, in the same role, and
\* nothing else.
LEMMA HistoryTold ==
    ASSUME NEW A, NEW ms, InOrder(ms, A), AllApart(ms), NEW h, h = BuildHistory(ms), NEW n \in DOMAIN ms
    PROVE  /\ h[n].role = Speaker(ms[n]) /\ Tells(ms[n]) \subseteq EntryTells(h[n])
           /\ EntryTells(h[n]) \subseteq Says(ms[n].blocks)
<1>1. Len(ms) \in Nat /\ DOMAIN ms = 1..Len(ms)
    BY SeqFacts DEF InOrder
<1>2. PICK m : m = ms[n]
    OBVIOUS
<1>3. MessageIn(m, A) /\ m.role \in {"user", "assistant"} /\ OneAnswerEach(m)
    BY <1>2 DEF InOrder, AllApart
<1>4. IsSeq(ExtractTextContent(m)) /\ SaidBy(ExtractTextContent(m)) \subseteq Says(m.blocks)
    BY <1>3, MessageText, SaidInText DEF TextIn
<1>5. CASE m.role = "user"
    <2>1. PICK rs : rs = ExtractToolResults(m)
        OBVIOUS
    <2>2. PICK r : r = IF Len(rs) > 1 /\ n > 1 THEN ReorderToolResults(rs, ExtractToolUseIDs(ms[n - 1])) ELSE rs
        OBVIOUS
    <2>3. h[n] = Entry("user", CleanCurrentText(ExtractTextContent(m)), r, <<>>)
        BY <1>2, <1>5, <2>1, <2>2 DEF BuildHistory
    <2>4. h[n].role = "user" /\ h[n].results = r /\ h[n].text = CleanCurrentText(ExtractTextContent(m))
        BY <2>3, EntryFacts
    <2>5. SaidBy(ExtractTextContent(m)) = SaidBy(h[n].text)
        BY <1>4, <2>4, SaidCleaned
    <2>6. CASE Len(rs) > 1 /\ n > 1
        <3>1. PICK ids : ids = ExtractToolUseIDs(ms[n - 1])
            OBVIOUS
        <3>2. n - 1 \in DOMAIN ms
            BY <2>6, <1>1
        <3>3. IsSeq(ids)
            BY <3>1, <3>2, UseIDs DEF InOrder, MessageIn, ContentIn
        <3>4. h[n].results = ReorderToolResults(ExtractToolResults(m), ids)
            BY <2>1, <2>2, <2>4, <2>6, <3>1
        <3>5. Tells(m) \subseteq EntryTells(h[n])
            BY <1>3, <2>5, <3>3, <3>4, EntryTold
        <3>6. EntryTells(h[n]) \subseteq Says(m.blocks)
            BY <1>3, <1>4, <2>5, <3>3, <3>4, EntryTellsOnly
        <3> QED BY <3>5, <3>6, <2>4, <1>2, <1>5 DEF Speaker
    <2>7. CASE ~(Len(rs) > 1 /\ n > 1)
        <3>1. h[n].results = ExtractToolResults(m)
            BY <2>1, <2>2, <2>4, <2>7
        <3>2. IsSeq(<<>>)
            BY SingleIsSeq
        <3>3. Tells(m) \subseteq EntryTells(h[n])
            BY <1>3, <2>5, <3>1, <3>2, EntryTold
        <3>4. EntryTells(h[n]) \subseteq Says(m.blocks)
            BY <1>3, <1>4, <2>5, <3>1, <3>2, EntryTellsOnly
        <3> QED BY <3>3, <3>4, <2>4, <1>2, <1>5 DEF Speaker
    <2> QED BY <2>6, <2>7
<1>6. CASE m.role = "assistant"
    <2>1. h[n] = Entry("assistant", ExtractTextContent(m), <<>>, ExtractToolUseIDs(m))
        BY <1>2, <1>6 DEF BuildHistory
    <2>2. h[n].role = "assistant" /\ h[n].text = ExtractTextContent(m) /\ h[n].results = <<>>
        BY <2>1, EntryFacts
    <2>3. IsSeq(<<>>)
        BY SingleIsSeq
    <2>4. Tells(m) \subseteq EntryTells(h[n])
        BY <1>3, <1>6, <2>2, <2>3, EntryTold
    <2>5. EntryTells(h[n]) \subseteq Says(m.blocks)
        BY <1>3, <1>4, <2>2, <2>3, EntryTellsOnly
    <2> QED BY <2>2, <2>4, <2>5, <1>2, <1>6 DEF Speaker
<1> QED BY <1>3, <1>5, <1>6

\* The history w ends with h, and tells before it nothing but what is in S.
EndsWith(w, h, S) ==
    \E b \in Nat : /\ Len(w) = b + Len(h)
                   /\ \A i \in DOMAIN h : w[b + i] = h[i]
                   /\ \A i \in 1..b : EntryTells(w[i]) \subseteq S

\* The system prompt says what the system's blocks say.
LEMMA SystemSays ==
    ASSUME NEW A, NEW system, ContentIn(system, A) PROVE SaidBy(ExtractSystemPrompt(system)) \subseteq Says(system)
<1> DEFINE ss == [n \in DOMAIN system |-> IF system[n].type = "text" THEN CleanSystemPromptText(system[n].text)
                                          ELSE <<>>]
<1>1. ss = [n \in DOMAIN system |-> ss[n]] /\ DOMAIN ss = DOMAIN system
    OBVIOUS
<1>2. ASSUME NEW n \in DOMAIN system PROVE IsSeq(ss[n]) /\ SaidBy(ss[n]) \subseteq SaidBy(system[n].text)
    <2>1. IsSeq(system[n].text)
        BY DEF ContentIn, BlockIn, TextIn
    <2>2. PICK e : e = <<>>
        OBVIOUS
    <2>3. DOMAIN e = {} /\ IsSeq(e)
        <3>1. DOMAIN e = {}
            BY <2>2
        <3>2. IsSeq(e)
            BY <2>2, SingleIsSeq
        <3> QED BY <3>1, <3>2
    <2>4. SaidBy(e) = {}
        BY <2>3, NothingSaid
    <2>5. ss[n] = e \/ ss[n] = system[n].text
        BY <2>2 DEF CleanSystemPromptText
    <2> HIDE DEF ss
    <2> QED BY <2>1, <2>3, <2>4, <2>5
<1>3. ExtractSystemPrompt(system) = FlattenSeq(ss)
    BY DEF ExtractSystemPrompt, MapSeq
<1> HIDE DEF ss
<1>4. IsSeq(system)
    BY DEF ContentIn
<1>5. IsSeq(ss)
    BY <1>1, <1>4, MapIsSeq
<1>6. \A x \in SaidBy(FlattenSeq(ss)) : \E n \in DOMAIN ss : x \in SaidBy(ss[n])
    BY <1>1, <1>2, <1>5, SaidFlatten
<1>7. ASSUME NEW x \in SaidBy(FlattenSeq(ss)) PROVE x \in Says(system)
    BY <1>1, <1>2, <1>6, SaysIs
<1> QED BY <1>3, <1>7

\* An entry without results tells what its text says.
LEMMA PlainEntryTells ==
    ASSUME NEW role, NEW text, NEW e, e = Entry(role, text, <<>>, <<>>) PROVE EntryTells(e) = SaidBy(text)
<1>1. PICK none : none = <<>>
    OBVIOUS
<1>2. DOMAIN none = {}
    BY <1>1
<1>3. e.text = text /\ e.results = none
    BY <1>1, EntryFacts
<1> QED BY <1>2, <1>3 DEF EntryTells

\* PlaceSystemPrompt puts its entries before the history.
LEMMA SystemBefore ==
    ASSUME NEW prompt, IsSeq(prompt), NEW h, IsSeq(h), NEW text, IsSeq(text),
           NEW p, p = PlaceSystemPrompt(prompt, h, text)
    PROVE  /\ IsSeq(p.history) /\ IsSeq(p.text) /\ SaidBy(text) \subseteq SaidBy(p.text)
           /\ SaidBy(p.text) \subseteq SaidBy(prompt) \cup SaidBy(text)
           /\ EndsWith(p.history, h, SaidBy(prompt))
<1>1. PICK x, y : x = Entry("user", prompt, <<>>, <<>>) /\ y = Entry("assistant", AckText, <<>>, <<>>)
    OBVIOUS
<1>2. PICK before : before = IF prompt = <<>> \/ SystemMode \in {"drop", "current"} THEN <<>>
                             ELSE IF SystemMode = "noack" THEN <<x>>
                             ELSE <<x, y>>
    OBVIOUS
<1>3. IsSeq(before)
    BY <1>2, SingleIsSeq
<1>4. p.history = before \o h /\ p.text = IF SystemMode = "current" THEN prompt \o text ELSE text
    BY <1>1, <1>2 DEF PlaceSystemPrompt
<1>5. /\ IsSeq(p.text) /\ SaidBy(text) \subseteq SaidBy(p.text)
      /\ SaidBy(p.text) \subseteq SaidBy(prompt) \cup SaidBy(text)
    BY <1>4, ConcatIsSeq, SaidConcat
<1>6. PICK w : w = before \o h
    OBVIOUS
<1>7. /\ IsSeq(w) /\ Len(w) = Len(before) + Len(h)
      /\ \A i \in 1..Len(before) : w[i] = before[i]
      /\ \A i \in 1..Len(h) : w[Len(before) + i] = h[i]
    BY <1>3, <1>6, ConcatIsSeq
<1>8. Len(before) \in Nat /\ DOMAIN h = 1..Len(h) /\ DOMAIN before = 1..Len(before)
    BY <1>3, SeqFacts
<1>9. EntryTells(x) \subseteq SaidBy(prompt) /\ EntryTells(y) \subseteq SaidBy(prompt)
    <2>1. PICK f : f = Fragment("synthetic", "ack")
        OBVIOUS
    <2>2. f.kind # "said"
        BY <2>1 DEF Fragment
    <2>3. PICK e : e = <<f>>
        OBVIOUS
    <2>4. DOMAIN e = {1} /\ e[1] = f
        BY <2>3
    <2>5. SaidBy(e) = {}
        BY <2>2, <2>4, NothingSaid
    <2>6. AckText = e
        BY <2>1, <2>3 DEF AckText
    <2> QED BY <2>5, <2>6, <1>1, PlainEntryTells
<1>10. \A i \in DOMAIN before : before[i] \in {x, y}
    BY <1>2
<1>11. \A i \in 1..Len(before) : EntryTells(w[i]) \subseteq SaidBy(prompt)
    BY <1>7, <1>8, <1>9, <1>10
<1>12. EndsWith(w, h, SaidBy(prompt))
    BY <1>7, <1>8, <1>11 DEF EndsWith
<1> QED BY <1>4, <1>5, <1>6, <1>7, <1>12

\* BuildCurrentMessage says what its text says, and nothing else.
LEMMA CurrentSays ==
    ASSUME NEW last, NEW text, IsSeq(text), NEW tools, NEW prefix, NEW ids,
           NEW c, c = BuildCurrentMessage(last, text, tools, prefix, ids)
    PROVE  SaidBy(c.text) = SaidBy(text) /\ c.results = ReorderToolResults(ExtractToolResults(last), ids)
<1>1. PICK rs : rs = ReorderToolResults(ExtractToolResults(last), ids)
    OBVIOUS
<1>2. PICK content : content = IF text = <<>> /\ rs = <<>> THEN ContinueText ELSE text
    OBVIOUS
<1>3. PICK tags : tags = IF prefix /\ (content # <<>> \/ rs = <<>>)
                         THEN <<Fragment("synthetic", "thinking_mode")>> ELSE <<>>
    OBVIOUS
<1>4. c.text = tags \o content /\ c.results = rs
    BY <1>1, <1>2, <1>3 DEF BuildCurrentMessage
<1>5. IsSeq(tags) /\ IsSeq(content)
    BY <1>2, <1>3, SingleIsSeq DEF ContinueText
<1>6. ASSUME NEW id PROVE SaidBy(<<Fragment("synthetic", id)>>) = {}
    <2>1. PICK f : f = Fragment("synthetic", id)
        OBVIOUS
    <2>2. f.kind # "said"
        BY <2>1 DEF Fragment
    <2>3. PICK e : e = <<f>>
        OBVIOUS
    <2>4. DOMAIN e = {1} /\ e[1] = f
        BY <2>3
    <2>5. SaidBy(e) = {}
        BY <2>2, <2>4, NothingSaid
    <2> QED BY <2>1, <2>3, <2>5
<1>7. PICK none : none = <<>>
    OBVIOUS
<1>8. DOMAIN none = {}
    BY <1>7
<1>9. SaidBy(none) = {}
    BY <1>8, NothingSaid
<1>10. SaidBy(content) = SaidBy(text)
    BY <1>2, <1>6, <1>7, <1>9 DEF ContinueText
<1>11. SaidBy(tags) = {}
    BY <1>3, <1>6, <1>7, <1>9
<1>12. SaidBy(content) \subseteq SaidBy(c.text) /\ SaidBy(c.text) \subseteq SaidBy(tags) \cup SaidBy(content)
    BY <1>4, <1>5, SaidConcat
<1> QED BY <1>1, <1>4, <1>10, <1>11, <1>12

\* The message that is sent when the client's last one is the assistant's says
\* nothing.
LEMMA ContinueSays == Says(StringMessage("user", ContinueText).blocks) = {}
<1>1. PICK f : f = Fragment("synthetic", "Continue")
    OBVIOUS
<1>2. f.kind # "said"
    BY <1>1 DEF Fragment
<1>3. PICK e : e = <<f>>
    OBVIOUS
<1>4. DOMAIN e = {1} /\ e[1] = f
    BY <1>3
<1>5. SaidBy(e) = {}
    BY <1>2, <1>4, NothingSaid
<1>6. e = ContinueText
    BY <1>1, <1>3 DEF ContinueText
<1> QED BY <1>5, <1>6, StringTells

\* BuildPayload, for all conversations whose messages answer a tool use at most
\* once: nothing that the client wrote or a tool returned is lost, nothing
\* changes sides, the messages stay in their order, whatever is merged, put in
\* between, turned into text or reordered, and nothing else is said at their
\* places but the system prompt.
THEOREM NothingLost ==
    ASSUME NEW system, IsContent(system), NEW msgs, IsConversation(msgs), AllApart(msgs),
           NEW opts, NEW p, p = BuildPayload(system, msgs, opts)
    PROVE  KeepsPlaces(system, msgs, p)
<1>1. PICK hasTools \in BOOLEAN : hasTools = (opts.tools # {} \/ opts.preserve)
    OBVIOUS
<1>2. PICK A : MessagesIn(msgs, A) /\ ContentIn(system, A)
    BY ConversationNamed
<1>3. msgs # <<>>
    BY DEF IsConversation
<1>4. PICK ms : ms = Normalize(msgs, hasTools)
    OBVIOUS
<1>5. InOrder(ms, A) /\ ms # <<>> /\ Alternates(ms)
    BY <1>2, <1>3, <1>4, NormalizeIn
<1>6. PICK f : Moved(msgs, ms, f)
    BY <1>2, <1>3, <1>4, NormalizeMoved
<1>7. AllApart(ms)
    BY <1>2, <1>3, <1>4, NormalizeMoved
<1>8. PICK parts : parts = SplitMessages(ms)
    OBVIOUS
<1>9. InOrder(parts.history, A) /\ MessageIn(parts.last, A) /\ parts.last.role = "user"
    BY <1>5, <1>8, SplitInParts DEF Parted
<1>10. PICK ids : ids = IF parts.history = <<>> THEN <<>> ELSE ExtractToolUseIDs(Last(parts.history))
    OBVIOUS
<1>11. PICK h : h = BuildHistory(parts.history)
    OBVIOUS
<1>12. PICK prompt, text : prompt = ExtractSystemPrompt(system) /\ text = CleanCurrentText(ExtractTextContent(parts.last))
    OBVIOUS
<1>13. PICK placed : placed = PlaceSystemPrompt(prompt, h, text)
    OBVIOUS
<1>14. PICK c : c = BuildCurrentMessage(parts.last, placed.text, opts.tools, opts.prefix, ids)
    OBVIOUS
<1>15. p.history = placed.history /\ p.current = c
    BY <1>1, <1>4, <1>8, <1>10, <1>11, <1>12, <1>13, <1>14 DEF BuildPayload
<1>16. IsSeq(ids)
    <2>1. CASE parts.history = <<>>
        BY <2>1, <1>10, SingleIsSeq
    <2>2. CASE parts.history # <<>>
        <3>1. MessageIn(Last(parts.history), A)
            BY <2>2, <1>9, InOrderFront
        <3> QED BY <3>1, <2>2, <1>10, UseIDs DEF MessageIn, ContentIn
    <2> QED BY <2>1, <2>2
<1>17. IsSeq(h) /\ Len(h) = Len(parts.history) /\ DOMAIN h = DOMAIN parts.history
    BY <1>9, <1>11, BuildHistoryIn DEF HistoryIn
<1>18. IsSeq(prompt) /\ IsSeq(text)
    BY <1>2, <1>9, <1>12, SystemPromptIn, MessageText, CleanedIn DEF TextIn
<1>19. /\ IsSeq(placed.history) /\ IsSeq(placed.text) /\ SaidBy(text) \subseteq SaidBy(placed.text)
       /\ SaidBy(placed.text) \subseteq SaidBy(prompt) \cup SaidBy(text)
       /\ EndsWith(placed.history, h, SaidBy(prompt))
    BY <1>13, <1>17, <1>18, SystemBefore
<1>20. PICK b \in Nat : /\ Len(p.history) = b + Len(h)
                        /\ \A i \in DOMAIN h : p.history[b + i] = h[i]
                        /\ \A i \in 1..b : EntryTells(p.history[i]) \subseteq SaidBy(prompt)
    BY <1>15, <1>19 DEF EndsWith
<1>21. IsSeq(p.history) /\ DOMAIN p.history = 1..Len(p.history) /\ Len(h) \in Nat /\ DOMAIN h = 1..Len(h)
    BY <1>15, <1>17, <1>19, SeqFacts
<1>22. /\ Len(ms) \in Nat \ {0} /\ DOMAIN ms = 1..Len(ms)
       /\ IsSeq(Front(ms)) /\ DOMAIN Front(ms) = 1..(Len(ms) - 1)
       /\ \A i \in DOMAIN Front(ms) : Front(ms)[i] = ms[i]
       /\ Last(ms) = ms[Len(ms)] /\ Len(Front(ms)) = Len(ms) - 1
    BY <1>5, FrontFacts, SeqFacts DEF InOrder
<1>23. /\ parts.history = ms \/ (parts.history = Front(ms) /\ parts.last = Last(ms) /\ Last(ms).role # "assistant")
    BY <1>8 DEF SplitMessages
<1>24. AllApart(parts.history)
    BY <1>7, <1>22, <1>23 DEF AllApart
<1>25. SaidBy(prompt) \subseteq Says(system)
    BY <1>2, <1>12, SystemSays
<1>26. IsSeq(ExtractTextContent(parts.last))
    BY <1>9, MessageText DEF TextIn
<1>27. SaidBy(c.text) = SaidBy(placed.text) /\ c.results = ReorderToolResults(ExtractToolResults(parts.last), ids)
    BY <1>14, <1>19, CurrentSays
<1>28. SaidBy(text) = SaidBy(ExtractTextContent(parts.last))
    BY <1>12, <1>26, SaidCleaned
<1>29. EntryTells(c) \subseteq Says(system) \cup Says(parts.last.blocks)
    <2>1. SaidBy(ExtractTextContent(parts.last)) \subseteq Says(parts.last.blocks)
        BY <1>9, SaidInText
    <2>2. PICK S : S = Says(system) \cup Says(parts.last.blocks)
        OBVIOUS
    <2>3. Says(parts.last.blocks) \subseteq S /\ SaidBy(c.text) \subseteq S
        BY <2>1, <2>2, <1>19, <1>25, <1>27, <1>28
    <2>4. EntryTells(c) \subseteq S
        BY <2>3, <1>9, <1>16, <1>27, EntryTellsOnly
    <2> QED BY <2>2, <2>4
<1>30. ASSUME NEW n \in DOMAIN ms
       PROVE  /\ b + n \in 1..(Len(p.history) + 1)
              /\ SpeakerAt(p, b + n) = Speaker(ms[n]) /\ Tells(ms[n]) \subseteq TellsAt(p, b + n)
    <2>1. CASE n \in DOMAIN parts.history
        <3>1. parts.history[n] = ms[n]
            BY <2>1, <1>22, <1>23
        <3>2. h[n].role = Speaker(ms[n]) /\ Tells(ms[n]) \subseteq EntryTells(h[n])
            BY <2>1, <3>1, <1>9, <1>11, <1>24, HistoryTold
        <3>3. b + n \in DOMAIN p.history /\ p.history[b + n] = h[n] /\ b + n \in 1..(Len(p.history) + 1)
            BY <2>1, <1>17, <1>20, <1>21
        <3> QED BY <3>2, <3>3 DEF SpeakerAt, TellsAt
    <2>2. CASE n \notin DOMAIN parts.history
        <3>1. parts.history = Front(ms) /\ parts.last = Last(ms) /\ Last(ms).role # "assistant"
            BY <2>2, <1>23
        <3>2. n = Len(ms) /\ parts.last = ms[n] /\ Len(h) = Len(ms) - 1
            BY <2>2, <3>1, <1>17, <1>22
        <3>3. b + n = Len(p.history) + 1
            BY <3>2, <1>20, <1>21, <1>22
        <3>4. b + n \notin DOMAIN p.history /\ b + n \in 1..(Len(p.history) + 1)
            BY <3>3, <1>20, <1>21
        <3>5. SaidBy(ExtractTextContent(parts.last)) \subseteq SaidBy(c.text)
            BY <1>19, <1>27, <1>28
        <3>6. OneAnswerEach(parts.last)
            BY <3>2, <1>7 DEF AllApart
        <3>7. Tells(parts.last) \subseteq EntryTells(c)
            BY <3>5, <3>6, <1>9, <1>16, <1>27, EntryTold
        <3>8. Speaker(ms[n]) = "user"
            BY <3>1, <3>2 DEF Speaker
        <3> QED BY <3>2, <3>4, <3>7, <3>8, <1>15 DEF SpeakerAt, TellsAt
    <2> QED BY <2>1, <2>2
<1>31. ASSUME NEW i \in 1..(Len(p.history) + 1), NEW x \in TellsAt(p, i)
       PROVE  x \in Says(system) \/ (i - b \in DOMAIN ms /\ x \in Says(ms[i - b].blocks))
    <2>1. CASE i \in 1..b
        <3>1. i \in DOMAIN p.history
            BY <2>1, <1>20, <1>21
        <3>2. x \in EntryTells(p.history[i])
            BY <3>1 DEF TellsAt
        <3> QED BY <2>1, <3>2, <1>20, <1>25
    <2>2. CASE i \notin 1..b /\ i # Len(p.history) + 1
        <3>1. PICK n \in Int : n = i - b
            BY <1>20
        <3>2. n \in DOMAIN h /\ i = b + n /\ i \in DOMAIN p.history
            BY <2>2, <3>1, <1>20, <1>21
        <3>3. x \in EntryTells(h[n])
            BY <3>2, <1>20 DEF TellsAt
        <3>4. n \in DOMAIN parts.history /\ x \in Says(parts.history[n].blocks)
            BY <3>2, <3>3, <1>9, <1>11, <1>17, <1>24, HistoryTold
        <3>5. n \in DOMAIN ms /\ parts.history[n] = ms[n]
            BY <3>4, <1>22, <1>23
        <3> QED BY <3>1, <3>4, <3>5
    <2>3. CASE i = Len(p.history) + 1
        <3>1. i \notin DOMAIN p.history
            BY <2>3, <1>20, <1>21
        <3>2. x \in Says(system) \cup Says(parts.last.blocks)
            BY <3>1, <1>15, <1>29 DEF TellsAt
        <3>3. CASE Last(ms).role = "assistant"
            <4>1. parts.last = StringMessage("user", ContinueText)
                BY <3>3, <1>8 DEF SplitMessages
            <4> QED BY <3>2, <4>1, ContinueSays
        <3>4. CASE Last(ms).role # "assistant"
            <4>1. parts.history = Front(ms) /\ parts.last = Last(ms)
                BY <3>4, <1>8 DEF SplitMessages
            <4>2. Len(h) = Len(ms) - 1
                BY <4>1, <1>17, <1>22
            <4>3. i - b = Len(ms)
                BY <2>3, <4>2, <1>20, <1>22
            <4> QED BY <3>2, <4>1, <4>3, <1>22
        <3> QED BY <3>3, <3>4
    <2> QED BY <2>1, <2>2, <2>3
<1> DEFINE place == [n \in DOMAIN msgs |-> b + f[n]]
<1>32. DOMAIN place = DOMAIN msgs /\ \A n \in DOMAIN msgs : place[n] = b + f[n]
    OBVIOUS
<1>33. ASSUME NEW n \in DOMAIN msgs
       PROVE  /\ place[n] \in 1..(Len(p.history) + 1)
              /\ SpeakerAt(p, place[n]) = Speaker(msgs[n]) /\ Tells(msgs[n]) \subseteq TellsAt(p, place[n])
    <2>1. f[n] \in DOMAIN ms /\ Speaker(ms[f[n]]) = Speaker(msgs[n]) /\ Tells(msgs[n]) \subseteq Tells(ms[f[n]])
        BY <1>6 DEF Moved
    <2>2. place[n] = b + f[n]
        BY <1>32
    <2> HIDE DEF place
    <2> QED BY <2>1, <2>2, <1>30
<1>34. ASSUME NEW n \in DOMAIN msgs, NEW k \in DOMAIN msgs, n <= k PROVE place[n] <= place[k]
    <2>1. f[n] <= f[k] /\ f[n] \in DOMAIN ms /\ f[k] \in DOMAIN ms
        BY <1>6, <1>34 DEF Moved
    <2>2. f[n] \in Nat /\ f[k] \in Nat
        BY <2>1, <1>22
    <2> QED BY <2>1, <2>2
<1>35. place \in [DOMAIN msgs -> 1..(Len(p.history) + 1)]
    BY <1>33
<1>36. ASSUME NEW i \in 1..(Len(p.history) + 1), NEW x \in TellsAt(p, i)
       PROVE  x \in Says(system) \/ \E n \in DOMAIN msgs : place[n] = i /\ x \in Says(msgs[n].blocks)
    <2>1. CASE x \in Says(system)
        BY <2>1
    <2>2. CASE x \notin Says(system)
        <3>1. i - b \in DOMAIN ms /\ x \in Says(ms[i - b].blocks)
            BY <2>2, <1>31
        <3>2. PICK n \in DOMAIN msgs : f[n] = i - b /\ x \in Says(msgs[n].blocks)
            BY <3>1, <1>6 DEF Moved
        <3>3. place[n] = b + f[n]
            BY <1>32
        <3> HIDE DEF place
        <3>4. place[n] = i
            BY <3>2, <3>3, <1>20
        <3> QED BY <3>2, <3>4
    <2> QED BY <2>1, <2>2
<1> HIDE DEF place
<1> QED BY <1>33, <1>34, <1>35, <1>36 DEF KeepsPlaces

============================================================================
