--------------------------- MODULE ResolverProofs ---------------------------
(***************************************************************************)
(* Proofs about Solver and Resolver for any catalogs, installed CSVs and   *)
(* Subscriptions: the search keeps its agenda, what it refuses has no      *)
(* solution, and what it returns can be installed.                         *)
(***************************************************************************)
EXTENDS Resolver, FiniteSetTheorems, WellFoundedInduction, TLAPS

-----------------------------------------------------------------------------
(* Induction, stated with sets: the theorems of the library that take an   *)
(* operator cannot be instantiated.                                        *)

\* A family of finite sets has a minimal member.
LEMMA FiniteMin ==
    ASSUME NEW S, IsFiniteSet(S), NEW T \in SUBSET (SUBSET S), T # {}
    PROVE  \E x \in T : \A y \in T : y \subseteq x => y = x
<1>1. IsWellFoundedOn(StrictSubsetOrdering(S), SUBSET S)
  BY FS_StrictSubsetOrderingWellFounded, FS_FiniteSubsetsOfFinite, ZenonT(30)
<1>2. PICK x \in T : \A y \in T : ~(<<y, x>> \in StrictSubsetOrdering(S))
  BY <1>1, WFMin, ZenonT(30)
<1>3. \A y \in T : y \subseteq x /\ y # x => <<y, x>> \in StrictSubsetOrdering(S)
  BY DEF StrictSubsetOrdering
<1>4. ASSUME NEW y \in T, y \subseteq x PROVE y = x
  BY <1>2, <1>3, <1>4, ZenonT(30)
<1>5. QED
  BY <1>4

\* A set of naturals has a least member.
LEMMA NatMin ==
    ASSUME NEW S \in SUBSET Nat, S # {}
    PROVE  \E m \in S : \A k \in S : m <= k
<1>1. PICK n \in S : TRUE
  BY ZenonT(30)
<1> DEFINE T == {0 .. m : m \in {k \in S : k <= n}}
<1>2. T \in SUBSET (SUBSET (0 .. n)) /\ T # {}
  <2>1. \A m \in S : m <= n => 0 .. m \subseteq 0 .. n
    OBVIOUS
  <2>2. 0 .. n \in T
    BY <1>1
  <2>3. QED
    BY <2>1, <2>2
<1>3. IsFiniteSet(0 .. n)
  BY FS_Interval
<1>4. PICK x \in T : \A y \in T : y \subseteq x => y = x
  <2> DEFINE U == 0 .. n
  <2>1. IsFiniteSet(U) /\ T \in SUBSET (SUBSET U) /\ T # {}
    BY <1>2, <1>3
  <2> HIDE DEF T, U
  <2>2. QED
    BY <2>1, FiniteMin
<1>5. PICK m \in S : m <= n /\ x = 0 .. m
  BY <1>4
<1>6. ASSUME NEW k \in S, ~(m <= k) PROVE FALSE
  <2>1. k <= n /\ 0 .. k \subseteq 0 .. m
    BY <1>5, <1>6
  <2>2. 0 .. k = 0 .. m
    BY <2>1, <1>4, <1>5, ZenonT(30)
  <2>3. m \in 0 .. m /\ m \notin 0 .. k
    BY <1>6
  <2>4. QED
    BY <2>2, <2>3
<1>7. QED
  BY <1>6

\* Induction up to n.
LEMMA Upto ==
    ASSUME NEW n \in Nat, NEW P, 0 \in P, \A i \in 1 .. n : i - 1 \in P => i \in P
    PROVE  0 .. n \subseteq P
<1> DEFINE bad == {i \in 0 .. n : i \notin P}
<1> SUFFICES ASSUME bad # {} PROVE FALSE
    OBVIOUS
<1>1. bad \in SUBSET Nat
    OBVIOUS
<1>2. PICK m \in bad : \A k \in bad : m <= k
    <2> HIDE DEF bad
    <2> QED
        BY <1>1, NatMin
<1>3. m \in 1 .. n
    BY <1>2
<1>4. m - 1 \in P
    BY <1>2, <1>3
<1> QED
    BY <1>2, <1>3, <1>4

Steps(n, X) == [(1 .. n) \X X -> X]
Follows(f, n, a, step) == f[0] = a /\ \A i \in 1 .. n : f[i] = step[<<i, f[i - 1]>>]

\* A function is defined by its value at 0 and a step from each value to the next.
LEMMA Recursion ==
    ASSUME NEW n \in Nat, NEW X, NEW a \in X, NEW step \in Steps(n, X)
    PROVE  \E f \in [0 .. n -> X] : Follows(f, n, a, step)
<1> DEFINE Upward(f, k) == f[0] = a /\ \A i \in 1 .. k : f[i] = step[<<i, f[i - 1]>>]
           P == {k \in 0 .. n : \E f \in [0 .. k -> X] : Upward(f, k)}
<1>1. 0 \in P
    <2>1. [i \in 0 .. 0 |-> a] \in [0 .. 0 -> X] /\ Upward([i \in 0 .. 0 |-> a], 0)
        OBVIOUS
    <2> HIDE DEF Upward
    <2> QED
        BY <2>1
<1>2. ASSUME NEW k \in 1 .. n, k - 1 \in P PROVE k \in P
    <2>1. PICK f \in [0 .. k - 1 -> X] : Upward(f, k - 1)
        BY <1>2
    <2> DEFINE g == [i \in 0 .. k |-> IF i = k THEN step[<<k, f[k - 1]>>] ELSE f[i]]
    <2>2. f[k - 1] \in X /\ <<k, f[k - 1]>> \in (1 .. n) \X X
        OBVIOUS
    <2>3. g \in [0 .. k -> X]
        <3>1. step[<<k, f[k - 1]>>] \in X
            BY <2>2 DEF Steps
        <3> QED
            BY <3>1
    <2>4. g[0] = a
        BY <2>1
    <2>5. ASSUME NEW i \in 1 .. k PROVE g[i] = step[<<i, g[i - 1]>>]
        <3>1. g[i - 1] = f[i - 1]
            OBVIOUS
        <3>2. CASE i = k
            <4>1. k \in 0 .. k /\ g[k] = step[<<k, f[k - 1]>>]
                OBVIOUS
            <4> HIDE DEF g
            <4> QED
                BY <3>1, <3>2, <4>1
        <3>3. CASE i # k
            <4>1. i \in 1 .. k - 1 /\ g[i] = f[i]
                BY <3>3
            <4> QED
                BY <3>1, <4>1, <2>1
        <3> QED
            BY <3>2, <3>3
    <2>6. Upward(g, k)
        BY <2>4, <2>5, ZenonT(30)
    <2> HIDE DEF Upward, g
    <2> QED
        BY <2>3, <2>6
<1>3. n \in P
    <2> HIDE DEF P
    <2> QED
        BY <1>1, <1>2, Upto
<1> QED
    BY <1>3 DEF Follows
-----------------------------------------------------------------------------
(* Sequences *)

\* What Filter keeps is in the sequence and in the set.
LEMMA FilterType ==
    ASSUME NEW U, NEW s \in Seq(U), NEW S
    PROVE  Filter(s, S) \in Seq(U \cap S)
<1> DEFINE n == Len(s)
           X == Seq(U \cap S)
           F == CHOOSE g : g = [i \in 0 .. n |->
                    IF i = 0 THEN <<>>
                    ELSE IF s[i] \in S THEN Append(g[i - 1], s[i]) ELSE g[i - 1]]
           step == [p \in (1 .. n) \X X |->
                      IF s[p[1]] \in S THEN Append(p[2], s[p[1]]) ELSE p[2]]
<1>n. n \in Nat /\ \A i \in 1 .. n : s[i] \in U
    OBVIOUS
<1>1. \A i \in 1 .. n, x \in X : (IF s[i] \in S THEN Append(x, s[i]) ELSE x) \in X
    BY <1>n
<1>2. step \in Steps(n, X)
    BY <1>1 DEF Steps
<1>3. \A i \in 1 .. n, x \in X : step[<<i, x>>] = IF s[i] \in S THEN Append(x, s[i]) ELSE x
    OBVIOUS
<1>4. <<>> \in X
    OBVIOUS
<1>5. PICK f \in [0 .. n -> X] : Follows(f, n, <<>>, step)
    <2> HIDE DEF step, X, n
    <2> QED
        BY <1>n, <1>2, <1>4, Recursion, ZenonT(30)
<1>6. f = [i \in 0 .. n |->
             IF i = 0 THEN <<>>
             ELSE IF s[i] \in S THEN Append(f[i - 1], s[i]) ELSE f[i - 1]]
    <2> HIDE DEF step, X, n
    <2>1. \A i \in 1 .. n : f[i - 1] \in X
        BY <1>n
    <2>2. \A i \in 1 .. n : f[i] = IF s[i] \in S THEN Append(f[i - 1], s[i]) ELSE f[i - 1]
        BY <2>1, <1>3, <1>5, ZenonT(30) DEF Follows
    <2>3. \A i \in 0 .. n : i = 0 \/ i \in 1 .. n
        BY <1>n
    <2>4. \A i \in 0 .. n : f[i] =
             IF i = 0 THEN <<>>
             ELSE IF s[i] \in S THEN Append(f[i - 1], s[i]) ELSE f[i - 1]
        BY <2>2, <2>3, <1>5, ZenonT(30) DEF Follows
    <2> QED
        BY <2>4, ZenonT(30)
<1>7. F = [i \in 0 .. n |->
             IF i = 0 THEN <<>>
             ELSE IF s[i] \in S THEN Append(F[i - 1], s[i]) ELSE F[i - 1]]
    BY <1>6, ZenonT(30)
<1>8. 0 .. n \subseteq {i \in 0 .. n : F[i] \in X}
    <2> DEFINE P == {i \in 0 .. n : F[i] \in X}
    <2> HIDE DEF F, X, n, step
    <2>1. 0 \in P
        BY <1>n, <1>4, <1>7
    <2>2. ASSUME NEW i \in 1 .. n, i - 1 \in P PROVE i \in P
        <3>1. i \in 0 .. n /\ i # 0 /\ F[i - 1] \in X
            BY <2>2, <1>n
        <3>2. F[i] = IF s[i] \in S THEN Append(F[i - 1], s[i]) ELSE F[i - 1]
            BY <3>1, <1>7, ZenonT(30)
        <3>3. F[i] \in X
            BY <3>1, <3>2, <1>1, ZenonT(30)
        <3> QED
            BY <3>1, <3>3
    <2> HIDE DEF P
    <2>3. 0 .. n \subseteq P
        BY <2>1, <2>2, <1>n, Upto, ZenonT(30)
    <2> QED
        BY <2>3 DEF P
<1>9. Filter(s, S) = F[n]
    BY DEF Filter
<1> QED
    <2> HIDE DEF F, X, n
    <2>1. F[n] \in X
        BY <1>8, <1>n
    <2> QED
        BY <2>1, <1>9 DEF X

\* The sequences that FlattenSeq concatenates one after the other.
Flattens(f, seqs) ==
    f[0] = <<>> /\ \A i \in 1 .. Len(seqs) : f[i] = f[i - 1] \o seqs[i]

\* There are the partial concatenations of a sequence of sequences.
LEMMA FlattensExists ==
    ASSUME NEW U, NEW seqs \in Seq(Seq(U))
    PROVE  \E f \in [0 .. Len(seqs) -> Seq(U)] : Flattens(f, seqs)
<1> DEFINE n == Len(seqs)
           X == Seq(U)
           step == [p \in (1 .. n) \X X |-> p[2] \o seqs[p[1]]]
<1>n. n \in Nat /\ \A i \in 1 .. n : seqs[i] \in X
    OBVIOUS
<1>1. step \in Steps(n, X) /\ <<>> \in X
    BY <1>n DEF Steps
<1>2. \A i \in 1 .. n, x \in X : step[<<i, x>>] = x \o seqs[i]
    BY ZenonT(30)
<1>3. PICK f \in [0 .. n -> X] : Follows(f, n, <<>>, step)
    <2> HIDE DEF step, X, n
    <2> QED
        BY <1>n, <1>1, Recursion, ZenonT(30)
<1>4. \A i \in 1 .. n : f[i - 1] \in X
    <2> HIDE DEF X, n
    <2> QED
        BY <1>n
<1>5. Flattens(f, seqs)
    <2> HIDE DEF step, X
    <2> QED
        BY <1>2, <1>3, <1>4, ZenonT(30) DEF Flattens, Follows
<1> QED
    BY <1>5

\* FlattenSeq is the last of them.
LEMMA FlattenIs ==
    ASSUME NEW U, NEW seqs \in Seq(Seq(U)),
           NEW f \in [0 .. Len(seqs) -> Seq(U)], Flattens(f, seqs)
    PROVE  FlattenSeq(seqs) = f[Len(seqs)]
<1> DEFINE n == Len(seqs)
           F == CHOOSE g : g = [i \in 0 .. n |-> IF i = 0 THEN <<>> ELSE g[i - 1] \o seqs[i]]
<1>n. n \in Nat
    OBVIOUS
<1>1. \A i \in 0 .. n : f[i] = IF i = 0 THEN <<>> ELSE f[i - 1] \o seqs[i]
    <2>1. \A i \in 0 .. n : i # 0 => i \in 1 .. n
        BY <1>n
    <2> QED
        BY <2>1, ZenonT(30) DEF Flattens
<1>2. f = [i \in 0 .. n |-> IF i = 0 THEN <<>> ELSE f[i - 1] \o seqs[i]]
    BY <1>1, ZenonT(30)
<1>3. F = [i \in 0 .. n |-> IF i = 0 THEN <<>> ELSE F[i - 1] \o seqs[i]]
    BY <1>2, ZenonT(30)
<1>4. FlattenSeq(seqs) = F[n]
    BY ZenonT(30) DEF FlattenSeq
<1> HIDE DEF F
<1> DEFINE P == {i \in 0 .. n : F[i] = f[i]}
<1>5. 0 \in P
    <2>1. 0 \in 0 .. n
        BY <1>n
    <2> QED
        BY <2>1, <1>1, <1>3, ZenonT(30)
<1>6. ASSUME NEW i \in 1 .. n, i - 1 \in P PROVE i \in P
    <2>1. i \in 0 .. n /\ i # 0
        BY <1>n
    <2>2. F[i - 1] = f[i - 1]
        BY <1>6
    <2> QED
        BY <2>1, <2>2, <1>1, <1>3, ZenonT(30)
<1>7. 0 .. n \subseteq P
    <2> HIDE DEF P, n
    <2> QED
        BY <1>n, <1>5, <1>6, Upto, ZenonT(30)
<1>8. n \in 0 .. n
    BY <1>n
<1> QED
    BY <1>4, <1>7, <1>8

\* Of no sequences it is empty.
LEMMA FlattenNone == FlattenSeq(<<>>) = <<>>
<1> DEFINE E == <<>>
<1>1. E \in Seq(Seq({})) /\ Len(E) = 0
    OBVIOUS
<1> HIDE DEF E
<1>2. PICK f \in [0 .. Len(E) -> Seq({})] : Flattens(f, E)
    BY <1>1, FlattensExists, ZenonT(30)
<1>3. FlattenSeq(E) = f[Len(E)]
    BY <1>1, <1>2, FlattenIs, ZenonT(30)
<1> QED
    BY <1>1, <1>2, <1>3 DEF Flattens, E

\* FlattenSeq of sequences over U is one, and goes on with each sequence added.
LEMMA FlattenFacts ==
    ASSUME NEW U, NEW seqs \in Seq(Seq(U)), NEW x \in Seq(U)
    PROVE  /\ FlattenSeq(seqs) \in Seq(U)
           /\ FlattenSeq(Append(seqs, x)) = FlattenSeq(seqs) \o x
<1> DEFINE n == Len(seqs)
           t == Append(seqs, x)
<1>1. /\ n \in Nat /\ t \in Seq(Seq(U)) /\ Len(t) = n + 1 /\ t[n + 1] = x
      /\ \A i \in 1 .. n : t[i] = seqs[i]
    OBVIOUS
<1> HIDE DEF t
<1>2. PICK f \in [0 .. Len(t) -> Seq(U)] : Flattens(f, t)
    BY <1>1, FlattensExists, ZenonT(30)
<1> DEFINE g == [i \in 0 .. n |-> f[i]]
<1>3. g \in [0 .. n -> Seq(U)]
    BY <1>1
<1>4. Flattens(g, seqs)
    <2>1. g[0] = <<>>
        BY <1>1, <1>2 DEF Flattens
    <2>2. ASSUME NEW i \in 1 .. n PROVE g[i] = g[i - 1] \o seqs[i]
        <3>1. i \in 1 .. Len(t) /\ g[i] = f[i] /\ g[i - 1] = f[i - 1] /\ t[i] = seqs[i]
            BY <1>1
        <3> QED
            BY <3>1, <1>2, ZenonT(30) DEF Flattens
    <2> QED
        BY <2>1, <2>2 DEF Flattens
<1>5. FlattenSeq(seqs) = g[n]
    BY <1>3, <1>4, FlattenIs, ZenonT(30)
<1>6. FlattenSeq(t) = f[n + 1]
    BY <1>1, <1>2, FlattenIs, ZenonT(30)
<1>7. f[n + 1] = f[n] \o x
    <2>1. n + 1 \in 1 .. Len(t) /\ (n + 1) - 1 = n
        BY <1>1
    <2> QED
        BY <2>1, <1>1, <1>2, ZenonT(30) DEF Flattens
<1>8. g[n] = f[n] /\ g[n] \in Seq(U)
    BY <1>1, <1>3
<1> QED
    BY <1>5, <1>6, <1>7, <1>8, ZenonT(30) DEF t

\* The elements of a sequence: over its set, at its indices, finitely many.
LEMMA RangeFacts ==
    ASSUME NEW U, NEW s \in Seq(U)
    PROVE  /\ Range(s) \subseteq U
           /\ \A i \in 1 .. Len(s) : s[i] \in Range(s)
           /\ \A x \in Range(s) : \E i \in 1 .. Len(s) : s[i] = x
           /\ IsFiniteSet(Range(s))
<1>1. DOMAIN s = 1 .. Len(s) /\ Len(s) \in Nat /\ \A i \in 1 .. Len(s) : s[i] \in U
    OBVIOUS
<1>2. Range(s) = {s[i] : i \in 1 .. Len(s)}
    BY <1>1 DEF Range
<1>3. IsFiniteSet(Range(s))
    <2>1. [i \in 1 .. Len(s) |-> s[i]] \in Surjection(1 .. Len(s), Range(s))
        BY <1>2 DEF Surjection
    <2> QED
        BY <1>1, <2>1, FS_Interval, FS_Surjection
<1> QED
    BY <1>1, <1>2, <1>3

\* The elements of a concatenation.
LEMMA ConcatFacts ==
    ASSUME NEW U, NEW s \in Seq(U), NEW t \in Seq(U)
    PROVE  s \o t \in Seq(U) /\ Range(s \o t) = Range(s) \cup Range(t)
<1> DEFINE c == s \o t
<1>1. /\ c \in Seq(U) /\ Len(c) = Len(s) + Len(t) /\ Len(s) \in Nat /\ Len(t) \in Nat
      /\ \A i \in 1 .. Len(s) : c[i] = s[i]
      /\ \A i \in 1 .. Len(t) : c[Len(s) + i] = t[i]
    OBVIOUS
<1> HIDE DEF c
<1>2. ASSUME NEW x \in Range(c) PROVE x \in Range(s) \cup Range(t)
    <2>1. PICK i \in 1 .. Len(c) : c[i] = x
        BY <1>1, RangeFacts, ZenonT(30)
    <2>2. CASE i <= Len(s)
        <3>1. i \in 1 .. Len(s)
            BY <2>2, <1>1
        <3> QED
            BY <3>1, <2>1, <1>1, RangeFacts
    <2>3. CASE ~(i <= Len(s))
        <3>1. i - Len(s) \in 1 .. Len(t) /\ Len(s) + (i - Len(s)) = i
            BY <2>3, <1>1
        <3>2. t[i - Len(s)] = x
            BY <3>1, <2>1, <1>1
        <3> QED
            BY <3>1, <3>2, RangeFacts
    <2> QED
        BY <2>2, <2>3
<1>3. ASSUME NEW x \in Range(s) \cup Range(t) PROVE x \in Range(c)
    <2>1. CASE x \in Range(s)
        <3>1. PICK i \in 1 .. Len(s) : s[i] = x
            BY <2>1, RangeFacts
        <3>2. i \in 1 .. Len(c) /\ c[i] = x
            BY <3>1, <1>1
        <3> QED
            BY <3>2, <1>1, RangeFacts
    <2>2. CASE x \in Range(t)
        <3>1. PICK i \in 1 .. Len(t) : t[i] = x
            BY <2>2, RangeFacts
        <3>2. Len(s) + i \in 1 .. Len(c) /\ c[Len(s) + i] = x
            BY <3>1, <1>1
        <3> QED
            BY <3>2, <1>1, RangeFacts
    <2> QED
        BY <2>1, <2>2, <1>3
<1> QED
    BY <1>1, <1>2, <1>3 DEF c

\* SetToSeq lists the elements of a finite set.
LEMMA SetToSeqFacts ==
    ASSUME NEW S, IsFiniteSet(S)
    PROVE  SetToSeq(S) \in Seq(S) /\ Range(SetToSeq(S)) = S
<1> DEFINE n == Cardinality(S)
           f == SetToSeq(S)
<1>1. n \in Nat /\ ExistsBijection(1 .. n, S)
    BY FS_CardinalityType
<1>2. PICK g : g \in Bijection(1 .. n, S)
    BY <1>1 DEF ExistsBijection
<1>3. g \in [1 .. n -> S] /\ IsInjective(g)
    BY <1>2 DEF Bijection, Injection, IsInjective
<1>4. f \in [1 .. n -> S] /\ IsInjective(f)
    <2>1. g \in SetToSeqs(S)
        BY <1>3 DEF SetToSeqs
    <2>2. f \in SetToSeqs(S)
        BY <2>1, ZenonT(30) DEF SetToSeq
    <2> QED
        BY <2>2 DEF SetToSeqs
<1>5. f \in Seq(S) /\ DOMAIN f = 1 .. n
    BY <1>1, <1>4
<1>6. f \in Surjection(1 .. n, S)
    <2>1. f \in Injection(1 .. n, S)
        BY <1>4 DEF Injection, IsInjective
    <2>2. IsFiniteSet(1 .. n) /\ Cardinality(1 .. n) = n
        BY <1>1, FS_Interval
    <2> HIDE DEF f
    <2> QED
        BY <2>1, <2>2, FS_Injection
<1>7. Range(f) = S
    <2> HIDE DEF f
    <2> QED
        BY <1>5, <1>6 DEF Range, Surjection
<1> QED
    BY <1>5, <1>7

\* A sequence has no more elements than positions.
LEMMA RangeBound ==
    ASSUME NEW U, NEW s \in Seq(U)
    PROVE  Cardinality(Range(s)) <= Len(s)
<1>1. [i \in 1 .. Len(s) |-> s[i]] \in Surjection(1 .. Len(s), Range(s))
    BY RangeFacts DEF Surjection
<1>2. Len(s) \in Nat /\ IsFiniteSet(1 .. Len(s)) /\ Cardinality(1 .. Len(s)) = Len(s)
    <2>1. Len(s) \in Nat
        OBVIOUS
    <2> DEFINE k == Len(s)
    <2> HIDE DEF k
    <2>2. k \in Nat
        BY <2>1 DEF k
    <2>3. IsFiniteSet(1 .. k) /\ Cardinality(1 .. k) = k
        BY <2>2, FS_Interval
    <2> QED
        BY <2>2, <2>3 DEF k
<1> QED
    BY <1>1, <1>2, FS_Surjection

\* Listed lists elements of the set.
LEMMA ListedType ==
    ASSUME NEW S, IsFiniteSet(S)
    PROVE  Listed(S) \in Seq(S)
<1> DEFINE n == Cardinality(S)
           X == Seq(S)
           More(l) == Append(l, CHOOSE v \in S : v \notin Range(l))
           step == [p \in (1 .. n) \X X |-> IF Range(p[2]) = S THEN p[2] ELSE More(p[2])]
           F == CHOOSE g : g = [i \in 0 .. n |->
                    IF i = 0 THEN <<>>
                    ELSE LET l == g[i - 1] IN Append(l, CHOOSE v \in S : v \notin Range(l))]
<1>n. n \in Nat /\ <<>> \in X
    BY FS_CardinalityType
<1>1. \A l \in X : Range(l) # S => More(l) \in X /\ Len(More(l)) = Len(l) + 1
    <2> SUFFICES ASSUME NEW l \in X, Range(l) # S
                 PROVE  More(l) \in X /\ Len(More(l)) = Len(l) + 1
        OBVIOUS
    <2>1. \E v \in S : v \notin Range(l)
        BY RangeFacts, ZenonT(30)
    <2>2. (CHOOSE v \in S : v \notin Range(l)) \in S
        BY <2>1, ZenonT(30)
    <2> QED
        BY <2>2
<1> HIDE DEF More
<1>2. step \in Steps(n, X)
    BY <1>1 DEF Steps
<1>3. \A i \in 1 .. n, l \in X : step[<<i, l>>] = IF Range(l) = S THEN l ELSE More(l)
    OBVIOUS
<1>4. PICK f \in [0 .. n -> X] : Follows(f, n, <<>>, step)
    <2> HIDE DEF step, X, n
    <2> QED
        BY <1>n, <1>2, Recursion, ZenonT(30)
<1>5. ASSUME NEW i \in 1 .. n, NEW l \in X, Len(l) = i - 1 PROVE Range(l) # S
    BY <1>5, <1>n, RangeBound
<1> DEFINE P == {i \in 0 .. n : Len(f[i]) = i}
<1>6. 0 .. n \subseteq P
    <2>1. 0 \in P
        BY <1>4, <1>n DEF Follows
    <2>2. ASSUME NEW i \in 1 .. n, i - 1 \in P PROVE i \in P
        <3>1. f[i - 1] \in X /\ Len(f[i - 1]) = i - 1
            BY <2>2, <1>n
        <3>2. f[i] = step[<<i, f[i - 1]>>]
            BY <1>4, ZenonT(30) DEF Follows
        <3>3. f[i] = More(f[i - 1]) /\ Len(f[i]) = Len(f[i - 1]) + 1
            <4> HIDE DEF X, step, n
            <4> QED
                BY <3>1, <3>2, <1>1, <1>3, <1>5, ZenonT(30)
        <3> QED
            BY <3>1, <3>3, <1>n
    <2> HIDE DEF P, n, X, step
    <2> QED
        BY <1>n, <2>1, <2>2, Upto, ZenonT(30)
<1>7. ASSUME NEW i \in 1 .. n PROVE f[i] = More(f[i - 1])
    <2>1. i - 1 \in P /\ i - 1 \in 0 .. n
        BY <1>6, <1>n
    <2>2. f[i - 1] \in X /\ Len(f[i - 1]) = i - 1
        BY <2>1
    <2>3. f[i] = step[<<i, f[i - 1]>>]
        BY <1>4, ZenonT(30) DEF Follows
    <2> HIDE DEF X, step, n
    <2> QED
        BY <2>2, <2>3, <1>3, <1>5, ZenonT(30)
<1>8. f = [i \in 0 .. n |-> IF i = 0 THEN <<>> ELSE More(f[i - 1])]
    <2>1. \A i \in 0 .. n : i = 0 \/ i \in 1 .. n
        BY <1>n
    <2>2. \A i \in 0 .. n : f[i] = IF i = 0 THEN <<>> ELSE More(f[i - 1])
        BY <2>1, <1>4, <1>7, ZenonT(30) DEF Follows
    <2> HIDE DEF n, X
    <2> QED
        BY <2>2, ZenonT(30)
<1>9. F = [i \in 0 .. n |-> IF i = 0 THEN <<>> ELSE More(F[i - 1])]
    BY <1>8, ZenonT(30) DEF More
<1> HIDE DEF F
<1> DEFINE Q == {i \in 0 .. n : F[i] = f[i]}
<1>10. 0 .. n \subseteq Q
    <2>1. 0 \in Q
        BY <1>4, <1>9, <1>n DEF Follows
    <2>2. ASSUME NEW i \in 1 .. n, i - 1 \in Q PROVE i \in Q
        <3>1. F[i - 1] = f[i - 1] /\ i \in 0 .. n /\ i # 0
            BY <2>2, <1>n
        <3>2. F[i] = More(F[i - 1])
            BY <3>1, <1>9, ZenonT(30)
        <3> QED
            BY <3>1, <3>2, <1>7
    <2> HIDE DEF Q, n
    <2> QED
        BY <1>n, <2>1, <2>2, Upto, ZenonT(30)
<1>11. Listed(S) = F[n]
    BY DEF Listed, F
<1>12. n \in 0 .. n
    BY <1>n
<1> QED
    BY <1>10, <1>11, <1>12
-----------------------------------------------------------------------------
(* The sorted lists of bundles *)

ChainStep(bundles, l) ==
    l \o SetToSeq({b \in bundles : b.name = Last(l).replaces})

\* sortChannel fails, or lists bundles of the channel.
LEMMA SortChannelType ==
    ASSUME NEW bundles, IsFiniteSet(bundles)
    PROVE  sortChannel(bundles) \in Seq(bundles) \cup {ErrorSeq}
<1> DEFINE n == Cardinality(bundles)
           X == Seq(bundles)
           heads == {b \in bundles : \A c \in bundles :
                        b.name # c.replaces /\ b.name \notin c.skips}
           step == [p \in (1 .. n) \X X |-> ChainStep(bundles, p[2])]
           F == CHOOSE g : g = [i \in 0 .. n |->
                    IF i = 0 THEN SetToSeq(heads)
                    ELSE LET to == {b \in bundles : b.name = Last(g[i - 1]).replaces} IN
                         g[i - 1] \o SetToSeq(to)]
<1>n. n \in Nat
    BY FS_CardinalityType
<1>s. \A S \in SUBSET bundles : SetToSeq(S) \in X
    <2> SUFFICES ASSUME NEW S \in SUBSET bundles PROVE SetToSeq(S) \in X
        OBVIOUS
    <2>1. IsFiniteSet(S)
        BY FS_Subset
    <2>2. SetToSeq(S) \in Seq(S)
        BY <2>1, SetToSeqFacts, ZenonT(30)
    <2> QED
        BY <2>2
<1>1. \A l \in X : ChainStep(bundles, l) \in X
    BY <1>s DEF ChainStep
<1>2. step \in Steps(n, X) /\ SetToSeq(heads) \in X
    BY <1>1, <1>s DEF Steps
<1>3. \A i \in 1 .. n, l \in X : step[<<i, l>>] = ChainStep(bundles, l)
    OBVIOUS
<1>4. PICK f \in [0 .. n -> X] : Follows(f, n, SetToSeq(heads), step)
    <2> HIDE DEF step, X, n, heads
    <2> QED
        BY <1>n, <1>2, Recursion, ZenonT(30)
<1>5. f = [i \in 0 .. n |-> IF i = 0 THEN SetToSeq(heads) ELSE ChainStep(bundles, f[i - 1])]
    <2> HIDE DEF step, X, n, heads
    <2>1. \A i \in 0 .. n : i = 0 \/ (i \in 1 .. n /\ f[i - 1] \in X)
        BY <1>n
    <2>2. \A i \in 0 .. n :
             f[i] = IF i = 0 THEN SetToSeq(heads) ELSE ChainStep(bundles, f[i - 1])
        BY <2>1, <1>3, <1>4, ZenonT(30) DEF Follows
    <2> QED
        BY <2>2, ZenonT(30)
<1>6. F = [i \in 0 .. n |-> IF i = 0 THEN SetToSeq(heads) ELSE ChainStep(bundles, F[i - 1])]
    BY <1>5, ZenonT(30) DEF ChainStep
<1> DEFINE P == {i \in 0 .. n : F[i] \in X}
<1>7. 0 .. n \subseteq P
    <2> HIDE DEF F, X, n, heads
    <2>1. 0 \in P
        BY <1>n, <1>2, <1>6
    <2>2. ASSUME NEW i \in 1 .. n, i - 1 \in P PROVE i \in P
        <3>1. i \in 0 .. n /\ i # 0 /\ F[i - 1] \in X
            BY <2>2, <1>n
        <3>2. F[i] = ChainStep(bundles, F[i - 1])
            BY <3>1, <1>6, ZenonT(30)
        <3> QED
            BY <3>1, <3>2, <1>1, ZenonT(30)
    <2> HIDE DEF P
    <2> QED
        BY <1>n, <2>1, <2>2, Upto
<1>8. F[n] \in X
    <2> HIDE DEF F, X, n
    <2> QED
        BY <1>7, <1>n
<1>9. \A S : Filter(F[n], S) \in X
    <2> SUFFICES ASSUME NEW S PROVE Filter(F[n], S) \in X
        BY ZenonT(30)
    <2> HIDE DEF F, n
    <2>1. Filter(F[n], S) \in Seq(bundles \cap S)
        BY <1>8, FilterType, ZenonT(30)
    <2> QED
        BY <2>1
<1> QED
    <2> DEFINE unskipped == {b \in bundles : b.name \notin UNION {c.skips : c \in bundles}}
    <2>1. sortChannel(bundles) =
             IF bundles = {} THEN <<>>
             ELSE IF Cardinality(heads) # 1 THEN ErrorSeq
             ELSE IF Len(F[n]) > n THEN ErrorSeq
             ELSE Filter(F[n], unskipped)
        BY ZenonT(30) DEF sortChannel
    <2> HIDE DEF F, n, unskipped, heads
    <2> QED
        BY <2>1, <1>9

\* Sequences whose elements are sequences over U or the error.
LEMMA JoinedType ==
    ASSUME NEW U, NEW seqs \in Seq(Seq(U) \cup {ErrorSeq})
    PROVE  Joined(seqs) \in Seq(U) \cup {ErrorSeq}
<1>1. CASE \E i \in DOMAIN seqs : seqs[i] = ErrorSeq
    BY <1>1 DEF Joined
<1>2. CASE ~ \E i \in DOMAIN seqs : seqs[i] = ErrorSeq
    <2>1. seqs \in Seq(Seq(U))
        <3>1. DOMAIN seqs = 1 .. Len(seqs) /\ Len(seqs) \in Nat
              /\ \A i \in 1 .. Len(seqs) : seqs[i] \in Seq(U) \cup {ErrorSeq}
            OBVIOUS
        <3>2. \A i \in 1 .. Len(seqs) : seqs[i] \in Seq(U)
            BY <1>2, <3>1, ZenonT(30)
        <3>3. seqs = [i \in 1 .. Len(seqs) |-> seqs[i]]
            BY <3>1
        <3> QED
            BY <3>1, <3>2, <3>3
    <2>2. <<>> \in Seq(U)
        OBVIOUS
    <2>3. FlattenSeq(seqs) \in Seq(U)
        BY <2>1, <2>2, FlattenFacts, ZenonT(30)
    <2> QED
        BY <2>3, <1>2 DEF Joined
<1> QED
    BY <1>1, <1>2

\* A sequence, mapped, is one.
LEMMA MappedType ==
    ASSUME NEW U, NEW V, NEW s \in Seq(V), NEW f, DOMAIN f = DOMAIN s,
           f = [i \in DOMAIN s |-> f[i]], \A i \in DOMAIN s : f[i] \in U
    PROVE  f \in Seq(U) /\ Len(f) = Len(s)
<1>1. DOMAIN s = 1 .. Len(s) /\ Len(s) \in Nat
    OBVIOUS
<1>2. f \in [1 .. Len(s) -> U]
    BY <1>1
<1> QED
    BY <1>1, <1>2

\* One catalog, sorted by channel: an error, or bundles of it.
LEMMA SortedCatalogType ==
    ASSUME NEW bundles, IsFiniteSet(bundles)
    PROVE  SortedCatalog(bundles) \in Seq(bundles) \cup {ErrorSeq}
<1> DEFINE C == Range(ChannelOrder)
           Of_(pc) == {b \in bundles : <<b.pkg, b.channel>> = pc}
           in == Filter(ChannelOrder, DefaultChannel)
                    \o Filter(ChannelOrder, Range(ChannelOrder) \ DefaultChannel)
           f == [i \in DOMAIN in |-> sortChannel(Of_(in[i]))]
<1>1. in \in Seq(C)
    <2>1. ChannelOrder \in Seq(C)
        BY WorldsAssumption
    <2>2. \A S : Filter(ChannelOrder, S) \in Seq(C)
        <3> SUFFICES ASSUME NEW S PROVE Filter(ChannelOrder, S) \in Seq(C)
            OBVIOUS
        <3>1. Filter(ChannelOrder, S) \in Seq(C \cap S)
            <4> HIDE DEF C
            <4> QED
                BY <2>1, FilterType, ZenonT(30)
        <3> QED
            BY <3>1
    <2> HIDE DEF C
    <2> QED
        BY <2>2
<1> HIDE DEF in
<1>2. \A i \in DOMAIN in : f[i] \in Seq(bundles) \cup {ErrorSeq}
    <2> SUFFICES ASSUME NEW i \in DOMAIN in
                 PROVE  sortChannel(Of_(in[i])) \in Seq(bundles) \cup {ErrorSeq}
        OBVIOUS
    <2> DEFINE B == Of_(in[i])
    <2>1. B \in SUBSET bundles
        OBVIOUS
    <2> HIDE DEF B
    <2>2. IsFiniteSet(B)
        BY <2>1, FS_Subset
    <2>3. sortChannel(B) \in Seq(B) \cup {ErrorSeq}
        BY <2>2, SortChannelType
    <2>4. sortChannel(B) \in Seq(bundles) \cup {ErrorSeq}
        BY <2>1, <2>3
    <2> QED
        BY <2>4 DEF B
<1>3. f \in Seq(Seq(bundles) \cup {ErrorSeq})
    <2>1. DOMAIN f = DOMAIN in /\ f = [i \in DOMAIN in |-> f[i]]
        BY ZenonT(30)
    <2> HIDE DEF f, C
    <2> QED
        BY <1>1, <1>2, <2>1, MappedType
<1>4. SortedCatalog(bundles) = Joined(f)
    BY ZenonT(30) DEF SortedCatalog, in
<1> HIDE DEF f
<1> QED
    BY <1>3, <1>4, JoinedType

\* sortBundles fails, or lists the bundles it was given.
LEMMA SortBundlesType ==
    ASSUME NEW catalog, NEW bundles, IsFiniteSet(bundles)
    PROVE  sortBundles(catalog, bundles) \in Seq(bundles) \cup {ErrorSeq}
<1> DEFINE C == Range(CatalogOrder) \cup {Existing, catalog}
           In_(c) == {b \in bundles : b.catalog = c}
           cs == Preferred(catalog)
           f == [i \in DOMAIN cs |-> SortedCatalog(In_(cs[i]))]
<1>1. cs \in Seq(C)
    <2> DEFINE rest == Filter(CatalogOrder, Range(CatalogOrder) \ {catalog})
    <2>1. CatalogOrder \in Seq(C)
        BY WorldsAssumption
    <2>2. rest \in Seq(C \cap (Range(CatalogOrder) \ {catalog}))
        <3> HIDE DEF C
        <3> QED
            BY <2>1, FilterType, ZenonT(30)
    <2>3. rest \in Seq(C)
        BY <2>2
    <2>4. Existing \in C /\ catalog \in C
        OBVIOUS
    <2> HIDE DEF C, rest
    <2>5. <<Existing>> \in Seq(C) /\ <<catalog>> \in Seq(C) /\ <<>> \in Seq(C)
        BY <2>4
    <2>6. (IF catalog = Existing THEN <<>> ELSE <<catalog>>) \in Seq(C)
        BY <2>5, ZenonT(30)
    <2>7. <<Existing>> \o (IF catalog = Existing THEN <<>> ELSE <<catalog>>) \o rest \in Seq(C)
        BY <2>3, <2>5, <2>6, ConcatFacts, ZenonT(30)
    <2> QED
        BY <2>7 DEF Preferred, rest
<1> HIDE DEF cs
<1>2. \A i \in DOMAIN cs : f[i] \in Seq(bundles) \cup {ErrorSeq}
    <2> SUFFICES ASSUME NEW i \in DOMAIN cs
                 PROVE  SortedCatalog(In_(cs[i])) \in Seq(bundles) \cup {ErrorSeq}
        OBVIOUS
    <2> DEFINE B == In_(cs[i])
    <2>1. B \in SUBSET bundles
        OBVIOUS
    <2> HIDE DEF B
    <2>2. IsFiniteSet(B)
        BY <2>1, FS_Subset
    <2>3. SortedCatalog(B) \in Seq(B) \cup {ErrorSeq}
        BY <2>2, SortedCatalogType
    <2>4. SortedCatalog(B) \in Seq(bundles) \cup {ErrorSeq}
        BY <2>1, <2>3
    <2> QED
        BY <2>4 DEF B
<1>3. f \in Seq(Seq(bundles) \cup {ErrorSeq})
    <2>1. DOMAIN f = DOMAIN cs /\ f = [i \in DOMAIN cs |-> f[i]]
        BY ZenonT(30)
    <2> HIDE DEF f, C
    <2> QED
        BY <1>1, <1>2, <2>1, MappedType
<1>4. sortBundles(catalog, bundles) = Joined(f)
    BY ZenonT(30) DEF sortBundles, cs
<1> HIDE DEF f
<1> QED
    BY <1>3, <1>4, JoinedType
-----------------------------------------------------------------------------
(* What is known of the world *)

\* The world is one of Worlds: what WorldsAssumption says of it.
Tidy ==
    /\ IsFiniteSet(Entries) /\ IsFiniteSet(world.subs)
    /\ \A e \in Entries : IsFiniteSet(e.provides) /\ e.requires \in Seq(Range(e.requires))
    /\ \A e, f \in Entries : bundleID(e) = bundleID(f) => e = f
    /\ \A e, f \in Entries : Virtual(e) /\ Virtual(f) /\ e.name = f.name => e = f
    /\ \A s, t \in world.subs : s.name = t.name => s = t
    /\ \A s \in world.subs : s.catalog # Existing /\ s.pkg # NoName

\* WorldsAssumption, of the world at hand.
LEMMA WorldTidy ==
    ASSUME world \in Worlds
    PROVE  Tidy
BY WorldsAssumption, ZenonT(30) DEF Tidy, Entries

\* Providers fails, or lists entries that meet the dependency.
LEMMA ProvidersType ==
    ASSUME Tidy, NEW b, NEW d
    PROVE  Providers(b, d) \in Seq({e \in Entries : Test_(d, e)}) \cup {ErrorSeq}
<1> DEFINE found == {e \in Entries : Test_(d, e)}
           sources == {f \in found : Virtual(f) =>
                       f = CHOOSE g \in found : SameSource(g, f)}
           Near(e) == \E f \in sources :
                       /\ e.catalog = f.catalog
                       /\ IF Virtual(f) THEN e.name = f.name
                          ELSE <<e.pkg, e.channel>> = <<f.pkg, f.channel>>
           near == {e \in Entries : Near(e)}
           sorted == sortBundles(b.catalog, near)
<1>1. near \in SUBSET Entries /\ IsFiniteSet(near)
    <2>1. near \in SUBSET Entries
        OBVIOUS
    <2> HIDE DEF near
    <2> QED
        BY <2>1, FS_Subset DEF Tidy
<1>2. Providers(b, d) = IF sorted = ErrorSeq THEN ErrorSeq ELSE Filter(sorted, found)
    BY ZenonT(30) DEF Providers
<1> HIDE DEF near
<1>3. sorted \in Seq(near) \cup {ErrorSeq}
    BY <1>1, SortBundlesType
<1> HIDE DEF sorted
<1>4. CASE sorted = ErrorSeq
    BY <1>2, <1>4
<1>5. CASE sorted # ErrorSeq
    <2>1. Filter(sorted, found) \in Seq(near \cap found)
        <3> HIDE DEF found
        <3> QED
            BY <1>3, <1>5, FilterType
    <2>2. Filter(sorted, found) \in Seq(found)
        BY <2>1
    <2> QED
        BY <2>2, <1>2, <1>5, ZenonT(30)
<1> QED
    BY <1>4, <1>5

\* The candidates of a Subscription are entries of its channel.
LEMMA CandidatesType ==
    ASSUME Tidy, NEW s
    PROVE  /\ Candidates(s) \in Seq(Channel(s))
           /\ Channel(s) \in SUBSET Entries
           /\ Upgrades(s) \in SUBSET Channel(s)
<1>1. Channel(s) \in SUBSET Entries
    BY ZenonT(30) DEF Channel
<1>2. IsFiniteSet(Channel(s))
    BY <1>1, FS_Subset DEF Tidy
<1> DEFINE sorted == sortChannel(Channel(s))
           keep == {e \in Channel(s) : \A c \in Current(s) :
                      SkipRangeIncludes(e, c.version) \/ ReplacesPredicate(e, c.name)}
<1>3. sorted \in Seq(Channel(s)) \cup {ErrorSeq}
    BY <1>2, SortChannelType
<1>4. Candidates(s) = IF sorted = ErrorSeq THEN <<>> ELSE Filter(sorted, keep)
    BY ZenonT(30) DEF Candidates
<1> HIDE DEF sorted
<1>5. sorted # ErrorSeq => Filter(sorted, keep) \in Seq(Channel(s))
    <2> SUFFICES ASSUME sorted # ErrorSeq PROVE Filter(sorted, keep) \in Seq(Channel(s))
        OBVIOUS
    <2>1. Filter(sorted, keep) \in Seq(Channel(s) \cap keep)
        <3> HIDE DEF keep
        <3> QED
            BY <1>3, FilterType
    <2> HIDE DEF keep
    <2> QED
        BY <2>1
<1>6. Candidates(s) \in Seq(Channel(s))
    <2> HIDE DEF keep
    <2> QED
        BY <1>4, <1>5
<1> QED
    BY <1>1, <1>6, RangeFacts DEF Upgrades

\* The elements of a finite set, mapped, are finitely many.
LEMMA ImageFinite ==
    ASSUME NEW S, IsFiniteSet(S), NEW f
    PROVE  IsFiniteSet({f[x] : x \in S})
<1> DEFINE T == {f[x] : x \in S}
<1>1. [x \in S |-> f[x]] \in Surjection(S, T)
    BY DEF Surjection
<1> HIDE DEF T
<1>2. IsFiniteSet(T)
    BY <1>1, FS_Surjection
<1> QED
    BY <1>2 DEF T

\* A finite set with two members has more than one.
LEMMA TwoMembers ==
    ASSUME NEW S, IsFiniteSet(S), NEW x \in S, NEW y \in S, x # y
    PROVE  Cardinality(S) > 1
<1>1. IsFiniteSet({x}) /\ Cardinality({x}) = 1
    BY FS_Singleton, ZenonT(30)
<1>2. y \notin {x}
    OBVIOUS
<1>3. {x} \in SUBSET S /\ {x} # S
    BY <1>2
<1>4. Cardinality({x}) <= Cardinality(S) /\ Cardinality({x}) # Cardinality(S)
    BY <1>3, FS_Subset
<1>5. Cardinality(S) \in Nat
    BY FS_CardinalityType
<1> QED
    BY <1>1, <1>4, <1>5

\* Reached has what it starts from, and the providers of what it has.
LEMMA ReachedFacts ==
    ASSUME NEW base \in SUBSET Entries
    PROVE  /\ Reached(base) \in SUBSET Entries
           /\ base \subseteq Reached(base)
           /\ \A b \in Reached(base) : \A k \in DOMAIN b.requires :
                 Providers(b, b.requires[k]) # ErrorSeq =>
                    Range(Providers(b, b.requires[k])) \cap Entries \subseteq Reached(base)
<1> DEFINE Needs(b, k) == IF Providers(b, b.requires[k]) = ErrorSeq THEN {}
                          ELSE Range(Providers(b, b.requires[k]))
           needs == UNION {{b} \X UNION {Needs(b, k) : k \in DOMAIN b.requires} : b \in Entries}
           Closed(S) == base \subseteq S /\ (\A n \in needs : n[1] \in S => n[2] \in S)
<1>1. Reached(base) = {e \in Entries : \A S \in SUBSET Entries : Closed(S) => e \in S}
    BY ZenonT(60) DEF Reached
<1>2. ASSUME NEW b \in Reached(base), NEW k \in DOMAIN b.requires,
             Providers(b, b.requires[k]) # ErrorSeq,
             NEW c \in Range(Providers(b, b.requires[k])), c \in Entries
      PROVE  c \in Reached(base)
    <2>1. b \in Entries
        BY <1>1
    <2>2. c \in Needs(b, k)
        BY <1>2
    <2>3. <<b, c>> \in needs
        <3> HIDE DEF Needs
        <3>1. <<b, c>> \in {b} \X UNION {Needs(b, j) : j \in DOMAIN b.requires}
            BY <2>2
        <3> QED
            BY <2>1, <3>1
    <2>4. \A S : Closed(S) /\ b \in S => c \in S
        <3> HIDE DEF needs
        <3> QED
            BY <2>3
    <2> HIDE DEF Closed
    <2> QED
        BY <1>1, <1>2, <2>4
<1>3. base \subseteq Reached(base)
    <2>1. \A S : Closed(S) => base \subseteq S
        OBVIOUS
    <2> HIDE DEF Closed
    <2> QED
        BY <1>1, <2>1
<1>4. Reached(base) \in SUBSET Entries
    <2> HIDE DEF Closed
    <2> QED
        BY <1>1
<1> QED
    BY <1>2, <1>3, <1>4

\* The bundles that become variables: what is installed, what the Subscriptions
\* may move to, and the providers of their dependencies.
LEMMA BundlesFacts ==
    ASSUME Tidy
    PROVE  /\ Bundles \in SUBSET Entries
           /\ InstalledEntries \subseteq Bundles
           /\ \A s \in world.subs : Upgrades(s) \subseteq Bundles
           /\ \A s \in world.subs : Current(s) \subseteq InstalledEntries
           /\ \A b \in Bundles : \A k \in DOMAIN b.requires :
                 Providers(b, b.requires[k]) # ErrorSeq =>
                    Range(Providers(b, b.requires[k])) \subseteq Bundles
<1> DEFINE base == InstalledEntries \cup UNION {Upgrades(s) : s \in world.subs}
<1>1. InstalledEntries \subseteq Entries
    BY DEF InstalledEntries
<1>2. \A s \in world.subs : Upgrades(s) \subseteq Entries
    BY CandidatesType
<1>3. base \in SUBSET Entries
    BY <1>1, <1>2
<1>4. \A s : Current(s) \subseteq InstalledEntries
    BY DEF Current, Named, InstalledEntries, Virtual
<1>5. InstalledEntries \subseteq base /\ \A s \in world.subs : Upgrades(s) \subseteq base
    OBVIOUS
<1>6. Bundles = Reached(base)
    BY DEF Bundles
<1> HIDE DEF base
<1>7. /\ Bundles \in SUBSET Entries
      /\ base \subseteq Bundles
      /\ \A b \in Bundles : \A k \in DOMAIN b.requires :
            Providers(b, b.requires[k]) # ErrorSeq =>
               Range(Providers(b, b.requires[k])) \cap Entries \subseteq Bundles
    BY <1>3, <1>6, ReachedFacts, ZenonT(30)
<1>8. \A b, d : Providers(b, d) # ErrorSeq => Range(Providers(b, d)) \subseteq Entries
    <2> SUFFICES ASSUME NEW b, NEW d, Providers(b, d) # ErrorSeq
                 PROVE  Range(Providers(b, d)) \subseteq Entries
        OBVIOUS
    <2>1. Providers(b, d) \in Seq({e \in Entries : Test_(d, e)})
        BY ProvidersType
    <2>2. Range(Providers(b, d)) \subseteq {e \in Entries : Test_(d, e)}
        BY <2>1, RangeFacts, ZenonT(30)
    <2> QED
        BY <2>2
<1>9. \A b \in Bundles : \A k \in DOMAIN b.requires :
            Providers(b, b.requires[k]) # ErrorSeq =>
               Range(Providers(b, b.requires[k])) \subseteq Bundles
    BY <1>7, <1>8
<1> QED
    BY <1>4, <1>5, <1>7, <1>9
-----------------------------------------------------------------------------
(* The constraints *)

Constraint(I) ==
    {Mandatory, Prohibited}
        \cup {Dependency(ids) : ids \in Seq(I)}
        \cup {Conflict(id) : id \in I}
        \cup {AtMost(n, ids) : n \in Nat, ids \in {S \in SUBSET I : IsFiniteSet(S)}}

\* The five kinds of constraints.
LEMMA ConstraintFacts ==
    ASSUME NEW I
    PROVE  /\ Mandatory \in Constraint(I) /\ Prohibited \in Constraint(I)
           /\ \A ids \in Seq(I) : Dependency(ids) \in Constraint(I)
           /\ \A id \in I : Conflict(id) \in Constraint(I)
           /\ \A n \in Nat, ids \in SUBSET I :
                 IsFiniteSet(ids) => AtMost(n, ids) \in Constraint(I)
<1>1. Mandatory \in Constraint(I) /\ Prohibited \in Constraint(I)
    BY DEF Constraint
<1>2. ASSUME NEW ids \in Seq(I) PROVE Dependency(ids) \in Constraint(I)
    BY DEF Constraint
<1>3. ASSUME NEW id \in I PROVE Conflict(id) \in Constraint(I)
    BY DEF Constraint
<1>4. ASSUME NEW n \in Nat, NEW ids \in SUBSET I, IsFiniteSet(ids)
      PROVE  AtMost(n, ids) \in Constraint(I)
    <2>1. ids \in {S \in SUBSET I : IsFiniteSet(S)}
        BY <1>4
    <2> QED
        BY <2>1 DEF Constraint
<1> QED
    BY <1>1, <1>2, <1>3, <1>4, ZenonT(30)

\* The identifiers of a list of bundles.
LEMMA IDsFacts ==
    ASSUME NEW B, NEW s \in Seq(B)
    PROVE  /\ IDs(s) \in Seq({bundleID(b) : b \in B})
           /\ Range(IDs(s)) = {bundleID(b) : b \in Range(s)}
<1>1. DOMAIN s = 1 .. Len(s) /\ Len(s) \in Nat /\ \A i \in 1 .. Len(s) : s[i] \in B
    OBVIOUS
<1>2. IDs(s) = [i \in 1 .. Len(s) |-> bundleID(s[i])]
    BY <1>1 DEF IDs
<1>3. \A i \in 1 .. Len(s) : bundleID(s[i]) \in {bundleID(b) : b \in B}
    BY <1>1
<1>4. IDs(s) \in Seq({bundleID(b) : b \in B})
    BY <1>1, <1>2, <1>3
<1>5. Range(IDs(s)) = {IDs(s)[i] : i \in 1 .. Len(s)} /\ Range(s) = {s[i] : i \in 1 .. Len(s)}
    BY <1>1, <1>2 DEF Range
<1>6. Range(IDs(s)) = {bundleID(b) : b \in Range(s)}
    BY <1>2, <1>5
<1> QED
    BY <1>4, <1>6

\* The constraints of a bundle: they are about bundles, and what they have.
LEMMA BundleConstraintsFacts ==
    ASSUME Tidy, ~Unsorted(Bundles), NEW b \in Bundles,
           NEW I, {bundleID(e) : e \in Bundles} \subseteq I
    PROVE  /\ BundleConstraints(b) \in Seq(Constraint(I))
           /\ Virtual(b) /\ (\A s \in world.subs : s.installed # b.name)
                 => Mandatory \in Range(BundleConstraints(b))
           /\ b.deprecated => Prohibited \in Range(BundleConstraints(b))
           /\ \A k \in DOMAIN b.requires :
                 Dependency(IDs(Providers(b, b.requires[k]))) \in Range(BundleConstraints(b))
           /\ \A s \in world.subs : b \in Upgrades(s) => \A c \in Current(s) :
                 Conflict(bundleID(c)) \in Range(BundleConstraints(b))
<1> DEFINE C == Constraint(I)
           must == IF Virtual(b) /\ ~ \E s \in world.subs : s.installed = b.name
                   THEN <<Mandatory>> ELSE <<>>
           never == IF b.deprecated THEN <<Prohibited>> ELSE <<>>
           deps == [k \in DOMAIN b.requires |-> Dependency(IDs(Providers(b, b.requires[k])))]
           old == UNION {Current(s) : s \in {t \in world.subs : b \in Upgrades(t)}}
           conflicts == {Conflict(bundleID(c)) : c \in old}
           last == SetToSeq(conflicts)
<1>1. BundleConstraints(b) = must \o never \o deps \o last
    BY ZenonT(30) DEF BundleConstraints
<1>2. must \in Seq(C) /\ never \in Seq(C)
    BY ConstraintFacts
<1>3. b \in Entries /\ b.requires \in Seq(Range(b.requires))
    BY BundlesFacts DEF Tidy
<1>4. \A k \in DOMAIN b.requires : deps[k] \in C
    <2> SUFFICES ASSUME NEW k \in DOMAIN b.requires
                 PROVE  Dependency(IDs(Providers(b, b.requires[k]))) \in C
        OBVIOUS
    <2> DEFINE p == Providers(b, b.requires[k])
    <2>1. p # ErrorSeq
        BY DEF Unsorted
    <2>2. Range(p) \subseteq Bundles
        BY <2>1, BundlesFacts
    <2>3. p \in Seq({e \in Entries : Test_(b.requires[k], e)})
        BY <2>1, ProvidersType, ZenonT(30)
    <2> HIDE DEF p
    <2>4. p \in Seq(Bundles)
        <3>1. p \in [1 .. Len(p) -> Bundles] /\ Len(p) \in Nat
            BY <2>2, <2>3, RangeFacts
        <3> QED
            BY <3>1
    <2>5. IDs(p) \in Seq({bundleID(e) : e \in Bundles})
        BY <2>4, IDsFacts
    <2>6. IDs(p) \in Seq(I)
        BY <2>5
    <2> QED
        BY <2>6, ConstraintFacts DEF p
<1>5. deps \in Seq(C) /\ DOMAIN deps = DOMAIN b.requires
    <2>1. DOMAIN deps = DOMAIN b.requires /\ deps = [k \in DOMAIN b.requires |-> deps[k]]
        BY ZenonT(30)
    <2> HIDE DEF deps, C
    <2> QED
        BY <1>3, <1>4, <2>1, MappedType, ZenonT(30)
<1>6. old \subseteq Bundles /\ old \subseteq Entries
    <2>1. \A s \in world.subs : Current(s) \subseteq Bundles
        BY BundlesFacts
    <2> QED
        BY <2>1, BundlesFacts
<1>7. IsFiniteSet(conflicts) /\ conflicts \subseteq C
    <2> HIDE DEF old
    <2> DEFINE f == [c \in Entries |-> Conflict(bundleID(c))]
    <2>1. IsFiniteSet(old)
        BY <1>6, FS_Subset DEF Tidy
    <2>2. conflicts = {f[c] : c \in old}
        BY <1>6, ZenonT(30)
    <2>3. IsFiniteSet({f[c] : c \in old})
        <3> HIDE DEF f
        <3> QED
            BY <2>1, ImageFinite
    <2>4. \A c \in old : Conflict(bundleID(c)) \in C
        BY <1>6, ConstraintFacts
    <2> QED
        BY <2>2, <2>3, <2>4, ZenonT(30)
<1>8. last \in Seq(C) /\ Range(last) = conflicts
    <2> HIDE DEF conflicts
    <2>1. last \in Seq(conflicts) /\ Range(last) = conflicts
        BY <1>7, SetToSeqFacts
    <2> HIDE DEF last, C
    <2> QED
        BY <1>7, <2>1
<1>9. /\ must \o never \o deps \o last \in Seq(C)
      /\ Range(must \o never \o deps \o last)
            = Range(must) \cup Range(never) \cup Range(deps) \cup Range(last)
    <2> HIDE DEF must, never, deps, last, C
    <2> DEFINE two == must \o never
               three == two \o deps
    <2>1. two \in Seq(C) /\ Range(two) = Range(must) \cup Range(never)
        BY <1>2, ConcatFacts
    <2> HIDE DEF two
    <2>2. three \in Seq(C) /\ Range(three) = Range(two) \cup Range(deps)
        BY <1>5, <2>1, ConcatFacts
    <2> HIDE DEF three
    <2>3. three \o last \in Seq(C) /\ Range(three \o last) = Range(three) \cup Range(last)
        BY <1>8, <2>2, ConcatFacts
    <2> QED
        BY <2>1, <2>2, <2>3, ZenonT(30) DEF two, three
<1>10. \A x : x \in Range(<<x>>)
    BY DEF Range
<1>11. Virtual(b) /\ (\A s \in world.subs : s.installed # b.name) => Mandatory \in Range(must)
    BY <1>10, ZenonT(30)
<1>12. b.deprecated => Prohibited \in Range(never)
    BY <1>10, ZenonT(30)
<1>13. ASSUME NEW k \in DOMAIN b.requires
       PROVE  Dependency(IDs(Providers(b, b.requires[k]))) \in Range(deps)
    <2>1. deps[k] = Dependency(IDs(Providers(b, b.requires[k]))) /\ k \in DOMAIN deps
        BY ZenonT(30)
    <2> HIDE DEF deps
    <2> QED
        BY <2>1 DEF Range
<1>14. ASSUME NEW s \in world.subs, b \in Upgrades(s), NEW c \in Current(s)
       PROVE  Conflict(bundleID(c)) \in conflicts
    <2>1. c \in old
        BY <1>14
    <2> QED
        BY <2>1, ZenonT(30)
<1> HIDE DEF must, never, deps, last, conflicts, C
<1>15. BundleConstraints(b) \in Seq(C)
    BY <1>1, <1>9
<1>16. Virtual(b) /\ (\A s \in world.subs : s.installed # b.name)
                 => Mandatory \in Range(BundleConstraints(b))
    BY <1>1, <1>9, <1>11, ZenonT(30)
<1>17. b.deprecated => Prohibited \in Range(BundleConstraints(b))
    BY <1>1, <1>9, <1>12, ZenonT(30)
<1>18. \A k \in DOMAIN b.requires :
           Dependency(IDs(Providers(b, b.requires[k]))) \in Range(BundleConstraints(b))
    BY <1>1, <1>9, <1>13, ZenonT(30)
<1>19. \A s \in world.subs : b \in Upgrades(s) => \A c \in Current(s) :
           Conflict(bundleID(c)) \in Range(BundleConstraints(b))
    BY <1>1, <1>8, <1>9, <1>14, ZenonT(30)
<1> QED
    BY <1>15, <1>16, <1>17, <1>18, <1>19, ZenonT(30) DEF C

\* A sequence over a set that has its elements.
LEMMA SeqOver ==
    ASSUME NEW U, NEW s \in Seq(U), NEW B, Range(s) \subseteq B
    PROVE  s \in Seq(B)
<1>1. s \in [1 .. Len(s) -> B] /\ Len(s) \in Nat
    BY RangeFacts
<1> QED
    BY <1>1

\* The constraints of a Subscription.
LEMMA SubscriptionConstraintsFacts ==
    ASSUME Tidy, NEW s \in world.subs, NEW I, {bundleID(e) : e \in Bundles} \subseteq I
    PROVE  /\ SubscriptionConstraints(s) \in Seq(Constraint(I))
           /\ Mandatory \in Range(SubscriptionConstraints(s))
           /\ Channel(s) = {} => Prohibited \in Range(SubscriptionConstraints(s))
           /\ Channel(s) # {} => \E ids :
                 /\ Dependency(ids) \in Range(SubscriptionConstraints(s))
                 /\ Range(ids) = {bundleID(e) : e \in Upgrades(s) \cup Current(s)}
<1>1. \A x, y : Range(<<x, y>>) = {x, y}
    BY DEF Range
<1>2. CASE Channel(s) = {}
    <2>1. SubscriptionConstraints(s) = <<Mandatory, Prohibited>>
        BY <1>2, ZenonT(30) DEF SubscriptionConstraints
    <2>2. <<Mandatory, Prohibited>> \in Seq(Constraint(I))
        <3> DEFINE m == Mandatory
                   p == Prohibited
        <3>1. m \in Constraint(I) /\ p \in Constraint(I)
            BY ConstraintFacts, ZenonT(30)
        <3> HIDE DEF m, p
        <3>2. <<m, p>> \in Seq(Constraint(I))
            BY <3>1
        <3> QED
            BY <3>2 DEF m, p
    <2>3. Range(SubscriptionConstraints(s)) = {Mandatory, Prohibited}
        BY <1>1, <2>1, ZenonT(30)
    <2> QED
        BY <1>2, <2>1, <2>2, <2>3, ZenonT(30)
<1>3. CASE Channel(s) # {}
    <2> DEFINE B == {bundleID(e) : e \in Bundles}
               now == SetToSeq(Current(s))
               ids == IDs(Candidates(s)) \o IDs(now)
    <2>1. SubscriptionConstraints(s) = <<Mandatory, Dependency(ids)>>
        BY <1>3, ZenonT(30) DEF SubscriptionConstraints
    <2>2. Current(s) \subseteq Bundles /\ Current(s) \subseteq Entries
        BY BundlesFacts
    <2>3. now \in Seq(Current(s)) /\ Range(now) = Current(s)
        <3>1. IsFiniteSet(Current(s))
            BY <2>2, FS_Subset DEF Tidy
        <3> QED
            BY <3>1, SetToSeqFacts
    <2> HIDE DEF now
    <2>4. now \in Seq(Bundles)
        BY <2>2, <2>3, SeqOver
    <2>5. Candidates(s) \in Seq(Bundles)
        <3>1. Candidates(s) \in Seq(Channel(s))
            BY CandidatesType
        <3>2. Range(Candidates(s)) \subseteq Bundles
            BY BundlesFacts DEF Upgrades
        <3> QED
            BY <3>1, <3>2, SeqOver
    <2>6. IDs(now) \in Seq(B) /\ Range(IDs(now)) = {bundleID(e) : e \in Current(s)}
        BY <2>3, <2>4, IDsFacts, ZenonT(30)
    <2>7. IDs(Candidates(s)) \in Seq(B)
          /\ Range(IDs(Candidates(s))) = {bundleID(e) : e \in Upgrades(s)}
        BY <2>5, IDsFacts, ZenonT(30) DEF Upgrades
    <2>8. ids \in Seq(B) /\ Range(ids) = Range(IDs(Candidates(s))) \cup Range(IDs(now))
        <3> HIDE DEF B
        <3> QED
            BY <2>6, <2>7, ConcatFacts, ZenonT(30)
    <2>9. Range(ids) = {bundleID(e) : e \in Upgrades(s) \cup Current(s)}
        BY <2>6, <2>7, <2>8
    <2>10. ids \in Seq(I)
        BY <2>8
    <2> HIDE DEF ids
    <2>11. <<Mandatory, Dependency(ids)>> \in Seq(Constraint(I))
        <3> DEFINE m == Mandatory
                   p == Dependency(ids)
        <3>1. m \in Constraint(I) /\ p \in Constraint(I)
            BY <2>10, ConstraintFacts, ZenonT(30)
        <3> HIDE DEF m, p
        <3>2. <<m, p>> \in Seq(Constraint(I))
            BY <3>1
        <3> QED
            BY <3>2 DEF m, p
    <2>12. Range(SubscriptionConstraints(s)) = {Mandatory, Dependency(ids)}
        BY <2>1, <1>1, ZenonT(30)
    <2> QED
        BY <1>3, <2>1, <2>9, <2>11, <2>12, ZenonT(30)
<1> QED
    BY <1>2, <1>3

\* The bundles that share an API or a package.
LEMMA SharingFacts ==
    ASSUME Tidy, NEW v
    PROVE  /\ Sharing(Bundles, v) \in SUBSET Bundles
           /\ IsFiniteSet({bundleID(b) : b \in Sharing(Bundles, v)})
           /\ IsFiniteSet(Sharing(Bundles, v))
<1> DEFINE S == Sharing(Bundles, v)
           f == [b \in Entries |-> bundleID(b)]
<1>1. S \in SUBSET Bundles /\ S \in SUBSET Entries
    BY BundlesFacts DEF Sharing
<1> HIDE DEF S
<1>2. IsFiniteSet(S)
    BY <1>1, FS_Subset DEF Tidy
<1>3. {bundleID(b) : b \in S} = {f[b] : b \in S}
    BY <1>1, ZenonT(30)
<1>4. IsFiniteSet({f[b] : b \in S})
    <2> HIDE DEF f
    <2> QED
        BY <1>2, ImageFinite
<1> QED
    BY <1>1, <1>2, <1>3, <1>4, ZenonT(30) DEF S

\* The variables of addInvariants: one for each API or package that is shared.
LEMMA InvariantsFacts ==
    ASSUME Tidy
    PROVE  /\ IsFiniteSet(Invariants(Bundles))
           /\ \A v \in Invariants(Bundles) : v[1] \in {"gvk", "package"} /\ v # <<>>
           /\ \A b \in Bundles : \A a \in b.provides :
                 Cardinality(Sharing(Bundles, <<"gvk", a>>)) > 1
                    => <<"gvk", a>> \in Invariants(Bundles)
           /\ \A b \in Bundles : \A p \in Package(b) :
                 Cardinality(Sharing(Bundles, <<"package", p>>)) > 1
                    => <<"package", p>> \in Invariants(Bundles)
<1> DEFINE Keys(b) == {"gvk"} \X b.provides \cup {"package"} \X Package(b)
           f == [b \in Entries |-> Keys(b)]
           U == UNION {f[b] : b \in Bundles}
<1>1. Bundles \in SUBSET Entries
    BY BundlesFacts
<1>2. U = UNION {Keys(b) : b \in Bundles}
    <2> HIDE DEF Keys
    <2> QED
        BY <1>1, ZenonT(30)
<1>3. Invariants(Bundles) = {v \in U : Cardinality(Sharing(Bundles, v)) > 1}
    <2> HIDE DEF U
    <2> QED
        BY <1>2, ZenonT(30) DEF Invariants
<1>4. IsFiniteSet(U)
    <2>1. \A b \in Bundles : IsFiniteSet(f[b])
        <3> SUFFICES ASSUME NEW b \in Bundles PROVE IsFiniteSet(Keys(b))
            BY <1>1
        <3>1. IsFiniteSet(b.provides) /\ IsFiniteSet({"gvk"}) /\ IsFiniteSet({"package"})
            BY <1>1, FS_Singleton, ZenonT(30) DEF Tidy
        <3>2. IsFiniteSet(Package(b))
            BY FS_Singleton, FS_Difference, ZenonT(30) DEF Package
        <3>3. IsFiniteSet({"gvk"} \X b.provides) /\ IsFiniteSet({"package"} \X Package(b))
            BY <3>1, <3>2, FS_Product
        <3> QED
            BY <3>3, FS_Union, ZenonT(30)
    <2> HIDE DEF f
    <2> DEFINE T == {f[b] : b \in Bundles}
    <2>2. IsFiniteSet(Bundles)
        BY <1>1, FS_Subset DEF Tidy
    <2>3. IsFiniteSet(T)
        BY <2>2, ImageFinite
    <2>4. \A t \in T : IsFiniteSet(t)
        BY <2>1
    <2> HIDE DEF T
    <2>5. IsFiniteSet(UNION T)
        BY <2>3, <2>4, FS_UNION
    <2> QED
        BY <2>5 DEF T
<1>5. IsFiniteSet(Invariants(Bundles))
    <2> HIDE DEF U
    <2>1. Invariants(Bundles) \in SUBSET U
        BY <1>3
    <2> QED
        BY <1>4, <2>1, FS_Subset
<1>6. ASSUME NEW v \in Invariants(Bundles) PROVE v[1] \in {"gvk", "package"} /\ v # <<>>
    <2>1. v \in U
        <3> HIDE DEF U
        <3> QED
            BY <1>3
    <2>2. PICK b \in Bundles : v \in Keys(b)
        <3> HIDE DEF Keys, U
        <3> QED
            BY <1>2, <2>1
    <2> QED
        BY <2>2
<1>7. ASSUME NEW b \in Bundles, NEW v \in Keys(b), Cardinality(Sharing(Bundles, v)) > 1
      PROVE  v \in Invariants(Bundles)
    <2> HIDE DEF Keys
    <2>1. v \in UNION {Keys(c) : c \in Bundles}
        BY <1>7
    <2> HIDE DEF U
    <2> QED
        BY <2>1, <1>2, <1>3, <1>7
<1>8. \A b \in Bundles : /\ \A a \in b.provides : <<"gvk", a>> \in Keys(b)
                         /\ \A p \in Package(b) : <<"package", p>> \in Keys(b)
    OBVIOUS
<1> HIDE DEF Keys
<1> QED
    BY <1>5, <1>6, <1>7, <1>8, ZenonT(30)

\* The variables: each has the constraints of what it stands for.
LEMMA VariablesFacts ==
    ASSUME Tidy, ~Unsorted(Bundles), NEW V, V = Variables(Bundles)
    PROVE  /\ V = [v \in DOMAIN V |-> V[v]]
           /\ \A v \in DOMAIN V : V[v] \in Seq(Constraint(DOMAIN V))
           /\ IsFiniteSet(DOMAIN V) /\ LitNull \notin DOMAIN V
           /\ \A b \in Bundles :
                 bundleID(b) \in DOMAIN V /\ V[bundleID(b)] = BundleConstraints(b)
           /\ \A s \in world.subs :
                 /\ subscriptionID(s) \in DOMAIN V
                 /\ V[subscriptionID(s)] = SubscriptionConstraints(s)
           /\ \A v \in Invariants(Bundles) :
                 /\ v \in DOMAIN V
                 /\ V[v] = <<Mandatory, AtMost(1, {bundleID(b) : b \in Sharing(Bundles, v)})>>
           /\ \A e \in Entries : bundleID(e) \in DOMAIN V => e \in Bundles
<1> DEFINE B == {bundleID(b) : b \in Bundles}
           S == {subscriptionID(s) : s \in world.subs}
           N == Invariants(Bundles)
           I == B \cup S \cup N
           C(v) == CASE v[1] = "bundle" ->
                            BundleConstraints(CHOOSE b \in Bundles : bundleID(b) = v)
                     [] v[1] = "subscription" ->
                            SubscriptionConstraints(CHOOSE s \in world.subs : subscriptionID(s) = v)
                     [] OTHER -> <<Mandatory, AtMost(1, {bundleID(b) : b \in Sharing(Bundles, v)})>>
<1>1. V = [v \in I |-> C(v)]
    BY ZenonT(30) DEF Variables
<1>2. /\ \A b \in Bundles : bundleID(b)[1] = "bundle" /\ bundleID(b) # <<>>
      /\ \A s \in world.subs : subscriptionID(s)[1] = "subscription" /\ subscriptionID(s) # <<>>
      /\ \A v \in N : (v[1] = "gvk" \/ v[1] = "package") /\ v # <<>>
    <2>1. \A b : bundleID(b)[1] = "bundle" /\ bundleID(b) # <<>>
        BY DEF bundleID
    <2>2. \A s : subscriptionID(s)[1] = "subscription" /\ subscriptionID(s) # <<>>
        BY DEF subscriptionID
    <2>3. \A v \in N : (v[1] = "gvk" \/ v[1] = "package") /\ v # <<>>
        <3> HIDE DEF N
        <3> QED
            BY InvariantsFacts DEF N
    <2> QED
        BY <2>1, <2>2, <2>3
<1>3. Bundles \in SUBSET Entries
    BY BundlesFacts
<1>4. ASSUME NEW b \in Bundles PROVE bundleID(b) \in I /\ C(bundleID(b)) = BundleConstraints(b)
    <2>1. bundleID(b)[1] = "bundle"
        BY <1>2
    <2> DEFINE c == CHOOSE x \in Bundles : bundleID(x) = bundleID(b)
    <2>2. c \in Bundles /\ bundleID(c) = bundleID(b)
        BY ZenonT(30)
    <2>3. c = b
        <3> HIDE DEF c
        <3> QED
            BY <2>2, <1>3, ZenonT(30) DEF Tidy
    <2>4. C(bundleID(b)) = BundleConstraints(c)
        BY <2>1
    <2> QED
        BY <2>3, <2>4, ZenonT(30)
<1>5. ASSUME NEW s \in world.subs
      PROVE  subscriptionID(s) \in I /\ C(subscriptionID(s)) = SubscriptionConstraints(s)
    <2>1. subscriptionID(s)[1] = "subscription"
        BY <1>2
    <2> DEFINE c == CHOOSE x \in world.subs : subscriptionID(x) = subscriptionID(s)
    <2>2. c \in world.subs /\ subscriptionID(c) = subscriptionID(s)
        BY ZenonT(30)
    <2>3. c = s
        <3> HIDE DEF c
        <3>1. c.name = s.name
            BY <2>2 DEF subscriptionID
        <3> QED
            BY <2>2, <3>1, ZenonT(30) DEF Tidy
    <2>4. C(subscriptionID(s)) = SubscriptionConstraints(c)
        BY <2>1
    <2> QED
        BY <2>3, <2>4, ZenonT(30)
<1>6. ASSUME NEW v \in N
      PROVE  /\ v \in I
             /\ C(v) = <<Mandatory, AtMost(1, {bundleID(b) : b \in Sharing(Bundles, v)})>>
    <2>1. v[1] # "bundle" /\ v[1] # "subscription"
        <3> HIDE DEF N
        <3> QED
            BY <1>2
    <2> QED
        BY <2>1
<1>7. ASSUME NEW v \in I PROVE v \in N \/ (\E b \in Bundles : v = bundleID(b))
                                      \/ (\E s \in world.subs : v = subscriptionID(s))
    BY <1>7, ZenonT(30)
<1>8. B \subseteq I
    BY ZenonT(30)
<1>9. IsFiniteSet(I)
    <2> DEFINE f == [b \in Entries |-> bundleID(b)]
               g == [s \in world.subs |-> subscriptionID(s)]
    <2>1. IsFiniteSet(B)
        <3>1. B = {f[b] : b \in Bundles}
            BY <1>3, ZenonT(30)
        <3> HIDE DEF f
        <3>2. IsFiniteSet(Bundles)
            BY <1>3, FS_Subset DEF Tidy
        <3> QED
            BY <3>1, <3>2, ImageFinite, ZenonT(30)
    <2>2. IsFiniteSet(S)
        <3>1. S = {g[s] : s \in world.subs}
            BY ZenonT(30)
        <3> HIDE DEF g
        <3>2. IsFiniteSet(world.subs)
            BY DEF Tidy
        <3>3. IsFiniteSet({g[s] : s \in world.subs})
            BY <3>2, ImageFinite
        <3> QED
            BY <3>1, <3>3, ZenonT(30)
    <2>3. IsFiniteSet(N)
        BY InvariantsFacts
    <2> HIDE DEF B, S, N
    <2> QED
        BY <2>1, <2>2, <2>3, FS_Union, ZenonT(30)
<1>10. LitNull \notin I
    <2> HIDE DEF I
    <2>1. \A v \in I : v # <<>>
        BY <1>2, <1>7, ZenonT(30)
    <2> QED
        BY <2>1 DEF LitNull
<1>11. ASSUME NEW e \in Entries, bundleID(e) \in I PROVE e \in Bundles
    <2>1. bundleID(e)[1] = "bundle"
        BY DEF bundleID
    <2>2. bundleID(e) \notin N /\ \A s \in world.subs : bundleID(e) # subscriptionID(s)
        <3>1. \A v \in N : v[1] # "bundle"
            <4> HIDE DEF N
            <4> QED
                BY <1>2
        <3>2. \A s \in world.subs : subscriptionID(s)[1] # "bundle"
            BY <1>2
        <3> HIDE DEF N
        <3> QED
            BY <2>1, <3>1, <3>2, ZenonT(30)
    <2>3. PICK b \in Bundles : bundleID(e) = bundleID(b)
        <3> HIDE DEF I, N
        <3> QED
            BY <1>7, <1>11, <2>2, ZenonT(30)
    <2> QED
        BY <2>3, <1>3, ZenonT(30) DEF Tidy
<1> HIDE DEF C
<1>12. DOMAIN V = I /\ \A v \in I : V[v] = C(v)
    <2> HIDE DEF I
    <2> QED
        BY <1>1
<1>13. ASSUME NEW v \in I PROVE C(v) \in Seq(Constraint(I))
    <2>1. CASE \E b \in Bundles : v = bundleID(b)
        <3>1. PICK b \in Bundles : v = bundleID(b)
            BY <2>1
        <3>2. C(v) = BundleConstraints(b)
            BY <3>1, <1>4, ZenonT(30)
        <3> HIDE DEF I
        <3> QED
            BY <3>2, <1>8, BundleConstraintsFacts, ZenonT(30)
    <2>2. CASE \E s \in world.subs : v = subscriptionID(s)
        <3>1. PICK s \in world.subs : v = subscriptionID(s)
            BY <2>2
        <3>2. C(v) = SubscriptionConstraints(s)
            BY <3>1, <1>5, ZenonT(30)
        <3> HIDE DEF I
        <3> QED
            BY <3>2, <1>8, SubscriptionConstraintsFacts, ZenonT(30)
    <2>3. CASE v \in N
        <3> DEFINE ids == {bundleID(b) : b \in Sharing(Bundles, v)}
                   m == Mandatory
                   a == AtMost(1, ids)
        <3>1. ids \in SUBSET I
            <4>1. ids \subseteq B
                BY SharingFacts, ZenonT(30)
            <4> HIDE DEF ids, B, I
            <4> QED
                BY <4>1, <1>8
        <3>2. IsFiniteSet(ids)
            BY SharingFacts
        <3>3. C(v) = <<m, a>>
            BY <2>3, <1>6
        <3> HIDE DEF ids, I
        <3>4. m \in Constraint(I) /\ a \in Constraint(I)
            BY <3>1, <3>2, ConstraintFacts
        <3> HIDE DEF m, a
        <3> QED
            BY <3>3, <3>4
    <2> QED
        BY <1>7, <1>13, <2>1, <2>2, <2>3, ZenonT(30)
<1>14. V = [v \in DOMAIN V |-> V[v]]
    <2> HIDE DEF I
    <2> QED
        BY <1>1, ZenonT(30)
<1> HIDE DEF I
<1> QED
    BY <1>4, <1>5, <1>6, <1>9, <1>10, <1>11, <1>12, <1>13, <1>14, ZenonT(60)

\* Whatever order the variables come in, they are variables.
LEMMA OrdersFacts ==
    ASSUME NEW V, IsFiniteSet(DOMAIN V), NEW o \in Orders(V)
    PROVE  o \in Seq(DOMAIN V)
<1> DEFINE open == {v \in DOMAIN V : /\ v[1] \in {"bundle", "subscription"}
                                     /\ Mandatory \in Range(V[v])}
           D == DOMAIN V
           rest == Listed(DOMAIN V \ open)
<1>1. PICK p \in SetToSeqs(open) : o = p \o rest
    BY ZenonT(30) DEF Orders
<1>2. open \in SUBSET D
    OBVIOUS
<1>3. IsFiniteSet(open) /\ IsFiniteSet(D \ open)
    <2> HIDE DEF open
    <2> QED
        BY <1>2, FS_Subset, FS_Difference
<1> HIDE DEF open
<1>4. p \in Seq(D)
    <2>1. p \in [1 .. Cardinality(open) -> open]
        BY ZenonT(30) DEF SetToSeqs
    <2>2. Cardinality(open) \in Nat
        BY <1>3, FS_CardinalityType
    <2>3. p \in Seq(open)
        BY <2>1, <2>2
    <2> HIDE DEF D
    <2> QED
        BY <1>2, <2>3
<1>5. rest \in Seq(D)
    <2> DEFINE R == D \ open
    <2>1. IsFiniteSet(R)
        BY <1>3
    <2> HIDE DEF R
    <2>2. Listed(R) \in Seq(R)
        BY <2>1, ListedType
    <2> HIDE DEF D
    <2>3. R \subseteq D
        BY DEF R
    <2>4. Listed(R) \in Seq(D)
        BY <2>2, <2>3
    <2> QED
        BY <2>4 DEF R, D
<1> HIDE DEF rest, D
<1>6. o \in Seq(D)
    BY <1>1, <1>4, <1>5
<1> QED
    BY <1>6 DEF D

\* The input of the solver, once it is built.
WellFormed ==
    /\ \A v \in Ids : constraints[v] \in Seq(Constraint(Ids))
    /\ IsFiniteSet(Ids) /\ LitNull \notin Ids
    /\ inorder \in Seq(Ids)

\* What a constraint refers to are variables.
LEMMA ConstraintShape ==
    ASSUME NEW I, NEW c \in Constraint(I)
    PROVE  /\ c.type = "dependency" => c.ids \in Seq(I)
           /\ c.type = "conflict" => c.id \in I
           /\ c.type = "atmost" => c.n \in Nat /\ c.ids \in SUBSET I /\ IsFiniteSet(c.ids)
<1>1. CASE c = Mandatory \/ c = Prohibited
    BY <1>1 DEF Mandatory, Prohibited
<1>2. ASSUME NEW ids \in Seq(I), c = Dependency(ids) PROVE c.type = "dependency" /\ c.ids \in Seq(I)
    BY <1>2 DEF Dependency
<1>3. ASSUME NEW id \in I, c = Conflict(id) PROVE c.type = "conflict" /\ c.id \in I
    BY <1>3 DEF Conflict
<1>4. ASSUME NEW n \in Nat, NEW ids \in SUBSET I, IsFiniteSet(ids), c = AtMost(n, ids)
      PROVE  c.type = "atmost" /\ c.n \in Nat /\ c.ids \in SUBSET I /\ IsFiniteSet(c.ids)
    BY <1>4 DEF AtMost
<1>5. \/ c = Mandatory \/ c = Prohibited
      \/ \E ids \in Seq(I) : c = Dependency(ids)
      \/ \E id \in I : c = Conflict(id)
      \/ \E n \in Nat, ids \in SUBSET I : IsFiniteSet(ids) /\ c = AtMost(n, ids)
    BY DEF Constraint
<1> QED
    BY <1>1, <1>2, <1>3, <1>4, <1>5

\* An applied constraint is one of the constraints of its variable.
LEMMA AppliedFacts ==
    ASSUME WellFormed, NEW a \in Applied
    PROVE  /\ a[1] \in Ids /\ a[2] \in DOMAIN constraints[a[1]]
           /\ At(a) \in Constraint(Ids)
<1>1. PICK v \in Ids : a \in {v} \X DOMAIN constraints[v]
    BY DEF Applied
<1>2. a[1] = v /\ a[2] \in DOMAIN constraints[v]
    BY <1>1
<1>3. constraints[v] \in Seq(Constraint(Ids))
    BY DEF WellFormed
<1>4. constraints[v][a[2]] \in Constraint(Ids)
    BY <1>2, <1>3
<1> QED
    BY <1>2, <1>4 DEF At

\* What apply says, type by type.
LEMMA ApplyFacts ==
    ASSUME NEW S
    PROVE  /\ \A a \in Of("mandatory") : a \in Applied /\ (apply(a, S) <=> a[1] \in S)
           /\ \A a \in Of("prohibited") : a \in Applied /\ (apply(a, S) <=> a[1] \notin S)
           /\ \A a \in Of("dependency") :
                 a \in Applied /\ (apply(a, S) <=> (a[1] \in S => \E m \in Range(At(a).ids) : m \in S))
           /\ \A a \in Of("conflict") :
                 a \in Applied /\ (apply(a, S) <=> ~ (a[1] \in S /\ At(a).id \in S))
           /\ \A a \in Of("atmost") :
                 a \in Applied /\ (apply(a, S) <=> Cardinality(At(a).ids \cap S) <= At(a).n)
<1>1. \A t : \A a \in Of(t) : a \in Applied /\ At(a).type = t
    BY DEF Of, At
<1>2. ASSUME NEW a \in Of("mandatory") PROVE apply(a, S) <=> a[1] \in S
    BY <1>1 DEF apply
<1>3. ASSUME NEW a \in Of("prohibited") PROVE apply(a, S) <=> a[1] \notin S
    BY <1>1 DEF apply
<1>4. ASSUME NEW a \in Of("dependency")
      PROVE  apply(a, S) <=> (a[1] \in S => \E m \in Range(At(a).ids) : m \in S)
    BY <1>1 DEF apply
<1>5. ASSUME NEW a \in Of("conflict") PROVE apply(a, S) <=> ~ (a[1] \in S /\ At(a).id \in S)
    BY <1>1 DEF apply
<1>6. ASSUME NEW a \in Of("atmost")
      PROVE  apply(a, S) <=> Cardinality(At(a).ids \cap S) <= At(a).n
    BY <1>1 DEF apply
<1> QED
    BY <1>1, <1>2, <1>3, <1>4, <1>5, <1>6, ZenonT(30)

\* The mandatory variables.
LEMMA AnchorsType ==
    ASSUME WellFormed
    PROVE  AnchorIdentifiers \in Seq(Ids) /\ Anchors \in SUBSET Ids
<1> DEFINE M == {a[1] : a \in Of("mandatory")}
<1>1. Filter(inorder, M) \in Seq(Ids \cap M)
    <2> HIDE DEF M
    <2> QED
        BY FilterType, ZenonT(30) DEF WellFormed
<1>2. AnchorIdentifiers \in Seq(Ids \cap M)
    BY <1>1 DEF AnchorIdentifiers
<1>3. AnchorIdentifiers \in Seq(Ids)
    <2> HIDE DEF M
    <2> QED
        BY <1>2
<1> QED
    BY <1>3, RangeFacts DEF Anchors

\* A selection that all constraints admit.
LEMMA ModelFacts ==
    ASSUME NEW lits, NEW S \in ModelsOf(lits)
    PROVE  /\ Anchors \cup lits \subseteq S
           /\ S \subseteq Anchors \cup lits \cup Ids
           /\ \A a \in Applied : apply(a, S)
BY DEF ModelsOf

\* The states of propagation that are right about the selection S.
Right(S, W) == [yes : SUBSET S, no : SUBSET (W \ S)]
Literals ==
    {a[1] : a \in Applied} \cup {At(a).id : a \in Of("conflict")}
        \cup UNION {At(a).ids : a \in Of("atmost")}

\* A round of propagation concludes nothing wrong.
LEMMA ImpliedRight ==
    ASSUME WellFormed, NEW lits, NEW S \in ModelsOf(lits), NEW p \in Right(S, Literals)
    PROVE  Implied(p) \in Right(S, Literals)
<1>1. p.yes \subseteq S /\ p.no \cap S = {} /\ p.no \subseteq Literals
    BY DEF Right
<1> DEFINE open(a) == Range(At(a).ids) \ p.no
           new(a) == IF a[1] \in p.yes /\ Cardinality(open(a)) = 1 THEN open(a) ELSE {}
           full(a) == IF Cardinality(At(a).ids \cap p.yes) >= At(a).n
                      THEN At(a).ids \ p.yes ELSE {}
<1>2. \A a \in Applied : apply(a, S)
    BY ModelFacts
<1>3. ASSUME NEW a \in Of("dependency") PROVE new(a) \subseteq S
    <2> SUFFICES ASSUME a[1] \in p.yes, Cardinality(open(a)) = 1 PROVE open(a) \subseteq S
        OBVIOUS
    <2>1. PICK m \in Range(At(a).ids) : m \in S
        BY <1>1, <1>2, ApplyFacts
    <2>2. m \in open(a)
        BY <1>1, <2>1
    <2>3. IsFiniteSet(open(a))
        <3>1. At(a) \in Constraint(Ids) /\ At(a).type = "dependency"
            BY AppliedFacts DEF Of, At
        <3>2. At(a).ids \in Seq(Ids)
            BY <3>1, ConstraintShape
        <3>3. IsFiniteSet(Range(At(a).ids))
            BY <3>2, RangeFacts
        <3> QED
            BY <3>3, FS_Difference, ZenonT(30)
    <2>4. PICK x : open(a) = {x}
        <3> HIDE DEF open
        <3> QED
            BY <2>3, FS_Singleton, ZenonT(30)
    <2> HIDE DEF open
    <2> QED
        BY <2>1, <2>2, <2>4
<1>4. ASSUME NEW a \in Of("prohibited") PROVE a[1] \in Literals \ S
    BY <1>2, ApplyFacts DEF Literals
<1>5. ASSUME NEW a \in Of("dependency"), Range(At(a).ids) \subseteq p.no PROVE a[1] \in Literals \ S
    BY <1>1, <1>2, <1>5, ApplyFacts, ZenonT(30) DEF Literals
<1>6. ASSUME NEW a \in Of("conflict"), At(a).id \in p.yes PROVE a[1] \in Literals \ S
    BY <1>1, <1>2, <1>6, ApplyFacts DEF Literals
<1>7. ASSUME NEW a \in Of("conflict"), a[1] \in p.yes PROVE At(a).id \in Literals \ S
    BY <1>1, <1>2, <1>7, ApplyFacts, ZenonT(30) DEF Literals
<1>8. ASSUME NEW a \in Of("atmost") PROVE full(a) \subseteq Literals \ S
    <2> SUFFICES ASSUME Cardinality(At(a).ids \cap p.yes) >= At(a).n
                 PROVE  At(a).ids \ p.yes \subseteq Literals \ S
        OBVIOUS
    <2>1. At(a) \in Constraint(Ids) /\ At(a).type = "atmost"
        BY AppliedFacts DEF Of, At
    <2>2. At(a).n \in Nat /\ IsFiniteSet(At(a).ids)
        BY <2>1, ConstraintShape
    <2> DEFINE X == At(a).ids \cap S
               Y == At(a).ids \cap p.yes
    <2>3. IsFiniteSet(X) /\ Y \in SUBSET X
        BY <1>1, <2>2, FS_Intersection, ZenonT(30)
    <2>4. Cardinality(X) <= At(a).n
        BY <1>2, ApplyFacts, ZenonT(30)
    <2>5. IsFiniteSet(Y) /\ Cardinality(Y) <= Cardinality(X) /\ (Cardinality(X) = Cardinality(Y) => X = Y)
        <3> HIDE DEF X, Y
        <3> QED
            BY <2>3, FS_Subset
    <2>6. Cardinality(X) \in Nat /\ Cardinality(Y) \in Nat /\ Cardinality(Y) >= At(a).n
        BY <2>3, <2>5, FS_CardinalityType
    <2>7. X = Y
        <3> HIDE DEF X, Y
        <3> QED
            BY <2>2, <2>4, <2>5, <2>6
    <2>8. At(a).ids \subseteq Literals
        BY DEF Literals
    <2> QED
        BY <2>7, <2>8
<1> DEFINE yes == p.yes \cup UNION {new(a) : a \in Of("dependency")}
           no == p.no
                    \cup {a[1] : a \in Of("prohibited")}
                    \cup {a[1] : a \in {b \in Of("dependency") : Range(At(b).ids) \subseteq p.no}}
                    \cup {a[1] : a \in {b \in Of("conflict") : At(b).id \in p.yes}}
                    \cup {At(a).id : a \in {b \in Of("conflict") : b[1] \in p.yes}}
                    \cup UNION {full(a) : a \in Of("atmost")}
<1>9. Implied(p) = [yes |-> yes, no |-> no]
    BY ZenonT(30) DEF Implied
<1> HIDE DEF new, full
<1>10. yes \subseteq S
    BY <1>1, <1>3
<1>11. no \subseteq Literals \ S
    BY <1>1, <1>4, <1>5, <1>6, <1>7, <1>8
<1> HIDE DEF yes, no
<1> QED
    BY <1>9, <1>10, <1>11 DEF Right

\* Propagation concludes nothing wrong: what it refutes has no solution.
LEMMA PropagatedRight ==
    ASSUME WellFormed, NEW lits, NEW S \in ModelsOf(lits)
    PROVE  Propagated(lits) \in Right(S, Literals) /\ ~Refuted(Propagated(lits))
<1> DEFINE n == Cardinality(Ids)
           X == Right(S, Literals)
           a0 == [yes |-> Anchors \cup lits, no |-> {}]
           step == [q \in (1 .. n) \X X |-> Implied(q[2])]
           F == CHOOSE g : g = [i \in 0 .. n |-> IF i = 0 THEN a0 ELSE Implied(g[i - 1])]
<1>n. n \in Nat
    BY FS_CardinalityType DEF WellFormed
<1>1. a0 \in X
    BY ModelFacts DEF Right
<1>2. \A q \in X : Implied(q) \in X
    BY ImpliedRight
<1> HIDE DEF a0, X, n
<1>3. step \in Steps(n, X)
    BY <1>2 DEF Steps
<1>4. \A i \in 1 .. n, x \in X : step[<<i, x>>] = Implied(x)
    OBVIOUS
<1>5. PICK f \in [0 .. n -> X] : Follows(f, n, a0, step)
    <2> HIDE DEF step
    <2> QED
        BY <1>n, <1>1, <1>3, Recursion, ZenonT(30)
<1>6. f = [i \in 0 .. n |-> IF i = 0 THEN a0 ELSE Implied(f[i - 1])]
    <2> HIDE DEF step
    <2>1. \A i \in 0 .. n : i = 0 \/ (i \in 1 .. n /\ f[i - 1] \in X)
        BY <1>n
    <2>2. \A i \in 0 .. n : f[i] = IF i = 0 THEN a0 ELSE Implied(f[i - 1])
        BY <2>1, <1>4, <1>5, ZenonT(30) DEF Follows
    <2> QED
        BY <2>2, ZenonT(30)
<1>7. F = [i \in 0 .. n |-> IF i = 0 THEN a0 ELSE Implied(F[i - 1])]
    BY <1>6, ZenonT(30)
<1> DEFINE P == {i \in 0 .. n : F[i] \in X}
<1>8. 0 .. n \subseteq P
    <2> HIDE DEF F
    <2>1. 0 \in P
        BY <1>n, <1>1, <1>7
    <2>2. ASSUME NEW i \in 1 .. n, i - 1 \in P PROVE i \in P
        <3>1. i \in 0 .. n /\ i # 0 /\ F[i - 1] \in X
            BY <2>2, <1>n
        <3>2. F[i] = Implied(F[i - 1])
            BY <3>1, <1>7, ZenonT(30)
        <3> QED
            BY <3>1, <3>2, <1>2, ZenonT(30)
    <2> HIDE DEF P
    <2> QED
        BY <1>n, <2>1, <2>2, Upto
<1>9. F[n] \in X
    <2> HIDE DEF F
    <2> QED
        BY <1>8, <1>n
<1>10. Propagated(lits) = F[n]
    BY ZenonT(30) DEF Propagated, n, a0
<1> HIDE DEF F
<1>11. Propagated(lits) \in Right(S, Literals)
    BY <1>9, <1>10 DEF X
<1> DEFINE p == Propagated(lits)
<1>12. p.yes \subseteq S /\ p.no \cap S = {}
    BY <1>11 DEF Right
<1>13. ASSUME NEW a \in Of("atmost") PROVE ~ Cardinality(At(a).ids \cap p.yes) > At(a).n
    <2>1. At(a) \in Constraint(Ids) /\ At(a).type = "atmost"
        BY AppliedFacts DEF Of, At
    <2>2. At(a).n \in Nat /\ IsFiniteSet(At(a).ids)
        BY <2>1, ConstraintShape
    <2> DEFINE V == At(a).ids \cap S
               Y == At(a).ids \cap p.yes
    <2>3. IsFiniteSet(V) /\ Y \in SUBSET V
        BY <1>12, <2>2, FS_Intersection, ZenonT(30)
    <2>4. Cardinality(V) <= At(a).n
        BY ModelFacts, ApplyFacts, ZenonT(30)
    <2>5. IsFiniteSet(Y) /\ Cardinality(Y) <= Cardinality(V)
        <3> HIDE DEF V, Y
        <3> QED
            BY <2>3, FS_Subset
    <2>6. Cardinality(V) \in Nat /\ Cardinality(Y) \in Nat
        BY <2>3, <2>5, FS_CardinalityType
    <2> HIDE DEF V, p
    <2> QED
        BY <2>2, <2>4, <2>5, <2>6
<1> QED
    BY <1>11, <1>12, <1>13, ZenonT(30) DEF Refuted

\* An answer of the SAT solver, unless unknown, is true.
LEMMA TestFacts ==
    ASSUME WellFormed, NEW lits, NEW r \in Test(lits)
    PROVE  /\ r \in {satisfiable, unsatisfiable, unknown}
           /\ r = unsatisfiable => ~Sat(lits)
<1> DEFINE p == Propagated(lits)
<1>1. satisfiable # unsatisfiable /\ unknown # unsatisfiable
    BY DEF satisfiable, unsatisfiable, unknown
<1>2. CASE Refuted(p)
    <2>1. ~Sat(lits)
        BY <1>2, PropagatedRight DEF Sat
    <2>2. Test(lits) = {unsatisfiable}
        BY <1>2, ZenonT(30) DEF Test
    <2> QED
        BY <2>1, <2>2
<1>3. CASE ~Refuted(p) /\ ~Sat(lits)
    <2>1. Test(lits) = {unknown} \cup (IF learned THEN {unsatisfiable} ELSE {})
        BY <1>3, ZenonT(30) DEF Test
    <2> QED
        BY <1>3, <2>1
<1>4. CASE ~Refuted(p) /\ Sat(lits)
    <2>1. Test(lits) = IF p.yes \cup p.no = Ids THEN {satisfiable} ELSE {unknown}
        BY <1>4, ZenonT(30) DEF Test
    <2> QED
        BY <1>1, <2>1
<1> QED
    BY <1>2, <1>3, <1>4
-----------------------------------------------------------------------------
(* The agenda *)

Joins(c, s, t) ==
    /\ Len(c) = Len(s) + Len(t)
    /\ \A i \in 1 .. Len(s) : c[i] = s[i]
    /\ \A i \in 1 .. Len(t) : c[Len(s) + i] = t[i]

\* A concatenation, position by position.
LEMMA ConcatAt ==
    ASSUME NEW U, NEW s \in Seq(U), NEW t \in Seq(U)
    PROVE  s \o t \in Seq(U) /\ Joins(s \o t, s, t)
BY DEF Joins

\* Sequences that agree at every position are equal.
LEMMA SeqEqual ==
    ASSUME NEW U, NEW s \in Seq(U), NEW t \in Seq(U), Len(s) = Len(t),
           \A i \in 1 .. Len(s) : s[i] = t[i]
    PROVE  s = t
OBVIOUS

\* Concatenation is associative.
LEMMA ConcatAssoc ==
    ASSUME NEW U, NEW s \in Seq(U), NEW t \in Seq(U), NEW u \in Seq(U)
    PROVE  s \o (t \o u) = (s \o t) \o u /\ s \o t \in Seq(U)
<1> DEFINE x == s \o (t \o u)
           y == (s \o t) \o u
           n == Len(s) + Len(t) + Len(u)
<1>1. x \in Seq(U) /\ y \in Seq(U) /\ Len(x) = n /\ Len(y) = n /\ s \o t \in Seq(U)
    OBVIOUS
<1>2. ASSUME NEW i \in 1 .. n PROVE x[i] = y[i]
    <2>1. CASE i <= Len(s)
        BY <2>1
    <2>2. CASE i > Len(s) /\ i <= Len(s) + Len(t)
        BY <2>2
    <2>3. CASE i > Len(s) + Len(t)
        BY <2>3
    <2> QED
        BY <2>1, <2>2, <2>3
<1> HIDE DEF x, y
<1>3. x = y
    BY <1>1, <1>2
<1> QED
    BY <1>1, <1>3 DEF x, y

\* What ends both ways of writing a sequence can be cut off.
LEMMA Cut ==
    ASSUME NEW U, NEW s \in Seq(U), NEW t \in Seq(U), NEW r \in Seq(U), NEW u \in Seq(U),
           s \o t = r \o u, Len(u) <= Len(t)
    PROVE  s \o SubSeq(t, 1, Len(t) - Len(u)) = r
<1> DEFINE h == SubSeq(t, 1, Len(t) - Len(u))
           x == s \o h
<1>1. Len(s) + Len(t) = Len(r) + Len(u) /\ Len(s) \in Nat /\ Len(t) \in Nat
      /\ Len(r) \in Nat /\ Len(u) \in Nat
    <2>1. Len(s \o t) = Len(s) + Len(t) /\ Len(r \o u) = Len(r) + Len(u)
        OBVIOUS
    <2> QED
        BY <2>1
<1>2. h \in Seq(U) /\ Len(h) = Len(t) - Len(u) /\ \A i \in 1 .. Len(h) : h[i] = t[i]
    BY <1>1
<1> HIDE DEF h
<1>3. /\ x \in Seq(U) /\ Len(x) = Len(r)
      /\ \A i \in 1 .. Len(s) : x[i] = s[i]
      /\ \A i \in 1 .. Len(h) : x[Len(s) + i] = h[i]
    BY <1>1, <1>2
<1> HIDE DEF x
<1>4. /\ \A i \in 1 .. Len(s) : (s \o t)[i] = s[i]
      /\ \A i \in 1 .. Len(t) : (s \o t)[Len(s) + i] = t[i]
      /\ \A i \in 1 .. Len(r) : (s \o t)[i] = r[i]
    <2> DEFINE c == s \o t
    <2>1. Joins(c, s, t)
        BY ConcatAt, ZenonT(30)
    <2>2. Joins(r \o u, r, u)
        BY ConcatAt
    <2>3. c = r \o u
        OBVIOUS
    <2> HIDE DEF c
    <2>4. Joins(c, r, u)
        BY <2>2, <2>3
    <2>5. /\ \A i \in 1 .. Len(s) : c[i] = s[i]
          /\ \A i \in 1 .. Len(t) : c[Len(s) + i] = t[i]
          /\ \A i \in 1 .. Len(r) : c[i] = r[i]
        BY <2>1, <2>4, ZenonT(30) DEF Joins
    <2> QED
        BY <2>5 DEF c
<1>5. ASSUME NEW i \in 1 .. Len(r) PROVE x[i] = r[i]
    <2>1. CASE i <= Len(s)
        <3>1. i \in 1 .. Len(s)
            BY <1>1, <2>1
        <3> QED
            BY <3>1, <1>3, <1>4
    <2>2. CASE ~ i <= Len(s)
        <3> DEFINE j == i - Len(s)
        <3>1. j \in 1 .. Len(h) /\ j \in 1 .. Len(t) /\ i = Len(s) + j
            BY <1>1, <1>2, <2>2
        <3> HIDE DEF j
        <3> QED
            BY <3>1, <1>2, <1>3, <1>4
    <2> QED
        BY <2>1, <2>2
<1>6. x = r
    BY <1>3, <1>5, SeqEqual, ZenonT(30)
<1> QED
    BY <1>6 DEF x, h

Cand(I) == [index : Nat \ {0}, candidates : Seq(I)]
Guess(I) == [m : I \cup {LitNull}, index : Nat \ {0}, children : Nat, candidates : Seq(I)]

Lists(s) == [i \in DOMAIN s |-> s[i].candidates]
By(g) == IF g.m = LitNull THEN <<>> ELSE Lists(Opened(g.m))
Bys(gs) == [i \in DOMAIN gs |-> By(gs[i])]
Roots == [i \in DOMAIN AnchorIdentifiers |-> <<AnchorIdentifiers[i]>>]
Agenda(gs) == Roots \o FlattenSeq(Bys(gs))

\* What is made and open is the agenda, and no guess was made that the guesses
\* before it had not put on the agenda.
Kept(gs, cs) ==
    /\ gs \in Seq(Guess(Ids)) /\ cs \in Seq(Cand(Ids))
    /\ \A i \in 1 .. Len(gs) : gs[i].children = Len(By(gs[i]))
    /\ Lists(gs) \o Lists(cs) = Agenda(gs)
    /\ \A i \in 1 .. Len(gs) : i <= Len(Agenda(SubSeq(gs, 1, i - 1)))

\* The candidates of a list of records that have some.
LEMMA ListsFacts ==
    ASSUME NEW I, NEW R, \A r \in R : r.candidates \in Seq(I), NEW s \in Seq(R)
    PROVE  /\ Lists(s) \in Seq(Seq(I)) /\ Len(Lists(s)) = Len(s)
           /\ \A i \in 1 .. Len(s) : Lists(s)[i] = s[i].candidates
<1>1. DOMAIN s = 1 .. Len(s) /\ Len(s) \in Nat /\ \A i \in 1 .. Len(s) : s[i] \in R
    OBVIOUS
<1>2. Lists(s) = [i \in 1 .. Len(s) |-> s[i].candidates]
    BY <1>1 DEF Lists
<1>3. Lists(s) \in [1 .. Len(s) -> Seq(I)]
    BY <1>1, <1>2
<1> QED
    BY <1>1, <1>2, <1>3

\* The candidates of choices.
LEMMA CandLists ==
    ASSUME NEW s \in Seq(Cand(Ids))
    PROVE  /\ Lists(s) \in Seq(Seq(Ids)) /\ Len(Lists(s)) = Len(s)
           /\ \A i \in 1 .. Len(s) : Lists(s)[i] = s[i].candidates
<1>1. \A r \in Cand(Ids) : r.candidates \in Seq(Ids)
    BY DEF Cand
<1> QED
    BY <1>1, ListsFacts, ZenonT(30)

\* The candidates of guesses.
LEMMA GuessLists ==
    ASSUME NEW s \in Seq(Guess(Ids))
    PROVE  /\ Lists(s) \in Seq(Seq(Ids)) /\ Len(Lists(s)) = Len(s)
           /\ \A i \in 1 .. Len(s) : Lists(s)[i] = s[i].candidates
<1>1. \A r \in Guess(Ids) : r.candidates \in Seq(Ids)
    BY DEF Guess
<1> QED
    BY <1>1, ListsFacts, ZenonT(30)

\* What a guess opens are choices.
LEMMA OpenedType ==
    ASSUME WellFormed, NEW m \in Ids
    PROVE  Opened(m) \in Seq(Cand(Ids))
<1> DEFINE C == constraints[m]
           orders == [i \in DOMAIN C |-> order(C[i])]
           full == Range(orders) \ {<<>>}
           some == Filter(orders, full)
           o == [i \in DOMAIN some |-> [index |-> 1, candidates |-> some[i]]]
<1>1. C \in Seq(Constraint(Ids))
    BY DEF WellFormed
<1>2. \A c \in Constraint(Ids) : order(c) \in Seq(Ids)
    BY ConstraintShape DEF order
<1>3. orders \in Seq(Seq(Ids))
    <2> HIDE DEF C
    <2>1. \A i \in DOMAIN C : orders[i] \in Seq(Ids)
        BY <1>1, <1>2
    <2>2. DOMAIN orders = DOMAIN C /\ orders = [i \in DOMAIN C |-> orders[i]]
        BY ZenonT(30)
    <2> HIDE DEF orders
    <2> QED
        BY <1>1, <2>1, <2>2, MappedType
<1>4. Opened(m) = o
    BY ZenonT(30) DEF Opened
<1> HIDE DEF orders
<1>5. some \in Seq(Seq(Ids))
    <2> HIDE DEF full
    <2>1. some \in Seq(Seq(Ids) \cap full)
        BY <1>3, FilterType, ZenonT(30)
    <2> HIDE DEF some
    <2> QED
        BY <2>1
<1> HIDE DEF some
<1>6. \A i \in DOMAIN some : o[i] \in Cand(Ids)
    BY <1>5 DEF Cand
<1>7. o \in Seq(Cand(Ids))
    <2>1. DOMAIN o = DOMAIN some /\ o = [i \in DOMAIN some |-> o[i]]
        BY ZenonT(30)
    <2> HIDE DEF o
    <2> QED
        BY <1>5, <1>6, <2>1, MappedType, ZenonT(30)
<1> QED
    BY <1>4, <1>7, ZenonT(30)

\* What a guess on the stack put on the agenda.
LEMMA ByType ==
    ASSUME WellFormed, NEW g \in Guess(Ids)
    PROVE  By(g) \in Seq(Seq(Ids))
<1>1. g.m = LitNull \/ g.m \in Ids
    BY DEF Guess
<1>2. CASE g.m = LitNull
    BY <1>2 DEF By
<1>3. CASE g.m # LitNull
    BY <1>1, <1>3, OpenedType, CandLists DEF By
<1> QED
    BY <1>2, <1>3

\* The agenda of the mandatory variables.
LEMMA RootsType ==
    ASSUME WellFormed
    PROVE  /\ Roots \in Seq(Seq(Ids)) /\ Len(Roots) = Len(AnchorIdentifiers)
           /\ \A i \in DOMAIN AnchorIdentifiers : Roots[i] = <<AnchorIdentifiers[i]>>
<1>1. AnchorIdentifiers \in Seq(Ids)
    BY AnchorsType
<1>2. \A i \in DOMAIN AnchorIdentifiers : Roots[i] = <<AnchorIdentifiers[i]>>
    BY DEF Roots
<1>3. \A i \in DOMAIN AnchorIdentifiers : Roots[i] \in Seq(Ids)
    <2>1. \A x \in Ids : <<x>> \in Seq(Ids)
        OBVIOUS
    <2>2. \A i \in DOMAIN AnchorIdentifiers : AnchorIdentifiers[i] \in Ids
        BY <1>1
    <2> QED
        BY <1>2, <2>1, <2>2, ZenonT(30)
<1>4. DOMAIN Roots = DOMAIN AnchorIdentifiers
      /\ Roots = [i \in DOMAIN AnchorIdentifiers |-> Roots[i]]
    BY ZenonT(30) DEF Roots
<1> QED
    BY <1>1, <1>2, <1>3, <1>4, MappedType

\* What all guesses on the stack put on the agenda.
LEMMA BysType ==
    ASSUME WellFormed, NEW gs \in Seq(Guess(Ids))
    PROVE  Bys(gs) \in Seq(Seq(Seq(Ids))) /\ Len(Bys(gs)) = Len(gs)
<1>1. \A i \in DOMAIN gs : gs[i] \in Guess(Ids)
    OBVIOUS
<1>2. \A i \in DOMAIN gs : Bys(gs)[i] \in Seq(Seq(Ids))
    BY <1>1, ByType DEF Bys
<1>3. DOMAIN Bys(gs) = DOMAIN gs /\ Bys(gs) = [i \in DOMAIN gs |-> Bys(gs)[i]]
    BY ZenonT(30) DEF Bys
<1> QED
    BY <1>2, <1>3, MappedType

\* One more guess puts on the agenda what it opens, at the end.
LEMMA AgendaFacts ==
    ASSUME WellFormed, NEW gs \in Seq(Guess(Ids)), NEW g \in Guess(Ids)
    PROVE  /\ Agenda(gs) \in Seq(Seq(Ids))
           /\ Agenda(Append(gs, g)) = Agenda(gs) \o By(g)
<1>1. Bys(gs) \in Seq(Seq(Seq(Ids))) /\ Len(Bys(gs)) = Len(gs) /\ By(g) \in Seq(Seq(Ids))
    BY BysType, ByType
<1>2. Roots \in Seq(Seq(Ids))
    BY RootsType
<1>3. Bys(Append(gs, g)) = Append(Bys(gs), By(g))
    <2> DEFINE t == Append(gs, g)
               b == Append(Bys(gs), By(g))
    <2>1. /\ t \in Seq(Guess(Ids)) /\ Len(t) = Len(gs) + 1 /\ t[Len(gs) + 1] = g
          /\ \A i \in 1 .. Len(gs) : t[i] = gs[i]
          /\ Len(gs) \in Nat
        OBVIOUS
    <2>2. Bys(t) \in Seq(Seq(Seq(Ids))) /\ Len(Bys(t)) = Len(gs) + 1
        BY <2>1, BysType, ZenonT(30)
    <2>3. /\ b \in Seq(Seq(Seq(Ids))) /\ Len(b) = Len(gs) + 1 /\ b[Len(gs) + 1] = By(g)
          /\ \A i \in 1 .. Len(gs) : b[i] = Bys(gs)[i]
        BY <1>1
    <2>4. /\ \A i \in 1 .. Len(gs) : Bys(gs)[i] = By(gs[i])
          /\ \A i \in 1 .. Len(gs) + 1 : Bys(t)[i] = By(t[i])
        <3>1. DOMAIN gs = 1 .. Len(gs) /\ DOMAIN t = 1 .. Len(gs) + 1
            BY <2>1
        <3> HIDE DEF t
        <3> QED
            BY <3>1 DEF Bys
    <2> HIDE DEF t, b
    <2>5. \A i \in 1 .. Len(gs) + 1 : Bys(t)[i] = b[i]
        <3>1. \A i \in 1 .. Len(gs) + 1 : i = Len(gs) + 1 \/ i \in 1 .. Len(gs)
            BY <2>1
        <3> QED
            BY <3>1, <2>1, <2>3, <2>4, ZenonT(30)
    <2>6. Bys(t) = b
        BY <2>2, <2>3, <2>5
    <2> QED
        BY <2>6 DEF t, b
<1>4. /\ FlattenSeq(Bys(gs)) \in Seq(Seq(Ids))
      /\ FlattenSeq(Append(Bys(gs), By(g))) = FlattenSeq(Bys(gs)) \o By(g)
    BY <1>1, FlattenFacts, ZenonT(30)
<1> DEFINE F == FlattenSeq(Bys(gs))
           x == By(g)
           r == Roots
<1>5. r \o (F \o x) = (r \o F) \o x /\ r \o F \in Seq(Seq(Ids))
    <2>1. r \in Seq(Seq(Ids)) /\ F \in Seq(Seq(Ids)) /\ x \in Seq(Seq(Ids))
        BY <1>1, <1>2, <1>4
    <2> HIDE DEF F, x, r
    <2> QED
        BY <2>1, ConcatAssoc, ZenonT(30)
<1> QED
    BY <1>3, <1>4, <1>5, ZenonT(30) DEF Agenda

\* PushGuess: the front choice is made, and the choices it opens are added.
LEMMA PushKept ==
    ASSUME WellFormed, NEW gs, NEW cs, Kept(gs, cs), cs # <<>>,
           NEW g \in Guess(Ids), g.candidates = Head(cs).candidates,
           NEW opened \in Seq(Cand(Ids)), By(g) = Lists(opened), g.children = Len(opened)
    PROVE  Kept(Append(gs, g), Tail(cs) \o opened)
<1> DEFINE n == Len(gs)
           ms == Append(gs, g)
           ds == Tail(cs) \o opened
<1>1. gs \in Seq(Guess(Ids)) /\ cs \in Seq(Cand(Ids)) /\ n \in Nat /\ Len(cs) \in Nat \ {0}
    BY DEF Kept
<1>2. /\ ms \in Seq(Guess(Ids)) /\ Len(ms) = n + 1 /\ ms[n + 1] = g
      /\ \A i \in 1 .. n : ms[i] = gs[i]
    BY <1>1
<1>3. /\ ds \in Seq(Cand(Ids)) /\ Len(ds) = Len(cs) - 1 + Len(opened)
      /\ \A i \in 1 .. Len(cs) - 1 : ds[i] = cs[i + 1]
      /\ \A i \in 1 .. Len(opened) : ds[Len(cs) - 1 + i] = opened[i]
    BY <1>1
<1>4. Agenda(gs) \in Seq(Seq(Ids)) /\ Agenda(ms) = Agenda(gs) \o Lists(opened)
    BY <1>1, AgendaFacts
<1>5. /\ Lists(gs) \in Seq(Seq(Ids)) /\ Len(Lists(gs)) = n
      /\ \A i \in 1 .. n : Lists(gs)[i] = gs[i].candidates
    BY <1>1, GuessLists
<1>6. /\ Lists(cs) \in Seq(Seq(Ids)) /\ Len(Lists(cs)) = Len(cs)
      /\ \A i \in 1 .. Len(cs) : Lists(cs)[i] = cs[i].candidates
    BY <1>1, CandLists
<1>7. /\ Lists(opened) \in Seq(Seq(Ids)) /\ Len(Lists(opened)) = Len(opened)
      /\ \A i \in 1 .. Len(opened) : Lists(opened)[i] = opened[i].candidates
    BY CandLists
<1>8. Lists(gs) \o Lists(cs) = Agenda(gs)
    BY DEF Kept
<1>c. Head(cs) = cs[1]
    BY <1>1
<1> HIDE DEF ms, ds
<1>9. /\ Lists(ms) \in Seq(Seq(Ids)) /\ Len(Lists(ms)) = n + 1
      /\ \A i \in 1 .. n + 1 : Lists(ms)[i] = ms[i].candidates
    BY <1>2, GuessLists
<1>10. /\ Lists(ds) \in Seq(Seq(Ids)) /\ Len(Lists(ds)) = Len(ds)
       /\ \A i \in 1 .. Len(ds) : Lists(ds)[i] = ds[i].candidates
    BY <1>3, CandLists, ZenonT(30)
<1>11. Lists(ms) \o Lists(ds) = Agenda(ms)
    <2> DEFINE U == Seq(Ids)
               lg == Lists(gs)
               lc == Lists(cs)
               lo == Lists(opened)
               lm == Lists(ms)
               ld == Lists(ds)
    <2>1. /\ lg \in Seq(U) /\ lc \in Seq(U) /\ lo \in Seq(U) /\ lm \in Seq(U) /\ ld \in Seq(U)
          /\ Len(lg) = n /\ Len(lc) = Len(cs) /\ Len(lo) = Len(opened) /\ Len(lm) = n + 1
          /\ Len(ld) = Len(lc) - 1 + Len(lo) /\ Len(lc) # 0
        BY <1>1, <1>3, <1>5, <1>6, <1>7, <1>9, <1>10
    <2>2. /\ \A i \in 1 .. n : lm[i] = lg[i]
          /\ lm[n + 1] = lc[1]
        <3>1. \A i \in 1 .. n : i \in 1 .. n + 1
            BY <1>1
        <3>2. n + 1 \in 1 .. n + 1 /\ 1 \in 1 .. Len(cs)
            BY <1>1
        <3> QED
            BY <3>1, <3>2, <1>2, <1>5, <1>6, <1>9, <1>c, ZenonT(30)
    <2>3. /\ \A i \in 1 .. Len(lc) - 1 : ld[i] = lc[i + 1]
          /\ \A i \in 1 .. Len(lo) : ld[Len(lc) - 1 + i] = lo[i]
        <3>1. \A i \in 1 .. Len(cs) - 1 : i \in 1 .. Len(ds) /\ i + 1 \in 1 .. Len(cs)
            BY <1>1, <1>3
        <3>2. \A i \in 1 .. Len(opened) : Len(cs) - 1 + i \in 1 .. Len(ds)
            BY <1>1, <1>3
        <3>3. Len(lc) = Len(cs) /\ Len(lo) = Len(opened)
            BY <2>1
        <3> QED
            BY <3>1, <3>2, <3>3, <1>3, <1>6, <1>7, <1>10, ZenonT(30)
    <2> HIDE DEF U, lg, lc, lo, lm, ld
    <2>4. lm \o ld = (lg \o lc) \o lo
        <3> DEFINE x == lm \o ld
                   y == (lg \o lc) \o lo
                   z == lg \o lc
                   k == Len(lc)
                   l == Len(lo)
        <3>0. k \in Nat /\ l \in Nat /\ n \in Nat /\ k # 0 /\ Len(lg) = n /\ Len(lm) = n + 1
              /\ Len(ld) = k - 1 + l
            BY <1>1, <2>1
        <3>1. /\ z \in Seq(U) /\ Len(z) = n + k
              /\ \A i \in 1 .. n : z[i] = lg[i]
              /\ \A i \in 1 .. k : z[n + i] = lc[i]
            <4>1. z \in Seq(U) /\ Joins(z, lg, lc)
                BY <2>1, ConcatAt
            <4> HIDE DEF z
            <4> QED
                BY <4>1, <3>0 DEF Joins
        <3> HIDE DEF z
        <3>2. /\ y \in Seq(U) /\ Len(y) = (n + k) + l
              /\ \A i \in 1 .. n + k : y[i] = z[i]
              /\ \A i \in 1 .. l : y[(n + k) + i] = lo[i]
            <4> DEFINE w == z \o lo
            <4>1. w \in Seq(U) /\ Joins(w, z, lo)
                BY <2>1, <3>1, ConcatAt
            <4>2. y = w
                BY DEF z
            <4> HIDE DEF w, y
            <4> QED
                BY <4>1, <4>2, <3>0, <3>1 DEF Joins
        <3>3. /\ x \in Seq(U) /\ Len(x) = (n + 1) + Len(ld)
              /\ \A i \in 1 .. n + 1 : x[i] = lm[i]
              /\ \A i \in 1 .. Len(ld) : x[(n + 1) + i] = ld[i]
            <4>1. x \in Seq(U) /\ Joins(x, lm, ld)
                BY <2>1, ConcatAt
            <4> HIDE DEF x
            <4> QED
                BY <4>1, <3>0 DEF Joins
        <3> HIDE DEF x, y, n, k, l
        <3>4. ASSUME NEW i \in 1 .. (n + k) + l PROVE x[i] = y[i]
            <4>1. CASE i <= n
                <5>1. i \in 1 .. n /\ i \in 1 .. n + k /\ i \in 1 .. n + 1
                    BY <4>1, <3>0
                <5> QED
                    BY <5>1, <3>1, <3>2, <3>3, <2>2, ZenonT(30)
            <4>2. CASE i = n + 1
                <5>1. i \in 1 .. n + k /\ i \in 1 .. n + 1 /\ 1 \in 1 .. k
                    BY <4>2, <3>0
                <5> QED
                    BY <4>2, <5>1, <3>1, <3>2, <3>3, <2>2, ZenonT(30)
            <4>3. CASE i > n + 1 /\ i <= n + k
                <5> DEFINE j == i - (n + 1)
                <5>1. j \in 1 .. k - 1 /\ i = (n + 1) + j /\ j \in 1 .. Len(ld)
                      /\ j + 1 \in 1 .. k /\ i = n + (j + 1) /\ i \in 1 .. n + k
                    BY <4>3, <3>0
                <5>2. ld[j] = lc[j + 1]
                    BY <5>1, <2>3 DEF k
                <5> HIDE DEF j
                <5>3. x[i] = ld[j] /\ y[i] = z[i] /\ z[i] = lc[j + 1]
                    BY <5>1, <3>1, <3>2, <3>3, ZenonT(30)
                <5> QED
                    BY <5>2, <5>3
            <4>4. CASE i > n + k
                <5> DEFINE j == i - (n + k)
                           h == (k - 1) + j
                <5>1. j \in 1 .. l /\ i = (n + k) + j /\ h \in 1 .. Len(ld) /\ i = (n + 1) + h
                    BY <4>4, <3>0
                <5>2. ld[h] = lo[j]
                    BY <5>1, <2>3 DEF k, l
                <5> HIDE DEF j, h
                <5> QED
                    BY <5>1, <5>2, <3>2, <3>3, ZenonT(30)
            <4> QED
                BY <4>1, <4>2, <4>3, <4>4, <3>0
        <3>5. x = y
            <4>1. Len(x) = Len(y) /\ Len(x) = (n + k) + l
                BY <3>0, <3>2, <3>3
            <4> QED
                BY <4>1, <3>2, <3>3, <3>4, SeqEqual, ZenonT(30)
        <3> QED
            BY <3>5 DEF x, y, z
    <2> QED
        BY <2>4, <1>4, <1>8, ZenonT(30) DEF lg, lc, lo, lm, ld
<1>12. \A i \in 1 .. n + 1 : ms[i].children = Len(By(ms[i]))
    <2>1. \A i \in 1 .. n : gs[i].children = Len(By(gs[i]))
        BY DEF Kept
    <2>2. \A i \in 1 .. n + 1 : i = n + 1 \/ i \in 1 .. n
        BY <1>1
    <2>3. g.children = Len(By(g))
        BY <1>7
    <2> QED
        BY <2>1, <2>2, <2>3, <1>2, ZenonT(30)
<1>13. \A i \in 1 .. n + 1 : i <= Len(Agenda(SubSeq(ms, 1, i - 1)))
    <2>1. ASSUME NEW i \in 1 .. n PROVE i <= Len(Agenda(SubSeq(ms, 1, i - 1)))
        <3>1. SubSeq(ms, 1, i - 1) = SubSeq(gs, 1, i - 1)
            BY <1>1, <1>2
        <3> QED
            BY <3>1, ZenonT(30) DEF Kept
    <2>2. SubSeq(ms, 1, (n + 1) - 1) = gs
        BY <1>1, <1>2
    <2>3. n + 1 <= Len(Agenda(gs))
        <3> DEFINE lg == Lists(gs)
                   lc == Lists(cs)
        <3>1. Len(lg \o lc) = n + Len(cs)
            <4>1. lg \in Seq(Seq(Ids)) /\ lc \in Seq(Seq(Ids)) /\ Len(lg) = n /\ Len(lc) = Len(cs)
                BY <1>5, <1>6
            <4> HIDE DEF lg, lc, n
            <4>2. Joins(lg \o lc, lg, lc)
                BY <4>1, ConcatAt
            <4> QED
                BY <4>1, <4>2 DEF Joins
        <3>2. Len(Agenda(gs)) = n + Len(cs)
            BY <3>1, <1>8
        <3> QED
            BY <3>2, <1>1
    <2>4. \A i \in 1 .. n + 1 : i = n + 1 \/ i \in 1 .. n
        BY <1>1
    <2> QED
        BY <2>1, <2>2, <2>3, <2>4, ZenonT(30)
<1> QED
    BY <1>2, <1>3, <1>11, <1>12, <1>13, ZenonT(30) DEF Kept, ms, ds

\* A prefix, position by position.
LEMMA SubSeqFacts ==
    ASSUME NEW U, NEW s \in Seq(U), NEW m \in Nat, m <= Len(s)
    PROVE  /\ SubSeq(s, 1, m) \in Seq(U) /\ Len(SubSeq(s, 1, m)) = m
           /\ \A i \in 1 .. m : SubSeq(s, 1, m)[i] = s[i]
OBVIOUS

\* Front and Last take a sequence apart.
LEMMA FrontFacts ==
    ASSUME NEW U, NEW s \in Seq(U), s # <<>>
    PROVE  /\ Front(s) \in Seq(U) /\ Last(s) \in U /\ Len(s) \in Nat \ {0}
           /\ Len(Front(s)) = Len(s) - 1 /\ s = Append(Front(s), Last(s))
           /\ \A i \in 1 .. Len(s) - 1 : Front(s)[i] = s[i]
           /\ Last(s) = s[Len(s)]
<1> DEFINE n == Len(s)
           f == SubSeq(s, 1, n - 1)
           a == Append(f, s[n])
<1>1. n \in Nat \ {0} /\ n \in 1 .. n /\ s[n] \in U
    OBVIOUS
<1>2. f \in Seq(U) /\ Len(f) = n - 1 /\ \A i \in 1 .. n - 1 : f[i] = s[i]
    <2> DEFINE m == n - 1
    <2>1. m \in Nat /\ m <= Len(s)
        BY <1>1
    <2> HIDE DEF m
    <2>2. /\ SubSeq(s, 1, m) \in Seq(U) /\ Len(SubSeq(s, 1, m)) = m
          /\ \A i \in 1 .. m : SubSeq(s, 1, m)[i] = s[i]
        BY <2>1, SubSeqFacts
    <2> QED
        BY <2>2 DEF m
<1> HIDE DEF f
<1>3. a \in Seq(U) /\ Len(a) = n /\ \A i \in 1 .. n : a[i] = s[i]
    BY <1>1, <1>2
<1> HIDE DEF a
<1>4. a = s
    BY <1>1, <1>3, SeqEqual
<1> QED
    BY <1>1, <1>2, <1>4 DEF Front, Last, f, a

\* PopGuess: the choice is open again, and those it had opened are gone.
LEMMA PopKept ==
    ASSUME WellFormed, NEW gs, NEW cs, Kept(gs, cs), gs # <<>>,
           NEW c \in Cand(Ids), c.candidates = Last(gs).candidates
    PROVE  Kept(Front(gs), <<c>> \o SubSeq(cs, 1, Len(cs) - Last(gs).children))
<1> DEFINE n == Len(gs)
           g == Last(gs)
           ms == Front(gs)
           k == g.children
           rest == SubSeq(cs, 1, Len(cs) - k)
           ds == <<c>> \o rest
<1>1. gs \in Seq(Guess(Ids)) /\ cs \in Seq(Cand(Ids)) /\ Len(cs) \in Nat
    BY DEF Kept
<1>2. /\ ms \in Seq(Guess(Ids)) /\ g \in Guess(Ids) /\ n \in Nat \ {0} /\ Len(ms) = n - 1
      /\ gs = Append(ms, g)
      /\ \A i \in 1 .. n - 1 : ms[i] = gs[i]
      /\ g = gs[n]
    BY <1>1, FrontFacts, ZenonT(30)
<1> HIDE DEF ms, g
<1>3. /\ Agenda(ms) \in Seq(Seq(Ids)) /\ Agenda(gs) = Agenda(ms) \o By(g)
      /\ By(g) \in Seq(Seq(Ids))
    BY <1>2, AgendaFacts, ByType, ZenonT(30)
<1>4. k = Len(By(g)) /\ k \in Nat
    <2>1. n \in 1 .. n
        BY <1>2
    <2> QED
        BY <2>1, <1>2, <1>3 DEF Kept
<1>5. /\ Lists(gs) \in Seq(Seq(Ids)) /\ Len(Lists(gs)) = n
      /\ \A i \in 1 .. n : Lists(gs)[i] = gs[i].candidates
    BY <1>1, GuessLists
<1>6. /\ Lists(cs) \in Seq(Seq(Ids)) /\ Len(Lists(cs)) = Len(cs)
      /\ \A i \in 1 .. Len(cs) : Lists(cs)[i] = cs[i].candidates
    BY <1>1, CandLists
<1>7. n <= Len(Agenda(ms))
    <2>1. n \in 1 .. n /\ SubSeq(gs, 1, n - 1) = ms
        BY <1>2, <1>1 DEF ms, Front
    <2> QED
        BY <2>1, ZenonT(30) DEF Kept
<1>8. n + Len(cs) = Len(Agenda(ms)) + k /\ k <= Len(cs)
    <2> DEFINE lg == Lists(gs)
               lc == Lists(cs)
               A == Agenda(ms)
               b == By(g)
    <2>1. lg \o lc = A \o b
        BY <1>3 DEF Kept
    <2>2. Joins(lg \o lc, lg, lc) /\ Joins(A \o b, A, b)
        BY <1>3, <1>5, <1>6, ConcatAt
    <2>3. Len(lg) + Len(lc) = Len(A) + Len(b)
        BY <2>1, <2>2 DEF Joins
    <2>4. Len(A) \in Nat
        BY <1>3
    <2>5. Len(lg) = n /\ Len(lc) = Len(cs) /\ Len(b) = k /\ n <= Len(A)
        BY <1>4, <1>5, <1>6, <1>7
    <2>6. n \in Nat /\ k \in Nat /\ Len(cs) \in Nat
        BY <1>1, <1>2, <1>4
    <2> HIDE DEF n, k, lg, lc, b, A
    <2>7. n + Len(cs) = Len(A) + k /\ k <= Len(cs)
        BY <2>3, <2>4, <2>5, <2>6
    <2> QED
        BY <2>7 DEF A
<1>9. /\ rest \in Seq(Cand(Ids)) /\ Len(rest) = Len(cs) - k
      /\ \A i \in 1 .. Len(cs) - k : rest[i] = cs[i]
    BY <1>1, <1>4, <1>8
<1> HIDE DEF rest
<1>10. /\ ds \in Seq(Cand(Ids)) /\ Len(ds) = Len(cs) - k + 1 /\ ds[1] = c
       /\ \A i \in 1 .. Len(cs) - k : ds[i + 1] = cs[i]
    <2> DEFINE one == <<c>>
    <2>1. one \in Seq(Cand(Ids)) /\ Len(one) = 1 /\ one[1] = c
        OBVIOUS
    <2> HIDE DEF one, k
    <2>2. ds = one \o rest
        BY DEF one
    <2>3. one \o rest \in Seq(Cand(Ids)) /\ Joins(one \o rest, one, rest)
        BY <2>1, <1>9, ConcatAt
    <2> HIDE DEF ds
    <2>4. /\ ds \in Seq(Cand(Ids)) /\ Len(ds) = 1 + (Len(cs) - k) /\ ds[1] = one[1]
          /\ \A i \in 1 .. Len(cs) - k : ds[1 + i] = rest[i]
        BY <2>1, <2>2, <2>3, <1>9 DEF Joins
    <2> QED
        BY <2>1, <2>4, <1>1, <1>4, <1>8, <1>9
<1> HIDE DEF ds
<1>11. /\ Lists(ms) \in Seq(Seq(Ids)) /\ Len(Lists(ms)) = n - 1
       /\ \A i \in 1 .. n - 1 : Lists(ms)[i] = ms[i].candidates
    BY <1>2, GuessLists
<1>12. /\ Lists(ds) \in Seq(Seq(Ids)) /\ Len(Lists(ds)) = Len(ds)
       /\ \A i \in 1 .. Len(ds) : Lists(ds)[i] = ds[i].candidates
    BY <1>10, CandLists
<1>13. Lists(ms) \o Lists(ds) = Agenda(ms)
    <2> DEFINE U == Seq(Ids)
               lg == Lists(gs)
               lc == Lists(cs)
               lm == Lists(ms)
               ld == Lists(ds)
               A == Agenda(ms)
               b == By(g)
               d == Len(cs) - k
               lr == SubSeq(lc, 1, d)
    <2>1. /\ lg \in Seq(U) /\ lc \in Seq(U) /\ lm \in Seq(U) /\ ld \in Seq(U)
          /\ A \in Seq(U) /\ b \in Seq(U)
        BY <1>3, <1>5, <1>6, <1>11, <1>12
    <2>2. d \in Nat /\ Len(lc) - Len(b) = d /\ Len(b) <= Len(lc) /\ d <= Len(lc)
        BY <1>1, <1>4, <1>6, <1>8
    <2>3. lg \o lc = A \o b
        BY <1>3 DEF Kept
    <2>4. lg \o lr = A
        <3> HIDE DEF lg, lc, A, b, U, d
        <3>1. lg \o SubSeq(lc, 1, Len(lc) - Len(b)) = A
            BY <2>1, <2>2, <2>3, Cut, ZenonT(30)
        <3> QED
            BY <3>1, <2>2, ZenonT(30)
    <2>5. lr \in Seq(U) /\ Len(lr) = d /\ \A i \in 1 .. d : lr[i] = lc[i]
        <3> HIDE DEF lc, U, d
        <3> QED
            BY <2>1, <2>2
    <2>6. /\ \A i \in 1 .. n - 1 : lm[i] = lg[i]
          /\ ld[1] = lg[n]
          /\ \A i \in 1 .. d : ld[i + 1] = lr[i]
        <3>1. \A i \in 1 .. n - 1 : i \in 1 .. n
            BY <1>2
        <3>2. n \in 1 .. n /\ 1 \in 1 .. Len(ds)
            BY <1>2, <1>10, <2>2
        <3>3. \A i \in 1 .. d : i + 1 \in 1 .. Len(ds) /\ i \in 1 .. Len(cs)
            BY <1>1, <1>4, <1>10, <2>2
        <3>4. c.candidates = gs[n].candidates
            BY <1>2 DEF g
        <3> HIDE DEF lr
        <3>5. \A i \in 1 .. n - 1 : lm[i] = lg[i]
            BY <3>1, <1>2, <1>5, <1>11, ZenonT(30)
        <3>6. ld[1] = lg[n]
            BY <3>2, <3>4, <1>5, <1>10, <1>12, ZenonT(30)
        <3>7. ASSUME NEW i \in 1 .. d PROVE ld[i + 1] = lr[i]
            <4>1. ld[i + 1] = ds[i + 1].candidates /\ lc[i] = cs[i].candidates
                BY <3>3, <1>6, <1>12, ZenonT(30)
            <4>2. ds[i + 1] = cs[i] /\ lr[i] = lc[i]
                BY <1>10, <2>5, ZenonT(30)
            <4> QED
                BY <4>1, <4>2, ZenonT(30)
        <3> QED
            BY <3>5, <3>6, <3>7, ZenonT(30)
    <2>7. Len(lm) = n - 1 /\ Len(ld) = d + 1 /\ Len(lg) = n
        BY <1>5, <1>10, <1>11, <1>12
    <2> HIDE DEF U, lg, lc, lm, ld, lr, d, n, A
    <2> DEFINE x == lm \o ld
               y == lg \o lr
    <2>8. x \in Seq(U) /\ Joins(x, lm, ld)
        BY <2>1, ConcatAt
    <2>9. y \in Seq(U) /\ Joins(y, lg, lr)
        BY <2>1, <2>5, ConcatAt
    <2> HIDE DEF x, y
    <2>10. /\ Len(x) = n + d /\ Len(y) = n + d
           /\ \A i \in 1 .. n - 1 : x[i] = lm[i]
           /\ \A i \in 1 .. d + 1 : x[(n - 1) + i] = ld[i]
           /\ \A i \in 1 .. n : y[i] = lg[i]
           /\ \A i \in 1 .. d : y[n + i] = lr[i]
        BY <1>2, <2>2, <2>5, <2>7, <2>8, <2>9 DEF Joins
    <2>11. ASSUME NEW i \in 1 .. n + d PROVE x[i] = y[i]
        <3>1. CASE i < n
            <4>1. i \in 1 .. n - 1 /\ i \in 1 .. n
                BY <3>1, <1>2, <2>2
            <4> QED
                BY <4>1, <2>6, <2>10
        <3>2. CASE i = n
            <4>1. 1 \in 1 .. d + 1 /\ (n - 1) + 1 = n /\ n \in 1 .. n
                BY <1>2, <2>2
            <4>2. x[(n - 1) + 1] = ld[1] /\ y[n] = lg[n]
                BY <4>1, <2>10, ZenonT(30)
            <4> QED
                BY <3>2, <4>1, <4>2, <2>6
        <3>3. CASE i > n
            <4> DEFINE j == i - n
            <4>1. j \in 1 .. d /\ j + 1 \in 1 .. d + 1 /\ i = n + j /\ i = (n - 1) + (j + 1)
                BY <3>3, <1>2, <2>2
            <4> HIDE DEF j
            <4>2. x[(n - 1) + (j + 1)] = ld[j + 1] /\ y[n + j] = lr[j] /\ ld[j + 1] = lr[j]
                BY <4>1, <2>6, <2>10, ZenonT(30)
            <4> QED
                BY <4>1, <4>2
        <3> QED
            BY <3>1, <3>2, <3>3, <1>2, <2>2
    <2>12. x = y
        BY <2>8, <2>9, <2>10, <2>11, SeqEqual
    <2> QED
        BY <2>4, <2>12 DEF x, y, lm, ld, A
<1>14. \A i \in 1 .. n - 1 : ms[i].children = Len(By(ms[i]))
    <2>1. \A i \in 1 .. n : gs[i].children = Len(By(gs[i]))
        BY DEF Kept
    <2>2. \A i \in 1 .. n - 1 : i \in 1 .. n
        BY <1>2
    <2> QED
        BY <2>1, <2>2, <1>2, ZenonT(30)
<1>15. ASSUME NEW i \in 1 .. n - 1 PROVE i <= Len(Agenda(SubSeq(ms, 1, i - 1)))
    <2>1. SubSeq(ms, 1, i - 1) = SubSeq(gs, 1, i - 1) /\ i \in 1 .. n
        BY <1>1, <1>2
    <2> QED
        BY <2>1, ZenonT(30) DEF Kept
<1> HIDE DEF n
<1>16. Kept(ms, ds)
    BY <1>2, <1>10, <1>13, <1>14, <1>15 DEF Kept
<1> QED
    BY <1>16 DEF ms, ds, rest, k, g
-----------------------------------------------------------------------------
(* The assumptions *)

Assumed(gs) == {gs[i].m : i \in 1 .. Len(gs)} \ {LitNull}
Once(gs) == \A i, j \in 1 .. Len(gs) :
                gs[i].m = gs[j].m /\ gs[i].m # LitNull => i = j

\* A guess of something new is assumed once.
LEMMA PushAssumed ==
    ASSUME NEW gs \in Seq(Guess(Ids)), Once(gs), NEW g \in Guess(Ids),
           g.m \notin Assumed(gs)
    PROVE  /\ Once(Append(gs, g))
           /\ Assumed(Append(gs, g)) = Assumed(gs) \cup ({g.m} \ {LitNull})
<1> DEFINE t == Append(gs, g)
           n == Len(gs)
<1>1. /\ Len(t) = n + 1 /\ n \in Nat /\ t[n + 1] = g
      /\ \A i \in 1 .. n : t[i] = gs[i]
    OBVIOUS
<1>2. \A i \in 1 .. n + 1 : i = n + 1 \/ i \in 1 .. n
    BY <1>1
<1>3. n + 1 \in 1 .. n + 1 /\ \A i \in 1 .. n : i \in 1 .. n + 1
    BY <1>1
<1>4. \A i \in 1 .. n : gs[i].m # LitNull => gs[i].m # g.m
    BY DEF Assumed
<1> HIDE DEF t, n
<1>5. Once(t)
    BY <1>1, <1>2, <1>4, ZenonT(30) DEF Once, n
<1>6. Assumed(t) = Assumed(gs) \cup ({g.m} \ {LitNull})
    BY <1>1, <1>2, <1>3 DEF Assumed, n
<1> QED
    BY <1>5, <1>6 DEF t

\* A guess that is taken back is no longer assumed.
LEMMA PopAssumed ==
    ASSUME NEW gs \in Seq(Guess(Ids)), Once(gs), gs # <<>>
    PROVE  /\ Once(Front(gs))
           /\ Assumed(Front(gs)) = Assumed(gs) \ {Last(gs).m}
<1> DEFINE t == Front(gs)
           n == Len(gs)
           g == Last(gs)
<1>1. /\ Len(t) = n - 1 /\ n \in Nat \ {0} /\ g = gs[n]
      /\ \A i \in 1 .. n - 1 : t[i] = gs[i]
    BY FrontFacts
<1>2. \A i \in 1 .. n : i = n \/ i \in 1 .. n - 1
    BY <1>1
<1>3. n \in 1 .. n /\ n \notin 1 .. n - 1 /\ \A i \in 1 .. n - 1 : i \in 1 .. n
    BY <1>1
<1> HIDE DEF t, n, g
<1>4. Once(t)
    BY <1>1, <1>3, ZenonT(30) DEF Once, n
<1>5. \A i \in 1 .. n - 1 : gs[i].m # LitNull => gs[i].m # g.m
    BY <1>1, <1>3, ZenonT(30) DEF Once, n
<1>6. Assumed(t) = Assumed(gs) \ {g.m}
    BY <1>1, <1>2, <1>3, <1>5 DEF Assumed, n
<1> QED
    BY <1>4, <1>6 DEF t, g

Built == ~Unsorted(Bundles) /\ constraints = Variables(Bundles)

\* What is computed from the world does not change while the world does not.
LEMMA SameEntries ==
    ASSUME world' = world
    PROVE  Entries' = Entries /\ InstalledEntries' = InstalledEntries
BY DEF Entries, InstalledEntries, Virtual

\* ... the installed CSV of a Subscription,
LEMMA SameCurrent ==
    ASSUME world' = world, NEW s
    PROVE  Current(s)' = Current(s)
BY DEF Current, Named, Entries

\* ... its channel,
LEMMA SameChannel ==
    ASSUME world' = world, NEW s
    PROVE  Channel(s)' = Channel(s)
BY SameEntries, SameCurrent DEF Channel

\* ... its candidates,
LEMMA SameCandidates ==
    ASSUME world' = world, NEW s
    PROVE  Candidates(s)' = Candidates(s) /\ Upgrades(s)' = Upgrades(s)
<1>1. Channel(s)' = Channel(s) /\ Current(s)' = Current(s)
    BY SameChannel, SameCurrent
<1>2. Candidates(s)' = Candidates(s)
    BY <1>1, ZenonT(30) DEF Candidates
<1> QED
    BY <1>2, ZenonT(30) DEF Upgrades

\* ... the providers of a dependency,
LEMMA SameProviders ==
    ASSUME world' = world, NEW b, NEW d
    PROVE  Providers(b, d)' = Providers(b, d)
BY SameEntries DEF Providers, SameSource

Closure(E, base, needs) ==
    {e \in E : \A S \in SUBSET E :
        base \subseteq S /\ (\A n \in needs : n[1] \in S => n[2] \in S) => e \in S}
Base == InstalledEntries \cup UNION {Upgrades(s) : s \in world.subs}
Need(b, k) == LET p == Providers(b, b.requires[k]) IN IF p = ErrorSeq THEN {} ELSE Range(p)
Needed == UNION {{b} \X UNION {Need(b, k) : k \in DOMAIN b.requires} : b \in Entries}

\* ... the bundles that become variables,
LEMMA SameBundles ==
    ASSUME world' = world
    PROVE  Bundles' = Bundles
<1>1. Base' = Base
    BY SameEntries, SameCandidates DEF Base
<1>2. \A b, k : Need(b, k)' = Need(b, k)
    BY SameProviders DEF Need
<1>3. Needed' = Needed
    BY <1>2, SameEntries DEF Needed
<1>4. Bundles = Closure(Entries, Base, Needed)
    BY ZenonT(30) DEF Bundles, Reached, Closure, Base, Needed, Need
<1>5. Bundles' = Closure(Entries', Base', Needed')
    BY ZenonT(30) DEF Bundles, Reached, Closure, Base, Needed, Need
<1> QED
    BY <1>1, <1>3, <1>4, <1>5, SameEntries

\* ... whether they could be sorted,
LEMMA SameUnsorted ==
    ASSUME world' = world
    PROVE  Unsorted(Bundles)' = Unsorted(Bundles)
BY SameBundles, SameChannel, SameProviders DEF Unsorted

\* ... the constraints of a bundle,
LEMMA SameBundleConstraints ==
    ASSUME world' = world, NEW b
    PROVE  BundleConstraints(b)' = BundleConstraints(b)
<1> DEFINE must == IF Virtual(b) /\ ~ \E s \in world.subs : s.installed = b.name
                   THEN <<Mandatory>> ELSE <<>>
           never == IF b.deprecated THEN <<Prohibited>> ELSE <<>>
           deps == [k \in DOMAIN b.requires |-> Dependency(IDs(Providers(b, b.requires[k])))]
           old == UNION {Current(s) : s \in {t \in world.subs : b \in Upgrades(t)}}
           last == SetToSeq({Conflict(bundleID(c)) : c \in old})
<1>1. must' = must
    BY DEF Virtual
<1>2. deps' = deps
    BY SameProviders, ZenonT(30)
<1>3. old' = old
    BY SameCurrent, SameCandidates
<1>4. last' = last
    <2> HIDE DEF old
    <2> QED
        BY <1>3
<1>5. BundleConstraints(b) = must \o never \o deps \o last
    BY ZenonT(30) DEF BundleConstraints
<1>6. BundleConstraints(b)' = must' \o never \o deps' \o last'
    BY ZenonT(30) DEF BundleConstraints
<1> HIDE DEF must, deps, last
<1> QED
    BY <1>1, <1>2, <1>4, <1>5, <1>6

\* ... those of a Subscription,
LEMMA SameSubscriptionConstraints ==
    ASSUME world' = world, NEW s
    PROVE  SubscriptionConstraints(s)' = SubscriptionConstraints(s)
<1>1. Channel(s)' = Channel(s) /\ Current(s)' = Current(s) /\ Candidates(s)' = Candidates(s)
    BY SameChannel, SameCurrent, SameCandidates
<1> QED
    BY <1>1, ZenonT(30) DEF SubscriptionConstraints

\* ... and all of the variables.
LEMMA SameVariables ==
    ASSUME world' = world
    PROVE  Variables(Bundles)' = Variables(Bundles)
BY SameBundles, SameBundleConstraints, SameSubscriptionConstraints, ZenonT(30) DEF Variables

\* So the problem stays the one that Build made.
LEMMA BuiltKept ==
    ASSUME world' = world, constraints' = constraints, Built
    PROVE  Built'
BY SameUnsorted, SameVariables DEF Built

\* What the solver computes from its input does not change while it runs.
LEMMA SameIds ==
    ASSUME input' = input
    PROVE  Ids' = Ids /\ Applied' = Applied
BY DEF input, Ids, Applied

\* ... the constraints of one type, and each of them,
LEMMA SameOf ==
    ASSUME input' = input, NEW t, NEW a
    PROVE  Of(t)' = Of(t) /\ At(a)' = At(a)
BY SameIds DEF input, Of, At

\* ... what a constraint says,
LEMMA SameApply ==
    ASSUME input' = input, NEW a, NEW S
    PROVE  apply(a, S)' <=> apply(a, S)
<1>1. At(a)' = At(a)
    BY SameOf
<1> QED
    BY <1>1 DEF apply

\* ... the mandatory variables,
LEMMA SameAnchors ==
    ASSUME input' = input
    PROVE  AnchorIdentifiers' = AnchorIdentifiers /\ Anchors' = Anchors
<1> DEFINE M == {a[1] : a \in Of("mandatory")}
<1>1. M' = M
    BY SameOf
<1>2. inorder' = inorder
    BY DEF input
<1>3. AnchorIdentifiers' = AnchorIdentifiers
    BY <1>1, <1>2, ZenonT(30) DEF AnchorIdentifiers
<1> QED
    BY <1>3 DEF Anchors

\* ... the solutions,
LEMMA SameModels ==
    ASSUME input' = input, NEW lits
    PROVE  ModelsOf(lits)' = ModelsOf(lits) /\ (Sat(lits)' <=> Sat(lits))
<1>1. ModelsOf(lits)' = ModelsOf(lits)
    BY SameIds, SameAnchors, SameApply DEF ModelsOf
<1> QED
    BY <1>1 DEF Sat

\* ... the choices that a guess opens,
LEMMA SameOpened ==
    ASSUME input' = input, NEW m
    PROVE  Opened(m)' = Opened(m)
BY ZenonT(30) DEF Opened, input

\* ... the agenda,
LEMMA SameAgenda ==
    ASSUME input' = input, NEW gs
    PROVE  Agenda(gs)' = Agenda(gs) /\ \A g : By(g)' = By(g)
<1>1. \A g : By(g)' = By(g)
    BY SameOpened, ZenonT(30) DEF By
<1>2. Bys(gs)' = Bys(gs)
    BY <1>1, ZenonT(30) DEF Bys
<1>3. Roots' = Roots
    BY SameAnchors, ZenonT(30) DEF Roots
<1> QED
    BY <1>1, <1>2, <1>3, ZenonT(30) DEF Agenda

\* ... whether it is kept,
LEMMA SameKept ==
    ASSUME input' = input, NEW gs, NEW cs, Kept(gs, cs)
    PROVE  Kept(gs, cs)'
<1>1. Ids' = Ids /\ (\A x : Agenda(x)' = Agenda(x)) /\ \A g : By(g)' = By(g)
    BY SameIds, SameAgenda
<1> QED
    BY <1>1, ZenonT(30) DEF Kept

\* ... and that the input is well formed.
LEMMA SameWellFormed ==
    ASSUME input' = input, WellFormed
    PROVE  WellFormed'
<1>1. Ids' = Ids /\ constraints' = constraints /\ inorder' = inorder
    BY SameIds DEF input
<1> QED
    BY <1>1 DEF WellFormed
-----------------------------------------------------------------------------
(* The invariant *)

Outcomes == {"started", "error", "baseline", "searching", "selected", "not satisfiable",
             "unexpected internal error"}

\* While it searches: the agenda is kept, the assumptions are what the stack
\* assumes, each once, and they have been refuted only if no solution has them.
Searched ==
    \E gs, cs, lits :
        /\ gs = guesses /\ cs = choices /\ lits = assumptions
        /\ Kept(gs, cs) /\ Once(gs) /\ lits = Assumed(gs)
        /\ result = unsatisfiable => ~Sat(lits)

RInv ==
    /\ world \in Worlds
    /\ outcome \in Outcomes
    /\ outcome \in {"started", "baseline"} =>
          guesses = <<>> /\ choices = <<>> /\ assumptions = {}
    /\ outcome \notin {"started", "error"} => Built /\ WellFormed
    /\ outcome = "searching" => Searched
    /\ outcome = "not satisfiable" => ModelsOf({}) = {}
    /\ outcome = "selected" => selected \in ModelsOf({})

\* Initially.
LEMMA InitInv ==
    ASSUME Init
    PROVE  RInv
BY DEF Init, RInv, Outcomes

\* Build: the constraints it makes are well formed.
LEMMA BuildInv ==
    ASSUME RInv, Build
    PROVE  RInv'
<1>1. /\ world' = world /\ guesses' = guesses /\ choices' = choices
      /\ assumptions' = assumptions /\ outcome = "started"
    BY DEF Build
<1>2. world \in Worlds /\ guesses = <<>> /\ choices = <<>> /\ assumptions = {}
    BY <1>1 DEF RInv
<1>3. CASE outcome' = "error"
    BY <1>1, <1>2, <1>3 DEF RInv, Outcomes
<1>4. CASE outcome' # "error"
    <2>1. /\ ~Unsorted(Bundles) /\ outcome' = "baseline"
          /\ constraints' = Variables(Bundles) /\ inorder' \in Orders(constraints')
        BY <1>4 DEF Build
    <2>2. Tidy
        BY <1>2, WorldTidy
    <2> DEFINE V == constraints'
    <2>3. V = Variables(Bundles)
        BY <2>1
    <2> HIDE DEF V
    <2>4. /\ \A v \in DOMAIN V : V[v] \in Seq(Constraint(DOMAIN V))
          /\ IsFiniteSet(DOMAIN V) /\ LitNull \notin DOMAIN V
        BY <2>1, <2>2, <2>3, VariablesFacts, ZenonT(30)
    <2>5. inorder' \in Seq(DOMAIN V)
        BY <2>1, <2>4, OrdersFacts, ZenonT(30) DEF V
    <2>6. WellFormed'
        BY <2>4, <2>5, ZenonT(30) DEF WellFormed, Ids, V
    <2>7. Built'
        <3>1. Unsorted(Bundles)' = Unsorted(Bundles) /\ Variables(Bundles)' = Variables(Bundles)
            BY <1>1, SameUnsorted, SameVariables
        <3> QED
            BY <2>1, <3>1 DEF Built
    <2> QED
        BY <1>1, <1>2, <2>1, <2>6, <2>7 DEF RInv, Outcomes
<1> QED
    BY <1>3, <1>4

\* A step of the solver leaves the problem as it was built.
LEMMA ProblemKept ==
    ASSUME RInv, outcome \notin {"started", "error"}, world' = world, input' = input
    PROVE  Built' /\ WellFormed' /\ world' \in Worlds /\ Built /\ WellFormed
<1>1. Built /\ WellFormed /\ world \in Worlds
    BY ZenonT(30) DEF RInv
<1>2. constraints' = constraints
    BY DEF input
<1> QED
    BY <1>1, <1>2, BuiltKept, SameWellFormed

\* What Finish selects is a solution.
LEMMA FinishFacts ==
    ASSUME NEW fixed, NEW aset, NEW values, Finish(fixed, aset, values)
    PROVE  \/ outcome' = "unexpected internal error"
           \/ outcome' = "selected" /\ selected' \in ModelsOf({})
<1>1. Minimised(fixed, aset, values) \subseteq ModelsOf({})
    BY DEF Minimised, Models
<1> QED
    BY <1>1, ZenonT(30) DEF Finish

\* The answers differ.
LEMMA Answers ==
    satisfiable # unsatisfiable /\ unknown # unsatisfiable /\ satisfiable # unknown
BY DEF satisfiable, unsatisfiable, unknown

\* The choices of the mandatory variables are the agenda to begin with.
LEMMA RootsKept ==
    ASSUME WellFormed, NEW cs,
           cs = [i \in DOMAIN AnchorIdentifiers |->
                    [index |-> 1, candidates |-> <<AnchorIdentifiers[i]>>]]
    PROVE  Kept(<<>>, cs) /\ Once(<<>>) /\ Assumed(<<>>) = {}
<1> DEFINE A == AnchorIdentifiers
           U == Seq(Ids)
           E == <<>>
<1>1. A \in Seq(Ids)
    BY AnchorsType
<1>2. \A i \in DOMAIN A : cs[i] = [index |-> 1, candidates |-> <<A[i]>>]
    BY ZenonT(30)
<1>3. \A i \in DOMAIN A : A[i] \in Ids /\ <<A[i]>> \in Seq(Ids)
    <2>1. \A x \in Ids : <<x>> \in Seq(Ids)
        OBVIOUS
    <2> HIDE DEF A
    <2>2. \A i \in DOMAIN A : A[i] \in Ids
        BY <1>1
    <2> QED
        BY <2>1, <2>2
<1>4. \A i \in DOMAIN A : cs[i] \in Cand(Ids)
    BY <1>2, <1>3 DEF Cand
<1>5. cs \in Seq(Cand(Ids)) /\ Len(cs) = Len(A) /\ DOMAIN cs = DOMAIN A
    <2>1. DOMAIN cs = DOMAIN A /\ cs = [i \in DOMAIN A |-> cs[i]]
        BY ZenonT(30)
    <2> HIDE DEF A
    <2> QED
        BY <1>1, <1>4, <2>1, MappedType
<1>6. Lists(cs) = Roots
    <2>1. \A i \in DOMAIN A : cs[i].candidates = <<A[i]>>
        BY <1>2
    <2> QED
        BY <2>1, <1>5, ZenonT(30) DEF Lists, Roots
<1>7. Roots \in Seq(U)
    BY RootsType
<1>8. E \in Seq(Guess(Ids)) /\ DOMAIN E = {} /\ Len(E) = 0 /\ 1 .. Len(E) = {}
    OBVIOUS
<1>9. Lists(E) = <<>> /\ Bys(E) = <<>>
    <2>1. Lists(E) \in Seq(Seq(Ids)) /\ Len(Lists(E)) = 0
        BY <1>8, GuessLists, ZenonT(30)
    <2>2. Bys(E) \in Seq(Seq(Seq(Ids))) /\ Len(Bys(E)) = 0
        BY <1>8, BysType, ZenonT(30)
    <2> HIDE DEF E
    <2> QED
        BY <2>1, <2>2
<1>10. FlattenSeq(<<>>) = <<>>
    BY FlattenNone
<1>11. Roots \o <<>> = Roots /\ <<>> \o Roots = Roots
    <2> DEFINE r == Roots
    <2>1. r \in Seq(U)
        BY <1>7
    <2> HIDE DEF r, U
    <2>2. r \o <<>> = r /\ <<>> \o r = r
        BY <2>1
    <2> QED
        BY <2>2 DEF r
<1>12. Lists(E) \o Lists(cs) = Agenda(E)
    BY <1>6, <1>9, <1>10, <1>11, ZenonT(30) DEF Agenda
<1>13. Kept(E, cs)
    <2> HIDE DEF E
    <2> QED
        BY <1>5, <1>8, <1>12 DEF Kept
<1>14. Once(E) /\ Assumed(E) = {}
    BY <1>8 DEF Once, Assumed
<1> QED
    BY <1>13, <1>14

\* Baseline: the search begins with the choices of the mandatory variables.
LEMMA BaselineInv ==
    ASSUME RInv, Baseline, world' = world
    PROVE  RInv'
<1>1. /\ outcome = "baseline" /\ result' \in Test({}) /\ input' = input
      /\ guesses' = guesses /\ assumptions' = assumptions
    BY ZenonT(30) DEF Baseline
<1>2. Built' /\ WellFormed' /\ world' \in Worlds /\ WellFormed
    BY <1>1, ProblemKept
<1>3. guesses = <<>> /\ assumptions = {}
    BY <1>1 DEF RInv
<1>4. result' = unsatisfiable => ~Sat({})
    BY <1>1, <1>2, TestFacts
<1>5. ModelsOf({})' = ModelsOf({})
    BY <1>1, SameModels
<1>6. CASE result' = unknown /\ outcome' = "searching"
             /\ choices' = [i \in DOMAIN AnchorIdentifiers |->
                             [index |-> 1, candidates |-> <<AnchorIdentifiers[i]>>]]
    <2>0. PICK cs : cs = choices'
        OBVIOUS
    <2>1. Kept(<<>>, cs) /\ Once(<<>>) /\ Assumed(<<>>) = {}
        BY <1>2, <1>6, <2>0, RootsKept, ZenonT(30)
    <2>2. Kept(<<>>, cs)'
        BY <1>1, <2>1, SameKept
    <2>3. result' # unsatisfiable
        BY <1>6, Answers
    <2>4. Searched'
        BY <2>0, <2>1, <2>2, <2>3, <1>1, <1>3, ZenonT(30) DEF Searched
    <2> QED
        BY <1>2, <1>6, <2>4, ZenonT(30) DEF RInv, Outcomes
<1>7. CASE result' = satisfiable /\ Finish(Anchors, {}, Propagated({}).yes)
    <2>1. \/ outcome' = "unexpected internal error"
          \/ outcome' = "selected" /\ selected' \in ModelsOf({})
        BY <1>7, FinishFacts, ZenonT(30)
    <2> QED
        BY <1>2, <1>5, <2>1, ZenonT(30) DEF RInv, Outcomes
<1>8. CASE result' = unsatisfiable /\ outcome' = "not satisfiable"
    <2>1. ModelsOf({}) = {}
        BY <1>4, <1>8, ZenonT(30) DEF Sat
    <2> QED
        BY <1>2, <1>5, <1>8, <2>1, ZenonT(30) DEF RInv, Outcomes
<1> QED
    BY <1>6, <1>7, <1>8, ZenonT(30) DEF Baseline

\* The invariant, while it searches.
LEMMA SearchedFacts ==
    ASSUME RInv, outcome = "searching"
    PROVE  /\ WellFormed /\ Kept(guesses, choices) /\ Once(guesses)
           /\ assumptions = Assumed(guesses)
           /\ result = unsatisfiable => ~Sat(assumptions)
<1>1. WellFormed /\ Searched
    BY DEF RInv
<1>2. PICK gs, cs, lits :
        /\ gs = guesses /\ cs = choices /\ lits = assumptions
        /\ Kept(gs, cs) /\ Once(gs) /\ lits = Assumed(gs)
        /\ result = unsatisfiable => ~Sat(lits)
    BY <1>1 DEF Searched
<1> QED
    BY <1>1, <1>2

\* A step of the search has to keep the agenda and its verdict.
LEMMA SearchedInv ==
    ASSUME RInv, outcome = "searching", world' = world, input' = input, outcome' = "searching",
           Kept(guesses', choices'), Once(guesses'), assumptions' = Assumed(guesses'),
           result' = unsatisfiable => ~Sat(assumptions')
    PROVE  RInv'
<1>1. Built' /\ WellFormed' /\ world' \in Worlds
    BY ProblemKept
<1>0. PICK gs, cs, lits : gs = guesses' /\ cs = choices' /\ lits = assumptions'
    OBVIOUS
<1>2. Kept(gs, cs) /\ Once(gs) /\ lits = Assumed(gs) /\ (result' = unsatisfiable => ~Sat(lits))
    BY <1>0
<1>3. Kept(gs, cs)' /\ (Sat(lits)' <=> Sat(lits))
    BY <1>2, SameKept, SameModels
<1>4. Searched'
    BY <1>0, <1>2, <1>3, ZenonT(30) DEF Searched
<1> QED
    BY <1>1, <1>4 DEF RInv, Outcomes

\* The first of a sequence.
LEMMA HeadFacts ==
    ASSUME NEW U, NEW s \in Seq(U), s # <<>>
    PROVE  Head(s) \in U /\ Len(s) \in Nat \ {0}
OBVIOUS

\* PushGuess: the candidate it assumes was not assumed before.
LEMMA PushGuessInv ==
    ASSUME RInv, PushGuess, world' = world
    PROVE  RInv'
<1> DEFINE c == Head(choices)
           m == IF c.index > Len(c.candidates) \/ Range(c.candidates) \cap assumptions # {}
                THEN LitNull ELSE c.candidates[c.index]
           opened == IF m = LitNull THEN <<>> ELSE Opened(m)
           g == [m |-> m, index |-> c.index, children |-> Len(opened), candidates |-> c.candidates]
<1>1. /\ outcome = "searching" /\ result # unsatisfiable /\ choices # <<>>
      /\ guesses' = Append(guesses, g) /\ choices' = Tail(choices) \o opened
      /\ IF m = LitNull THEN assumptions' = assumptions /\ result' = result
         ELSE assumptions' = assumptions \cup {m} /\ result' \in Test(assumptions')
      /\ input' = input /\ outcome' = outcome
    BY ZenonT(30) DEF PushGuess
<1>2. /\ WellFormed /\ Kept(guesses, choices) /\ Once(guesses)
      /\ assumptions = Assumed(guesses)
    BY <1>1, SearchedFacts, ZenonT(30)
<1>3. guesses \in Seq(Guess(Ids)) /\ choices \in Seq(Cand(Ids))
    BY <1>2 DEF Kept
<1>4. c \in Cand(Ids)
    <2>1. choices # <<>>
        BY <1>1, ZenonT(30)
    <2> QED
        BY <2>1, <1>3, HeadFacts
<1> HIDE DEF c
<1>5. c.index \in Nat \ {0} /\ c.candidates \in Seq(Ids)
    BY <1>4 DEF Cand
<1>6. m = LitNull \/ (m \in Ids /\ m \in Range(c.candidates) /\ m \notin assumptions)
    <2>1. CASE c.index > Len(c.candidates) \/ Range(c.candidates) \cap assumptions # {}
        BY <2>1
    <2>2. CASE ~(c.index > Len(c.candidates) \/ Range(c.candidates) \cap assumptions # {})
        <3>1. m = c.candidates[c.index]
            BY <2>2
        <3>2. c.index \in 1 .. Len(c.candidates)
            BY <2>2, <1>5
        <3>3. m \in Ids /\ m \in Range(c.candidates)
            BY <3>1, <3>2, <1>5, RangeFacts
        <3> HIDE DEF m
        <3> QED
            BY <3>3, <2>2
    <2> QED
        BY <2>1, <2>2
<1>7. LitNull \notin Ids
    BY <1>2 DEF WellFormed
<1> HIDE DEF m
<1>8. opened \in Seq(Cand(Ids)) /\ Len(opened) \in Nat
    <2>1. CASE m = LitNull
        BY <2>1
    <2>2. CASE m # LitNull
        BY <2>2, <1>2, <1>6, OpenedType
    <2> QED
        BY <2>1, <2>2
<1>9. g.m = m /\ g.candidates = c.candidates /\ g.children = Len(opened)
    OBVIOUS
<1>10. By(g) = Lists(opened)
    <2>1. CASE m = LitNull
        <3>1. opened = <<>>
            BY <2>1
        <3>2. Lists(opened) = <<>>
            <4>1. Lists(opened) \in Seq(Seq(Ids)) /\ Len(Lists(opened)) = Len(opened)
                BY <1>8, CandLists, ZenonT(30)
            <4>2. Len(opened) = 0
                BY <3>1
            <4> HIDE DEF opened
            <4> QED
                BY <4>1, <4>2
        <3> HIDE DEF opened, g
        <3> QED
            BY <2>1, <3>2, <1>9, ZenonT(30) DEF By
    <2>2. CASE m # LitNull
        <3>1. opened = Opened(m)
            BY <2>2
        <3> HIDE DEF opened, g
        <3> QED
            BY <2>2, <3>1, <1>9, ZenonT(30) DEF By
    <2> QED
        BY <2>1, <2>2
<1>11. g \in Guess(Ids)
    <2> HIDE DEF opened
    <2> QED
        BY <1>5, <1>6, <1>8 DEF Guess
<1> HIDE DEF g, opened
<1>12. Kept(Append(guesses, g), Tail(choices) \o opened)
    BY <1>1, <1>2, <1>8, <1>9, <1>10, <1>11, PushKept DEF c
<1>13. /\ Once(Append(guesses, g))
       /\ Assumed(Append(guesses, g)) = Assumed(guesses) \cup ({m} \ {LitNull})
    <2>1. g.m \notin Assumed(guesses)
        BY <1>2, <1>6, <1>9 DEF Assumed
    <2>2. /\ Once(Append(guesses, g))
          /\ Assumed(Append(guesses, g)) = Assumed(guesses) \cup ({g.m} \ {LitNull})
        BY <2>1, <1>2, <1>3, <1>11, PushAssumed
    <2> QED
        BY <2>2, <1>9
<1>14. /\ assumptions' = Assumed(guesses')
       /\ result' = unsatisfiable => ~Sat(assumptions')
    <2>1. CASE m = LitNull
        <3>1. assumptions' = assumptions /\ result' = result
            BY <1>1, <2>1
        <3>2. {m} \ {LitNull} = {}
            BY <2>1
        <3> QED
            BY <3>1, <3>2, <1>1, <1>2, <1>13
    <2>2. CASE m # LitNull
        <3>1. assumptions' = assumptions \cup {m} /\ result' \in Test(assumptions')
            BY <1>1, <2>2
        <3>2. {m} \ {LitNull} = {m}
            BY <2>2
        <3>3. result' = unsatisfiable => ~Sat(assumptions')
            BY <3>1, <1>2, TestFacts
        <3> QED
            BY <3>1, <3>2, <3>3, <1>1, <1>2, <1>13
    <2> QED
        BY <2>1, <2>2
<1> QED
    BY <1>1, <1>12, <1>13, <1>14, SearchedInv

\* Untest answers like Test.
LEMMA UntestFacts ==
    ASSUME WellFormed, NEW lits, NEW r \in Untest(lits)
    PROVE  r = unsatisfiable => ~Sat(lits)
<1>1. PICK t \in Test(lits) : r = IF t = satisfiable THEN unknown ELSE t
    BY DEF Untest
<1> QED
    BY <1>1, TestFacts, Answers

\* PopGuess: the choices it takes back are at the back.
LEMMA PopGuessInv ==
    ASSUME RInv, PopGuess, world' = world
    PROVE  RInv'
<1> DEFINE g == Last(guesses)
           c == Reopened(g)
<1>1. /\ outcome = "searching" /\ result = unsatisfiable /\ guesses # <<>>
      /\ guesses' = Front(guesses)
      /\ choices' = <<c>> \o SubSeq(choices, 1, Len(choices) - g.children)
      /\ assumptions' = assumptions \ {g.m}
      /\ g.m = LitNull => result' = result
      /\ g.m # LitNull => result' \in Untest(assumptions')
      /\ input' = input /\ outcome' = outcome
    BY DEF PopGuess, Left
<1>2. /\ WellFormed /\ Kept(guesses, choices) /\ Once(guesses)
      /\ assumptions = Assumed(guesses)
      /\ result = unsatisfiable => ~Sat(assumptions)
    BY <1>1, SearchedFacts
<1>3. guesses \in Seq(Guess(Ids))
    BY <1>2 DEF Kept
<1>4. g \in Guess(Ids)
    <2>1. guesses # <<>>
        BY <1>1
    <2> QED
        BY <2>1, <1>3, FrontFacts
<1> HIDE DEF g
<1>5. c \in Cand(Ids) /\ c.candidates = g.candidates
    <2>1. g.index \in Nat \ {0} /\ g.candidates \in Seq(Ids)
        BY <1>4 DEF Guess
    <2> QED
        BY <2>1 DEF Reopened, Cand
<1> HIDE DEF c
<1>6. Kept(Front(guesses), <<c>> \o SubSeq(choices, 1, Len(choices) - g.children))
    <2>1. guesses # <<>>
        BY <1>1
    <2> QED
        BY <2>1, <1>2, <1>5, PopKept DEF g
<1>7. Once(Front(guesses)) /\ Assumed(Front(guesses)) = Assumed(guesses) \ {g.m}
    <2>1. guesses # <<>>
        BY <1>1
    <2> QED
        BY <2>1, <1>2, <1>3, PopAssumed DEF g
<1>8. result' = unsatisfiable => ~Sat(assumptions')
    <2>1. CASE g.m = LitNull
        <3>1. assumptions' = assumptions
            BY <2>1, <1>1, <1>2 DEF Assumed
        <3> QED
            BY <3>1, <1>1, <1>2
    <2>2. CASE g.m # LitNull
        BY <2>2, <1>1, <1>2, UntestFacts
    <2> QED
        BY <2>1, <2>2
<1> QED
    BY <1>1, <1>2, <1>6, <1>7, <1>8, SearchedInv

\* SolveLeaf: its answer is definitive.
LEMMA SolveLeafInv ==
    ASSUME RInv, SolveLeaf, world' = world
    PROVE  RInv'
<1>1. /\ outcome = "searching" /\ input' = input /\ guesses' = guesses /\ choices' = choices
      /\ assumptions' = assumptions /\ outcome' = outcome
      /\ result' = IF Sat(assumptions) THEN satisfiable ELSE unsatisfiable
    BY DEF SolveLeaf
<1>2. /\ Kept(guesses, choices) /\ Once(guesses) /\ assumptions = Assumed(guesses)
    BY <1>1, SearchedFacts
<1>3. result' = unsatisfiable => ~Sat(assumptions')
    BY <1>1, Answers
<1> QED
    BY <1>1, <1>2, <1>3, SearchedInv

\* Select.
LEMMA SelectInv ==
    ASSUME RInv, Select, world' = world
    PROVE  RInv'
<1>1. /\ outcome = "searching" /\ input' = input
      /\ \E values \in Value : Finish(assumptions, assumptions, values)
    BY DEF Select
<1>2. \/ outcome' = "unexpected internal error"
      \/ outcome' = "selected" /\ selected' \in ModelsOf({})
    BY <1>1, FinishFacts, ZenonT(30)
<1>3. Built' /\ WellFormed' /\ world' \in Worlds
    BY <1>1, ProblemKept
<1>4. ModelsOf({})' = ModelsOf({})
    BY <1>1, SameModels
<1> QED
    BY <1>2, <1>3, <1>4, ZenonT(30) DEF RInv, Outcomes

\* NotSatisfiable: nothing is assumed any more, and that is refuted.
LEMMA NotSatisfiableInv ==
    ASSUME RInv, NotSatisfiable, world' = world
    PROVE  RInv'
<1>1. /\ outcome = "searching" /\ result = unsatisfiable /\ guesses = <<>>
      /\ outcome' = "not satisfiable" /\ input' = input
    BY ZenonT(30) DEF NotSatisfiable
<1>2. Assumed(guesses) = {}
    <2>1. 1 .. Len(<<>>) = {}
        OBVIOUS
    <2> QED
        BY <1>1, <2>1, ZenonT(30) DEF Assumed
<1>3. ~Sat({})
    BY <1>1, <1>2, SearchedFacts, ZenonT(30)
<1>4. Built' /\ WellFormed' /\ world' \in Worlds
    BY <1>1, ProblemKept, ZenonT(30)
<1>5. ModelsOf({})' = ModelsOf({})
    BY <1>1, SameModels, ZenonT(30)
<1>6. ModelsOf({})' = {}
    BY <1>3, <1>5 DEF Sat
<1> QED
    BY <1>1, <1>4, <1>6, ZenonT(30) DEF RInv, Outcomes

\* Steps that change nothing.
LEMMA StutterInv ==
    ASSUME RInv, UNCHANGED rvars
    PROVE  RInv'
<1>1. /\ world' = world /\ input' = input /\ guesses' = guesses /\ choices' = choices
      /\ assumptions' = assumptions /\ outcome' = outcome /\ result' = result
      /\ selected' = selected
    BY DEF rvars, vars, input
<1>2. CASE outcome \in {"started", "error"}
    BY <1>1, <1>2, ZenonT(30) DEF RInv
<1>3. CASE outcome = "searching"
    <2>1. /\ Kept(guesses, choices) /\ Once(guesses) /\ assumptions = Assumed(guesses)
          /\ result = unsatisfiable => ~Sat(assumptions)
        BY <1>3, SearchedFacts
    <2> QED
        BY <1>1, <1>3, <2>1, SearchedInv
<1>4. CASE outcome \notin {"started", "error", "searching"}
    <2>1. Built' /\ WellFormed' /\ world' \in Worlds
        BY <1>1, <1>4, ProblemKept
    <2>2. ModelsOf({})' = ModelsOf({})
        BY <1>1, SameModels
    <2> QED
        BY <1>1, <1>4, <2>1, <2>2, ZenonT(30) DEF RInv
<1> QED
    BY <1>2, <1>3, <1>4

\* Every step keeps the invariant.
LEMMA StepInv ==
    ASSUME RInv, [RNext]_rvars
    PROVE  RInv'
<1>1. CASE Build
    BY <1>1, BuildInv
<1>2. CASE Baseline /\ world' = world
    BY <1>2, BaselineInv
<1>3. CASE PushGuess /\ world' = world
    BY <1>3, PushGuessInv
<1>4. CASE PopGuess /\ world' = world
    BY <1>4, PopGuessInv
<1>5. CASE SolveLeaf /\ world' = world
    BY <1>5, SolveLeafInv
<1>6. CASE Select /\ world' = world
    BY <1>6, SelectInv
<1>7. CASE NotSatisfiable /\ world' = world
    BY <1>7, NotSatisfiableInv
<1>8. CASE Returned \/ UNCHANGED rvars
    BY <1>8, StutterInv DEF Returned
<1> QED
    BY <1>1, <1>2, <1>3, <1>4, <1>5, <1>6, <1>7, <1>8 DEF RNext, Next

\* The search of Solve (search.go, solve.go), whatever the SAT solver has
\* learned: its agenda is kept, it assumes what its stack says, what it takes
\* for refuted has no solution; and what Solve returns is a solution, or an
\* error because there is none.
THEOREM SearchInvariant == RSpec => []RInv
<1>1. Init => RInv
    BY InitInv
<1>2. RInv /\ [RNext]_rvars => RInv'
    BY StepInv
<1> QED
    BY <1>1, <1>2, PTL DEF RSpec

\* The invariant says that the agenda is kept.
LEMMA InvAgenda ==
    ASSUME RInv
    PROVE  AgendaKept
<1> SUFFICES ASSUME outcome = "searching" PROVE AgendaKept
    BY ZenonT(30) DEF AgendaKept
<1>1. Kept(guesses, choices) /\ assumptions = Assumed(guesses)
    BY SearchedFacts
<1>2. guesses \in Seq(Guess(Ids))
    BY <1>1 DEF Kept
<1>3. DOMAIN guesses = 1 .. Len(guesses)
    BY <1>2
<1>4. assumptions = {guesses[i].m : i \in DOMAIN guesses} \ {LitNull}
    BY <1>1, <1>3 DEF Assumed
<1>5. Lists(guesses) \o Lists(choices) = Agenda(guesses)
    BY <1>1 DEF Kept
<1> QED
    BY <1>4, <1>5, ZenonT(30) DEF AgendaKept, Lists, Agenda, Roots, Bys, By

\* What a constraint of a variable demands of a selection the solver admits.
LEMMA Demands ==
    ASSUME NEW S \in ModelsOf({}), NEW v \in Ids
    PROVE  /\ Mandatory \in Range(constraints[v]) => v \in S
           /\ Prohibited \in Range(constraints[v]) => v \notin S
           /\ \A ids : Dependency(ids) \in Range(constraints[v]) /\ v \in S
                          => \E m \in Range(ids) : m \in S
           /\ \A id : Conflict(id) \in Range(constraints[v]) => ~(v \in S /\ id \in S)
           /\ \A n, ids : AtMost(n, ids) \in Range(constraints[v])
                             => Cardinality(ids \cap S) <= n
<1>1. \A c \in Range(constraints[v]) : \E a \in Applied : a[1] = v /\ At(a) = c
    <2> SUFFICES ASSUME NEW c \in Range(constraints[v])
                 PROVE  \E a \in Applied : a[1] = v /\ At(a) = c
        OBVIOUS
    <2>1. PICK i \in DOMAIN constraints[v] : constraints[v][i] = c
        BY DEF Range
    <2>2. <<v, i>> \in Applied
        BY DEF Applied
    <2>3. At(<<v, i>>) = c /\ <<v, i>>[1] = v
        BY <2>1 DEF At
    <2> QED
        BY <2>2, <2>3
<1>2. \A a \in Applied : apply(a, S)
    BY ModelFacts
<1>3. \A a \in Applied : a \in Of(At(a).type)
    BY DEF Of, At
<1>4. ASSUME Mandatory \in Range(constraints[v]) PROVE v \in S
    <2>1. PICK a \in Applied : a[1] = v /\ At(a) = Mandatory
        BY <1>1, <1>4
    <2>2. At(a).type = "mandatory"
        BY <2>1 DEF Mandatory
    <2> QED
        BY <2>1, <2>2, <1>2, <1>3, ApplyFacts
<1>5. ASSUME Prohibited \in Range(constraints[v]) PROVE v \notin S
    <2>1. PICK a \in Applied : a[1] = v /\ At(a) = Prohibited
        BY <1>1, <1>5
    <2>2. At(a).type = "prohibited"
        BY <2>1 DEF Prohibited
    <2> QED
        BY <2>1, <2>2, <1>2, <1>3, ApplyFacts, ZenonT(30)
<1>6. ASSUME NEW ids, Dependency(ids) \in Range(constraints[v]), v \in S
      PROVE  \E m \in Range(ids) : m \in S
    <2>1. PICK a \in Applied : a[1] = v /\ At(a) = Dependency(ids)
        BY <1>1, <1>6, ZenonT(30)
    <2>2. At(a).type = "dependency" /\ At(a).ids = ids
        BY <2>1 DEF Dependency
    <2> QED
        BY <2>1, <2>2, <1>2, <1>3, <1>6, ApplyFacts, ZenonT(30)
<1>7. ASSUME NEW id, Conflict(id) \in Range(constraints[v]) PROVE ~(v \in S /\ id \in S)
    <2>1. PICK a \in Applied : a[1] = v /\ At(a) = Conflict(id)
        BY <1>1, <1>7
    <2>2. At(a).type = "conflict" /\ At(a).id = id
        BY <2>1 DEF Conflict
    <2> QED
        BY <2>1, <2>2, <1>2, <1>3, ApplyFacts, ZenonT(30)
<1>8. ASSUME NEW n, NEW ids, AtMost(n, ids) \in Range(constraints[v])
      PROVE  Cardinality(ids \cap S) <= n
    <2>1. PICK a \in Applied : a[1] = v /\ At(a) = AtMost(n, ids)
        BY <1>1, <1>8, ZenonT(30)
    <2>2. At(a).type = "atmost" /\ At(a).ids = ids /\ At(a).n = n
        BY <2>1 DEF AtMost
    <2> QED
        BY <2>1, <2>2, <1>2, <1>3, ApplyFacts, ZenonT(30)
<1> QED
    BY <1>4, <1>5, <1>6, <1>7, <1>8

\* The solution, in terms of the constraints of bundles and Subscriptions.
Solved == Tidy /\ Built /\ WellFormed /\ selected \in ModelsOf({})

\* What is chosen was a variable.
LEMMA ChosenFacts ==
    ASSUME Solved
    PROVE  /\ Chosen \subseteq Bundles
           /\ \A e \in Entries : e \in Chosen <=> bundleID(e) \in selected
<1>1. selected \subseteq Ids
    <2>1. selected \subseteq Anchors \cup {} \cup Ids
        BY ModelFacts DEF Solved
    <2> QED
        BY <2>1, AnchorsType DEF Solved
<1>2. \A e \in Entries : bundleID(e) \in DOMAIN constraints => e \in Bundles
    <2> DEFINE V == constraints
    <2>1. Tidy /\ ~Unsorted(Bundles) /\ V = Variables(Bundles)
        BY DEF Solved, Built
    <2> HIDE DEF V
    <2>2. \A e \in Entries : bundleID(e) \in DOMAIN V => e \in Bundles
        BY <2>1, VariablesFacts, ZenonT(30)
    <2> QED
        BY <2>2 DEF V
<1> QED
    BY <1>1, <1>2 DEF Chosen, Ids

\* The constraints that the solution satisfies.
LEMMA SolvedVariables ==
    ASSUME Solved
    PROVE  /\ \A b \in Bundles :
                 bundleID(b) \in Ids /\ constraints[bundleID(b)] = BundleConstraints(b)
           /\ \A s \in world.subs :
                 /\ subscriptionID(s) \in Ids
                 /\ constraints[subscriptionID(s)] = SubscriptionConstraints(s)
           /\ \A v \in Invariants(Bundles) :
                 /\ v \in Ids
                 /\ constraints[v] =
                       <<Mandatory, AtMost(1, {bundleID(b) : b \in Sharing(Bundles, v)})>>
<1> DEFINE V == constraints
<1>1. Tidy /\ ~Unsorted(Bundles) /\ V = Variables(Bundles)
    BY DEF Solved, Built
<1>2. Ids = DOMAIN V
    BY DEF Ids
<1> HIDE DEF V
<1>3. /\ \A b \in Bundles :
             bundleID(b) \in DOMAIN V /\ V[bundleID(b)] = BundleConstraints(b)
      /\ \A s \in world.subs :
             /\ subscriptionID(s) \in DOMAIN V
             /\ V[subscriptionID(s)] = SubscriptionConstraints(s)
      /\ \A v \in Invariants(Bundles) :
             /\ v \in DOMAIN V
             /\ V[v] = <<Mandatory, AtMost(1, {bundleID(b) : b \in Sharing(Bundles, v)})>>
    BY <1>1, VariablesFacts, ZenonT(30)
<1> QED
    BY <1>2, <1>3, ZenonT(30) DEF V

\* What a chosen bundle must have: its constraints hold.
LEMMA ChosenBundle ==
    ASSUME Solved, NEW b \in Bundles
    PROVE  /\ Virtual(b) /\ (\A s \in world.subs : s.installed # b.name) => b \in Chosen
           /\ b \in Chosen =>
                /\ ~b.deprecated
                /\ \A k \in DOMAIN b.requires : \E c \in Chosen : Test_(b.requires[k], c)
                /\ \A s \in world.subs : b \in Upgrades(s) => Current(s) \cap Chosen = {}
<1> DEFINE B == {bundleID(e) : e \in Bundles}
           v == bundleID(b)
<1>1. Tidy /\ ~Unsorted(Bundles) /\ selected \in ModelsOf({})
    BY DEF Solved, Built
<1>2. v \in Ids /\ constraints[v] = BundleConstraints(b)
    BY SolvedVariables
<1>3. /\ Virtual(b) /\ (\A s \in world.subs : s.installed # b.name)
            => Mandatory \in Range(constraints[v])
      /\ b.deprecated => Prohibited \in Range(constraints[v])
      /\ \A k \in DOMAIN b.requires :
            Dependency(IDs(Providers(b, b.requires[k]))) \in Range(constraints[v])
      /\ \A s \in world.subs : b \in Upgrades(s) => \A c \in Current(s) :
            Conflict(bundleID(c)) \in Range(constraints[v])
    <2>1. B \subseteq B
        OBVIOUS
    <2> HIDE DEF v
    <2> QED
        BY <1>1, <1>2, <2>1, BundleConstraintsFacts, ZenonT(30)
<1>4. b \in Entries
    BY <1>1, BundlesFacts
<1>5. b \in Chosen <=> v \in selected
    BY <1>4, ChosenFacts
<1> HIDE DEF v
<1>6. Virtual(b) /\ (\A s \in world.subs : s.installed # b.name) => b \in Chosen
    BY <1>1, <1>2, <1>3, <1>5, Demands, ZenonT(30)
<1>7. b \in Chosen => ~b.deprecated
    BY <1>1, <1>2, <1>3, <1>5, Demands, ZenonT(30)
<1>8. ASSUME b \in Chosen, NEW k \in DOMAIN b.requires
      PROVE  \E c \in Chosen : Test_(b.requires[k], c)
    <2> DEFINE p == Providers(b, b.requires[k])
               found == {e \in Entries : Test_(b.requires[k], e)}
    <2>1. p \in Seq(found)
        <3>1. p # ErrorSeq
            BY <1>1 DEF Unsorted
        <3> HIDE DEF p
        <3>2. p \in Seq(found) \cup {ErrorSeq}
            BY <1>1, ProvidersType DEF p
        <3> QED
            BY <3>1, <3>2
    <2>d. Dependency(IDs(p)) \in Range(constraints[v])
        BY <1>3
    <2> HIDE DEF p
    <2>2. \E m \in Range(IDs(p)) : m \in selected
        <3> DEFINE i == IDs(p)
        <3>1. Dependency(i) \in Range(constraints[v])
            BY <2>d
        <3> HIDE DEF i
        <3>2. \E m \in Range(i) : m \in selected
            BY <1>1, <1>2, <1>5, <1>8, <3>1, Demands, ZenonT(30)
        <3> QED
            BY <3>2 DEF i
    <2>3. Range(IDs(p)) = {bundleID(e) : e \in Range(p)}
        <3> HIDE DEF found
        <3> QED
            BY <2>1, IDsFacts, ZenonT(30)
    <2>4. Range(p) \subseteq found
        <3> HIDE DEF found
        <3> QED
            BY <2>1, RangeFacts
    <2>5. PICK e \in Range(p) : bundleID(e) \in selected
        BY <2>2, <2>3
    <2>6. e \in Entries /\ Test_(b.requires[k], e)
        BY <2>4
    <2> QED
        BY <2>5, <2>6, ChosenFacts
<1>9. ASSUME b \in Chosen, NEW s \in world.subs, b \in Upgrades(s), NEW c \in Current(s),
             c \in Chosen
      PROVE  FALSE
    <2>1. c \in Entries
        BY <1>1, BundlesFacts
    <2>2. bundleID(c) \in selected
        BY <1>9, <2>1, ChosenFacts
    <2>3. Conflict(bundleID(c)) \in Range(constraints[v])
        BY <1>3, <1>9, ZenonT(30)
    <2> QED
        BY <1>1, <1>2, <1>5, <1>9, <2>2, <2>3, Demands, ZenonT(30)
<1> QED
    BY <1>6, <1>7, <1>8, <1>9

\* Two chosen bundles share no API and no package.
LEMMA ChosenShare ==
    ASSUME Solved, NEW b \in Chosen, NEW c \in Chosen, b # c,
           NEW v, b \in Sharing(Bundles, v), c \in Sharing(Bundles, v),
           v \in Invariants(Bundles)
    PROVE  FALSE
<1> DEFINE S == Sharing(Bundles, v)
           ids == {bundleID(e) : e \in S}
<1>1. Tidy /\ selected \in ModelsOf({}) /\ b \in Bundles /\ c \in Bundles
    BY ChosenFacts DEF Solved
<1>2. v \in Ids /\ constraints[v] = <<Mandatory, AtMost(1, ids)>>
    BY SolvedVariables, ZenonT(30)
<1>3. IsFiniteSet(ids)
    BY <1>1, SharingFacts
<1>4. b \in Entries /\ c \in Entries
    BY <1>1, BundlesFacts, ZenonT(30)
<1>5. bundleID(b) \in ids \cap selected /\ bundleID(c) \in ids \cap selected
    BY <1>4, ChosenFacts
<1>6. bundleID(b) # bundleID(c)
    BY <1>1, <1>4, ZenonT(30) DEF Tidy
<1>7. IsFiniteSet(ids \cap selected)
    <2> HIDE DEF ids
    <2> QED
        BY <1>3, FS_Intersection
<1>8. Cardinality(ids \cap selected) > 1
    <2> DEFINE T == ids \cap selected
    <2>1. IsFiniteSet(T) /\ bundleID(b) \in T /\ bundleID(c) \in T
        BY <1>5, <1>7
    <2> HIDE DEF T
    <2>2. Cardinality(T) > 1
        BY <2>1, <1>6, TwoMembers
    <2> QED
        BY <2>2 DEF T
<1> HIDE DEF ids
<1>9. AtMost(1, ids) \in Range(constraints[v])
    <2>1. \A x, y : y \in Range(<<x, y>>)
        BY DEF Range
    <2> QED
        BY <2>1, <1>2, ZenonT(30)
<1>10. Cardinality(ids \cap selected) <= 1
    BY <1>1, <1>2, <1>9, Demands, ZenonT(30)
<1>11. Cardinality(ids \cap selected) \in Nat
    BY <1>7, FS_CardinalityType
<1> QED
    BY <1>8, <1>10, <1>11

\* Two chosen bundles provide no API both, and are of different packages.
LEMMA ChosenApart ==
    ASSUME Solved, NEW b \in Chosen, NEW c \in Chosen, b # c
    PROVE  b.provides \cap c.provides = {} /\ Package(b) \cap Package(c) = {}
<1>1. Tidy /\ b \in Bundles /\ c \in Bundles
    BY ChosenFacts DEF Solved
<1>2. ASSUME NEW v, b \in Sharing(Bundles, v), c \in Sharing(Bundles, v)
      PROVE  Cardinality(Sharing(Bundles, v)) > 1
    <2>1. IsFiniteSet(Sharing(Bundles, v))
        BY <1>1, SharingFacts, ZenonT(30)
    <2> QED
        BY <1>2, <2>1, TwoMembers
<1>3. ASSUME NEW a \in b.provides, a \in c.provides PROVE FALSE
    <2> DEFINE v == <<"gvk", a>>
    <2>1. b \in Sharing(Bundles, v) /\ c \in Sharing(Bundles, v)
        BY <1>1, <1>3 DEF Sharing
    <2>2. v \in Invariants(Bundles)
        BY <1>1, <1>2, <2>1, InvariantsFacts
    <2> HIDE DEF v
    <2> QED
        BY <2>1, <2>2, ChosenShare
<1>4. ASSUME NEW a \in Package(b), a \in Package(c) PROVE FALSE
    <2> DEFINE v == <<"package", a>>
    <2>1. b \in Sharing(Bundles, v) /\ c \in Sharing(Bundles, v)
        BY <1>1, <1>4 DEF Sharing
    <2>2. v \in Invariants(Bundles)
        BY <1>1, <1>2, <2>1, InvariantsFacts
    <2> HIDE DEF v
    <2> QED
        BY <2>1, <2>2, ChosenShare
<1> QED
    BY <1>3, <1>4

\* A Subscription keeps its CSV, or moves to one upgrade.
LEMMA ChosenSubscription ==
    ASSUME Solved, NEW s \in world.subs
    PROVE  \/ /\ Current(s) \subseteq Chosen
              /\ Upgrades(s) \cap Operators = {}
              /\ Current(s) # {}
           \/ /\ Current(s) \cap Chosen = {}
              /\ Cardinality(Upgrades(s) \cap Operators) = 1
<1> DEFINE B == {bundleID(e) : e \in Bundles}
           v == subscriptionID(s)
<1>1. Tidy /\ selected \in ModelsOf({})
    BY DEF Solved
<1>2. v \in Ids /\ constraints[v] = SubscriptionConstraints(s)
    BY SolvedVariables
<1> HIDE DEF v
<1>3. /\ Mandatory \in Range(constraints[v])
      /\ Channel(s) = {} => Prohibited \in Range(constraints[v])
      /\ Channel(s) # {} => \E ids :
            /\ Dependency(ids) \in Range(constraints[v])
            /\ Range(ids) = {bundleID(e) : e \in Upgrades(s) \cup Current(s)}
    <2>1. B \subseteq B
        OBVIOUS
    <2> QED
        BY <1>1, <1>2, <2>1, SubscriptionConstraintsFacts, ZenonT(30)
<1>4. v \in selected
    BY <1>1, <1>2, <1>3, Demands, ZenonT(30)
<1>5. Channel(s) # {}
    BY <1>1, <1>2, <1>3, <1>4, Demands, ZenonT(30)
<1>6. PICK e \in Upgrades(s) \cup Current(s) : bundleID(e) \in selected
    <2>1. PICK ids : /\ Dependency(ids) \in Range(constraints[v])
                     /\ Range(ids) = {bundleID(f) : f \in Upgrades(s) \cup Current(s)}
        BY <1>3, <1>5
    <2>2. \E m \in Range(ids) : m \in selected
        BY <1>1, <1>2, <1>4, <2>1, Demands, ZenonT(30)
    <2> QED
        BY <2>1, <2>2
<1>7. /\ Upgrades(s) \subseteq Bundles /\ Current(s) \subseteq Bundles
      /\ Bundles \subseteq Entries
    BY <1>1, BundlesFacts
<1>8. e \in Chosen
    BY <1>6, <1>7, ChosenFacts
<1>9. \A u \in Upgrades(s) : ~Virtual(u) /\ s.pkg \in Package(u)
    <2>1. \A u \in Upgrades(s) : u.catalog = s.catalog /\ u.pkg = s.pkg
        BY <1>1, CandidatesType, ZenonT(30) DEF Channel
    <2>2. s.catalog # Existing /\ s.pkg # NoName
        BY <1>1 DEF Tidy
    <2> QED
        BY <2>1, <2>2 DEF Virtual, Package
<1>10. \A u \in Upgrades(s) : u \in Operators <=> u \in Chosen
    BY <1>9 DEF Operators
<1>11. \A u \in Upgrades(s) : u \in Chosen => Current(s) \cap Chosen = {}
    BY <1>7, ChosenBundle
<1>12. CASE e \in Current(s)
    <2>1. Current(s) = {e}
        <3>1. \A f \in Current(s) : f \in Entries /\ Virtual(f) /\ f.name = s.installed
            BY DEF Current, Named, Virtual
        <3> QED
            BY <1>1, <1>12, <3>1 DEF Tidy
    <2> QED
        BY <1>8, <1>10, <1>11, <1>12, <2>1
<1>13. CASE e \notin Current(s)
    <2>1. e \in Upgrades(s) /\ Current(s) \cap Chosen = {}
        BY <1>6, <1>8, <1>11, <1>13
    <2>2. \A u \in Upgrades(s) : u \in Chosen => u = e
        BY <1>8, <1>9, <2>1, ChosenApart
    <2>3. Upgrades(s) \cap Operators = {e}
        BY <1>8, <1>10, <2>1, <2>2
    <2>4. Cardinality({e}) = 1
        BY FS_Singleton, ZenonT(30)
    <2> QED
        BY <2>1, <2>3, <2>4
<1> QED
    BY <1>12, <1>13

\* The invariant says that the resolution is right.
LEMMA InvResolved ==
    ASSUME RInv
    PROVE  ResolvedRight
<1>1. outcome = "not satisfiable" => Models = {}
    BY ZenonT(30) DEF RInv, Models
<1>2. ASSUME outcome = "selected" PROVE Solved
    BY <1>2, WorldTidy DEF RInv, Solved
<1>3. ASSUME outcome = "selected" PROVE InstalledEntries \subseteq Bundles /\ Chosen \subseteq Bundles
    BY <1>2, <1>3, BundlesFacts, ChosenFacts DEF Solved
<1>4. ASSUME outcome = "selected", NEW e \in InstalledEntries,
             \A s \in world.subs : s.installed # e.name
      PROVE  e \in Chosen
    <2>1. e \in Bundles /\ Virtual(e)
        BY <1>3, <1>4 DEF InstalledEntries
    <2> QED
        BY <1>2, <1>4, <2>1, ChosenBundle
<1>5. ASSUME outcome = "selected", NEW b \in Chosen
      PROVE  /\ ~b.deprecated
             /\ \A k \in DOMAIN b.requires : \E c \in Chosen : Test_(b.requires[k], c)
    BY <1>2, <1>3, <1>5, ChosenBundle
<1>6. ASSUME outcome = "selected", NEW b \in Chosen, NEW c \in Chosen, b # c
      PROVE  b.provides \cap c.provides = {} /\ Package(b) \cap Package(c) = {}
    BY <1>2, <1>6, ChosenApart
<1>7. ASSUME outcome = "selected", NEW s \in world.subs
      PROVE  \/ /\ Current(s) \subseteq Chosen
                /\ Upgrades(s) \cap Operators = {}
                /\ Current(s) # {}
             \/ /\ Current(s) \cap Chosen = {}
                /\ Cardinality(Upgrades(s) \cap Operators) = 1
    BY <1>2, <1>7, ChosenSubscription, ZenonT(30)
<1> QED
    BY <1>1, <1>4, <1>5, <1>6, <1>7, ZenonT(30) DEF ResolvedRight

\* Backtracking keeps the agenda of the search (PushGuess and PopGuess): for
\* any constraints that Resolve can build.
THEOREM AgendaIsKept == RSpec => []AgendaKept
BY SearchInvariant, InvAgenda, PTL

\* What Resolve returns can be installed, and it refuses only what has no
\* solution: for any catalogs, installed CSVs and Subscriptions.
THEOREM ResolutionIsRight == RSpec => []ResolvedRight
BY SearchInvariant, InvResolved, PTL
=============================================================================
