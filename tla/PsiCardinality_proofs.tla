------------------------ MODULE PsiCardinality_proofs ------------------------
(***************************************************************************)
(* For sets of any size, any number of bins and functions, any hash        *)
(* functions, any sharing and any random blocks: every read finds the      *)
(* message it was meant for, the shares of a bin differ iff it holds a     *)
(* word of both, the sums differ by the number of such bins, and what the  *)
(* receiver gets is the functionality IntersectionCount.                   *)
(*                                                                         *)
(* The argument: where the two parties are determines what is on the       *)
(* streams (StreamsAsExpected); the rows of the simple table hold the keys *)
(* of the sender's words and no others, so that the sender's OKVS opens at *)
(* the receiver's key of bin b to b iff the word is the sender's           *)
(* (PairsAreKeys); the two sums then add up blocks that are equal but for  *)
(* one payload per match, modulo the modulus; and the bins with a match    *)
(* are as many as the common words that found a place.  And neither party  *)
(* waits for the other for ever, since what is on the streams is known.    *)
(***************************************************************************)
EXTENDS PsiCardinality, FiniteSetTheorems, TLAPS

-----------------------------------------------------------------------------
(* Induction.  A set of numbers that has 0 and, with each number, the next *)
(* is Nat, because a set of numbers without some number would have a least *)
(* one that it misses.  With it, what the folds of the community modules   *)
(* compute: the sum of a function over a finite set, and two sequences of  *)
(* sequences made flat side by side.                                       *)

\* Every set of numbers has a least one.
LEMMA Least ==
    ASSUME NEW T \in SUBSET Nat, T # {}
    PROVE  \E n \in T : \A m \in T : n <= m
<1>1. IsWellFoundedOn(OpToRel(<, Nat), Nat)
  BY NatLessThanWellFounded
<1>2. PICK n \in T : \A m \in T : ~ (<<m, n>> \in OpToRel(<, Nat))
  BY <1>1, WFMin
<1>3. \A m \in T : ~(m < n)
  BY <1>2 DEF OpToRel
<1> QED
  BY <1>3

\* Induction over the numbers.
LEMMA NumbersBySteps ==
    ASSUME NEW T \in SUBSET Nat, 0 \in T, \A n \in T : n + 1 \in T
    PROVE  T = Nat
<1> SUFFICES ASSUME Nat \ T # {} PROVE FALSE
  OBVIOUS
<1>1. PICK n \in Nat \ T : \A m \in Nat \ T : n <= m
  BY Least
<1>2. n # 0 /\ n - 1 \in Nat
  BY <1>1
<1>3. n - 1 \in T
  BY <1>1, <1>2
<1> QED
  BY <1>1, <1>2, <1>3

\* Induction over the subsets of a finite set.
LEMMA SubsetsBySteps ==
    ASSUME NEW S, IsFiniteSet(S), NEW T \in SUBSET (SUBSET S),
           \A s \in SUBSET S : (\A x \in s : s \ {x} \in T) => s \in T
    PROVE  T = SUBSET S
<1> DEFINE N == {n \in Nat : \A s \in SUBSET S : Cardinality(s) = n => s \in T}
<1>1. \A s \in SUBSET S : IsFiniteSet(s) /\ Cardinality(s) \in Nat
  BY FS_Subset, FS_CardinalityType
<1>2. 0 \in N
  <2> SUFFICES ASSUME NEW s \in SUBSET S, Cardinality(s) = 0 PROVE s \in T
    OBVIOUS
  <2>1. s = {}
    BY <1>1, FS_EmptySet
  <2> QED
    BY <2>1
<1>3. ASSUME NEW n \in N PROVE n + 1 \in N
  <2> SUFFICES ASSUME NEW s \in SUBSET S, Cardinality(s) = n + 1 PROVE s \in T
    OBVIOUS
  <2>1. ASSUME NEW x \in s PROVE s \ {x} \in T
    <3>1. Cardinality(s \ {x}) = Cardinality(s) - 1
      BY <1>1, FS_RemoveElement
    <3>2. Cardinality(s \ {x}) = n /\ s \ {x} \in SUBSET S
      BY <3>1
    <3> QED
      BY <3>2
  <2> QED
    BY <2>1
<1>4. N = Nat
  <2>1. N \in SUBSET Nat /\ \A n \in N : n + 1 \in N
    BY <1>3
  <2> HIDE DEF N
  <2> QED
    BY <1>2, <2>1, NumbersBySteps
<1> QED
  BY <1>1, <1>4

-----------------------------------------------------------------------------
(* The sum of a function over a finite set                                 *)

SumOver(f, S) == MapThenSumSet(LAMBDA b : f[b], S)

\* The function that it is computed by.
Adds(f, S, g) ==
    g = [s \in SUBSET S |->
           IF s = {} THEN 0
           ELSE f[CHOOSE x \in s : TRUE] + g[s \ {CHOOSE x \in s : TRUE}]]

LEMMA AddsExists ==
    ASSUME NEW S, IsFiniteSet(S), NEW f
    PROVE  \E g : Adds(f, S, g)
<1> DEFINE c(s)  == CHOOSE x \in s : TRUE
           D(n)  == {s \in SUBSET S : Cardinality(s) <= n}
           R(n, g) == g = [s \in D(n) |-> IF s = {} THEN 0 ELSE f[c(s)] + g[s \ {c(s)}]]
           N     == {n \in Nat : \E g : R(n, g)}
<1>1. \A s \in SUBSET S : IsFiniteSet(s) /\ Cardinality(s) \in Nat
  BY FS_Subset, FS_CardinalityType
<1>2. \A s \in SUBSET S : s # {} => c(s) \in s
  OBVIOUS
<1>3. \A n \in Nat : \A s \in D(n + 1) : s # {} => s \ {c(s)} \in D(n)
  <2> SUFFICES ASSUME NEW n \in Nat, NEW s \in D(n + 1), s # {}
               PROVE  s \ {c(s)} \in D(n)
    OBVIOUS
  <2>1. Cardinality(s \ {c(s)}) = Cardinality(s) - 1
    BY <1>1, <1>2, FS_RemoveElement
  <2> QED
    BY <1>1, <2>1
<1>4. \A s \in D(0) : s = {}
  BY <1>1, FS_EmptySet
<1>5. 0 \in N
  <2> DEFINE g == [s \in D(0) |-> 0]
  <2>1. R(0, g)
    BY <1>4
  <2> QED
    BY <2>1
<1>6. ASSUME NEW n \in N PROVE n + 1 \in N
  <2>1. PICK g : R(n, g)
    OBVIOUS
  <2> DEFINE h == [s \in D(n + 1) |-> IF s = {} THEN 0 ELSE f[c(s)] + g[s \ {c(s)}]]
  <2>2. D(n) \subseteq D(n + 1)
    BY <1>1
  <2>3. \A s \in D(n) : h[s] = g[s]
    BY <2>1, <2>2
  <2>4. \A s \in D(n + 1) : s # {} => h[s \ {c(s)}] = g[s \ {c(s)}]
    BY <1>3, <2>3
  <2>5. R(n + 1, h)
    <3> HIDE DEF D, c
    <3> QED
      BY <2>4
  <2> HIDE DEF R
  <2> QED
    BY <2>5
<1>7. N = Nat
  <2>1. N \in SUBSET Nat /\ \A n \in N : n + 1 \in N
    BY <1>6
  <2> HIDE DEF N
  <2> QED
    BY <1>5, <2>1, NumbersBySteps
<1>8. D(Cardinality(S)) = SUBSET S
  BY <1>1, FS_Subset
<1>9. PICK g : R(Cardinality(S), g)
  BY <1>1, <1>7
<1> QED
  BY <1>8, <1>9, Zenon DEF Adds

\* The sum is what that function comes to.
LEMMA SumIsAdds ==
    ASSUME NEW S, IsFiniteSet(S), NEW f
    PROVE  \E g : Adds(f, S, g) /\ SumOver(f, S) = g[S]
<1>1. SumOver(f, S) = (CHOOSE g : Adds(f, S, g))[S]
  BY Zenon DEF SumOver, MapThenSumSet, MapThenFoldSet, Adds
<1>2. Adds(f, S, CHOOSE g : Adds(f, S, g))
  BY AddsExists, Zenon
<1> QED
  BY <1>1, <1>2, Zenon

\* Numbers that differ by a multiple of n.
Congruent(a, b, n) == \E k \in Int : a = b + k * n

\* When each value of g is, modulo n, that of f with one more on the members of M, the
\* sums differ by the size of M modulo n.
LEMMA SumsDifferByMarks ==
    ASSUME NEW S, IsFiniteSet(S), NEW n \in Nat \ {0}, NEW M \in SUBSET S,
           NEW f \in [S -> Int], NEW g \in [S -> Int],
           \A x \in S : Congruent(g[x], f[x] + (IF x \in M THEN 1 ELSE 0), n)
    PROVE  /\ SumOver(f, S) \in Int
           /\ SumOver(g, S) \in Int
           /\ Congruent(SumOver(g, S),
                        SumOver(f, S) + Cardinality(M), n)
<1>1. PICK F : Adds(f, S, F) /\ SumOver(f, S) = F[S]
  BY SumIsAdds
<1>2. PICK G : Adds(g, S, G) /\ SumOver(g, S) = G[S]
  BY SumIsAdds
<1> DEFINE c(s) == CHOOSE x \in s : TRUE
           Good(s) == /\ F[s] \in Int /\ G[s] \in Int
                      /\ Congruent(G[s], F[s] + Cardinality(s \cap M), n)
           T == {s \in SUBSET S : Good(s)}
<1>3. ASSUME NEW s \in SUBSET S, \A x \in s : s \ {x} \in T
      PROVE  s \in T
  <2>1. CASE s = {}
    <3>1. F[s] = 0 /\ G[s] = 0
      BY <1>1, <1>2, <2>1 DEF Adds
    <3>2. Cardinality(s \cap M) = 0
      BY <2>1, FS_EmptySet
    <3>3. Congruent(0, 0 + 0, n)
      <4>1. 0 = 0 + 0 + 0 * n
        OBVIOUS
      <4> QED
        BY <4>1 DEF Congruent
    <3> QED
      BY <3>1, <3>2, <3>3
  <2>2. CASE s # {}
    <3> DEFINE x == c(s)
               t == s \ {x}
    <3>1. x \in s /\ x \in S
      BY <2>2
    <3>2. F[s] = f[x] + F[t] /\ G[s] = g[x] + G[t]
      BY <1>1, <1>2, <2>2 DEF Adds
    <3> HIDE DEF x
    <3>3. t \in T
      BY <1>3, <3>1
    <3>4. F[t] \in Int /\ G[t] \in Int /\ f[x] \in Int /\ g[x] \in Int
      BY <3>1, <3>3
    <3>5. PICK k \in Int : G[t] = (F[t] + Cardinality(t \cap M)) + k * n
      BY <3>3 DEF Congruent
    <3>6. PICK j \in Int : g[x] = (f[x] + (IF x \in M THEN 1 ELSE 0)) + j * n
      BY <3>1 DEF Congruent
    <3>7. /\ Cardinality(t \cap M) \in Nat
          /\ Cardinality(s \cap M) = Cardinality(t \cap M) + IF x \in M THEN 1 ELSE 0
      <4>1. IsFiniteSet(s \cap M) /\ Cardinality(s \cap M) \in Nat
        BY FS_Subset, FS_CardinalityType
      <4>2. t \cap M = (s \cap M) \ {x} /\ (x \in s \cap M <=> x \in M)
        BY <3>1
      <4>3. /\ IsFiniteSet((s \cap M) \ {x})
            /\ Cardinality((s \cap M) \ {x}) =
                 IF x \in s \cap M THEN Cardinality(s \cap M) - 1 ELSE Cardinality(s \cap M)
        BY <4>1, FS_RemoveElement
      <4>4. Cardinality((s \cap M) \ {x}) \in Nat
        BY <4>3, FS_CardinalityType
      <4>5. Cardinality(t \cap M) = Cardinality((s \cap M) \ {x})
        BY <4>2, Zenon
      <4> HIDE DEF t
      <4> QED
        BY <4>1, <4>2, <4>3, <4>4, <4>5
    <3>8. (j + k) \in Int /\ (j + k) * n = j * n + k * n
      OBVIOUS
    <3>9. G[s] = (F[s] + Cardinality(s \cap M)) + (j + k) * n
      <4> DEFINE a == F[t]
                 b == G[t]
                 u == f[x]
                 v == g[x]
                 m == Cardinality(t \cap M)
                 J == j * n
                 K == k * n
                 e == IF x \in M THEN 1 ELSE 0
      <4>1. J \in Int /\ K \in Int /\ e \in Int
        OBVIOUS
      <4>2. /\ F[s] = u + a /\ G[s] = v + b
            /\ Cardinality(s \cap M) = m + e /\ b = (a + m) + K /\ v = (u + e) + J
            /\ (j + k) * n = J + K /\ m \in Int
            /\ a \in Int /\ b \in Int /\ u \in Int /\ v \in Int
        BY <3>2, <3>4, <3>5, <3>6, <3>7, <3>8
      <4> HIDE DEF a, b, u, v, m, J, K, e
      <4> QED
        BY <4>1, <4>2
    <3>10. F[s] \in Int /\ G[s] \in Int
      BY <3>2, <3>4
    <3> QED
      BY <3>8, <3>9, <3>10 DEF Congruent
  <2> QED
    BY <2>1, <2>2
<1>4. T = SUBSET S
  <2>1. T \in SUBSET (SUBSET S)
    OBVIOUS
  <2> HIDE DEF T
  <2> QED
    BY <1>3, <2>1, SubsetsBySteps
<1>5. Good(S) /\ S \cap M = M
  BY <1>4
<1> QED
  BY <1>1, <1>2, <1>5

-----------------------------------------------------------------------------
(* Sequences of sequences                                                  *)

\* The function that a sequence of sequences is made flat by.
Joins(s, g) ==
    g = [i \in 1 .. Len(s) |-> IF i = 1 THEN s[i] ELSE g[i - 1] \o s[i]]

LEMMA JoinsExists ==
    ASSUME NEW s, Len(s) \in Nat
    PROVE  \E g : Joins(s, g)
<1> DEFINE R(n, g) == g = [i \in 1 .. n |-> IF i = 1 THEN s[i] ELSE g[i - 1] \o s[i]]
           N == {n \in Nat : \E g : R(n, g)}
<1>1. 0 \in N
  <2> DEFINE g == [i \in 1 .. 0 |-> 0]
  <2>1. R(0, g)
    OBVIOUS
  <2> QED
    BY <2>1
<1>2. ASSUME NEW n \in N PROVE n + 1 \in N
  <2>1. PICK g : R(n, g)
    OBVIOUS
  <2> DEFINE h == [i \in 1 .. n + 1 |-> IF i = 1 THEN s[i] ELSE g[i - 1] \o s[i]]
  <2>2. \A i \in 1 .. n : h[i] = g[i]
    <3>1. \A i \in 1 .. n : i \in 1 .. n + 1
      OBVIOUS
    <3>2. \A i \in 1 .. n : g[i] = IF i = 1 THEN s[i] ELSE g[i - 1] \o s[i]
      BY <2>1, Zenon
    <3>3. \A i \in 1 .. n + 1 : h[i] = IF i = 1 THEN s[i] ELSE g[i - 1] \o s[i]
      BY Zenon
    <3> HIDE DEF h
    <3> QED
      BY <3>1, <3>2, <3>3, Zenon
  <2>3. \A i \in 1 .. n + 1 : i # 1 => h[i - 1] = g[i - 1]
    <3>1. \A i \in 1 .. n + 1 : i # 1 => i - 1 \in 1 .. n
      OBVIOUS
    <3> HIDE DEF h
    <3> QED
      BY <2>2, <3>1
  <2>4. R(n + 1, h)
    <3>1. \A i \in 1 .. n + 1 :
            h[i] = IF i = 1 THEN s[i] ELSE h[i - 1] \o s[i]
      <4>1. \A i \in 1 .. n + 1 : h[i] = IF i = 1 THEN s[i] ELSE g[i - 1] \o s[i]
        BY Zenon
      <4> HIDE DEF h
      <4> QED
        BY <2>3, <4>1, Zenon
    <3>2. h = [i \in 1 .. n + 1 |-> h[i]]
      BY Zenon
    <3> HIDE DEF h
    <3> QED
      BY <3>1, <3>2
  <2> HIDE DEF R
  <2> QED
    BY <2>4
<1>3. N = Nat
  <2>1. N \in SUBSET Nat /\ \A n \in N : n + 1 \in N
    BY <1>2
  <2> HIDE DEF N
  <2> QED
    BY <1>1, <2>1, NumbersBySteps
<1>4. PICK g : R(Len(s), g)
  BY <1>3
<1> QED
  BY <1>4 DEF Joins

LEMMA FlattenIsJoins ==
    ASSUME NEW s, Len(s) \in Nat, Len(s) # 0
    PROVE  \E g : Joins(s, g) /\ FlattenSeq(s) = g[Len(s)]
<1>1. FlattenSeq(s) = (CHOOSE g : Joins(s, g))[Len(s)]
  BY Zenon DEF FlattenSeq, Joins
<1>2. Joins(s, CHOOSE g : Joins(s, g))
  BY JoinsExists, Zenon
<1> QED
  BY <1>1, <1>2, Zenon

\* Two sequences have u and v at one position.
Pair(s, t, u, v) == \E i \in 1 .. Len(s) : s[i] = u /\ t[i] = v

\* Two sequences of one length, each behind another of one length.
LEMMA SideBySide ==
    ASSUME NEW A, NEW B, NEW p \in Seq(A), NEW q \in Seq(B), Len(p) = Len(q),
           NEW x \in Seq(A), NEW y \in Seq(B), Len(x) = Len(y)
    PROVE  /\ p \o x \in Seq(A) /\ q \o y \in Seq(B) /\ Len(p \o x) = Len(q \o y)
           /\ \A u, v : Pair(p \o x, q \o y, u, v) <=> Pair(p, q, u, v) \/ Pair(x, y, u, v)
<1> DEFINE P == p \o x
           Q == q \o y
           l == Len(p)
           n == Len(x)
<1>1. l \in Nat /\ n \in Nat
  OBVIOUS
<1>2. P \in Seq(A) /\ Q \in Seq(B) /\ Len(P) = l + n /\ Len(Q) = l + n
  OBVIOUS
<1>3. \A t \in 1 .. l : P[t] = p[t] /\ Q[t] = q[t]
  OBVIOUS
<1>4. \A t \in 1 .. n : P[l + t] = x[t] /\ Q[l + t] = y[t]
  OBVIOUS
<1> HIDE DEF P, Q, l, n
<1>5. ASSUME NEW t \in 1 .. l + n
      PROVE  t \in 1 .. l \/ \E j \in 1 .. n : t = l + j
  <2>1. CASE t > l
    <3>1. t - l \in 1 .. n /\ t = l + (t - l)
      BY <1>1, <2>1
    <3> QED
      BY <3>1
  <2> QED
    BY <1>1, <2>1
<1>6. \A t \in 1 .. l : t \in 1 .. l + n
  BY <1>1
<1>7. \A t \in 1 .. n : l + t \in 1 .. l + n
  BY <1>1
<1>8. ASSUME NEW u, NEW v
      PROVE  (\E t \in 1 .. l + n : P[t] = u /\ Q[t] = v)
             <=> \/ \E t \in 1 .. l : p[t] = u /\ q[t] = v
                 \/ \E t \in 1 .. n : x[t] = u /\ y[t] = v
  <2>1. ASSUME NEW t \in 1 .. l + n, P[t] = u, Q[t] = v
        PROVE  \/ \E j \in 1 .. l : p[j] = u /\ q[j] = v
               \/ \E j \in 1 .. n : x[j] = u /\ y[j] = v
    BY <1>3, <1>4, <1>5, <2>1
  <2>2. ASSUME NEW t \in 1 .. l, p[t] = u, q[t] = v
        PROVE  \E j \in 1 .. l + n : P[j] = u /\ Q[j] = v
    BY <1>3, <1>6, <2>2
  <2>3. ASSUME NEW t \in 1 .. n, x[t] = u, y[t] = v
        PROVE  \E j \in 1 .. l + n : P[j] = u /\ Q[j] = v
    BY <1>4, <1>7, <2>3
  <2> QED
    BY <2>1, <2>2, <2>3
<1>9. /\ Len(P) = Len(Q)
      /\ \A u, v : (\E t \in 1 .. Len(P) : P[t] = u /\ Q[t] = v)
                   <=> \/ \E t \in 1 .. l : p[t] = u /\ q[t] = v
                       \/ \E t \in 1 .. n : x[t] = u /\ y[t] = v
  BY <1>2, <1>8
<1> QED
  BY <1>2, <1>9, Zenon DEF P, Q, l, n, Pair

\* Two sequences of sequences with rows of the same lengths, made flat, pair at the same
\* positions what they paired in their rows, and nothing else.
LEMMA FlatSideBySide ==
    ASSUME NEW A, NEW B, NEW a \in Seq(Seq(A)), NEW b \in Seq(Seq(B)),
           Len(a) # 0, Len(a) = Len(b),
           \A i \in 1 .. Len(a) : Len(a[i]) = Len(b[i])
    PROVE  /\ FlattenSeq(a) \in Seq(A) /\ FlattenSeq(b) \in Seq(B)
           /\ Len(FlattenSeq(a)) = Len(FlattenSeq(b))
           /\ \A u, v : Pair(FlattenSeq(a), FlattenSeq(b), u, v)
                         <=> \E i \in 1 .. Len(a) : Pair(a[i], b[i], u, v)
<1> DEFINE n == Len(a)
<1>1. n \in Nat /\ n # 0
  OBVIOUS
<1>2. PICK F : Joins(a, F) /\ FlattenSeq(a) = F[n]
  BY FlattenIsJoins, <1>1
<1>3. PICK G : Joins(b, G) /\ FlattenSeq(b) = G[n]
  BY FlattenIsJoins, <1>1
<1>4. /\ \A i \in 1 .. n : F[i] = IF i = 1 THEN a[i] ELSE F[i - 1] \o a[i]
      /\ \A i \in 1 .. n : G[i] = IF i = 1 THEN b[i] ELSE G[i - 1] \o b[i]
  BY <1>2, <1>3 DEF Joins
<1>5. \A i \in 1 .. n : a[i] \in Seq(A) /\ b[i] \in Seq(B) /\ Len(a[i]) = Len(b[i])
  OBVIOUS
<1> DEFINE InFlat(k, u, v) == Pair(F[k], G[k], u, v)
           InRow(i, u, v)  == Pair(a[i], b[i], u, v)
           Good(k) == /\ F[k] \in Seq(A) /\ G[k] \in Seq(B) /\ Len(F[k]) = Len(G[k])
                      /\ \A u, v : InFlat(k, u, v) <=> \E i \in 1 .. k : InRow(i, u, v)
           N == {k \in Nat : k + 1 \in 1 .. n => Good(k + 1)}
<1>6. Good(1)
  <2>1. F[1] = a[1] /\ G[1] = b[1] /\ 1 \in 1 .. n
    BY <1>1, <1>4
  <2>2. \A i \in 1 .. 1 : i = 1
    OBVIOUS
  <2>3. \A u, v : InFlat(1, u, v) <=> InRow(1, u, v)
    BY <2>1
  <2>4. F[1] \in Seq(A) /\ G[1] \in Seq(B) /\ Len(F[1]) = Len(G[1])
    BY <1>5, <2>1
  <2>5. \A u, v : InRow(1, u, v) <=> \E i \in 1 .. 1 : InRow(i, u, v)
    <3> HIDE DEF InRow
    <3> QED
      BY <2>2
  <2> HIDE DEF InRow, InFlat
  <2> QED
    BY <2>3, <2>4, <2>5
<1>7. ASSUME NEW k \in Nat, k + 1 \in 1 .. n, k # 0, Good(k) PROVE Good(k + 1)
  <2> DEFINE m == k + 1
             p == F[k]
             q == G[k]
             x == a[m]
             y == b[m]
  <2>1. F[m] = p \o x /\ G[m] = q \o y
    <3>1. m \in 1 .. n /\ m # 1 /\ m - 1 = k
      BY <1>7
    <3> QED
      BY <1>4, <3>1
  <2>2. /\ p \in Seq(A) /\ q \in Seq(B) /\ Len(p) = Len(q)
        /\ x \in Seq(A) /\ y \in Seq(B) /\ Len(x) = Len(y)
    BY <1>5, <1>7
  <2>3. F[m] \in Seq(A) /\ G[m] \in Seq(B) /\ Len(F[m]) = Len(G[m])
    <3> HIDE DEF p, q, x, y, m
    <3> QED
      BY <2>1, <2>2, SideBySide
  <2>4. \A u, v : InFlat(m, u, v) <=> InFlat(k, u, v) \/ InRow(m, u, v)
    <3>1. \A u, v : Pair(p \o x, q \o y, u, v) <=> Pair(p, q, u, v) \/ Pair(x, y, u, v)
      <4> HIDE DEF p, q, x, y
      <4> QED
        BY <2>2, SideBySide
    <3> HIDE DEF m
    <3> QED
      BY <2>1, <3>1
  <2>5. \A u, v : InFlat(k, u, v) <=> \E i \in 1 .. k : InRow(i, u, v)
    BY <1>7
  <2>6. \A i : i \in 1 .. m <=> i \in 1 .. k \/ i = m
    BY <1>7
  <2> HIDE DEF InFlat, InRow, m
  <2>7. \A u, v : InFlat(m, u, v) <=> \E i \in 1 .. m : InRow(i, u, v)
    BY <2>4, <2>5, <2>6
  <2>8. Good(m)
    BY <2>2, <2>3, <2>7
  <2> QED
    BY <2>8 DEF m
<1>8. N = Nat
  <2> HIDE DEF Good
  <2>1. N \in SUBSET Nat /\ 0 \in N
    BY <1>6
  <2>2. ASSUME NEW k \in N PROVE k + 1 \in N
    <3>1. k \in Nat /\ k + 1 \in Nat /\ k + 1 # 0
      OBVIOUS
    <3>2. ASSUME (k + 1) + 1 \in 1 .. n PROVE Good((k + 1) + 1)
      <4>1. k + 1 \in 1 .. n
        BY <3>1, <3>2, <1>1
      <4>2. Good(k + 1)
        BY <4>1
      <4> QED
        BY <1>7, <3>1, <3>2, <4>2
    <3> QED
      BY <3>1, <3>2
  <2> HIDE DEF N
  <2> QED
    BY <2>1, <2>2, NumbersBySteps
<1>9. Good(n)
  <2> HIDE DEF Good
  <2>1. n - 1 \in Nat /\ (n - 1) + 1 = n /\ n \in 1 .. n
    <3> HIDE DEF n
    <3> QED
      BY <1>1
  <2>2. n - 1 \in N
    <3> HIDE DEF n, N
    <3> QED
      BY <1>8, <2>1
  <2> QED
    BY <2>1, <2>2
<1> QED
  BY <1>2, <1>3, <1>9

\* SetToSeq lists each member of a finite set once.
LEMMA SetToSeqLists ==
    ASSUME NEW S, IsFiniteSet(S)
    PROVE  /\ SetToSeq(S) \in Seq(S) /\ Len(SetToSeq(S)) = Cardinality(S)
           /\ Cardinality(S) \in Nat
           /\ \A i, j \in 1 .. Cardinality(S) : SetToSeq(S)[i] = SetToSeq(S)[j] => i = j
           /\ \A x \in S : \E i \in 1 .. Cardinality(S) : SetToSeq(S)[i] = x
<1> DEFINE n == Cardinality(S)
           f == SetToSeq(S)
<1>1. n \in Nat /\ ExistsBijection(1 .. n, S)
  BY FS_CardinalityType
<1>2. \E g \in [1 .. n -> S] : IsInjective(g)
  BY <1>1 DEF ExistsBijection, Bijection, Injection
<1>3. f \in [1 .. n -> S] /\ IsInjective(f)
  BY <1>2, Zenon DEF SetToSeq
<1> HIDE DEF f
<1>4. f \in Seq(S) /\ Len(f) = n
  BY <1>1, <1>3
<1>5. \A i, j \in 1 .. n : f[i] = f[j] => i = j
  BY <1>3 DEF IsInjective
<1>6. \A x \in S : \E i \in 1 .. n : f[i] = x
  <2>1. f \in Injection(1 .. n, S)
    BY <1>3 DEF Injection
  <2>2. Cardinality(1 .. n) = n
    BY <1>1, FS_Interval
  <2>3. f \in Surjection(1 .. n, S)
    BY <2>1, <2>2, FS_Injection
  <2> QED
    BY <2>3 DEF Surjection
<1> QED
  BY <1>1, <1>4, <1>5, <1>6 DEF f

-----------------------------------------------------------------------------
(* The tables                                                              *)

NumBins == NumBinsOf(Capacity)

\* There are bins, and finitely many.
LEMMA BinsFinite ==
    /\ NumBins \in Nat \ {0} /\ Bins = 0 .. NumBins - 1 /\ IsFiniteSet(Bins)
    /\ Functions = 0 .. NumFunctions - 1
<1> DEFINE n == (Capacity * 127) \div 100
<1>1. Capacity \in Nat \ {0} /\ Align \in Nat \ {0}
  BY SizesAssumption
<1>2. n \in Nat /\ n >= 1
  BY <1>1
<1>3. NumBins = n + (IF n % Align = 0 THEN 0 ELSE Align - (n % Align))
  BY DEF NumBins, NumBinsOf
<1> HIDE DEF n
<1>4. n % Align \in 0 .. Align - 1
  BY <1>1, <1>2
<1>5. NumBins \in Nat \ {0}
  BY <1>1, <1>2, <1>3, <1>4
<1>6. IsFiniteSet(0 .. NumBins - 1)
  BY <1>5, FS_Interval
<1> QED
  BY <1>5, <1>6 DEF Bins, Functions, NumBins

\* The numbers of words and functions stand for the pairs of the two.
LEMMA KeyNumbers ==
    ASSUME NEW F \in Nat \ {0}, NEW n \in Nat
    PROVE  /\ \A k \in 1 .. F * n :
                (k - 1) % F \in 0 .. F - 1 /\ 1 + (k - 1) \div F \in 1 .. n
           /\ \A f \in 0 .. F - 1, i \in 1 .. n :
                \E k \in 1 .. F * n : (k - 1) % F = f /\ 1 + (k - 1) \div F = i
<1>1. F * n \in Nat
  OBVIOUS
<1>2. ASSUME NEW k \in 1 .. F * n
      PROVE  (k - 1) % F \in 0 .. F - 1 /\ 1 + (k - 1) \div F \in 1 .. n
  <2> DEFINE v == k - 1
             q == v \div F
             m == v % F
  <2>1. v \in Nat /\ v < F * n
    BY <1>1
  <2>2. q \in Int /\ m \in 0 .. F - 1 /\ v = m + F * q
    BY <2>1
  <2> HIDE DEF v, q, m
  <2>3. q >= 0
    <3> SUFFICES ASSUME q <= -1 PROVE FALSE
      BY <2>2
    <3>1. F * q <= -F
      BY <2>2
    <3> QED
      BY <2>1, <2>2, <3>1
  <2>4. q < n
    <3> SUFFICES ASSUME q >= n PROVE FALSE
      BY <2>2
    <3>1. F * q >= F * n
      BY <2>2
    <3> QED
      BY <1>1, <2>1, <2>2, <3>1
  <2>5. 1 + q \in 1 .. n
    BY <2>2, <2>3, <2>4
  <2> QED
    BY <2>2, <2>5 DEF m, q, v
<1>3. ASSUME NEW f \in 0 .. F - 1, NEW i \in 1 .. n
      PROVE  \E k \in 1 .. F * n : (k - 1) % F = f /\ 1 + (k - 1) \div F = i
  <2> DEFINE q == i - 1
             k == F * q + f + 1
  <2>1. F * q \in Nat /\ F * i = F * q + F /\ F * i <= F * n
    OBVIOUS
  <2>2. k \in 1 .. F * n /\ k - 1 = F * q + f
    BY <1>1, <2>1
  <2>3. (F * q + f) % F = f /\ (F * q + f) \div F = q
    BY <2>1
  <2>4. 1 + q = i
    OBVIOUS
  <2> HIDE DEF q, k
  <2> QED
    BY <2>2, <2>3, <2>4
<1> QED
  BY <1>2, <1>3

\* The k-th key, and the function that the rows are computed by.
KeyAt(words, k) == <<(k - 1) % NumFunctions, words[1 + (k - 1) \div NumFunctions]>>

Fills(words, nbins, g) ==
    g = [k \in 0 .. NumFunctions * Len(words) |->
           IF k = 0 THEN [b \in 0 .. nbins - 1 |-> <<>>]
           ELSE [g[k - 1] EXCEPT ![lut[KeyAt(words, k)[2]][KeyAt(words, k)[1]]] =
                                    Append(@, KeyAt(words, k))]]

LEMMA FillsExists ==
    ASSUME NEW words, NumFunctions * Len(words) \in Nat, NEW nbins
    PROVE  \E g : Fills(words, nbins, g)
<1> DEFINE next(r, k) == [r EXCEPT ![lut[KeyAt(words, k)[2]][KeyAt(words, k)[1]]] =
                                     Append(@, KeyAt(words, k))]
           none == [b \in 0 .. nbins - 1 |-> <<>>]
           R(n, g) == g = [k \in 0 .. n |-> IF k = 0 THEN none ELSE next(g[k - 1], k)]
           N == {n \in Nat : \E g : R(n, g)}
<1>1. 0 \in N
  <2> DEFINE g == [k \in 0 .. 0 |-> none]
  <2>1. \A k \in 0 .. 0 : k = 0
    OBVIOUS
  <2> HIDE DEF next, none
  <2>2. R(0, g)
    BY <2>1
  <2> QED
    BY <2>2
<1>2. ASSUME NEW n \in N PROVE n + 1 \in N
  <2>1. PICK g : R(n, g)
    OBVIOUS
  <2> DEFINE h == [k \in 0 .. n + 1 |-> IF k = 0 THEN none ELSE next(g[k - 1], k)]
  <2> HIDE DEF next, none
  <2>2. \A k \in 0 .. n : h[k] = g[k]
    <3>1. \A k \in 0 .. n : k \in 0 .. n + 1
      OBVIOUS
    <3>2. \A k \in 0 .. n : g[k] = IF k = 0 THEN none ELSE next(g[k - 1], k)
      BY <2>1, Zenon
    <3>3. \A k \in 0 .. n + 1 : h[k] = IF k = 0 THEN none ELSE next(g[k - 1], k)
      BY Zenon
    <3> HIDE DEF h
    <3> QED
      BY <3>1, <3>2, <3>3, Zenon
  <2>3. \A k \in 0 .. n + 1 : k # 0 => h[k - 1] = g[k - 1]
    <3>1. \A k \in 0 .. n + 1 : k # 0 => k - 1 \in 0 .. n
      OBVIOUS
    <3> HIDE DEF h
    <3> QED
      BY <2>2, <3>1
  <2>4. R(n + 1, h)
    <3>1. \A k \in 0 .. n + 1 : h[k] = IF k = 0 THEN none ELSE next(h[k - 1], k)
      <4>1. \A k \in 0 .. n + 1 : h[k] = IF k = 0 THEN none ELSE next(g[k - 1], k)
        BY Zenon
      <4> HIDE DEF h
      <4> QED
        BY <2>3, <4>1, Zenon
    <3>2. h = [k \in 0 .. n + 1 |-> h[k]]
      BY Zenon
    <3> HIDE DEF h
    <3> QED
      BY <3>1, <3>2
  <2> HIDE DEF R
  <2> QED
    BY <2>4
<1>3. N = Nat
  <2>1. N \in SUBSET Nat /\ \A n \in N : n + 1 \in N
    BY <1>2
  <2> HIDE DEF N
  <2> QED
    BY <1>1, <2>1, NumbersBySteps
<1>4. PICK g : R(NumFunctions * Len(words), g)
  BY <1>3
<1> QED
  BY <1>4, Zenon DEF Fills

LEMMA TableIsFills ==
    ASSUME NEW words, NumFunctions * Len(words) \in Nat, NEW nbins
    PROVE  \E g : /\ Fills(words, nbins, g)
                  /\ SimpleTable(words, nbins) = g[NumFunctions * Len(words)]
<1>1. SimpleTable(words, nbins) =
        (CHOOSE g : Fills(words, nbins, g))[NumFunctions * Len(words)]
  BY Zenon DEF SimpleTable, Fills, KeyAt
<1>2. Fills(words, nbins, CHOOSE g : Fills(words, nbins, g))
  BY FillsExists, Zenon
<1> QED
  BY <1>1, <1>2, Zenon

In(r, x) == \E j \in 1 .. Len(r) : r[j] = x

LEMMA InAppend ==
    ASSUME NEW A, NEW r \in Seq(A), NEW x \in A
    PROVE  /\ Append(r, x) \in Seq(A)
           /\ \A y : In(Append(r, x), y) <=> In(r, y) \/ x = y
<1> DEFINE s == Append(r, x)
           n == Len(r)
<1>1. /\ n \in Nat /\ s \in Seq(A) /\ Len(s) = n + 1 /\ s[n + 1] = x
      /\ \A i \in 1 .. n : s[i] = r[i]
  OBVIOUS
<1> HIDE DEF s, n
<1>2. \A i : i \in 1 .. n + 1 <=> i \in 1 .. n \/ i = n + 1
  BY <1>1
<1>3. ASSUME NEW y
      PROVE  (\E j \in 1 .. Len(s) : s[j] = y) <=> (\E j \in 1 .. n : r[j] = y) \/ x = y
  BY <1>1, <1>2
<1> QED
  BY <1>1, <1>3, Zenon DEF In, s, n

Keys == Functions \X Words

\* Row b of the simple table holds the keys of the words that lead to bin b.
LEMMA RowsHoldKeys ==
    ASSUME lut \in [Words \cup Pads -> [Functions -> Bins]], NEW words \in Seq(Words)
    PROVE  /\ SimpleTable(words, NumBins) \in [Bins -> Seq(Keys)]
           /\ \A b \in Bins, f \in Functions, w \in Words :
                In(SimpleTable(words, NumBins)[b], <<f, w>>)
                <=> lut[w][f] = b /\ \E i \in 1 .. Len(words) : words[i] = w
<1> DEFINE n == NumFunctions * Len(words)
           key(k) == KeyAt(words, k)
           at(x) == lut[x[2]][x[1]]
<1>1. /\ NumFunctions \in Nat \ {0} /\ Len(words) \in Nat /\ n \in Nat
      /\ Bins = 0 .. NumBins - 1 /\ Functions = 0 .. NumFunctions - 1
  BY SizesAssumption, BinsFinite
<1>2. PICK g : Fills(words, NumBins, g) /\ SimpleTable(words, NumBins) = g[n]
  BY <1>1, TableIsFills
<1>3. /\ \A k \in 1 .. n : key(k) \in Keys
      /\ \A f \in Functions, i \in 1 .. Len(words) : \E k \in 1 .. n : key(k) = <<f, words[i]>>
      /\ \A k \in 1 .. n : \E i \in 1 .. Len(words) : key(k)[2] = words[i]
  <2>1. /\ \A k \in 1 .. n : /\ (k - 1) % NumFunctions \in 0 .. NumFunctions - 1
                             /\ 1 + (k - 1) \div NumFunctions \in 1 .. Len(words)
        /\ \A f \in 0 .. NumFunctions - 1, i \in 1 .. Len(words) :
             \E k \in 1 .. n : /\ (k - 1) % NumFunctions = f
                               /\ 1 + (k - 1) \div NumFunctions = i
    BY <1>1, KeyNumbers
  <2>2. \A i \in 1 .. Len(words) : words[i] \in Words
    OBVIOUS
  <2> HIDE DEF n
  <2>3. \A k \in 1 .. n : key(k) \in Keys
    BY <1>1, <2>1, <2>2 DEF KeyAt, Keys
  <2>4. \A f \in Functions, i \in 1 .. Len(words) : \E k \in 1 .. n : key(k) = <<f, words[i]>>
    <3> SUFFICES ASSUME NEW f \in Functions, NEW i \in 1 .. Len(words)
                 PROVE  \E k \in 1 .. n : key(k) = <<f, words[i]>>
      OBVIOUS
    <3>1. PICK k \in 1 .. n : /\ (k - 1) % NumFunctions = f
                             /\ 1 + (k - 1) \div NumFunctions = i
      BY <1>1, <2>1
    <3> QED
      BY <3>1 DEF KeyAt
  <2>5. \A k \in 1 .. n : \E i \in 1 .. Len(words) : key(k)[2] = words[i]
    BY <2>1 DEF KeyAt
  <2> QED
    BY <2>3, <2>4, <2>5
<1>4. \A x \in Keys : at(x) \in Bins /\ x[1] \in Functions /\ x[2] \in Words /\ x = <<x[1], x[2]>>
  BY DEF Keys
<1>5. /\ g[0] = [b \in 0 .. NumBins - 1 |-> <<>>]
      /\ \A k \in 1 .. n : g[k] = [g[k - 1] EXCEPT ![at(key(k))] = Append(@, key(k))]
  <2>1. \A k \in 0 .. n :
          g[k] = IF k = 0 THEN [b \in 0 .. NumBins - 1 |-> <<>>]
                 ELSE [g[k - 1] EXCEPT ![at(key(k))] = Append(@, key(k))]
    BY <1>2, Zenon DEF Fills
  <2>2. 0 \in 0 .. n /\ \A k \in 1 .. n : k \in 0 .. n /\ k # 0
    BY <1>1
  <2> HIDE DEF n, key, at
  <2> QED
    BY <2>1, <2>2
<1> HIDE DEF n, key, at
<1> DEFINE Upto(k, b, x) == \E i \in 1 .. k : key(i) = x /\ at(x) = b
           Good(k) == /\ g[k] \in [Bins -> Seq(Keys)]
                      /\ \A b \in Bins, x \in Keys : In(g[k][b], x) <=> Upto(k, b, x)
           N == {k \in Nat : k \in 0 .. n => Good(k)}
<1>6. Good(0)
  <2>1. g[0] = [b \in Bins |-> <<>>] /\ <<>> \in Seq(Keys) /\ Len(<<>>) = 0
    BY <1>1, <1>5
  <2>2. g[0] \in [Bins -> Seq(Keys)] /\ \A b \in Bins : g[0][b] = <<>>
    BY <2>1
  <2>3. \A x : ~In(<<>>, x)
    BY DEF In
  <2>4. \A b, x : ~Upto(0, b, x)
    OBVIOUS
  <2> HIDE DEF Upto
  <2> QED
    BY <2>2, <2>3, <2>4
<1>7. ASSUME NEW k \in Nat, k + 1 \in 1 .. n, Good(k) PROVE Good(k + 1)
  <2> DEFINE m == k + 1
             x == key(m)
             c == at(x)
             r == g[k][c]
  <2>1. x \in Keys /\ c \in Bins
    BY <1>3, <1>4, <1>7
  <2>2. g[m] = [g[k] EXCEPT ![c] = Append(r, x)]
    <3>1. m \in 1 .. n /\ m - 1 = k
      BY <1>7
    <3> HIDE DEF m
    <3> QED
      BY <1>5, <3>1
  <2>3. g[k] \in [Bins -> Seq(Keys)] /\ r \in Seq(Keys)
    BY <1>7, <2>1
  <2>4. Append(r, x) \in Seq(Keys) /\ \A y : In(Append(r, x), y) <=> In(r, y) \/ x = y
    <3> HIDE DEF r, x
    <3> QED
      BY <2>1, <2>3, InAppend
  <2>5. \A i : i \in 1 .. m <=> i \in 1 .. k \/ i = m
    OBVIOUS
  <2>6. \A b, y : Upto(m, b, y) <=> Upto(k, b, y) \/ (x = y /\ at(y) = b)
    <3> HIDE DEF m
    <3> QED
      BY <2>5
  <2> HIDE DEF m, x, c, Upto
  <2>7. g[m] \in [Bins -> Seq(Keys)]
    BY <2>1, <2>2, <2>3, <2>4
  <2>8. ASSUME NEW b \in Bins, NEW y \in Keys
        PROVE  In(g[m][b], y) <=> Upto(m, b, y)
    <3>1. In(g[k][b], y) <=> Upto(k, b, y)
      BY <1>7
    <3>2. CASE b = c
      <4>1. g[m][b] = Append(r, x)
        BY <2>1, <2>2, <2>3, <3>2
      <4>2. In(g[m][b], y) <=> In(g[k][b], y) \/ x = y
        BY <2>4, <3>2, <4>1
      <4>3. x = y => at(y) = b
        BY <3>2 DEF c
      <4> QED
        BY <2>6, <3>1, <4>2, <4>3
    <3>3. CASE b # c
      <4>1. g[m][b] = g[k][b]
        BY <2>1, <2>2, <2>3, <3>3
      <4>2. x = y => at(y) # b
        BY <3>3 DEF c
      <4> QED
        BY <2>6, <3>1, <4>1, <4>2
    <3> QED
      BY <3>2, <3>3
  <2>9. Good(m)
    BY <2>7, <2>8
  <2> QED
    BY <2>9 DEF m
<1>8. N = Nat
  <2> HIDE DEF Good
  <2>1. N \in SUBSET Nat /\ 0 \in N
    BY <1>6
  <2>2. ASSUME NEW k \in N PROVE k + 1 \in N
    <3>1. k \in Nat /\ k + 1 \in Nat
      OBVIOUS
    <3>2. ASSUME k + 1 \in 0 .. n PROVE Good(k + 1)
      <4>1. k \in 0 .. n /\ k + 1 \in 1 .. n
        BY <1>1, <3>1, <3>2 DEF n
      <4>2. Good(k)
        BY <4>1
      <4> QED
        BY <1>7, <3>1, <4>1, <4>2
    <3> QED
      BY <3>1, <3>2
  <2> HIDE DEF N
  <2> QED
    BY <2>1, <2>2, NumbersBySteps
<1>9. Good(n)
  <2>1. n \in Nat /\ n \in 0 .. n
    BY <1>1 DEF n
  <2> HIDE DEF Good
  <2> QED
    BY <1>8, <2>1
<1>10. ASSUME NEW b \in Bins, NEW f \in Functions, NEW w \in Words
       PROVE  Upto(n, b, <<f, w>>) <=> lut[w][f] = b /\ \E i \in 1 .. Len(words) : words[i] = w
  <2>1. <<f, w>> \in Keys /\ at(<<f, w>>) = lut[w][f]
    BY DEF Keys, at
  <2>2. ASSUME NEW k \in 1 .. n, key(k) = <<f, w>>
        PROVE  \E i \in 1 .. Len(words) : words[i] = w
    <3>1. key(k)[2] = w
      BY <2>2
    <3> QED
      BY <1>3, <3>1
  <2>3. ASSUME NEW i \in 1 .. Len(words), words[i] = w
        PROVE  \E k \in 1 .. n : key(k) = <<f, w>>
    BY <1>3, <2>3
  <2> QED
    BY <2>1, <2>2, <2>3
<1>11. \A b \in Bins, f \in Functions, w \in Words :
         In(g[n][b], <<f, w>>) <=> Upto(n, b, <<f, w>>)
  <2>1. \A f \in Functions, w \in Words : <<f, w>> \in Keys
    BY DEF Keys
  <2> HIDE DEF Upto
  <2> QED
    BY <1>9, <2>1
<1> HIDE DEF Upto
<1> QED
  BY <1>2, <1>9, <1>10, <1>11

\* What the sender sends pairs the keys of its words with their bins, and nothing else.
LEMMA PairsAreKeys ==
    ASSUME lut \in [Words \cup Pads -> [Functions -> Bins]], setY \in SUBSET Words,
           sbins = NumBins, simple = SimpleTable(SetToSeq(setY), NumBins)
    PROVE  \A p : p \in Pairs
                 <=> \E f \in Functions, w \in setY : p = [key |-> <<f, w>>, bin |-> lut[w][f]]
<1> DEFINE words == SetToSeq(setY)
           row(i) == simple[i - 1]
           a == [i \in 1 .. sbins |-> row(i)]
           b == [i \in 1 .. sbins |-> [j \in DOMAIN row(i) |-> i - 1]]
<1>1. /\ words \in Seq(setY)
      /\ \A w \in setY : \E i \in 1 .. Len(words) : words[i] = w
      /\ \A i \in 1 .. Len(words) : words[i] \in setY
  <2>1. IsFiniteSet(setY)
    BY WordsAssumption, FS_Subset
  <2> QED
    BY <2>1, SetToSeqLists
<1>2. words \in Seq(Words)
  <2>1. Seq(setY) \subseteq Seq(Words)
    OBVIOUS
  <2> HIDE DEF words
  <2> QED
    BY <1>1, <2>1
<1>3. /\ simple \in [Bins -> Seq(Keys)]
      /\ \A c \in Bins, f \in Functions, w \in Words :
           In(simple[c], <<f, w>>) <=> lut[w][f] = c /\ \E i \in 1 .. Len(words) : words[i] = w
  <2> HIDE DEF words
  <2> QED
    BY <1>2, RowsHoldKeys DEF words
<1>4. sbins \in Nat /\ sbins # 0 /\ Bins = 0 .. sbins - 1
  BY BinsFinite
<1>5. \A i \in 1 .. sbins : i - 1 \in Bins
  BY <1>4
<1> HIDE DEF words
<1>6. \A i \in 1 .. sbins : /\ row(i) \in Seq(Keys) /\ DOMAIN row(i) = 1 .. Len(row(i))
                            /\ Len(row(i)) \in Nat /\ i - 1 \in Int
  BY <1>3, <1>4, <1>5
<1>7. /\ a \in Seq(Seq(Keys)) /\ Len(a) = sbins
      /\ \A i \in 1 .. sbins : a[i] = row(i)
  <2> HIDE DEF row
  <2> QED
    BY <1>4, <1>6
<1>8. /\ b \in Seq(Seq(Int)) /\ Len(b) = sbins
      /\ \A i \in 1 .. sbins : /\ Len(b[i]) = Len(row(i))
                               /\ \A j \in 1 .. Len(row(i)) : b[i][j] = i - 1
  <2> DEFINE c(i) == [j \in DOMAIN row(i) |-> i - 1]
  <2>1. \A i \in 1 .. sbins : /\ c(i) \in Seq(Int) /\ Len(c(i)) = Len(row(i))
                              /\ \A j \in 1 .. Len(row(i)) : c(i)[j] = i - 1
    <3> HIDE DEF row
    <3> QED
      BY <1>6
  <2>2. b = [i \in 1 .. sbins |-> c(i)]
    OBVIOUS
  <2> HIDE DEF c, row, b
  <2> QED
    BY <1>4, <2>1, <2>2
<1> DEFINE keys == FlattenSeq(a)
           blocks == FlattenSeq(b)
<1>9. /\ keys \in Seq(Keys) /\ blocks \in Seq(Int) /\ Len(keys) = Len(blocks)
      /\ \A u, v : Pair(keys, blocks, u, v) <=> \E i \in 1 .. sbins : Pair(a[i], b[i], u, v)
  <2>1. Len(a) # 0 /\ Len(a) = Len(b) /\ \A i \in 1 .. Len(a) : Len(a[i]) = Len(b[i])
    <3> HIDE DEF a, b, row
    <3> QED
      BY <1>4, <1>7, <1>8
  <2> HIDE DEF a, b
  <2>2. /\ FlattenSeq(a) \in Seq(Keys) /\ FlattenSeq(b) \in Seq(Int)
        /\ Len(FlattenSeq(a)) = Len(FlattenSeq(b))
        /\ \A u, v : Pair(FlattenSeq(a), FlattenSeq(b), u, v)
                      <=> \E i \in 1 .. Len(a) : Pair(a[i], b[i], u, v)
    <3>1. a \in Seq(Seq(Keys)) /\ b \in Seq(Seq(Int))
      BY <1>7, <1>8
    <3> QED
      BY <2>1, <3>1, FlatSideBySide
  <2> QED
    BY <1>7, <2>2, Zenon
<1>10. Pairs = {[key |-> keys[tmp], bin |-> blocks[tmp]] : tmp \in 1 .. Len(keys)}
  <2>1. DOMAIN keys = 1 .. Len(keys)
    <3> HIDE DEF keys
    <3> QED
      BY <1>9
  <2>2. Pairs = {[key |-> keys[tmp], bin |-> blocks[tmp]] : tmp \in DOMAIN keys}
    BY Zenon DEF Pairs
  <2> HIDE DEF keys, blocks
  <2> QED
    BY <2>1, <2>2
<1>11. \A u, v : (\E i \in 1 .. sbins : Pair(a[i], b[i], u, v))
                 <=> v \in Bins /\ In(simple[v], u)
  <2>1. \A i \in 1 .. sbins : \A u, v :
          Pair(a[i], b[i], u, v) <=> v = i - 1 /\ In(simple[i - 1], u)
    <3> SUFFICES ASSUME NEW i \in 1 .. sbins, NEW u, NEW v
                 PROVE  Pair(a[i], b[i], u, v) <=> v = i - 1 /\ In(row(i), u)
      OBVIOUS
    <3>1. a[i] = row(i) /\ \A j \in 1 .. Len(row(i)) : b[i][j] = i - 1
      BY <1>7, <1>8
    <3> HIDE DEF a, b, row
    <3> QED
      BY <3>1, Zenon DEF Pair, In
  <2>2. \A v \in Bins : v + 1 \in 1 .. sbins /\ (v + 1) - 1 = v
    BY <1>4
  <2> HIDE DEF a, b
  <2> QED
    BY <1>5, <2>1, <2>2
<1> HIDE DEF keys, blocks
<1>12. \A p : p \in Pairs <=> \E u, v : p = [key |-> u, bin |-> v] /\ Pair(keys, blocks, u, v)
  BY <1>10, Zenon DEF Pair
<1>13. \A p : p \in Pairs
              <=> \E u, v : p = [key |-> u, bin |-> v] /\ v \in Bins /\ In(simple[v], u)
  BY <1>9, <1>11, <1>12, Zenon
<1>14. \A u, v : v \in Bins /\ In(simple[v], u)
                 <=> \E f \in Functions, w \in setY : u = <<f, w>> /\ v = lut[w][f]
  <2> SUFFICES ASSUME NEW u, NEW v
               PROVE  v \in Bins /\ In(simple[v], u)
                      <=> \E f \in Functions, w \in setY : u = <<f, w>> /\ v = lut[w][f]
    OBVIOUS
  <2>1. ASSUME v \in Bins, In(simple[v], u)
        PROVE  \E f \in Functions, w \in setY : u = <<f, w>> /\ v = lut[w][f]
    <3>1. u \in Keys
      <4>1. simple[v] \in Seq(Keys)
        BY <1>3, <2>1
      <4> QED
        BY <2>1, <4>1 DEF In
    <3>2. PICK f \in Functions, w \in Words : u = <<f, w>>
      BY <3>1 DEF Keys
    <3>3. lut[w][f] = v /\ \E i \in 1 .. Len(words) : words[i] = w
      BY <1>3, <2>1, <3>2
    <3> QED
      BY <1>1, <3>2, <3>3
  <2>2. ASSUME NEW f \in Functions, NEW w \in setY, u = <<f, w>>, v = lut[w][f]
        PROVE  v \in Bins /\ In(simple[v], u)
    <3>1. v \in Bins
      BY <2>2
    <3> QED
      BY <1>1, <1>3, <2>2, <3>1
  <2> QED
    BY <2>1, <2>2
<1>15. ASSUME NEW p
       PROVE  (\E u, v : p = [key |-> u, bin |-> v] /\ v \in Bins /\ In(simple[v], u))
              <=> \E f \in Functions, w \in setY : p = [key |-> <<f, w>>, bin |-> lut[w][f]]
  <2>1. ASSUME NEW u, NEW v, p = [key |-> u, bin |-> v], v \in Bins, In(simple[v], u)
        PROVE  \E f \in Functions, w \in setY : p = [key |-> <<f, w>>, bin |-> lut[w][f]]
    <3>1. PICK f \in Functions, w \in setY : u = <<f, w>> /\ v = lut[w][f]
      BY <1>14, <2>1
    <3> QED
      BY <2>1, <3>1
  <2>2. ASSUME NEW f \in Functions, NEW w \in setY, p = [key |-> <<f, w>>, bin |-> lut[w][f]]
        PROVE  \E u, v : p = [key |-> u, bin |-> v] /\ v \in Bins /\ In(simple[v], u)
    <3>1. lut[w][f] \in Bins /\ In(simple[lut[w][f]], <<f, w>>)
      BY <1>14
    <3> QED
      BY <2>2, <3>1
  <2> QED
    BY <2>1, <2>2
<1> QED
  BY <1>13, <1>15

-----------------------------------------------------------------------------
(* The invariant                                                           *)

InputsTyped ==
    /\ setX \in SUBSET Words /\ setX # {} /\ Cardinality(setX) <= Capacity
    /\ setY \in SUBSET Words
    /\ lut \in [Words \cup Pads -> [Functions -> Bins]]

\* Where one party can be while the other is where it is.
Together ==
    \/ rpc = "nbins" /\ spc = "nbins"
    \/ rpc \in {"map", "oprf"} /\ spc \in {"nbins", "seed"}
    \/ rpc = "okvs size" /\ spc \in {"nbins", "seed", "vector", "equality"}
    \/ rpc \in {"okvs", "equality"} /\ spc = "equality"
    \/ rpc = "ot" /\ spc = "ot"
    \/ rpc = "sum" /\ spc \in {"sum", "done"}
    \/ rpc = "done" /\ spc = "done"

\* The messages.
BinsMessage   == [kind |-> "nbins", body |-> NumBins]
SeedMessage   == [kind |-> "seed", body |-> 0]
VectorMessage == [kind |-> "vector", body |-> {KeyIn(b) : b \in Active}]
SizeMessage   == [kind |-> "size", body |-> 0]
OkvsMessage   == [kind |-> "okvs", body |-> Pairs]
SumMessage    == [kind |-> "sum", body |-> Sum(sOt)]

\* What is on the streams.
StreamsAsExpected ==
    /\ ~misread
    /\ io = IF spc = "nbins" /\ rpc \in {"map", "oprf"} THEN <<BinsMessage>>
            ELSE IF spc = "nbins" /\ rpc = "okvs size"
                 THEN <<BinsMessage, SeedMessage, VectorMessage>>
            ELSE IF spc = "seed" /\ rpc = "okvs size" THEN <<SeedMessage, VectorMessage>>
            ELSE IF spc = "vector" THEN <<VectorMessage>>
            ELSE <<>>
    /\ io2 = IF spc = "equality" /\ rpc = "okvs size" THEN <<SizeMessage, OkvsMessage>>
             ELSE IF rpc = "okvs" THEN <<OkvsMessage>>
             ELSE IF spc = "done" /\ rpc = "sum" THEN <<SumMessage>>
             ELSE <<>>

\* What each party has built.
SenderTable ==
    spc # "nbins" => sbins = NumBins /\ simple = SimpleTable(SetToSeq(setY), NumBins)

\* The receiver's words are listed once each: its set, and random ones.
ListsWords(es) ==
    /\ es \in Seq(Words \cup Pads)
    /\ \A i, j \in DOMAIN es : es[i] = es[j] => i = j
    /\ \A i \in DOMAIN es : es[i] \in setX \cup Pads
    /\ \A w \in setX : \E i \in DOMAIN es : es[i] = w

ReceiverTable ==
    IF rpc \in {"nbins", "map"} THEN placement = Empty
    ELSE ListsWords(elements) /\ placement \in HP!Placements(elements, lut)

OpenedAsSent ==
    rpc \in {"equality", "ot", "sum", "done"} =>
      opened = [b \in Bins |-> IF b \in Active THEN Open(Pairs, b) ELSE Empty]

SharesTyped ==
    rpc \in {"ot", "sum", "done"} => rAns \in [Bins -> {0, 1}] /\ sAns \in [Bins -> {0, 1}]

ResultIsDifference ==
    /\ rpc # "done" => result = Empty
    /\ rpc = "done" => result = (Sum(sOt) - rSum) % Modulus

IInv ==
    /\ InputsTyped /\ Together /\ StreamsAsExpected
    /\ SenderTable /\ ReceiverTable /\ OpenedAsSent
    /\ SharesTyped /\ SharesMarkCommon /\ EachBinCountsItsMatch /\ ResultIsDifference

LEMMA InitIInv == Init => IInv
<1> SUFFICES ASSUME Init PROVE IInv
  OBVIOUS
<1> USE DEF Init
<1>1. InputsTyped
  BY DEF InputsTyped
<1>2. Together /\ StreamsAsExpected
  BY DEF Together, StreamsAsExpected
<1>3. SenderTable /\ ReceiverTable
  BY DEF SenderTable, ReceiverTable
<1>4. OpenedAsSent /\ SharesTyped /\ ResultIsDifference
  BY DEF OpenedAsSent, SharesTyped, ResultIsDifference
<1>5. SharesMarkCommon /\ EachBinCountsItsMatch
  BY DEF SharesMarkCommon, EachBinCountsItsMatch
<1> QED
  BY <1>1, <1>2, <1>3, <1>4, <1>5 DEF IInv

\* The steps, with those of the two parties one by one.
LEMMA Steps ==
    [Next]_vars =>
      \/ R_SendBins \/ R_Map \/ R_Oprf \/ R_ReceiveOkvsSize \/ R_ReceiveOkvs \/ R_ReceiveSum
      \/ S_ReceiveBins \/ S_ReceiveSeed \/ S_SendOkvs \/ S_SendSum
      \/ Equality \/ Transfer \/ UNCHANGED vars
BY DEF Next, Receiver, Sender

-----------------------------------------------------------------------------
(* The streams                                                             *)

\* The first message of a stream, and what it leaves.
LEMMA FirstOfOne ==
    ASSUME NEW a
    PROVE  Head(<<a>>) = a /\ Tail(<<a>>) = <<>> /\ <<a>> # <<>> /\ Append(<<>>, a) = <<a>>
<1>1. <<a>> \in Seq({a}) /\ <<>> \in Seq({a})
  OBVIOUS
<1> QED
  BY <1>1

LEMMA FirstOfTwo ==
    ASSUME NEW a, NEW b
    PROVE  /\ Head(<<a, b>>) = a /\ Tail(<<a, b>>) = <<b>> /\ <<a, b>> # <<>>
           /\ <<>> \o <<a, b>> = <<a, b>>
<1>1. <<a, b>> \in Seq({a, b}) /\ <<b>> \in Seq({a, b}) /\ <<>> \in Seq({a, b})
  OBVIOUS
<1>2. Head(<<a, b>>) = a /\ Tail(<<a, b>>) = <<b>> /\ <<a, b>> # <<>>
  BY <1>1
<1>3. <<>> \o <<a, b>> = <<a, b>>
  BY <1>1
<1> QED
  BY <1>2, <1>3

LEMMA FirstOfThree ==
    ASSUME NEW a, NEW b, NEW c
    PROVE  /\ Head(<<a, b, c>>) = a /\ Tail(<<a, b, c>>) = <<b, c>> /\ <<a, b, c>> # <<>>
           /\ <<a>> \o <<b, c>> = <<a, b, c>>
<1> DEFINE S == {a, b, c}
           s == <<a>> \o <<b, c>>
           t == <<a, b, c>>
<1>1. <<a>> \in Seq(S) /\ <<b, c>> \in Seq(S) /\ t \in Seq(S)
  OBVIOUS
<1>2. Head(t) = a /\ t # <<>>
  BY <1>1
<1>3. Tail(t) = <<b, c>>
  BY <1>1
<1>4. s \in Seq(S) /\ Len(s) = 3 /\ s[1] = a /\ s[2] = b /\ s[3] = c
  BY <1>1
<1>5. t \in Seq(S) /\ Len(t) = 3 /\ t[1] = a /\ t[2] = b /\ t[3] = c
  BY <1>1
<1> HIDE DEF s, t
<1>6. \A i \in 1 .. 3 : i = 1 \/ i = 2 \/ i = 3
  OBVIOUS
<1>7. s = [i \in 1 .. 3 |-> s[i]] /\ t = [i \in 1 .. 3 |-> t[i]]
  BY <1>4, <1>5
<1>8. \A i \in 1 .. 3 : s[i] = t[i]
  BY <1>4, <1>5, <1>6
<1>9. s = t
  BY <1>7, <1>8
<1> QED
  BY <1>2, <1>3, <1>9 DEF s, t

\* Two messages are sent behind another, or behind none.
LEMMA TwoBehind ==
    ASSUME NEW a, NEW b, NEW d
    PROVE  <<a>> \o <<b, d>> = <<a, b, d>> /\ <<>> \o <<b, d>> = <<b, d>>
<1>1. <<a>> \o <<b, d>> = <<a, b, d>>
  BY FirstOfThree
<1>2. <<>> \o <<b, d>> = <<b, d>>
  BY FirstOfTwo
<1> QED
  BY <1>1, <1>2

\* The messages stay what they are while what they are made of does.
LEMMA MessagesStay ==
    /\ UNCHANGED <<placement, elements>> => VectorMessage' = VectorMessage
    /\ UNCHANGED <<simple, sbins>> => OkvsMessage' = OkvsMessage
    /\ UNCHANGED sOt => SumMessage' = SumMessage
<1>1. ASSUME UNCHANGED <<placement, elements>> PROVE VectorMessage' = VectorMessage
  BY <1>1 DEF VectorMessage, KeyIn, WordIn, Active
<1>2. ASSUME UNCHANGED <<simple, sbins>> PROVE OkvsMessage' = OkvsMessage
  BY <1>2, Zenon DEF OkvsMessage, Pairs
<1>3. ASSUME UNCHANGED sOt PROVE SumMessage' = SumMessage
  <2>1. Sum(sOt) = SumOver(sOt, DOMAIN sOt) % Modulus
    BY Zenon DEF Sum, SumOver
  <2>2. Sum(sOt') = SumOver(sOt', DOMAIN sOt') % Modulus
    BY Zenon DEF Sum, SumOver
  <2>3. SumMessage = [kind |-> "sum", body |-> Sum(sOt)]
    BY Zenon DEF SumMessage
  <2>4. SumMessage' = [kind |-> "sum", body |-> Sum(sOt')]
    BY Zenon DEF SumMessage
  <2> QED
    BY <1>3, <2>1, <2>2, <2>3, <2>4
<1> QED
  BY <1>1, <1>2, <1>3

LEMMA StepStreams ==
    ASSUME Together, StreamsAsExpected, [Next]_vars
    PROVE  Together' /\ StreamsAsExpected'
<1> USE DEF Together, StreamsAsExpected, Read, inputs, streams, receiver, sender
<1>1. CASE R_SendBins
  <2>1. /\ rpc = "nbins" /\ rpc' = "map" /\ spc = "nbins" /\ spc' = "nbins"
        /\ io = <<>> /\ io2 = <<>> /\ io2' = io2 /\ ~misread'
        /\ io' = Append(io, BinsMessage)
    BY <1>1 DEF R_SendBins, BinsMessage, NumBins
  <2>2. io' = <<BinsMessage>>
    BY <2>1, FirstOfOne
  <2> QED
    BY <2>1, <2>2 DEF BinsMessage
<1>2. CASE R_Map
  <2>1. /\ rpc = "map" /\ rpc' = "oprf" /\ spc \in {"nbins", "seed"} /\ spc' = spc
        /\ io' = io /\ io2' = io2 /\ ~misread' /\ io2 = <<>>
        /\ io = IF spc = "nbins" THEN <<BinsMessage>> ELSE <<>>
    BY <1>2 DEF R_Map
  <2> QED
    BY <2>1 DEF BinsMessage
<1>3. CASE R_Oprf
  <2>1. /\ rpc = "oprf" /\ rpc' = "okvs size" /\ spc \in {"nbins", "seed"} /\ spc' = spc
        /\ io2' = io2 /\ ~misread' /\ io2 = <<>>
        /\ io = IF spc = "nbins" THEN <<BinsMessage>> ELSE <<>>
        /\ io' = io \o <<SeedMessage, VectorMessage>>
        /\ VectorMessage' = VectorMessage
    BY <1>3, MessagesStay DEF R_Oprf, SeedMessage, VectorMessage
  <2>2. io' = IF spc = "nbins" THEN <<BinsMessage, SeedMessage, VectorMessage>>
              ELSE <<SeedMessage, VectorMessage>>
    <3>1. /\ <<BinsMessage>> \o <<SeedMessage, VectorMessage>>
                = <<BinsMessage, SeedMessage, VectorMessage>>
          /\ <<>> \o <<SeedMessage, VectorMessage>> = <<SeedMessage, VectorMessage>>
      BY TwoBehind
    <3> QED
      BY <2>1, <3>1, Zenon
  <2> QED
    BY <2>1, <2>2 DEF BinsMessage, SeedMessage
<1>4. CASE R_ReceiveOkvsSize
  <2>1. /\ rpc = "okvs size" /\ rpc' = "okvs" /\ spc' = spc /\ io2 # <<>>
        /\ io' = io /\ io2' = Tail(io2)
        /\ ~misread /\ (misread' <=> (misread \/ Head(io2).kind # "size"))
        /\ OkvsMessage' = OkvsMessage
    BY <1>4, MessagesStay DEF R_ReceiveOkvsSize
  <2>2. spc = "equality" /\ io = <<>> /\ io2 = <<SizeMessage, OkvsMessage>>
    BY <2>1
  <2>3. Head(io2) = SizeMessage /\ Tail(io2) = <<OkvsMessage>>
    BY <2>2, FirstOfTwo
  <2>4. io2' = <<OkvsMessage>> /\ ~misread'
    <3> HIDE DEF Together, StreamsAsExpected
    <3>1. Head(io2).kind = "size"
      BY <2>3 DEF SizeMessage
    <3> QED
      BY <2>1, <2>3, <3>1
  <2> QED
    BY <2>1, <2>2, <2>4
<1>5. CASE R_ReceiveOkvs
  <2>1. /\ rpc = "okvs" /\ rpc' = "equality" /\ spc' = spc
        /\ io' = io /\ io2' = Tail(io2)
        /\ ~misread /\ (misread' <=> (misread \/ Head(io2).kind # "okvs"))
    BY <1>5 DEF R_ReceiveOkvs
  <2>2. spc = "equality" /\ io = <<>> /\ io2 = <<OkvsMessage>>
    BY <2>1
  <2>3. Head(io2) = OkvsMessage /\ Tail(io2) = <<>>
    BY <2>2, FirstOfOne
  <2>4. io2' = <<>> /\ ~misread'
    <3> HIDE DEF Together, StreamsAsExpected
    <3>1. Head(io2).kind = "okvs"
      BY <2>3 DEF OkvsMessage
    <3> QED
      BY <2>1, <2>3, <3>1
  <2> QED
    BY <2>1, <2>2, <2>4
<1>6. CASE R_ReceiveSum
  <2>1. /\ rpc = "sum" /\ rpc' = "done" /\ spc' = spc /\ io2 # <<>>
        /\ io' = io /\ io2' = Tail(io2)
        /\ ~misread /\ (misread' <=> (misread \/ Head(io2).kind # "sum"))
    BY <1>6 DEF R_ReceiveSum
  <2>2. spc = "done" /\ io = <<>> /\ io2 = <<SumMessage>>
    BY <2>1
  <2>3. Head(io2) = SumMessage /\ Tail(io2) = <<>>
    BY <2>2, FirstOfOne
  <2>4. io2' = <<>> /\ ~misread'
    <3> HIDE DEF Together, StreamsAsExpected
    <3>1. Head(io2).kind = "sum"
      BY <2>3 DEF SumMessage
    <3> QED
      BY <2>1, <2>3, <3>1
  <2> QED
    BY <2>1, <2>2, <2>4
<1>7. CASE S_ReceiveBins
  <2>1. /\ spc = "nbins" /\ spc' = "seed" /\ rpc' = rpc /\ io # <<>>
        /\ io' = Tail(io) /\ io2' = io2
        /\ ~misread /\ (misread' <=> (misread \/ Head(io).kind # "nbins"))
        /\ VectorMessage' = VectorMessage
    BY <1>7, MessagesStay DEF S_ReceiveBins
  <2>2. CASE rpc \in {"map", "oprf"}
    <3>1. io = <<BinsMessage>> /\ io2 = <<>>
      BY <2>1, <2>2
    <3>2. Head(io) = BinsMessage /\ Tail(io) = <<>>
      BY <3>1, FirstOfOne
    <3>3. io' = <<>> /\ ~misread'
      <4> HIDE DEF Together, StreamsAsExpected
      <4>1. Head(io).kind = "nbins"
        BY <3>2 DEF BinsMessage
      <4> QED
        BY <2>1, <3>2, <4>1
    <3> QED
      BY <2>1, <2>2, <3>1, <3>3
  <2>3. CASE rpc = "okvs size"
    <3>1. io = <<BinsMessage, SeedMessage, VectorMessage>> /\ io2 = <<>>
      BY <2>1, <2>3
    <3>2. Head(io) = BinsMessage /\ Tail(io) = <<SeedMessage, VectorMessage>>
      <4> HIDE DEF Together, StreamsAsExpected
      <4>1. LET s == <<BinsMessage, SeedMessage, VectorMessage>>
            IN  Head(s) = BinsMessage /\ Tail(s) = <<SeedMessage, VectorMessage>>
        BY FirstOfThree, Zenon
      <4> QED
        BY <3>1, <4>1, Zenon
    <3>3. io' = <<SeedMessage, VectorMessage>> /\ ~misread'
      <4> HIDE DEF Together, StreamsAsExpected
      <4>1. Head(io).kind = "nbins"
        BY <3>2 DEF BinsMessage
      <4> QED
        BY <2>1, <3>2, <4>1
    <3> QED
      BY <2>1, <2>3, <3>1, <3>3 DEF SeedMessage
  <2> QED
    BY <2>1, <2>2, <2>3
<1>8. CASE S_ReceiveSeed
  <2>1. /\ spc = "seed" /\ spc' = "vector" /\ rpc' = rpc /\ io # <<>>
        /\ io' = Tail(io) /\ io2' = io2
        /\ ~misread /\ (misread' <=> (misread \/ Head(io).kind # "seed"))
        /\ VectorMessage' = VectorMessage
    BY <1>8, MessagesStay DEF S_ReceiveSeed
  <2>2. rpc = "okvs size" /\ io = <<SeedMessage, VectorMessage>> /\ io2 = <<>>
    BY <2>1
  <2>3. Head(io) = SeedMessage /\ Tail(io) = <<VectorMessage>>
    BY <2>2, FirstOfTwo
  <2>4. io' = <<VectorMessage>> /\ ~misread'
    <3> HIDE DEF Together, StreamsAsExpected
    <3>1. Head(io).kind = "seed"
      BY <2>3 DEF SeedMessage
    <3> QED
      BY <2>1, <2>3, <3>1
  <2> QED
    BY <2>1, <2>2, <2>4
<1>9. CASE S_SendOkvs
  <2>1. /\ spc = "vector" /\ spc' = "equality" /\ rpc' = rpc /\ io # <<>>
        /\ io' = Tail(io) /\ io2' = io2 \o <<SizeMessage, OkvsMessage>>
        /\ ~misread /\ (misread' <=> (misread \/ Head(io).kind # "vector"))
        /\ OkvsMessage' = OkvsMessage
    BY <1>9, MessagesStay DEF S_SendOkvs, SizeMessage, OkvsMessage
  <2>2. rpc = "okvs size" /\ io = <<VectorMessage>> /\ io2 = <<>>
    BY <2>1
  <2>3. /\ Head(io) = VectorMessage /\ Tail(io) = <<>>
        /\ io2 \o <<SizeMessage, OkvsMessage>> = <<SizeMessage, OkvsMessage>>
    BY <2>2, FirstOfOne, FirstOfTwo
  <2>4. io' = <<>> /\ ~misread' /\ io2' = <<SizeMessage, OkvsMessage>>
    <3> HIDE DEF Together, StreamsAsExpected
    <3>1. Head(io).kind = "vector"
      BY <2>3 DEF VectorMessage
    <3> QED
      BY <2>1, <2>3, <3>1
  <2> QED
    BY <2>1, <2>2, <2>4 DEF SizeMessage
<1>10. CASE S_SendSum
  <2>1. /\ spc = "sum" /\ spc' = "done" /\ rpc' = rpc /\ io' = io
        /\ io2' = Append(io2, SumMessage) /\ ~misread'
        /\ SumMessage' = SumMessage
    BY <1>10, MessagesStay DEF S_SendSum, SumMessage
  <2>2. rpc = "sum" /\ io = <<>> /\ io2 = <<>>
    BY <2>1
  <2>3. io2' = <<SumMessage>>
    BY <2>1, <2>2, FirstOfOne
  <2> QED
    BY <2>1, <2>2, <2>3
<1>11. CASE Equality
  BY <1>11 DEF Equality
<1>12. CASE Transfer
  BY <1>12 DEF Transfer
<1>13. CASE UNCHANGED vars
  <2>1. /\ rpc' = rpc /\ spc' = spc /\ io' = io /\ io2' = io2 /\ misread' = misread
        /\ VectorMessage' = VectorMessage /\ OkvsMessage' = OkvsMessage
        /\ SumMessage' = SumMessage
    BY <1>13, MessagesStay DEF vars
  <2> QED
    BY <2>1 DEF BinsMessage, SeedMessage, SizeMessage
<1> QED
  BY <1>1, <1>2, <1>3, <1>4, <1>5, <1>6, <1>7, <1>8, <1>9, <1>10, <1>11, <1>12, <1>13, Steps

-----------------------------------------------------------------------------
(* The tables and what is opened                                           *)

\* One list behind another, each without repetition, of sets with nothing in common.
LEMMA ListsJoined ==
    ASSUME NEW A, NEW B, A \cap B = {}, NEW p \in Seq(A), NEW q \in Seq(B),
           \A i, j \in 1 .. Len(p) : p[i] = p[j] => i = j,
           \A i, j \in 1 .. Len(q) : q[i] = q[j] => i = j
    PROVE  /\ p \o q \in Seq(A \cup B)
           /\ \A i, j \in DOMAIN (p \o q) : (p \o q)[i] = (p \o q)[j] => i = j
           /\ \A i \in 1 .. Len(p) : i \in DOMAIN (p \o q) /\ (p \o q)[i] = p[i]
<1> DEFINE s == p \o q
           l == Len(p)
           n == Len(q)
<1>1. l \in Nat /\ n \in Nat /\ s \in Seq(A \cup B) /\ DOMAIN s = 1 .. l + n
  <2>1. p \in Seq(A \cup B) /\ q \in Seq(A \cup B)
    OBVIOUS
  <2> QED
    BY <2>1
<1>2. \A i \in 1 .. l : s[i] = p[i] /\ p[i] \in A
  OBVIOUS
<1>3. \A i \in 1 .. l + n : i > l => i - l \in 1 .. n /\ s[i] = q[i - l]
  OBVIOUS
<1>4. \A i \in 1 .. n : q[i] \in B
  OBVIOUS
<1> HIDE DEF s, l, n
<1>5. ASSUME NEW i \in 1 .. l + n, NEW j \in 1 .. l + n, s[i] = s[j]
      PROVE  i = j
  <2>1. CASE i \in 1 .. l /\ j \in 1 .. l
    <3>1. p[i] = p[j]
      BY <1>2, <1>5, <2>1
    <3> QED
      BY <2>1, <3>1 DEF l
  <2>2. CASE i > l /\ j > l
    <3>1. q[i - l] = q[j - l] /\ i - l \in 1 .. n /\ j - l \in 1 .. n
      BY <1>3, <1>5, <2>2
    <3>2. i - l = j - l
      <4>1. \A x, y \in 1 .. n : q[x] = q[y] => x = y
        BY DEF n
      <4> QED
        BY <3>1, <4>1
    <3> QED
      BY <1>1, <3>2
  <2>3. CASE i \in 1 .. l /\ j > l
    <3>1. s[i] \in A /\ s[j] \in B
      BY <1>2, <1>3, <1>4, <2>3
    <3> QED
      BY <1>5, <3>1
  <2>4. CASE i > l /\ j \in 1 .. l
    <3>1. s[i] \in B /\ s[j] \in A
      BY <1>2, <1>3, <1>4, <2>4
    <3> QED
      BY <1>5, <3>1
  <2> QED
    BY <1>1, <2>1, <2>2, <2>3, <2>4
<1>6. \A i \in 1 .. l : i \in 1 .. l + n
  BY <1>1
<1>7. /\ s \in Seq(A \cup B) /\ \A i, j \in DOMAIN s : s[i] = s[j] => i = j
      /\ \A i \in 1 .. l : i \in DOMAIN s /\ s[i] = p[i]
  BY <1>1, <1>2, <1>5, <1>6
<1> QED
  BY <1>7 DEF s, l

\* What the receiver inserts.
LEMMA ElementsListed ==
    ASSUME InputsTyped
    PROVE  ListsWords(SetToSeq(setX) \o
                      SubSeq(SetToSeq(Pads), 1, Capacity - Cardinality(setX)))
<1> DEFINE p == SetToSeq(setX)
           P == SetToSeq(Pads)
           k == Capacity - Cardinality(setX)
           q == SubSeq(P, 1, k)
<1>1. IsFiniteSet(setX) /\ setX \cap Pads = {} /\ setX \in SUBSET Words
  BY WordsAssumption, FS_Subset DEF InputsTyped
<1>2. /\ p \in Seq(setX) /\ Len(p) = Cardinality(setX)
      /\ \A i, j \in 1 .. Len(p) : p[i] = p[j] => i = j
      /\ \A x \in setX : \E i \in 1 .. Len(p) : p[i] = x
      /\ Cardinality(setX) \in Nat
  <2> HIDE DEF p
  <2> QED
    BY <1>1, SetToSeqLists DEF p
<1>3. /\ P \in Seq(Pads) /\ Len(P) = Cardinality(Pads)
      /\ \A i, j \in 1 .. Len(P) : P[i] = P[j] => i = j
      /\ Cardinality(Pads) \in Nat
  <2>1. IsFiniteSet(Pads)
    BY WordsAssumption
  <2> HIDE DEF P
  <2> QED
    BY <2>1, SetToSeqLists DEF P
<1>4. k \in 0 .. Len(P)
  <2>1. Cardinality(setX) # 0
    BY <1>1, FS_EmptySet DEF InputsTyped
  <2>2. /\ Cardinality(setX) <= Capacity /\ Capacity \in Nat
        /\ Cardinality(Pads) >= Capacity - 1
    BY WordsAssumption, SizesAssumption DEF InputsTyped
  <2> HIDE DEF P
  <2> QED
    BY <1>2, <1>3, <2>1, <2>2
<1> HIDE DEF p, P, k
<1>5. /\ q \in Seq(Pads) /\ \A i, j \in 1 .. Len(q) : q[i] = q[j] => i = j
  <2>1. q \in Seq(Pads) /\ Len(q) = k /\ \A i \in 1 .. k : q[i] = P[i]
    BY <1>3, <1>4
  <2>2. \A i \in 1 .. k : i \in 1 .. Len(P)
    BY <1>4
  <2> HIDE DEF q
  <2>3. ASSUME NEW i \in 1 .. Len(q), NEW j \in 1 .. Len(q), q[i] = q[j] PROVE i = j
    <3>1. i \in 1 .. k /\ j \in 1 .. k
      BY <2>1, <2>3
    <3>2. i \in 1 .. Len(P) /\ j \in 1 .. Len(P) /\ P[i] = P[j]
      BY <2>1, <2>2, <2>3, <3>1, Zenon
    <3> QED
      BY <1>3, <3>2, Zenon
  <2> QED
    BY <2>1, <2>3
<1> HIDE DEF q
<1>6. /\ p \o q \in Seq(setX \cup Pads)
      /\ \A i, j \in DOMAIN (p \o q) : (p \o q)[i] = (p \o q)[j] => i = j
      /\ \A i \in 1 .. Len(p) : i \in DOMAIN (p \o q) /\ (p \o q)[i] = p[i]
  BY <1>1, <1>2, <1>5, ListsJoined, SMTT(30)
<1> DEFINE s == p \o q
<1>7. /\ s \in Seq(setX \cup Pads)
      /\ \A i, j \in DOMAIN s : s[i] = s[j] => i = j
      /\ \A i \in 1 .. Len(p) : i \in DOMAIN s /\ s[i] = p[i]
  BY <1>6
<1> HIDE DEF s
<1>8. s \in Seq(Words \cup Pads) /\ \A i \in DOMAIN s : s[i] \in setX \cup Pads
  <2>1. setX \cup Pads \subseteq Words \cup Pads
    BY <1>1
  <2>2. Seq(setX \cup Pads) \subseteq Seq(Words \cup Pads)
    BY <2>1
  <2>3. s \in Seq(setX \cup Pads)
    BY <1>7
  <2>4. \A i \in DOMAIN s : s[i] \in setX \cup Pads
    BY <2>3
  <2>5. s \in Seq(Words \cup Pads)
    BY <2>2, <2>3, Zenon
  <2> QED
    BY <2>4, <2>5
<1>9. \A x \in setX : \E i \in DOMAIN s : s[i] = x
  BY <1>2, <1>7
<1>10. ListsWords(s)
  BY <1>7, <1>8, <1>9 DEF ListsWords
<1> QED
  BY <1>10 DEF s, p, q, P, k

\* The blocks the receiver opens when the sender's OKVS is what Pairs says.
Blocks == [b \in Bins |-> IF b \in Active THEN Open(Pairs, b) ELSE Empty]

LEMMA BlocksStay ==
    UNCHANGED <<elements, placement, simple, sbins>> => Blocks' = Blocks
<1> SUFFICES ASSUME UNCHANGED <<elements, placement, simple, sbins>> PROVE Blocks' = Blocks
  OBVIOUS
<1>1. Pairs' = Pairs
  BY Zenon DEF Pairs
<1>2. Active' = Active
  BY DEF Active
<1>3. \A b : KeyIn(b)' = KeyIn(b)
  BY DEF KeyIn, WordIn
<1> QED
  BY <1>1, <1>2, <1>3 DEF Blocks, Open

\* The simple table, with the hash functions as a parameter.
TableOf(hash, words, nbins) ==
    LET total  == NumFunctions * Len(words)
        key(k) == <<(k - 1) % NumFunctions, words[1 + (k - 1) \div NumFunctions]>>
        rows[k \in 0 .. total] ==
          IF k = 0 THEN [b \in 0 .. nbins - 1 |-> <<>>]
          ELSE [rows[k - 1] EXCEPT ![hash[key(k)[2]][key(k)[1]]] = Append(@, key(k))]
    IN  rows[total]

\* Every step keeps the sets, the tables and the blocks the receiver opened as they are
\* described.
LEMMA StepTables ==
    ASSUME InputsTyped, Together, StreamsAsExpected, SenderTable, ReceiverTable, OpenedAsSent,
           [Next]_vars
    PROVE  InputsTyped' /\ SenderTable' /\ ReceiverTable' /\ OpenedAsSent'
<1>1. inputs' = inputs
  BY Steps DEF R_SendBins, R_Map, R_Oprf, R_ReceiveOkvsSize, R_ReceiveOkvs, R_ReceiveSum,
               S_ReceiveBins, S_ReceiveSeed, S_SendOkvs, S_SendSum, Equality, Transfer, vars
<1>2. setX' = setX /\ setY' = setY /\ lut' = lut
  BY <1>1 DEF inputs
<1>3. InputsTyped'
  BY <1>2 DEF InputsTyped
<1>4. SimpleTable(SetToSeq(setY), NumBins)' = SimpleTable(SetToSeq(setY), NumBins)
  <2>1. SimpleTable(SetToSeq(setY), NumBins) = TableOf(lut, SetToSeq(setY), NumBins)
    BY Zenon DEF SimpleTable, TableOf
  <2>2. SimpleTable(SetToSeq(setY), NumBins)' = TableOf(lut', SetToSeq(setY'), NumBins)
    BY Zenon DEF SimpleTable, TableOf
  <2> QED
    BY <1>2, <2>1, <2>2, Zenon
<1>5. SenderTable'
  <2>1. CASE S_ReceiveBins
    <3>1. spc = "nbins" /\ sbins' = Head(io).body
          /\ simple' = SimpleTable(SetToSeq(setY), Head(io).body)
          /\ io # <<>>
      BY <2>1, Zenon DEF S_ReceiveBins, Read
    <3>2. io = <<BinsMessage>> \/ io = <<BinsMessage, SeedMessage, VectorMessage>>
      BY <3>1 DEF Together, StreamsAsExpected
    <3>3. Head(io) = BinsMessage
      BY <3>2, FirstOfOne, FirstOfThree
    <3>4. Head(io).body = NumBins
      BY <3>3 DEF BinsMessage
    <3>5. sbins' = NumBins /\ simple' = SimpleTable(SetToSeq(setY), NumBins)'
      BY <1>4, <3>1, <3>4, Zenon
    <3> QED
      BY <3>5, Zenon DEF SenderTable
  <2>2. ASSUME ~S_ReceiveBins PROVE SenderTable'
    <3>1. simple' = simple /\ sbins' = sbins /\ (spc' # "nbins" => spc # "nbins")
      BY <2>2, Steps DEF R_SendBins, R_Map, R_Oprf, R_ReceiveOkvsSize, R_ReceiveOkvs,
           R_ReceiveSum, S_ReceiveSeed, S_SendOkvs, S_SendSum, Equality, Transfer, vars, sender
    <3> QED
      BY <1>4, <3>1, Zenon DEF SenderTable
  <2> QED
    BY <2>1, <2>2
<1>6. ReceiverTable'
  <2>1. CASE R_Map
    <3>1. /\ rpc' = "oprf"
          /\ elements' = SetToSeq(setX) \o SubSeq(SetToSeq(Pads), 1, Capacity - Cardinality(setX))
          /\ placement' \in HP!Placements(elements', lut')
      BY <1>2, <2>1 DEF R_Map
    <3>2. ListsWords(elements')
      BY <3>1, ElementsListed
    <3>3. ListsWords(elements)'
      BY <1>2, <3>2 DEF ListsWords
    <3> QED
      BY <3>1, <3>3 DEF ReceiverTable
  <2>2. ASSUME ~R_Map PROVE ReceiverTable'
    <3>1. /\ elements' = elements /\ placement' = placement
          /\ (rpc' \in {"nbins", "map"} <=> rpc \in {"nbins", "map"})
      BY <2>2, Steps DEF R_SendBins, R_Oprf, R_ReceiveOkvsSize, R_ReceiveOkvs, R_ReceiveSum,
           S_ReceiveBins, S_ReceiveSeed, S_SendOkvs, S_SendSum, Equality, Transfer, vars,
           receiver
    <3>2. ListsWords(elements) => ListsWords(elements)'
      BY <1>2, <3>1 DEF ListsWords
    <3> QED
      BY <1>2, <3>1, <3>2 DEF ReceiverTable
  <2> QED
    BY <2>1, <2>2
<1>7. OpenedAsSent'
  <2>1. CASE R_ReceiveOkvs
    <3>1. /\ rpc = "okvs" /\ UNCHANGED <<elements, placement, simple, sbins>>
          /\ opened' = [b \in Bins |-> IF b \in Active THEN Open(Head(io2).body, b) ELSE Empty]
      BY <2>1 DEF R_ReceiveOkvs, sender
    <3>2. io2 = <<OkvsMessage>>
      BY <3>1 DEF Together, StreamsAsExpected
    <3>3. Head(io2) = OkvsMessage
      BY <3>2, FirstOfOne
    <3>4. Head(io2).body = Pairs
      BY <3>3 DEF OkvsMessage
    <3>5. opened' = Blocks
      BY <3>1, <3>4, Zenon DEF Blocks
    <3>6. opened' = Blocks'
      BY <3>1, <3>5, BlocksStay
    <3> QED
      BY <3>6, Zenon DEF OpenedAsSent, Blocks
  <2>2. ASSUME ~R_ReceiveOkvs, rpc' \in {"equality", "ot", "sum", "done"}
        PROVE  opened' = Blocks'
    <3>1. /\ opened' = opened /\ rpc \in {"equality", "ot", "sum", "done"}
          /\ UNCHANGED <<elements, placement, simple, sbins>>
      BY <2>2, Steps DEF R_SendBins, R_Map, R_Oprf, R_ReceiveOkvsSize, R_ReceiveSum,
           S_ReceiveBins, S_ReceiveSeed, S_SendOkvs, S_SendSum, Equality, Transfer, vars,
           receiver, sender, Together
    <3>2. opened = Blocks
      BY <3>1, Zenon DEF OpenedAsSent, Blocks
    <3> QED
      BY <3>1, <3>2, BlocksStay
  <2>3. ~R_ReceiveOkvs => OpenedAsSent'
    BY <2>2, Zenon DEF OpenedAsSent, Blocks
  <2> QED
    BY <2>1, <2>3
<1> QED
  BY <1>3, <1>5, <1>6, <1>7

-----------------------------------------------------------------------------
(* The shares                                                              *)

\* An occupied bin holds one of the receiver's words under a function that leads to it.
LEMMA PlacedWords ==
    ASSUME InputsTyped, ListsWords(elements), placement \in HP!Placements(elements, lut)
    PROVE  \A b \in Active :
             /\ b \in Bins /\ placement.table[b].id \in DOMAIN elements
             /\ placement.table[b].fn \in Functions
             /\ WordIn(b) \in setX \cup Pads
             /\ lut[WordIn(b)][placement.table[b].fn] = b
<1>1. /\ placement.table \in [Bins -> HP!Entries(elements) \cup {Empty}]
      /\ \A b \in Bins : placement.table[b] # Empty =>
           lut[elements[placement.table[b].id]][placement.table[b].fn] = b
  BY DEF HP!Placements
<1> SUFFICES ASSUME NEW b \in Active
             PROVE  /\ b \in Bins /\ placement.table[b].id \in DOMAIN elements
                    /\ placement.table[b].fn \in Functions
                    /\ WordIn(b) \in setX \cup Pads
                    /\ lut[WordIn(b)][placement.table[b].fn] = b
  OBVIOUS
<1>2. b \in Bins /\ placement.table[b] # Empty
  BY DEF Active
<1>3. placement.table[b] \in HP!Entries(elements)
  BY <1>1, <1>2
<1>4. placement.table[b].id \in DOMAIN elements /\ placement.table[b].fn \in Functions
  BY <1>3 DEF HP!Entries
<1> QED
  BY <1>1, <1>2, <1>4 DEF WordIn, ListsWords

\* The receiver opens t[b] at bin b iff the bin holds a word of the sender.
LEMMA MatchesOpen ==
    ASSUME InputsTyped, ListsWords(elements), placement \in HP!Placements(elements, lut),
           sbins = NumBins, simple = SimpleTable(SetToSeq(setY), NumBins),
           NEW b \in Bins
    PROVE  Blocks[b] = b <=> b \in Active /\ WordIn(b) \in setY
<1>1. b \in Int
  BY BinsFinite
<1>2. CASE b \notin Active
  <2>1. Blocks[b] = Empty
    BY <1>2 DEF Blocks
  <2> QED
    BY <1>1, <1>2, <2>1, MarksAssumption
<1>3. CASE b \in Active
  <2> DEFINE w == WordIn(b)
             f == placement.table[b].fn
  <2>1. Blocks[b] = Open(Pairs, b)
    BY <1>3 DEF Blocks
  <2>2. f \in Functions /\ lut[w][f] = b /\ KeyIn(b) = <<f, w>>
    BY <1>3, PlacedWords DEF KeyIn
  <2>3. \A p : p \in Pairs
               <=> \E h \in Functions, v \in setY : p = [key |-> <<h, v>>, bin |-> lut[v][h]]
    BY PairsAreKeys DEF InputsTyped
  <2> HIDE DEF w, f
  <2>4. CASE w \in setY
    <3>1. [key |-> <<f, w>>, bin |-> lut[w][f]] \in Pairs
      BY <2>2, <2>3, <2>4
    <3>2. \E p \in Pairs : p.key = KeyIn(b)
      <4>1. [key |-> <<f, w>>, bin |-> lut[w][f]].key = <<f, w>>
        OBVIOUS
      <4> QED
        BY <2>2, <3>1, <4>1
    <3>3. \A p \in Pairs : p.key = KeyIn(b) => p.bin = b
      <4> SUFFICES ASSUME NEW p \in Pairs, p.key = KeyIn(b) PROVE p.bin = b
        OBVIOUS
      <4>1. PICK h \in Functions, v \in setY : p = [key |-> <<h, v>>, bin |-> lut[v][h]]
        BY <2>3
      <4>2. p.key = <<h, v>> /\ p.bin = lut[v][h]
        BY <4>1
      <4>3. h = f /\ v = w
        BY <2>2, <4>2
      <4> QED
        BY <2>2, <4>2, <4>3
    <3>4. Open(Pairs, b) = (CHOOSE p \in Pairs : p.key = KeyIn(b)).bin
      BY <3>2, Zenon DEF Open
    <3>5. Open(Pairs, b) = b
      BY <3>2, <3>3, <3>4
    <3> QED
      BY <1>3, <2>1, <2>4, <3>5 DEF w
  <2>5. CASE w \notin setY
    <3>1. ~ \E p \in Pairs : p.key = KeyIn(b)
      <4> SUFFICES ASSUME NEW p \in Pairs, p.key = KeyIn(b) PROVE FALSE
        OBVIOUS
      <4>1. PICK h \in Functions, v \in setY : p = [key |-> <<h, v>>, bin |-> lut[v][h]]
        BY <2>3
      <4>2. p.key = <<h, v>>
        BY <4>1
      <4>3. v = w
        BY <2>2, <4>2
      <4> QED
        BY <2>5, <4>3
    <3>2. Open(Pairs, b) = Junk
      BY <3>1, Zenon DEF Open
    <3> QED
      BY <1>1, <2>1, <2>5, <3>2, MarksAssumption DEF w
  <2> QED
    BY <2>4, <2>5
<1> QED
  BY <1>2, <1>3

\* The bins that hold a word of both.
Marks == {b \in Active : WordIn(b) \in setY}

\* A number below n is what its sum with a multiple of n leaves.
LEMMA ResidueOf ==
    ASSUME NEW n \in Nat \ {0}, NEW c \in 0 .. n - 1, NEW j \in Int, NEW x \in Int,
           x = c + j * n
    PROVE  x % n = c
<1> DEFINE m == x % n
           q == x \div n
<1>1. m \in 0 .. n - 1 /\ q \in Int /\ x = m + n * q
  OBVIOUS
<1> HIDE DEF m, q
<1>2. q - j \in Int /\ n * (q - j) = n * q - n * j /\ j * n = n * j
      /\ n * q \in Int /\ n * j \in Int
  BY <1>1
<1>3. c - m = n * (q - j)
  BY <1>1, <1>2
<1>4. CASE q - j >= 1
  <2>1. n * (q - j) >= n
    BY <1>2, <1>4
  <2> QED
    BY <1>1, <1>2, <1>3, <2>1
<1>5. CASE q - j <= -1
  <2>1. n * (q - j) <= -n
    BY <1>2, <1>5
  <2> QED
    BY <1>1, <1>2, <1>3, <2>1
<1>6. CASE q - j = 0
  <2>1. n * (q - j) = 0
    BY <1>6
  <2> QED
    BY <1>1, <1>3, <2>1 DEF m
<1> QED
  BY <1>2, <1>4, <1>5, <1>6

\* The difference of two residues, when the numbers differ by c.
LEMMA DifferenceOfResidues ==
    ASSUME NEW n \in Nat \ {0}, NEW F \in Int, NEW G \in Int, NEW c \in 0 .. n - 1,
           Congruent(G, F + c, n)
    PROVE  ((G % n) - (F % n)) % n = c
<1> DEFINE f == F % n
           g == G % n
           u == F \div n
           v == G \div n
<1>1. PICK k \in Int : G = (F + c) + k * n
  BY DEF Congruent
<1>2. f \in Int /\ g \in Int /\ u \in Int /\ v \in Int /\ F = f + n * u /\ G = g + n * v
  OBVIOUS
<1> HIDE DEF f, g, u, v
<1> DEFINE j == (k + u) - v
<1>3. j \in Int /\ j * n = k * n + n * u - n * v
      /\ k * n \in Int /\ n * u \in Int /\ n * v \in Int
  BY <1>1, <1>2
<1> HIDE DEF j
<1>4. g - f = c + j * n /\ g - f \in Int
  <2> DEFINE K == k * n
             U == n * u
             V == n * v
             J == j * n
  <2>1. /\ G = (F + c) + K /\ F = f + U /\ G = g + V /\ J = K + U - V
        /\ K \in Int /\ U \in Int /\ V \in Int /\ J \in Int
    BY <1>1, <1>2, <1>3
  <2> HIDE DEF K, U, V, J
  <2>2. g - f = c + J
    BY <1>2, <2>1
  <2> QED
    BY <1>2, <2>2 DEF J
<1>5. (g - f) % n = c
  <2> DEFINE d == g - f
  <2>1. d \in Int /\ d = c + j * n
    BY <1>4
  <2> HIDE DEF d
  <2>2. d % n = c
    BY <1>3, <2>1, ResidueOf
  <2> QED
    BY <2>2 DEF d
<1> QED
  BY <1>5, Zenon DEF f, g

\* Whatever the random blocks and the payloads of the empty bins, the sums of the two
\* parties' messages differ by the number of bins whose shares differ.
LEMMA SumsOfMessages ==
    ASSUME NEW r \in [Bins -> RandomBlocks], NEW p \in Payloads,
           rAns \in [Bins -> {0, 1}], sAns \in [Bins -> {0, 1}],
           NEW M \in SUBSET Active,
           \A b \in Bins : rAns[b] # sAns[b] <=> b \in M
    PROVE  (Sum([b \in Bins |-> Messages(r, p, b)[sAns[b]]]) -
              Sum([b \in Bins |-> Messages(r, p, b)[rAns[b]]])) % Modulus = Cardinality(M)
<1> DEFINE f == [b \in Bins |-> Messages(r, p, b)[rAns[b]]]
           g == [b \in Bins |-> Messages(r, p, b)[sAns[b]]]
<1>1. Modulus \in Nat \ {0} /\ Cardinality(Bins) \in Nat /\ IsFiniteSet(Bins)
      /\ RandomBlocks \in SUBSET Int /\ Modulus > Cardinality(Bins)
  BY ModulusAssumption, BinsFinite, FS_CardinalityType
<1>2. M \in SUBSET Bins /\ Cardinality(M) \in 0 .. Modulus - 1
  <2>1. M \in SUBSET Bins
    BY DEF Active
  <2>2. Cardinality(M) \in Nat /\ Cardinality(M) <= Cardinality(Bins)
    BY <1>1, <2>1, FS_Subset, FS_CardinalityType
  <2> QED
    BY <1>1, <2>1, <2>2
<1>3. /\ p \in [Bins -> {0, 1}] /\ \A b \in M : p[b] = 1
      /\ \A b \in Bins : r[b] \in Int /\ p[b] \in Int
  <2>1. p \in [Bins -> {0, 1}] /\ \A b \in Active : p[b] = 1
    BY DEF Payloads
  <2>2. \A b \in M : b \in Active
    OBVIOUS
  <2>3. \A b \in Bins : r[b] \in RandomBlocks /\ p[b] \in {0, 1}
    BY <2>1
  <2>4. \A b \in M : p[b] = 1
    BY <2>1, <2>2, Zenon
  <2>5. \A b \in Bins : r[b] \in Int
    BY <1>1, <2>3, Zenon
  <2>6. \A b \in Bins : p[b] \in Int
    BY <2>3
  <2> QED
    BY <2>1, <2>4, <2>5, <2>6
<1>4. ASSUME NEW b \in Bins
      PROVE  /\ f[b] = r[b]
             /\ g[b] = IF b \in M THEN (r[b] + 1) % Modulus ELSE r[b]
  <2>1. rAns[b] \in {0, 1} /\ sAns[b] \in {0, 1}
    OBVIOUS
  <2>2. f[b] = r[b]
    BY <2>1 DEF Messages
  <2>3. g[b] = IF sAns[b] = rAns[b] THEN r[b] ELSE (r[b] + p[b]) % Modulus
    BY <2>1 DEF Messages
  <2> HIDE DEF f, g
  <2>4. CASE b \in M
    <3>1. sAns[b] # rAns[b] /\ p[b] = 1
      BY <1>3, <2>4
    <3> QED
      BY <2>2, <2>3, <2>4, <3>1
  <2>5. CASE b \notin M
    <3>1. sAns[b] = rAns[b]
      BY <2>5
    <3> QED
      BY <2>2, <2>3, <2>5, <3>1
  <2> QED
    BY <2>4, <2>5
<1>5. DOMAIN f = Bins /\ DOMAIN g = Bins
      /\ f = [b \in Bins |-> f[b]] /\ g = [b \in Bins |-> g[b]]
  OBVIOUS
<1> HIDE DEF f, g
<1>6. f \in [Bins -> Int] /\ g \in [Bins -> Int]
  <2>1. \A b \in Bins : f[b] \in Int /\ g[b] \in Int
    BY <1>1, <1>3, <1>4
  <2> QED
    BY <1>5, <2>1
<1>7. ASSUME NEW b \in Bins
      PROVE  Congruent(g[b], f[b] + (IF b \in M THEN 1 ELSE 0), Modulus)
  <2>1. CASE b \in M
    <3> DEFINE x == r[b] + 1
               k == -(x \div Modulus)
    <3>1. x \in Int /\ g[b] = x % Modulus /\ f[b] + 1 = x
      BY <1>3, <1>4, <2>1
    <3>2. k \in Int /\ x % Modulus = x + k * Modulus
      <4>1. \A a \in Int : /\ a \div Modulus \in Int /\ a % Modulus \in Int
                           /\ a = (a % Modulus) + Modulus * (a \div Modulus)
        BY <1>1
      <4> DEFINE d == x \div Modulus
                 m == x % Modulus
      <4>2. d \in Int /\ m \in Int /\ x = m + Modulus * d
        BY <3>1, <4>1
      <4> HIDE DEF x, d, m
      <4>3. (-d) * Modulus = -(Modulus * d) /\ Modulus * d \in Int
        BY <1>1, <4>2
      <4>4. m = x + (-d) * Modulus
        BY <3>1, <4>2, <4>3
      <4> QED
        BY <4>2, <4>4 DEF d, m
    <3> HIDE DEF x, k
    <3>3. g[b] = (f[b] + (IF b \in M THEN 1 ELSE 0)) + k * Modulus
      BY <2>1, <3>1, <3>2
    <3> QED
      BY <3>2, <3>3 DEF Congruent
  <2>2. CASE b \notin M
    <3>1. g[b] = (f[b] + (IF b \in M THEN 1 ELSE 0)) + 0 * Modulus
      BY <1>1, <1>3, <1>4, <2>2
    <3> QED
      BY <3>1 DEF Congruent
  <2> QED
    BY <2>1, <2>2
<1>8. /\ SumOver(f, Bins) \in Int /\ SumOver(g, Bins) \in Int
      /\ Congruent(SumOver(g, Bins), SumOver(f, Bins) + Cardinality(M), Modulus)
  BY <1>1, <1>2, <1>6, <1>7, SumsDifferByMarks
<1>9. /\ Sum(f) = SumOver(f, Bins) % Modulus
      /\ Sum(g) = SumOver(g, Bins) % Modulus
  <2>1. /\ Sum(f) = SumOver(f, DOMAIN f) % Modulus
        /\ Sum(g) = SumOver(g, DOMAIN g) % Modulus
    BY Zenon DEF Sum, SumOver
  <2> QED
    BY <1>5, <2>1, Zenon
<1>10. ((SumOver(g, Bins) % Modulus) - (SumOver(f, Bins) % Modulus)) % Modulus = Cardinality(M)
  <2> DEFINE F == SumOver(f, Bins)
             G == SumOver(g, Bins)
             c == Cardinality(M)
  <2>1. F \in Int /\ G \in Int /\ c \in 0 .. Modulus - 1 /\ Congruent(G, F + c, Modulus)
    BY <1>2, <1>8
  <2> HIDE DEF F, G, c
  <2>2. ((G % Modulus) - (F % Modulus)) % Modulus = c
    BY <1>1, <2>1, DifferenceOfResidues, Zenon
  <2> QED
    BY <2>2 DEF F, G, c
<1>11. (Sum(g) - Sum(f)) % Modulus = Cardinality(M)
  BY <1>9, <1>10, Zenon
<1> QED
  BY <1>11, Zenon DEF f, g

\* Every step keeps the shares, the sums and the result as they are described.
LEMMA StepShares ==
    ASSUME IInv, [Next]_vars
    PROVE  SharesTyped' /\ SharesMarkCommon' /\ EachBinCountsItsMatch' /\ ResultIsDifference'
<1> USE DEF IInv
<1>1. CASE Equality
  <2>1. /\ rpc = "equality" /\ rpc' = "ot" /\ spc = "equality"
        /\ rAns' \in [Bins -> {0, 1}]
        /\ sAns' = [b \in 0 .. sbins - 1 |-> Xor(rAns'[b], IF opened[b] = b THEN 1 ELSE 0)]
        /\ UNCHANGED <<setY, elements, placement, result>>
    BY <1>1 DEF Equality, inputs
  <2>2. /\ sbins = NumBins /\ simple = SimpleTable(SetToSeq(setY), NumBins)
        /\ ListsWords(elements) /\ placement \in HP!Placements(elements, lut)
        /\ opened = Blocks
    BY <2>1, Zenon DEF SenderTable, ReceiverTable, OpenedAsSent, Blocks
  <2>3. \A b \in Bins : opened[b] = b <=> b \in Active /\ WordIn(b) \in setY
    BY <2>2, MatchesOpen
  <2>4. /\ sAns' \in [Bins -> {0, 1}]
        /\ \A b \in Bins : rAns'[b] # sAns'[b] <=> opened[b] = b
    <3>1. \A b \in Bins : rAns'[b] \in {0, 1}
      BY <2>1
    <3>2. sAns' = [b \in Bins |-> Xor(rAns'[b], IF opened[b] = b THEN 1 ELSE 0)]
      BY <2>1, <2>2, BinsFinite
    <3>3. /\ Xor(0, 0) = 0 /\ Xor(0, 1) = 1 /\ Xor(1, 0) = 1 /\ Xor(1, 1) = 0
      BY DEF Xor
    <3> QED
      BY <3>1, <3>2, <3>3
  <2>5. Active' = Active /\ \A b : WordIn(b)' = WordIn(b)
    BY <2>1 DEF Active, WordIn
  <2>6. SharesTyped'
    BY <2>1, <2>4 DEF SharesTyped
  <2>7. SharesMarkCommon'
    BY <2>1, <2>3, <2>4, <2>5 DEF SharesMarkCommon
  <2>8. EachBinCountsItsMatch' /\ ResultIsDifference'
    BY <2>1 DEF EachBinCountsItsMatch, ResultIsDifference
  <2> QED
    BY <2>6, <2>7, <2>8
<1>2. ASSUME ~Equality
      PROVE  /\ rAns' = rAns /\ sAns' = sAns /\ UNCHANGED setY
             /\ (rpc' \in {"ot", "sum", "done"} <=> rpc \in {"ot", "sum", "done"})
             /\ (rpc \in {"ot", "sum", "done"} => UNCHANGED <<elements, placement>>)
  BY <1>2, Steps DEF R_SendBins, R_Map, R_Oprf, R_ReceiveOkvsSize, R_ReceiveOkvs,
     R_ReceiveSum, S_ReceiveBins, S_ReceiveSeed, S_SendOkvs, S_SendSum, Transfer,
     vars, inputs, receiver, sender
<1>3. ASSUME ~Equality PROVE SharesTyped' /\ SharesMarkCommon'
  <2>1. SharesTyped'
    BY <1>2, <1>3 DEF SharesTyped
  <2>2. ASSUME rpc \in {"ot", "sum", "done"}
        PROVE  Active' = Active /\ \A b : WordIn(b)' = WordIn(b)
    BY <1>2, <1>3, <2>2 DEF Active, WordIn
  <2>3. SharesMarkCommon'
    BY <1>2, <1>3, <2>2 DEF SharesMarkCommon
  <2> QED
    BY <2>1, <2>3
<1>4. CASE Transfer
  <2>1. /\ rpc = "ot" /\ rpc' = "sum" /\ spc = "ot" /\ ~Equality
        /\ UNCHANGED <<setY, elements, placement, result>>
    BY <1>4 DEF Transfer, Equality, inputs
  <2>2. PICK r \in [Bins -> RandomBlocks], p \in Payloads :
          /\ rSum' = Sum([b \in Bins |-> Messages(r, p, b)[rAns[b]]])
          /\ sOt' = [b \in 0 .. sbins - 1 |-> Messages(r, p, b)[sAns[b]]]
    BY <1>4, Zenon DEF Transfer
  <2>3. Bins = 0 .. sbins - 1
    BY <2>1, BinsFinite DEF SenderTable
  <2>4. sOt' = [b \in Bins |-> Messages(r, p, b)[sAns[b]]]
    BY <2>2, <2>3, Zenon
  <2>5. /\ rAns \in [Bins -> {0, 1}] /\ sAns \in [Bins -> {0, 1}]
        /\ \A b \in Bins : rAns[b] # sAns[b] <=> b \in Marks
        /\ Marks \in SUBSET Active
    BY <2>1 DEF SharesTyped, SharesMarkCommon, Marks
  <2>6. (Sum([b \in Bins |-> Messages(r, p, b)[sAns[b]]]) -
           Sum([b \in Bins |-> Messages(r, p, b)[rAns[b]]])) % Modulus = Cardinality(Marks)
    BY <2>5, SumsOfMessages
  <2>7. (Sum(sOt') - rSum') % Modulus = Cardinality(Marks)
    BY <2>2, <2>4, <2>6, Zenon
  <2>8. Marks' = Marks
    <3>1. Active' = Active /\ \A b : WordIn(b)' = WordIn(b)
      BY <2>1 DEF Active, WordIn
    <3> QED
      BY <2>1, <3>1 DEF Marks
  <2>9. EachBinCountsItsMatch'
    <3>1. EachBinCountsItsMatch' <=>
            (rpc' \in {"sum", "done"} => (Sum(sOt') - rSum') % Modulus = Cardinality(Marks'))
      BY Zenon DEF EachBinCountsItsMatch, Marks
    <3> QED
      BY <2>7, <2>8, <3>1, Zenon
  <2>10. ResultIsDifference'
    <3>1. rpc' = "sum" /\ result' = Empty
      BY <2>1 DEF ResultIsDifference
    <3> QED
      BY <3>1, Zenon DEF ResultIsDifference
  <2> QED
    BY <1>3, <2>1, <2>9, <2>10
<1>5. ASSUME ~Equality, ~Transfer
      PROVE  EachBinCountsItsMatch' /\ ResultIsDifference'
  <2>1. /\ sOt' = sOt /\ rSum' = rSum /\ setY' = setY
        /\ (rpc' \in {"sum", "done"} => rpc \in {"sum", "done"})
        /\ (rpc \in {"sum", "done"} => UNCHANGED <<elements, placement>>)
    BY <1>5, Steps DEF R_SendBins, R_Map, R_Oprf, R_ReceiveOkvsSize, R_ReceiveOkvs,
       R_ReceiveSum, S_ReceiveBins, S_ReceiveSeed, S_SendOkvs, S_SendSum,
       vars, inputs, receiver, sender
  <2>2. SumMessage' = SumMessage
    BY <2>1, MessagesStay
  <2>3. Sum(sOt)' = Sum(sOt)
    BY <2>2 DEF SumMessage
  <2>4. ASSUME rpc \in {"sum", "done"} PROVE Marks' = Marks
    <3>1. Active' = Active /\ \A b : WordIn(b)' = WordIn(b)
      BY <2>1, <2>4 DEF Active, WordIn
    <3> QED
      BY <2>1, <3>1 DEF Marks
  <2>5. EachBinCountsItsMatch'
    <3>1. EachBinCountsItsMatch <=>
            (rpc \in {"sum", "done"} => (Sum(sOt) - rSum) % Modulus = Cardinality(Marks))
      BY Zenon DEF EachBinCountsItsMatch, Marks
    <3>2. EachBinCountsItsMatch' <=>
            (rpc' \in {"sum", "done"} =>
               (Sum(sOt)' - rSum') % Modulus = Cardinality(Marks'))
      BY Zenon DEF EachBinCountsItsMatch, Marks
    <3> QED
      BY <2>1, <2>3, <2>4, <3>1, <3>2, Zenon
  <2>6. CASE R_ReceiveSum
    <3>1. /\ rpc = "sum" /\ rpc' = "done" /\ io2 # <<>>
          /\ result' = (Head(io2).body - rSum) % Modulus
      BY <2>6, Zenon DEF R_ReceiveSum, Read
    <3>2. io2 = <<SumMessage>>
      BY <3>1 DEF Together, StreamsAsExpected
    <3>3. Head(io2) = SumMessage
      BY <3>2, FirstOfOne
    <3>4. Head(io2).body = Sum(sOt)
      BY <3>3 DEF SumMessage
    <3>5. result' = (Sum(sOt)' - rSum') % Modulus
      BY <2>1, <2>3, <3>1, <3>4, Zenon
    <3>6. ResultIsDifference' <=> /\ rpc' # "done" => result' = Empty
                                  /\ rpc' = "done" =>
                                       result' = (Sum(sOt)' - rSum') % Modulus
      BY Zenon DEF ResultIsDifference
    <3>7. rpc' = "done"
      BY <3>1
    <3> QED
      BY <2>5, <3>5, <3>6, <3>7, Zenon
  <2>7. ASSUME ~R_ReceiveSum PROVE ResultIsDifference'
    <3>1. result' = result /\ (rpc' = "done" <=> rpc = "done")
      BY <1>5, <2>7, Steps DEF R_SendBins, R_Map, R_Oprf, R_ReceiveOkvsSize, R_ReceiveOkvs,
         S_ReceiveBins, S_ReceiveSeed, S_SendOkvs, S_SendSum, vars, receiver
    <3>2. ResultIsDifference <=> /\ rpc # "done" => result = Empty
                                 /\ rpc = "done" => result = (Sum(sOt) - rSum) % Modulus
      BY Zenon DEF ResultIsDifference
    <3>3. ResultIsDifference' <=> /\ rpc' # "done" => result' = Empty
                                  /\ rpc' = "done" =>
                                       result' = (Sum(sOt)' - rSum') % Modulus
      BY Zenon DEF ResultIsDifference
    <3> QED
      BY <2>1, <2>3, <3>1, <3>2, <3>3, Zenon
  <2> QED
    BY <2>5, <2>6, <2>7
<1> QED
  BY <1>1, <1>3, <1>4, <1>5

LEMMA Invariance == Spec => []IInv
<1>1. ASSUME IInv, [Next]_vars PROVE IInv'
  <2>1. Together' /\ StreamsAsExpected'
    BY <1>1, StepStreams DEF IInv
  <2>2. InputsTyped' /\ SenderTable' /\ ReceiverTable' /\ OpenedAsSent'
    BY <1>1, StepTables DEF IInv
  <2>3. SharesTyped' /\ SharesMarkCommon' /\ EachBinCountsItsMatch' /\ ResultIsDifference'
    BY <1>1, StepShares
  <2> QED
    BY <2>1, <2>2, <2>3 DEF IInv
<1> QED
  BY <1>1, InitIInv, PTL DEF Spec

\* Whatever the parties do first, each reads every message as what it is, and nothing is
\* left on the streams when both are done.
THEOREM ReadsMatchInvariant == Spec => []ReadsMatch
<1>1. IInv => ReadsMatch
  BY DEF IInv, Together, StreamsAsExpected, ReadsMatch
<1> QED
  BY <1>1, Invariance, PTL

\* The two parties' shares of a bin differ iff the bin holds a word of both.
THEOREM SharesMarkCommonInvariant == Spec => []SharesMarkCommon
<1>1. IInv => SharesMarkCommon
  BY DEF IInv
<1> QED
  BY <1>1, Invariance, PTL

\* The difference of the two sums is the number of bins with a word of both, whatever
\* the random blocks and the payloads of the empty bins.
THEOREM EachBinCountsItsMatchInvariant == Spec => []EachBinCountsItsMatch
<1>1. IInv => EachBinCountsItsMatch
  BY DEF IInv
<1> QED
  BY <1>1, Invariance, PTL

-----------------------------------------------------------------------------
(* The count                                                               *)

\* The words of the receiver's set that found no place.
Lost == IF placement = Empty THEN {}
        ELSE {elements[i] : i \in placement.stash} \cap setX

LEMMA PlacementIsNoMark ==
    ASSUME ListsWords(elements), placement \in HP!Placements(elements, lut)
    PROVE  placement # Empty
<1>1. placement \in [table : [Bins -> HP!Entries(elements) \cup {Empty}],
                     stash : SUBSET DOMAIN elements]
  BY DEF HP!Placements
<1>2. HP!Entries(elements) \subseteq [id : Nat, fn : Nat] /\ DOMAIN elements \subseteq Nat
  <2>1. DOMAIN elements \subseteq Nat
    BY DEF ListsWords
  <2>2. Functions \subseteq Nat
    BY SizesAssumption, BinsFinite
  <2> QED
    BY <2>1, <2>2 DEF HP!Entries
<1>3. placement \in [table : [Bins -> [id : Nat, fn : Nat] \cup {Empty}], stash : SUBSET Nat]
  BY <1>1, <1>2
<1> QED
  BY <1>3, MarksAssumption

\* The bins with a word of both are as many as the common words that found a place: a
\* word is listed once, and every position has one place.
LEMMA MarksAreCommon ==
    ASSUME InputsTyped, ListsWords(elements), placement \in HP!Placements(elements, lut)
    PROVE  Cardinality(Marks) = Cardinality((setX \cap setY) \ Lost)
<1> DEFINE C  == (setX \cap setY) \ Lost
           id(b) == placement.table[b].id
<1>1. /\ placement.stash \subseteq DOMAIN elements
      /\ \A i \in DOMAIN elements :
           i \in placement.stash <=> \A b \in Bins : placement.table[b] = Empty \/ id(b) # i
      /\ \A b, c \in Bins :
           placement.table[b] # Empty /\ placement.table[c] # Empty /\ id(b) = id(c) => b = c
  BY DEF HP!Placements
<1>2. Lost = {elements[i] : i \in placement.stash} \cap setX
  BY PlacementIsNoMark DEF Lost
<1>3. \A b \in Active : /\ b \in Bins /\ id(b) \in DOMAIN elements
                        /\ WordIn(b) \in setX \cup Pads /\ WordIn(b) = elements[id(b)]
                        /\ placement.table[b] # Empty
  <2>1. \A b \in Active : WordIn(b) = elements[id(b)] /\ placement.table[b] # Empty
    BY DEF WordIn, Active
  <2>2. \A b \in Active : /\ b \in Bins /\ id(b) \in DOMAIN elements
                          /\ WordIn(b) \in setX \cup Pads
    BY PlacedWords
  <2> QED
    BY <2>1, <2>2
<1>4. \A b \in Marks : b \in Active /\ WordIn(b) \in setY
  BY DEF Marks
<1>5. \A i, j \in DOMAIN elements : elements[i] = elements[j] => i = j
  BY DEF ListsWords
<1>6. \A b \in Bins : placement.table[b] # Empty => b \in Active
  BY DEF Active
<1>7. setX \subseteq Words /\ setY \subseteq Words /\ Words \cap Pads = {}
  BY WordsAssumption DEF InputsTyped
<1> HIDE DEF id
<1>8. ASSUME NEW b \in Marks PROVE WordIn(b) \in C
  <2>1. WordIn(b) \in setX /\ WordIn(b) \in setY
    BY <1>3, <1>4, <1>7
  <2>2. ASSUME WordIn(b) \in Lost PROVE FALSE
    <3>1. PICK i \in placement.stash : elements[i] = WordIn(b)
      BY <1>2, <2>2
    <3>2. i = id(b)
      BY <1>1, <1>3, <1>4, <1>5, <3>1
    <3> QED
      BY <1>1, <1>3, <1>4, <3>1, <3>2
  <2> QED
    BY <2>1, <2>2
<1>9. ASSUME NEW b \in Marks, NEW c \in Marks, WordIn(b) = WordIn(c) PROVE b = c
  <2>1. id(b) = id(c)
    BY <1>3, <1>4, <1>5, <1>9
  <2> QED
    BY <1>1, <1>3, <1>4, <2>1
<1>10. ASSUME NEW w \in C PROVE \E b \in Marks : WordIn(b) = w
  <2>1. PICK i \in DOMAIN elements : elements[i] = w
    BY DEF ListsWords
  <2>2. i \notin placement.stash
    BY <1>2, <2>1
  <2>3. PICK b \in Bins : placement.table[b] # Empty /\ id(b) = i
    BY <1>1, <2>1, <2>2
  <2>4. b \in Active /\ WordIn(b) = w
    BY <1>3, <1>6, <2>1, <2>3
  <2> QED
    BY <2>4 DEF Marks
<1> HIDE DEF C
<1>11. ExistsBijection(Marks, C)
  <2> DEFINE f == [b \in Marks |-> WordIn(b)]
  <2>1. f \in Bijection(Marks, C)
    BY <1>8, <1>9, <1>10 DEF Bijection, Injection, Surjection, IsInjective
  <2> QED
    BY <2>1 DEF ExistsBijection
<1>12. IsFiniteSet(Marks)
  <2>1. Marks \subseteq Bins
    BY DEF Marks, Active
  <2> QED
    BY <2>1, BinsFinite, FS_Subset
<1>13. Cardinality(Marks) = Cardinality(C)
  BY <1>11, <1>12, FS_Bijection
<1> QED
  BY <1>13 DEF C

\* The protocol computes the functionality: mapping loses the words of the set that go
\* to the stash, and the last read of the receiver answers with the count of the common
\* words that are left.
THEOREM CountImplemented == Spec => Ideal!Init /\ [][Ideal!Next]_(Ideal!vars)
<1>1. Init => Ideal!Init
  BY DEF Init, Ideal!Init
<1>2. ASSUME IInv, [Next]_vars PROVE [Ideal!Next]_(Ideal!vars)
  <2>1. CASE R_Map
    <3>1. /\ rpc = "map" /\ setX' = setX /\ setY' = setY /\ result' = result /\ result = Empty
          /\ placement = Empty
      BY <1>2, <2>1 DEF R_Map, inputs, IInv, ResultIsDifference, ReceiverTable
    <3>2. Lost = {} /\ Lost' \in SUBSET setX
      BY <3>1 DEF Lost
    <3>3. CASE Lost' = {}
      BY <3>1, <3>2, <3>3 DEF Ideal!vars, Lost
    <3>4. CASE Lost' # {}
      BY <3>1, <3>2, <3>4 DEF Ideal!Next, Ideal!Lose, Lost
    <3> QED
      BY <3>3, <3>4
  <2>2. CASE R_ReceiveSum
    <3>1. /\ rpc = "sum" /\ UNCHANGED <<setX, setY, elements, placement>>
          /\ result = Empty /\ io2 # <<>>
          /\ result' = (Head(io2).body - rSum) % Modulus
      <4>1. result = Empty
        <5>1. rpc # "done" => result = Empty
          BY <1>2, Zenon DEF IInv, ResultIsDifference
        <5> QED
          BY <2>2, <5>1 DEF R_ReceiveSum
      <4> QED
        BY <2>2, <4>1, Zenon DEF R_ReceiveSum, Read, inputs
    <3>2. io2 = <<SumMessage>>
      BY <1>2, <3>1 DEF IInv, Together, StreamsAsExpected
    <3>3. Head(io2) = SumMessage
      BY <3>2, FirstOfOne
    <3>4. Head(io2).body = Sum(sOt)
      BY <3>3 DEF SumMessage
    <3>5. (Sum(sOt) - rSum) % Modulus = Cardinality(Marks)
      BY <1>2, <3>1, Zenon DEF IInv, EachBinCountsItsMatch, Marks
    <3>6. Cardinality(Marks) = Cardinality((setX \cap setY) \ Lost)
      BY <1>2, <3>1, MarksAreCommon DEF IInv, ReceiverTable
    <3>7. result' = Cardinality((setX \cap setY) \ Lost)
      BY <3>1, <3>4, <3>5, <3>6, Zenon
    <3>8. Lost' = Lost
      BY <3>1, Zenon DEF Lost
    <3>9. Ideal!Answer
      <4>1. Ideal!Cardinality((setX \cap setY) \ Lost) = Cardinality((setX \cap setY) \ Lost)
        BY Zenon DEF Ideal!Cardinality, Cardinality
      <4>2. Ideal!Answer <=> /\ result = Empty
                             /\ result' = Ideal!Cardinality((setX \cap setY) \ Lost)
                             /\ setX' = setX /\ setY' = setY /\ Lost' = Lost
        BY DEF Ideal!Answer, Lost
      <4> QED
        BY <3>1, <3>7, <3>8, <4>1, <4>2
    <3> QED
      BY <3>9 DEF Ideal!Next
  <2>3. ASSUME ~R_Map, ~R_ReceiveSum PROVE UNCHANGED Ideal!vars
    <3>1. UNCHANGED <<setX, setY, elements, placement, result>>
      BY <1>2, <2>3, Steps DEF R_SendBins, R_Oprf, R_ReceiveOkvsSize, R_ReceiveOkvs,
         S_ReceiveBins, S_ReceiveSeed, S_SendOkvs, S_SendSum, Equality, Transfer,
         vars, inputs, receiver
    <3> QED
      BY <3>1 DEF Ideal!vars
  <2> QED
    BY <2>1, <2>2, <2>3
<1> QED
  BY <1>1, <1>2, Invariance, PTL DEF Spec

-----------------------------------------------------------------------------
(* Neither party waits for ever: the guards of the steps, written out as a *)
(* statement about single states, and a count of the steps that are left.  *)

\* The receiver sends, maps its words, or finds something to read.
Inserted == SetToSeq(setX) \o SubSeq(SetToSeq(Pads), 1, Capacity - Cardinality(setX))
ReceiverGoes ==
    \/ rpc \in {"nbins", "oprf"}
    \/ rpc = "map" /\ HP!Placements(Inserted, lut) # {}
    \/ rpc \in {"okvs size", "okvs", "sum"} /\ io2 # <<>>

\* The sender sends its sum, or finds something to read.
SenderGoes ==
    \/ spc \in {"nbins", "seed", "vector"} /\ io # <<>>
    \/ spc = "sum"

\* Both have come to the same subprotocol, and it has an outcome.
BothGo ==
    \/ rpc = "equality" /\ spc = "equality"
    \/ rpc = "ot" /\ spc = "ot" /\ [Bins -> RandomBlocks] # {} /\ Payloads # {}

\* Until both are done a party can go on, or both together: never does each wait for
\* something that only the other could send.
NeitherBlocked ==
    ~(rpc = "done" /\ spc = "done") => ReceiverGoes \/ SenderGoes \/ BothGo

\* The steps that each party has before it.
StepsOfReceiver ==
    CASE rpc = "nbins" -> 8 [] rpc = "map" -> 7 [] rpc = "oprf" -> 6
      [] rpc = "okvs size" -> 5 [] rpc = "okvs" -> 4 [] rpc = "equality" -> 3
      [] rpc = "ot" -> 2 [] rpc = "sum" -> 1 [] OTHER -> 0
StepsOfSender ==
    CASE spc = "nbins" -> 6 [] spc = "seed" -> 5 [] spc = "vector" -> 4
      [] spc = "equality" -> 3 [] spc = "ot" -> 2 [] spc = "sum" -> 1 [] OTHER -> 0
StepsLeft == StepsOfReceiver + StepsOfSender

\* There is always a placement: at worst every word is in the stash.
LEMMA PlacementExists ==
    ASSUME NEW es, NEW hash
    PROVE  HP!Placements(es, hash) # {}
<1> DEFINE p == [table |-> [b \in Bins |-> Empty], stash |-> DOMAIN es]
<1>1. p.table \in [Bins -> HP!Entries(es) \cup {Empty}] /\ p.stash \in SUBSET DOMAIN es
  OBVIOUS
<1>2. p \in [table : [Bins -> HP!Entries(es) \cup {Empty}], stash : SUBSET DOMAIN es]
  BY <1>1
<1>3. \A b \in Bins : p.table[b] = Empty
  OBVIOUS
<1>4. p.stash = DOMAIN es
  OBVIOUS
<1> HIDE DEF p
<1>5. p \in HP!Placements(es, hash)
  BY <1>2, <1>3, <1>4 DEF HP!Placements
<1> QED
  BY <1>5

\* The receiver always has payloads: one for each occupied bin and none for the others.
LEMMA PayloadsExist == Payloads # {}
<1> DEFINE p == [b \in Bins |-> IF b \in Active THEN 1 ELSE 0]
<1>1. p \in [Bins -> {0, 1}]
  OBVIOUS
<1>2. \A b \in Active : p[b] = 1
  BY DEF Active
<1>3. \A b \in Bins \ Active : p[b] = 0
  OBVIOUS
<1> HIDE DEF p
<1>4. p \in Payloads
  BY <1>1, <1>2, <1>3 DEF Payloads
<1> QED
  BY <1>4

\* Whatever the parties have done so far, one of them, or both together, can go on until
\* both are done: what a party waits to read has been sent, or will be by a party that can
\* go on.
THEOREM NeitherBlockedInvariant == Spec => []NeitherBlocked
<1>1. IInv => NeitherBlocked
  <2> SUFFICES ASSUME IInv PROVE NeitherBlocked
    OBVIOUS
  <2>1. Together /\ StreamsAsExpected
    BY DEF IInv
  <2>2. rpc = "map" => ReceiverGoes
    BY PlacementExists DEF ReceiverGoes
  <2>3. rpc = "ot" /\ spc = "ot" => BothGo
    <3>1. [Bins -> RandomBlocks] # {}
      <4>1. PICK r \in RandomBlocks : TRUE
        BY ModulusAssumption
      <4>2. [b \in Bins |-> r] \in [Bins -> RandomBlocks]
        OBVIOUS
      <4> QED
        BY <4>2
    <3> QED
      BY <3>1, PayloadsExist DEF BothGo
  <2>4. rpc \in {"nbins", "oprf"} => ReceiverGoes
    BY DEF ReceiverGoes
  <2>5. rpc = "okvs size" => ReceiverGoes \/ SenderGoes
    <3> SUFFICES ASSUME rpc = "okvs size" PROVE ReceiverGoes \/ SenderGoes
      OBVIOUS
    <3>1. CASE spc = "nbins" \/ spc = "seed" \/ spc = "vector"
      <4>1. io # <<>>
        BY <2>1, <3>1, FirstOfOne, FirstOfTwo, FirstOfThree DEF StreamsAsExpected
      <4> QED
        BY <3>1, <4>1 DEF SenderGoes
    <3>2. CASE spc = "equality"
      <4>1. io2 # <<>>
        BY <2>1, <3>2, FirstOfTwo DEF StreamsAsExpected
      <4> QED
        BY <4>1 DEF ReceiverGoes
    <3> QED
      BY <2>1, <3>1, <3>2 DEF Together
  <2>6. rpc = "okvs" => ReceiverGoes
    BY <2>1, FirstOfOne DEF StreamsAsExpected, ReceiverGoes
  <2>7. rpc = "equality" => BothGo
    BY <2>1 DEF Together, BothGo
  <2>8. rpc = "sum" => ReceiverGoes \/ SenderGoes
    <3>1. CASE rpc = "sum" /\ spc = "done"
      <4>1. io2 # <<>>
        BY <2>1, <3>1, FirstOfOne DEF StreamsAsExpected
      <4> QED
        BY <3>1, <4>1 DEF ReceiverGoes
    <3> QED
      BY <2>1, <3>1 DEF Together, SenderGoes
  <2> QED
    BY <2>1, <2>2, <2>3, <2>4, <2>5, <2>6, <2>7, <2>8 DEF NeitherBlocked, Together
<1> QED
  BY <1>1, Invariance, PTL

\* The numbers of steps, place by place, before and after a step.
LEMMA StepNumbers ==
    /\ rpc = "nbins" => StepsOfReceiver = 8
    /\ rpc = "map" => StepsOfReceiver = 7
    /\ rpc = "oprf" => StepsOfReceiver = 6
    /\ rpc = "okvs size" => StepsOfReceiver = 5
    /\ rpc = "okvs" => StepsOfReceiver = 4
    /\ rpc = "equality" => StepsOfReceiver = 3
    /\ rpc = "ot" => StepsOfReceiver = 2
    /\ rpc = "sum" => StepsOfReceiver = 1
    /\ rpc = "done" => StepsOfReceiver = 0
    /\ spc = "nbins" => StepsOfSender = 6
    /\ spc = "seed" => StepsOfSender = 5
    /\ spc = "vector" => StepsOfSender = 4
    /\ spc = "equality" => StepsOfSender = 3
    /\ spc = "ot" => StepsOfSender = 2
    /\ spc = "sum" => StepsOfSender = 1
    /\ spc = "done" => StepsOfSender = 0
BY DEF StepsOfReceiver, StepsOfSender

LEMMA NextStepNumbers ==
    /\ rpc' = "map" => StepsOfReceiver' = 7
    /\ rpc' = "oprf" => StepsOfReceiver' = 6
    /\ rpc' = "okvs size" => StepsOfReceiver' = 5
    /\ rpc' = "okvs" => StepsOfReceiver' = 4
    /\ rpc' = "equality" => StepsOfReceiver' = 3
    /\ rpc' = "ot" => StepsOfReceiver' = 2
    /\ rpc' = "sum" => StepsOfReceiver' = 1
    /\ rpc' = "done" => StepsOfReceiver' = 0
    /\ spc' = "seed" => StepsOfSender' = 5
    /\ spc' = "vector" => StepsOfSender' = 4
    /\ spc' = "equality" => StepsOfSender' = 3
    /\ spc' = "ot" => StepsOfSender' = 2
    /\ spc' = "sum" => StepsOfSender' = 1
    /\ spc' = "done" => StepsOfSender' = 0
BY DEF StepsOfReceiver, StepsOfSender

\* Every step brings a party, or both, nearer to its end, so the protocol ends.
THEOREM StepsRunOut ==
    Spec => [](StepsLeft \in Nat) /\ [][StepsLeft' < StepsLeft]_vars
<1>1. StepsOfReceiver \in Nat /\ StepsOfSender \in Nat
  BY DEF StepsOfReceiver, StepsOfSender
<1>2. StepsLeft \in Nat
  BY <1>1 DEF StepsLeft
<1>3. [Next]_vars => [StepsLeft' < StepsLeft]_vars
  <2> SUFFICES ASSUME Next PROVE StepsLeft' < StepsLeft
    OBVIOUS
  <2>1. CASE Receiver
    <3>1. UNCHANGED StepsOfSender
      BY <2>1 DEF Receiver, R_SendBins, R_Map, R_Oprf, R_ReceiveOkvsSize, R_ReceiveOkvs,
                  R_ReceiveSum, sender, StepsOfSender
    <3>2. \/ rpc = "nbins" /\ rpc' = "map"
          \/ rpc = "map" /\ rpc' = "oprf"
          \/ rpc = "oprf" /\ rpc' = "okvs size"
          \/ rpc = "okvs size" /\ rpc' = "okvs"
          \/ rpc = "okvs" /\ rpc' = "equality"
          \/ rpc = "sum" /\ rpc' = "done"
      BY <2>1 DEF Receiver, R_SendBins, R_Map, R_Oprf, R_ReceiveOkvsSize, R_ReceiveOkvs,
                  R_ReceiveSum
    <3>3. \/ StepsOfReceiver = 8 /\ StepsOfReceiver' = 7
          \/ StepsOfReceiver = 7 /\ StepsOfReceiver' = 6
          \/ StepsOfReceiver = 6 /\ StepsOfReceiver' = 5
          \/ StepsOfReceiver = 5 /\ StepsOfReceiver' = 4
          \/ StepsOfReceiver = 4 /\ StepsOfReceiver' = 3
          \/ StepsOfReceiver = 1 /\ StepsOfReceiver' = 0
      BY <3>2, StepNumbers, NextStepNumbers, Zenon
    <3> QED
      BY <1>1, <3>1, <3>3 DEF StepsLeft
  <2>2. CASE Sender
    <3>1. UNCHANGED StepsOfReceiver
      BY <2>2 DEF Sender, S_ReceiveBins, S_ReceiveSeed, S_SendOkvs, S_SendSum, receiver,
                  StepsOfReceiver
    <3>2. \/ spc = "nbins" /\ spc' = "seed"
          \/ spc = "seed" /\ spc' = "vector"
          \/ spc = "vector" /\ spc' = "equality"
          \/ spc = "sum" /\ spc' = "done"
      BY <2>2 DEF Sender, S_ReceiveBins, S_ReceiveSeed, S_SendOkvs, S_SendSum
    <3>3. \/ StepsOfSender = 6 /\ StepsOfSender' = 5
          \/ StepsOfSender = 5 /\ StepsOfSender' = 4
          \/ StepsOfSender = 4 /\ StepsOfSender' = 3
          \/ StepsOfSender = 1 /\ StepsOfSender' = 0
      BY <3>2, StepNumbers, NextStepNumbers, Zenon
    <3> QED
      BY <1>1, <3>1, <3>3 DEF StepsLeft
  <2>3. CASE Equality \/ Transfer
    <3>1. \/ rpc = "equality" /\ rpc' = "ot" /\ spc = "equality" /\ spc' = "ot"
          \/ rpc = "ot" /\ rpc' = "sum" /\ spc = "ot" /\ spc' = "sum"
      BY <2>3 DEF Equality, Transfer
    <3>2. \/ /\ StepsOfReceiver = 3 /\ StepsOfReceiver' = 2
             /\ StepsOfSender = 3 /\ StepsOfSender' = 2
          \/ /\ StepsOfReceiver = 2 /\ StepsOfReceiver' = 1
             /\ StepsOfSender = 2 /\ StepsOfSender' = 1
      BY <3>1, StepNumbers, NextStepNumbers, Zenon
    <3> QED
      BY <3>2 DEF StepsLeft
  <2> QED
    BY <2>1, <2>2, <2>3 DEF Next
<1> QED
  BY <1>2, <1>3, PTL DEF Spec
=============================================================================
