------------------------ MODULE EqualityCircuit_proofs ------------------------
(***************************************************************************)
(* Theorems about EqualityCircuit, for any number of blocks, any word and  *)
(* digit size and any capacity of the streams.                             *)
(*                                                                         *)
(*   - TripleMasksOnce.  The triples that a thread has masked operands     *)
(*     with are a prefix of its triples, whose length the level determines *)
(*     (SpendsInv): D digits have become Parts(level), and each of the     *)
(*     ANDs between has spent one triple per comparison.                   *)
(*   - SharesOfDigits.  The sides of a thread pass through stages: at the  *)
(*     same level with some transfers under way, one of them ahead with    *)
(*     its shares already joined, or finished (DigitsInv).  LevelJoins     *)
(*     shows that an AND of shares with a fitting triple is a share of the *)
(*     AND, so that what they reach together says of twice as many digits  *)
(*     whether they are equal.                                             *)
(*   - The refinement of SharedEquality.  The last AND takes over the      *)
(*     stream of the first thread, with what is on its way there, as soon  *)
(*     as ALICE's first thread is done (LastInv); the bits of both threads *)
(*     are then of whole words (WordsAssumption), and those of the last    *)
(*     AND of whole blocks.                                                *)
(*   - No thread waits for ever for the other party (NoneBlocked), because *)
(*     the stages say who is behind, and every run ends (Work).            *)
(***************************************************************************)
EXTENDS EqualityCircuit, FiniteSetTheorems, TLAPS

-----------------------------------------------------------------------------
(* Numbers                                                                 *)

\* A product and its factor: b times something is b times another only for the same.
LEMMA ProductOrder ==
    ASSUME NEW i \in Nat \ {0}, NEW x \in Int, NEW y \in Int
    PROVE  /\ x * i \in Int /\ y * i \in Int
           /\ x < y <=> x * i < y * i
           /\ x <= y <=> x * i <= y * i
<1>1. x * i \in Int /\ y * i \in Int /\ (y - x) * i = y * i - x * i
  OBVIOUS
<1>2. ASSUME x < y PROVE x * i < y * i
  <2>1. y - x >= 1
    BY <1>2
  <2>2. (y - x) * i >= 1
    BY <2>1
  <2> QED
    BY <1>1, <2>2
<1>3. ASSUME y < x PROVE y * i < x * i
  <2>1. y - x <= -1
    BY <1>3
  <2>2. (y - x) * i <= -1
    BY <2>1
  <2> QED
    BY <1>1, <2>2
<1>4. x = y => x * i = y * i
  OBVIOUS
<1> QED
  BY <1>1, <1>2, <1>3, <1>4

\* Division by d, for numbers that are not negative.
LEMMA Division ==
    ASSUME NEW d \in Nat \ {0}, NEW v \in Nat
    PROVE  /\ v \div d \in Nat /\ v % d \in 0 .. d - 1
           /\ v = d * (v \div d) + (v % d)
<1> DEFINE q == v \div d
           m == v % d
<1>1. q \in Int /\ m \in 0 .. d - 1 /\ v = d * q + m
  OBVIOUS
<1> HIDE DEF q, m
<1>2. q >= 0
  <2> SUFFICES ASSUME q <= -1 PROVE FALSE
    BY <1>1
  <2>1. d * q <= -d
    BY <1>1
  <2> QED
    BY <1>1, <2>1
<1> QED
  BY <1>1, <1>2 DEF q, m

\* Quotient and remainder are what they are.
LEMMA QuotientIs ==
    ASSUME NEW d \in Nat \ {0}, NEW q \in Nat, NEW m \in 0 .. d - 1, NEW v \in Nat,
           v = d * q + m
    PROVE  v \div d = q /\ v % d = m
<1> DEFINE r == v \div d
           n == v % d
<1>1. r \in Nat /\ n \in 0 .. d - 1 /\ v = d * r + n
  BY Division
<1> HIDE DEF r, n
<1>2. q * d = d * q /\ r * d = d * r /\ (q + 1) * d = d * q + d /\ (r + 1) * d = d * r + d
  BY <1>1
<1>3. q * d < (r + 1) * d /\ r * d < (q + 1) * d
  BY <1>1, <1>2
<1>4. q < r + 1 /\ r < q + 1
  <2>1. q * d < (r + 1) * d <=> q < r + 1
    BY <1>1, ProductOrder
  <2>2. r * d < (q + 1) * d <=> r < q + 1
    BY <1>1, ProductOrder
  <2> QED
    BY <1>3, <2>1, <2>2
<1>5. r = q
  BY <1>1, <1>4
<1> QED
  BY <1>1, <1>5 DEF r, n

D == NumDigits

\* The number of parts of i digits that the digits make.
Parts(i) == (D + i - 1) \div i

LEMMA DigitsExist == D \in Nat \ {0} /\ NumTriples = D - 1 /\ D = NumDigits
<1>1. L \in Nat \ {0} /\ Beta \in Nat \ {0}
  BY SizesAssumption
<1> DEFINE v == L + Beta - 1
           q == v \div Beta
           m == v % Beta
<1>2. v \in Nat /\ v >= Beta
  BY <1>1
<1>3. q \in Nat /\ m \in 0 .. Beta - 1 /\ v = Beta * q + m
  <2> HIDE DEF v
  <2> QED
    BY <1>1, <1>2, Division
<1>4. q # 0
  <2> SUFFICES ASSUME q = 0 PROVE FALSE
    OBVIOUS
  <2>1. Beta * q = 0
    BY <1>1
  <2> HIDE DEF v, q, m
  <2> QED
    BY <1>1, <1>2, <1>3, <2>1
<1>5. NumDigits = q
  BY DEF NumDigits
<1> HIDE DEF q
<1> QED
  BY <1>3, <1>4, <1>5 DEF D, NumTriples

LEMMA PartsBounds ==
    ASSUME NEW i \in Nat \ {0}
    PROVE  /\ Parts(i) \in Nat \ {0}
           /\ (Parts(i) - 1) * i < D /\ D <= Parts(i) * i
           /\ \A m \in Nat \ {0} : (m - 1) * i < D /\ D <= m * i => m = Parts(i)
<1> DEFINE v == D + i - 1
           m == v \div i
           r == v % i
<1>1. v \in Nat /\ v = D + i - 1 /\ v >= i /\ D \in Nat \ {0}
  BY DigitsExist
<1>2. m \in Nat /\ r \in 0 .. i - 1 /\ v = i * m + r /\ Parts(i) = m
  <2>1. Parts(i) = m
    BY DEF Parts
  <2> HIDE DEF v
  <2> QED
    BY <1>1, <2>1, Division
<1> HIDE DEF v, m, r
<1>3. m * i = i * m /\ (m - 1) * i = i * m - i /\ i * m \in Int
  BY <1>2
<1>4. (m - 1) * i < D /\ D <= m * i
  BY <1>1, <1>2, <1>3
<1>5. m # 0
  <2> SUFFICES ASSUME m = 0 PROVE FALSE
    OBVIOUS
  <2>1. m * i = 0
    OBVIOUS
  <2> QED
    BY <1>1, <1>4, <2>1
<1>6. ASSUME NEW n \in Nat \ {0}, (n - 1) * i < D, D <= n * i
      PROVE  n = m
  <2>1. (n - 1) * i < m * i /\ (m - 1) * i < n * i
    <3>1. (n - 1) * i \in Int /\ m * i \in Int /\ (m - 1) * i \in Int /\ n * i \in Int
      BY <1>2
    <3> QED
      BY <1>1, <1>4, <1>6, <3>1
  <2>2. n - 1 \in Int /\ m - 1 \in Int /\ m \in Int /\ n \in Int
    BY <1>2
  <2>3. (n - 1) * i < m * i <=> n - 1 < m
    BY <2>2, ProductOrder
  <2>4. (m - 1) * i < n * i <=> m - 1 < n
    BY <2>2, ProductOrder
  <2> QED
    BY <2>1, <2>2, <2>3, <2>4
<1> QED
  BY <1>2, <1>4, <1>5, <1>6

\* A level joins every second part of i digits with the next, and leaves half as many.
LEMMA LevelHalves ==
    ASSUME NEW i \in Nat \ {0}
    PROVE  /\ NumAnds(i) \in Nat
           /\ \A q \in Nat : q < NumAnds(i) <=> (2 * q + 1) * i < D
           /\ Parts(2 * i) = Parts(i) - NumAnds(i)
<1> DEFINE m == Parts(i)
           n == m \div 2
           r == m % 2
           S == {j \in 0 .. NumDigits - 1 : j % (2 * i) = 0 /\ j + i < NumDigits}
           f == [q \in 0 .. n - 1 |-> (2 * i) * q]
<1>1. m \in Nat \ {0} /\ (m - 1) * i < D /\ D <= m * i /\ D \in Nat \ {0}
  BY PartsBounds, DigitsExist
<1> HIDE DEF m
<1>2. n \in Nat /\ r \in {0, 1} /\ m = 2 * n + r
  <2>1. n \in Nat /\ r \in 0 .. 1 /\ m = 2 * n + r
    BY <1>1, Division
  <2> QED
    BY <2>1
<1> HIDE DEF n, r
<1>3. ASSUME NEW q \in Nat PROVE q < n <=> (2 * q + 1) * i < D
  <2>1. q < n <=> 2 * q + 1 <= m - 1
    BY <1>1, <1>2
  <2>2. 2 * q + 1 <= m - 1 <=> (2 * q + 1) * i <= (m - 1) * i
    BY <1>1, ProductOrder
  <2>3. 2 * q + 1 < m <=> (2 * q + 1) * i < m * i
    BY <1>1, ProductOrder
  <2>4. (2 * q + 1) * i \in Int /\ m * i \in Int /\ (m - 1) * i \in Int
    BY <1>1
  <2> QED
    BY <1>1, <2>1, <2>2, <2>3, <2>4
<1>4. \A q \in Nat : /\ (2 * i) * q \in Nat /\ (2 * q + 1) * i = (2 * i) * q + i
  OBVIOUS
<1>5. f \in Bijection(0 .. n - 1, S)
  <2>1. ASSUME NEW q \in 0 .. n - 1 PROVE (2 * i) * q \in S
    <3>1. q \in Nat /\ q < n
      BY <1>2
    <3>2. (2 * i) * q + i < D /\ (2 * i) * q \in Nat
      BY <1>3, <1>4, <3>1
    <3>3. ((2 * i) * q) % (2 * i) = 0
      <4> DEFINE v == (2 * i) * q
                 d == 2 * i
      <4>1. d \in Nat \ {0} /\ v \in Nat /\ v = d * q + 0 /\ 0 \in 0 .. d - 1
        BY <3>1
      <4> HIDE DEF v, d
      <4>2. v % d = 0
        BY <3>1, <4>1, QuotientIs
      <4> QED
        BY <4>2 DEF v, d
    <3> QED
      BY <1>1, <3>2, <3>3 DEF D
  <2>2. ASSUME NEW j \in S PROVE \E q \in 0 .. n - 1 : f[q] = j
    <3> DEFINE q == j \div (2 * i)
    <3>1. j \in Nat /\ j % (2 * i) = 0 /\ j + i < D /\ 2 * i \in Nat \ {0}
      BY <1>1 DEF D
    <3>2. q \in Nat /\ j = (2 * i) * q + 0
      BY <3>1, Division
    <3> HIDE DEF q
    <3>3. q < n
      BY <1>3, <1>4, <3>1, <3>2
    <3>4. q \in 0 .. n - 1 /\ f[q] = j
      BY <1>2, <3>1, <3>2, <3>3
    <3> QED
      BY <3>4
  <2>3. ASSUME NEW q \in 0 .. n - 1, NEW u \in 0 .. n - 1, (2 * i) * q = (2 * i) * u PROVE q = u
    <3>1. q \in Int /\ u \in Int /\ 2 * i \in Nat \ {0}
      OBVIOUS
    <3>2. q * (2 * i) = (2 * i) * q /\ u * (2 * i) = (2 * i) * u
      BY <3>1
    <3>3. /\ q < u <=> q * (2 * i) < u * (2 * i)
          /\ u < q <=> u * (2 * i) < q * (2 * i)
      BY <3>1, ProductOrder
    <3>4. q * (2 * i) \in Int
      BY <3>1
    <3> QED
      BY <2>3, <3>1, <3>2, <3>3, <3>4
  <2> HIDE DEF S
  <2> QED
    BY <2>1, <2>2, <2>3 DEF Bijection, Injection, Surjection, IsInjective
<1>6. Cardinality(S) = n
  <2>1. ExistsBijection(0 .. n - 1, S)
    BY <1>5 DEF ExistsBijection
  <2>2. IsFiniteSet(0 .. n - 1) /\ Cardinality(0 .. n - 1) = n
    BY <1>2, FS_Interval
  <2> HIDE DEF S
  <2> QED
    BY <2>1, <2>2, FS_Bijection
<1>7. NumAnds(i) = n
  BY <1>6 DEF NumAnds
<1>8. Parts(2 * i) = m - n
  <2> DEFINE h == m - n
             k == 2 * i
  <2>1. h \in Nat \ {0} /\ k \in Nat \ {0}
    BY <1>1, <1>2
  <2>2. (h - 1) * k = (2 * h - 2) * i /\ h * k = (2 * h) * i
    BY <2>1
  <2>3. 2 * h - 2 <= m - 1 /\ m <= 2 * h
    BY <1>1, <1>2
  <2>4. 2 * h - 2 <= m - 1 <=> (2 * h - 2) * i <= (m - 1) * i
    BY <1>1, <2>1, ProductOrder
  <2>5. m <= 2 * h <=> m * i <= (2 * h) * i
    BY <1>1, <2>1, ProductOrder
  <2>6. (2 * h - 2) * i \in Int /\ (m - 1) * i \in Int /\ m * i \in Int /\ (2 * h) * i \in Int
    BY <1>1, <2>1
  <2>7. (h - 1) * k < D /\ D <= h * k
    BY <1>1, <2>2, <2>3, <2>4, <2>5, <2>6
  <2> HIDE DEF h, k
  <2>8. h = Parts(k)
    BY <2>1, <2>7, PartsBounds
  <2> QED
    BY <2>8 DEF h, k
<1> QED
  BY <1>2, <1>3, <1>7, <1>8 DEF m

\* A distance of one joins nothing yet, and one of all the digits has joined everything.
LEMMA FirstAndLast ==
    /\ Parts(1) = D
    /\ \A i \in Nat \ {0} : i >= D => Parts(i) = 1
<1>1. D \in Nat \ {0}
  BY DigitsExist
<1>2. Parts(1) = D
  <2>1. (D - 1) * 1 < D /\ D <= D * 1 /\ 1 \in Nat \ {0}
    BY <1>1
  <2> QED
    BY <1>1, <2>1, PartsBounds
<1>3. ASSUME NEW i \in Nat \ {0}, i >= D PROVE Parts(i) = 1
  <2>1. (1 - 1) * i < D /\ D <= 1 * i /\ 1 \in Nat \ {0}
    BY <1>1, <1>3
  <2> QED
    BY <2>1, PartsBounds
<1> QED
  BY <1>2, <1>3

-----------------------------------------------------------------------------
(* Sizes                                                                   *)

\* The blocks are a whole number of bytes, and each thread gets half of the words.
LEMMA ThreadsGetHalves ==
    /\ \E m \in Nat : NumBins = ByteSize * m
    /\ \A t \in Threads : Count(t) = NumBins /\ Offset(t) = t * NumBins
<1>1. NumBins \in Nat \ {0} /\ ByteSize \in Nat \ {0} /\ NumBins % ByteSize = 0
  BY SizesAssumption
<1> DEFINE m == NumBins \div ByteSize
           d == ByteSize * 2
<1>2. m \in Nat /\ NumBins = ByteSize * m
  <2>1. m \in Nat /\ NumBins = ByteSize * m + 0
    BY <1>1, Division
  <2> HIDE DEF m
  <2>2. ByteSize * m \in Int
    BY <1>1, <2>1
  <2> QED
    BY <2>1, <2>2
<1> HIDE DEF m
<1>3. NumCmps \div d = m
  <2>1. NumCmps = 2 * (ByteSize * m) /\ d \in Nat \ {0} /\ 0 \in 0 .. d - 1
    BY <1>1, <1>2 DEF NumCmps
  <2>2. 2 * (ByteSize * m) = (ByteSize * 2) * m + 0
    BY <1>1, <1>2
  <2>3. NumCmps = d * m + 0 /\ NumCmps \in Nat
    BY <1>1, <1>2, <2>1, <2>2
  <2> HIDE DEF d
  <2> QED
    BY <1>2, <2>1, <2>3, QuotientIs
<1>4. ChunkSize = NumBins
  <2>1. m * ByteSize = ByteSize * m
    BY <1>1, <1>2
  <2> QED
    BY <1>2, <1>3, <2>1 DEF ChunkSize
<1>5. ASSUME NEW t \in Threads PROVE Count(t) = NumBins /\ Offset(t) = t * NumBins
  <2>1. t \in {0, 1} /\ Offset(t) = t * NumBins /\ NumCmps = 2 * NumBins
    BY <1>4 DEF Threads, Offset, NumCmps
  <2>2. 1 * NumBins = NumBins
    BY <1>1
  <2> QED
    BY <1>1, <1>4, <2>1, <2>2 DEF Count
<1> QED
  BY <1>2, <1>5

\* How many ANDs a worker does at a level of distance i.
Bits(w, i) == IF w = Main THEN NumBins ELSE NumAnds(i) * NumBins

\* Cutting the ANDs of a worker to whole bytes leaves none out.
LEMMA AndsWhole ==
    ASSUME NEW p, NEW w \in Workers, w # Main => level[p][w] \in Nat \ {0}
    PROVE  /\ Bits(w, level[p][w]) \in Nat
           /\ Ands(p, w) = 0 .. Bits(w, level[p][w]) - 1
<1> DEFINE bits == Bits(w, level[p][w])
           q == bits \div ByteSize
<1>1. PICK m \in Nat : NumBins = ByteSize * m
  BY ThreadsGetHalves
<1>2. ByteSize \in Nat \ {0} /\ NumBins \in Nat
  BY SizesAssumption
<1>3. Ands(p, w) = 0 .. (q * ByteSize) - 1
  <2>1. w # Main => Count(w) = NumBins
    BY ThreadsGetHalves DEF Workers
  <2> QED
    BY <2>1 DEF Ands, Bits
<1>4. \E n \in Nat : bits = ByteSize * n
  <2>1. CASE w = Main
    BY <1>1, <2>1 DEF Bits
  <2>2. CASE w # Main
    <3> DEFINE a == NumAnds(level[p][w])
    <3>1. a \in Nat /\ bits = a * NumBins
      BY <2>2, LevelHalves DEF Bits
    <3> HIDE DEF a, bits
    <3>2. a * (ByteSize * m) = ByteSize * (a * m) /\ a * m \in Nat
      BY <1>1, <1>2, <3>1
    <3> QED
      BY <1>1, <3>1, <3>2
  <2> QED
    BY <2>1, <2>2
<1> HIDE DEF bits
<1>5. PICK n \in Nat : bits = ByteSize * n
  BY <1>4
<1>6. bits \in Nat /\ bits = ByteSize * n + 0 /\ 0 \in 0 .. ByteSize - 1
  BY <1>2, <1>5
<1>7. q = n
  BY <1>2, <1>6, QuotientIs
<1>8. n * ByteSize = ByteSize * n
  BY <1>2
<1> QED
  BY <1>3, <1>5, <1>6, <1>7, <1>8 DEF bits

-----------------------------------------------------------------------------
(* Tables: functions of two arguments, one after the other                 *)

Table(f, A, B) == f = [a \in A |-> [b \in B |-> f[a][b]]]

SetCell(f, a, b, v)   == [f EXCEPT ![a][b] = v]
SetColumn(f, A, b, v) == [x \in A |-> [f[x] EXCEPT ![b] = v]]
SetRow(f, a, B, v)    == [f EXCEPT ![a] = [y \in B |-> v]]

\* One entry is replaced.
LEMMA TableCell ==
    ASSUME NEW f, NEW A, NEW B, Table(f, A, B), NEW a \in A, NEW b \in B, NEW v
    PROVE  /\ Table(SetCell(f, a, b, v), A, B)
           /\ \A x \in A, y \in B :
                SetCell(f, a, b, v)[x][y] = IF x = a /\ y = b THEN v ELSE f[x][y]
<1> DEFINE h == [x \in A |-> [y \in B |-> IF x = a /\ y = b THEN v ELSE f[x][y]]]
<1> DEFINE g == SetCell(f, a, b, v)
<1>0. g = [f EXCEPT ![a][b] = v]
  BY DEF SetCell
<1> HIDE DEF g
<1>1. DOMAIN f = A /\ \A x \in A : f[x] = [y \in B |-> f[x][y]]
  BY DEF Table
<1>2. g = [x \in A |-> IF x = a THEN [f[a] EXCEPT ![b] = v] ELSE f[x]]
  <2>1. f = [x \in A |-> f[x]]
    BY Zenon DEF Table
  <2> QED
    BY <1>0, <2>1
<1>3. [f[a] EXCEPT ![b] = v] = [y \in B |-> IF y = b THEN v ELSE f[a][y]]
  BY <1>1
<1>4. g = h
  <2>1. \A x \in A : g[x] = h[x]
    <3> SUFFICES ASSUME NEW x \in A PROVE g[x] = h[x]
      OBVIOUS
    <3>1. CASE x = a
      BY <1>2, <1>3, <3>1
    <3>2. CASE x # a
      <4>1. g[x] = f[x]
        BY <1>2, <3>2
      <4>2. f[x] = [y \in B |-> f[x][y]]
        BY <1>1
      <4>3. h[x] = [y \in B |-> f[x][y]]
        BY <3>2
      <4> QED
        BY <4>1, <4>2, <4>3, Zenon
    <3> QED
      BY <3>1, <3>2
  <2>2. g = [x \in A |-> g[x]]
    BY <1>2
  <2>3. h = [x \in A |-> h[x]]
    BY Zenon
  <2> HIDE DEF h
  <2> QED
    BY <2>1, <2>2, <2>3
<1>5. \A x \in A, y \in B : h[x][y] = IF x = a /\ y = b THEN v ELSE f[x][y]
  OBVIOUS
<1>6. h = [x \in A |-> [y \in B |-> h[x][y]]]
  <2>1. \A x \in A : h[x] = [y \in B |-> h[x][y]]
    OBVIOUS
  <2>2. h = [x \in A |-> h[x]]
    BY Zenon
  <2> HIDE DEF h
  <2> QED
    BY <2>1, <2>2
<1> HIDE DEF h
<1>7. Table(h, A, B)
  BY <1>6, Zenon DEF Table
<1> QED
  BY <1>4, <1>5, <1>7 DEF g

\* One entry of every row is replaced.
LEMMA TableColumn ==
    ASSUME NEW f, NEW A, NEW B, Table(f, A, B), NEW b \in B, NEW v
    PROVE  /\ Table(SetColumn(f, A, b, v), A, B)
           /\ \A x \in A, y \in B : SetColumn(f, A, b, v)[x][y] = IF y = b THEN v ELSE f[x][y]
<1> DEFINE g == SetColumn(f, A, b, v)
<1>0. g = [x \in A |-> [f[x] EXCEPT ![b] = v]]
  BY DEF SetColumn
<1> HIDE DEF g
<1>1. \A x \in A : f[x] = [y \in B |-> f[x][y]]
  BY DEF Table
<1>2. \A x \in A : g[x] = [y \in B |-> IF y = b THEN v ELSE f[x][y]]
  BY <1>0, <1>1
<1>3. \A x \in A, y \in B : g[x][y] = IF y = b THEN v ELSE f[x][y]
  BY <1>2
<1>4. \A x \in A : g[x] = [y \in B |-> g[x][y]]
  BY <1>2
<1>5. g = [x \in A |-> g[x]]
  BY <1>0
<1>6. Table(g, A, B)
  BY <1>4, <1>5, Zenon DEF Table
<1> QED
  BY <1>3, <1>6 DEF g

\* One row is replaced.
LEMMA TableRow ==
    ASSUME NEW f, NEW A, NEW B, Table(f, A, B), NEW a \in A, NEW v
    PROVE  /\ Table(SetRow(f, a, B, v), A, B)
           /\ \A x \in A, y \in B : SetRow(f, a, B, v)[x][y] = IF x = a THEN v ELSE f[x][y]
<1> DEFINE g == SetRow(f, a, B, v)
<1>0. g = [f EXCEPT ![a] = [y \in B |-> v]]
  BY DEF SetRow
<1> HIDE DEF g
<1>1. f = [x \in A |-> f[x]] /\ \A x \in A : f[x] = [y \in B |-> f[x][y]]
  BY DEF Table
<1>2. g = [x \in A |-> IF x = a THEN [y \in B |-> v] ELSE f[x]]
  BY <1>0, <1>1
<1>3. \A x \in A, y \in B : g[x][y] = IF x = a THEN v ELSE f[x][y]
  BY <1>2
<1>4. \A x \in A : g[x] = [y \in B |-> g[x][y]]
  BY <1>1, <1>2
<1>5. g = [x \in A |-> g[x]]
  BY <1>2
<1>6. Table(g, A, B)
  BY <1>4, <1>5, Zenon DEF Table
<1> QED
  BY <1>3, <1>6 DEF g

-----------------------------------------------------------------------------
(* Which triples are spent                                                 *)

\* The place of "e" among the transfers of an AND.
PlaceOfE(p, w) == IF Side(p, w) = ALICE THEN 1 ELSE 3

\* The triples that a worker has masked values with are the first ones, up to here.
Spent(p, w) ==
    base[p][w] + IF op[p][w] > PlaceOfE(p, w) THEN Bits(w, level[p][w]) ELSE 0

Triples(w) == IF w = Main THEN NumBins ELSE NumTriples * NumBins

Marked(p, w) ==
    masking[p][w] = [k \in 0 .. Triples(w) - 1 |-> IF k < Spent(p, w) THEN 1 ELSE 0]

Shapes ==
    /\ Table(tpc, Parties, Threads) /\ Table(level, Parties, Threads)
    /\ Table(base, Parties, Workers) /\ Table(op, Parties, Workers)
    /\ Table(masking, Parties, Workers) /\ pc = [p \in Parties |-> pc[p]]

\* What a thread has spent is what the levels so far had to join: of the D parts of one
\* digit there are fewer by one for each triple.
ThreadSpends(p, t) ==
    /\ level[p][t] \in Nat \ {0} /\ op[p][t] \in 1 .. 5
    /\ tpc[p][t] \in {"none", "leaf", "triples", "level", "done"}
    /\ base[p][t] = (D - Parts(level[p][t])) * NumBins
    /\ level[p][t] >= D => op[p][t] = 1
    /\ tpc[p][t] = "done" => level[p][t] >= D
    /\ tpc[p][t] \in {"none", "leaf", "triples"} => level[p][t] = 1 /\ op[p][t] = 1
    /\ tpc[p][t] \in {"level", "done"} => Marked(p, t)
    /\ tpc[p][t] \notin {"level", "done"} => masking[p][t] = <<>>

MainSpends(p) ==
    /\ base[p][Main] = 0 /\ op[p][Main] \in 1 .. 5
    /\ pc[p] = "triple" => op[p][Main] = 1 /\ masking[p][Main] = <<>>
    /\ pc[p] # "triple" => Marked(p, Main)
    /\ pc[p] \in {"triple", "launch"} => \A t \in Threads : tpc[p][t] = "none"

SpendsInv ==
    /\ Shapes
    /\ \A p \in Parties, t \in Threads : ThreadSpends(p, t)
    /\ \A p \in Parties : MainSpends(p)

LEMMA SpendsImpliesOnce == SpendsInv => TripleMasksOnce
<1> SUFFICES ASSUME SpendsInv PROVE TripleMasksOnce
  OBVIOUS
<1>1. ASSUME NEW p \in Parties, NEW w \in Workers, NEW k \in DOMAIN masking[p][w]
      PROVE  masking[p][w][k] <= 1
  <2>1. masking[p][w] = <<>> \/ Marked(p, w)
    BY DEF SpendsInv, ThreadSpends, MainSpends, Workers
  <2>2. CASE masking[p][w] = <<>>
    BY <2>2
  <2>3. CASE Marked(p, w)
    BY <2>3 DEF Marked
  <2> QED
    BY <2>1, <2>2, <2>3
<1>2. ASSUME NEW p \in Parties, NEW t \in Threads, tpc[p][t] = "done",
             NEW k \in DOMAIN masking[p][t]
      PROVE  masking[p][t][k] = 1
  <2>1. /\ ThreadSpends(p, t) /\ Marked(p, t)
        /\ level[p][t] \in Nat \ {0} /\ level[p][t] >= D /\ op[p][t] = 1
    BY <1>2 DEF SpendsInv, ThreadSpends
  <2>2. Parts(level[p][t]) = 1
    BY <2>1, FirstAndLast
  <2>3. Spent(p, t) = NumTriples * NumBins
    <3>1. PlaceOfE(p, t) \in {1, 3}
      BY DEF PlaceOfE
    <3>2. base[p][t] = (D - 1) * NumBins
      BY <2>1, <2>2 DEF ThreadSpends
    <3>3. NumBins \in Nat /\ D \in Nat \ {0} /\ NumTriples = D - 1
      BY DigitsExist, SizesAssumption
    <3>4. (D - 1) * NumBins \in Nat
      BY <3>3
    <3> QED
      BY <2>1, <3>1, <3>2, <3>3, <3>4 DEF Spent
  <2>4. Triples(t) = NumTriples * NumBins
    BY DEF Triples, Threads, Main
  <2>5. masking[p][t] = [j \in 0 .. Triples(t) - 1 |-> IF j < Spent(p, t) THEN 1 ELSE 0]
    BY <2>1 DEF Marked
  <2>6. NumTriples * NumBins \in Nat
    BY DigitsExist, SizesAssumption
  <2> QED
    BY <1>2, <2>3, <2>4, <2>5, <2>6
<1> QED
  BY <1>1, <1>2 DEF TripleMasksOnce

LEMMA SpendsInit == Init => SpendsInv
<1> SUFFICES ASSUME Init PROVE SpendsInv
  OBVIOUS
<1>1. Shapes
  BY DEF Init, Shapes, Table
<1>2. ASSUME NEW p \in Parties, NEW t \in Threads PROVE ThreadSpends(p, t)
  <2>1. /\ level[p][t] = 1 /\ op[p][t] = 1 /\ tpc[p][t] = "none" /\ base[p][t] = 0
        /\ masking[p][t] = <<>>
    BY DEF Init, Workers
  <2>2. (D - Parts(1)) * NumBins = 0
    <3>1. D \in Nat /\ NumBins \in Nat /\ Parts(1) = D
      BY DigitsExist, FirstAndLast, SizesAssumption
    <3> QED
      BY <3>1
  <2>3. 1 \in Nat \ {0}
    OBVIOUS
  <2> QED
    BY <2>1, <2>2, <2>3 DEF ThreadSpends
<1>3. ASSUME NEW p \in Parties PROVE MainSpends(p)
  BY DEF Init, MainSpends, Workers
<1> QED
  BY <1>1, <1>2, <1>3 DEF SpendsInv

\* A thread of which nothing changes, and a main thread.
LEMMA ThreadKept ==
    ASSUME NEW p, NEW t \in Threads, ThreadSpends(p, t),
           level'[p][t] = level[p][t], op'[p][t] = op[p][t], base'[p][t] = base[p][t],
           tpc'[p][t] = tpc[p][t], masking'[p][t] = masking[p][t]
    PROVE  ThreadSpends(p, t)'
<1>1. Spent(p, t)' = Spent(p, t)
  BY DEF Spent, PlaceOfE, Bits, Side, NumAnds
<1>2. Marked(p, t)' <=> Marked(p, t)
  BY <1>1 DEF Marked, Triples
<1> QED
  BY <1>2 DEF ThreadSpends, Parts, D

LEMMA MainKept ==
    ASSUME NEW p, MainSpends(p),
           op'[p][Main] = op[p][Main], base'[p][Main] = base[p][Main],
           masking'[p][Main] = masking[p][Main],
           pc[p] = "triple" <=> pc'[p] = "triple",
           pc'[p] \in {"triple", "launch"} =>
             pc[p] \in {"triple", "launch"} /\ \A t \in Threads : tpc'[p][t] = tpc[p][t]
    PROVE  MainSpends(p)'
<1>1. Spent(p, Main)' = Spent(p, Main)
  BY DEF Spent, PlaceOfE, Bits, Side
<1>2. Marked(p, Main)' <=> Marked(p, Main)
  BY <1>1 DEF Marked, Triples
<1> QED
  BY <1>2 DEF MainSpends

LEMMA SpendsMainTriples == SpendsInv /\ MainTriples => SpendsInv'
<1> SUFFICES ASSUME SpendsInv, MainTriples PROVE SpendsInv'
  OBVIOUS
<1> DEFINE fresh == [k \in 0 .. NumBins - 1 |-> 0]
<1>1. masking' = [p \in Parties |-> [masking[p] EXCEPT ![Main] = fresh]]
  BY DEF MainTriples, GiveTriples
<1>2. Main \in Workers /\ \A t \in Threads : t \in Workers /\ t # Main
  BY DEF Workers, Threads, Main
<1>3. /\ Table(masking', Parties, Workers)
      /\ \A p \in Parties, w \in Workers :
           masking'[p][w] = IF w = Main THEN fresh ELSE masking[p][w]
  <2> HIDE DEF fresh
  <2>1. Table(masking, Parties, Workers)
    BY DEF SpendsInv, Shapes
  <2>2. masking' = SetColumn(masking, Parties, Main, fresh)
    BY <1>1 DEF SetColumn
  <2> QED
    BY <1>2, <2>1, <2>2, TableColumn
<1>4. /\ tpc' = tpc /\ level' = level /\ base' = base /\ op' = op
      /\ pc' = [p \in Parties |-> "launch"] /\ \A p \in Parties : pc[p] = "triple"
  BY DEF MainTriples
<1>5. Shapes'
  BY <1>3, <1>4 DEF SpendsInv, Shapes
<1>6. ASSUME NEW p \in Parties, NEW t \in Threads PROVE ThreadSpends(p, t)'
  BY <1>2, <1>3, <1>4, ThreadKept DEF SpendsInv
<1>7. ASSUME NEW p \in Parties PROVE MainSpends(p)'
  <2>1. /\ MainSpends(p) /\ base'[p][Main] = 0 /\ op'[p][Main] = 1
        /\ pc'[p] = "launch" /\ masking'[p][Main] = fresh
        /\ \A t \in Threads : tpc'[p][t] = "none"
    BY <1>2, <1>3, <1>4 DEF SpendsInv, MainSpends
  <2>2. Spent(p, Main)' = 0
    <3>1. PlaceOfE(p, Main)' \in {1, 3}
      BY DEF PlaceOfE
    <3> QED
      BY <2>1, <3>1 DEF Spent
  <2>3. Marked(p, Main)'
    BY <2>1, <2>2 DEF Marked, Triples
  <2> QED
    BY <2>1, <2>3 DEF MainSpends
<1> QED
  BY <1>5, <1>6, <1>7 DEF SpendsInv

LEMMA SpendsLaunch ==
    ASSUME NEW p \in Parties, SpendsInv, Launch(p) PROVE SpendsInv'
<1>1. /\ pc[p] = "launch" /\ pc' = [pc EXCEPT ![p] = "threads"]
      /\ tpc' = [tpc EXCEPT ![p] = [t \in Threads |-> "leaf"]]
      /\ level' = level /\ base' = base /\ op' = op /\ masking' = masking
  BY DEF Launch, circuit
<1>2. /\ Table(tpc', Parties, Threads)
      /\ \A q \in Parties, t \in Threads :
           tpc'[q][t] = IF q = p THEN "leaf" ELSE tpc[q][t]
  <2>1. tpc' = SetRow(tpc, p, Threads, "leaf")
    BY <1>1 DEF SetRow
  <2>2. Table(tpc, Parties, Threads)
    BY DEF SpendsInv, Shapes
  <2> QED
    BY <2>1, <2>2, TableRow
<1>3. Shapes'
  BY <1>1, <1>2 DEF SpendsInv, Shapes
<1>4. ASSUME NEW q \in Parties, NEW t \in Threads PROVE ThreadSpends(q, t)'
  <2>1. CASE q # p
    BY <1>1, <1>2, <2>1, ThreadKept DEF SpendsInv
  <2>2. CASE q = p
    <3>1. ThreadSpends(p, t) /\ tpc[p][t] = "none" /\ tpc'[p][t] = "leaf"
      BY <1>1, <1>2 DEF SpendsInv, MainSpends
    <3> QED
      BY <1>1, <2>2, <3>1 DEF ThreadSpends, Parts, D
  <2> QED
    BY <2>1, <2>2
<1>5. ASSUME NEW q \in Parties PROVE MainSpends(q)'
  <2>1. pc'[q] = IF q = p THEN "threads" ELSE pc[q]
    BY <1>1 DEF SpendsInv, Shapes
  <2>2. MainSpends(q)
    BY DEF SpendsInv
  <2> QED
    BY <1>1, <1>2, <2>1, <2>2, MainKept
<1> QED
  BY <1>3, <1>4, <1>5 DEF SpendsInv

LEMMA SpendsLeafOTs ==
    ASSUME NEW t \in Threads, SpendsInv, LeafOTs(t) PROVE SpendsInv'
<1>1. /\ \A p \in Parties : tpc[p][t] = "leaf"
      /\ tpc' = [p \in Parties |-> [tpc[p] EXCEPT ![t] = "triples"]]
      /\ pc' = pc /\ level' = level /\ base' = base /\ op' = op /\ masking' = masking
  BY DEF LeafOTs
<1>2. /\ Table(tpc', Parties, Threads)
      /\ \A q \in Parties, u \in Threads :
           tpc'[q][u] = IF u = t THEN "triples" ELSE tpc[q][u]
  <2>1. tpc' = SetColumn(tpc, Parties, t, "triples")
    BY <1>1 DEF SetColumn
  <2>2. Table(tpc, Parties, Threads)
    BY DEF SpendsInv, Shapes
  <2> QED
    BY <2>1, <2>2, TableColumn
<1>3. Shapes'
  BY <1>1, <1>2 DEF SpendsInv, Shapes
<1>4. ASSUME NEW q \in Parties, NEW u \in Threads PROVE ThreadSpends(q, u)'
  <2>1. CASE u # t
    BY <1>1, <1>2, <2>1, ThreadKept DEF SpendsInv
  <2>2. CASE u = t
    <3>1. ThreadSpends(q, t) /\ tpc[q][t] = "leaf" /\ tpc'[q][t] = "triples"
      BY <1>1, <1>2 DEF SpendsInv
    <3> QED
      BY <1>1, <2>2, <3>1 DEF ThreadSpends, Parts, D
  <2> QED
    BY <2>1, <2>2
<1>5. ASSUME NEW q \in Parties PROVE MainSpends(q)'
  <2>1. MainSpends(q) /\ pc[q] \notin {"triple", "launch"}
    BY <1>1 DEF SpendsInv, MainSpends
  <2> QED
    BY <1>1, <2>1, MainKept
<1> QED
  BY <1>3, <1>4, <1>5 DEF SpendsInv

LEMMA SpendsThreadTriples ==
    ASSUME NEW t \in Threads, SpendsInv, ThreadTriples(t) PROVE SpendsInv'
<1> DEFINE fresh == [k \in 0 .. Triples(t) - 1 |-> 0]
<1>1. /\ \A p \in Parties : tpc[p][t] = "triples"
      /\ tpc' = [p \in Parties |-> [tpc[p] EXCEPT ![t] = "level"]]
      /\ pc' = pc /\ level' = level /\ base' = base /\ op' = op
      /\ masking' = [p \in Parties |-> [masking[p] EXCEPT ![t] = fresh]]
  <2>1. Count(t) = NumBins /\ Triples(t) = NumTriples * NumBins
    BY ThreadsGetHalves DEF Triples, Threads, Main
  <2> QED
    BY <2>1 DEF ThreadTriples, GiveTriples
<1>2. /\ Table(tpc', Parties, Threads)
      /\ \A q \in Parties, u \in Threads :
           tpc'[q][u] = IF u = t THEN "level" ELSE tpc[q][u]
  <2>1. tpc' = SetColumn(tpc, Parties, t, "level")
    BY <1>1 DEF SetColumn
  <2>2. Table(tpc, Parties, Threads)
    BY DEF SpendsInv, Shapes
  <2> QED
    BY <2>1, <2>2, TableColumn
<1>3. t \in Workers /\ \A u \in Threads : u \in Workers /\ u # Main
  BY DEF Workers, Threads, Main
<1>4. /\ Table(masking', Parties, Workers)
      /\ \A q \in Parties, w \in Workers :
           masking'[q][w] = IF w = t THEN fresh ELSE masking[q][w]
  <2> HIDE DEF fresh
  <2>1. Table(masking, Parties, Workers)
    BY DEF SpendsInv, Shapes
  <2>2. masking' = SetColumn(masking, Parties, t, fresh)
    BY <1>1 DEF SetColumn
  <2> QED
    BY <1>3, <2>1, <2>2, TableColumn
<1>5. Shapes'
  <2> HIDE DEF fresh
  <2> QED
    BY <1>1, <1>2, <1>4 DEF SpendsInv, Shapes
<1>6. ASSUME NEW q \in Parties, NEW u \in Threads PROVE ThreadSpends(q, u)'
  <2>1. CASE u # t
    <3> HIDE DEF fresh
    <3>1. /\ ThreadSpends(q, u) /\ u \in Workers
          /\ tpc'[q][u] = tpc[q][u] /\ masking'[q][u] = masking[q][u]
      BY <1>2, <1>3, <1>4, <2>1 DEF SpendsInv
    <3>2. /\ level'[q][u] = level[q][u] /\ op'[q][u] = op[q][u]
          /\ base'[q][u] = base[q][u]
      BY <1>1
    <3> QED
      BY <3>1, <3>2, ThreadKept
  <2>2. CASE u = t
    <3>1. /\ ThreadSpends(q, t) /\ tpc[q][t] = "triples" /\ tpc'[q][t] = "level"
          /\ masking'[q][t] = fresh
      <4> HIDE DEF fresh
      <4> QED
        BY <1>1, <1>2, <1>3, <1>4 DEF SpendsInv
    <3>2. level'[q][t] = 1 /\ op'[q][t] = 1 /\ base'[q][t] = 0
      <4>1. (D - Parts(1)) * NumBins = 0
        BY FirstAndLast, DigitsExist, SizesAssumption
      <4> QED
        BY <1>1, <3>1, <4>1 DEF ThreadSpends
    <3>3. Spent(q, t)' = 0
      <4>1. PlaceOfE(q, t)' \in {1, 3}
        BY DEF PlaceOfE
      <4> QED
        BY <3>2, <4>1 DEF Spent
    <3>4. Marked(q, t)'
      BY <3>1, <3>3 DEF Marked, Triples
    <3> HIDE DEF fresh
    <3> QED
      BY <1>1, <2>2, <3>1, <3>4 DEF ThreadSpends, Parts, D
  <2> QED
    BY <2>1, <2>2
<1>7. ASSUME NEW q \in Parties PROVE MainSpends(q)'
  <2>1. MainSpends(q) /\ pc[q] \notin {"triple", "launch"}
    BY <1>1 DEF SpendsInv, MainSpends
  <2>2. masking'[q][Main] = masking[q][Main]
    <3>1. Main \in Workers /\ Main # t
      BY DEF Workers, Threads, Main
    <3> HIDE DEF fresh
    <3> QED
      BY <1>4, <3>1
  <2> QED
    BY <1>1, <2>1, <2>2, MainKept
<1> QED
  BY <1>5, <1>6, <1>7 DEF SpendsInv

\* The next transfer of an AND has been made.
LEMMA Transferred ==
    ASSUME NEW p \in Parties, NEW w \in Workers, SpendsInv, Exchanging(p, w), op[p][w] <= 4,
           op' = [op EXCEPT ![p][w] = @ + 1], pc' = pc, tpc' = tpc,
           level' = level, base' = base, Table(masking, Parties, Workers)',
           \A q \in Parties, v \in Workers :
             <<q, v>> # <<p, w>> => masking'[q][v] = masking[q][v],
           Marked(p, w) => Marked(p, w)'
    PROVE  SpendsInv'
<1>1. /\ Table(op', Parties, Workers)
      /\ \A q \in Parties, v \in Workers :
           op'[q][v] = IF q = p /\ v = w THEN op[p][w] + 1 ELSE op[q][v]
  <2> DEFINE next == op[p][w] + 1
  <2>1. op' = SetCell(op, p, w, next)
    BY DEF SetCell
  <2>2. Table(op, Parties, Workers)
    BY DEF SpendsInv, Shapes
  <2> HIDE DEF next
  <2>3. /\ Table(op', Parties, Workers)
        /\ \A q \in Parties, v \in Workers :
             op'[q][v] = IF q = p /\ v = w THEN next ELSE op[q][v]
    <3>1. /\ Table(SetCell(op, p, w, next), Parties, Workers)
          /\ \A q \in Parties, v \in Workers :
               SetCell(op, p, w, next)[q][v] = IF q = p /\ v = w THEN next ELSE op[q][v]
      BY <2>2, TableCell
    <3> QED
      BY <2>1, <3>1, Zenon
  <2> QED
    BY <2>3 DEF next
<1>2. Shapes'
  BY <1>1 DEF SpendsInv, Shapes
<1>3. Main \in Workers /\ \A u \in Threads : u \in Workers /\ u # Main
  BY DEF Workers, Threads, Main
<1>4. ASSUME NEW q \in Parties, NEW u \in Threads PROVE ThreadSpends(q, u)'
  <2>1. CASE q = p /\ u = w
    <3>1. ThreadSpends(p, u) /\ tpc[p][u] = "level" /\ level[p][u] < D
      BY <1>3, <2>1 DEF SpendsInv, Exchanging, D
    <3>2. Marked(p, u)' /\ op'[p][u] = op[p][u] + 1
      BY <1>1, <1>3, <2>1, <3>1 DEF ThreadSpends
    <3>3. op'[p][u] \in 1 .. 5 /\ ~(level[p][u] >= D)
      BY <2>1, <3>1, <3>2, DigitsExist DEF ThreadSpends
    <3> QED
      BY <2>1, <3>1, <3>2, <3>3 DEF ThreadSpends, Parts, D
  <2>2. CASE ~(q = p /\ u = w)
    <3>1. ThreadSpends(q, u) /\ u \in Workers /\ op'[q][u] = op[q][u]
      BY <1>1, <1>3, <2>2 DEF SpendsInv
    <3>2. masking'[q][u] = masking[q][u]
      BY <1>3, <2>2
    <3> QED
      BY <3>1, <3>2, ThreadKept
  <2> QED
    BY <2>1, <2>2
<1>5. ASSUME NEW q \in Parties PROVE MainSpends(q)'
  <2>1. CASE q = p /\ w = Main
    <3>1. MainSpends(p) /\ pc[p] = "final"
      BY <2>1 DEF SpendsInv, Exchanging
    <3>2. Marked(p, Main)' /\ op'[p][Main] = op[p][Main] + 1
      BY <1>1, <1>3, <2>1, <3>1 DEF MainSpends
    <3>3. op'[p][Main] \in 1 .. 5
      BY <2>1, <3>1, <3>2 DEF MainSpends
    <3> QED
      BY <2>1, <3>1, <3>2, <3>3 DEF MainSpends
  <2>2. CASE ~(q = p /\ w = Main)
    <3>1. MainSpends(q) /\ op'[q][Main] = op[q][Main]
      BY <1>1, <1>3, <2>2 DEF SpendsInv
    <3>2. masking'[q][Main] = masking[q][Main]
      BY <1>3, <2>2
    <3> QED
      BY <3>1, <3>2, MainKept
  <2> QED
    BY <2>1, <2>2
<1> QED
  BY <1>2, <1>4, <1>5 DEF SpendsInv

\* The order in which a worker sends and receives has one place for e.
LEMMA EHasItsPlace ==
    ASSUME NEW p, NEW w, NEW o \in 1 .. 4
    PROVE  /\ Ops(p, w)[o] = "e" <=> o = PlaceOfE(p, w)
           /\ PlaceOfE(p, w) \in {1, 3}
<1>1. CASE Side(p, w) = ALICE
  BY <1>1 DEF Ops, PlaceOfE
<1>2. CASE Side(p, w) # ALICE
  BY <1>2 DEF Ops, PlaceOfE
<1> QED
  BY <1>1, <1>2

\* Sending e marks the triples of the level, the first of those not yet marked.
LEMMA MarkingOnce ==
    ASSUME NEW b \in Nat, NEW n \in Nat, NEW N \in Int,
           NEW m, m = [k \in 0 .. N - 1 |-> IF k < b THEN 1 ELSE 0]
    PROVE  [k \in DOMAIN m |-> IF k - b \in 0 .. n - 1 THEN m[k] + 1 ELSE m[k]]
             = [k \in 0 .. N - 1 |-> IF k < b + n THEN 1 ELSE 0]
<1>1. DOMAIN m = 0 .. N - 1
  OBVIOUS
<1>2. ASSUME NEW k \in 0 .. N - 1
      PROVE  (IF k - b \in 0 .. n - 1 THEN m[k] + 1 ELSE m[k]) = IF k < b + n THEN 1 ELSE 0
  <2>1. CASE k < b
    BY <2>1
  <2>2. CASE b <= k /\ k < b + n
    BY <2>2
  <2>3. CASE b + n <= k
    BY <2>3
  <2> QED
    BY <2>1, <2>2, <2>3
<1> QED
  BY <1>1, <1>2

LEMMA SpendsSendShare ==
    ASSUME NEW p \in Parties, NEW w \in Workers, SpendsInv, SendShare(p, w)
    PROVE  SpendsInv'
<1> DEFINE o == op[p][w]
           m == masking[p][w]
           b == base[p][w]
           i == level[p][w]
           new == [k \in DOMAIN m |-> IF k - b \in Ands(p, w) THEN m[k] + 1 ELSE m[k]]
<1>1. /\ Exchanging(p, w) /\ o <= 4 /\ Ops(p, w)[o] \in {"e", "f"}
      /\ op' = [op EXCEPT ![p][w] = @ + 1]
      /\ pc' = pc /\ tpc' = tpc /\ level' = level /\ base' = base
  BY DEF SendShare
<1>2. masking' = IF Ops(p, w)[o] = "e" THEN SetCell(masking, p, w, new) ELSE masking
  BY DEF SendShare, SetCell
<1>3. o \in 1 .. 4 /\ b \in Nat /\ (w # Main => i \in Nat \ {0})
  <2>1. CASE w = Main
    BY <1>1, <2>1 DEF SpendsInv, MainSpends
  <2>2. CASE w # Main
    <3>1. w \in Threads /\ ThreadSpends(p, w)
      BY <2>2 DEF SpendsInv, Workers
    <3>2. i \in Nat \ {0} /\ b = (D - Parts(i)) * NumBins /\ o \in 1 .. 5
      BY <3>1 DEF ThreadSpends
    <3>3. Parts(i) <= D /\ Parts(i) \in Nat /\ D \in Nat /\ NumBins \in Nat
      <4> HIDE DEF i
      <4>1. Parts(i) \in Nat /\ (Parts(i) - 1) * i < D /\ D \in Nat
        BY <3>2, PartsBounds, DigitsExist
      <4>2. (Parts(i) - 1) * 1 <= (Parts(i) - 1) * i
        <5> DEFINE x == Parts(i) - 1
        <5>1. x \in Nat /\ i - 1 \in Nat
          BY <3>2, PartsBounds
        <5> HIDE DEF x
        <5>2. x * (i - 1) \in Nat /\ x * i = x * (i - 1) + x
          BY <5>1, <3>2
        <5> QED
          BY <5>1, <5>2 DEF x
      <4>3. (Parts(i) - 1) * i \in Int
        BY <3>2, <4>1
      <4> QED
        BY <4>1, <4>2, <4>3, SizesAssumption
    <3>4. b \in Nat
      <4>1. D - Parts(i) \in Nat
        BY <3>3
      <4> QED
        BY <3>2, <3>3, <4>1
    <3> QED
      BY <1>1, <3>2, <3>4
  <2> QED
    BY <2>1, <2>2
<1>4. Ops(p, w)[o] = "e" <=> o = PlaceOfE(p, w)
  BY <1>3, EHasItsPlace
<1>5. op'[p][w] = o + 1
  <2>1. Table(op, Parties, Workers) /\ op' = SetCell(op, p, w, o + 1)
    BY <1>1 DEF SpendsInv, Shapes, SetCell
  <2> HIDE DEF o
  <2> QED
    BY <2>1, TableCell
<1>6. Table(masking, Parties, Workers)
  BY DEF SpendsInv, Shapes
<1>7. /\ Table(masking', Parties, Workers)
      /\ \A q \in Parties, v \in Workers :
           masking'[q][v] = IF Ops(p, w)[o] = "e" /\ q = p /\ v = w THEN new
                            ELSE masking[q][v]
  <2> HIDE DEF new, o
  <2>1. CASE Ops(p, w)[o] = "e"
    BY <1>2, <1>6, <2>1, TableCell
  <2>2. CASE Ops(p, w)[o] # "e"
    BY <1>2, <1>6, <2>2
  <2> QED
    BY <2>1, <2>2
<1>8. ASSUME Marked(p, w) PROVE Marked(p, w)'
  <2> DEFINE n == Bits(w, i)
             s == Spent(p, w)
  <2>1. n \in Nat /\ Ands(p, w) = 0 .. n - 1
    BY <1>3, AndsWhole
  <2>2. PlaceOfE(p, w) \in {1, 3} /\ PlaceOfE(p, w)' = PlaceOfE(p, w)
    BY DEF PlaceOfE, Side
  <2>3. Spent(p, w)' = b + IF o + 1 > PlaceOfE(p, w) THEN n ELSE 0
    BY <1>1, <1>5, <2>2 DEF Spent, Bits, NumAnds
  <2>4. s = b + IF o > PlaceOfE(p, w) THEN n ELSE 0
    BY DEF Spent
  <2>5. m = [k \in 0 .. Triples(w) - 1 |-> IF k < s THEN 1 ELSE 0]
    BY <1>8 DEF Marked
  <2>6. CASE o = PlaceOfE(p, w)
    <3>1. s = b /\ Spent(p, w)' = b + n
      BY <1>3, <2>1, <2>2, <2>3, <2>4, <2>6
    <3>2. Triples(w) \in Int
      BY DigitsExist, SizesAssumption DEF Triples
    <3>3. new = [k \in 0 .. Triples(w) - 1 |-> IF k < b + n THEN 1 ELSE 0]
      <4>1. new = [k \in DOMAIN m |-> IF k - b \in 0 .. n - 1 THEN m[k] + 1 ELSE m[k]]
        BY <2>1
      <4> HIDE DEF new, m, b, n, s
      <4> QED
        BY <1>3, <2>1, <2>5, <3>1, <3>2, <4>1, MarkingOnce
    <3>4. masking'[p][w] = new
      BY <1>4, <1>7, <2>6
    <3> HIDE DEF new
    <3> QED
      BY <3>1, <3>3, <3>4 DEF Marked, Triples
  <2>7. CASE o # PlaceOfE(p, w)
    <3>1. Spent(p, w)' = s
      BY <1>3, <2>2, <2>3, <2>4, <2>7
    <3>2. masking'[p][w] = m
      BY <1>4, <1>7, <2>7
    <3> QED
      BY <2>5, <3>1, <3>2 DEF Marked, Triples
  <2> QED
    BY <2>6, <2>7
<1>9. \A q \in Parties, v \in Workers :
        <<q, v>> # <<p, w>> => masking'[q][v] = masking[q][v]
  BY <1>7
<1> QED
  BY <1>1, <1>7, <1>8, <1>9, Transferred

LEMMA SpendsReceiveShare ==
    ASSUME NEW p \in Parties, NEW w \in Workers, SpendsInv, ReceiveShare(p, w)
    PROVE  SpendsInv'
<1>1. /\ Exchanging(p, w) /\ op[p][w] <= 4 /\ Ops(p, w)[op[p][w]] = "receive"
      /\ op' = [op EXCEPT ![p][w] = @ + 1] /\ masking' = masking
      /\ pc' = pc /\ tpc' = tpc /\ level' = level /\ base' = base
  BY DEF ReceiveShare
<1>2. op[p][w] \in 1 .. 4
  <2>1. op[p][w] \in 1 .. 5
    BY DEF SpendsInv, MainSpends, ThreadSpends, Workers
  <2> QED
    BY <1>1, <2>1
<1>3. op[p][w] # PlaceOfE(p, w) /\ PlaceOfE(p, w) \in {1, 3}
  BY <1>1, <1>2, EHasItsPlace
<1>4. Table(masking, Parties, Workers)'
  BY <1>1 DEF SpendsInv, Shapes
<1>5. op'[p][w] = op[p][w] + 1
  <2> DEFINE next == op[p][w] + 1
  <2>1. Table(op, Parties, Workers) /\ op' = SetCell(op, p, w, next)
    BY <1>1 DEF SpendsInv, Shapes, SetCell
  <2> HIDE DEF next
  <2>2. op'[p][w] = next
    BY <2>1, TableCell
  <2> QED
    BY <2>2 DEF next
<1>6. Marked(p, w) => Marked(p, w)'
  <2>1. PlaceOfE(p, w)' = PlaceOfE(p, w)
    BY DEF PlaceOfE, Side
  <2>2. Spent(p, w)' = Spent(p, w)
    BY <1>1, <1>2, <1>3, <1>5, <2>1 DEF Spent, Bits, NumAnds
  <2> QED
    BY <1>1, <2>2 DEF Marked, Triples
<1> QED
  BY <1>1, <1>4, <1>6, Transferred

LEMMA SpendsFinishLevel ==
    ASSUME NEW p \in Parties, NEW t \in Threads, SpendsInv, FinishLevel(p, t)
    PROVE  SpendsInv'
<1> DEFINE i == level[p][t]
           nb == NextBase(p, t)
           twice == 2 * i
<1>1. /\ Exchanging(p, t) /\ op[p][t] = 5 /\ pc' = pc /\ tpc' = tpc /\ masking' = masking
      /\ base' = SetCell(base, p, t, nb)
      /\ level' = SetCell(level, p, t, twice)
      /\ op' = SetCell(op, p, t, 1)
  BY DEF FinishLevel, SetCell
<1>2. /\ tpc[p][t] = "level" /\ i < D /\ i \in Nat \ {0} /\ Marked(p, t)
      /\ base[p][t] = (D - Parts(i)) * NumBins /\ ThreadSpends(p, t)
  BY <1>1 DEF SpendsInv, ThreadSpends, Exchanging, D, Threads, Main
<1>3. /\ Table(base', Parties, Workers) /\ Table(op', Parties, Workers)
      /\ Table(level', Parties, Threads)
      /\ \A q \in Parties, v \in Workers :
           /\ base'[q][v] = IF q = p /\ v = t THEN nb ELSE base[q][v]
           /\ op'[q][v] = IF q = p /\ v = t THEN 1 ELSE op[q][v]
      /\ \A q \in Parties, u \in Threads :
           level'[q][u] = IF q = p /\ u = t THEN twice ELSE level[q][u]
  <2>1. /\ Table(base, Parties, Workers) /\ Table(op, Parties, Workers)
        /\ Table(level, Parties, Threads) /\ t \in Workers
    BY DEF SpendsInv, Shapes, Workers
  <2> HIDE DEF nb, twice
  <2>2. /\ Table(base', Parties, Workers)
        /\ \A q \in Parties, v \in Workers :
             base'[q][v] = IF q = p /\ v = t THEN nb ELSE base[q][v]
    BY <1>1, <2>1, TableCell
  <2>3. /\ Table(level', Parties, Threads)
        /\ \A q \in Parties, v \in Threads :
             level'[q][v] = IF q = p /\ v = t THEN twice ELSE level[q][v]
    BY <1>1, <2>1, TableCell
  <2>4. /\ Table(op', Parties, Workers)
        /\ \A q \in Parties, v \in Workers :
             op'[q][v] = IF q = p /\ v = t THEN 1 ELSE op[q][v]
    <3> DEFINE first == 1
    <3>1. op' = SetCell(op, p, t, first)
      BY <1>1
    <3> HIDE DEF first
    <3>2. /\ Table(op', Parties, Workers)
          /\ \A q \in Parties, v \in Workers :
               op'[q][v] = IF q = p /\ v = t THEN first ELSE op[q][v]
      BY <2>1, <3>1, TableCell
    <3> QED
      BY <3>2 DEF first
  <2> QED
    BY <2>2, <2>3, <2>4
<1>4. Shapes'
  BY <1>1, <1>3 DEF SpendsInv, Shapes
<1>5. Main \in Workers /\ \A u \in Threads : u \in Workers /\ u # Main
  BY DEF Workers, Threads, Main
<1>6. /\ twice \in Nat \ {0} /\ nb = base[p][t] + NumAnds(i) * NumBins
      /\ nb = (D - Parts(twice)) * NumBins
  <2>1. nb = base[p][t] + NumAnds(i) * NumBins
    BY ThreadsGetHalves DEF NextBase
  <2>2. Parts(twice) = Parts(i) - NumAnds(i) /\ NumAnds(i) \in Nat /\ Parts(i) \in Nat
    BY <1>2, LevelHalves, PartsBounds
  <2>3. D \in Nat /\ NumBins \in Nat
    BY DigitsExist, SizesAssumption
  <2>4. (D - (Parts(i) - NumAnds(i))) * NumBins
          = (D - Parts(i)) * NumBins + NumAnds(i) * NumBins
    BY <2>2, <2>3
  <2> QED
    BY <1>2, <2>1, <2>2, <2>4
<1>7. ASSUME NEW q \in Parties, NEW u \in Threads PROVE ThreadSpends(q, u)'
  <2>1. CASE q = p /\ u = t
    <3>1. level'[p][t] = twice /\ op'[p][t] = 1 /\ base'[p][t] = nb
      BY <1>3, <1>5
    <3>2. Spent(p, t)' = Spent(p, t)
      <4>1. PlaceOfE(p, t) \in {1, 3} /\ PlaceOfE(p, t)' = PlaceOfE(p, t)
        BY DEF PlaceOfE, Side
      <4>2. Spent(p, t) = base[p][t] + NumAnds(i) * NumBins
        BY <1>1, <1>5, <4>1 DEF Spent, Bits
      <4>3. Spent(p, t)' = nb
        <5>1. nb \in Int
          BY <1>2, <1>6, PartsBounds, DigitsExist, SizesAssumption
        <5> HIDE DEF nb
        <5> QED
          BY <3>1, <4>1, <5>1 DEF Spent
      <4> QED
        BY <1>6, <4>2, <4>3
    <3>3. Marked(p, t)'
      BY <1>1, <1>2, <3>2 DEF Marked, Triples
    <3> HIDE DEF nb, twice
    <3> QED
      BY <1>1, <1>2, <1>6, <2>1, <3>1, <3>3 DEF ThreadSpends, Parts, D
  <2>2. CASE ~(q = p /\ u = t)
    <3> HIDE DEF nb, twice
    <3>1. /\ ThreadSpends(q, u) /\ op'[q][u] = op[q][u] /\ base'[q][u] = base[q][u]
          /\ level'[q][u] = level[q][u]
      BY <1>3, <1>5, <2>2 DEF SpendsInv
    <3>2. tpc'[q][u] = tpc[q][u] /\ masking'[q][u] = masking[q][u]
      BY <1>1
    <3> QED
      BY <3>1, <3>2, ThreadKept
  <2> QED
    BY <2>1, <2>2
<1>8. ASSUME NEW q \in Parties PROVE MainSpends(q)'
  <2> HIDE DEF nb, twice
  <2>1. /\ MainSpends(q) /\ op'[q][Main] = op[q][Main] /\ base'[q][Main] = base[q][Main]
    BY <1>3, <1>5 DEF SpendsInv
  <2> QED
    BY <1>1, <2>1, MainKept
<1> QED
  BY <1>4, <1>7, <1>8 DEF SpendsInv

LEMMA SpendsFinishThread ==
    ASSUME NEW p \in Parties, NEW t \in Threads, SpendsInv, FinishThread(p, t)
    PROVE  SpendsInv'
<1>1. /\ tpc[p][t] = "level" /\ level[p][t] >= D /\ pc' = pc
      /\ tpc' = SetCell(tpc, p, t, "done")
      /\ level' = level /\ base' = base /\ op' = op /\ masking' = masking
  BY DEF FinishThread, circuit, SetCell, D
<1>2. /\ Table(tpc', Parties, Threads)
      /\ \A q \in Parties, u \in Threads :
           tpc'[q][u] = IF q = p /\ u = t THEN "done" ELSE tpc[q][u]
  <2>1. Table(tpc, Parties, Threads)
    BY DEF SpendsInv, Shapes
  <2> QED
    BY <1>1, <2>1, TableCell
<1>3. Shapes'
  BY <1>1, <1>2 DEF SpendsInv, Shapes
<1>4. ASSUME NEW q \in Parties, NEW u \in Threads PROVE ThreadSpends(q, u)'
  <2>1. CASE q = p /\ u = t
    <3>1. tpc'[p][t] = "done" /\ ThreadSpends(p, t)
      BY <1>2 DEF SpendsInv
    <3>2. Spent(p, t)' = Spent(p, t)
      BY <1>1 DEF Spent, PlaceOfE, Bits, Side, NumAnds
    <3>3. Marked(p, t)'
      BY <1>1, <3>1, <3>2 DEF ThreadSpends, Marked, Triples
    <3> QED
      BY <1>1, <2>1, <3>1, <3>3 DEF ThreadSpends, Parts, D
  <2>2. CASE ~(q = p /\ u = t)
    <3>1. ThreadSpends(q, u) /\ tpc'[q][u] = tpc[q][u]
      BY <1>2, <2>2 DEF SpendsInv
    <3> QED
      BY <1>1, <3>1, ThreadKept
  <2> QED
    BY <2>1, <2>2
<1>5. ASSUME NEW q \in Parties PROVE MainSpends(q)'
  <2>1. MainSpends(q)
    BY DEF SpendsInv
  <2>2. pc[q] \in {"triple", "launch"} => \A u \in Threads : tpc'[q][u] = tpc[q][u]
    BY <1>1, <1>2, <2>1 DEF MainSpends
  <2> QED
    BY <1>1, <2>1, <2>2, MainKept
<1> QED
  BY <1>3, <1>4, <1>5 DEF SpendsInv

\* The main thread goes on, having launched its threads.
LEMMA SpendsMainGoesOn ==
    ASSUME NEW p \in Parties, SpendsInv, pc[p] \notin {"triple", "launch"},
           NEW place, place \notin {"triple", "launch"}, pc' = [pc EXCEPT ![p] = place],
           UNCHANGED <<tpc, level, base, op, masking>>
    PROVE  SpendsInv'
<1>1. Shapes'
  BY DEF SpendsInv, Shapes
<1>2. ASSUME NEW q \in Parties, NEW t \in Threads PROVE ThreadSpends(q, t)'
  BY ThreadKept DEF SpendsInv
<1>3. ASSUME NEW q \in Parties PROVE MainSpends(q)'
  <2>1. pc'[q] = IF q = p THEN place ELSE pc[q]
    BY DEF SpendsInv, Shapes
  <2>2. MainSpends(q)
    BY DEF SpendsInv
  <2> QED
    BY <2>1, <2>2, MainKept
<1> QED
  BY <1>1, <1>2, <1>3 DEF SpendsInv

LEMMA SpendsStep == SpendsInv /\ [Next]_vars => SpendsInv'
<1> SUFFICES ASSUME SpendsInv, [Next]_vars PROVE SpendsInv'
  OBVIOUS
<1>1. CASE MainTriples
  BY <1>1, SpendsMainTriples
<1>2. ASSUME NEW t \in Threads, LeafOTs(t) \/ ThreadTriples(t) PROVE SpendsInv'
  BY <1>2, SpendsLeafOTs, SpendsThreadTriples
<1>3. ASSUME NEW p \in Parties, Launch(p) PROVE SpendsInv'
  BY <1>3, SpendsLaunch
<1>4. ASSUME NEW p \in Parties, Join(p) PROVE SpendsInv'
  <2>1. /\ pc[p] = "threads" /\ pc' = [pc EXCEPT ![p] = "final"]
        /\ UNCHANGED <<tpc, level, base, op, masking>>
    BY <1>4 DEF Join, circuit
  <2> QED
    BY <2>1, SpendsMainGoesOn
<1>5. ASSUME NEW p \in Parties, Return(p) PROVE SpendsInv'
  <2>1. /\ pc[p] = "final" /\ pc' = [pc EXCEPT ![p] = "returned"]
        /\ UNCHANGED <<tpc, level, base, op, masking>>
    BY <1>5 DEF Return, circuit
  <2> QED
    BY <2>1, SpendsMainGoesOn
<1>6. ASSUME NEW p \in Parties, NEW w \in Workers, SendShare(p, w) \/ ReceiveShare(p, w)
      PROVE  SpendsInv'
  BY <1>6, SpendsSendShare, SpendsReceiveShare
<1>7. ASSUME NEW p \in Parties, NEW t \in Threads, FinishLevel(p, t) \/ FinishThread(p, t)
      PROVE  SpendsInv'
  BY <1>7, SpendsFinishLevel, SpendsFinishThread
<1>8. CASE UNCHANGED vars
  <2>1. UNCHANGED <<pc, tpc, level, base, op, masking>>
    BY <1>8 DEF vars, circuit
  <2>2. Shapes'
    BY <2>1 DEF SpendsInv, Shapes
  <2>3. ASSUME NEW q \in Parties, NEW t \in Threads PROVE ThreadSpends(q, t)'
    BY <2>1, ThreadKept DEF SpendsInv
  <2>4. ASSUME NEW q \in Parties PROVE MainSpends(q)'
    BY <2>1, MainKept DEF SpendsInv
  <2> QED
    BY <2>2, <2>3, <2>4 DEF SpendsInv
<1> QED
  BY <1>1, <1>2, <1>3, <1>4, <1>5, <1>6, <1>7, <1>8 DEF Next

\* No triple hides more than one pair of operands, and when a thread of
\* perform_equality is done it has spent all that generate_triples made for it.
THEOREM TripleMasksOnceInvariant == Spec => []TripleMasksOnce
<1>1. Spec => []SpendsInv
  BY SpendsInit, SpendsStep, PTL DEF Spec
<1> QED
  BY <1>1, SpendsImpliesOnce, PTL

-----------------------------------------------------------------------------
(* The ANDs                                                                *)

Bit == {0, 1}

LEMMA XorOfBits ==
    \A x, y \in Bit : Xor(x, y) \in Bit /\ (Xor(x, y) = 1 <=> x # y)
<1> SUFFICES ASSUME NEW x \in {0, 1}, NEW y \in {0, 1}
             PROVE  Xor(x, y) \in {0, 1} /\ (Xor(x, y) = 1 <=> x # y)
  BY DEF Bit
<1>1. (0 + 0) % 2 = 0 /\ (0 + 1) % 2 = 1 /\ (1 + 0) % 2 = 1 /\ (1 + 1) % 2 = 0
  OBVIOUS
<1> QED
  BY <1>1 DEF Xor

LEMMA ProductOfBits ==
    \A x, y \in Bit : x * y \in Bit /\ (x * y = 1 <=> x = 1 /\ y = 1)
  BY DEF Bit

\* A party's share of an AND; prod is e * f on the one side, and 0 on the other.
ShareOf(prod, e, f, a, b, c) == Xor(Xor(prod, f * a), Xor(e * b, c))

\* The shares of x and y, hidden by a triple and opened as e and f, become shares of the
\* AND of x and y.
Opened(aA, aB, bA, bB, cA, cB, xA, xB, yA, yB, e, f) ==
    /\ {aA, aB, bA, bB, cA, cB} \subseteq Bit
    /\ {xA, xB, yA, yB, e, f} \subseteq Bit
    /\ Xor(cA, cB) = Xor(aA, aB) * Xor(bA, bB)
    /\ e = 1 <=> (Xor(aA, xA) # Xor(aB, xB))
    /\ f = 1 <=> (Xor(bA, yA) # Xor(bB, yB))

LEMMA AndOfShares ==
    ASSUME NEW aA, NEW aB, NEW bA, NEW bB, NEW cA, NEW cB,
           NEW xA, NEW xB, NEW yA, NEW yB, NEW e, NEW f,
           Opened(aA, aB, bA, bB, cA, cB, xA, xB, yA, yB, e, f)
    PROVE  LET zA == ShareOf(e * f, e, f, aA, bA, cA)
               zB == ShareOf(0, e, f, aB, bB, cB)
           IN  zA \in Bit /\ zB \in Bit /\ (Xor(zA, zB) = 1 <=> xA # xB /\ yA # yB)
<1> DEFINE u1 == e * f
           u2 == f * aA
           u3 == e * bA
           u4 == f * aB
           u5 == e * bB
           v1 == Xor(u1, u2)
           v2 == Xor(u3, cA)
           v3 == Xor(0, u4)
           v4 == Xor(u5, cB)
           zA == Xor(v1, v2)
           zB == Xor(v3, v4)
           ab == Xor(aA, aB)
           bb == Xor(bA, bB)
<1>0. /\ aA \in Bit /\ aB \in Bit /\ bA \in Bit /\ bB \in Bit /\ cA \in Bit /\ cB \in Bit
      /\ xA \in Bit /\ xB \in Bit /\ yA \in Bit /\ yB \in Bit /\ e \in Bit /\ f \in Bit
      /\ Xor(cA, cB) = Xor(aA, aB) * Xor(bA, bB)
      /\ e = 1 <=> (Xor(aA, xA) # Xor(aB, xB))
      /\ f = 1 <=> (Xor(bA, yA) # Xor(bB, yB))
  BY DEF Opened
<1>1. /\ u1 \in Bit /\ (u1 = 1 <=> e = 1 /\ f = 1)
      /\ u2 \in Bit /\ (u2 = 1 <=> f = 1 /\ aA = 1)
      /\ u3 \in Bit /\ (u3 = 1 <=> e = 1 /\ bA = 1)
      /\ u4 \in Bit /\ (u4 = 1 <=> f = 1 /\ aB = 1)
      /\ u5 \in Bit /\ (u5 = 1 <=> e = 1 /\ bB = 1)
  BY <1>0, ProductOfBits
<1>2. 0 \in Bit
  BY DEF Bit
<1> HIDE DEF u1, u2, u3, u4, u5
<1>3. /\ v1 \in Bit /\ (v1 = 1 <=> u1 # u2) /\ v2 \in Bit /\ (v2 = 1 <=> u3 # cA)
      /\ v3 \in Bit /\ (v3 = 1 <=> 0 # u4) /\ v4 \in Bit /\ (v4 = 1 <=> u5 # cB)
  BY <1>0, <1>1, <1>2, XorOfBits
<1> HIDE DEF v1, v2, v3, v4
<1>4. /\ zA \in Bit /\ (zA = 1 <=> v1 # v2) /\ zB \in Bit /\ (zB = 1 <=> v3 # v4)
  BY <1>3, XorOfBits
<1>5. /\ ab \in Bit /\ (ab = 1 <=> aA # aB) /\ bb \in Bit /\ (bb = 1 <=> bA # bB)
  BY <1>0, XorOfBits
<1>6. cA # cB <=> aA # aB /\ bA # bB
  <2>1. Xor(cA, cB) = 1 <=> cA # cB
    BY <1>0, XorOfBits
  <2>2. ab * bb = 1 <=> ab = 1 /\ bb = 1
    BY <1>5, ProductOfBits
  <2> QED
    BY <1>0, <1>5, <2>1, <2>2
<1>7. /\ Xor(aA, xA) \in Bit /\ (Xor(aA, xA) = 1 <=> aA # xA)
      /\ Xor(aB, xB) \in Bit /\ (Xor(aB, xB) = 1 <=> aB # xB)
      /\ Xor(bA, yA) \in Bit /\ (Xor(bA, yA) = 1 <=> bA # yA)
      /\ Xor(bB, yB) \in Bit /\ (Xor(bB, yB) = 1 <=> bB # yB)
  BY <1>0, XorOfBits
<1> HIDE DEF zA, zB
<1>8. Xor(zA, zB) = 1 <=> zA # zB
  BY <1>4, XorOfBits
<1>9. zA # zB <=> xA # xB /\ yA # yB
  BY <1>0, <1>1, <1>3, <1>4, <1>6, <1>7 DEF Bit
<1> QED
  BY <1>4, <1>8, <1>9 DEF ShareOf, zA, zB, v1, v2, v3, v4, u1, u2, u3, u4, u5

\* Where digit i of comparison j of a thread is.
Place(i, j) == i * NumBins + j

LEMMA PlaceIs ==
    ASSUME NEW i \in Nat, NEW j \in 0 .. NumBins - 1, NEW t \in Threads
    PROVE  /\ Place(i, j) \in Nat
           /\ Place(i, j) \div Count(t) = i /\ Place(i, j) % Count(t) = j
           /\ i < D <=> Place(i, j) \in LeafIndices(t)
<1>1. NumBins \in Nat \ {0} /\ Count(t) = NumBins /\ D \in Nat
  BY SizesAssumption, ThreadsGetHalves, DigitsExist
<1>2. i * NumBins \in Nat /\ i * NumBins = NumBins * i
  BY <1>1
<1>3. Place(i, j) \in Nat /\ Place(i, j) = NumBins * i + j
  BY <1>1, <1>2 DEF Place
<1>4. Place(i, j) \div NumBins = i /\ Place(i, j) % NumBins = j
  BY <1>1, <1>3, QuotientIs
<1>5. i < D <=> Place(i, j) < D * NumBins
  <2>1. i < D <=> i + 1 <= D
    BY <1>1
  <2>2. (i + 1) * NumBins = i * NumBins + NumBins
    BY <1>1
  <2>3. i + 1 <= D <=> (i + 1) * NumBins <= D * NumBins
    BY <1>1, ProductOrder
  <2>4. i < D <=> i * NumBins < D * NumBins
    BY <1>1, ProductOrder
  <2>5. D * NumBins \in Nat
    BY <1>1
  <2> QED
    BY <1>1, <1>2, <2>1, <2>2, <2>3, <2>4, <2>5 DEF Place
<1>6. LeafIndices(t) = 0 .. D * NumBins - 1 /\ D * NumBins \in Nat
  BY <1>1 DEF LeafIndices, D
<1> QED
  BY <1>1, <1>3, <1>4, <1>5, <1>6

LEMMA PlacesAreAll ==
    ASSUME NEW t \in Threads, NEW x \in Nat
    PROVE  \E i \in Nat, j \in 0 .. NumBins - 1 : x = Place(i, j)
<1>1. NumBins \in Nat \ {0}
  BY SizesAssumption
<1> DEFINE i == x \div NumBins
           j == x % NumBins
<1>2. i \in Nat /\ j \in 0 .. NumBins - 1 /\ x = NumBins * i + j
  BY <1>1, Division
<1> HIDE DEF i, j
<1>3. NumBins * i = i * NumBins
  BY <1>1, <1>2
<1> QED
  BY <1>2, <1>3 DEF Place

\* The AND k of a level of distance i joins digits 2*q*i and (2*q + 1)*i of comparison j,
\* where k is at place (q, j) of the level.
LEMMA OperandsAre ==
    ASSUME NEW t \in Threads, NEW i \in Nat \ {0},
           NEW q \in Nat, NEW j \in 0 .. NumBins - 1
    PROVE  /\ LeftAt(t, i, Place(q, j)) = Place((2 * i) * q, j)
           /\ RightAt(t, i, Place(q, j)) = Place((2 * i) * q + i, j)
           /\ q < NumAnds(i) <=> Place(q, j) \in 0 .. NumAnds(i) * NumBins - 1
           /\ q < NumAnds(i) <=> (2 * i) * q + i < D
<1>1. NumBins \in Nat \ {0} /\ Count(t) = NumBins
  BY SizesAssumption, ThreadsGetHalves
<1>2. Place(q, j) \div Count(t) = q /\ Place(q, j) % Count(t) = j
  BY PlaceIs
<1>3. LeftAt(t, i, Place(q, j)) = q * 2 * i * NumBins + j
  BY <1>1, <1>2 DEF LeftAt
<1>4. q * 2 * i * NumBins = ((2 * i) * q) * NumBins
  BY <1>1
<1>5. ((2 * i) * q + i) * NumBins = ((2 * i) * q) * NumBins + i * NumBins
  BY <1>1
<1>6. RightAt(t, i, Place(q, j)) = LeftAt(t, i, Place(q, j)) + i * NumBins
  BY <1>1 DEF RightAt
<1>7. ((2 * i) * q) * NumBins \in Nat /\ i * NumBins \in Nat
  BY <1>1
<1>8. q < NumAnds(i) <=> (2 * i) * q + i < D
  <2>1. (2 * q + 1) * i = (2 * i) * q + i
    OBVIOUS
  <2> QED
    BY <2>1, LevelHalves
<1>9. q < NumAnds(i) <=> Place(q, j) \in 0 .. NumAnds(i) * NumBins - 1
  <2> DEFINE n == NumAnds(i)
  <2>1. n \in Nat
    BY LevelHalves
  <2> HIDE DEF n
  <2>2. (q + 1) * NumBins = q * NumBins + NumBins /\ q * NumBins \in Nat /\ n * NumBins \in Nat
    BY <1>1, <2>1
  <2>3. /\ q + 1 <= n <=> (q + 1) * NumBins <= n * NumBins
        /\ q < n <=> q * NumBins < n * NumBins
    BY <1>1, <2>1, ProductOrder
  <2>4. q < n <=> q + 1 <= n
    BY <2>1
  <2> QED
    BY <1>1, <2>1, <2>2, <2>3, <2>4 DEF Place, n
<1> QED
  BY <1>3, <1>4, <1>5, <1>6, <1>7, <1>8, <1>9 DEF Place

-----------------------------------------------------------------------------
(* One level of the tree                                                   *)

Alice(w) == IF w = 1 THEN 0 ELSE 1
Bob(w)   == Other(Alice(w))

LEMMA TwoSides ==
    ASSUME NEW w \in Workers
    PROVE  /\ Alice(w) \in Parties /\ Bob(w) \in Parties /\ Alice(w) # Bob(w)
           /\ Parties = {Alice(w), Bob(w)}
           /\ Other(Alice(w)) = Bob(w) /\ Other(Bob(w)) = Alice(w)
           /\ Side(Alice(w), w) = ALICE /\ Side(Bob(w), w) = BOB /\ ALICE # BOB
  BY DEF Alice, Bob, Other, Parties, Workers, Threads, Main, Side, PartyOf, ALICE, BOB

\* DigitsEqual, of words that are given.
DigitsSame(words, k, i, d) ==
    \A j \in i .. i + d - 1 :
      j < NumDigits => Digit(words[0][k], j) = Digit(words[1][k], j)

\* leaf_eq of the two sides of a thread share, at every multiple of d, whether the d digits
\* from there on are equal.
SharesGood(words, fa, fb, t, d) ==
    /\ fa \in [LeafIndices(t) -> Bit] /\ fb \in [LeafIndices(t) -> Bit]
    /\ \A q \in Nat, j \in 0 .. NumBins - 1 : d * q < D =>
         (Xor(fa[Place(d * q, j)], fb[Place(d * q, j)]) = 1
            <=> DigitsSame(words, Offset(t) + j, d * q, d))

TriplesFit(t) ==
    \A p \in Parties, k \in 0 .. Triples(t) - 1 :
      LET x == triple[p][t][k]
          y == triple[Other(p)][t][k]
      IN  /\ x.a \in Bit /\ x.b \in Bit /\ x.c \in Bit
          /\ Xor(x.c, y.c) = Xor(x.a, y.a) * Xor(x.b, y.b)

\* temp_z of p when it was sent e2 and f2.
ShareGiven(p, t, k, e2, f2) ==
    LET e == Xor(MaskedE(p, t, k), e2[k])
        f == Xor(MaskedF(p, t, k), f2[k])
        x == TripleOf(p, t, k)
    IN  ShareOf(Product(p, t, e, f), e, f, x.a, x.b, x.c)

\* leaf_eq of p after the level, when it was sent e2 and f2.
NewLeaf(p, t, e2, f2) ==
    LET at(k) == LeftAt(t, level[p][t], k)
    IN  [x \in LeafIndices(t) |->
           IF \E k \in Ands(p, t) : at(k) = x
           THEN ShareGiven(p, t, CHOOSE k \in Ands(p, t) : at(k) = x, e2, f2)
           ELSE leaf[p][t][x]]

LEMMA ShareIsGiven ==
    ASSUME NEW p, NEW t, NEW k, NEW e2, NEW f2, got[p][t] = <<e2, f2>>
    PROVE  AndShare(p, t, k) = ShareGiven(p, t, k, e2, f2)
<1>1. got[p][t][1] = e2 /\ got[p][t][2] = f2
  OBVIOUS
<1> QED
  BY <1>1, Zenon DEF AndShare, ShareGiven, ShareOf

LEMMA DigitsSplit ==
    ASSUME NEW k, NEW d \in Nat, NEW i \in Nat \ {0}
    PROVE  /\ DigitsSame(data, k, d, 2 * i)
                <=> DigitsSame(data, k, d, i) /\ DigitsSame(data, k, d + i, i)
           /\ d + i >= D => (DigitsSame(data, k, d, 2 * i) <=> DigitsSame(data, k, d, i))
<1> DEFINE Same(j) == j < NumDigits => Digit(data[0][k], j) = Digit(data[1][k], j)
<1>1. /\ \A j : j \in d .. d + 2 * i - 1 <=> j \in d .. d + i - 1 \/ j \in d + i .. d + i + i - 1
      /\ \A j \in d + i .. d + 2 * i - 1 : j >= d + i
  OBVIOUS
<1>2. /\ DigitsSame(data, k, d, 2 * i) <=> \A j \in d .. d + 2 * i - 1 : Same(j)
      /\ DigitsSame(data, k, d, i) <=> \A j \in d .. d + i - 1 : Same(j)
      /\ DigitsSame(data, k, d + i, i) <=> \A j \in d + i .. d + i + i - 1 : Same(j)
  BY DEF DigitsSame
<1>3. d + i >= D => \A j \in d + i .. d + i + i - 1 : Same(j)
  BY DigitsExist DEF D
<1> HIDE DEF Same
<1> QED
  BY <1>1, <1>2, <1>3

\* An AND is taken by the comparison and the pair of digits that it joins.
LEMMA AndHasPlace ==
    ASSUME NEW p \in Parties, NEW t \in Threads, level[p][t] \in Nat \ {0},
           NEW k \in Ands(p, t)
    PROVE  \E q \in Nat, j \in 0 .. NumBins - 1 : k = Place(q, j) /\ q < NumAnds(level[p][t])
<1>1. t \in Workers /\ t # Main /\ Bits(t, level[p][t]) = NumAnds(level[p][t]) * NumBins
  BY DEF Workers, Threads, Main, Bits
<1>2. Ands(p, t) = 0 .. NumAnds(level[p][t]) * NumBins - 1
  BY <1>1, AndsWhole
<1>3. NumAnds(level[p][t]) * NumBins \in Nat
  BY <1>1, AndsWhole
<1>4. k \in Nat
  BY <1>2, <1>3
<1>5. PICK q \in Nat, j \in 0 .. NumBins - 1 : k = Place(q, j)
  BY <1>4, PlacesAreAll
<1>6. q < NumAnds(level[p][t])
  BY <1>2, <1>5, OperandsAre
<1> QED
  BY <1>5, <1>6

\* What a level does to leaf_eq.
LEMMA NewLeafIs ==
    ASSUME NEW p \in Parties, NEW t \in Threads, NEW e2, NEW f2,
           level[p][t] \in Nat \ {0}
    PROVE  /\ NewLeaf(p, t, e2, f2) = [x \in LeafIndices(t) |-> NewLeaf(p, t, e2, f2)[x]]
           /\ \A q \in Nat, j \in 0 .. NumBins - 1 : (2 * level[p][t]) * q < D =>
                NewLeaf(p, t, e2, f2)[Place((2 * level[p][t]) * q, j)] =
                  IF q < NumAnds(level[p][t]) THEN ShareGiven(p, t, Place(q, j), e2, f2)
                  ELSE leaf[p][t][Place((2 * level[p][t]) * q, j)]
           /\ \A x \in LeafIndices(t) :
                \/ NewLeaf(p, t, e2, f2)[x] = leaf[p][t][x]
                \/ \E k \in Ands(p, t) : NewLeaf(p, t, e2, f2)[x] = ShareGiven(p, t, k, e2, f2)
<1> DEFINE i == level[p][t]
           at(k) == LeftAt(t, i, k)
           z(k) == ShareGiven(p, t, k, e2, f2)
           N == NewLeaf(p, t, e2, f2)
           K == Ands(p, t)
           old == leaf[p][t]
<1>1. N = [x \in LeafIndices(t) |->
             IF \E k \in K : at(k) = x THEN z(CHOOSE k \in K : at(k) = x) ELSE old[x]]
  BY DEF NewLeaf
<1> HIDE DEF N, z
<1>2. ASSUME NEW x \in LeafIndices(t)
      PROVE  N[x] = old[x] \/ \E k \in K : N[x] = z(k)
  <2> HIDE DEF K, at
  <2>1. CASE \E k \in K : at(k) = x
    <3>1. (CHOOSE k \in K : at(k) = x) \in K
      BY <2>1, Zenon
    <3> QED
      BY <1>1, <2>1, <3>1
  <2>2. CASE ~ \E k \in K : at(k) = x
    BY <1>1, <2>2
  <2> QED
    BY <2>1, <2>2
<1>3. ASSUME NEW q \in Nat, NEW j \in 0 .. NumBins - 1, (2 * i) * q < D
      PROVE  N[Place((2 * i) * q, j)] =
               IF q < NumAnds(i) THEN z(Place(q, j)) ELSE old[Place((2 * i) * q, j)]
  <2> DEFINE x == Place((2 * i) * q, j)
  <2>1. (2 * i) * q \in Nat /\ x \in LeafIndices(t)
    <3>1. (2 * i) * q \in Nat
      OBVIOUS
    <3> QED
      BY <1>3, <3>1, PlaceIs
  <2>2. ASSUME NEW k \in K, at(k) = x PROVE k = Place(q, j) /\ q < NumAnds(i)
    <3>1. PICK r \in Nat, h \in 0 .. NumBins - 1 : k = Place(r, h) /\ r < NumAnds(i)
      BY AndHasPlace
    <3>2. at(k) = Place((2 * i) * r, h)
      BY <3>1, OperandsAre
    <3>3. (2 * i) * r = (2 * i) * q /\ h = j
      <4>1. (2 * i) * r \in Nat
        OBVIOUS
      <4>2. /\ Place((2 * i) * r, h) \div Count(t) = (2 * i) * r
            /\ Place((2 * i) * r, h) % Count(t) = h
        BY <4>1, PlaceIs
      <4>3. /\ Place((2 * i) * q, j) \div Count(t) = (2 * i) * q
            /\ Place((2 * i) * q, j) % Count(t) = j
        BY <2>1, PlaceIs
      <4>4. Place((2 * i) * r, h) = Place((2 * i) * q, j)
        BY <2>2, <3>2
      <4> QED
        BY <4>2, <4>3, <4>4
    <3>4. r = q
      <4> DEFINE m == 2 * i
      <4>1. m \in Nat \ {0} /\ m * r = m * q
        BY <3>3
      <4> HIDE DEF m
      <4>2. r * m = m * r /\ q * m = m * q /\ r * m \in Int
        BY <4>1
      <4>3. (r < q <=> r * m < q * m) /\ (q < r <=> q * m < r * m)
        BY <4>1, ProductOrder
      <4> QED
        BY <4>1, <4>2, <4>3
    <3> QED
      BY <3>1, <3>3, <3>4
  <2>3. CASE q < NumAnds(i)
    <3>1. Place(q, j) \in K
      <4>1. /\ t \in Workers /\ t # Main /\ Bits(t, i) = NumAnds(i) * NumBins
        BY DEF Workers, Threads, Main, Bits
      <4>2. K = 0 .. NumAnds(i) * NumBins - 1
        BY <4>1, AndsWhole
      <4> QED
        BY <2>3, <4>2, OperandsAre
    <3>2. at(Place(q, j)) = x
      BY OperandsAre
    <3> HIDE DEF x, K, at
    <3>3. (CHOOSE k \in K : at(k) = x) = Place(q, j)
      <4>1. (CHOOSE k \in K : at(k) = x) \in K /\ at(CHOOSE k \in K : at(k) = x) = x
        BY <3>1, <3>2, Zenon
      <4> QED
        BY <2>2, <4>1
    <3>4. N[x] = z(Place(q, j))
      BY <1>1, <2>1, <3>1, <3>2, <3>3
    <3> QED
      BY <2>3, <3>4 DEF x
  <2>4. CASE ~(q < NumAnds(i))
    <3>1. ~ \E k \in K : at(k) = x
      BY <2>2, <2>4
    <3> HIDE DEF x, K, at
    <3>2. N[x] = old[x]
      BY <1>1, <2>1, <3>1
    <3> QED
      BY <2>4, <3>2 DEF x
  <2> QED
    BY <2>3, <2>4
<1>4. N = [x \in LeafIndices(t) |-> N[x]]
  BY <1>1
<1> QED
  BY <1>2, <1>3, <1>4 DEF N, z

\* The operands and the triple of AND (q, j) of a level.
LEMMA MaskedIs ==
    ASSUME NEW p \in Parties, NEW t \in Threads, NEW q \in Nat, NEW j \in 0 .. NumBins - 1,
           level[p][t] \in Nat \ {0}
    PROVE  LET i == level[p][t]
               k == Place(q, j)
               x == triple[p][t][base[p][t] + k]
           IN  /\ TripleOf(p, t, k) = x
               /\ MaskedE(p, t, k) = Xor(x.a, leaf[p][t][Place((2 * i) * q, j)])
               /\ MaskedF(p, t, k) = Xor(x.b, leaf[p][t][Place((2 * i) * q + i, j)])
               /\ q < NumAnds(i) =>
                    /\ k \in Ands(p, t)
                    /\ ShareE(p, t)[k] = MaskedE(p, t, k)
                    /\ ShareF(p, t)[k] = MaskedF(p, t, k)
<1> DEFINE i == level[p][t]
           k == Place(q, j)
<1>1. t # Main /\ t \in Workers
  BY DEF Threads, Main, Workers
<1>2. LeftAt(t, i, k) = Place((2 * i) * q, j) /\ RightAt(t, i, k) = Place((2 * i) * q + i, j)
  BY OperandsAre
<1>3. /\ Left(p, t, k) = leaf[p][t][Place((2 * i) * q, j)]
      /\ Right(p, t, k) = leaf[p][t][Place((2 * i) * q + i, j)]
  BY <1>1, <1>2 DEF Left, Right
<1>4. Ands(p, t) = 0 .. NumAnds(i) * NumBins - 1
  <2>1. Ands(p, t) = 0 .. Bits(t, i) - 1
    BY <1>1, AndsWhole
  <2> QED
    BY <1>1, <2>1 DEF Bits
<1>5. q < NumAnds(i) => k \in Ands(p, t)
  BY <1>4, OperandsAre
<1>6. q < NumAnds(i) => /\ ShareE(p, t)[k] = MaskedE(p, t, k)
                        /\ ShareF(p, t)[k] = MaskedF(p, t, k)
  <2> HIDE DEF k
  <2> QED
    BY <1>5 DEF ShareE, ShareF
<1> QED
  BY <1>3, <1>5, <1>6 DEF MaskedE, MaskedF, TripleOf

\* Both ends of a thread are at a level of distance i, with i digits compared, and have
\* the triples for it.
AtLevel(t, i) ==
    /\ i \in Nat \ {0} /\ i < D
    /\ \A p \in Parties : /\ level[p][t] = i
                          /\ base[p][t] = (D - Parts(i)) * NumBins
    /\ TriplesFit(t)
    /\ SharesGood(data, leaf[Alice(t)][t], leaf[Bob(t)][t], t, i)

\* The triples of a level are among those that were made.
LEMMA LevelHasTriples ==
    ASSUME NEW t \in Threads, NEW i, AtLevel(t, i), NEW p \in Parties,
           NEW k \in 0 .. NumAnds(i) * NumBins - 1
    PROVE  base[p][t] + k \in 0 .. Triples(t) - 1
<1> DEFINE b == (D - Parts(i)) * NumBins
           n == NumAnds(i) * NumBins
<1>1. i \in Nat \ {0} /\ base[p][t] = b
  BY DEF AtLevel
<1>2. Triples(t) = (D - 1) * NumBins
  BY DigitsExist DEF Triples, Threads, Main
<1>3. /\ NumAnds(i) \in Nat /\ Parts(i) \in Nat \ {0} /\ Parts(2 * i) \in Nat \ {0}
      /\ Parts(2 * i) = Parts(i) - NumAnds(i) /\ D \in Nat /\ NumBins \in Nat \ {0}
      /\ Parts(i) <= D
  <2>1. /\ NumAnds(i) \in Nat /\ Parts(i) \in Nat \ {0} /\ Parts(2 * i) \in Nat \ {0}
        /\ Parts(2 * i) = Parts(i) - NumAnds(i) /\ D \in Nat /\ NumBins \in Nat \ {0}
    <3>1. 2 * i \in Nat \ {0}
      BY <1>1
    <3> QED
      BY <1>1, <3>1, LevelHalves, PartsBounds, DigitsExist, SizesAssumption
  <2>2. Parts(i) <= D
    <3> DEFINE m == Parts(i) - 1
    <3>1. m \in Nat /\ m * i < D /\ i - 1 \in Nat
      BY <1>1, PartsBounds
    <3> HIDE DEF m
    <3>2. m * i = m * (i - 1) + m /\ m * (i - 1) \in Nat
      BY <1>1, <3>1
    <3>3. m < D
      BY <2>1, <3>1, <3>2
    <3> QED
      BY <2>1, <3>3 DEF m
  <2> QED
    BY <2>1, <2>2
<1>4. b \in Nat /\ n \in Nat
  <2>1. D - Parts(i) \in Nat
    BY <1>3
  <2> QED
    BY <1>3, <2>1
<1>5. b + n <= (D - 1) * NumBins /\ (D - 1) * NumBins \in Int
  <2> DEFINE h == D - Parts(2 * i)
  <2>1. h \in Nat /\ h <= D - 1 /\ h = (D - Parts(i)) + NumAnds(i) /\ D - 1 \in Int
    BY <1>3
  <2>2. h * NumBins = b + n
    <3>1. ((D - Parts(i)) + NumAnds(i)) * NumBins
            = (D - Parts(i)) * NumBins + NumAnds(i) * NumBins
      BY <1>3
    <3> QED
      BY <2>1, <3>1
  <2> HIDE DEF h, b, n
  <2>3. h * NumBins <= (D - 1) * NumBins /\ (D - 1) * NumBins \in Int
    BY <1>3, <2>1, ProductOrder
  <2> QED
    BY <2>2, <2>3
<1> HIDE DEF b
<1> QED
  BY <1>1, <1>2, <1>4, <1>5

\* The operands of AND k of a worker are shared as lA and lB, and rA and rB, and its triple
\* as x and y.
AndOf(w, k, x, y, lA, lB, rA, rB) ==
    /\ {lA, lB, rA, rB, x.a, x.b, x.c, y.a, y.b, y.c} \subseteq Bit
    /\ Xor(x.c, y.c) = Xor(x.a, y.a) * Xor(x.b, y.b)
    /\ TripleOf(Alice(w), w, k) = x /\ TripleOf(Bob(w), w, k) = y
    /\ MaskedE(Alice(w), w, k) = Xor(x.a, lA) /\ MaskedE(Bob(w), w, k) = Xor(y.a, lB)
    /\ MaskedF(Alice(w), w, k) = Xor(x.b, rA) /\ MaskedF(Bob(w), w, k) = Xor(y.b, rB)
    /\ \A p \in Parties : /\ ShareE(p, w)[k] = MaskedE(p, w, k)
                           /\ ShareF(p, w)[k] = MaskedF(p, w, k)

\* What its two sides compute.
LEMMA GivenSharesAnd ==
    ASSUME NEW w \in Workers, NEW k, NEW x, NEW y, NEW lA, NEW lB, NEW rA, NEW rB,
           AndOf(w, k, x, y, lA, lB, rA, rB)
    PROVE  LET a == Alice(w)
               b == Bob(w)
               zA == ShareGiven(a, w, k, ShareE(b, w), ShareF(b, w))
               zB == ShareGiven(b, w, k, ShareE(a, w), ShareF(a, w))
           IN  zA \in Bit /\ zB \in Bit /\ (Xor(zA, zB) = 1 <=> lA # lB /\ rA # rB)
<1> DEFINE a == Alice(w)
           b == Bob(w)
           zA == ShareGiven(a, w, k, ShareE(b, w), ShareF(b, w))
           zB == ShareGiven(b, w, k, ShareE(a, w), ShareF(a, w))
           eA == Xor(x.a, lA)
           eB == Xor(y.a, lB)
           gA == Xor(x.b, rA)
           gB == Xor(y.b, rB)
           e == Xor(eA, eB)
           f == Xor(gA, gB)
<1>0. /\ lA \in Bit /\ lB \in Bit /\ rA \in Bit /\ rB \in Bit
      /\ x.a \in Bit /\ x.b \in Bit /\ x.c \in Bit
      /\ y.a \in Bit /\ y.b \in Bit /\ y.c \in Bit
      /\ Xor(x.c, y.c) = Xor(x.a, y.a) * Xor(x.b, y.b)
  BY DEF AndOf
<1>1. /\ a \in Parties /\ b \in Parties
      /\ Side(a, w) = ALICE /\ Side(b, w) = BOB /\ ALICE # BOB
  BY TwoSides
<1>2. /\ eA \in Bit /\ eB \in Bit /\ gA \in Bit /\ gB \in Bit
      /\ e \in Bit /\ f \in Bit /\ (e = 1 <=> eA # eB) /\ (f = 1 <=> gA # gB)
      /\ Xor(eB, eA) = e /\ Xor(gB, gA) = f
  <2>1. eA \in Bit /\ eB \in Bit /\ gA \in Bit /\ gB \in Bit
    BY <1>0, XorOfBits
  <2> HIDE DEF eA, eB, gA, gB
  <2>2. /\ e \in Bit /\ f \in Bit /\ (e = 1 <=> eA # eB) /\ (f = 1 <=> gA # gB)
        /\ Xor(eB, eA) \in Bit /\ (Xor(eB, eA) = 1 <=> eB # eA)
        /\ Xor(gB, gA) \in Bit /\ (Xor(gB, gA) = 1 <=> gB # gA)
    BY <2>1, XorOfBits
  <2> QED
    BY <2>1, <2>2 DEF Bit
<1>3. /\ MaskedE(a, w, k) = eA /\ MaskedE(b, w, k) = eB
      /\ MaskedF(a, w, k) = gA /\ MaskedF(b, w, k) = gB
      /\ TripleOf(a, w, k) = x /\ TripleOf(b, w, k) = y
      /\ ShareE(a, w)[k] = eA /\ ShareE(b, w)[k] = eB
      /\ ShareF(a, w)[k] = gA /\ ShareF(b, w)[k] = gB
  BY <1>1 DEF AndOf
<1> HIDE DEF a, b, eA, eB, gA, gB, e, f
<1>4. zA = ShareOf(e * f, e, f, x.a, x.b, x.c)
  <2>1. Xor(eA, eB) = e /\ Xor(gA, gB) = f
    BY DEF e, f
  <2>2. Product(a, w, e, f) = e * f
    BY <1>1 DEF Product
  <2> QED
    BY <1>3, <2>1, <2>2 DEF ShareGiven
<1>5. zB = ShareOf(0, e, f, y.a, y.b, y.c)
  <2>1. Product(b, w, e, f) = 0
    BY <1>1 DEF Product
  <2> QED
    BY <1>2, <1>3, <2>1 DEF ShareGiven
<1> DEFINE aA == x.a
           aB == y.a
           bA == x.b
           bB == y.b
           cA == x.c
           cB == y.c
<1>6. /\ aA \in Bit /\ aB \in Bit /\ bA \in Bit /\ bB \in Bit /\ cA \in Bit /\ cB \in Bit
      /\ e \in Bit /\ f \in Bit /\ Xor(cA, cB) = Xor(aA, aB) * Xor(bA, bB)
      /\ e = 1 <=> (Xor(aA, lA) # Xor(aB, lB))
      /\ f = 1 <=> (Xor(bA, rA) # Xor(bB, rB))
  BY <1>0, <1>2 DEF eA, eB, gA, gB
<1>7. zA = ShareOf(e * f, e, f, aA, bA, cA) /\ zB = ShareOf(0, e, f, aB, bB, cB)
  BY <1>4, <1>5
<1> HIDE DEF zA, zB, aA, aB, bA, bB, cA, cB
<1>8. Opened(aA, aB, bA, bB, cA, cB, lA, lB, rA, rB, e, f)
  BY <1>0, <1>6 DEF Opened
<1>9. zA \in Bit /\ zB \in Bit /\ (Xor(zA, zB) = 1 <=> lA # lB /\ rA # rB)
  BY <1>7, <1>8, AndOfShares
<1> QED
  BY <1>9 DEF zA, zB, a, b

\* What the two sides compute for one AND.
LEMMA AndIsShared ==
    ASSUME NEW t \in Threads, NEW i, AtLevel(t, i), NEW q \in Nat, NEW j \in 0 .. NumBins - 1,
           q < NumAnds(i)
    PROVE  LET a == Alice(t)
               b == Bob(t)
               k == Place(q, j)
               zA == ShareGiven(a, t, k, ShareE(b, t), ShareF(b, t))
               zB == ShareGiven(b, t, k, ShareE(a, t), ShareF(a, t))
           IN  /\ zA \in Bit /\ zB \in Bit
               /\ Xor(zA, zB) = 1 <=> DigitsSame(data, Offset(t) + j, (2 * i) * q, 2 * i)
<1> DEFINE a == Alice(t)
           b == Bob(t)
           k == Place(q, j)
           zA == ShareGiven(a, t, k, ShareE(b, t), ShareF(b, t))
           zB == ShareGiven(b, t, k, ShareE(a, t), ShareF(a, t))
           place == base[a][t] + k
           x == triple[a][t][place]
           y == triple[b][t][place]
           l == Place((2 * i) * q, j)
           r == Place((2 * i) * q + i, j)
           fa == leaf[a][t]
           fb == leaf[b][t]
           o == Offset(t) + j
<1>1. /\ i \in Nat \ {0} /\ level[a][t] = i /\ level[b][t] = i /\ base[a][t] = base[b][t]
      /\ a \in Parties /\ b \in Parties /\ t \in Workers /\ t # Main
      /\ Other(a) = b /\ Other(b) = a
      /\ Side(a, t) = ALICE /\ Side(b, t) = BOB /\ ALICE # BOB
  <2>1. t \in Workers /\ t # Main
    BY DEF Workers, Threads, Main
  <2> QED
    BY <2>1, TwoSides DEF AtLevel
<1>2. /\ x.a \in Bit /\ x.b \in Bit /\ x.c \in Bit /\ y.a \in Bit /\ y.b \in Bit /\ y.c \in Bit
      /\ Xor(x.c, y.c) = Xor(x.a, y.a) * Xor(x.b, y.b)
  <2>1. k \in 0 .. NumAnds(i) * NumBins - 1
    BY <1>1, OperandsAre
  <2>2. place \in 0 .. Triples(t) - 1
    BY <1>1, <2>1, LevelHasTriples
  <2>3. TriplesFit(t)
    BY DEF AtLevel
  <2> HIDE DEF a, b, place
  <2> QED
    BY <1>1, <2>2, <2>3 DEF TriplesFit
<1>3. /\ (2 * i) * q \in Nat /\ (2 * i) * q = i * (2 * q) /\ (2 * i) * q + i = i * (2 * q + 1)
      /\ (2 * i) * q + i < D /\ (2 * i) * q < D /\ D \in Nat
      /\ 2 * q \in Nat /\ 2 * q + 1 \in Nat
  <2>1. (2 * i) * q + i < D /\ D \in Nat
    BY <1>1, OperandsAre, DigitsExist
  <2>2. (2 * i) * q \in Nat /\ (2 * i) * q = i * (2 * q) /\ (2 * i) * q + i = i * (2 * q + 1)
    BY <1>1
  <2> QED
    BY <1>1, <2>1, <2>2
<1>4. /\ fa[l] \in Bit /\ fb[l] \in Bit /\ fa[r] \in Bit /\ fb[r] \in Bit
      /\ Xor(fa[l], fb[l]) = 1 <=> DigitsSame(data, o, (2 * i) * q, i)
      /\ Xor(fa[r], fb[r]) = 1 <=> DigitsSame(data, o, (2 * i) * q + i, i)
  <2>1. SharesGood(data, fa, fb, t, i)
    BY DEF AtLevel
  <2>2. l \in LeafIndices(t) /\ r \in LeafIndices(t)
    <3>1. (2 * i) * q + i \in Nat
      BY <1>1, <1>3
    <3> QED
      BY <1>3, <3>1, PlaceIs
  <2>3. fa \in [LeafIndices(t) -> Bit] /\ fb \in [LeafIndices(t) -> Bit]
    BY <2>1 DEF SharesGood
  <2>4. \A n \in Nat : i * n < D =>
          (Xor(fa[Place(i * n, j)], fb[Place(i * n, j)]) = 1 <=> DigitsSame(data, o, i * n, i))
    BY <2>1 DEF SharesGood
  <2>5. Xor(fa[l], fb[l]) = 1 <=> DigitsSame(data, o, (2 * i) * q, i)
    BY <1>3, <2>4
  <2>6. Xor(fa[r], fb[r]) = 1 <=> DigitsSame(data, o, (2 * i) * q + i, i)
    BY <1>3, <2>4
  <2> HIDE DEF fa, fb, l, r
  <2> QED
    BY <2>2, <2>3, <2>5, <2>6
<1>5. /\ TripleOf(a, t, k) = x /\ TripleOf(b, t, k) = y
      /\ MaskedE(a, t, k) = Xor(x.a, fa[l]) /\ MaskedE(b, t, k) = Xor(y.a, fb[l])
      /\ MaskedF(a, t, k) = Xor(x.b, fa[r]) /\ MaskedF(b, t, k) = Xor(y.b, fb[r])
      /\ ShareE(a, t)[k] = MaskedE(a, t, k) /\ ShareE(b, t)[k] = MaskedE(b, t, k)
      /\ ShareF(a, t)[k] = MaskedF(a, t, k) /\ ShareF(b, t)[k] = MaskedF(b, t, k)
  <2>1. /\ TripleOf(a, t, k) = x /\ MaskedE(a, t, k) = Xor(x.a, fa[l]) /\ MaskedF(a, t, k) = Xor(x.b, fa[r])
        /\ ShareE(a, t)[k] = MaskedE(a, t, k) /\ ShareF(a, t)[k] = MaskedF(a, t, k)
    <3> DEFINE i2 == level[a][t]
               x2 == triple[a][t][base[a][t] + k]
    <3> HIDE DEF a, b
    <3>1. a \in Parties /\ i2 \in Nat \ {0} /\ q < NumAnds(i2) /\ i2 = i /\ x2 = x
      BY <1>1
    <3>2. /\ TripleOf(a, t, k) = x2
          /\ MaskedE(a, t, k) = Xor(x2.a, leaf[a][t][Place((2 * i2) * q, j)])
          /\ MaskedF(a, t, k) = Xor(x2.b, leaf[a][t][Place((2 * i2) * q + i2, j)])
          /\ ShareE(a, t)[k] = MaskedE(a, t, k) /\ ShareF(a, t)[k] = MaskedF(a, t, k)
      BY <3>1, MaskedIs
    <3> HIDE DEF i2, x2, x, y
    <3> QED
      BY <3>1, <3>2
  <2>2. /\ TripleOf(b, t, k) = y /\ MaskedE(b, t, k) = Xor(y.a, fb[l]) /\ MaskedF(b, t, k) = Xor(y.b, fb[r])
        /\ ShareE(b, t)[k] = MaskedE(b, t, k) /\ ShareF(b, t)[k] = MaskedF(b, t, k)
    <3> DEFINE i2 == level[b][t]
               x2 == triple[b][t][base[b][t] + k]
    <3> HIDE DEF a, b
    <3>1. b \in Parties /\ i2 \in Nat \ {0} /\ q < NumAnds(i2) /\ i2 = i /\ x2 = y
      BY <1>1
    <3>2. /\ TripleOf(b, t, k) = x2
          /\ MaskedE(b, t, k) = Xor(x2.a, leaf[b][t][Place((2 * i2) * q, j)])
          /\ MaskedF(b, t, k) = Xor(x2.b, leaf[b][t][Place((2 * i2) * q + i2, j)])
          /\ ShareE(b, t)[k] = MaskedE(b, t, k) /\ ShareF(b, t)[k] = MaskedF(b, t, k)
      BY <3>1, MaskedIs
    <3> HIDE DEF i2, x2, x, y
    <3> QED
      BY <3>1, <3>2
  <2> QED
    BY <2>1, <2>2
<1>6. Parties = {a, b} /\ t \in Workers
  BY <1>1, TwoSides
<1> HIDE DEF k, x, y, fa, fb, l, r, o
<1>7. /\ zA \in Bit /\ zB \in Bit
      /\ Xor(zA, zB) = 1 <=> fa[l] # fb[l] /\ fa[r] # fb[r]
  <2>1. \A p \in Parties : /\ ShareE(p, t)[k] = MaskedE(p, t, k)
                           /\ ShareF(p, t)[k] = MaskedF(p, t, k)
    BY <1>5, <1>6
  <2> DEFINE lA == fa[l]
             lB == fb[l]
             rA == fa[r]
             rB == fb[r]
  <2>2. lA \in Bit /\ lB \in Bit /\ rA \in Bit /\ rB \in Bit
    BY <1>4
  <2>3. /\ TripleOf(a, t, k) = x /\ TripleOf(b, t, k) = y
        /\ MaskedE(a, t, k) = Xor(x.a, lA) /\ MaskedE(b, t, k) = Xor(y.a, lB)
        /\ MaskedF(a, t, k) = Xor(x.b, rA) /\ MaskedF(b, t, k) = Xor(y.b, rB)
    BY <1>5
  <2> HIDE DEF lA, lB, rA, rB
  <2>4. /\ zA \in Bit /\ zB \in Bit /\ (Xor(zA, zB) = 1 <=> lA # lB /\ rA # rB)
    <3>1. AndOf(t, k, x, y, lA, lB, rA, rB)
      BY <1>2, <1>6, <2>1, <2>2, <2>3 DEF AndOf
    <3> QED
      BY <1>6, <3>1, GivenSharesAnd
  <2> QED
    BY <2>4 DEF lA, lB, rA, rB
<1>8. fa[l] # fb[l] /\ fa[r] # fb[r] <=> DigitsSame(data, o, (2 * i) * q, 2 * i)
  <2>1. /\ Xor(fa[l], fb[l]) = 1 <=> fa[l] # fb[l]
        /\ Xor(fa[r], fb[r]) = 1 <=> fa[r] # fb[r]
    BY <1>4, XorOfBits
  <2>2. DigitsSame(data, o, (2 * i) * q, 2 * i)
          <=> DigitsSame(data, o, (2 * i) * q, i) /\ DigitsSame(data, o, (2 * i) * q + i, i)
    BY <1>1, <1>3, DigitsSplit
  <2> QED
    BY <1>4, <2>1, <2>2
<1> QED
  BY <1>7, <1>8 DEF k, o

\* When both sides use what the other sent, a level joins the shares of i digits into
\* shares of 2 * i.
LEMMA LevelJoins ==
    ASSUME NEW t \in Threads, NEW i, AtLevel(t, i)
    PROVE  SharesGood(data, NewLeaf(Alice(t), t, ShareE(Bob(t), t), ShareF(Bob(t), t)),
                      NewLeaf(Bob(t), t, ShareE(Alice(t), t), ShareF(Alice(t), t)), t, 2 * i)
<1> DEFINE a == Alice(t)
           b == Bob(t)
           zA(k) == ShareGiven(a, t, k, ShareE(b, t), ShareF(b, t))
           zB(k) == ShareGiven(b, t, k, ShareE(a, t), ShareF(a, t))
           fa == leaf[a][t]
           fb == leaf[b][t]
           na == NewLeaf(a, t, ShareE(b, t), ShareF(b, t))
           nb == NewLeaf(b, t, ShareE(a, t), ShareF(a, t))
<1>1. /\ i \in Nat \ {0} /\ level[a][t] = i /\ level[b][t] = i
      /\ a \in Parties /\ b \in Parties /\ SharesGood(data, fa, fb, t, i)
  <2>1. t \in Workers
    BY DEF Workers
  <2> QED
    BY <2>1, TwoSides DEF AtLevel
<1>2. /\ fa \in [LeafIndices(t) -> Bit] /\ fb \in [LeafIndices(t) -> Bit]
      /\ \A q \in Nat, j \in 0 .. NumBins - 1 : i * q < D =>
           (Xor(fa[Place(i * q, j)], fb[Place(i * q, j)]) = 1
              <=> DigitsSame(data, Offset(t) + j, i * q, i))
  BY <1>1 DEF SharesGood
<1>3. /\ \A k \in Ands(a, t) : zA(k) \in Bit
      /\ \A k \in Ands(b, t) : zB(k) \in Bit
  <2>1. ASSUME NEW k \in Ands(a, t) PROVE zA(k) \in Bit
    <3>1. PICK q \in Nat, j \in 0 .. NumBins - 1 : k = Place(q, j) /\ q < NumAnds(i)
      BY <1>1, AndHasPlace
    <3> QED
      BY <3>1, AndIsShared
  <2>2. ASSUME NEW k \in Ands(b, t) PROVE zB(k) \in Bit
    <3>1. PICK q \in Nat, j \in 0 .. NumBins - 1 : k = Place(q, j) /\ q < NumAnds(i)
      BY <1>1, AndHasPlace
    <3> QED
      BY <3>1, AndIsShared
  <2> QED
    BY <2>1, <2>2
<1>4. /\ na \in [LeafIndices(t) -> Bit]
      /\ \A q \in Nat, j \in 0 .. NumBins - 1 : (2 * i) * q < D =>
           na[Place((2 * i) * q, j)] =
             IF q < NumAnds(i) THEN zA(Place(q, j)) ELSE fa[Place((2 * i) * q, j)]
  <2>1. /\ na = [x \in LeafIndices(t) |-> na[x]]
        /\ \A q \in Nat, j \in 0 .. NumBins - 1 : (2 * i) * q < D =>
             na[Place((2 * i) * q, j)] =
               IF q < NumAnds(i) THEN zA(Place(q, j)) ELSE fa[Place((2 * i) * q, j)]
        /\ \A x \in LeafIndices(t) : na[x] = fa[x] \/ \E k \in Ands(a, t) : na[x] = zA(k)
    BY <1>1, NewLeafIs
  <2> HIDE DEF na, fa, zA
  <2>2. \A x \in LeafIndices(t) : na[x] \in Bit
    BY <1>2, <1>3, <2>1
  <2> QED
    BY <2>1, <2>2
<1>5. /\ nb \in [LeafIndices(t) -> Bit]
      /\ \A q \in Nat, j \in 0 .. NumBins - 1 : (2 * i) * q < D =>
           nb[Place((2 * i) * q, j)] =
             IF q < NumAnds(i) THEN zB(Place(q, j)) ELSE fb[Place((2 * i) * q, j)]
  <2>1. /\ nb = [x \in LeafIndices(t) |-> nb[x]]
        /\ \A q \in Nat, j \in 0 .. NumBins - 1 : (2 * i) * q < D =>
             nb[Place((2 * i) * q, j)] =
               IF q < NumAnds(i) THEN zB(Place(q, j)) ELSE fb[Place((2 * i) * q, j)]
        /\ \A x \in LeafIndices(t) : nb[x] = fb[x] \/ \E k \in Ands(b, t) : nb[x] = zB(k)
    BY <1>1, NewLeafIs
  <2> HIDE DEF nb, fb, zB
  <2>2. \A x \in LeafIndices(t) : nb[x] \in Bit
    BY <1>2, <1>3, <2>1
  <2> QED
    BY <2>1, <2>2
<1>6. ASSUME NEW q \in Nat, NEW j \in 0 .. NumBins - 1, (2 * i) * q < D
      PROVE  Xor(na[Place((2 * i) * q, j)], nb[Place((2 * i) * q, j)]) = 1
               <=> DigitsSame(data, Offset(t) + j, (2 * i) * q, 2 * i)
  <2>1. CASE q < NumAnds(i)
    <3>1. Xor(zA(Place(q, j)), zB(Place(q, j))) = 1
            <=> DigitsSame(data, Offset(t) + j, (2 * i) * q, 2 * i)
      BY <2>1, AndIsShared
    <3> HIDE DEF na, nb, zA, zB
    <3> QED
      BY <1>4, <1>5, <1>6, <2>1, <3>1
  <2>2. CASE ~(q < NumAnds(i))
    <3>1. (2 * i) * q = i * (2 * q) /\ 2 * q \in Nat /\ (2 * i) * q \in Nat
      BY <1>1
    <3>2. Xor(fa[Place((2 * i) * q, j)], fb[Place((2 * i) * q, j)]) = 1
            <=> DigitsSame(data, Offset(t) + j, (2 * i) * q, i)
      <4> HIDE DEF fa, fb
      <4> QED
        BY <1>2, <1>6, <3>1
    <3>3. (2 * i) * q + i >= D
      <4>1. ~((2 * i) * q + i < D)
        BY <1>1, <2>2, OperandsAre
      <4> QED
        BY <1>1, <3>1, <4>1, DigitsExist
    <3>4. DigitsSame(data, Offset(t) + j, (2 * i) * q, 2 * i)
            <=> DigitsSame(data, Offset(t) + j, (2 * i) * q, i)
      BY <1>1, <3>1, <3>3, DigitsSplit
    <3> HIDE DEF na, nb, fa, fb
    <3> QED
      BY <1>4, <1>5, <1>6, <2>2, <3>2, <3>4
  <2> QED
    BY <2>1, <2>2
<1> HIDE DEF na, nb
<1>7. SharesGood(data, na, nb, t, 2 * i)
  BY <1>4, <1>5, <1>6 DEF SharesGood
<1> QED
  BY <1>7 DEF na, nb

-----------------------------------------------------------------------------
(* What is on its way                                                      *)

\* Of e and f, in this order: those behind the first r, up to the first s.
Items(e, f, r, s) ==
    IF r = s THEN <<>> ELSE IF r = 1 THEN <<f>> ELSE IF s = 1 THEN <<e>> ELSE <<e, f>>

\* Of the e and f of an AND, s were sent and r received: g is what the receiver has, and n
\* is on its way.
Channel(g, n, r, s, e, f) ==
    /\ r \in 0 .. 2 /\ s \in 0 .. 2 /\ r <= s
    /\ g = Items(e, f, 0, r) /\ n = Items(e, f, r, s)

LEMMA AppendToOne ==
    ASSUME NEW e, NEW f
    PROVE  Append(<<e>>, f) = <<e, f>>
<1> DEFINE S == {e, f}
           x == Append(<<e>>, f)
           y == <<e, f>>
<1>1. x \in Seq(S) /\ Len(x) = 2 /\ x[1] = e /\ x[2] = f
  OBVIOUS
<1>2. y \in Seq(S) /\ Len(y) = 2 /\ y[1] = e /\ y[2] = f
  OBVIOUS
<1> HIDE DEF x, y
<1>3. x \in [1 .. 2 -> S] /\ y \in [1 .. 2 -> S]
  BY <1>1, <1>2
<1>4. \A i \in 1 .. 2 : i = 1 \/ i = 2
  OBVIOUS
<1>5. \A i \in 1 .. 2 : x[i] = y[i]
  BY <1>1, <1>2, <1>4
<1>6. x = y
  BY <1>3, <1>5
<1> QED
  BY <1>6 DEF x, y

LEMMA ChannelSends ==
    ASSUME NEW g, NEW n, NEW r, NEW s, NEW e, NEW f, NEW v, Channel(g, n, r, s, e, f),
           s # 2, s = 0 => v = e, s = 1 => v = f
    PROVE  Channel(g, Append(n, v), r, s + 1, e, f)
<1>1. s \in {0, 1} /\ r \in {0, 1} /\ r <= s
  BY DEF Channel
<1>2. CASE s = 0 /\ r = 0
  <2>1. n = <<>> /\ Append(n, v) = <<e>> /\ g = Items(e, f, 0, 0)
    BY <1>2 DEF Channel, Items
  <2> QED
    BY <1>2, <2>1 DEF Channel, Items
<1>3. CASE s = 1 /\ r = 0
  <2>1. n = <<e>> /\ g = Items(e, f, 0, 0)
    BY <1>3 DEF Channel, Items
  <2>2. Append(n, v) = <<e, f>>
    BY <1>3, <2>1, AppendToOne
  <2> QED
    BY <1>3, <2>1, <2>2 DEF Channel, Items
<1>4. CASE s = 1 /\ r = 1
  <2>1. n = <<>> /\ g = Items(e, f, 0, 1)
    BY <1>4 DEF Channel, Items
  <2>2. Append(n, v) = <<f>>
    BY <1>4, <2>1
  <2> QED
    BY <1>4, <2>1, <2>2 DEF Channel, Items
<1> QED
  BY <1>1, <1>2, <1>3, <1>4

LEMMA ChannelReceives ==
    ASSUME NEW g, NEW n, NEW r, NEW s, NEW e, NEW f, Channel(g, n, r, s, e, f), n # <<>>
    PROVE  r < s /\ Channel(Append(g, Head(n)), Tail(n), r + 1, s, e, f)
<1>1. r \in {0, 1, 2} /\ s \in {0, 1, 2} /\ r <= s /\ r # s
  BY DEF Channel, Items
<1>2. CASE r = 0 /\ s = 1
  <2>1. g = <<>> /\ n = <<e>>
    BY <1>2 DEF Channel, Items
  <2>2. Append(g, Head(n)) = <<e>> /\ Tail(n) = <<>>
    BY <2>1
  <2> QED
    BY <1>2, <2>2 DEF Channel, Items
<1>3. CASE r = 0 /\ s = 2
  <2>1. g = <<>> /\ n = <<e, f>>
    BY <1>3 DEF Channel, Items
  <2>2. Append(g, Head(n)) = <<e>> /\ Tail(n) = <<f>>
    BY <2>1
  <2> QED
    BY <1>3, <2>2 DEF Channel, Items
<1>4. CASE r = 1 /\ s = 2
  <2>1. g = <<e>> /\ n = <<f>>
    BY <1>4 DEF Channel, Items
  <2>2. Append(g, Head(n)) = <<e, f>> /\ Tail(n) = <<>>
    <3>1. Head(n) = f /\ Tail(n) = <<>>
      BY <2>1
    <3> QED
      BY <2>1, <3>1, AppendToOne
  <2> QED
    BY <1>4, <2>2 DEF Channel, Items
<1> QED
  BY <1>1, <1>2, <1>3, <1>4

LEMMA ChannelEnds ==
    ASSUME NEW e, NEW f
    PROVE  /\ Channel(<<>>, <<>>, 0, 0, e, f)
           /\ \A g, n : Channel(g, n, 2, 2, e, f) => g = <<e, f>> /\ n = <<>>
           /\ \A g, n, s : Channel(g, n, 0, s, e, f) => g = <<>>
           /\ \A g, n : Channel(g, n, 0, 0, e, f) => n = <<>>
  BY DEF Channel, Items

\* The first pair of transfers that a side has made, and the second, before transfer o.
First(o)  == IF o <= 3 THEN o - 1 ELSE 2
Second(o) == IF o <= 3 THEN 0 ELSE o - 3

-----------------------------------------------------------------------------
(* Where the two sides of a thread are                                     *)

Quiet(t) == \A p \in Parties : got[p][t] = <<>> /\ net[t][p] = <<>>

\* Not yet, or just, given the shares of single digits.
Early(t) == (\A p \in Parties : tpc[p][t] \in {"none", "leaf"}) /\ Quiet(t)
Ready(t) ==
    /\ \A p \in Parties : tpc[p][t] = "triples"
    /\ Quiet(t)
    /\ SharesGood(data, leaf[Alice(t)][t], leaf[Bob(t)][t], t, 1)

\* Both are at one level: each has got what the other sent, but for what is on its way.
SameLevel(t) ==
    LET a == Alice(t)
        b == Bob(t)
    IN  /\ \A p \in Parties : tpc[p][t] = "level"
        /\ \E i : AtLevel(t, i)
        /\ Channel(got[b][t], net[t][b], First(op[b][t]), First(op[a][t]),
                   ShareE(a, t), ShareF(a, t))
        /\ Channel(got[a][t], net[t][a], Second(op[a][t]), Second(op[b][t]),
                   ShareE(b, t), ShareF(b, t))

\* BOB has sent all of his and joined his shares, and ALICE will when she has got them.
BobAhead(t) ==
    LET a == Alice(t)
        b == Bob(t)
    IN  /\ tpc[a][t] = "level" /\ tpc[b][t] \in {"level", "done"}
        /\ level[a][t] < D /\ level[b][t] = 2 * level[a][t]
        /\ op[a][t] \in 3 .. 5 /\ op[b][t] = 1
        /\ got[b][t] = <<>> /\ net[t][b] = <<>> /\ TriplesFit(t)
        /\ \E e, f :
             /\ Channel(got[a][t], net[t][a], Second(op[a][t]), 2, e, f)
             /\ SharesGood(data, NewLeaf(a, t, e, f), leaf[b][t], t, level[b][t])

\* ALICE has joined her shares, and BOB, who has got all of hers, will.  She may have sent
\* some of the next level's; when there is none she may have left for the last AND.
AliceAhead(t) ==
    LET a == Alice(t)
        b == Bob(t)
    IN  /\ tpc[b][t] = "level" /\ tpc[a][t] \in {"level", "done"}
        /\ level[b][t] < D /\ level[a][t] = 2 * level[b][t]
        /\ op[b][t] = 5 /\ op[a][t] \in 1 .. 3
        /\ got[a][t] = <<>> /\ net[t][a] = <<>> /\ TriplesFit(t)
        /\ \E e, f :
             /\ got[b][t] = <<e, f>>
             /\ SharesGood(data, leaf[a][t], NewLeaf(b, t, e, f), t, level[a][t])
        /\ level[a][t] < D =>
             Channel(<<>>, net[t][b], 0, op[a][t] - 1, ShareE(a, t), ShareF(a, t))
        /\ level[a][t] >= D /\ tpc[a][t] = "level" => net[t][b] = <<>>

\* Both have joined all; then ALICE may have left for the last AND.
Finished(t) ==
    LET a == Alice(t)
        b == Bob(t)
    IN  /\ \A p \in Parties : tpc[p][t] \in {"level", "done"} /\ got[p][t] = <<>>
        /\ level[a][t] >= D /\ level[b][t] = level[a][t]
        /\ SharesGood(data, leaf[a][t], leaf[b][t], t, level[a][t])
        /\ tpc[a][t] = "level" => net[t][a] = <<>> /\ net[t][b] = <<>>

Stage(t) ==
    \/ Early(t) \/ Ready(t) \/ SameLevel(t) \/ BobAhead(t) \/ AliceAhead(t) \/ Finished(t)

MoreShapes ==
    /\ Table(leaf, Parties, Threads) /\ Table(triple, Parties, Workers)
    /\ Table(got, Parties, Workers) /\ Table(net, Threads, Parties)

\* The main threads come to the last AND when their threads are done, and BOB's waits
\* there for ALICE's.
LastWaits ==
    /\ \A p \in Parties, t \in Threads : pc[p] = "final" => tpc[p][t] = "done"
    /\ tpc[Alice(0)][0] # "done" => op[Bob(0)][Main] = 1

DigitsInv ==
    /\ SpendsInv /\ MoreShapes /\ LastWaits
    /\ \A t \in Threads : Stage(t)

\* At every stage but those with one side ahead the shares are right.
LEMMA DigitsInvImplies == DigitsInv => SharesOfDigits
<1> SUFFICES ASSUME DigitsInv, NEW t \in Threads, NEW d, d = level[0][t],
                    \A p \in Parties : /\ tpc[p][t] \in {"triples", "level", "done"}
                                       /\ level[p][t] = d,
                    NEW i \in 0 .. NumDigits - 1, i % d = 0, NEW j \in 0 .. Count(t) - 1
             PROVE  Xor(leaf[0][t][i * Count(t) + j], leaf[1][t][i * Count(t) + j]) = 1
                      <=> DigitsEqual(Offset(t) + j, i, d)
  BY DEF SharesOfDigits
<1> DEFINE a == Alice(t)
           b == Bob(t)
<1>1. /\ a \in Parties /\ b \in Parties /\ Parties = {a, b} /\ a # b
      /\ \A p \in Parties : ThreadSpends(p, t)
      /\ d \in Nat \ {0} /\ level[a][t] = d /\ level[b][t] = d
  <2>1. t \in Workers /\ 0 \in Parties
    BY DEF Workers, Parties
  <2>2. /\ a \in Parties /\ b \in Parties /\ Parties = {a, b} /\ a # b
        /\ \A p \in Parties : ThreadSpends(p, t)
    BY <2>1, TwoSides DEF DigitsInv, SpendsInv
  <2> QED
    BY <2>1, <2>2 DEF ThreadSpends
<1>2. SharesGood(data, leaf[a][t], leaf[b][t], t, d)
  <2>1. Stage(t)
    BY DEF DigitsInv
  <2>2. CASE Early(t)
    BY <1>1, <2>2 DEF Early
  <2>3. CASE Ready(t)
    <3>1. d = 1
      BY <1>1, <2>3 DEF Ready, ThreadSpends
    <3> QED
      BY <2>3, <3>1 DEF Ready
  <2>4. CASE SameLevel(t)
    <3>1. PICK l : AtLevel(t, l)
      BY <2>4 DEF SameLevel
    <3>2. l = d
      BY <1>1, <3>1 DEF AtLevel
    <3> QED
      BY <3>1, <3>2 DEF AtLevel
  <2>5. CASE BobAhead(t)
    <3>1. d = 2 * d
      BY <1>1, <2>5 DEF BobAhead
    <3> QED
      BY <1>1, <3>1
  <2>6. CASE AliceAhead(t)
    <3>1. d = 2 * d
      BY <1>1, <2>6 DEF AliceAhead
    <3> QED
      BY <1>1, <3>1
  <2>7. CASE Finished(t)
    BY <1>1, <2>7 DEF Finished
  <2> QED
    BY <2>1, <2>2, <2>3, <2>4, <2>5, <2>6, <2>7 DEF Stage
<1> DEFINE q == i \div d
           fa == leaf[a][t]
           fb == leaf[b][t]
           x == Place(d * q, j)
<1>3. /\ q \in Nat /\ i = d * q /\ i < D /\ i \in Nat /\ j \in 0 .. NumBins - 1
      /\ i * Count(t) + j = x
  <2>1. i \in Nat /\ i < D /\ Count(t) = NumBins
    BY DigitsExist, ThreadsGetHalves DEF D
  <2>2. q \in Nat /\ i = d * q + 0
    BY <1>1, <2>1, Division
  <2> HIDE DEF q
  <2>3. i = d * q
    BY <1>1, <2>2
  <2> QED
    BY <2>1, <2>2, <2>3 DEF Place
<1> HIDE DEF q
<1>4. Xor(fa[x], fb[x]) = 1 <=> DigitsSame(data, Offset(t) + j, i, d)
  BY <1>2, <1>3 DEF SharesGood
<1>5. fa[x] \in Bit /\ fb[x] \in Bit
  <2>1. x \in LeafIndices(t)
    BY <1>3, PlaceIs
  <2>2. fa \in [LeafIndices(t) -> Bit] /\ fb \in [LeafIndices(t) -> Bit]
    BY <1>2 DEF SharesGood
  <2> HIDE DEF fa, fb, x
  <2> QED
    BY <2>1, <2>2
<1>6. Xor(fb[x], fa[x]) = 1 <=> Xor(fa[x], fb[x]) = 1
  BY <1>5, XorOfBits
<1>7. (leaf[0][t] = fa /\ leaf[1][t] = fb) \/ (leaf[0][t] = fb /\ leaf[1][t] = fa)
  BY DEF Alice, Bob, Other
<1>8. DigitsSame(data, Offset(t) + j, i, d) <=> DigitsEqual(Offset(t) + j, i, d)
  BY DEF DigitsSame, DigitsEqual
<1> HIDE DEF fa, fb, x
<1> QED
  BY <1>3, <1>4, <1>6, <1>7, <1>8

-----------------------------------------------------------------------------
(* Steps                                                                   *)

\* Nothing at the two sides of a thread changes but, it may be, which triples are marked.
Unmoved(t) ==
    /\ data' = data
    /\ \A p \in Parties :
         /\ tpc'[p][t] = tpc[p][t] /\ level'[p][t] = level[p][t] /\ op'[p][t] = op[p][t]
         /\ base'[p][t] = base[p][t] /\ leaf'[p][t] = leaf[p][t]
         /\ triple'[p][t] = triple[p][t]
         /\ got'[p][t] = got[p][t] /\ net'[t][p] = net[t][p]

\* What a side does with its AND depends on its own state only.
LEMMA SideKept ==
    ASSUME NEW p, NEW t \in Threads, level'[p][t] = level[p][t],
           base'[p][t] = base[p][t], leaf'[p][t] = leaf[p][t], triple'[p][t] = triple[p][t]
    PROVE  /\ ShareE(p, t)' = ShareE(p, t) /\ ShareF(p, t)' = ShareF(p, t)
           /\ \A e, f : NewLeaf(p, t, e, f)' = NewLeaf(p, t, e, f)
<1>1. t # Main
  BY DEF Threads, Main
<1>2. Ands(p, t)' = Ands(p, t)
  BY DEF Ands, NumAnds, Count, ChunkSize, Offset
<1>3. \A k : /\ MaskedE(p, t, k)' = MaskedE(p, t, k)
             /\ MaskedF(p, t, k)' = MaskedF(p, t, k)
             /\ TripleOf(p, t, k)' = TripleOf(p, t, k)
  BY <1>1 DEF MaskedE, MaskedF, TripleOf, Left, Right
<1>4. ShareE(p, t)' = ShareE(p, t) /\ ShareF(p, t)' = ShareF(p, t)
  BY <1>2, <1>3, Zenon DEF ShareE, ShareF
<1>5. \A k, e, f : ShareGiven(p, t, k, e, f)' = ShareGiven(p, t, k, e, f)
  BY <1>3, Zenon DEF ShareGiven, Product, Side
<1>6. \A e, f : NewLeaf(p, t, e, f)' = NewLeaf(p, t, e, f)
  BY <1>2, <1>5 DEF NewLeaf
<1> QED
  BY <1>4, <1>6

LEMMA StageKept ==
    ASSUME NEW t \in Threads, Stage(t), Unmoved(t) PROVE Stage(t)'
<1> DEFINE a == Alice(t)
           b == Bob(t)
<1>1. a \in Parties /\ b \in Parties
  <2>1. t \in Workers
    BY DEF Workers
  <2> QED
    BY <2>1, TwoSides
<1>2. /\ ShareE(a, t)' = ShareE(a, t) /\ ShareF(a, t)' = ShareF(a, t)
      /\ ShareE(b, t)' = ShareE(b, t) /\ ShareF(b, t)' = ShareF(b, t)
      /\ \A e, f : NewLeaf(a, t, e, f)' = NewLeaf(a, t, e, f)
      /\ \A e, f : NewLeaf(b, t, e, f)' = NewLeaf(b, t, e, f)
  <2> HIDE DEF a, b
  <2> QED
    BY <1>1, SideKept DEF Unmoved
<1>3. TriplesFit(t) => TriplesFit(t)'
  <2>1. \A p \in Parties : Other(p) \in Parties
    BY DEF Parties, Other
  <2> QED
    BY <2>1 DEF Unmoved, TriplesFit, Triples
<1>4. CASE Early(t)
  BY <1>4 DEF Stage, Early, Quiet, Unmoved
<1>5. CASE Ready(t)
  <2>1. Ready(t)'
    BY <1>1, <1>5 DEF Ready, Quiet, Unmoved
  <2> QED
    BY <2>1 DEF Stage
<1>6. CASE SameLevel(t)
  <2>1. PICK i : AtLevel(t, i)
    BY <1>6 DEF SameLevel
  <2>2. AtLevel(t, i)'
    BY <1>1, <1>3, <2>1 DEF AtLevel, Unmoved, Parts, D
  <2>3. SameLevel(t)'
    BY <1>1, <1>2, <1>6, <2>2 DEF SameLevel, Unmoved
  <2> QED
    BY <2>3 DEF Stage
<1>7. CASE BobAhead(t)
  <2>1. BobAhead(t)'
    BY <1>1, <1>2, <1>3, <1>7 DEF BobAhead, Unmoved, D
  <2> QED
    BY <2>1 DEF Stage
<1>8. CASE AliceAhead(t)
  <2>1. AliceAhead(t)'
    BY <1>1, <1>2, <1>3, <1>8 DEF AliceAhead, Unmoved, D
  <2> QED
    BY <2>1 DEF Stage
<1>9. CASE Finished(t)
  <2>1. Finished(t)'
    BY <1>1, <1>9 DEF Finished, Unmoved, D
  <2> QED
    BY <2>1 DEF Stage
<1> QED
  BY <1>4, <1>5, <1>6, <1>7, <1>8, <1>9 DEF Stage

\* One entry of every row is replaced by one of h.
SetEntries(f, A, b, h) == [x \in A |-> [f[x] EXCEPT ![b] = h[x]]]

LEMMA TableEntries ==
    ASSUME NEW f, NEW A, NEW B, Table(f, A, B), NEW b \in B, NEW h
    PROVE  /\ Table(SetEntries(f, A, b, h), A, B)
           /\ \A x \in A, y \in B :
                SetEntries(f, A, b, h)[x][y] = IF y = b THEN h[x] ELSE f[x][y]
<1> DEFINE g == SetEntries(f, A, b, h)
<1>0. g = [x \in A |-> [f[x] EXCEPT ![b] = h[x]]]
  BY DEF SetEntries
<1> HIDE DEF g
<1>1. \A x \in A : f[x] = [y \in B |-> f[x][y]]
  BY DEF Table
<1>2. \A x \in A : g[x] = [y \in B |-> IF y = b THEN h[x] ELSE f[x][y]]
  BY <1>0, <1>1
<1>3. \A x \in A, y \in B : g[x][y] = IF y = b THEN h[x] ELSE f[x][y]
  BY <1>2
<1>4. \A x \in A : g[x] = [y \in B |-> g[x][y]]
  BY <1>2
<1>5. g = [x \in A |-> g[x]]
  BY <1>0
<1>6. Table(g, A, B)
  BY <1>4, <1>5, Zenon DEF Table
<1> QED
  BY <1>3, <1>6 DEF g

\* What DigitsInv has beside SpendsInv.
DigitsPart == MoreShapes /\ LastWaits /\ \A t \in Threads : Stage(t)

\* Nothing at either thread changes, and the main threads' transfers do not.
LEMMA ThreadsUnmoved ==
    ASSUME DigitsInv, \A t \in Threads : Unmoved(t), MoreShapes',
           op'[Bob(0)][Main] = op[Bob(0)][Main],
           \A p \in Parties : pc'[p] = "final" =>
             pc[p] = "final" \/ \A t \in Threads : tpc[p][t] = "done"
    PROVE  DigitsPart'
<1>1. \A t \in Threads : Stage(t)'
  BY StageKept DEF DigitsInv
<1>2. 0 \in Threads /\ Alice(0) \in Parties
  BY DEF Threads, Alice, Parties
<1>3. LastWaits'
  BY <1>2 DEF DigitsInv, LastWaits, Unmoved
<1> QED
  BY <1>1, <1>3 DEF DigitsPart

LEMMA DigitsMainTriples == DigitsInv /\ MainTriples => DigitsPart'
<1> SUFFICES ASSUME DigitsInv, MainTriples PROVE DigitsPart'
  OBVIOUS
<1>1. PICK shares \in TripleShares :
        triple' = [p \in Parties |-> [triple[p] EXCEPT ![Main] =
           [k \in 0 .. NumBins - 1 |->
              LET s == shares[k] IN
              [a |-> s.a[p], b |-> s.b[p],
               c |-> IF p = 0 THEN s.c
                     ELSE Xor(s.c, Xor(s.a[0], s.a[1]) * Xor(s.b[0], s.b[1]))]]]]
  BY DEF MainTriples, GiveTriples
<1> DEFINE h == [p \in Parties |-> [k \in 0 .. NumBins - 1 |->
              LET s == shares[k] IN
              [a |-> s.a[p], b |-> s.b[p],
               c |-> IF p = 0 THEN s.c
                     ELSE Xor(s.c, Xor(s.a[0], s.a[1]) * Xor(s.b[0], s.b[1]))]]]
<1>2. triple' = SetEntries(triple, Parties, Main, h)
  BY <1>1, Zenon DEF SetEntries
<1> HIDE DEF h
<1>3. Main \in Workers /\ \A t \in Threads : t \in Workers /\ t # Main
  BY DEF Workers, Threads, Main
<1>4. /\ Table(triple', Parties, Workers)
      /\ \A p \in Parties, w \in Workers : w # Main => triple'[p][w] = triple[p][w]
  <2>1. Table(triple, Parties, Workers)
    BY DEF DigitsInv, MoreShapes
  <2> QED
    BY <1>2, <1>3, <2>1, TableEntries
<1>5. /\ UNCHANGED <<data, tpc, leaf, level, base, op, got, net>>
      /\ pc' = [p \in Parties |-> "launch"]
  BY DEF MainTriples
<1>6. \A t \in Threads : Unmoved(t)
  BY <1>3, <1>4, <1>5 DEF Unmoved
<1>7. MoreShapes'
  BY <1>4, <1>5 DEF DigitsInv, MoreShapes
<1>8. \A p \in Parties : pc'[p] # "final"
  BY <1>5
<1> QED
  BY <1>5, <1>6, <1>7, <1>8, ThreadsUnmoved

LEMMA DigitsMainGoesOn ==
    ASSUME DigitsInv, NEW p \in Parties, Join(p) \/ Return(p) PROVE DigitsPart'
<1>1. UNCHANGED <<data, tpc, leaf, triple, level, base, op, got, net>>
  BY DEF Join, Return, circuit
<1>2. \A t \in Threads : Unmoved(t)
  BY <1>1 DEF Unmoved
<1>3. MoreShapes'
  BY <1>1 DEF DigitsInv, MoreShapes
<1>4. ASSUME NEW q \in Parties, pc'[q] = "final"
      PROVE  pc[q] = "final" \/ \A t \in Threads : tpc[q][t] = "done"
  BY <1>4 DEF Join, Joined, Return, DigitsInv, SpendsInv, Shapes
<1> QED
  BY <1>1, <1>2, <1>3, <1>4, ThreadsUnmoved

LEMMA DigitsLaunch ==
    ASSUME DigitsInv, NEW p \in Parties, Launch(p) PROVE DigitsPart'
<1>1. /\ pc[p] = "launch" /\ pc' = [pc EXCEPT ![p] = "threads"]
      /\ tpc' = SetRow(tpc, p, Threads, "leaf")
      /\ UNCHANGED <<data, leaf, triple, level, base, op, got, net>>
  BY DEF Launch, circuit, SetRow
<1>2. \A q \in Parties, t \in Threads : tpc'[q][t] = IF q = p THEN "leaf" ELSE tpc[q][t]
  <2>1. Table(tpc, Parties, Threads)
    BY DEF DigitsInv, SpendsInv, Shapes
  <2> QED
    BY <1>1, <2>1, TableRow
<1>3. \A t \in Threads : tpc[p][t] = "none"
  BY <1>1 DEF DigitsInv, SpendsInv, MainSpends
<1>4. ASSUME NEW t \in Threads PROVE Stage(t)'
  <2>1. t \in Workers
    BY DEF Workers
  <2>2. Early(t)
    BY <1>3, <2>1, TwoSides DEF DigitsInv, Stage, Ready, SameLevel, BobAhead, AliceAhead, Finished
  <2>3. Early(t)'
    BY <1>1, <1>2, <2>2 DEF Early, Quiet
  <2> QED
    BY <2>3 DEF Stage
<1>5. MoreShapes'
  BY <1>1 DEF DigitsInv, MoreShapes
<1>6. LastWaits'
  <2>1. 0 \in Threads /\ Alice(0) \in Parties
    BY DEF Threads, Alice, Parties
  <2>2. op'[Bob(0)][Main] = op[Bob(0)][Main]
    BY <1>1
  <2>3. tpc'[Alice(0)][0] # "done" => tpc[Alice(0)][0] # "done"
    BY <1>2, <1>3, <2>1
  <2>4. \A q \in Parties : pc'[q] = "final" => pc[q] = "final" /\ q # p
    BY <1>1 DEF DigitsInv, SpendsInv, Shapes
  <2> QED
    BY <1>2, <2>2, <2>3, <2>4 DEF DigitsInv, LastWaits
<1> QED
  BY <1>4, <1>5, <1>6 DEF DigitsPart

\* A digit's transfer leaves shares of whether the two digits are equal.
LEMMA LeafSharesGood ==
    ASSUME NEW t \in Threads, NEW mask \in LeafMasks, NEW fa, NEW fb,
           fa = [x \in LeafIndices(t) |-> mask[x]],
           fb = [x \in LeafIndices(t) |->
                   LeafMessage(DigitAt(Alice(t), t, x), mask[x], DigitAt(Bob(t), t, x))]
    PROVE  SharesGood(data, fa, fb, t, 1)
<1> DEFINE a == Alice(t)
           b == Bob(t)
           equal(x) == DigitAt(a, t, x) = DigitAt(b, t, x)
<1>1. NumBins \in Nat \ {0} /\ D \in Nat \ {0} /\ Count(t) = NumBins
  BY SizesAssumption, DigitsExist, ThreadsGetHalves
<1>2. \A x \in LeafIndices(t) : mask[x] \in Bit
  <2>1. mask \in [0 .. NumDigits * NumCmps - 1 -> {0, 1}]
    BY RandomnessAssumption
  <2>2. LeafIndices(t) \subseteq 0 .. NumDigits * NumCmps - 1
    <3>1. D * NumBins \in Nat /\ D * (2 * NumBins) = 2 * (D * NumBins)
      BY <1>1
    <3>2. LeafIndices(t) = 0 .. D * NumBins - 1 /\ NumDigits * NumCmps = D * (2 * NumBins)
      BY <1>1 DEF LeafIndices, D, NumCmps
    <3> QED
      BY <3>1, <3>2
  <2> QED
    BY <2>1, <2>2 DEF Bit
<1>3. \A x \in LeafIndices(t) :
        fa[x] = mask[x] /\ fb[x] = Xor(IF equal(x) THEN 1 ELSE 0, mask[x])
  BY DEF LeafMessage
<1>4. \A x \in LeafIndices(t) :
        /\ fa[x] \in Bit /\ fb[x] \in Bit
        /\ Xor(fa[x], fb[x]) = 1 <=> equal(x)
  <2> SUFFICES ASSUME NEW x \in LeafIndices(t)
               PROVE  /\ fa[x] \in Bit /\ fb[x] \in Bit
                      /\ Xor(fa[x], fb[x]) = 1 <=> equal(x)
    OBVIOUS
  <2> DEFINE u == IF equal(x) THEN 1 ELSE 0
             m == mask[x]
             v == Xor(u, m)
  <2>1. u \in Bit /\ m \in Bit /\ (u = 1 <=> equal(x))
    BY <1>2 DEF Bit
  <2>2. fa[x] = m /\ fb[x] = v
    BY <1>3
  <2> HIDE DEF u, m
  <2>3. v \in Bit /\ (v = 1 <=> u # m)
    BY <2>1, XorOfBits
  <2> HIDE DEF v
  <2>4. Xor(m, v) = 1 <=> m # v
    BY <2>1, <2>3, XorOfBits
  <2>5. m # v <=> u = 1
    BY <2>1, <2>3 DEF Bit
  <2> HIDE DEF equal
  <2> QED
    BY <2>1, <2>2, <2>3, <2>4, <2>5
<1>5. fa \in [LeafIndices(t) -> Bit] /\ fb \in [LeafIndices(t) -> Bit]
  <2>1. fa = [x \in LeafIndices(t) |-> fa[x]] /\ fb = [x \in LeafIndices(t) |-> fb[x]]
    BY Zenon
  <2> QED
    BY <1>4, <2>1
<1>6. ASSUME NEW q \in Nat, NEW j \in 0 .. NumBins - 1, 1 * q < D
      PROVE  Xor(fa[Place(1 * q, j)], fb[Place(1 * q, j)]) = 1
               <=> DigitsSame(data, Offset(t) + j, 1 * q, 1)
  <2> DEFINE x == Place(q, j)
             o == Offset(t) + j
  <2>1. 1 * q = q /\ q < D
    BY <1>6
  <2>2. x \in LeafIndices(t) /\ x % Count(t) = j /\ x \div Count(t) = q
    BY <2>1, PlaceIs
  <2>3. DigitAt(a, t, x) = Digit(data[a][o], q) /\ DigitAt(b, t, x) = Digit(data[b][o], q)
    BY <2>2 DEF DigitAt
  <2>4. DigitsSame(data, o, q, 1) <=> Digit(data[0][o], q) = Digit(data[1][o], q)
    <3>1. \A i : i \in q .. q + 1 - 1 <=> i = q
      OBVIOUS
    <3> QED
      BY <2>1, <3>1, DigitsExist DEF DigitsSame, D
  <2>5. (a = 0 /\ b = 1) \/ (a = 1 /\ b = 0)
    BY DEF Alice, Bob, Other
  <2>6. equal(x) <=> DigitsSame(data, o, q, 1)
    BY <2>3, <2>4, <2>5
  <2> HIDE DEF x, equal
  <2>7. Xor(fa[x], fb[x]) = 1 <=> equal(x)
    BY <1>4, <2>2
  <2> QED
    BY <2>1, <2>6, <2>7 DEF x
<1> QED
  BY <1>5, <1>6 DEF SharesGood

LEMMA DigitsLeafOTs ==
    ASSUME DigitsInv, NEW t \in Threads, LeafOTs(t) PROVE DigitsPart'
<1> DEFINE a == Alice(t)
           b == Bob(t)
<1>1. /\ a \in Parties /\ b \in Parties /\ Parties = {a, b} /\ a # b
      /\ Side(a, t) = ALICE /\ Side(b, t) = BOB /\ ALICE # BOB /\ Other(a) = b /\ t \in Workers
  <2>1. t \in Workers
    BY DEF Workers
  <2> QED
    BY <2>1, TwoSides
<1>2. PICK mask \in LeafMasks :
        leaf' = [leaf EXCEPT
          ![a][t] = [x \in LeafIndices(t) |-> mask[x]],
          ![b][t] = [x \in LeafIndices(t) |->
             LeafMessage(DigitAt(a, t, x), mask[x], DigitAt(b, t, x))]]
  <2> DEFINE made(alice, bob, mask) == [leaf EXCEPT
               ![alice][t] = [x \in LeafIndices(t) |-> mask[x]],
               ![bob][t] = [x \in LeafIndices(t) |->
                  LeafMessage(DigitAt(alice, t, x), mask[x], DigitAt(bob, t, x))]]
  <2>1. PICK alice \in Parties :
          /\ Side(alice, t) = ALICE
          /\ \E mask \in LeafMasks : leaf' = made(alice, Other(alice), mask)
    BY DEF LeafOTs
  <2>2. alice = a
    BY <1>1, <2>1
  <2>3. Other(alice) = b
    BY <1>1, <2>2
  <2>4. PICK mask \in LeafMasks : leaf' = made(a, b, mask)
    <3> HIDE DEF a, b, made
    <3> QED
      BY <2>1, <2>2, <2>3
  <2> QED
    BY <2>4
<1>3. PICK fa, fb : /\ fa = [x \in LeafIndices(t) |-> mask[x]]
                    /\ fb = [x \in LeafIndices(t) |->
                         LeafMessage(DigitAt(a, t, x), mask[x], DigitAt(b, t, x))]
  OBVIOUS
<1>4. leaf' = SetCell(SetCell(leaf, a, t, fa), b, t, fb)
  BY <1>2, <1>3 DEF SetCell
<1>5. /\ Table(leaf', Parties, Threads) /\ leaf'[a][t] = fa /\ leaf'[b][t] = fb
      /\ \A p \in Parties, u \in Threads : u # t => leaf'[p][u] = leaf[p][u]
  <2> HIDE DEF a, b
  <2> DEFINE half == SetCell(leaf, a, t, fa)
  <2>1. Table(leaf, Parties, Threads)
    BY DEF DigitsInv, MoreShapes
  <2>2. /\ Table(half, Parties, Threads) /\ half[a][t] = fa
        /\ \A p \in Parties, u \in Threads : u # t => half[p][u] = leaf[p][u]
    BY <1>1, <2>1, TableCell
  <2> HIDE DEF half
  <2>3. leaf' = SetCell(half, b, t, fb)
    BY <1>4 DEF half
  <2>4. /\ Table(leaf', Parties, Threads) /\ leaf'[b][t] = fb
        /\ leaf'[a][t] = half[a][t]
        /\ \A p \in Parties, u \in Threads : u # t => leaf'[p][u] = half[p][u]
    BY <1>1, <2>2, <2>3, TableCell
  <2> QED
    BY <2>2, <2>4
<1>6. /\ \A p \in Parties : tpc[p][t] = "leaf"
      /\ tpc' = SetColumn(tpc, Parties, t, "triples")
      /\ UNCHANGED <<data, pc, triple, level, base, op, got, net>>
  BY DEF LeafOTs, SetColumn
<1>7. \A p \in Parties, u \in Threads : tpc'[p][u] = IF u = t THEN "triples" ELSE tpc[p][u]
  <2>1. Table(tpc, Parties, Threads)
    BY DEF DigitsInv, SpendsInv, Shapes
  <2> QED
    BY <1>6, <2>1, TableColumn
<1>8. ASSUME NEW u \in Threads PROVE Stage(u)'
  <2>1. CASE u = t
    <3>1. Early(t)
      BY <1>1, <1>6 DEF DigitsInv, Stage, Ready, SameLevel, BobAhead, AliceAhead, Finished
    <3>2. SharesGood(data, fa, fb, t, 1)
      BY <1>3, LeafSharesGood
    <3>3. Ready(t)'
      BY <1>5, <1>6, <1>7, <3>1, <3>2 DEF Ready, Early, Quiet
    <3> QED
      BY <2>1, <3>3 DEF Stage
  <2>2. CASE u # t
    <3>1. Unmoved(u)
      BY <1>5, <1>6, <1>7, <2>2 DEF Unmoved
    <3> QED
      BY <3>1, StageKept DEF DigitsInv
  <2> QED
    BY <2>1, <2>2
<1>9. MoreShapes'
  BY <1>5, <1>6 DEF DigitsInv, MoreShapes
<1>10. LastWaits'
  <2>1. 0 \in Threads /\ Alice(0) \in Parties
    BY DEF Threads, Alice, Parties
  <2>2. \A p \in Parties : pc[p] # "final"
    BY <1>6 DEF DigitsInv, LastWaits
  <2>3. tpc[Alice(0)][0] = "done" => tpc'[Alice(0)][0] = "done"
    BY <1>6, <1>7, <2>1
  <2> QED
    BY <1>6, <2>2, <2>3 DEF DigitsInv, LastWaits
<1> QED
  BY <1>8, <1>9, <1>10 DEF DigitsPart

\* What the generator gives fits together.
LEMMA TriplesMadeFit ==
    ASSUME NEW t \in Workers, NEW shares \in TripleShares,
           \A p \in Parties : triple'[p][t] =
             [k \in 0 .. Triples(t) - 1 |->
                LET s == shares[k] IN
                [a |-> s.a[p], b |-> s.b[p],
                 c |-> IF p = 0 THEN s.c
                       ELSE Xor(s.c, Xor(s.a[0], s.a[1]) * Xor(s.b[0], s.b[1]))]]
    PROVE  TriplesFit(t)'
<1> SUFFICES ASSUME NEW p \in Parties, NEW k \in 0 .. Triples(t) - 1
             PROVE  LET x == triple'[p][t][k]
                        y == triple'[Other(p)][t][k]
                    IN  /\ x.a \in Bit /\ x.b \in Bit /\ x.c \in Bit
                        /\ Xor(x.c, y.c) = Xor(x.a, y.a) * Xor(x.b, y.b)
  BY DEF TriplesFit, Triples
<1>1. k \in 0 .. NumDigits * NumCmps - 1
  <2>1. Triples(t) = (D - 1) * NumBins \/ Triples(t) = NumBins
    BY DigitsExist DEF Triples
  <2>2. D \in Nat \ {0} /\ NumBins \in Nat \ {0} /\ NumDigits = D /\ NumCmps = 2 * NumBins
    BY DigitsExist, SizesAssumption DEF D, NumCmps
  <2>3. /\ (D - 1) * NumBins = D * NumBins - NumBins /\ D * NumBins \in Nat
        /\ D * (2 * NumBins) = 2 * (D * NumBins) /\ D * NumBins >= NumBins
    <3>1. PICK m \in Nat : D = m + 1
      <4>1. D - 1 \in Nat /\ D = (D - 1) + 1
        BY <2>2
      <4> QED
        BY <4>1
    <3>2. (m + 1) * NumBins = m * NumBins + NumBins /\ m * NumBins \in Nat
      BY <2>2, <3>1
    <3>3. (D - 1) * NumBins = D * NumBins - NumBins /\ D * (2 * NumBins) = 2 * (D * NumBins)
      BY <2>2
    <3> QED
      BY <2>2, <3>1, <3>2, <3>3
  <2> QED
    BY <2>1, <2>2, <2>3
<1> DEFINE s == shares[k]
           a0 == s.a[0]
           a1 == s.a[1]
           b0 == s.b[0]
           b1 == s.b[1]
           c0 == s.c
           prod == Xor(a0, a1) * Xor(b0, b1)
           c1 == Xor(c0, prod)
<1>2. a0 \in Bit /\ a1 \in Bit /\ b0 \in Bit /\ b1 \in Bit /\ c0 \in Bit
  <2>1. s \in [a : [Parties -> {0, 1}], b : [Parties -> {0, 1}], c : {0, 1}]
    <3>1. shares \in [0 .. NumDigits * NumCmps - 1 ->
            [a : [Parties -> {0, 1}], b : [Parties -> {0, 1}], c : {0, 1}]]
      BY RandomnessAssumption
    <3> QED
      BY <1>1, <3>1
  <2>2. 0 \in Parties /\ 1 \in Parties
    BY DEF Parties
  <2> HIDE DEF s
  <2> QED
    BY <2>1, <2>2 DEF Bit
<1>3. /\ triple'[0][t][k] = [a |-> a0, b |-> b0, c |-> c0]
      /\ triple'[1][t][k] = [a |-> a1, b |-> b1, c |-> c1]
  <2> DEFINE made(r) ==
               [n \in 0 .. Triples(t) - 1 |->
                  LET u == shares[n] IN
                  [a |-> u.a[r], b |-> u.b[r],
                   c |-> IF r = 0 THEN u.c
                         ELSE Xor(u.c, Xor(u.a[0], u.a[1]) * Xor(u.b[0], u.b[1]))]]
  <2>1. triple'[0][t] = made(0) /\ triple'[1][t] = made(1)
    BY Zenon DEF Parties
  <2>2. made(0)[k] = [a |-> a0, b |-> b0, c |-> c0]
    OBVIOUS
  <2>3. made(1)[k] = [a |-> a1, b |-> b1, c |-> c1]
    OBVIOUS
  <2> HIDE DEF made
  <2> QED
    BY <2>1, <2>2, <2>3
<1> HIDE DEF a0, a1, b0, b1, c0
<1>4. Xor(a0, a1) \in Bit /\ Xor(b0, b1) \in Bit /\ prod \in Bit
  <2>1. Xor(a0, a1) \in Bit /\ Xor(b0, b1) \in Bit
    BY <1>2, XorOfBits
  <2> QED
    BY <2>1, ProductOfBits
<1>5. c1 \in Bit /\ (c1 = 1 <=> c0 # prod)
  <2> HIDE DEF prod
  <2> QED
    BY <1>2, <1>4, XorOfBits
<1>6. Xor(c0, c1) = prod /\ Xor(c1, c0) = prod
  <2> HIDE DEF prod, c1
  <2>1. /\ Xor(c0, c1) \in Bit /\ (Xor(c0, c1) = 1 <=> c0 # c1)
        /\ Xor(c1, c0) \in Bit /\ (Xor(c1, c0) = 1 <=> c1 # c0)
    BY <1>2, <1>5, XorOfBits
  <2> QED
    BY <1>2, <1>4, <1>5, <2>1 DEF Bit
<1>7. Xor(a1, a0) = Xor(a0, a1) /\ Xor(b1, b0) = Xor(b0, b1)
  <2>1. /\ Xor(a0, a1) \in Bit /\ (Xor(a0, a1) = 1 <=> a0 # a1)
        /\ Xor(a1, a0) \in Bit /\ (Xor(a1, a0) = 1 <=> a1 # a0)
        /\ Xor(b0, b1) \in Bit /\ (Xor(b0, b1) = 1 <=> b0 # b1)
        /\ Xor(b1, b0) \in Bit /\ (Xor(b1, b0) = 1 <=> b1 # b0)
    BY <1>2, XorOfBits
  <2> QED
    BY <2>1 DEF Bit
<1>8. CASE p = 0
  <2>1. Other(p) = 1
    BY <1>8 DEF Other
  <2> HIDE DEF c1
  <2>2. Xor(c0, c1) = Xor(a0, a1) * Xor(b0, b1)
    BY <1>6
  <2> HIDE DEF prod
  <2> QED
    BY <1>2, <1>3, <1>5, <1>8, <2>1, <2>2
<1>9. CASE p = 1
  <2>1. Other(p) = 0
    BY <1>9 DEF Other
  <2> HIDE DEF c1
  <2>2. Xor(c1, c0) = Xor(a1, a0) * Xor(b1, b0)
    BY <1>6, <1>7
  <2> HIDE DEF prod
  <2> QED
    BY <1>2, <1>3, <1>5, <1>9, <2>1, <2>2
<1> QED
  BY <1>8, <1>9 DEF Parties

\* A new level, with nothing sent or received of it yet; or there is none left.
LEMMA NewLevel ==
    ASSUME NEW t \in Threads, NEW i, i \in Nat \ {0},
           \A p \in Parties :
             /\ tpc'[p][t] = "level" \/ (i >= D /\ tpc'[p][t] = "done")
             /\ level'[p][t] = i /\ op'[p][t] = 1
             /\ base'[p][t] = (D - Parts(i)) * NumBins,
           TriplesFit(t)', Quiet(t)',
           SharesGood(data', leaf'[Alice(t)][t], leaf'[Bob(t)][t], t, i)
    PROVE  Stage(t)'
<1>1. Alice(t) \in Parties /\ Bob(t) \in Parties
  <2>1. t \in Workers
    BY DEF Workers
  <2> QED
    BY <2>1, TwoSides
<1>2. CASE i < D
  <2>1. AtLevel(t, i)'
    BY <1>2 DEF AtLevel, Parts, D
  <2>2. First(1) = 0 /\ Second(1) = 0
    BY DEF First, Second
  <2>3. \A p \in Parties : tpc'[p][t] = "level"
    BY <1>2, DigitsExist
  <2>4. SameLevel(t)'
    <3>1. \A e, f, p : Channel(<<>>, <<>>, 0, 0, e, f)
      BY ChannelEnds
    <3> QED
      BY <1>1, <2>1, <2>2, <2>3, <3>1 DEF SameLevel, Quiet
  <2> QED
    BY <2>4 DEF Stage
<1>3. CASE i >= D
  <2>1. Finished(t)'
    BY <1>1, <1>3 DEF Finished, Quiet, D
  <2> QED
    BY <2>1 DEF Stage
<1> QED
  BY <1>2, <1>3, DigitsExist

LEMMA DigitsThreadTriples ==
    ASSUME DigitsInv, SpendsInv', NEW t \in Threads, ThreadTriples(t) PROVE DigitsPart'
<1>1. /\ \A p \in Parties : tpc[p][t] = "triples"
      /\ tpc' = SetColumn(tpc, Parties, t, "level")
      /\ UNCHANGED <<data, pc, leaf, level, base, op, got, net>>
  BY DEF ThreadTriples, SetColumn
<1>2. \A p \in Parties, u \in Threads : tpc'[p][u] = IF u = t THEN "level" ELSE tpc[p][u]
  <2>1. Table(tpc, Parties, Threads)
    BY DEF DigitsInv, SpendsInv, Shapes
  <2> QED
    BY <1>1, <2>1, TableColumn
<1> DEFINE made(shares, p) ==
             [k \in 0 .. Triples(t) - 1 |->
                LET s == shares[k] IN
                [a |-> s.a[p], b |-> s.b[p],
                 c |-> IF p = 0 THEN s.c
                       ELSE Xor(s.c, Xor(s.a[0], s.a[1]) * Xor(s.b[0], s.b[1]))]]
<1>3. PICK shares \in TripleShares :
        triple' = [p \in Parties |-> [triple[p] EXCEPT ![t] = made(shares, p)]]
  <2>1. NumTriples * Count(t) = Triples(t)
    BY ThreadsGetHalves DEF Triples, Threads, Main
  <2> QED
    BY <2>1 DEF ThreadTriples, GiveTriples
<1> DEFINE h == [p \in Parties |-> made(shares, p)]
<1>4. /\ Table(triple', Parties, Workers)
      /\ \A p \in Parties, w \in Workers :
           triple'[p][w] = IF w = t THEN h[p] ELSE triple[p][w]
  <2> HIDE DEF made
  <2>1. triple' = SetEntries(triple, Parties, t, h)
    BY <1>3, Zenon DEF SetEntries
  <2>2. Table(triple, Parties, Workers) /\ t \in Workers
    BY DEF DigitsInv, MoreShapes, Workers
  <2> HIDE DEF h
  <2> QED
    BY <2>1, <2>2, TableEntries
<1>5. TriplesFit(t)'
  <2>1. \A p \in Parties : triple'[p][t] = made(shares, p)
    <3> HIDE DEF made
    <3> QED
      BY <1>4 DEF Workers
  <2>2. t \in Workers
    BY DEF Workers
  <2> QED
    BY <2>1, <2>2, TriplesMadeFit
<1> HIDE DEF h
<1>6. ASSUME NEW u \in Threads PROVE Stage(u)'
  <2>1. CASE u = t
    <3>1. Ready(t)
      <4>1. Alice(t) \in Parties /\ Bob(t) \in Parties
        <5>1. t \in Workers
          BY DEF Workers
        <5> QED
          BY <5>1, TwoSides
      <4> QED
        BY <1>1, <4>1
          DEF DigitsInv, Stage, Early, SameLevel, BobAhead, AliceAhead, Finished
    <3>2. \A p \in Parties : /\ tpc'[p][t] = "level" /\ level'[p][t] = 1 /\ op'[p][t] = 1
                             /\ base'[p][t] = (D - Parts(1)) * NumBins
      BY <1>1, <1>2 DEF DigitsInv, SpendsInv, ThreadSpends
    <3>3. Quiet(t)' /\ SharesGood(data', leaf'[Alice(t)][t], leaf'[Bob(t)][t], t, 1)
      BY <1>1, <3>1 DEF Ready, Quiet
    <3>4. \A p \in Parties : /\ tpc'[p][t] = "level" \/ (1 >= D /\ tpc'[p][t] = "done")
                             /\ level'[p][t] = 1 /\ op'[p][t] = 1
                             /\ base'[p][t] = (D - Parts(1)) * NumBins
      BY <3>2
    <3>5. Stage(t)'
      BY <1>5, <3>3, <3>4, NewLevel
    <3> QED
      BY <2>1, <3>5
  <2>2. CASE u # t
    <3>1. Unmoved(u)
      BY <1>1, <1>2, <1>4, <2>2 DEF Unmoved, Workers
    <3> QED
      BY <3>1, StageKept DEF DigitsInv
  <2> QED
    BY <2>1, <2>2
<1>7. MoreShapes'
  BY <1>1, <1>4 DEF DigitsInv, MoreShapes
<1>8. LastWaits'
  <2>1. 0 \in Threads /\ Alice(0) \in Parties
    BY DEF Threads, Alice, Parties
  <2>2. \A p \in Parties : pc[p] # "final"
    BY <1>1 DEF DigitsInv, LastWaits
  <2>3. tpc[Alice(0)][0] = "done" => tpc'[Alice(0)][0] = "done"
    BY <1>1, <1>2, <2>1
  <2> QED
    BY <1>1, <2>2, <2>3 DEF DigitsInv, LastWaits
<1> QED
  BY <1>6, <1>7, <1>8 DEF DigitsPart

LEMMA DigitsFinishThread ==
    ASSUME DigitsInv, NEW p \in Parties, NEW t \in Threads, FinishThread(p, t)
    PROVE  DigitsPart'
<1> DEFINE a == Alice(t)
           b == Bob(t)
<1>1. /\ tpc[p][t] = "level" /\ level[p][t] >= D
      /\ tpc' = SetCell(tpc, p, t, "done")
      /\ UNCHANGED <<data, pc, leaf, triple, level, base, op, got, net>>
  BY DEF FinishThread, circuit, SetCell, D
<1>2. \A q \in Parties, u \in Threads :
        tpc'[q][u] = IF q = p /\ u = t THEN "done" ELSE tpc[q][u]
  <2>1. Table(tpc, Parties, Threads)
    BY DEF DigitsInv, SpendsInv, Shapes
  <2> QED
    BY <1>1, <2>1, TableCell
<1>3. a \in Parties /\ b \in Parties /\ Parties = {a, b} /\ a # b /\ t \in Workers
  <2>1. t \in Workers
    BY DEF Workers
  <2> QED
    BY <2>1, TwoSides
<1>4. /\ level[p][t] \in Nat \ {0} /\ D \in Nat \ {0}
      /\ TriplesFit(t) => TriplesFit(t)'
      /\ ShareE(a, t)' = ShareE(a, t) /\ ShareF(a, t)' = ShareF(a, t)
      /\ \A e, f : NewLeaf(a, t, e, f)' = NewLeaf(a, t, e, f)
      /\ \A e, f : NewLeaf(b, t, e, f)' = NewLeaf(b, t, e, f)
  <2>1. level[p][t] \in Nat \ {0} /\ D \in Nat \ {0}
    BY DigitsExist DEF DigitsInv, SpendsInv, ThreadSpends
  <2>2. TriplesFit(t) => TriplesFit(t)'
    BY <1>1 DEF TriplesFit, Triples
  <2> HIDE DEF a, b
  <2> QED
    BY <1>1, <2>1, <2>2, SideKept
<1>5. ASSUME NEW u \in Threads PROVE Stage(u)'
  <2>1. CASE u # t
    <3>1. Unmoved(u)
      BY <1>1, <1>2, <2>1 DEF Unmoved
    <3> QED
      BY <3>1, StageKept DEF DigitsInv
  <2>2. CASE u = t
    <3>1. SameLevel(t) \/ BobAhead(t) \/ AliceAhead(t) \/ Finished(t)
      BY <1>1 DEF DigitsInv, Stage, Early, Ready
    <3>2. CASE SameLevel(t)
      BY <1>1, <1>4, <3>2 DEF SameLevel, AtLevel
    <3>3. CASE BobAhead(t)
      <4>1. p = b
        BY <1>1, <1>3, <1>4, <3>3 DEF BobAhead
      <4>2. BobAhead(t)'
        BY <1>1, <1>2, <1>3, <1>4, <3>3, <4>1 DEF BobAhead, D
      <4> QED
        BY <2>2, <4>2 DEF Stage
    <3>4. CASE AliceAhead(t)
      <4>1. p = a
        BY <1>1, <1>3, <1>4, <3>4 DEF AliceAhead
      <4>2. AliceAhead(t)'
        BY <1>1, <1>2, <1>3, <1>4, <3>4, <4>1 DEF AliceAhead, D
      <4> QED
        BY <2>2, <4>2 DEF Stage
    <3>5. CASE Finished(t)
      <4>1. Finished(t)'
        BY <1>1, <1>2, <1>3, <3>5 DEF Finished, D
      <4> QED
        BY <2>2, <4>1 DEF Stage
    <3> QED
      BY <3>1, <3>2, <3>3, <3>4, <3>5
  <2> QED
    BY <2>1, <2>2
<1>6. MoreShapes'
  BY <1>1 DEF DigitsInv, MoreShapes
<1>7. LastWaits'
  <2>1. 0 \in Threads /\ Alice(0) \in Parties
    BY DEF Threads, Alice, Parties
  <2>2. \A q \in Parties, u \in Threads : tpc[q][u] = "done" => tpc'[q][u] = "done"
    BY <1>2
  <2> QED
    BY <1>1, <2>1, <2>2 DEF DigitsInv, LastWaits
<1> QED
  BY <1>5, <1>6, <1>7 DEF DigitsPart

\* A transfer changes one count, and one queue.
LEMMA SendMoves ==
    ASSUME DigitsInv, NEW p \in Parties, NEW w \in Workers, SendShare(p, w)
    PROVE  /\ \A q \in Parties, v \in Workers :
                op'[q][v] = IF q = p /\ v = w THEN op[p][w] + 1 ELSE op[q][v]
           /\ \E m : /\ m = IF Ops(p, w)[op[p][w]] = "e" THEN ShareE(p, w) ELSE ShareF(p, w)
                     /\ \A s \in Threads, q \in Parties :
                          net'[s][q] = IF s = Stream(w) /\ q = Other(p)
                                       THEN Append(net[s][q], m) ELSE net[s][q]
           /\ MoreShapes'
<1> DEFINE next == op[p][w] + 1
<1>1. PICK m : m = IF Ops(p, w)[op[p][w]] = "e" THEN ShareE(p, w) ELSE ShareF(p, w)
  OBVIOUS
<1> DEFINE queue == Append(net[Stream(w)][Other(p)], m)
<1>2. /\ op' = SetCell(op, p, w, next) /\ net' = SetCell(net, Stream(w), Other(p), queue)
      /\ UNCHANGED <<leaf, triple, got>>
  BY <1>1 DEF SendShare, SetCell
<1>3. /\ Table(op, Parties, Workers) /\ Table(net, Threads, Parties)
      /\ Stream(w) \in Threads /\ Other(p) \in Parties
  BY DEF DigitsInv, SpendsInv, Shapes, MoreShapes, Stream, Workers, Threads, Main, Other, Parties
<1> HIDE DEF next, queue
<1>4. \A q \in Parties, v \in Workers :
        op'[q][v] = IF q = p /\ v = w THEN next ELSE op[q][v]
  BY <1>2, <1>3, TableCell
<1>5. /\ Table(net', Threads, Parties)
      /\ \A s \in Threads, q \in Parties :
           net'[s][q] = IF s = Stream(w) /\ q = Other(p) THEN queue ELSE net[s][q]
  BY <1>2, <1>3, TableCell
<1>6. MoreShapes'
  BY <1>2, <1>5 DEF DigitsInv, MoreShapes
<1> QED
  BY <1>1, <1>4, <1>5, <1>6 DEF next, queue

LEMMA ReceiveMoves ==
    ASSUME DigitsInv, NEW p \in Parties, NEW w \in Workers, ReceiveShare(p, w)
    PROVE  /\ \A q \in Parties, v \in Workers :
                /\ op'[q][v] = IF q = p /\ v = w THEN op[p][w] + 1 ELSE op[q][v]
                /\ got'[q][v] = IF q = p /\ v = w
                                THEN Append(got[p][w], Head(net[Stream(w)][p])) ELSE got[q][v]
           /\ \A s \in Threads, q \in Parties :
                net'[s][q] = IF s = Stream(w) /\ q = p THEN Tail(net[s][q]) ELSE net[s][q]
           /\ MoreShapes'
<1> DEFINE next == op[p][w] + 1
           has == Append(got[p][w], Head(net[Stream(w)][p]))
           queue == Tail(net[Stream(w)][p])
<1>1. /\ op' = SetCell(op, p, w, next) /\ net' = SetCell(net, Stream(w), p, queue)
      /\ got' = SetCell(got, p, w, has) /\ UNCHANGED <<leaf, triple>>
  BY DEF ReceiveShare, SetCell
<1>2. /\ Table(op, Parties, Workers) /\ Table(net, Threads, Parties)
      /\ Table(got, Parties, Workers) /\ Stream(w) \in Threads
  BY DEF DigitsInv, SpendsInv, Shapes, MoreShapes, Stream, Workers, Threads, Main
<1> HIDE DEF next, has, queue
<1>3. \A q \in Parties, v \in Workers :
        op'[q][v] = IF q = p /\ v = w THEN next ELSE op[q][v]
  BY <1>1, <1>2, TableCell
<1>4. /\ Table(got', Parties, Workers)
      /\ \A q \in Parties, v \in Workers :
           got'[q][v] = IF q = p /\ v = w THEN has ELSE got[q][v]
  BY <1>1, <1>2, TableCell
<1>5. /\ Table(net', Threads, Parties)
      /\ \A s \in Threads, q \in Parties :
           net'[s][q] = IF s = Stream(w) /\ q = p THEN queue ELSE net[s][q]
  BY <1>1, <1>2, TableCell
<1>6. MoreShapes'
  BY <1>1, <1>4, <1>5 DEF DigitsInv, MoreShapes
<1> QED
  BY <1>3, <1>4, <1>5, <1>6 DEF next, has, queue

\* The two ends of a thread, and what each does next.
LEMMA ThreadEnds ==
    ASSUME DigitsInv, NEW t \in Threads
    PROVE  LET a == Alice(t)
               b == Bob(t)
           IN  /\ a \in Parties /\ b \in Parties /\ Parties = {a, b} /\ a # b
               /\ Other(a) = b /\ Other(b) = a
               /\ t \in Workers /\ t # Main /\ Stream(t) = t
               /\ op[a][t] \in 1 .. 5 /\ op[b][t] \in 1 .. 5
               /\ level[a][t] \in Nat \ {0} /\ level[b][t] \in Nat \ {0} /\ D \in Nat \ {0}
               /\ Ops(a, t) = <<"e", "f", "receive", "receive">>
               /\ Ops(b, t) = <<"receive", "receive", "e", "f">>
<1>1. t \in Workers /\ t # Main /\ Stream(t) = t
  BY DEF Workers, Threads, Main, Stream
<1> QED
  BY <1>1, TwoSides, DigitsExist DEF DigitsInv, SpendsInv, ThreadSpends, Ops

\* Transfers of a thread leave the main threads where they are.
LEMMA WaitsKept ==
    ASSUME DigitsInv, pc' = pc, tpc' = tpc, op'[Bob(0)][Main] = op[Bob(0)][Main]
    PROVE  LastWaits'
  BY DEF DigitsInv, LastWaits

\* What is to be shown to be at a stage after a step.
LEMMA AtNextLevel ==
    ASSUME NEW t \in Threads, NEW i, i \in Nat \ {0}, i < D,
           \A p \in Parties : level'[p][t] = i /\ base'[p][t] = (D - Parts(i)) * NumBins,
           TriplesFit(t)', SharesGood(data', leaf'[Alice(t)][t], leaf'[Bob(t)][t], t, i)
    PROVE  AtLevel(t, i)'
  BY DEF AtLevel, Parts, D

LEMMA AtSameLevel ==
    ASSUME NEW t \in Threads, NEW i, AtLevel(t, i)', \A p \in Parties : tpc'[p][t] = "level",
           Channel(got'[Bob(t)][t], net'[t][Bob(t)], First(op'[Bob(t)][t]),
                   First(op'[Alice(t)][t]), ShareE(Alice(t), t)', ShareF(Alice(t), t)'),
           Channel(got'[Alice(t)][t], net'[t][Alice(t)], Second(op'[Alice(t)][t]),
                   Second(op'[Bob(t)][t]), ShareE(Bob(t), t)', ShareF(Bob(t), t)')
    PROVE  Stage(t)'
<1>1. \E n : AtLevel(t, n)'
  OBVIOUS
<1>2. SameLevel(t)'
  BY <1>1, Zenon DEF SameLevel
<1> QED
  BY <1>2, Zenon DEF Stage

LEMMA AtAliceAhead ==
    ASSUME NEW t \in Threads, NEW e, NEW f,
           tpc'[Bob(t)][t] = "level", tpc'[Alice(t)][t] \in {"level", "done"},
           level'[Bob(t)][t] < D, level'[Alice(t)][t] = 2 * level'[Bob(t)][t],
           op'[Bob(t)][t] = 5, op'[Alice(t)][t] \in 1 .. 3,
           got'[Alice(t)][t] = <<>>, net'[t][Alice(t)] = <<>>, TriplesFit(t)',
           got'[Bob(t)][t] = <<e, f>>,
           SharesGood(data', leaf'[Alice(t)][t], NewLeaf(Bob(t), t, e, f)', t,
                      level'[Alice(t)][t]),
           level'[Alice(t)][t] < D =>
             Channel(<<>>, net'[t][Bob(t)], 0, op'[Alice(t)][t] - 1,
                     ShareE(Alice(t), t)', ShareF(Alice(t), t)'),
           level'[Alice(t)][t] >= D /\ tpc'[Alice(t)][t] = "level" => net'[t][Bob(t)] = <<>>
    PROVE  Stage(t)'
<1>1. \E c, d : /\ got'[Bob(t)][t] = <<c, d>>
                /\ SharesGood(data', leaf'[Alice(t)][t], NewLeaf(Bob(t), t, c, d)', t,
                              level'[Alice(t)][t])
  OBVIOUS
<1>2. D' = D
  BY DEF D
<1>3. AliceAhead(t)'
  BY <1>1, <1>2, Zenon DEF AliceAhead
<1> QED
  BY <1>3, Zenon DEF Stage

LEMMA AtBobAhead ==
    ASSUME NEW t \in Threads, NEW e, NEW f,
           tpc'[Alice(t)][t] = "level", tpc'[Bob(t)][t] \in {"level", "done"},
           level'[Alice(t)][t] < D, level'[Bob(t)][t] = 2 * level'[Alice(t)][t],
           op'[Alice(t)][t] \in 3 .. 5, op'[Bob(t)][t] = 1,
           got'[Bob(t)][t] = <<>>, net'[t][Bob(t)] = <<>>, TriplesFit(t)',
           Channel(got'[Alice(t)][t], net'[t][Alice(t)], Second(op'[Alice(t)][t]), 2, e, f),
           SharesGood(data', NewLeaf(Alice(t), t, e, f)', leaf'[Bob(t)][t], t,
                      level'[Bob(t)][t])
    PROVE  Stage(t)'
<1>1. \E c, d :
        /\ Channel(got'[Alice(t)][t], net'[t][Alice(t)], Second(op'[Alice(t)][t]), 2, c, d)
        /\ SharesGood(data', NewLeaf(Alice(t), t, c, d)', leaf'[Bob(t)][t], t,
                      level'[Bob(t)][t])
  OBVIOUS
<1>2. D' = D
  BY DEF D
<1>3. BobAhead(t)'
  BY <1>1, <1>2, Zenon DEF BobAhead
<1> QED
  BY <1>3, Zenon DEF Stage

LEMMA DigitsSendShare ==
    ASSUME DigitsInv, NEW p \in Parties, NEW t \in Threads, SendShare(p, t)
    PROVE  DigitsPart'
<1> DEFINE a == Alice(t)
           b == Bob(t)
           oa == op[a][t]
           ob == op[b][t]
<1>1. /\ a \in Parties /\ b \in Parties /\ Parties = {a, b} /\ a # b
      /\ Other(a) = b /\ Other(b) = a
      /\ t \in Workers /\ t # Main /\ Stream(t) = t /\ oa \in 1 .. 5 /\ ob \in 1 .. 5
      /\ level[a][t] \in Nat \ {0} /\ level[b][t] \in Nat \ {0} /\ D \in Nat \ {0}
      /\ Ops(a, t) = <<"e", "f", "receive", "receive">>
      /\ Ops(b, t) = <<"receive", "receive", "e", "f">>
  BY ThreadEnds
<1>2. /\ tpc[p][t] = "level" /\ level[p][t] < D /\ op[p][t] <= 4
      /\ Ops(p, t)[op[p][t]] \in {"e", "f"}
      /\ UNCHANGED <<data, pc, tpc, leaf, triple, level, base, got>>
  BY <1>1 DEF SendShare, Exchanging, D
<1>3. PICK m : /\ m = IF Ops(p, t)[op[p][t]] = "e" THEN ShareE(p, t) ELSE ShareF(p, t)
               /\ \A s \in Threads, q \in Parties :
                    net'[s][q] = IF s = t /\ q = Other(p)
                                 THEN Append(net[s][q], m) ELSE net[s][q]
  BY <1>1, SendMoves
<1>4. /\ MoreShapes'
      /\ \A q \in Parties, v \in Workers :
           op'[q][v] = IF q = p /\ v = t THEN op[p][t] + 1 ELSE op[q][v]
  BY <1>1, SendMoves
<1>5. LastWaits'
  <2>1. Bob(0) \in Parties /\ Main \in Workers
    BY DEF Bob, Alice, Other, Parties, Workers
  <2> QED
    BY <1>1, <1>2, <1>4, <2>1, WaitsKept
<1>6. /\ TriplesFit(t) => TriplesFit(t)'
      /\ \A i : AtLevel(t, i) => AtLevel(t, i)'
      /\ ShareE(a, t)' = ShareE(a, t) /\ ShareF(a, t)' = ShareF(a, t)
      /\ ShareE(b, t)' = ShareE(b, t) /\ ShareF(b, t)' = ShareF(b, t)
      /\ \A e, f : NewLeaf(b, t, e, f)' = NewLeaf(b, t, e, f)
  <2>1. TriplesFit(t) => TriplesFit(t)'
    BY <1>2 DEF TriplesFit, Triples
  <2>2. \A i : AtLevel(t, i) => AtLevel(t, i)'
    BY <1>2, <2>1 DEF AtLevel, Parts, D
  <2> HIDE DEF a, b
  <2> QED
    BY <1>1, <1>2, <2>1, <2>2, SideKept
<1>7. ASSUME p = a PROVE Stage(t)'
  <2>1. oa \in {1, 2} /\ op'[a][t] = oa + 1 /\ op'[b][t] = ob
    BY <1>1, <1>2, <1>4, <1>7
  <2>2. /\ oa = 1 => m = ShareE(a, t)
        /\ oa = 2 => m = ShareF(a, t)
    BY <1>1, <1>3, <1>7
  <2>3. net'[t][b] = Append(net[t][b], m) /\ net'[t][a] = net[t][a]
    BY <1>1, <1>3, <1>7
  <2>4. CASE SameLevel(t)
    <3>1. Channel(got[b][t], net[t][b], First(ob), First(oa), ShareE(a, t), ShareF(a, t))
      BY <2>4 DEF SameLevel
    <3>2. First(oa) = oa - 1 /\ First(oa + 1) = First(oa) + 1
      BY <2>1 DEF First
    <3>3. Channel(got[b][t], Append(net[t][b], m), First(ob), First(oa) + 1,
                  ShareE(a, t), ShareF(a, t))
      <4>1. First(oa) # 2 /\ (First(oa) = 0 => m = ShareE(a, t))
            /\ (First(oa) = 1 => m = ShareF(a, t))
        BY <2>1, <2>2, <3>2
      <4> QED
        BY <3>1, <4>1, ChannelSends
    <3>4. Second(oa + 1) = Second(oa)
      BY <2>1 DEF Second
    <3>5. Stage(t)'
      <4>1. Channel(got'[b][t], net'[t][b], First(op'[b][t]), First(op'[a][t]),
                    ShareE(a, t)', ShareF(a, t)')
        BY <1>2, <1>6, <2>1, <2>3, <3>2, <3>3
      <4>2. Channel(got'[a][t], net'[t][a], Second(op'[a][t]), Second(op'[b][t]),
                    ShareE(b, t)', ShareF(b, t)')
        BY <1>2, <1>6, <2>1, <2>3, <2>4, <3>4 DEF SameLevel
      <4>3. PICK i : AtLevel(t, i)
        BY <2>4 DEF SameLevel
      <4>4. AtLevel(t, i)' /\ \A q \in Parties : tpc'[q][t] = "level"
        BY <1>2, <1>6, <2>4, <4>3 DEF SameLevel
      <4> QED
        BY <4>1, <4>2, <4>4, AtSameLevel
    <3> QED
      BY <3>5
  <2>5. CASE BobAhead(t)
    BY <2>1, <2>5 DEF BobAhead
  <2>6. CASE AliceAhead(t)
    <3>1. Channel(<<>>, net[t][b], 0, oa - 1, ShareE(a, t), ShareF(a, t))
      BY <1>2, <1>7, <2>6 DEF AliceAhead
    <3>2. Channel(<<>>, Append(net[t][b], m), 0, (oa - 1) + 1, ShareE(a, t), ShareF(a, t))
      <4>1. oa - 1 # 2 /\ (oa - 1 = 0 => m = ShareE(a, t)) /\ (oa - 1 = 1 => m = ShareF(a, t))
        BY <2>1, <2>2
      <4> QED
        BY <3>1, <4>1, ChannelSends
    <3>3. op'[a][t] \in 1 .. 3 /\ op'[a][t] - 1 = (oa - 1) + 1
      BY <2>1
    <3>4. Channel(<<>>, net'[t][b], 0, op'[a][t] - 1, ShareE(a, t)', ShareF(a, t)')
      BY <1>6, <2>3, <3>2, <3>3
    <3>5. ~(level'[a][t] >= D)
      BY <1>1, <1>2, <1>7
    <3>6. PICK e, f : /\ got[b][t] = <<e, f>>
                      /\ SharesGood(data, leaf[a][t], NewLeaf(b, t, e, f), t, level[a][t])
      BY <2>6 DEF AliceAhead
    <3>7. /\ got'[b][t] = <<e, f>>
          /\ SharesGood(data', leaf'[a][t], NewLeaf(b, t, e, f)', t, level'[a][t])
      BY <1>2, <1>6, <3>6
    <3>8. /\ tpc'[b][t] = "level" /\ tpc'[a][t] \in {"level", "done"}
          /\ level'[b][t] < D /\ level'[a][t] = 2 * level'[b][t]
          /\ op'[b][t] = 5 /\ got'[a][t] = <<>> /\ net'[t][a] = <<>> /\ TriplesFit(t)'
      BY <1>2, <1>6, <2>1, <2>3, <2>6 DEF AliceAhead
    <3> QED
      BY <3>3, <3>4, <3>5, <3>7, <3>8, AtAliceAhead
  <2>7. CASE Finished(t)
    BY <1>1, <1>2, <1>7, <2>7 DEF Finished
  <2> QED
    BY <1>2, <2>4, <2>5, <2>6, <2>7 DEF DigitsInv, Stage, Early, Ready
<1>8. ASSUME p = b PROVE Stage(t)'
  <2>1. ob \in {3, 4} /\ op'[b][t] = ob + 1 /\ op'[a][t] = oa
    BY <1>1, <1>2, <1>4, <1>8
  <2>2. /\ ob = 3 => m = ShareE(b, t)
        /\ ob = 4 => m = ShareF(b, t)
    BY <1>1, <1>3, <1>8
  <2>3. net'[t][a] = Append(net[t][a], m) /\ net'[t][b] = net[t][b]
    BY <1>1, <1>3, <1>8
  <2>4. CASE SameLevel(t)
    <3>1. Channel(got[a][t], net[t][a], Second(oa), Second(ob), ShareE(b, t), ShareF(b, t))
      BY <2>4 DEF SameLevel
    <3>2. Second(ob) = ob - 3 /\ Second(ob + 1) = Second(ob) + 1 /\ First(ob + 1) = First(ob)
      BY <2>1 DEF First, Second
    <3>3. Channel(got[a][t], Append(net[t][a], m), Second(oa), Second(ob) + 1,
                  ShareE(b, t), ShareF(b, t))
      <4>1. Second(ob) # 2 /\ (Second(ob) = 0 => m = ShareE(b, t))
            /\ (Second(ob) = 1 => m = ShareF(b, t))
        BY <2>1, <2>2, <3>2
      <4> QED
        BY <3>1, <4>1, ChannelSends
    <3>4. Stage(t)'
      <4>1. Channel(got'[a][t], net'[t][a], Second(op'[a][t]), Second(op'[b][t]),
                    ShareE(b, t)', ShareF(b, t)')
        BY <1>2, <1>6, <2>1, <2>3, <3>2, <3>3
      <4>2. Channel(got'[b][t], net'[t][b], First(op'[b][t]), First(op'[a][t]),
                    ShareE(a, t)', ShareF(a, t)')
        BY <1>2, <1>6, <2>1, <2>3, <2>4, <3>2 DEF SameLevel
      <4>3. PICK i : AtLevel(t, i)
        BY <2>4 DEF SameLevel
      <4>4. AtLevel(t, i)' /\ \A q \in Parties : tpc'[q][t] = "level"
        BY <1>2, <1>6, <2>4, <4>3 DEF SameLevel
      <4> QED
        BY <4>1, <4>2, <4>4, AtSameLevel
    <3> QED
      BY <3>4
  <2>5. CASE BobAhead(t)
    BY <2>1, <2>5 DEF BobAhead
  <2>6. CASE AliceAhead(t)
    BY <2>1, <2>6 DEF AliceAhead
  <2>7. CASE Finished(t)
    BY <1>1, <1>2, <1>8, <2>7 DEF Finished
  <2> QED
    BY <1>2, <2>4, <2>5, <2>6, <2>7 DEF DigitsInv, Stage, Early, Ready
<1>9. ASSUME NEW u \in Threads, u # t PROVE Stage(u)'
  <2>1. Unmoved(u)
    BY <1>2, <1>3, <1>4, <1>9 DEF Unmoved, Workers
  <2> QED
    BY <2>1, StageKept DEF DigitsInv
<1> QED
  BY <1>1, <1>4, <1>5, <1>7, <1>8, <1>9 DEF DigitsPart

LEMMA DigitsReceiveShare ==
    ASSUME DigitsInv, NEW p \in Parties, NEW t \in Threads, ReceiveShare(p, t)
    PROVE  DigitsPart'
<1> DEFINE a == Alice(t)
           b == Bob(t)
           oa == op[a][t]
           ob == op[b][t]
<1>1. /\ a \in Parties /\ b \in Parties /\ Parties = {a, b} /\ a # b
      /\ t \in Workers /\ t # Main /\ Stream(t) = t /\ oa \in 1 .. 5 /\ ob \in 1 .. 5
      /\ level[a][t] \in Nat \ {0} /\ level[b][t] \in Nat \ {0} /\ D \in Nat \ {0}
      /\ Ops(a, t) = <<"e", "f", "receive", "receive">>
      /\ Ops(b, t) = <<"receive", "receive", "e", "f">>
  BY ThreadEnds
<1>2. /\ tpc[p][t] = "level" /\ level[p][t] < D /\ op[p][t] <= 4
      /\ Ops(p, t)[op[p][t]] = "receive" /\ net[t][p] # <<>>
      /\ UNCHANGED <<data, pc, tpc, leaf, triple, level, base>>
  BY <1>1 DEF ReceiveShare, Exchanging, D
<1>3. /\ MoreShapes'
      /\ \A q \in Parties, v \in Workers :
           /\ op'[q][v] = IF q = p /\ v = t THEN op[p][t] + 1 ELSE op[q][v]
           /\ got'[q][v] = IF q = p /\ v = t
                           THEN Append(got[p][t], Head(net[t][p])) ELSE got[q][v]
      /\ \A s \in Threads, q \in Parties :
           net'[s][q] = IF s = t /\ q = p THEN Tail(net[s][q]) ELSE net[s][q]
  <2>1. t \in Workers /\ Stream(t) = t
    BY <1>1
  <2> QED
    BY <2>1, ReceiveMoves
<1>4. LastWaits'
  <2>1. Bob(0) \in Parties /\ Main \in Workers
    BY DEF Bob, Alice, Other, Parties, Workers
  <2> QED
    BY <1>1, <1>2, <1>3, <2>1, WaitsKept
<1>5. /\ TriplesFit(t) => TriplesFit(t)'
      /\ \A i : AtLevel(t, i) => AtLevel(t, i)'
      /\ ShareE(a, t)' = ShareE(a, t) /\ ShareF(a, t)' = ShareF(a, t)
      /\ ShareE(b, t)' = ShareE(b, t) /\ ShareF(b, t)' = ShareF(b, t)
      /\ \A e, f : NewLeaf(a, t, e, f)' = NewLeaf(a, t, e, f)
  <2>1. TriplesFit(t) => TriplesFit(t)'
    BY <1>2 DEF TriplesFit, Triples
  <2>2. \A i : AtLevel(t, i) => AtLevel(t, i)'
    BY <1>2, <2>1 DEF AtLevel, Parts, D
  <2> HIDE DEF a, b
  <2> QED
    BY <1>1, <1>2, <2>1, <2>2, SideKept
<1>6. ASSUME p = a PROVE Stage(t)'
  <2>1. oa \in {3, 4} /\ op'[a][t] = oa + 1 /\ op'[b][t] = ob
    BY <1>1, <1>2, <1>3, <1>6
  <2>2. /\ got'[a][t] = Append(got[a][t], Head(net[t][a])) /\ net'[t][a] = Tail(net[t][a])
        /\ got'[b][t] = got[b][t] /\ net'[t][b] = net[t][b]
    BY <1>1, <1>3, <1>6
  <2>3. Second(oa + 1) = Second(oa) + 1 /\ First(oa + 1) = First(oa)
    BY <2>1 DEF First, Second
  <2>4. CASE SameLevel(t)
    <3>1. PICK i : AtLevel(t, i)
      BY <2>4 DEF SameLevel
    <3>2. AtLevel(t, i)' /\ \A q \in Parties : tpc'[q][t] = "level"
      BY <1>2, <1>5, <2>4, <3>1 DEF SameLevel
    <3>3. Channel(got[a][t], net[t][a], Second(oa), Second(ob), ShareE(b, t), ShareF(b, t))
      BY <2>4 DEF SameLevel
    <3>4. Channel(got'[a][t], net'[t][a], Second(oa) + 1, Second(ob),
                  ShareE(b, t), ShareF(b, t))
      BY <1>2, <1>6, <2>2, <3>3, ChannelReceives
    <3>5. Channel(got'[a][t], net'[t][a], Second(op'[a][t]), Second(op'[b][t]),
                  ShareE(b, t)', ShareF(b, t)')
      BY <1>5, <2>1, <2>3, <3>4
    <3>6. Channel(got'[b][t], net'[t][b], First(op'[b][t]), First(op'[a][t]),
                  ShareE(a, t)', ShareF(a, t)')
      BY <1>5, <2>1, <2>2, <2>3, <2>4 DEF SameLevel
    <3> QED
      BY <3>2, <3>5, <3>6, AtSameLevel
  <2>5. CASE BobAhead(t)
    <3>1. PICK e, f :
            /\ Channel(got[a][t], net[t][a], Second(oa), 2, e, f)
            /\ SharesGood(data, NewLeaf(a, t, e, f), leaf[b][t], t, level[b][t])
      BY <2>5 DEF BobAhead
    <3>2. Channel(got'[a][t], net'[t][a], Second(oa) + 1, 2, e, f)
      BY <1>2, <1>6, <2>2, <3>1, ChannelReceives
    <3>3. Channel(got'[a][t], net'[t][a], Second(op'[a][t]), 2, e, f)
      BY <2>1, <2>3, <3>2
    <3>4. SharesGood(data', NewLeaf(a, t, e, f)', leaf'[b][t], t, level'[b][t])
      BY <1>2, <1>5, <3>1
    <3>5. /\ tpc'[a][t] = "level" /\ tpc'[b][t] \in {"level", "done"}
          /\ level'[a][t] < D /\ level'[b][t] = 2 * level'[a][t]
          /\ op'[a][t] \in 3 .. 5 /\ op'[b][t] = 1
          /\ got'[b][t] = <<>> /\ net'[t][b] = <<>> /\ TriplesFit(t)'
      BY <1>2, <1>5, <2>1, <2>2, <2>5 DEF BobAhead
    <3> QED
      BY <3>3, <3>4, <3>5, AtBobAhead
  <2>6. ~AliceAhead(t) /\ ~Finished(t)
    BY <1>2, <1>6 DEF AliceAhead, Finished
  <2> QED
    BY <1>2, <2>4, <2>5, <2>6 DEF DigitsInv, Stage, Early, Ready
<1>7. ASSUME p = b PROVE Stage(t)'
  <2>1. ob \in {1, 2} /\ op'[b][t] = ob + 1 /\ op'[a][t] = oa
    BY <1>1, <1>2, <1>3, <1>7
  <2>2. /\ got'[b][t] = Append(got[b][t], Head(net[t][b])) /\ net'[t][b] = Tail(net[t][b])
        /\ got'[a][t] = got[a][t] /\ net'[t][a] = net[t][a]
    BY <1>1, <1>3, <1>7
  <2>3. First(ob + 1) = First(ob) + 1 /\ Second(ob + 1) = Second(ob)
    BY <2>1 DEF First, Second
  <2>4. CASE SameLevel(t)
    <3>1. PICK i : AtLevel(t, i)
      BY <2>4 DEF SameLevel
    <3>2. AtLevel(t, i)' /\ \A q \in Parties : tpc'[q][t] = "level"
      BY <1>2, <1>5, <2>4, <3>1 DEF SameLevel
    <3>3. Channel(got[b][t], net[t][b], First(ob), First(oa), ShareE(a, t), ShareF(a, t))
      BY <2>4 DEF SameLevel
    <3>4. Channel(got'[b][t], net'[t][b], First(ob) + 1, First(oa),
                  ShareE(a, t), ShareF(a, t))
      BY <1>2, <1>7, <2>2, <3>3, ChannelReceives
    <3>5. Channel(got'[b][t], net'[t][b], First(op'[b][t]), First(op'[a][t]),
                  ShareE(a, t)', ShareF(a, t)')
      BY <1>5, <2>1, <2>3, <3>4
    <3>6. Channel(got'[a][t], net'[t][a], Second(op'[a][t]), Second(op'[b][t]),
                  ShareE(b, t)', ShareF(b, t)')
      BY <1>5, <2>1, <2>2, <2>3, <2>4 DEF SameLevel
    <3> QED
      BY <3>2, <3>5, <3>6, AtSameLevel
  <2>5. ~BobAhead(t) /\ ~AliceAhead(t) /\ ~Finished(t)
    BY <1>1, <1>2, <1>7, <2>1 DEF BobAhead, AliceAhead, Finished
  <2> QED
    BY <1>2, <2>4, <2>5 DEF DigitsInv, Stage, Early, Ready
<1>8. ASSUME NEW u \in Threads, u # t PROVE Stage(u)'
  <2>1. Unmoved(u)
    BY <1>2, <1>3, <1>8 DEF Unmoved, Workers
  <2> QED
    BY <2>1, StageKept DEF DigitsInv
<1> QED
  BY <1>1, <1>3, <1>4, <1>6, <1>7, <1>8 DEF DigitsPart

\* A side that ends a level with e and f has new shares, and nothing else of it is left.
LEMMA FinishMoves ==
    ASSUME DigitsInv, SpendsInv', NEW p \in Parties, NEW t \in Threads, FinishLevel(p, t),
           NEW e, NEW f, got[p][t] = <<e, f>>
    PROVE  /\ tpc[p][t] = "level" /\ level[p][t] < D /\ op[p][t] = 5
           /\ UNCHANGED <<data, pc, tpc, triple, net>> /\ MoreShapes'
           /\ level'[p][t] = 2 * level[p][t] /\ op'[p][t] = 1 /\ got'[p][t] = <<>>
           /\ leaf'[p][t] = NewLeaf(p, t, e, f)
           /\ base'[p][t] = (D - Parts(level'[p][t])) * NumBins
           /\ \A q \in Parties, u \in Threads : q # p \/ u # t =>
                /\ level'[q][u] = level[q][u] /\ op'[q][u] = op[q][u]
                /\ got'[q][u] = got[q][u] /\ leaf'[q][u] = leaf[q][u]
                /\ base'[q][u] = base[q][u]
           /\ op'[Bob(0)][Main] = op[Bob(0)][Main]
<1> DEFINE twice == 2 * level[p][t]
           nb == NextBase(p, t)
           first == 1
           none == <<>>
           at(k) == LeftAt(t, level[p][t], k)
           new == [x \in LeafIndices(t) |->
                     IF \E k \in Ands(p, t) : at(k) = x
                     THEN AndShare(p, t, CHOOSE k \in Ands(p, t) : at(k) = x)
                     ELSE leaf[p][t][x]]
<1>1. /\ tpc[p][t] = "level" /\ level[p][t] < D /\ op[p][t] = 5
      /\ UNCHANGED <<data, pc, tpc, triple, net>>
  BY DEF FinishLevel, Exchanging, Threads, Main, D
<1>2. new = NewLeaf(p, t, e, f)
  <2>1. \A k : AndShare(p, t, k) = ShareGiven(p, t, k, e, f)
    BY ShareIsGiven
  <2> QED
    BY <2>1, Zenon DEF NewLeaf
<1>3. /\ leaf' = SetCell(leaf, p, t, new) /\ base' = SetCell(base, p, t, nb)
      /\ level' = SetCell(level, p, t, twice) /\ op' = SetCell(op, p, t, first)
      /\ got' = SetCell(got, p, t, none)
  BY DEF FinishLevel, SetCell
<1>4. /\ Table(leaf, Parties, Threads) /\ Table(base, Parties, Workers)
      /\ Table(level, Parties, Threads) /\ Table(op, Parties, Workers)
      /\ Table(got, Parties, Workers) /\ t \in Workers
  BY DEF DigitsInv, SpendsInv, Shapes, MoreShapes, Workers
<1> HIDE DEF twice, nb, first, none, new
<1>5. /\ Table(leaf', Parties, Threads)
      /\ \A q \in Parties, u \in Threads :
           leaf'[q][u] = IF q = p /\ u = t THEN new ELSE leaf[q][u]
  BY <1>3, <1>4, TableCell
<1>6. \A q \in Parties, u \in Workers :
        base'[q][u] = IF q = p /\ u = t THEN nb ELSE base[q][u]
  BY <1>3, <1>4, TableCell
<1>7. \A q \in Parties, u \in Threads :
        level'[q][u] = IF q = p /\ u = t THEN twice ELSE level[q][u]
  BY <1>3, <1>4, TableCell
<1>8. \A q \in Parties, u \in Workers :
        op'[q][u] = IF q = p /\ u = t THEN first ELSE op[q][u]
  BY <1>3, <1>4, TableCell
<1>9. /\ Table(got', Parties, Workers)
      /\ \A q \in Parties, u \in Workers :
           got'[q][u] = IF q = p /\ u = t THEN none ELSE got[q][u]
  BY <1>3, <1>4, TableCell
<1>10. MoreShapes'
  BY <1>1, <1>5, <1>9 DEF DigitsInv, MoreShapes
<1>11. base'[p][t] = (D - Parts(level'[p][t])) * NumBins
  BY DEF SpendsInv, ThreadSpends, Parts, D
<1>12. \A u \in Threads : u \in Workers /\ u # Main
  BY DEF Workers, Threads, Main
<1>13. Bob(0) \in Parties /\ Main \in Workers
  BY DEF Bob, Alice, Other, Parties, Workers
<1>14. /\ level'[p][t] = twice /\ op'[p][t] = first /\ got'[p][t] = none
       /\ leaf'[p][t] = new
  BY <1>5, <1>7, <1>8, <1>9, <1>12
<1>15. \A q \in Parties, u \in Threads : q # p \/ u # t =>
         /\ level'[q][u] = level[q][u] /\ op'[q][u] = op[q][u]
         /\ got'[q][u] = got[q][u] /\ leaf'[q][u] = leaf[q][u]
         /\ base'[q][u] = base[q][u]
  BY <1>5, <1>6, <1>7, <1>8, <1>9, <1>12
<1>16. op'[Bob(0)][Main] = op[Bob(0)][Main]
  BY <1>8, <1>12, <1>13
<1> QED
  BY <1>1, <1>2, <1>10, <1>11, <1>14, <1>15, <1>16 DEF twice, first, none

\* What DigitsFinishLevel has left to show is where the thread's sides are.
LEMMA FinishElsewhere ==
    ASSUME DigitsInv, SpendsInv', NEW p \in Parties, NEW t \in Threads, FinishLevel(p, t),
           NEW e, NEW f, got[p][t] = <<e, f>>, Stage(t)'
    PROVE  DigitsPart'
<1>1. /\ UNCHANGED <<data, pc, tpc, triple, net>> /\ MoreShapes'
      /\ \A q \in Parties, u \in Threads : q # p \/ u # t =>
           /\ level'[q][u] = level[q][u] /\ op'[q][u] = op[q][u]
           /\ got'[q][u] = got[q][u] /\ leaf'[q][u] = leaf[q][u]
           /\ base'[q][u] = base[q][u]
      /\ op'[Bob(0)][Main] = op[Bob(0)][Main]
  BY FinishMoves
<1>2. ASSUME NEW u \in Threads, u # t PROVE Stage(u)'
  <2>1. Unmoved(u)
    BY <1>1, <1>2 DEF Unmoved
  <2> QED
    BY <2>1, StageKept DEF DigitsInv
<1>3. LastWaits'
  BY <1>1, WaitsKept
<1> QED
  BY <1>1, <1>2, <1>3 DEF DigitsPart

LEMMA DigitsFinishLevel ==
    ASSUME DigitsInv, SpendsInv', NEW p \in Parties, NEW t \in Threads, FinishLevel(p, t)
    PROVE  DigitsPart'
<1> DEFINE a == Alice(t)
           b == Bob(t)
           oa == op[a][t]
           ob == op[b][t]
<1>1. /\ a \in Parties /\ b \in Parties /\ Parties = {a, b} /\ a # b
      /\ t \in Workers /\ oa \in 1 .. 5 /\ ob \in 1 .. 5
      /\ level[a][t] \in Nat \ {0} /\ level[b][t] \in Nat \ {0} /\ D \in Nat \ {0}
  BY ThreadEnds
<1>2. /\ tpc[p][t] = "level" /\ level[p][t] < D /\ op[p][t] = 5
      /\ UNCHANGED <<data, tpc, triple, net>>
  BY DEF FinishLevel, Exchanging, Threads, Main, D
<1>3. \A q \in Parties : ThreadSpends(q, t)
  BY DEF DigitsInv, SpendsInv
<1>4. TriplesFit(t) => TriplesFit(t)'
  BY <1>2 DEF TriplesFit, Triples
<1>5. \/ SameLevel(t)
      \/ p = a /\ BobAhead(t)
      \/ p = b /\ AliceAhead(t)
  <2>1. SameLevel(t) \/ BobAhead(t) \/ AliceAhead(t) \/ Finished(t)
    BY <1>2 DEF DigitsInv, Stage, Early, Ready
  <2>2. ~Finished(t)
    BY <1>1, <1>2 DEF Finished
  <2>3. BobAhead(t) => p = a
    BY <1>1, <1>2 DEF BobAhead
  <2>4. AliceAhead(t) => p = b
    BY <1>1, <1>2 DEF AliceAhead
  <2> QED
    BY <2>1, <2>2, <2>3, <2>4
<1>6. CASE p = a /\ SameLevel(t)
  <2>1. PICK i : AtLevel(t, i)
    BY <1>6 DEF SameLevel
  <2>2. PICK e, f, e2, f2 : /\ e = ShareE(b, t) /\ f = ShareF(b, t)
                            /\ e2 = ShareE(a, t) /\ f2 = ShareF(a, t)
    OBVIOUS
  <2>3. ob = 5 /\ got[a][t] = <<e, f>> /\ net[t][a] = <<>>
    <3>1. Channel(got[a][t], net[t][a], Second(oa), Second(ob), e, f)
      BY <1>6, <2>2 DEF SameLevel
    <3>2. Second(oa) = 2 /\ (Second(ob) \in 2 .. 2 => ob = 5)
      BY <1>1, <1>2, <1>6 DEF Second
    <3>3. Second(ob) = 2 /\ ob = 5
      BY <3>1, <3>2 DEF Channel
    <3> QED
      BY <3>1, <3>2, <3>3, ChannelEnds
  <2>4. got[b][t] = <<e2, f2>> /\ net[t][b] = <<>>
    <3>1. Channel(got[b][t], net[t][b], First(ob), First(oa), e2, f2)
      BY <1>6, <2>2 DEF SameLevel
    <3>2. First(oa) = 2 /\ First(ob) = 2
      BY <1>2, <1>6, <2>3 DEF First
    <3>3. Channel(got[b][t], net[t][b], 2, 2, e2, f2)
      BY <3>1, <3>2
    <3> QED
      BY <3>3 DEF Channel, Items
  <2>5. SharesGood(data, NewLeaf(a, t, e, f), NewLeaf(b, t, e2, f2), t, 2 * i)
    BY <2>1, <2>2, LevelJoins
  <2>6. /\ level'[a][t] = 2 * level[a][t] /\ op'[a][t] = 1 /\ got'[a][t] = <<>>
        /\ leaf'[a][t] = NewLeaf(a, t, e, f)
        /\ level'[b][t] = level[b][t] /\ op'[b][t] = ob /\ got'[b][t] = got[b][t]
        /\ leaf'[b][t] = leaf[b][t] /\ base'[b][t] = base[b][t]
    <3> HIDE DEF a, b
    <3> QED
      BY <1>1, <1>6, <2>3, FinishMoves DEF ob
  <2>7. level[a][t] = i /\ level[b][t] = i /\ i < D /\ i \in Nat \ {0} /\ TriplesFit(t)
    BY <1>1, <2>1 DEF AtLevel
  <2>8. NewLeaf(b, t, e2, f2)' = NewLeaf(b, t, e2, f2)
    <3> HIDE DEF a, b
    <3> QED
      BY <1>1, <1>2, <2>6, SideKept
  <2>9. SharesGood(data', leaf'[a][t], NewLeaf(b, t, e2, f2)', t, level'[a][t])
    BY <1>2, <2>5, <2>6, <2>7, <2>8
  <2>10. Channel(<<>>, net'[t][b], 0, op'[a][t] - 1, ShareE(a, t)', ShareF(a, t)')
    <3>1. net'[t][b] = <<>> /\ op'[a][t] - 1 = 0
      BY <1>2, <2>4, <2>6
    <3>2. \A c, d : Channel(<<>>, <<>>, 0, 0, c, d)
      BY ChannelEnds
    <3> QED
      BY <3>1, <3>2
  <2>11. /\ tpc'[b][t] = "level" /\ tpc'[a][t] \in {"level", "done"}
         /\ level'[b][t] < D /\ level'[a][t] = 2 * level'[b][t]
         /\ op'[b][t] = 5 /\ op'[a][t] \in 1 .. 3
         /\ got'[a][t] = <<>> /\ net'[t][a] = <<>> /\ net'[t][b] = <<>>
         /\ got'[b][t] = <<e2, f2>> /\ TriplesFit(t)'
    <3>1. tpc[b][t] = "level"
      BY <1>1, <1>6 DEF SameLevel
    <3> QED
      BY <1>2, <1>4, <1>6, <2>3, <2>4, <2>6, <2>7, <3>1
  <2>12. Stage(t)'
    BY <2>9, <2>10, <2>11, AtAliceAhead
  <2> QED
    BY <1>6, <2>3, <2>12, FinishElsewhere
<1>7. CASE p = a /\ BobAhead(t)
  <2>1. PICK e, f :
          /\ Channel(got[a][t], net[t][a], Second(oa), 2, e, f)
          /\ SharesGood(data, NewLeaf(a, t, e, f), leaf[b][t], t, level[b][t])
    BY <1>7 DEF BobAhead
  <2>2. got[a][t] = <<e, f>> /\ net[t][a] = <<>>
    <3>1. Second(oa) = 2
      BY <1>2, <1>7 DEF Second
    <3>2. Channel(got[a][t], net[t][a], 2, 2, e, f)
      BY <2>1, <3>1
    <3> QED
      BY <3>2 DEF Channel, Items
  <2>3. /\ level'[a][t] = 2 * level[a][t] /\ op'[a][t] = 1 /\ got'[a][t] = <<>>
        /\ leaf'[a][t] = NewLeaf(a, t, e, f)
        /\ level'[b][t] = level[b][t] /\ op'[b][t] = ob /\ got'[b][t] = got[b][t]
        /\ leaf'[b][t] = leaf[b][t]
    <3> HIDE DEF a, b
    <3> QED
      BY <1>1, <1>7, <2>2, FinishMoves DEF ob
  <2> DEFINE i == level[b][t]
  <2>4. /\ level[b][t] = 2 * level[a][t] /\ ob = 1 /\ got[b][t] = <<>>
        /\ net[t][b] = <<>> /\ TriplesFit(t) /\ tpc[b][t] \in {"level", "done"}
    BY <1>7 DEF BobAhead
  <2>5. \A q \in Parties : base'[q][t] = (D - Parts(level'[q][t])) * NumBins
    BY DEF SpendsInv, ThreadSpends, Parts, D
  <2>6. tpc[b][t] = "done" => i >= D
    BY <1>1, <1>3 DEF ThreadSpends
  <2>7. \A q \in Parties : level'[q][t] = i /\ op'[q][t] = 1 /\ got'[q][t] = <<>>
    BY <1>1, <2>3, <2>4
  <2>8. Quiet(t)'
    BY <1>1, <1>2, <2>2, <2>4, <2>7 DEF Quiet
  <2>9. SharesGood(data', leaf'[a][t], leaf'[b][t], t, i)
    BY <1>2, <2>1, <2>3
  <2>10. \A q \in Parties :
           /\ tpc'[q][t] = "level" \/ (i >= D /\ tpc'[q][t] = "done")
           /\ level'[q][t] = i /\ op'[q][t] = 1
           /\ base'[q][t] = (D - Parts(i)) * NumBins
    BY <1>1, <1>2, <1>7, <2>4, <2>5, <2>6, <2>7
  <2>11. Stage(t)'
    <3>1. TriplesFit(t)' /\ i \in Nat \ {0}
      BY <1>1, <1>4, <2>4
    <3> HIDE DEF i
    <3> QED
      BY <2>8, <2>9, <2>10, <3>1, NewLevel
  <2> QED
    BY <1>7, <2>2, <2>11, FinishElsewhere
<1>8. CASE p = b /\ SameLevel(t)
  <2>1. PICK i : AtLevel(t, i)
    BY <1>8 DEF SameLevel
  <2>2. PICK e, f, e2, f2 : /\ e = ShareE(b, t) /\ f = ShareF(b, t)
                            /\ e2 = ShareE(a, t) /\ f2 = ShareF(a, t)
    OBVIOUS
  <2>3. oa \in 3 .. 5 /\ got[b][t] = <<e2, f2>> /\ net[t][b] = <<>>
    <3>1. Channel(got[b][t], net[t][b], First(ob), First(oa), e2, f2)
      BY <1>8, <2>2 DEF SameLevel
    <3>2. First(ob) = 2 /\ (First(oa) \in 2 .. 2 => oa \in 3 .. 5)
      BY <1>1, <1>2, <1>8 DEF First
    <3>3. First(oa) = 2 /\ oa \in 3 .. 5
      BY <3>1, <3>2 DEF Channel
    <3>4. Channel(got[b][t], net[t][b], 2, 2, e2, f2)
      BY <3>1, <3>2, <3>3
    <3> QED
      BY <3>3, <3>4 DEF Channel, Items
  <2>4. Channel(got[a][t], net[t][a], Second(oa), 2, e, f)
    <3>1. Second(ob) = 2
      BY <1>2, <1>8 DEF Second
    <3> QED
      BY <1>8, <2>2, <3>1 DEF SameLevel
  <2>5. SharesGood(data, NewLeaf(a, t, e, f), NewLeaf(b, t, e2, f2), t, 2 * i)
    BY <2>1, <2>2, LevelJoins
  <2>6. /\ level'[b][t] = 2 * level[b][t] /\ op'[b][t] = 1 /\ got'[b][t] = <<>>
        /\ leaf'[b][t] = NewLeaf(b, t, e2, f2)
        /\ level'[a][t] = level[a][t] /\ op'[a][t] = oa /\ got'[a][t] = got[a][t]
        /\ leaf'[a][t] = leaf[a][t] /\ base'[a][t] = base[a][t]
    <3> HIDE DEF a, b
    <3> QED
      BY <1>1, <1>8, <2>3, FinishMoves DEF oa
  <2>7. level[a][t] = i /\ level[b][t] = i /\ i < D /\ i \in Nat \ {0} /\ TriplesFit(t)
    BY <1>1, <2>1 DEF AtLevel
  <2>8. NewLeaf(a, t, e, f)' = NewLeaf(a, t, e, f)
    <3> HIDE DEF a, b
    <3> QED
      BY <1>1, <1>2, <2>6, SideKept
  <2>9. SharesGood(data', NewLeaf(a, t, e, f)', leaf'[b][t], t, level'[b][t])
    BY <1>2, <2>5, <2>6, <2>7, <2>8
  <2>10. Channel(got'[a][t], net'[t][a], Second(op'[a][t]), 2, e, f)
    BY <1>2, <2>4, <2>6
  <2>11. /\ tpc'[a][t] = "level" /\ tpc'[b][t] \in {"level", "done"}
         /\ level'[a][t] < D /\ level'[b][t] = 2 * level'[a][t]
         /\ op'[a][t] \in 3 .. 5 /\ op'[b][t] = 1
         /\ got'[b][t] = <<>> /\ net'[t][b] = <<>> /\ TriplesFit(t)'
    <3>1. tpc[a][t] = "level"
      BY <1>1, <1>8 DEF SameLevel
    <3> QED
      BY <1>2, <1>4, <1>8, <2>3, <2>6, <2>7, <3>1
  <2>12. Stage(t)'
    BY <2>9, <2>10, <2>11, AtBobAhead
  <2> QED
    BY <1>8, <2>3, <2>12, FinishElsewhere
<1>9. CASE p = b /\ AliceAhead(t)
  <2>1. PICK e, f : /\ got[b][t] = <<e, f>>
                    /\ SharesGood(data, leaf[a][t], NewLeaf(b, t, e, f), t, level[a][t])
    BY <1>9 DEF AliceAhead
  <2>2. /\ level'[b][t] = 2 * level[b][t] /\ op'[b][t] = 1 /\ got'[b][t] = <<>>
        /\ leaf'[b][t] = NewLeaf(b, t, e, f)
        /\ level'[a][t] = level[a][t] /\ op'[a][t] = oa /\ got'[a][t] = got[a][t]
        /\ leaf'[a][t] = leaf[a][t] /\ base'[a][t] = base[a][t]
    <3> HIDE DEF a, b
    <3> QED
      BY <1>1, <1>9, <2>1, FinishMoves DEF oa
  <2>0. PICK i : i = level[a][t]
    OBVIOUS
  <2>3. /\ tpc[b][t] = "level" /\ tpc[a][t] \in {"level", "done"}
        /\ level[a][t] = 2 * level[b][t] /\ oa \in 1 .. 3
        /\ got[a][t] = <<>> /\ net[t][a] = <<>> /\ TriplesFit(t)
        /\ i < D => Channel(<<>>, net[t][b], 0, oa - 1, ShareE(a, t), ShareF(a, t))
        /\ i >= D /\ tpc[a][t] = "level" => net[t][b] = <<>>
    BY <1>9, <2>0 DEF AliceAhead
  <2>4. level'[a][t] = i /\ level'[b][t] = i /\ got'[a][t] = <<>> /\ TriplesFit(t)'
    BY <1>4, <2>0, <2>2, <2>3
  <2>5. SharesGood(data', leaf'[a][t], leaf'[b][t], t, i)
    BY <1>2, <2>0, <2>1, <2>2
  <2>6. \A q \in Parties : base'[q][t] = (D - Parts(level'[q][t])) * NumBins
    BY DEF SpendsInv, ThreadSpends, Parts, D
  <2>7. CASE i < D
    <3>1. tpc[a][t] = "level"
      BY <1>1, <1>3, <2>0, <2>3, <2>7 DEF ThreadSpends
    <3>2. AtLevel(t, i)'
      <4>1. \A q \in Parties : /\ level'[q][t] = i
                               /\ base'[q][t] = (D - Parts(i)) * NumBins
        BY <1>1, <2>4, <2>6
      <4>2. i \in Nat \ {0}
        BY <1>1, <2>0
      <4> QED
        BY <2>4, <2>5, <2>7, <4>1, <4>2, AtNextLevel
    <3>3. /\ ShareE(a, t)' = ShareE(a, t) /\ ShareF(a, t)' = ShareF(a, t)
      <4> HIDE DEF a, b
      <4> QED
        BY <1>1, <1>2, <2>2, SideKept
    <3>4. Channel(got'[b][t], net'[t][b], First(op'[b][t]), First(op'[a][t]),
                  ShareE(a, t)', ShareF(a, t)')
      <4>1. First(1) = 0 /\ First(oa) = oa - 1
        BY <2>3 DEF First
      <4> QED
        BY <1>2, <2>2, <2>3, <2>7, <3>3, <4>1
    <3>5. Channel(got'[a][t], net'[t][a], Second(op'[a][t]), Second(op'[b][t]),
                  ShareE(b, t)', ShareF(b, t)')
      <4>1. Second(1) = 0 /\ Second(oa) = 0
        BY <2>3 DEF Second
      <4>2. \A c, d : Channel(<<>>, <<>>, 0, 0, c, d)
        BY ChannelEnds
      <4> QED
        BY <1>2, <2>2, <2>3, <4>1, <4>2
    <3>6. \A q \in Parties : tpc'[q][t] = "level"
      BY <1>1, <1>2, <2>3, <3>1
    <3>7. Stage(t)'
      BY <3>2, <3>4, <3>5, <3>6, AtSameLevel
    <3> QED
      BY <1>9, <2>1, <3>7, FinishElsewhere
  <2>8. CASE i >= D
    <3>1. Finished(t)'
      <4>1. \A q \in Parties : tpc'[q][t] \in {"level", "done"} /\ got'[q][t] = <<>>
        BY <1>1, <1>2, <2>2, <2>3, <2>4
      <4>2. level'[a][t] >= D /\ level'[b][t] = level'[a][t]
        BY <2>4, <2>8
      <4>3. tpc'[a][t] = "level" => net'[t][a] = <<>> /\ net'[t][b] = <<>>
        BY <1>2, <2>3, <2>8
      <4>4. SharesGood(data', leaf'[a][t], leaf'[b][t], t, level'[a][t])
        BY <2>4, <2>5
      <4>5. D' = D
        BY DEF D
      <4> QED
        BY <4>1, <4>2, <4>3, <4>4, <4>5, Zenon DEF Finished
    <3>2. Stage(t)'
      BY <3>1 DEF Stage
    <3> QED
      BY <1>9, <2>1, <3>2, FinishElsewhere
  <2> QED
    BY <1>1, <2>0, <2>7, <2>8
<1> QED
  BY <1>1, <1>5, <1>6, <1>7, <1>8, <1>9

\* Nothing of the last AND is sent or received before ALICE's first thread is done.
LEMMA AliceIsDone ==
    ASSUME DigitsInv, NEW p \in Parties, SendShare(p, Main) \/ ReceiveShare(p, Main)
    PROVE  tpc[Alice(0)][0] = "done"
<1> DEFINE a == Alice(0)
           b == Bob(0)
<1>1. /\ a \in Parties /\ b \in Parties /\ Parties = {a, b} /\ a # b /\ 0 \in Threads
      /\ Stream(Main) = 0 /\ Ops(b, Main) = <<"receive", "receive", "e", "f">>
      /\ op[b][Main] \in 1 .. 5
  <2>1. Main \in Workers /\ 0 \in Threads /\ 0 \in Workers /\ Stream(Main) = 0
    BY DEF Workers, Threads, Main, Stream
  <2>2. Ops(b, Main) = <<"receive", "receive", "e", "f">>
    BY DEF Ops, Side, PartyOf, Bob, Alice, Other, Main, ALICE, BOB
  <2>3. /\ a \in Parties /\ b \in Parties /\ Parties = {a, b} /\ a # b
    BY <2>1, TwoSides
  <2> QED
    BY <2>1, <2>2, <2>3 DEF DigitsInv, SpendsInv, MainSpends
<1>2. pc[p] = "final"
  BY DEF SendShare, ReceiveShare, Exchanging
<1>3. (\A t \in Threads : tpc[p][t] = "done") /\ Stage(0)
  BY <1>1, <1>2 DEF DigitsInv, LastWaits
<1> QED
  <2>1. CASE p = a
    BY <1>1, <1>3, <2>1
  <2>2. CASE p = b /\ SendShare(p, Main)
    <3>1. op[b][Main] # 1
      BY <1>1, <2>2 DEF SendShare
    <3> QED
      BY <3>1 DEF DigitsInv, LastWaits
  <2>3. CASE p = b /\ ReceiveShare(p, Main)
    <3>1. net[0][b] # <<>> /\ tpc[b][0] = "done"
      BY <1>1, <1>3, <2>3 DEF ReceiveShare
    <3>2. Finished(0)
      BY <1>1, <1>3, <3>1 DEF Stage, Early, Ready, SameLevel, BobAhead, AliceAhead
    <3> QED
      BY <1>1, <3>1, <3>2 DEF Finished
  <2> QED
    BY <1>1, <2>1, <2>2, <2>3

\* The last AND reuses the stream of the first thread, but only after it: what ALICE sends
\* of it cannot be taken for a share of the thread's, and BOB's waits for hers.
LEMMA DigitsLastAnd ==
    ASSUME DigitsInv, NEW p \in Parties, SendShare(p, Main) \/ ReceiveShare(p, Main)
    PROVE  DigitsPart'
<1> DEFINE a == Alice(0)
           b == Bob(0)
<1>1. /\ a \in Parties /\ b \in Parties /\ Parties = {a, b} /\ a # b
      /\ Other(a) = b /\ Other(b) = a /\ Main \in Workers /\ 0 \in Threads
      /\ Stream(Main) = 0 /\ Ops(b, Main) = <<"receive", "receive", "e", "f">>
      /\ \A t \in Threads : t \in Workers /\ t # Main /\ t \in {0, 1}
      /\ op[b][Main] \in 1 .. 5
  <2>1. /\ Main \in Workers /\ 0 \in Threads /\ 0 \in Workers /\ Stream(Main) = 0
        /\ \A t \in Threads : t \in Workers /\ t # Main /\ t \in {0, 1}
    BY DEF Workers, Threads, Main, Stream
  <2>2. Ops(b, Main) = <<"receive", "receive", "e", "f">>
    BY DEF Ops, Side, PartyOf, Bob, Alice, Other, Main, ALICE, BOB
  <2>3. /\ a \in Parties /\ b \in Parties /\ Parties = {a, b} /\ a # b
        /\ Other(a) = b /\ Other(b) = a
    BY <2>1, TwoSides
  <2> QED
    BY <2>1, <2>2, <2>3 DEF DigitsInv, SpendsInv, MainSpends
<1>2. /\ pc[p] = "final" /\ UNCHANGED <<data, pc, tpc, leaf, triple, level, base>>
      /\ MoreShapes'
      /\ \A q \in Parties, t \in Threads :
           op'[q][t] = op[q][t] /\ got'[q][t] = got[q][t] /\ (t = 1 => net'[t][q] = net[t][q])
      /\ \A q \in Parties : q # p => op'[q][Main] = op[q][Main]
  <2>1. CASE SendShare(p, Main)
    <3>1. /\ MoreShapes'
          /\ \A q \in Parties, v \in Workers :
               op'[q][v] = IF q = p /\ v = Main THEN op[p][Main] + 1 ELSE op[q][v]
          /\ \A t \in Threads, q \in Parties : t # 0 => net'[t][q] = net[t][q]
      BY <1>1, <2>1, SendMoves
    <3>2. /\ pc[p] = "final"
          /\ UNCHANGED <<data, pc, tpc, leaf, triple, level, base, got>>
      BY <2>1 DEF SendShare, Exchanging
    <3> QED
      BY <1>1, <3>1, <3>2
  <2>2. CASE ReceiveShare(p, Main)
    <3>1. /\ MoreShapes'
          /\ \A q \in Parties, v \in Workers :
               /\ op'[q][v] = IF q = p /\ v = Main THEN op[p][Main] + 1 ELSE op[q][v]
               /\ v # Main => got'[q][v] = got[q][v]
          /\ \A t \in Threads, q \in Parties : t # 0 => net'[t][q] = net[t][q]
      BY <1>1, <2>2, ReceiveMoves
    <3>2. /\ pc[p] = "final" /\ UNCHANGED <<data, pc, tpc, leaf, triple, level, base>>
      BY <2>2 DEF ReceiveShare, Exchanging
    <3> QED
      BY <1>1, <3>1, <3>2
  <2> QED
    BY <2>1, <2>2
<1>3. /\ \A t \in Threads : tpc[p][t] = "done"
      /\ Stage(0) /\ \A t \in Threads : Stage(t)
  BY <1>1, <1>2 DEF DigitsInv, LastWaits
<1>4. tpc[a][0] = "done"
  BY AliceIsDone
<1>5. Finished(0) \/ (AliceAhead(0) /\ net'[0][a] = net[0][a])
  <2>1. Finished(0) \/ AliceAhead(0)
    BY <1>1, <1>3, <1>4 DEF Stage, Early, Ready, SameLevel, BobAhead
  <2>2. CASE AliceAhead(0)
    <3>1. p = a /\ net[0][a] = <<>>
      BY <1>1, <1>3, <2>2 DEF AliceAhead
    <3>2. SendShare(a, Main)
      BY <1>1, <3>1 DEF ReceiveShare
    <3>3. \A q \in Parties : q # b => net'[0][q] = net[0][q]
      BY <1>1, <3>2, SendMoves
    <3> QED
      BY <1>1, <2>2, <3>3
  <2> QED
    BY <2>1, <2>2
<1>6. Stage(0)'
  <2>1. CASE Finished(0)
    <3>1. Finished(0)'
      BY <1>1, <1>2, <1>4, <2>1 DEF Finished, D
    <3> QED
      BY <3>1 DEF Stage
  <2>2. CASE AliceAhead(0) /\ net'[0][a] = net[0][a]
    <3>1. PICK e, f : /\ got[b][0] = <<e, f>>
                      /\ SharesGood(data, leaf[a][0], NewLeaf(b, 0, e, f), 0, level[a][0])
      BY <2>2 DEF AliceAhead
    <3>2. NewLeaf(b, 0, e, f)' = NewLeaf(b, 0, e, f)
      <4> HIDE DEF a, b
      <4> QED
        BY <1>1, <1>2, SideKept
    <3>3. /\ got'[b][0] = <<e, f>>
          /\ SharesGood(data', leaf'[a][0], NewLeaf(b, 0, e, f)', 0, level'[a][0])
      BY <1>1, <1>2, <3>1, <3>2
    <3>4. ~(level'[a][0] < D)
      <4>1. ThreadSpends(a, 0)
        BY <1>1 DEF DigitsInv, SpendsInv
      <4> QED
        BY <1>2, <1>4, <4>1, DigitsExist DEF ThreadSpends
    <3>5. TriplesFit(0)'
      BY <1>2, <2>2 DEF AliceAhead, TriplesFit, Triples
    <3>6. /\ tpc'[b][0] = "level" /\ tpc'[a][0] = "done"
          /\ level'[b][0] < D /\ level'[a][0] = 2 * level'[b][0]
          /\ op'[b][0] = 5 /\ op'[a][0] \in 1 .. 3
          /\ got'[a][0] = <<>> /\ net'[0][a] = <<>>
      BY <1>1, <1>2, <1>4, <2>2 DEF AliceAhead
    <3>7. 0 \in Threads
      BY <1>1
    <3> QED
      BY <3>3, <3>4, <3>5, <3>6, <3>7, AtAliceAhead
  <2> QED
    BY <1>5, <2>1, <2>2
<1>7. Stage(1)'
  <2>1. 1 \in Threads
    BY DEF Threads
  <2>2. Unmoved(1)
    BY <1>2, <2>1 DEF Unmoved
  <2> QED
    BY <1>3, <2>1, <2>2, StageKept
<1>8. LastWaits'
  BY <1>2, <1>4 DEF DigitsInv, LastWaits
<1> QED
  BY <1>1, <1>2, <1>6, <1>7, <1>8 DEF DigitsPart

LEMMA DigitsInit == Init => DigitsInv
<1> SUFFICES ASSUME Init PROVE DigitsInv
  OBVIOUS
<1>1. SpendsInv
  BY SpendsInit
<1>2. 0 \in Threads /\ Bob(0) \in Parties /\ Main \in Workers
  BY DEF Threads, Bob, Alice, Other, Parties, Workers
<1>3. MoreShapes
  BY DEF Init, MoreShapes, Table
<1>4. LastWaits
  BY <1>2 DEF Init, LastWaits
<1>5. ASSUME NEW t \in Threads PROVE Stage(t)
  <2>1. t \in Workers
    BY DEF Workers
  <2>2. Early(t)
    BY <2>1 DEF Init, Early, Quiet
  <2> QED
    BY <2>2 DEF Stage
<1> QED
  BY <1>1, <1>3, <1>4, <1>5 DEF DigitsInv

LEMMA DigitsStep == DigitsInv /\ [Next]_vars => DigitsInv'
<1> SUFFICES ASSUME DigitsInv, [Next]_vars PROVE DigitsInv'
  OBVIOUS
<1>0. SpendsInv'
  BY SpendsStep DEF DigitsInv
<1> SUFFICES DigitsPart'
  BY <1>0 DEF DigitsInv, DigitsPart
<1>1. CASE MainTriples
  BY <1>1, DigitsMainTriples
<1>2. ASSUME NEW t \in Threads, LeafOTs(t) \/ ThreadTriples(t) PROVE DigitsPart'
  BY <1>0, <1>2, DigitsLeafOTs, DigitsThreadTriples
<1>3. ASSUME NEW p \in Parties, Launch(p) \/ Join(p) \/ Return(p) PROVE DigitsPart'
  BY <1>3, DigitsLaunch, DigitsMainGoesOn
<1>4. ASSUME NEW p \in Parties, NEW w \in Workers, SendShare(p, w) \/ ReceiveShare(p, w)
      PROVE  DigitsPart'
  <2>1. CASE w \in Threads
    BY <1>4, <2>1, DigitsSendShare, DigitsReceiveShare
  <2>2. CASE w = Main
    BY <1>4, <2>2, DigitsLastAnd
  <2> QED
    BY <2>1, <2>2 DEF Workers
<1>5. ASSUME NEW p \in Parties, NEW t \in Threads, FinishLevel(p, t) \/ FinishThread(p, t)
      PROVE  DigitsPart'
  BY <1>0, <1>5, DigitsFinishLevel, DigitsFinishThread
<1>6. CASE UNCHANGED vars
  <2>1. UNCHANGED <<data, pc, tpc, leaf, triple, level, base, op, got, net>>
    BY <1>6 DEF vars, circuit
  <2>2. MoreShapes'
    BY <2>1 DEF DigitsInv, MoreShapes
  <2>3. \A t \in Threads : Unmoved(t)
    BY <2>1 DEF Unmoved
  <2> QED
    BY <2>1, <2>2, <2>3, ThreadsUnmoved
<1> QED
  BY <1>1, <1>2, <1>3, <1>4, <1>5, <1>6 DEF Next

\* At every level of the tree, whatever the order of the transfers and however far one
\* side is ahead, the two sides' bits at a digit that is still to be joined share whether
\* the digits it stands for are equal; at the end it stands for the whole word.
THEOREM SharesOfDigitsInvariant == Spec => []SharesOfDigits
<1>1. Spec => []DigitsInv
  BY DigitsInit, DigitsStep, PTL DEF Spec
<1> QED
  BY <1>1, DigitsInvImplies, PTL

-----------------------------------------------------------------------------
(* The last AND                                                            *)

LastShapes ==
    /\ Table(res, Parties, Comparisons) /\ ans = [p \in Parties |-> ans[p]]
    /\ data \in Inputs

\* A thread that is done has left its bits in res_shares.
Collected ==
    \A p \in Parties, t \in Threads, j \in 0 .. NumBins - 1 :
      tpc[p][t] = "done" => res[p][t * NumBins + j] = leaf[p][t][j]

\* The main threads of both come to the last AND after their threads; as soon as ALICE's
\* first thread has left the stream, what is on its way there is of the last AND.
LastTransfers ==
    LET a == Alice(0)
        b == Bob(0)
    IN  /\ \A p \in Parties : pc[p] \notin {"final", "returned"} => op[p][Main] = 1
        /\ \A p \in Parties, t \in Threads :
             pc[p] \in {"final", "returned"} => tpc[p][t] = "done"
        /\ tpc[a][0] # "done" => \A p \in Parties : op[p][Main] = 1 /\ got[p][Main] = <<>>
        /\ tpc[a][0] = "done" =>
             /\ Channel(got[b][Main], net[0][b], First(op[b][Main]), First(op[a][Main]),
                        ShareE(a, Main), ShareF(a, Main))
             /\ Channel(got[a][Main], net[0][a], Second(op[a][Main]), Second(op[b][Main]),
                        ShareE(b, Main), ShareF(b, Main))
        /\ \A p \in Parties : pc[p] # "triple" => TriplesFit(Main)

Returned ==
    \A p \in Parties :
      /\ pc[p] # "returned" => ans[p] = Pending
      /\ pc[p] = "returned" =>
           op[p][Main] = 5 /\ ans[p] = [b \in Bins |-> AndShare(p, Main, b)]

LastPart == LastShapes /\ Collected /\ LastTransfers /\ Returned

LastInv == DigitsInv /\ LastPart

\* The two sides of the last AND.
LEMMA MainEnds ==
    ASSUME LastInv
    PROVE  LET a == Alice(0)
               b == Bob(0)
           IN  /\ a \in Parties /\ b \in Parties /\ Parties = {a, b} /\ a # b
               /\ Other(a) = b /\ Other(b) = a /\ Alice(Main) = a /\ Bob(Main) = b
               /\ Main \in Workers /\ 0 \in Threads /\ Stream(Main) = 0
               /\ op[a][Main] \in 1 .. 5 /\ op[b][Main] \in 1 .. 5
               /\ base[a][Main] = 0 /\ base[b][Main] = 0
               /\ Ops(a, Main) = <<"e", "f", "receive", "receive">>
               /\ Ops(b, Main) = <<"receive", "receive", "e", "f">>
<1>1. /\ Main \in Workers /\ 0 \in Threads /\ 0 \in Workers /\ Stream(Main) = 0
      /\ Alice(Main) = Alice(0) /\ Bob(Main) = Bob(0)
  BY DEF Workers, Threads, Main, Stream, Alice, Bob
<1>2. /\ Alice(0) \in Parties /\ Bob(0) \in Parties /\ Parties = {Alice(0), Bob(0)}
      /\ Alice(0) # Bob(0) /\ Other(Alice(0)) = Bob(0) /\ Other(Bob(0)) = Alice(0)
      /\ Side(Alice(Main), Main) = ALICE /\ Side(Bob(Main), Main) = BOB /\ ALICE # BOB
  BY <1>1, TwoSides
<1>3. \A p \in Parties : op[p][Main] \in 1 .. 5 /\ base[p][Main] = 0
  BY DEF LastInv, DigitsInv, SpendsInv, MainSpends
<1> QED
  BY <1>1, <1>2, <1>3 DEF Ops

\* What a side does with the last AND depends on what it does not change any more.
LEMMA MainSideKept ==
    ASSUME NEW p, res'[p] = res[p], triple'[p][Main] = triple[p][Main],
           base'[p][Main] = base[p][Main]
    PROVE  /\ ShareE(p, Main)' = ShareE(p, Main) /\ ShareF(p, Main)' = ShareF(p, Main)
           /\ \A k : got'[p][Main] = got[p][Main] =>
                AndShare(p, Main, k)' = AndShare(p, Main, k)
<1>1. Ands(p, Main)' = Ands(p, Main)
  BY DEF Ands
<1>2. \A k : /\ MaskedE(p, Main, k)' = MaskedE(p, Main, k)
             /\ MaskedF(p, Main, k)' = MaskedF(p, Main, k)
             /\ TripleOf(p, Main, k)' = TripleOf(p, Main, k)
  BY DEF MaskedE, MaskedF, TripleOf, Left, Right
<1>3. ShareE(p, Main)' = ShareE(p, Main) /\ ShareF(p, Main)' = ShareF(p, Main)
  BY <1>1, <1>2, Zenon DEF ShareE, ShareF
<1>4. ASSUME NEW k, got'[p][Main] = got[p][Main]
      PROVE  AndShare(p, Main, k)' = AndShare(p, Main, k)
  BY <1>2, <1>4, Zenon DEF AndShare, Product, Side
<1> QED
  BY <1>3, <1>4

\* Before anything was sent, what will be sent does not matter.
LEMMA NothingSent ==
    \A g, n, r, e, f, e2, f2 : Channel(g, n, r, 0, e, f) => Channel(g, n, r, 0, e2, f2)
  BY DEF Channel, Items

\* The bits of two threads that are done say which of their words are equal.
LEMMA WordsShared ==
    ASSUME LastInv, NEW t \in Threads, \A p \in Parties : tpc[p][t] = "done",
           NEW j \in 0 .. NumBins - 1
    PROVE  LET k == t * NumBins + j
               x == res[Alice(0)][k]
               y == res[Bob(0)][k]
           IN  /\ k \in Comparisons /\ x \in Bit /\ y \in Bit
               /\ x # y <=> data[0][k] = data[1][k]
<1> DEFINE a == Alice(t)
           b == Bob(t)
           k == t * NumBins + j
<1>1. /\ a \in Parties /\ b \in Parties /\ Parties = {a, b} /\ a # b
      /\ Alice(0) \in Parties /\ Bob(0) \in Parties /\ Alice(0) # Bob(0)
      /\ D \in Nat \ {0}
  <2>1. t \in Workers /\ 0 \in Workers
    BY DEF Workers, Threads
  <2> QED
    BY <2>1, TwoSides, DigitsExist
<1>2. k \in Comparisons /\ Offset(t) + j = k
  <2>1. NumBins \in Nat \ {0} /\ NumCmps = 2 * NumBins /\ Offset(t) = t * NumBins
    BY SizesAssumption, ThreadsGetHalves DEF NumCmps
  <2>2. t = 0 \/ t = 1
    BY DEF Threads
  <2>3. 0 * NumBins = 0 /\ 1 * NumBins = NumBins
    BY <2>1
  <2> QED
    BY <2>1, <2>2, <2>3 DEF Comparisons
<1>3. PICK d : /\ d = level[a][t] /\ d \in Nat \ {0} /\ d >= D
               /\ SharesGood(data, leaf[a][t], leaf[b][t], t, d)
  <2>1. Finished(t)
    BY <1>1 DEF LastInv, DigitsInv, Stage, Early, Ready, SameLevel, BobAhead, AliceAhead
  <2>2. level[a][t] \in Nat \ {0}
    BY <1>1 DEF LastInv, DigitsInv, SpendsInv, ThreadSpends
  <2> QED
    BY <2>1, <2>2 DEF Finished
<1>4. Place(0, j) = j /\ Place(0, j) \in LeafIndices(t)
  <2>1. Place(0, j) \in LeafIndices(t)
    BY <1>1, PlaceIs
  <2>2. NumBins \in Nat
    BY SizesAssumption
  <2> QED
    BY <2>1, <2>2 DEF Place
<1>5. /\ leaf[a][t][j] \in Bit /\ leaf[b][t][j] \in Bit
      /\ Xor(leaf[a][t][j], leaf[b][t][j]) = 1 <=> DigitsSame(data, k, 0, d)
  <2>1. d * 0 = 0 /\ 0 < D /\ 0 \in Nat
    BY <1>1, <1>3
  <2>2. Xor(leaf[a][t][Place(0, j)], leaf[b][t][Place(0, j)]) = 1
          <=> DigitsSame(data, Offset(t) + j, 0, d)
    <3>1. Xor(leaf[a][t][Place(d * 0, j)], leaf[b][t][Place(d * 0, j)]) = 1
            <=> DigitsSame(data, Offset(t) + j, d * 0, d)
      BY <1>3, <2>1 DEF SharesGood
    <3> QED
      BY <2>1, <3>1
  <2> QED
    BY <1>2, <1>3, <1>4, <2>2 DEF SharesGood
<1>6. DigitsSame(data, k, 0, d) <=> data[0][k] = data[1][k]
  <2>1. DigitsSame(data, k, 0, d)
          <=> \A i \in 0 .. NumDigits - 1 : Digit(data[0][k], i) = Digit(data[1][k], i)
    BY <1>1, <1>3 DEF DigitsSame, D
  <2>2. data \in Inputs
    BY DEF LastInv, LastPart, LastShapes
  <2> QED
    BY <1>2, <2>1, <2>2, WordsAssumption
<1>7. \A p \in Parties : res[p][k] = leaf[p][t][j]
  BY DEF LastInv, LastPart, Collected
<1>8. leaf[a][t][j] # leaf[b][t][j] <=> data[0][k] = data[1][k]
  BY <1>5, <1>6, XorOfBits
<1> QED
  BY <1>1, <1>2, <1>5, <1>7, <1>8

LEMMA ComparisonShared ==
    ASSUME LastInv, \A p \in Parties, t \in Threads : tpc[p][t] = "done", NEW c \in Comparisons
    PROVE  LET x == res[Alice(0)][c]
               y == res[Bob(0)][c]
           IN  x \in Bit /\ y \in Bit /\ (x # y <=> data[0][c] = data[1][c])
<1>1. NumBins \in Nat \ {0} /\ c \in 0 .. 2 * NumBins - 1 /\ 0 \in Threads /\ 1 \in Threads
  BY SizesAssumption DEF Comparisons, NumCmps, Threads
<1>2. CASE c < NumBins
  <2>1. c \in 0 .. NumBins - 1 /\ 0 * NumBins + c = c
    BY <1>1, <1>2
  <2> QED
    BY <1>1, <2>1, WordsShared
<1>3. CASE c >= NumBins
  <2> DEFINE j == c - NumBins
  <2>1. j \in 0 .. NumBins - 1 /\ 1 * NumBins + j = c
    BY <1>1, <1>3
  <2> HIDE DEF j
  <2> QED
    BY <1>1, <2>1, WordsShared
<1> QED
  BY <1>1, <1>2, <1>3

\* The two results of the last AND say which blocks are equal.
LEMMA LastAndIsShared ==
    ASSUME LastInv, \A p \in Parties, t \in Threads : tpc[p][t] = "done", TriplesFit(Main),
           NEW k \in Bins
    PROVE  LET a == Alice(0)
               b == Bob(0)
               zA == ShareGiven(a, Main, k, ShareE(b, Main), ShareF(b, Main))
               zB == ShareGiven(b, Main, k, ShareE(a, Main), ShareF(a, Main))
           IN  /\ zA \in Bit /\ zB \in Bit
               /\ zA # zB <=> \A h \in {0, 1} : data[0][2 * k + h] = data[1][2 * k + h]
<1> DEFINE a == Alice(0)
           b == Bob(0)
           zA == ShareGiven(a, Main, k, ShareE(b, Main), ShareF(b, Main))
           zB == ShareGiven(b, Main, k, ShareE(a, Main), ShareF(a, Main))
           x == triple[a][Main][k]
           y == triple[b][Main][k]
           l == 2 * k
           r == 2 * k + 1
           lA == res[a][l]
           lB == res[b][l]
           rA == res[a][r]
           rB == res[b][r]
<1>1. /\ a \in Parties /\ b \in Parties /\ Parties = {a, b} /\ Other(a) = b /\ Other(b) = a
      /\ Alice(Main) = a /\ Bob(Main) = b /\ Main \in Workers
      /\ base[a][Main] = 0 /\ base[b][Main] = 0
  BY MainEnds
<1>2. NumBins \in Nat \ {0} /\ k \in 0 .. NumBins - 1 /\ 0 + k = k
  BY SizesAssumption DEF Bins
<1>3. l \in Comparisons /\ r \in Comparisons
  BY <1>2 DEF Comparisons, NumCmps
<1>4. /\ lA \in Bit /\ lB \in Bit /\ (lA # lB <=> data[0][l] = data[1][l])
      /\ rA \in Bit /\ rB \in Bit /\ (rA # rB <=> data[0][r] = data[1][r])
  <2> HIDE DEF l, r
  <2> QED
    BY <1>3, ComparisonShared
<1>5. /\ x.a \in Bit /\ x.b \in Bit /\ x.c \in Bit /\ y.a \in Bit /\ y.b \in Bit /\ y.c \in Bit
      /\ Xor(x.c, y.c) = Xor(x.a, y.a) * Xor(x.b, y.b)
  <2>1. Triples(Main) = NumBins
    BY DEF Triples
  <2> HIDE DEF a, b
  <2> QED
    BY <1>1, <1>2, <2>1 DEF TriplesFit
<1>6. \A p \in Parties : k \in Ands(p, Main)
  <2>1. ASSUME NEW p \in Parties PROVE k \in Ands(p, Main)
    <3>1. Ands(p, Main) = 0 .. Bits(Main, level[p][Main]) - 1
      BY <1>1, AndsWhole
    <3>2. Bits(Main, level[p][Main]) = NumBins
      BY DEF Bits
    <3> QED
      BY <1>2, <3>1, <3>2
  <2> QED
    BY <2>1
<1>7. \A p \in Parties : /\ ShareE(p, Main)[k] = MaskedE(p, Main, k)
                         /\ ShareF(p, Main)[k] = MaskedF(p, Main, k)
  BY <1>6 DEF ShareE, ShareF
<1>8. /\ TripleOf(a, Main, k) = x /\ TripleOf(b, Main, k) = y
      /\ MaskedE(a, Main, k) = Xor(x.a, lA) /\ MaskedE(b, Main, k) = Xor(y.a, lB)
      /\ MaskedF(a, Main, k) = Xor(x.b, rA) /\ MaskedF(b, Main, k) = Xor(y.b, rB)
  <2> HIDE DEF a, b
  <2> QED
    BY <1>1, <1>2 DEF TripleOf, MaskedE, MaskedF, Left, Right
<1> HIDE DEF x, y, lA, lB, rA, rB
<1>9. AndOf(Main, k, x, y, lA, lB, rA, rB)
  BY <1>1, <1>4, <1>5, <1>7, <1>8 DEF AndOf
<1>10. zA \in Bit /\ zB \in Bit /\ (Xor(zA, zB) = 1 <=> lA # lB /\ rA # rB)
  BY <1>1, <1>9, GivenSharesAnd
<1>11. lA # lB /\ rA # rB <=> \A h \in {0, 1} : data[0][2 * k + h] = data[1][2 * k + h]
  <2>1. 2 * k + 0 = l /\ 2 * k + 1 = r
    BY <1>2
  <2> QED
    BY <1>4, <2>1
<1> HIDE DEF zA, zB
<1>12. Xor(zA, zB) = 1 <=> zA # zB
  BY <1>10, XorOfBits
<1>13. /\ zA \in Bit /\ zB \in Bit
       /\ zA # zB <=> \A h \in {0, 1} : data[0][2 * k + h] = data[1][2 * k + h]
  BY <1>10, <1>11, <1>12
<1> QED
  BY <1>13 DEF zA, zB

\* A side that has made all its transfers of the last AND has what the other sent.
LEMMA AtTheEnd ==
    ASSUME LastInv, NEW p \in Parties, op[p][Main] = 5
    PROVE  /\ \A q \in Parties, t \in Threads : tpc[q][t] = "done"
           /\ got[p][Main] = <<ShareE(Other(p), Main), ShareF(Other(p), Main)>>
           /\ TriplesFit(Main)
<1> DEFINE a == Alice(0)
           b == Bob(0)
<1>1. /\ a \in Parties /\ b \in Parties /\ Parties = {a, b} /\ a # b
      /\ Other(a) = b /\ Other(b) = a
      /\ op[a][Main] \in 1 .. 5 /\ op[b][Main] \in 1 .. 5
  BY MainEnds
<1>2. tpc[a][0] = "done"
  BY DEF LastInv, LastPart, LastTransfers
<1>3. /\ Channel(got[b][Main], net[0][b], First(op[b][Main]), First(op[a][Main]),
                 ShareE(a, Main), ShareF(a, Main))
      /\ Channel(got[a][Main], net[0][a], Second(op[a][Main]), Second(op[b][Main]),
                 ShareE(b, Main), ShareF(b, Main))
  BY <1>2 DEF LastInv, LastPart, LastTransfers
<1>4. CASE p = a
  <2>1. Second(op[a][Main]) = 2 /\ (Second(op[b][Main]) = 2 => op[b][Main] # 1)
    BY <1>1, <1>4 DEF Second
  <2>2. Second(op[b][Main]) = 2
    BY <1>3, <2>1 DEF Channel
  <2>3. got[a][Main] = <<ShareE(b, Main), ShareF(b, Main)>>
    BY <1>3, <2>1, <2>2 DEF Channel, Items
  <2>4. \A q \in Parties : op[q][Main] # 1
    BY <1>1, <1>4, <2>1, <2>2
  <2>5. \A q \in Parties : pc[q] \in {"final", "returned"}
    BY <2>4 DEF LastInv, LastPart, LastTransfers
  <2> QED
    BY <1>1, <1>4, <2>3, <2>5 DEF LastInv, LastPart, LastTransfers
<1>5. CASE p = b
  <2>1. First(op[b][Main]) = 2 /\ (First(op[a][Main]) = 2 => op[a][Main] # 1)
    BY <1>1, <1>5 DEF First
  <2>2. First(op[a][Main]) = 2
    BY <1>3, <2>1 DEF Channel
  <2>3. got[b][Main] = <<ShareE(a, Main), ShareF(a, Main)>>
    BY <1>3, <2>1, <2>2 DEF Channel, Items
  <2>4. \A q \in Parties : op[q][Main] # 1
    BY <1>1, <1>5, <2>1, <2>2
  <2>5. \A q \in Parties : pc[q] \in {"final", "returned"}
    BY <2>4 DEF LastInv, LastPart, LastTransfers
  <2> QED
    BY <1>1, <1>5, <2>3, <2>5 DEF LastInv, LastPart, LastTransfers
<1> QED
  BY <1>1, <1>4, <1>5

\* Where the main threads are with the last AND, and what it has to do with.
MainUnmoved ==
    \A p \in Parties :
      /\ op'[p][Main] = op[p][Main] /\ got'[p][Main] = got[p][Main]
      /\ triple'[p][Main] = triple[p][Main]
      /\ pc'[p] = pc[p] \/ {pc[p], pc'[p]} \subseteq {"launch", "threads"}
           \/ (pc[p] = "threads" /\ pc'[p] = "final" /\ \A t \in Threads : tpc[p][t] = "done")

\* Steps of threads that are not done, up to their last.
ThreadsGoOn ==
    \A p \in Parties, t \in Threads :
      /\ tpc'[p][t] = "done" <=> tpc[p][t] = "done"
      /\ tpc[p][t] = "done" => leaf'[p][t] = leaf[p][t]

LEMMA LastKept ==
    ASSUME LastInv, SpendsInv', UNCHANGED <<data, res, ans>>, MainUnmoved, ThreadsGoOn,
           tpc[Alice(0)][0] = "done" => \A p \in Parties : net'[0][p] = net[0][p]
    PROVE  LastPart'
<1> DEFINE a == Alice(0)
           b == Bob(0)
<1>1. a \in Parties /\ b \in Parties /\ 0 \in Threads
  BY MainEnds
<1>2. \A p \in Parties : base'[p][Main] = base[p][Main]
  BY DEF LastInv, DigitsInv, SpendsInv, MainSpends
<1>3. \A p \in Parties :
        /\ ShareE(p, Main)' = ShareE(p, Main) /\ ShareF(p, Main)' = ShareF(p, Main)
        /\ \A k : AndShare(p, Main, k)' = AndShare(p, Main, k)
  BY <1>2, MainSideKept DEF MainUnmoved
<1>4. LastShapes' /\ Collected'
  BY DEF LastInv, LastPart, LastShapes, Collected, ThreadsGoOn
<1>5. Returned'
  <2>1. ASSUME NEW p \in Parties
        PROVE  /\ pc'[p] # "returned" => ans'[p] = Pending
               /\ pc'[p] = "returned" =>
                    op'[p][Main] = 5 /\ ans'[p] = [k \in Bins |-> AndShare(p, Main, k)']
    <3>1. pc'[p] = "returned" <=> pc[p] = "returned"
      BY DEF MainUnmoved
    <3>2. [k \in Bins |-> AndShare(p, Main, k)'] = [k \in Bins |-> AndShare(p, Main, k)]
      BY <1>3, Zenon
    <3> QED
      BY <3>1, <3>2 DEF LastInv, LastPart, Returned, MainUnmoved
  <2> QED
    BY <2>1 DEF Returned
<1>6. LastTransfers'
  <2>1. \A p \in Parties : pc'[p] \notin {"final", "returned"} => op'[p][Main] = 1
    <3>1. \A p \in Parties :
            pc'[p] \notin {"final", "returned"} => pc[p] \notin {"final", "returned"}
      BY DEF MainUnmoved
    <3> QED
      BY <3>1 DEF LastInv, LastPart, LastTransfers, MainUnmoved
  <2>2. \A p \in Parties, t \in Threads :
          pc'[p] \in {"final", "returned"} => tpc'[p][t] = "done"
    BY DEF LastInv, LastPart, LastTransfers, MainUnmoved, ThreadsGoOn
  <2>3. tpc'[a][0] # "done" => \A p \in Parties : op'[p][Main] = 1 /\ got'[p][Main] = <<>>
    BY <1>1 DEF LastInv, LastPart, LastTransfers, MainUnmoved, ThreadsGoOn
  <2>4. tpc'[a][0] = "done" =>
          /\ Channel(got'[b][Main], net'[0][b], First(op'[b][Main]), First(op'[a][Main]),
                     ShareE(a, Main)', ShareF(a, Main)')
          /\ Channel(got'[a][Main], net'[0][a], Second(op'[a][Main]), Second(op'[b][Main]),
                     ShareE(b, Main)', ShareF(b, Main)')
    BY <1>1, <1>3 DEF LastInv, LastPart, LastTransfers, MainUnmoved, ThreadsGoOn
  <2>5. \A p \in Parties : pc'[p] # "triple" => TriplesFit(Main)'
    <3>1. \A p \in Parties : pc'[p] # "triple" => pc[p] # "triple"
      BY DEF MainUnmoved
    <3>2. \A p \in Parties : Other(p) \in Parties
      BY DEF Parties, Other
    <3>3. TriplesFit(Main) => TriplesFit(Main)'
      BY <3>2 DEF TriplesFit, Triples, MainUnmoved
    <3> QED
      BY <3>1, <3>3 DEF LastInv, LastPart, LastTransfers
  <2> QED
    BY <2>1, <2>2, <2>3, <2>4, <2>5, Zenon DEF LastTransfers
<1> QED
  BY <1>4, <1>5, <1>6 DEF LastPart

LEMMA LastMainTriples == LastInv /\ SpendsInv' /\ MainTriples => LastPart'
<1> SUFFICES ASSUME LastInv, SpendsInv', MainTriples PROVE LastPart'
  OBVIOUS
<1> DEFINE made(shares, p) ==
             [k \in 0 .. Triples(Main) - 1 |->
                LET s == shares[k] IN
                [a |-> s.a[p], b |-> s.b[p],
                 c |-> IF p = 0 THEN s.c
                       ELSE Xor(s.c, Xor(s.a[0], s.a[1]) * Xor(s.b[0], s.b[1]))]]
<1>1. PICK shares \in TripleShares :
        triple' = [p \in Parties |-> [triple[p] EXCEPT ![Main] = made(shares, p)]]
  <2>1. Triples(Main) = NumBins
    BY DEF Triples
  <2> QED
    BY <2>1 DEF MainTriples, GiveTriples
<1> DEFINE h == [p \in Parties |-> made(shares, p)]
<1>2. \A p \in Parties : triple'[p][Main] = h[p]
  <2> HIDE DEF made
  <2>1. triple' = SetEntries(triple, Parties, Main, h)
    BY <1>1, Zenon DEF SetEntries
  <2>2. Table(triple, Parties, Workers) /\ Main \in Workers
    BY DEF LastInv, DigitsInv, MoreShapes, Workers
  <2> HIDE DEF h
  <2> QED
    BY <2>1, <2>2, TableEntries
<1>3. TriplesFit(Main)'
  <2>1. \A p \in Parties : triple'[p][Main] = made(shares, p)
    <3> HIDE DEF made
    <3> QED
      BY <1>2
  <2>2. Main \in Workers
    BY DEF Workers
  <2> QED
    BY <2>1, <2>2, TriplesMadeFit
<1> HIDE DEF h
<1>4. /\ UNCHANGED <<data, tpc, leaf, level, base, op, got, net, res, ans>>
      /\ \A p \in Parties : pc[p] = "triple" /\ pc'[p] = "launch"
  BY DEF MainTriples
<1>5. \A p \in Parties, t \in Threads : tpc[p][t] = "none"
  BY <1>4 DEF LastInv, DigitsInv, SpendsInv, MainSpends
<1>6. Alice(0) \in Parties /\ 0 \in Threads
  BY MainEnds
<1>7. LastShapes' /\ Collected'
  BY <1>4 DEF LastInv, LastPart, LastShapes, Collected
<1>8. Returned'
  BY <1>4 DEF LastInv, LastPart, Returned
<1>9. LastTransfers'
  BY <1>3, <1>4, <1>5, <1>6 DEF LastInv, LastPart, LastTransfers
<1> QED
  BY <1>7, <1>8, <1>9 DEF LastPart

LEMMA LastMainGoesOn ==
    ASSUME LastInv, SpendsInv', NEW p \in Parties, Launch(p) \/ Join(p) PROVE LastPart'
<1>1. /\ UNCHANGED <<data, leaf, triple, op, got, net, res, ans>>
      /\ \A q \in Parties : q # p => pc'[q] = pc[q]
  BY DEF Launch, Join, circuit, LastInv, DigitsInv, SpendsInv, Shapes
<1>2. CASE Launch(p)
  <2>1. pc[p] = "launch" /\ pc'[p] = "threads" /\ tpc' = SetRow(tpc, p, Threads, "leaf")
    BY <1>2 DEF Launch, SetRow, LastInv, DigitsInv, SpendsInv, Shapes
  <2>2. \A q \in Parties, t \in Threads : tpc'[q][t] = IF q = p THEN "leaf" ELSE tpc[q][t]
    <3>1. Table(tpc, Parties, Threads)
      BY DEF LastInv, DigitsInv, SpendsInv, Shapes
    <3> QED
      BY <2>1, <3>1, TableRow
  <2>3. \A t \in Threads : tpc[p][t] = "none"
    BY <2>1 DEF LastInv, DigitsInv, SpendsInv, MainSpends
  <2>4. MainUnmoved
    BY <1>1, <2>1 DEF MainUnmoved
  <2>5. ThreadsGoOn
    BY <1>1, <2>2, <2>3 DEF ThreadsGoOn
  <2> QED
    BY <1>1, <2>4, <2>5, LastKept
<1>3. CASE Join(p)
  <2>1. /\ pc[p] = "threads" /\ pc'[p] = "final" /\ tpc' = tpc
        /\ \A t \in Threads : tpc[p][t] = "done"
    BY <1>3 DEF Join, Joined, circuit, LastInv, DigitsInv, SpendsInv, Shapes
  <2>2. MainUnmoved
    BY <1>1, <2>1 DEF MainUnmoved
  <2>3. ThreadsGoOn
    BY <1>1, <2>1 DEF ThreadsGoOn
  <2> QED
    BY <1>1, <2>2, <2>3, LastKept
<1> QED
  BY <1>2, <1>3

LEMMA LastLeafOTs ==
    ASSUME LastInv, SpendsInv', NEW t \in Threads, LeafOTs(t) PROVE LastPart'
<1>1. PICK alice \in Parties, mask \in LeafMasks :
        leaf' = [leaf EXCEPT
          ![alice][t] = [x \in LeafIndices(t) |-> mask[x]],
          ![Other(alice)][t] = [x \in LeafIndices(t) |->
             LeafMessage(DigitAt(alice, t, x), mask[x], DigitAt(Other(alice), t, x))]]
  BY DEF LeafOTs
<1>2. PICK fa, fb : /\ fa = [x \in LeafIndices(t) |-> mask[x]]
                    /\ fb = [x \in LeafIndices(t) |->
                         LeafMessage(DigitAt(alice, t, x), mask[x], DigitAt(Other(alice), t, x))]
  OBVIOUS
<1>3. leaf' = SetCell(SetCell(leaf, alice, t, fa), Other(alice), t, fb)
  BY <1>1, <1>2 DEF SetCell
<1>4. \A p \in Parties, u \in Threads : u # t => leaf'[p][u] = leaf[p][u]
  <2> DEFINE half == SetCell(leaf, alice, t, fa)
             bob == Other(alice)
  <2>1. Table(leaf, Parties, Threads) /\ bob \in Parties
    BY DEF LastInv, DigitsInv, MoreShapes, Other, Parties
  <2>2. /\ Table(half, Parties, Threads)
        /\ \A p \in Parties, u \in Threads : u # t => half[p][u] = leaf[p][u]
    BY <2>1, TableCell
  <2> HIDE DEF half, bob
  <2>3. leaf' = SetCell(half, bob, t, fb)
    BY <1>3 DEF half, bob
  <2>4. \A p \in Parties, u \in Threads : u # t => leaf'[p][u] = half[p][u]
    BY <2>1, <2>2, <2>3, TableCell
  <2> QED
    BY <2>2, <2>4
<1>5. /\ \A p \in Parties : tpc[p][t] = "leaf"
      /\ tpc' = SetColumn(tpc, Parties, t, "triples")
      /\ UNCHANGED <<data, pc, triple, op, got, net, res, ans>>
  BY DEF LeafOTs, SetColumn
<1>6. \A p \in Parties, u \in Threads : tpc'[p][u] = IF u = t THEN "triples" ELSE tpc[p][u]
  <2>1. Table(tpc, Parties, Threads)
    BY DEF LastInv, DigitsInv, SpendsInv, Shapes
  <2> QED
    BY <1>5, <2>1, TableColumn
<1>7. MainUnmoved
  BY <1>5 DEF MainUnmoved
<1>8. ThreadsGoOn
  BY <1>4, <1>5, <1>6 DEF ThreadsGoOn
<1> QED
  BY <1>5, <1>7, <1>8, LastKept

LEMMA LastThreadTriples ==
    ASSUME LastInv, SpendsInv', NEW t \in Threads, ThreadTriples(t) PROVE LastPart'
<1>1. /\ \A p \in Parties : tpc[p][t] = "triples"
      /\ tpc' = SetColumn(tpc, Parties, t, "level")
      /\ UNCHANGED <<data, pc, leaf, op, got, net, res, ans>>
  BY DEF ThreadTriples, SetColumn
<1>2. \A p \in Parties, u \in Threads : tpc'[p][u] = IF u = t THEN "level" ELSE tpc[p][u]
  <2>1. Table(tpc, Parties, Threads)
    BY DEF LastInv, DigitsInv, SpendsInv, Shapes
  <2> QED
    BY <1>1, <2>1, TableColumn
<1>3. \A p \in Parties : triple'[p][Main] = triple[p][Main]
  <2> DEFINE made(shares, p) ==
               [k \in 0 .. NumTriples * Count(t) - 1 |->
                  LET s == shares[k] IN
                  [a |-> s.a[p], b |-> s.b[p],
                   c |-> IF p = 0 THEN s.c
                         ELSE Xor(s.c, Xor(s.a[0], s.a[1]) * Xor(s.b[0], s.b[1]))]]
  <2>1. PICK shares \in TripleShares :
          triple' = [p \in Parties |-> [triple[p] EXCEPT ![t] = made(shares, p)]]
    BY DEF ThreadTriples, GiveTriples
  <2> DEFINE h == [p \in Parties |-> made(shares, p)]
  <2> HIDE DEF made
  <2>2. triple' = SetEntries(triple, Parties, t, h)
    BY <2>1, Zenon DEF SetEntries
  <2>3. Table(triple, Parties, Workers) /\ t \in Workers /\ Main \in Workers /\ t # Main
    BY DEF LastInv, DigitsInv, MoreShapes, Workers, Threads, Main
  <2> HIDE DEF h
  <2> QED
    BY <2>2, <2>3, TableEntries
<1>4. MainUnmoved
  BY <1>1, <1>3 DEF MainUnmoved
<1>5. ThreadsGoOn
  BY <1>1, <1>2 DEF ThreadsGoOn
<1> QED
  BY <1>1, <1>4, <1>5, LastKept

\* Once ALICE's first thread is done, none makes a transfer over its stream.
LEMMA StreamIsLeft ==
    ASSUME LastInv, NEW p \in Parties, tpc[Alice(0)][0] = "done", Exchanging(p, 0),
           op[p][0] <= 4
    PROVE  FALSE
<1>1. 0 \in Threads /\ 0 # Main /\ Parties = {Alice(0), Bob(0)} /\ Alice(0) \in Parties
  BY MainEnds DEF Main
<1>2. tpc[p][0] = "level" /\ level[p][0] < D
  BY <1>1 DEF Exchanging, D
<1>3. p = Bob(0) /\ op[p][0] # 5
  BY <1>1, <1>2
<1>4. AliceAhead(0) \/ Finished(0)
  BY <1>1 DEF LastInv, DigitsInv, Stage, Early, Ready, SameLevel, BobAhead
<1>5. ~AliceAhead(0)
  BY <1>3 DEF AliceAhead
<1>6. level[p][0] \in Nat /\ D \in Nat /\ level[Alice(0)][0] \in Nat
  BY <1>1, DigitsExist DEF LastInv, DigitsInv, SpendsInv, ThreadSpends
<1> QED
  BY <1>2, <1>3, <1>4, <1>5, <1>6 DEF Finished

LEMMA LastThreadTransfers ==
    ASSUME LastInv, SpendsInv', NEW p \in Parties, NEW t \in Threads,
           SendShare(p, t) \/ ReceiveShare(p, t)
    PROVE  LastPart'
<1>1. /\ t \in Workers /\ Main \in Workers /\ t # Main /\ Stream(t) = t /\ DigitsInv
      /\ 0 \in Threads
  BY DEF Workers, Threads, Main, Stream, LastInv
<1>2. /\ UNCHANGED <<data, pc, tpc, leaf, triple, res, ans>>
      /\ Exchanging(p, t) /\ op[p][t] <= 4
  BY DEF SendShare, ReceiveShare
<1>3. /\ \A q \in Parties : op'[q][Main] = op[q][Main] /\ got'[q][Main] = got[q][Main]
      /\ \A s \in Threads, q \in Parties : s # t => net'[s][q] = net[s][q]
  <2>1. CASE SendShare(p, t)
    <3>1. got' = got
      BY <2>1 DEF SendShare
    <3> QED
      BY <1>1, <2>1, <3>1, SendMoves
  <2>2. CASE ReceiveShare(p, t)
    BY <1>1, <2>2, ReceiveMoves
  <2> QED
    BY <2>1, <2>2
<1>4. tpc[Alice(0)][0] = "done" => t # 0
  BY <1>2, StreamIsLeft
<1>5. MainUnmoved
  BY <1>2, <1>3 DEF MainUnmoved
<1>6. ThreadsGoOn
  BY <1>2 DEF ThreadsGoOn
<1>7. tpc[Alice(0)][0] = "done" => \A q \in Parties : net'[0][q] = net[0][q]
  BY <1>1, <1>3, <1>4
<1> QED
  BY <1>2, <1>5, <1>6, <1>7, LastKept

LEMMA LastFinishLevel ==
    ASSUME LastInv, SpendsInv', NEW p \in Parties, NEW t \in Threads, FinishLevel(p, t)
    PROVE  LastPart'
<1> DEFINE first == 1
           none == <<>>
           at(k) == LeftAt(t, level[p][t], k)
           new == [x \in LeafIndices(t) |->
                     IF \E k \in Ands(p, t) : at(k) = x
                     THEN AndShare(p, t, CHOOSE k \in Ands(p, t) : at(k) = x)
                     ELSE leaf[p][t][x]]
<1>1. /\ tpc[p][t] = "level" /\ UNCHANGED <<data, pc, tpc, triple, net, res, ans>>
      /\ leaf' = SetCell(leaf, p, t, new) /\ op' = SetCell(op, p, t, first)
      /\ got' = SetCell(got, p, t, none)
  BY DEF FinishLevel, Exchanging, Threads, Main, SetCell
<1>2. /\ Table(leaf, Parties, Threads) /\ Table(op, Parties, Workers)
      /\ Table(got, Parties, Workers) /\ t \in Workers /\ Main \in Workers /\ t # Main
  BY DEF LastInv, DigitsInv, SpendsInv, Shapes, MoreShapes, Workers, Threads, Main
<1> HIDE DEF first, none, new
<1>3. \A q \in Parties, u \in Threads : q # p \/ u # t => leaf'[q][u] = leaf[q][u]
  BY <1>1, <1>2, TableCell
<1>4. \A q \in Parties : op'[q][Main] = op[q][Main]
  BY <1>1, <1>2, TableCell
<1>5. \A q \in Parties : got'[q][Main] = got[q][Main]
  BY <1>1, <1>2, TableCell
<1>6. MainUnmoved
  BY <1>1, <1>4, <1>5 DEF MainUnmoved
<1>7. ThreadsGoOn
  BY <1>1, <1>3 DEF ThreadsGoOn
<1> QED
  BY <1>1, <1>6, <1>7, LastKept

LEMMA LastFinishThread ==
    ASSUME LastInv, NEW p \in Parties, NEW t \in Threads, FinishThread(p, t)
    PROVE  LastPart'
<1> DEFINE a == Alice(0)
           b == Bob(0)
           new == [k \in Comparisons |->
                     IF k - Offset(t) \in 0 .. Count(t) - 1
                     THEN leaf[p][t][k - Offset(t)] ELSE res[p][k]]
<1>1. /\ tpc[p][t] = "level" /\ level[p][t] >= D
      /\ tpc' = SetCell(tpc, p, t, "done") /\ res' = [res EXCEPT ![p] = new]
      /\ UNCHANGED <<data, pc, leaf, triple, level, base, op, got, net, ans>>
  BY DEF FinishThread, circuit, SetCell, D
<1>2. \A q \in Parties, u \in Threads :
        tpc'[q][u] = IF q = p /\ u = t THEN "done" ELSE tpc[q][u]
  <2>1. Table(tpc, Parties, Threads)
    BY DEF LastInv, DigitsInv, SpendsInv, Shapes
  <2> QED
    BY <1>1, <2>1, TableCell
<1>3. /\ a \in Parties /\ b \in Parties /\ Parties = {a, b} /\ a # b /\ 0 \in Threads
      /\ op[a][Main] \in 1 .. 5 /\ op[b][Main] \in 1 .. 5
  BY MainEnds
<1>4. /\ Table(res, Parties, Comparisons)
      /\ Table(res', Parties, Comparisons)
      /\ res'[p] = new /\ \A q \in Parties : q # p => res'[q] = res[q]
  <2>1. Table(res, Parties, Comparisons)
    BY DEF LastInv, LastPart, LastShapes
  <2>2. res = [q \in Parties |-> res[q]] /\ \A q \in Parties : res[q] = [k \in Comparisons |-> res[q][k]]
    BY <2>1 DEF Table
  <2>3. new = [k \in Comparisons |-> new[k]]
    OBVIOUS
  <2> HIDE DEF new
  <2>4. res' = [q \in Parties |-> IF q = p THEN new ELSE res[q]]
    BY <1>1, <2>2
  <2>5. res'[p] = new /\ \A q \in Parties : q # p => res'[q] = res[q]
    BY <2>4
  <2>6. \A q \in Parties : res'[q] = [k \in Comparisons |-> res'[q][k]]
    BY <2>2, <2>3, <2>5
  <2>7. res' = [q \in Parties |-> res'[q]]
    BY <2>4
  <2> QED
    BY <2>1, <2>5, <2>6, <2>7, Zenon DEF Table
<1>5. LastShapes'
  BY <1>1, <1>4 DEF LastInv, LastPart, LastShapes
<1>6. Collected'
  <2> SUFFICES ASSUME NEW q \in Parties, NEW u \in Threads, NEW j \in 0 .. NumBins - 1,
                      tpc'[q][u] = "done"
               PROVE  res'[q][u * NumBins + j] = leaf'[q][u][j]
    BY DEF Collected
  <2> DEFINE k == u * NumBins + j
  <2>1. /\ NumBins \in Nat \ {0} /\ Count(t) = NumBins /\ Offset(t) = t * NumBins
        /\ k \in Comparisons
        /\ u = t => k - t * NumBins = j
        /\ u # t => k - t * NumBins \notin 0 .. NumBins - 1
    <3>1. NumBins \in Nat \ {0} /\ Count(t) = NumBins /\ Offset(t) = t * NumBins
      BY SizesAssumption, ThreadsGetHalves
    <3>2. 0 * NumBins = 0 /\ 1 * NumBins = NumBins
      BY <3>1
    <3>3. (t = 0 \/ t = 1) /\ (u = 0 \/ u = 1)
      BY DEF Threads
    <3> QED
      BY <3>1, <3>2, <3>3 DEF Comparisons, NumCmps
  <2>2. CASE q = p /\ u = t
    <3>1. res'[p][k] = leaf[p][t][k - Offset(t)]
      BY <1>4, <2>1, <2>2
    <3> HIDE DEF k
    <3> QED
      BY <1>1, <2>1, <2>2, <3>1 DEF k
  <2>3. CASE q = p /\ u # t
    <3>1. res'[p][k] = res[p][k]
      BY <1>4, <2>1, <2>3
    <3>2. tpc[q][u] = "done"
      BY <1>2, <2>3
    <3> QED
      BY <1>1, <2>3, <3>1, <3>2 DEF LastInv, LastPart, Collected
  <2>4. CASE q # p
    <3>1. tpc[q][u] = "done" /\ res'[q] = res[q]
      BY <1>2, <1>4, <2>4
    <3> QED
      BY <1>1, <3>1 DEF LastInv, LastPart, Collected
  <2> QED
    BY <2>2, <2>3, <2>4
<1> HIDE DEF new
<1>7. pc[p] \notin {"final", "returned"} /\ op[p][Main] = 1
  <2>1. pc[p] \notin {"final", "returned"}
    BY <1>1 DEF LastInv, LastPart, LastTransfers
  <2> QED
    BY <2>1 DEF LastInv, LastPart, LastTransfers
<1>8. \A q \in Parties : q # p =>
        /\ ShareE(q, Main)' = ShareE(q, Main) /\ ShareF(q, Main)' = ShareF(q, Main)
        /\ \A k : AndShare(q, Main, k)' = AndShare(q, Main, k)
  <2>1. ASSUME NEW q \in Parties, q # p
        PROVE  /\ ShareE(q, Main)' = ShareE(q, Main) /\ ShareF(q, Main)' = ShareF(q, Main)
               /\ \A k : AndShare(q, Main, k)' = AndShare(q, Main, k)
    <3>1. /\ res'[q] = res[q] /\ triple'[q][Main] = triple[q][Main]
          /\ base'[q][Main] = base[q][Main] /\ got'[q][Main] = got[q][Main]
      BY <1>1, <1>4, <2>1
    <3> QED
      BY <3>1, MainSideKept
  <2> QED
    BY <2>1
<1>9. Returned'
  <2>1. ASSUME NEW q \in Parties
        PROVE  /\ pc'[q] # "returned" => ans'[q] = Pending
               /\ pc'[q] = "returned" =>
                    op'[q][Main] = 5 /\ ans'[q] = [k \in Bins |-> AndShare(q, Main, k)']
    <3>1. CASE q = p
      BY <1>1, <1>7, <3>1 DEF LastInv, LastPart, Returned
    <3>2. CASE q # p
      <4>1. [k \in Bins |-> AndShare(q, Main, k)'] = [k \in Bins |-> AndShare(q, Main, k)]
        BY <1>8, <3>2, Zenon
      <4> QED
        BY <1>1, <4>1 DEF LastInv, LastPart, Returned
    <3> QED
      BY <3>1, <3>2
  <2> QED
    BY <2>1 DEF Returned
<1>10. tpc'[a][0] = "done" =>
         /\ Channel(got'[b][Main], net'[0][b], First(op'[b][Main]), First(op'[a][Main]),
                    ShareE(a, Main)', ShareF(a, Main)')
         /\ Channel(got'[a][Main], net'[0][a], Second(op'[a][Main]), Second(op'[b][Main]),
                    ShareE(b, Main)', ShareF(b, Main)')
  <2>1. First(1) = 0 /\ Second(1) = 0
    BY DEF First, Second
  <2>2. CASE p = a /\ t = 0
    <3>1. \A q \in Parties : op[q][Main] = 1 /\ got[q][Main] = <<>>
      BY <1>1, <2>2 DEF LastInv, LastPart, LastTransfers
    <3>2. net[0][a] = <<>> /\ net[0][b] = <<>>
      <4>1. level[a][0] \in Nat /\ D \in Nat
        BY <1>3, DigitsExist DEF LastInv, DigitsInv, SpendsInv, ThreadSpends
      <4>2. AliceAhead(0) \/ Finished(0)
        BY <1>1, <1>3, <2>2, <4>1
          DEF LastInv, DigitsInv, Stage, Early, Ready, SameLevel, AtLevel, BobAhead
      <4> QED
        BY <1>1, <2>2, <4>2 DEF AliceAhead, Finished
    <3>3. \A e, f : Channel(<<>>, <<>>, 0, 0, e, f)
      BY ChannelEnds
    <3> QED
      BY <1>1, <1>3, <2>1, <3>1, <3>2, <3>3
  <2>3. CASE ~(p = a /\ t = 0)
    <3> SUFFICES ASSUME tpc[a][0] = "done"
                 PROVE
         /\ Channel(got'[b][Main], net'[0][b], First(op'[b][Main]), First(op'[a][Main]),
                    ShareE(a, Main)', ShareF(a, Main)')
         /\ Channel(got'[a][Main], net'[0][a], Second(op'[a][Main]), Second(op'[b][Main]),
                    ShareE(b, Main)', ShareF(b, Main)')
      BY <1>2, <1>3, <2>3
    <3>1. /\ Channel(got[b][Main], net[0][b], First(op[b][Main]), First(op[a][Main]),
                     ShareE(a, Main), ShareF(a, Main))
          /\ Channel(got[a][Main], net[0][a], Second(op[a][Main]), Second(op[b][Main]),
                     ShareE(b, Main), ShareF(b, Main))
      BY DEF LastInv, LastPart, LastTransfers
    <3>2. CASE p = a
      <4>1. Channel(got[b][Main], net[0][b], First(op[b][Main]), 0,
                    ShareE(a, Main), ShareF(a, Main))
        BY <1>7, <2>1, <3>1, <3>2
      <4>2. Channel(got[b][Main], net[0][b], First(op[b][Main]), 0,
                    ShareE(a, Main)', ShareF(a, Main)')
        BY <4>1, NothingSent
      <4> QED
        BY <1>1, <1>3, <1>7, <1>8, <2>1, <3>1, <3>2, <4>2
    <3>3. CASE p = b
      <4>1. Channel(got[a][Main], net[0][a], Second(op[a][Main]), 0,
                    ShareE(b, Main), ShareF(b, Main))
        BY <1>7, <2>1, <3>1, <3>3
      <4>2. Channel(got[a][Main], net[0][a], Second(op[a][Main]), 0,
                    ShareE(b, Main)', ShareF(b, Main)')
        BY <4>1, NothingSent
      <4> QED
        BY <1>1, <1>3, <1>7, <1>8, <2>1, <3>1, <3>3, <4>2
    <3> QED
      BY <1>3, <3>2, <3>3
  <2> QED
    BY <2>2, <2>3
<1>11. LastTransfers'
  <2>1. \A q \in Parties, u \in Threads : tpc[q][u] = "done" => tpc'[q][u] = "done"
    BY <1>2
  <2>2. /\ \A q \in Parties : pc'[q] \notin {"final", "returned"} => op'[q][Main] = 1
        /\ \A q \in Parties, u \in Threads :
             pc'[q] \in {"final", "returned"} => tpc'[q][u] = "done"
        /\ tpc'[a][0] # "done" => \A q \in Parties : op'[q][Main] = 1 /\ got'[q][Main] = <<>>
    BY <1>1, <1>3, <2>1 DEF LastInv, LastPart, LastTransfers
  <2>3. \A q \in Parties : pc'[q] # "triple" => TriplesFit(Main)'
    BY <1>1 DEF LastInv, LastPart, LastTransfers, TriplesFit, Triples
  <2> QED
    BY <1>10, <2>2, <2>3, Zenon DEF LastTransfers
<1> QED
  BY <1>5, <1>6, <1>9, <1>11 DEF LastPart

LEMMA LastReturn ==
    ASSUME LastInv, NEW p \in Parties, Return(p) PROVE LastPart'
<1> DEFINE new == [k \in Bins |-> AndShare(p, Main, k)]
<1>1. /\ pc[p] = "final" /\ op[p][Main] = 5 /\ pc' = [pc EXCEPT ![p] = "returned"]
      /\ ans' = [ans EXCEPT ![p] = new]
      /\ UNCHANGED <<data, tpc, leaf, triple, level, base, op, got, net, res>>
  BY DEF Return, circuit
<1>2. \A q \in Parties : /\ pc'[q] = IF q = p THEN "returned" ELSE pc[q]
                         /\ ans'[q] = IF q = p THEN new ELSE ans[q]
  <2> HIDE DEF new
  <2> QED
    BY <1>1 DEF LastInv, LastPart, LastShapes, DigitsInv, SpendsInv, Shapes
<1>3. \A q \in Parties :
        /\ ShareE(q, Main)' = ShareE(q, Main) /\ ShareF(q, Main)' = ShareF(q, Main)
        /\ \A k : AndShare(q, Main, k)' = AndShare(q, Main, k)
  BY <1>1, MainSideKept
<1>4. LastShapes' /\ Collected'
  <2> HIDE DEF new
  <2> QED
    BY <1>1 DEF LastInv, LastPart, LastShapes, Collected
<1>5. Returned'
  <2>1. ASSUME NEW q \in Parties
        PROVE  /\ pc'[q] # "returned" => ans'[q] = Pending
               /\ pc'[q] = "returned" =>
                    op'[q][Main] = 5 /\ ans'[q] = [k \in Bins |-> AndShare(q, Main, k)']
    <3>1. [k \in Bins |-> AndShare(q, Main, k)'] = [k \in Bins |-> AndShare(q, Main, k)]
      BY <1>3, Zenon
    <3> HIDE DEF new
    <3>2. CASE q = p
      BY <1>1, <1>2, <3>1, <3>2 DEF new
    <3>3. CASE q # p
      BY <1>1, <1>2, <3>1, <3>3 DEF LastInv, LastPart, Returned
    <3> QED
      BY <3>2, <3>3
  <2> QED
    BY <2>1 DEF Returned
<1>6. LastTransfers'
  <2>1. Alice(0) \in Parties /\ Bob(0) \in Parties
    BY MainEnds
  <2>2. \A q \in Parties : /\ pc'[q] \in {"final", "returned"} <=> pc[q] \in {"final", "returned"}
                           /\ pc'[q] # "triple" => pc[q] # "triple"
    BY <1>1, <1>2
  <2>3. TriplesFit(Main) => TriplesFit(Main)'
    BY <1>1 DEF TriplesFit, Triples
  <2>4. /\ ShareE(Alice(0), Main)' = ShareE(Alice(0), Main)
        /\ ShareF(Alice(0), Main)' = ShareF(Alice(0), Main)
        /\ ShareE(Bob(0), Main)' = ShareE(Bob(0), Main)
        /\ ShareF(Bob(0), Main)' = ShareF(Bob(0), Main)
    BY <1>3, <2>1
  <2> QED
    BY <1>1, <2>1, <2>2, <2>3, <2>4 DEF LastInv, LastPart, LastTransfers
<1> QED
  BY <1>4, <1>5, <1>6 DEF LastPart

\* A transfer of the last AND is the next one over the stream, which is left to it.
LEMMA LastAndTransfers ==
    ASSUME LastInv, NEW p \in Parties, SendShare(p, Main) \/ ReceiveShare(p, Main)
    PROVE  LastPart'
<1> DEFINE a == Alice(0)
           b == Bob(0)
           oa == op[a][Main]
           ob == op[b][Main]
<1>1. /\ a \in Parties /\ b \in Parties /\ Parties = {a, b} /\ a # b
      /\ Other(a) = b /\ Other(b) = a /\ Main \in Workers /\ 0 \in Threads
      /\ Stream(Main) = 0 /\ oa \in 1 .. 5 /\ ob \in 1 .. 5
      /\ Ops(a, Main) = <<"e", "f", "receive", "receive">>
      /\ Ops(b, Main) = <<"receive", "receive", "e", "f">>
  BY MainEnds
<1>2. /\ pc[p] = "final" /\ op[p][Main] <= 4
      /\ UNCHANGED <<data, pc, tpc, leaf, triple, level, base, res, ans>>
  BY DEF SendShare, ReceiveShare, Exchanging
<1>3. tpc[a][0] = "done" /\ DigitsInv
  BY AliceIsDone DEF LastInv
<1>4. \A q \in Parties :
        /\ q # p => op'[q][Main] = op[q][Main] /\ got'[q][Main] = got[q][Main]
        /\ q = p => op'[q][Main] = op[q][Main] + 1
  <2>1. CASE SendShare(p, Main)
    <3>1. got' = got
      BY <2>1 DEF SendShare
    <3> QED
      BY <1>1, <1>3, <2>1, <3>1, SendMoves
  <2>2. CASE ReceiveShare(p, Main)
    BY <1>1, <1>3, <2>2, ReceiveMoves
  <2> QED
    BY <2>1, <2>2
<1>5. \A q \in Parties :
        /\ ShareE(q, Main)' = ShareE(q, Main) /\ ShareF(q, Main)' = ShareF(q, Main)
        /\ \A k : q # p => AndShare(q, Main, k)' = AndShare(q, Main, k)
  BY <1>2, <1>4, MainSideKept
<1>6. /\ Channel(got[b][Main], net[0][b], First(ob), First(oa), ShareE(a, Main), ShareF(a, Main))
      /\ Channel(got[a][Main], net[0][a], Second(oa), Second(ob),
                 ShareE(b, Main), ShareF(b, Main))
  BY <1>3 DEF LastInv, LastPart, LastTransfers
<1>7. /\ Channel(got'[b][Main], net'[0][b], First(op'[b][Main]), First(op'[a][Main]),
                 ShareE(a, Main), ShareF(a, Main))
      /\ Channel(got'[a][Main], net'[0][a], Second(op'[a][Main]), Second(op'[b][Main]),
                 ShareE(b, Main), ShareF(b, Main))
  <2>1. ASSUME SendShare(p, Main)
        PROVE  /\ got' = got /\ Ops(p, Main)[op[p][Main]] \in {"e", "f"}
               /\ \E m : /\ m = IF Ops(p, Main)[op[p][Main]] = "e"
                                THEN ShareE(p, Main) ELSE ShareF(p, Main)
                         /\ net'[0][Other(p)] = Append(net[0][Other(p)], m)
                         /\ net'[0][p] = net[0][p]
    <3>1. got' = got /\ Ops(p, Main)[op[p][Main]] \in {"e", "f"}
      BY <2>1 DEF SendShare
    <3>2. PICK m : /\ m = IF Ops(p, Main)[op[p][Main]] = "e"
                          THEN ShareE(p, Main) ELSE ShareF(p, Main)
                   /\ \A s \in Threads, q \in Parties :
                        net'[s][q] = IF s = 0 /\ q = Other(p)
                                     THEN Append(net[s][q], m) ELSE net[s][q]
      BY <1>1, <1>3, <2>1, SendMoves
    <3>3. Other(p) \in Parties /\ Other(p) # p
      BY <1>1
    <3> QED
      BY <1>1, <3>1, <3>2, <3>3
  <2>2. ASSUME ReceiveShare(p, Main)
        PROVE  /\ Ops(p, Main)[op[p][Main]] = "receive" /\ net[0][p] # <<>>
               /\ got'[p][Main] = Append(got[p][Main], Head(net[0][p]))
               /\ net'[0][p] = Tail(net[0][p]) /\ net'[0][Other(p)] = net[0][Other(p)]
    <3>1. Ops(p, Main)[op[p][Main]] = "receive" /\ net[0][p] # <<>>
      BY <1>1, <2>2 DEF ReceiveShare
    <3>2. Other(p) \in Parties /\ Other(p) # p
      BY <1>1
    <3>3. /\ \A q \in Parties, v \in Workers :
               got'[q][v] = IF q = p /\ v = Main
                            THEN Append(got[p][Main], Head(net[0][p])) ELSE got[q][v]
          /\ \A s \in Threads, q \in Parties :
               net'[s][q] = IF s = 0 /\ q = p THEN Tail(net[s][q]) ELSE net[s][q]
      BY <1>1, <1>3, <2>2, ReceiveMoves
    <3> QED
      BY <1>1, <3>1, <3>2, <3>3
  <2>3. CASE p = a /\ SendShare(p, Main)
    <3>1. oa \in {1, 2} /\ op'[a][Main] = oa + 1 /\ op'[b][Main] = ob
      BY <1>1, <1>2, <1>4, <2>1, <2>3
    <3>2. PICK m : /\ oa = 1 => m = ShareE(a, Main)
                   /\ oa = 2 => m = ShareF(a, Main)
                   /\ net'[0][b] = Append(net[0][b], m) /\ net'[0][a] = net[0][a]
      <4>1. PICK m : /\ m = IF Ops(a, Main)[oa] = "e"
                            THEN ShareE(a, Main) ELSE ShareF(a, Main)
                     /\ net'[0][b] = Append(net[0][b], m) /\ net'[0][a] = net[0][a]
        BY <1>1, <2>1, <2>3
      <4>2. (oa = 1 => Ops(a, Main)[oa] = "e") /\ (oa = 2 => Ops(a, Main)[oa] = "f")
        BY <1>1
      <4> QED
        BY <4>1, <4>2
    <3>3. /\ First(oa) = oa - 1 /\ First(oa + 1) = First(oa) + 1 /\ Second(oa + 1) = Second(oa)
          /\ First(oa) # 2 /\ (First(oa) = 0 => m = ShareE(a, Main))
          /\ (First(oa) = 1 => m = ShareF(a, Main))
      BY <3>1, <3>2 DEF First, Second
    <3>4. Channel(got[b][Main], Append(net[0][b], m), First(ob), First(oa) + 1,
                  ShareE(a, Main), ShareF(a, Main))
      BY <1>6, <3>3, ChannelSends
    <3> QED
      BY <1>6, <2>1, <2>3, <3>1, <3>2, <3>3, <3>4
  <2>4. CASE p = b /\ SendShare(p, Main)
    <3>1. ob \in {3, 4} /\ op'[b][Main] = ob + 1 /\ op'[a][Main] = oa
      BY <1>1, <1>2, <1>4, <2>1, <2>4
    <3>2. PICK m : /\ ob = 3 => m = ShareE(b, Main)
                   /\ ob = 4 => m = ShareF(b, Main)
                   /\ net'[0][a] = Append(net[0][a], m) /\ net'[0][b] = net[0][b]
      <4>1. PICK m : /\ m = IF Ops(b, Main)[ob] = "e"
                            THEN ShareE(b, Main) ELSE ShareF(b, Main)
                     /\ net'[0][a] = Append(net[0][a], m) /\ net'[0][b] = net[0][b]
        BY <1>1, <2>1, <2>4
      <4>2. (ob = 3 => Ops(b, Main)[ob] = "e") /\ (ob = 4 => Ops(b, Main)[ob] = "f")
        BY <1>1
      <4> QED
        BY <4>1, <4>2
    <3>3. /\ Second(ob) = ob - 3 /\ Second(ob + 1) = Second(ob) + 1 /\ First(ob + 1) = First(ob)
          /\ Second(ob) # 2 /\ (Second(ob) = 0 => m = ShareE(b, Main))
          /\ (Second(ob) = 1 => m = ShareF(b, Main))
      BY <3>1, <3>2 DEF First, Second
    <3>4. Channel(got[a][Main], Append(net[0][a], m), Second(oa), Second(ob) + 1,
                  ShareE(b, Main), ShareF(b, Main))
      BY <1>6, <3>3, ChannelSends
    <3> QED
      BY <1>6, <2>1, <2>4, <3>1, <3>2, <3>3, <3>4
  <2>5. CASE p = a /\ ReceiveShare(p, Main)
    <3>1. oa \in {3, 4} /\ op'[a][Main] = oa + 1 /\ op'[b][Main] = ob
      BY <1>1, <1>2, <1>4, <2>2, <2>5
    <3>2. Second(oa + 1) = Second(oa) + 1 /\ First(oa + 1) = First(oa)
      BY <3>1 DEF First, Second
    <3>3. Channel(got'[a][Main], net'[0][a], Second(oa) + 1, Second(ob),
                  ShareE(b, Main), ShareF(b, Main))
      BY <1>6, <2>2, <2>5, ChannelReceives
    <3>4. got'[b][Main] = got[b][Main] /\ net'[0][b] = net[0][b]
      BY <1>1, <1>4, <2>2, <2>5
    <3> QED
      BY <1>6, <3>1, <3>2, <3>3, <3>4
  <2>6. CASE p = b /\ ReceiveShare(p, Main)
    <3>1. ob \in {1, 2} /\ op'[b][Main] = ob + 1 /\ op'[a][Main] = oa
      BY <1>1, <1>2, <1>4, <2>2, <2>6
    <3>2. First(ob + 1) = First(ob) + 1 /\ Second(ob + 1) = Second(ob)
      BY <3>1 DEF First, Second
    <3>3. Channel(got'[b][Main], net'[0][b], First(ob) + 1, First(oa),
                  ShareE(a, Main), ShareF(a, Main))
      BY <1>6, <2>2, <2>6, ChannelReceives
    <3>4. got'[a][Main] = got[a][Main] /\ net'[0][a] = net[0][a]
      BY <1>1, <1>4, <2>2, <2>6
    <3> QED
      BY <1>6, <3>1, <3>2, <3>3, <3>4
  <2> QED
    BY <1>1, <2>3, <2>4, <2>5, <2>6
<1>8. LastShapes' /\ Collected'
  BY <1>2 DEF LastInv, LastPart, LastShapes, Collected
<1>9. Returned'
  <2>1. ASSUME NEW q \in Parties
        PROVE  /\ pc'[q] # "returned" => ans'[q] = Pending
               /\ pc'[q] = "returned" =>
                    op'[q][Main] = 5 /\ ans'[q] = [k \in Bins |-> AndShare(q, Main, k)']
    <3>1. CASE q = p
      BY <1>2, <3>1 DEF LastInv, LastPart, Returned
    <3>2. CASE q # p
      <4>1. [k \in Bins |-> AndShare(q, Main, k)'] = [k \in Bins |-> AndShare(q, Main, k)]
        BY <1>5, <3>2, Zenon
      <4> QED
        BY <1>2, <1>4, <3>2, <4>1 DEF LastInv, LastPart, Returned
    <3> QED
      BY <3>1, <3>2
  <2> QED
    BY <2>1 DEF Returned
<1>10. LastTransfers'
  <2>1. /\ \A q \in Parties : pc'[q] \notin {"final", "returned"} => op'[q][Main] = 1
        /\ \A q \in Parties, t \in Threads :
             pc'[q] \in {"final", "returned"} => tpc'[q][t] = "done"
    BY <1>2, <1>4 DEF LastInv, LastPart, LastTransfers
  <2>2. /\ Channel(got'[b][Main], net'[0][b], First(op'[b][Main]), First(op'[a][Main]),
                   ShareE(a, Main)', ShareF(a, Main)')
        /\ Channel(got'[a][Main], net'[0][a], Second(op'[a][Main]), Second(op'[b][Main]),
                   ShareE(b, Main)', ShareF(b, Main)')
    BY <1>1, <1>5, <1>7
  <2>3. \A q \in Parties : pc'[q] # "triple" => TriplesFit(Main)'
    BY <1>2 DEF LastInv, LastPart, LastTransfers, TriplesFit, Triples
  <2>4. tpc'[a][0] = "done"
    BY <1>2, <1>3
  <2> QED
    BY <2>1, <2>2, <2>3, <2>4, Zenon DEF LastTransfers
<1> QED
  BY <1>8, <1>9, <1>10 DEF LastPart

LEMMA LastInit == Init => LastInv
<1> SUFFICES ASSUME Init PROVE LastInv
  OBVIOUS
<1>1. DigitsInv /\ Alice(0) \in Parties /\ 0 \in Threads /\ Main \in Workers
  BY DigitsInit DEF Alice, Parties, Threads, Workers
<1>2. LastShapes
  BY DEF Init, LastShapes, Table
<1>3. Collected /\ Returned
  BY DEF Init, Collected, Returned
<1>4. LastTransfers
  BY <1>1 DEF Init, LastTransfers
<1> QED
  BY <1>1, <1>2, <1>3, <1>4 DEF LastInv, LastPart

LEMMA LastStep == LastInv /\ [Next]_vars => LastInv'
<1> SUFFICES ASSUME LastInv, [Next]_vars PROVE LastInv'
  OBVIOUS
<1>0. DigitsInv' /\ SpendsInv'
  <2>1. DigitsInv'
    BY DigitsStep DEF LastInv
  <2> QED
    BY <2>1 DEF DigitsInv
<1> SUFFICES LastPart'
  BY <1>0 DEF LastInv
<1>1. CASE MainTriples
  BY <1>0, <1>1, LastMainTriples
<1>2. ASSUME NEW t \in Threads, LeafOTs(t) \/ ThreadTriples(t) PROVE LastPart'
  BY <1>0, <1>2, LastLeafOTs, LastThreadTriples
<1>3. ASSUME NEW p \in Parties, Launch(p) \/ Join(p) \/ Return(p) PROVE LastPart'
  BY <1>0, <1>3, LastMainGoesOn, LastReturn
<1>4. ASSUME NEW p \in Parties, NEW w \in Workers, SendShare(p, w) \/ ReceiveShare(p, w)
      PROVE  LastPart'
  <2>1. CASE w \in Threads
    BY <1>0, <1>4, <2>1, LastThreadTransfers
  <2>2. CASE w = Main
    BY <1>4, <2>2, LastAndTransfers
  <2> QED
    BY <2>1, <2>2 DEF Workers
<1>5. ASSUME NEW p \in Parties, NEW t \in Threads, FinishLevel(p, t) \/ FinishThread(p, t)
      PROVE  LastPart'
  BY <1>0, <1>5, LastFinishLevel, LastFinishThread
<1>6. CASE UNCHANGED vars
  <2>1. UNCHANGED <<data, pc, tpc, leaf, triple, op, got, net, res, ans>>
    BY <1>6 DEF vars, circuit
  <2>2. MainUnmoved /\ ThreadsGoOn
    BY <2>1 DEF MainUnmoved, ThreadsGoOn
  <2> QED
    BY <1>0, <2>1, <2>2, LastKept
<1> QED
  BY <1>1, <1>2, <1>3, <1>4, <1>5, <1>6 DEF Next

\* What a side returns, and what the other returned if it did, are shares of which blocks
\* are equal.
LEMMA ReturnsShares ==
    ASSUME LastInv, NEW p \in Parties, Return(p)
    PROVE  LET v == [k \in Bins |-> AndShare(p, Main, k)]
           IN  /\ ans[p] = Pending /\ ans' = [ans EXCEPT ![p] = v] /\ data' = data
               /\ v \in [Bins -> {0, 1}]
               /\ ans[Other(p)] # Pending =>
                    \A k \in Bins : v[k] # ans[Other(p)][k]
                      <=> \A h \in {0, 1} : data[0][2 * k + h] = data[1][2 * k + h]
<1> DEFINE a == Alice(0)
           b == Bob(0)
           q == Other(p)
           equal(k) == \A h \in {0, 1} : data[0][2 * k + h] = data[1][2 * k + h]
           given(s, k) == ShareGiven(s, Main, k, ShareE(Other(s), Main), ShareF(Other(s), Main))
           v == [k \in Bins |-> AndShare(p, Main, k)]
<1>1. /\ a \in Parties /\ b \in Parties /\ Parties = {a, b} /\ a # b
      /\ Other(a) = b /\ Other(b) = a
  BY MainEnds
<1>2. /\ pc[p] = "final" /\ op[p][Main] = 5 /\ data' = data /\ ans' = [ans EXCEPT ![p] = v]
  BY DEF Return
<1>3. ans[p] = Pending
  BY <1>2 DEF LastInv, LastPart, Returned
<1>4. (\A s \in Parties, t \in Threads : tpc[s][t] = "done") /\ TriplesFit(Main)
  BY <1>2, AtTheEnd
<1>5. ASSUME NEW s \in Parties, op[s][Main] = 5, NEW k \in Bins
      PROVE  AndShare(s, Main, k) = given(s, k)
  <2>1. got[s][Main] = <<ShareE(Other(s), Main), ShareF(Other(s), Main)>>
    BY <1>5, AtTheEnd
  <2> QED
    BY <2>1, ShareIsGiven
<1>6. ASSUME NEW k \in Bins
      PROVE  /\ given(a, k) \in Bit /\ given(b, k) \in Bit
             /\ given(a, k) # given(b, k) <=> equal(k)
  BY <1>1, <1>4, LastAndIsShared
<1> HIDE DEF given, equal, a, b
<1>7. ASSUME NEW k \in Bins
      PROVE  given(p, k) \in {0, 1} /\ (given(p, k) # given(q, k) <=> equal(k))
  BY <1>1, <1>6 DEF Bit
<1>8. v \in [Bins -> {0, 1}]
  BY <1>2, <1>5, <1>7
<1>9. ASSUME ans[q] # Pending, NEW k \in Bins
      PROVE  v[k] # ans[q][k] <=> equal(k)
  <2>1. q \in Parties
    BY <1>1
  <2>2. op[q][Main] = 5 /\ ans[q] = [j \in Bins |-> AndShare(q, Main, j)]
    BY <1>9, <2>1 DEF LastInv, LastPart, Returned
  <2>3. ans[q][k] = given(q, k)
    BY <1>5, <2>1, <2>2
  <2>4. v[k] = given(p, k)
    BY <1>2, <1>5
  <2> QED
    BY <1>7, <2>3, <2>4
<1> QED
  BY <1>2, <1>3, <1>8, <1>9 DEF equal

\* The call of each side returns, once, bits that alone are any, and those of the two
\* sides differ in exactly the bins whose blocks are equal.
THEOREM SharedEqualityImplemented == Spec => Promise!Init /\ [][Promise!Next]_(Promise!vars)
<1> DEFINE same == {c \in Bins : \A h \in {0, 1} : data[0][2 * c + h] = data[1][2 * c + h]}
<1>1. Init => Promise!Init
  BY DEF Init, Promise!Init
<1>2. ASSUME LastInv, [Next]_vars PROVE [Promise!Next]_(Promise!vars)
  <2>1. ASSUME NEW p \in Parties, Return(p) PROVE Promise!Return(p)
    <3> DEFINE v == [k \in Bins |-> AndShare(p, Main, k)]
    <3>1. /\ ans[p] = Pending /\ ans' = [ans EXCEPT ![p] = v] /\ data' = data
          /\ v \in [Bins -> {0, 1}]
          /\ ans[Other(p)] # Pending =>
               \A k \in Bins : v[k] # ans[Other(p)][k]
                 <=> \A h \in {0, 1} : data[0][2 * k + h] = data[1][2 * k + h]
      BY <1>2, <2>1, ReturnsShares
    <3>2. \A q \in Parties \ {p} : q = Other(p)
      BY DEF Parties, Other
    <3> HIDE DEF v
    <3>3. \A q \in Parties \ {p} :
            ans[q] # Pending => \A k \in Bins : v[k] # ans[q][k] <=> k \in same
      BY <3>1, <3>2
    <3>4. same' = same
      BY <3>1
    <3> QED
      BY <3>1, <3>3, <3>4 DEF Promise!Return
  <2>2. ASSUME \A p \in Parties : ~Return(p) PROVE UNCHANGED Promise!vars
    <3>1. UNCHANGED <<data, ans>>
      BY <1>2, <2>2 DEF Next, MainTriples, LeafOTs, ThreadTriples, Launch, Join, SendShare,
         ReceiveShare, FinishLevel, FinishThread, vars
    <3> QED
      BY <3>1 DEF Promise!vars
  <2> QED
    BY <2>1, <2>2 DEF Promise!Next
<1>3. Spec => []LastInv
  BY LastInit, LastStep, PTL DEF Spec
<1> QED
  BY <1>1, <1>2, <1>3, PTL DEF Spec
-----------------------------------------------------------------------------
(* No thread waits for ever for the other party: the guards of the steps,  *)
(* written out as a statement about single states, and a count of what is  *)
(* left to be done.  It holds for streams of any room, those that hold     *)
(* nothing included.                                                       *)

\* One end of a worker's stream acts as ALICE and the other as BOB.
Facing(w) == \E alice \in Parties : Side(alice, w) = ALICE /\ Side(Other(alice), w) = BOB

\* Both ends of a library's step have come to it, and it has an outcome.
LibraryGoes ==
    \/ (\A p \in Parties : pc[p] = "triple") /\ Facing(Main) /\ TripleShares # {}
    \/ \E t \in Threads :
         /\ Facing(t)
         /\ \/ (\A p \in Parties : tpc[p][t] = "leaf") /\ LeafMasks # {}
            \/ (\A p \in Parties : tpc[p][t] = "triples") /\ TripleShares # {}

\* A worker sends, finds something to receive, or has made all four transfers.
TransferGoes(p, w) ==
    /\ Exchanging(p, w) /\ Drained(p, w)
    /\ \/ op[p][w] <= 4 /\ Ops(p, w)[op[p][w]] \in {"e", "f"}
       \/ op[p][w] <= 4 /\ Ops(p, w)[op[p][w]] = "receive" /\ net[Stream(w)][p] # <<>>
       \/ op[p][w] = 5

\* A thread has joined all levels, or the main thread goes on.
PartyGoes(p) ==
    \/ pc[p] = "launch"
    \/ pc[p] = "threads" /\ Joined(p)
    \/ \E t \in Threads : tpc[p][t] = "level" /\ level[p][t] >= NumDigits

\* Until both calls have returned some thread can go on: of two that are at one AND, one
\* sends what the other waits for, and none sends while what it sent before is not read.
NoneBlocked ==
    (\E p \in Parties : pc[p] # "returned") =>
      \/ LibraryGoes
      \/ \E p \in Parties : PartyGoes(p) \/ \E w \in Workers : TransferGoes(p, w)

\* What a thread has before it: the parts that its digits still make, the transfers of this
\* level, and its places.
ThreadPlaces == [none |-> 4, leaf |-> 3, triples |-> 2, level |-> 1, done |-> 0]
ThreadWork(p, t) == 5 * Parts(level[p][t]) - op[p][t] + ThreadPlaces[tpc[p][t]]

\* The main thread has its places, the transfers of the last AND, and its two threads.
MainSteps == [triple |-> 4, launch |-> 3, threads |-> 2, final |-> 1, returned |-> 0]
MainWork(p) == MainSteps[pc[p]] - op[p][Main] + 5
PartyWork(p) == MainWork(p) + ThreadWork(p, 0) + ThreadWork(p, 1)
Work == PartyWork(0) + PartyWork(1)

\* Where the main threads are.
MainPlaces ==
    /\ \A p \in Parties : pc[p] \in {"triple", "launch", "threads", "final", "returned"}
    /\ \A p, q \in Parties : pc[p] = "triple" => pc[q] = "triple"
    /\ \A p \in Parties, t \in Threads :
         tpc[p][t] = "none" <=> pc[p] \in {"triple", "launch"}

\* The two ends of every stream have the two sides.
LEMMA AllFacing == \A w \in Workers : Facing(w)
BY TwoSides, Zenon DEF Facing

\* Where the main thread is and where its threads are go together.
LEMMA MainPlacesInit == Init => MainPlaces
BY DEF Init, MainPlaces

LEMMA MainPlacesStep == SpendsInv /\ MainPlaces /\ [Next]_vars => MainPlaces'
<1> SUFFICES ASSUME SpendsInv, MainPlaces, [Next]_vars PROVE MainPlaces'
  OBVIOUS
<1>1. Table(tpc, Parties, Threads) /\ pc = [p \in Parties |-> pc[p]]
  BY DEF SpendsInv, Shapes
<1>2. CASE MainTriples
  <2>1. /\ \A p \in Parties : pc[p] = "triple" /\ pc'[p] = "launch"
        /\ tpc' = tpc
    BY <1>2 DEF MainTriples
  <2> QED
    BY <2>1 DEF MainPlaces
<1>3. ASSUME NEW t \in Threads, NEW u, tpc' = SetColumn(tpc, Parties, t, u), u # "none", pc' = pc,
             \A p \in Parties : tpc[p][t] # "none"
      PROVE  MainPlaces'
  <2>1. \A p \in Parties, v \in Threads : tpc'[p][v] = IF v = t THEN u ELSE tpc[p][v]
    <3>1. \A p \in Parties, v \in Threads :
            SetColumn(tpc, Parties, t, u)[p][v] = IF v = t THEN u ELSE tpc[p][v]
      BY <1>1, TableColumn
    <3> QED
      BY <1>3, <3>1
  <2> QED
    BY <1>3, <2>1 DEF MainPlaces
<1>4. ASSUME NEW t \in Threads, LeafOTs(t) PROVE MainPlaces'
  <2>1. tpc' = SetColumn(tpc, Parties, t, "triples") /\ pc' = pc
    BY <1>4 DEF LeafOTs, SetColumn
  <2>2. \A p \in Parties : tpc[p][t] = "leaf"
    BY <1>4 DEF LeafOTs
  <2> QED
    BY <1>3, <2>1, <2>2
<1>5. ASSUME NEW t \in Threads, ThreadTriples(t) PROVE MainPlaces'
  <2>1. tpc' = SetColumn(tpc, Parties, t, "level") /\ pc' = pc
    BY <1>5 DEF ThreadTriples, SetColumn
  <2>2. \A p \in Parties : tpc[p][t] = "triples"
    BY <1>5 DEF ThreadTriples
  <2> QED
    BY <1>3, <2>1, <2>2
<1>6. ASSUME NEW p \in Parties, Launch(p) PROVE MainPlaces'
  <2>1. /\ pc[p] = "launch" /\ pc' = [pc EXCEPT ![p] = "threads"]
        /\ tpc' = SetRow(tpc, p, Threads, "leaf")
    BY <1>6 DEF Launch, SetRow
  <2>2. \A q \in Parties, t \in Threads : tpc'[q][t] = IF q = p THEN "leaf" ELSE tpc[q][t]
    <3>1. \A q \in Parties, t \in Threads :
            SetRow(tpc, p, Threads, "leaf")[q][t] = IF q = p THEN "leaf" ELSE tpc[q][t]
      BY <1>1, TableRow
    <3> QED
      BY <2>1, <3>1
  <2>3. \A q \in Parties : pc'[q] = IF q = p THEN "threads" ELSE pc[q]
    BY <1>1, <2>1
  <2> QED
    BY <2>1, <2>2, <2>3 DEF MainPlaces
<1>7. ASSUME NEW p \in Parties, Join(p) \/ Return(p) PROVE MainPlaces'
  <2>1. /\ pc[p] \in {"threads", "final"} /\ tpc' = tpc
        /\ \A q \in Parties : pc'[q] = IF q = p THEN pc'[p] ELSE pc[q]
        /\ pc'[p] \in {"final", "returned"}
    BY <1>1, <1>7 DEF Join, Return
  <2> QED
    BY <2>1 DEF MainPlaces
<1>8. ASSUME NEW p \in Parties, NEW t \in Threads, FinishThread(p, t) PROVE MainPlaces'
  <2>1. tpc' = SetCell(tpc, p, t, "done") /\ pc' = pc /\ tpc[p][t] = "level"
    BY <1>8 DEF FinishThread, SetCell
  <2>2. \A q \in Parties, v \in Threads :
          tpc'[q][v] = IF q = p /\ v = t THEN "done" ELSE tpc[q][v]
    <3>1. \A q \in Parties, v \in Threads :
            SetCell(tpc, p, t, "done")[q][v] = IF q = p /\ v = t THEN "done" ELSE tpc[q][v]
      BY <1>1, TableCell
    <3> QED
      BY <2>1, <3>1
  <2> QED
    BY <2>1, <2>2 DEF MainPlaces
<1>9. CASE UNCHANGED <<pc, tpc>>
  BY <1>9 DEF MainPlaces
<1> QED
  BY <1>2, <1>4, <1>5, <1>6, <1>7, <1>8, <1>9
  DEF Next, SendShare, ReceiveShare, FinishLevel, vars

\* An empty stream holds nothing that a sender waits for.
LEMMA EmptyIsDrained ==
    ASSUME NEW p, NEW w, net[Stream(w)][Other(p)] = <<>> PROVE Drained(p, w)
<1>1. Len(<<>>) = 0
  OBVIOUS
<1> QED
  BY <1>1, SizesAssumption DEF Drained

LEMMA NothingUnderWay ==
    ASSUME NEW g, NEW n, NEW r, NEW s, NEW e, NEW f, Channel(g, n, r, s, e, f)
    PROVE  r <= s /\ (n = <<>> <=> r = s)
<1>1. r \in {0, 1, 2} /\ s \in {0, 1, 2} /\ r <= s /\ n = Items(e, f, r, s)
  BY DEF Channel
<1>2. <<e>> # <<>> /\ <<f>> # <<>> /\ <<e, f>> # <<>>
  OBVIOUS
<1> QED
  BY <1>1, <1>2 DEF Items

\* Of two sides at one AND, by how far they are: BOB is behind with what ALICE sends, or she
\* is to send; else she is behind with what he sends, or he is to send, or both have all.
LEMMA WhoIsNext ==
    ASSUME NEW oa \in 1 .. 5, NEW ob \in 1 .. 5,
           First(ob) <= First(oa), Second(oa) <= Second(ob)
    PROVE  \/ ob \in {1, 2} /\ First(ob) # First(oa) /\ Second(oa) = Second(ob)
           \/ oa \in {1, 2} /\ First(ob) = First(oa)
           \/ oa \in {3, 4} /\ First(ob) = First(oa) /\ Second(oa) # Second(ob)
           \/ oa \in {3, 4, 5} /\ ob = oa
<1> DEFINE Made(o, f, s) == First(o) = f /\ Second(o) = s
<1>1. /\ Made(1, 0, 0) /\ Made(2, 1, 0) /\ Made(3, 2, 0) /\ Made(4, 2, 1) /\ Made(5, 2, 2)
  BY DEF First, Second
<1>2. /\ oa = 1 \/ oa = 2 \/ oa = 3 \/ oa = 4 \/ oa = 5
      /\ ob = 1 \/ ob = 2 \/ ob = 3 \/ ob = 4 \/ ob = 5
  OBVIOUS
<1>3. CASE oa = 1
  BY <1>1, <1>2, <1>3
<1>4. CASE oa = 2
  BY <1>1, <1>2, <1>4
<1>5. CASE oa = 3
  BY <1>1, <1>2, <1>5
<1>6. CASE oa = 4
  BY <1>1, <1>2, <1>6
<1>7. CASE oa = 5
  BY <1>1, <1>2, <1>7
<1> QED
  BY <1>2, <1>3, <1>4, <1>5, <1>6, <1>7

\* Of two sides at one AND one can go on: the one that is behind has something to receive,
\* and when nothing is on its way the next send is ALICE's and then BOB's.  A side that has
\* returned has made all its transfers.
LEMMA OneSideGoes ==
    ASSUME NEW w \in Workers, NEW oa \in 1 .. 5, NEW ob \in 1 .. 5,
           oa = op[Alice(w)][w], ob = op[Bob(w)][w],
           First(ob) <= First(oa) /\ Second(oa) <= Second(ob),
           net[Stream(w)][Bob(w)] = <<>> <=> First(ob) = First(oa),
           net[Stream(w)][Alice(w)] = <<>> <=> Second(oa) = Second(ob),
           \A p \in Parties : Exchanging(p, w) \/ op[p][w] = 5,
           \E p \in Parties : Exchanging(p, w)
    PROVE  \E p \in Parties : TransferGoes(p, w)
<1> DEFINE a == Alice(w)
           b == Bob(w)
<1>1. /\ a \in Parties /\ b \in Parties /\ Parties = {a, b}
      /\ Other(a) = b /\ Other(b) = a
      /\ Ops(a, w) = <<"e", "f", "receive", "receive">>
      /\ Ops(b, w) = <<"receive", "receive", "e", "f">>
  BY TwoSides DEF Ops
<1>2. /\ oa \in {1, 2} => Ops(a, w)[oa] \in {"e", "f"}
      /\ oa \in {3, 4} => Ops(a, w)[oa] = "receive"
      /\ ob \in {1, 2} => Ops(b, w)[ob] = "receive"
      /\ ob \in {3, 4} => Ops(b, w)[ob] \in {"e", "f"}
  BY <1>1
<1>3. /\ First(ob) = First(oa) => Drained(a, w)
      /\ Second(oa) = Second(ob) => Drained(b, w)
  BY <1>1, EmptyIsDrained
<1>4. CASE ob \in {1, 2} /\ First(ob) # First(oa) /\ Second(oa) = Second(ob)
  <2>1. Drained(b, w) /\ net[Stream(w)][b] # <<>> /\ ob <= 4 /\ ob # 5
    BY <1>3, <1>4
  <2>2. Exchanging(b, w)
    BY <1>1, <2>1
  <2> QED
    BY <1>1, <1>2, <1>4, <2>1, <2>2 DEF TransferGoes
<1>5. CASE oa \in {1, 2} /\ First(ob) = First(oa)
  <2>1. Drained(a, w) /\ oa <= 4 /\ oa # 5
    BY <1>3, <1>5
  <2>2. Exchanging(a, w)
    BY <1>1, <2>1
  <2> QED
    BY <1>1, <1>2, <1>5, <2>1, <2>2 DEF TransferGoes
<1>6. CASE oa \in {3, 4} /\ First(ob) = First(oa) /\ Second(oa) # Second(ob)
  <2>1. Drained(a, w) /\ net[Stream(w)][a] # <<>> /\ oa <= 4 /\ oa # 5
    BY <1>3, <1>6
  <2>2. Exchanging(a, w)
    BY <1>1, <2>1
  <2> QED
    BY <1>1, <1>2, <1>6, <2>1, <2>2 DEF TransferGoes
<1>7. CASE oa \in {3, 4, 5} /\ ob = oa
  <2>1. Drained(a, w) /\ Drained(b, w)
    BY <1>3, <1>7
  <2>2. CASE oa = 5
    <3>1. PICK p \in Parties : Exchanging(p, w)
      OBVIOUS
    <3>2. p = a \/ p = b
      BY <1>1
    <3>3. Drained(p, w) /\ op[p][w] = 5
      BY <1>7, <2>1, <2>2, <3>2
    <3> QED
      BY <3>1, <3>3 DEF TransferGoes
  <2>3. CASE ob \in {3, 4}
    <3>1. Exchanging(b, w) /\ ob <= 4
      BY <1>1, <2>3
    <3> QED
      BY <1>1, <1>2, <2>1, <2>3, <3>1 DEF TransferGoes
  <2> QED
    BY <1>7, <2>2, <2>3
<1> QED
  BY <1>4, <1>5, <1>6, <1>7, WhoIsNext

\* Of the two sides of a thread that is not done, one or both can go on.
LEMMA ThreadGoes ==
    ASSUME LastInv, NEW t \in Threads,
           \A p \in Parties : tpc[p][t] # "none",
           \E p \in Parties : tpc[p][t] # "done"
    PROVE  LibraryGoes \/ \E p \in Parties : PartyGoes(p) \/ TransferGoes(p, t)
<1> DEFINE a == Alice(t)
           b == Bob(t)
<1>1. /\ t \in Workers /\ t # Main /\ Stream(t) = t
      /\ a \in Parties /\ b \in Parties /\ Parties = {a, b}
      /\ Other(a) = b /\ Other(b) = a
  <2>1. t \in Workers /\ t # Main
    BY DEF Workers, Threads, Main
  <2> QED
    BY <2>1, TwoSides DEF Stream
<1>2. DigitsInv /\ Stage(t)
  BY DEF LastInv, DigitsInv
<1>3. \A p \in Parties : op[p][t] \in 1 .. 5 /\ level[p][t] \in Nat
  BY <1>2 DEF DigitsInv, SpendsInv, ThreadSpends
<1>4. \A p \in Parties : Exchanging(p, t) <=> tpc[p][t] = "level" /\ level[p][t] < D
  BY <1>1 DEF Exchanging, D
<1>5. TripleShares # {} /\ LeafMasks # {} /\ Facing(t)
  BY <1>1, AllFacing, RandomnessAssumption
<1>6. ASSUME NEW p \in Parties, tpc[p][t] = "level", level[p][t] >= D
      PROVE  PartyGoes(p)
  BY <1>6 DEF PartyGoes, D
<1>7. CASE Early(t)
  BY <1>5, <1>7 DEF Early, LibraryGoes
<1>8. CASE Ready(t)
  BY <1>5, <1>8 DEF Ready, LibraryGoes
<1>9. CASE SameLevel(t)
  <2>1. PICK i : AtLevel(t, i)
    BY <1>9 DEF SameLevel
  <2>2. \A p \in Parties : Exchanging(p, t)
    BY <1>4, <1>9, <2>1 DEF SameLevel, AtLevel
  <2>3. /\ First(op[b][t]) <= First(op[a][t])
        /\ net[t][b] = <<>> <=> First(op[b][t]) = First(op[a][t])
    <3> DEFINE e == ShareE(a, t)
               f == ShareF(a, t)
    <3>1. Channel(got[b][t], net[t][b], First(op[b][t]), First(op[a][t]), e, f)
      BY <1>9 DEF SameLevel
    <3> HIDE DEF e, f
    <3> QED
      BY <3>1, NothingUnderWay
  <2>4. /\ Second(op[a][t]) <= Second(op[b][t])
        /\ net[t][a] = <<>> <=> Second(op[a][t]) = Second(op[b][t])
    <3> DEFINE e == ShareE(b, t)
               f == ShareF(b, t)
    <3>1. Channel(got[a][t], net[t][a], Second(op[a][t]), Second(op[b][t]), e, f)
      BY <1>9 DEF SameLevel
    <3> HIDE DEF e, f
    <3> QED
      BY <3>1, NothingUnderWay
  <2>5. \E p \in Parties : TransferGoes(p, t)
    BY <1>1, <1>3, <2>2, <2>3, <2>4, OneSideGoes
  <2> QED
    BY <2>5
<1>10. CASE BobAhead(t)
  <2>1. Exchanging(a, t) /\ op[a][t] \in 3 .. 5 /\ net[t][b] = <<>>
    BY <1>1, <1>4, <1>10 DEF BobAhead
  <2>2. PICK e, f : Channel(got[a][t], net[t][a], Second(op[a][t]), 2, e, f)
    BY <1>10 DEF BobAhead
  <2>3. net[t][a] = <<>> => Second(op[a][t]) = 2
    BY <2>2, NothingUnderWay
  <2>4. Drained(a, t)
    BY <1>1, <2>1, EmptyIsDrained
  <2>5. CASE op[a][t] = 5
    BY <1>1, <2>1, <2>4, <2>5 DEF TransferGoes
  <2>6. CASE op[a][t] \in {3, 4}
    <3>1. net[t][a] # <<>>
      BY <2>3, <2>6 DEF Second
    <3>2. Ops(a, t)[op[a][t]] = "receive"
      <4>1. Ops(a, t) = <<"e", "f", "receive", "receive">>
        BY <1>1, TwoSides DEF Ops
      <4> QED
        BY <2>6, <4>1
    <3> QED
      BY <1>1, <2>1, <2>4, <2>6, <3>1, <3>2 DEF TransferGoes
  <2> QED
    BY <2>1, <2>5, <2>6
<1>11. CASE AliceAhead(t)
  <2>1. Exchanging(b, t) /\ op[b][t] = 5 /\ net[t][a] = <<>>
    BY <1>1, <1>4, <1>11 DEF AliceAhead
  <2>2. Drained(b, t)
    BY <1>1, <2>1, EmptyIsDrained
  <2> QED
    BY <1>1, <2>1, <2>2 DEF TransferGoes
<1>12. CASE Finished(t)
  <2>1. \A p \in Parties : tpc[p][t] \in {"level", "done"} /\ level[p][t] >= D
    BY <1>1, <1>12 DEF Finished
  <2>2. PICK p \in Parties : tpc[p][t] = "level"
    BY <2>1
  <2> QED
    BY <1>6, <2>1, <2>2
<1> QED
  BY <1>2, <1>7, <1>8, <1>9, <1>10, <1>11, <1>12 DEF Stage

\* So it is with the last AND, when both main threads have come to it.
LEMMA LastAndGoes ==
    ASSUME LastInv, \A p \in Parties : pc[p] \in {"final", "returned"},
           \E p \in Parties : pc[p] = "final"
    PROVE  \E p \in Parties : TransferGoes(p, Main)
<1> DEFINE a == Alice(0)
           b == Bob(0)
<1>1. /\ a \in Parties /\ b \in Parties /\ Alice(Main) = a /\ Bob(Main) = b
      /\ Main \in Workers /\ 0 \in Threads /\ Stream(Main) = 0
      /\ op[a][Main] \in 1 .. 5 /\ op[b][Main] \in 1 .. 5
  BY MainEnds
<1>2. LastTransfers /\ Returned
  BY DEF LastInv, LastPart
<1>3. tpc[a][0] = "done"
  BY <1>1, <1>2 DEF LastTransfers
<1>4. \A p \in Parties : Exchanging(p, Main) <=> pc[p] = "final"
  BY DEF Exchanging
<1>5. \A p \in Parties : Exchanging(p, Main) \/ op[p][Main] = 5
  BY <1>2, <1>4 DEF Returned
<1>6. /\ First(op[b][Main]) <= First(op[a][Main])
      /\ net[0][b] = <<>> <=> First(op[b][Main]) = First(op[a][Main])
  <2> DEFINE e == ShareE(a, Main)
             f == ShareF(a, Main)
  <2>1. Channel(got[b][Main], net[0][b], First(op[b][Main]), First(op[a][Main]), e, f)
    BY <1>2, <1>3 DEF LastTransfers
  <2> HIDE DEF e, f
  <2> QED
    BY <2>1, NothingUnderWay
<1>7. /\ Second(op[a][Main]) <= Second(op[b][Main])
      /\ net[0][a] = <<>> <=> Second(op[a][Main]) = Second(op[b][Main])
  <2> DEFINE e == ShareE(b, Main)
             f == ShareF(b, Main)
  <2>1. Channel(got[a][Main], net[0][a], Second(op[a][Main]), Second(op[b][Main]), e, f)
    BY <1>2, <1>3 DEF LastTransfers
  <2> HIDE DEF e, f
  <2> QED
    BY <2>1, NothingUnderWay
<1> QED
  BY <1>1, <1>4, <1>5, <1>6, <1>7, OneSideGoes

\* No thread of either party waits for ever for the other's, whatever the streams hold:
\* until both calls have returned, a library's step or a step of one side is possible.
THEOREM NoneBlockedInvariant == Spec => []NoneBlocked
<1>1. LastInv /\ MainPlaces => NoneBlocked
  <2> SUFFICES ASSUME LastInv, MainPlaces, \E p \in Parties : pc[p] # "returned"
               PROVE  \/ LibraryGoes
                      \/ \E p \in Parties : PartyGoes(p) \/ \E w \in Workers : TransferGoes(p, w)
    BY DEF NoneBlocked
  <2>1. CASE \E p \in Parties : pc[p] = "triple"
    <3>1. \A p \in Parties : pc[p] = "triple"
      BY <2>1 DEF MainPlaces
    <3> QED
      BY <3>1, AllFacing, RandomnessAssumption DEF LibraryGoes, Workers
  <2>2. CASE \E p \in Parties : pc[p] = "launch"
    BY <2>2 DEF PartyGoes
  <2>3. CASE \A p \in Parties : pc[p] \in {"threads", "final", "returned"}
    <3>1. \A p \in Parties, t \in Threads : tpc[p][t] # "none"
      BY <2>3 DEF MainPlaces
    <3>2. ASSUME NEW t \in Threads, \E p \in Parties : tpc[p][t] # "done"
          PROVE  \/ LibraryGoes
                 \/ \E p \in Parties : PartyGoes(p) \/ \E w \in Workers : TransferGoes(p, w)
      <4>1. t \in Workers
        BY DEF Workers
      <4>2. LibraryGoes \/ \E p \in Parties : PartyGoes(p) \/ TransferGoes(p, t)
        BY <3>1, <3>2, ThreadGoes
      <4> QED
        BY <4>1, <4>2
    <3>3. CASE /\ \A p \in Parties, t \in Threads : tpc[p][t] = "done"
               /\ \E p \in Parties : pc[p] = "threads"
      BY <3>3 DEF PartyGoes, Joined
    <3>4. CASE \A p \in Parties : pc[p] # "threads"
      <4>1. \E p \in Parties : pc[p] = "final"
        BY <2>3, <3>4
      <4>2. Main \in Workers
        BY DEF Workers
      <4>3. \E p \in Parties : TransferGoes(p, Main)
        BY <2>3, <3>4, <4>1, LastAndGoes
      <4> QED
        BY <4>2, <4>3
    <3> QED
      BY <3>2, <3>3, <3>4
  <2> QED
    BY <2>1, <2>2, <2>3 DEF MainPlaces
<1>2. Spec => []LastInv
  BY LastInit, LastStep, PTL DEF Spec
<1>3. LastInv => SpendsInv
  BY DEF LastInv, DigitsInv
<1> QED
  BY <1>1, <1>2, <1>3, MainPlacesInit, MainPlacesStep, PTL DEF Spec

-----------------------------------------------------------------------------
(* That the waiting ends: every step leaves less to be done.               *)

\* The work of a thread, and that of a main thread, is a natural number.
LEMMA ThreadWorkIs ==
    ASSUME SpendsInv, NEW p \in Parties, NEW t \in Threads
    PROVE  ThreadWork(p, t) \in Nat
<1>1. ThreadSpends(p, t)
  BY DEF SpendsInv
<1>2. op[p][t] \in 1 .. 5 /\ level[p][t] \in Nat \ {0}
  BY <1>1 DEF ThreadSpends
<1>3. Parts(level[p][t]) \in Nat \ {0}
  BY <1>2, PartsBounds
<1>4. ThreadPlaces[tpc[p][t]] \in Nat
  BY <1>1 DEF ThreadSpends, ThreadPlaces
<1> QED
  BY <1>2, <1>3, <1>4 DEF ThreadWork

LEMMA MainWorkIs ==
    ASSUME SpendsInv, MainPlaces, NEW p \in Parties
    PROVE  MainWork(p) \in Nat
<1>1. op[p][Main] \in 1 .. 5
  BY DEF SpendsInv, MainSpends
<1>2. MainSteps[pc[p]] \in Nat
  BY DEF MainPlaces, MainSteps
<1> QED
  BY <1>1, <1>2 DEF MainWork

WorkTyped ==
    \A p \in Parties : MainWork(p) \in Nat /\ \A t \in Threads : ThreadWork(p, t) \in Nat

LEMMA WorkIs == WorkTyped => Work \in Nat
<1> SUFFICES ASSUME WorkTyped PROVE Work \in Nat
  OBVIOUS
<1>1. 0 \in Parties /\ 1 \in Parties /\ 0 \in Threads /\ 1 \in Threads
  BY DEF Parties, Threads
<1>2. \A p \in Parties : PartyWork(p) \in Nat
  BY <1>1 DEF WorkTyped, PartyWork
<1> QED
  BY <1>1, <1>2 DEF Work

\* Nobody's work grows, and somebody's shrinks.
Shrinks ==
    /\ \A p \in Parties :
         /\ MainWork(p)' <= MainWork(p)
         /\ \A t \in Threads : ThreadWork(p, t)' <= ThreadWork(p, t)
    /\ \E p \in Parties :
         \/ MainWork(p)' < MainWork(p)
         \/ \E t \in Threads : ThreadWork(p, t)' < ThreadWork(p, t)

LEMMA ShrinksLess ==
    ASSUME WorkTyped, WorkTyped', Shrinks
    PROVE  Work' < Work
<1>1. 0 \in Parties /\ 1 \in Parties /\ 0 \in Threads /\ 1 \in Threads
  BY DEF Parties, Threads
<1>2. \A p \in Parties : /\ MainWork(p) \in Nat /\ MainWork(p)' \in Nat
                         /\ ThreadWork(p, 0) \in Nat /\ ThreadWork(p, 0)' \in Nat
                         /\ ThreadWork(p, 1) \in Nat /\ ThreadWork(p, 1)' \in Nat
  BY <1>1 DEF WorkTyped
<1>3. \A p \in Parties : PartyWork(p)' <= PartyWork(p)
  BY <1>1, <1>2 DEF Shrinks, PartyWork
<1>4. \E p \in Parties : PartyWork(p)' < PartyWork(p)
  <2>1. PICK p \in Parties : \/ MainWork(p)' < MainWork(p)
                             \/ \E t \in Threads : ThreadWork(p, t)' < ThreadWork(p, t)
    BY DEF Shrinks
  <2>2. /\ MainWork(p)' <= MainWork(p)
        /\ ThreadWork(p, 0)' <= ThreadWork(p, 0) /\ ThreadWork(p, 1)' <= ThreadWork(p, 1)
    BY <1>1 DEF Shrinks
  <2>3. \A t \in Threads : t = 0 \/ t = 1
    BY DEF Threads
  <2> QED
    BY <1>2, <2>1, <2>2, <2>3 DEF PartyWork
<1>5. \A p \in Parties : p = 0 \/ p = 1
  BY DEF Parties
<1>6. \A p \in Parties : PartyWork(p) \in Int /\ PartyWork(p)' \in Int
  BY <1>2 DEF PartyWork
<1> QED
  BY <1>1, <1>3, <1>4, <1>5, <1>6 DEF Work

\* What neither moves nor is joined stays as it is.
LEMMA ThreadWorkKept ==
    ASSUME NEW p, NEW t,
           level'[p][t] = level[p][t], op'[p][t] = op[p][t], tpc'[p][t] = tpc[p][t]
    PROVE  ThreadWork(p, t)' = ThreadWork(p, t)
BY DEF ThreadWork, Parts, D

LEMMA MainWorkKept ==
    ASSUME NEW p, op'[p][Main] = op[p][Main], pc'[p] = pc[p]
    PROVE  MainWork(p)' = MainWork(p)
BY DEF MainWork

\* A thread, or the main thread, comes to a later place.
LEMMA ThreadAtLater ==
    ASSUME SpendsInv, NEW p \in Parties, NEW t \in Threads,
           level' = level, op' = op, ThreadPlaces[tpc'[p][t]] < ThreadPlaces[tpc[p][t]],
           ThreadPlaces[tpc'[p][t]] \in Nat, ThreadPlaces[tpc[p][t]] \in Nat
    PROVE  ThreadWork(p, t)' < ThreadWork(p, t)
<1>1. op[p][t] \in 1 .. 5 /\ level[p][t] \in Nat \ {0}
  BY DEF SpendsInv, ThreadSpends
<1>2. Parts(level[p][t]) \in Nat
  BY <1>1, PartsBounds
<1>3. Parts(level'[p][t]) = Parts(level[p][t])
  BY DEF Parts, D
<1> DEFINE n == Parts(level[p][t])
           o == op[p][t]
           x == ThreadPlaces[tpc[p][t]]
           y == ThreadPlaces[tpc'[p][t]]
<1>4. ThreadWork(p, t) = 5 * n - o + x /\ ThreadWork(p, t)' = 5 * n - o + y
  BY <1>3 DEF ThreadWork, ThreadPlaces, Parts, D
<1>5. n \in Nat /\ o \in Nat /\ x \in Nat /\ y \in Nat /\ y < x
  BY <1>1, <1>2
<1> HIDE DEF n, o, x, y
<1> QED
  BY <1>4, <1>5

LEMMA MainAtLater ==
    ASSUME SpendsInv, NEW p \in Parties,
           op' = op, MainSteps[pc'[p]] < MainSteps[pc[p]],
           MainSteps[pc'[p]] \in Nat, MainSteps[pc[p]] \in Nat
    PROVE  MainWork(p)' < MainWork(p)
<1>1. op[p][Main] \in 1 .. 5
  BY DEF SpendsInv, MainSpends
<1>2. MainWork(p)' = MainSteps[pc'[p]] - op[p][Main] + 5
  BY DEF MainWork, MainSteps
<1> QED
  BY <1>1, <1>2 DEF MainWork

\* The places of some threads, or of main threads, change and nothing else that counts.
LEMMA ShrinksByPlaces ==
    ASSUME SpendsInv, level' = level, op' = op,
           \A p \in Parties, t \in Threads :
             \/ tpc'[p][t] = tpc[p][t]
             \/ /\ ThreadPlaces[tpc'[p][t]] < ThreadPlaces[tpc[p][t]]
                /\ ThreadPlaces[tpc'[p][t]] \in Nat /\ ThreadPlaces[tpc[p][t]] \in Nat,
           \A p \in Parties :
             \/ pc'[p] = pc[p]
             \/ /\ MainSteps[pc'[p]] < MainSteps[pc[p]]
                /\ MainSteps[pc'[p]] \in Nat /\ MainSteps[pc[p]] \in Nat,
           \E p \in Parties : \/ pc'[p] # pc[p]
                              \/ \E t \in Threads : tpc'[p][t] # tpc[p][t],
           WorkTyped, WorkTyped'
    PROVE  Shrinks
<1>1. ASSUME NEW p \in Parties, NEW t \in Threads
      PROVE  ThreadWork(p, t)' = ThreadWork(p, t) \/ ThreadWork(p, t)' < ThreadWork(p, t)
  BY ThreadWorkKept, ThreadAtLater
<1>2. ASSUME NEW p \in Parties
      PROVE  MainWork(p)' = MainWork(p) \/ MainWork(p)' < MainWork(p)
  BY MainWorkKept, MainAtLater
<1>3. \A p \in Parties :
        /\ MainWork(p)' <= MainWork(p)
        /\ \A t \in Threads : ThreadWork(p, t)' <= ThreadWork(p, t)
  BY <1>1, <1>2 DEF WorkTyped
<1>4. PICK p \in Parties : pc'[p] # pc[p] \/ \E t \in Threads : tpc'[p][t] # tpc[p][t]
  OBVIOUS
<1>5. CASE pc'[p] # pc[p]
  <2>1. MainWork(p)' < MainWork(p)
    BY <1>5, MainAtLater
  <2> QED
    BY <1>3, <2>1 DEF Shrinks
<1>6. ASSUME NEW t \in Threads, tpc'[p][t] # tpc[p][t] PROVE Shrinks
  <2>1. ThreadWork(p, t)' < ThreadWork(p, t)
    BY <1>6, ThreadAtLater
  <2> QED
    BY <1>3, <2>1 DEF Shrinks
<1> QED
  BY <1>4, <1>5, <1>6

LEMMA ShrinksByMain ==
    ASSUME SpendsInv, WorkTyped, WorkTyped',
           MainTriples \/ \E p \in Parties : Join(p) \/ Return(p) \/ Launch(p)
    PROVE  Shrinks
<1>1. Table(tpc, Parties, Threads) /\ pc = [p \in Parties |-> pc[p]]
  BY DEF SpendsInv, Shapes
<1>2. level' = level /\ op' = op
  BY DEF MainTriples, Join, Return, Launch, circuit
<1>3. CASE MainTriples
  <2>1. /\ \A p \in Parties : pc[p] = "triple" /\ pc'[p] = "launch"
        /\ tpc' = tpc /\ 0 \in Parties
    BY <1>3 DEF MainTriples, Parties
  <2>2. MainSteps["launch"] = 3 /\ MainSteps["triple"] = 4
    BY DEF MainSteps
  <2> QED
    BY <1>2, <2>1, <2>2, ShrinksByPlaces
<1>4. ASSUME NEW p \in Parties, Join(p) \/ Return(p) PROVE Shrinks
  <2>1. /\ tpc' = tpc /\ \A q \in Parties : q # p => pc'[q] = pc[q]
        /\ (pc[p] = "threads" /\ pc'[p] = "final") \/ (pc[p] = "final" /\ pc'[p] = "returned")
    BY <1>1, <1>4 DEF Join, Return
  <2>2. MainSteps["threads"] = 2 /\ MainSteps["final"] = 1 /\ MainSteps["returned"] = 0
    BY DEF MainSteps
  <2> QED
    BY <1>2, <2>1, <2>2, ShrinksByPlaces
<1>5. ASSUME NEW p \in Parties, Launch(p) PROVE Shrinks
  <2>1. /\ pc[p] = "launch" /\ pc' = [pc EXCEPT ![p] = "threads"]
        /\ tpc' = SetRow(tpc, p, Threads, "leaf")
    BY <1>5 DEF Launch, SetRow
  <2>2. \A q \in Parties, t \in Threads : tpc'[q][t] = IF q = p THEN "leaf" ELSE tpc[q][t]
    <3>1. \A q \in Parties, t \in Threads :
            SetRow(tpc, p, Threads, "leaf")[q][t] = IF q = p THEN "leaf" ELSE tpc[q][t]
      BY <1>1, TableRow
    <3> QED
      BY <2>1, <3>1
  <2>3. \A q \in Parties : pc'[q] = IF q = p THEN "threads" ELSE pc[q]
    BY <1>1, <2>1
  <2>4. \A t \in Threads : tpc[p][t] = "none"
    BY <2>1 DEF SpendsInv, MainSpends
  <2>5. /\ MainSteps["launch"] = 3 /\ MainSteps["threads"] = 2
        /\ ThreadPlaces["none"] = 4 /\ ThreadPlaces["leaf"] = 3
    BY DEF MainSteps, ThreadPlaces
  <2> QED
    BY <1>2, <2>1, <2>2, <2>3, <2>4, <2>5, ShrinksByPlaces
<1> QED
  BY <1>3, <1>4, <1>5

LEMMA ShrinksByThread ==
    ASSUME SpendsInv, WorkTyped, WorkTyped', NEW t \in Threads,
           LeafOTs(t) \/ ThreadTriples(t) \/ \E p \in Parties : FinishThread(p, t)
    PROVE  Shrinks
<1>1. Table(tpc, Parties, Threads)
  BY DEF SpendsInv, Shapes
<1>2. level' = level /\ op' = op /\ pc' = pc
  BY DEF LeafOTs, ThreadTriples, FinishThread, circuit
<1>3. /\ ThreadPlaces["leaf"] = 3 /\ ThreadPlaces["triples"] = 2
      /\ ThreadPlaces["level"] = 1 /\ ThreadPlaces["done"] = 0 /\ 0 \in Parties
  BY DEF ThreadPlaces, Parties
<1>4. ASSUME NEW u, tpc' = SetColumn(tpc, Parties, t, u)
      PROVE  \A p \in Parties, v \in Threads : tpc'[p][v] = IF v = t THEN u ELSE tpc[p][v]
  <2>1. \A p \in Parties, v \in Threads :
          SetColumn(tpc, Parties, t, u)[p][v] = IF v = t THEN u ELSE tpc[p][v]
    BY <1>1, TableColumn
  <2> QED
    BY <1>4, <2>1
<1>5. CASE LeafOTs(t)
  <2>1. tpc' = SetColumn(tpc, Parties, t, "triples") /\ \A p \in Parties : tpc[p][t] = "leaf"
    BY <1>5 DEF LeafOTs, SetColumn
  <2>2. \A p \in Parties, v \in Threads : tpc'[p][v] = IF v = t THEN "triples" ELSE tpc[p][v]
    BY <1>4, <2>1
  <2> QED
    BY <1>2, <1>3, <2>1, <2>2, ShrinksByPlaces
<1>6. CASE ThreadTriples(t)
  <2>1. tpc' = SetColumn(tpc, Parties, t, "level") /\ \A p \in Parties : tpc[p][t] = "triples"
    BY <1>6 DEF ThreadTriples, SetColumn
  <2>2. \A p \in Parties, v \in Threads : tpc'[p][v] = IF v = t THEN "level" ELSE tpc[p][v]
    BY <1>4, <2>1
  <2> QED
    BY <1>2, <1>3, <2>1, <2>2, ShrinksByPlaces
<1>7. ASSUME NEW p \in Parties, FinishThread(p, t) PROVE Shrinks
  <2>1. tpc' = SetCell(tpc, p, t, "done") /\ tpc[p][t] = "level"
    BY <1>7 DEF FinishThread, SetCell
  <2>2. \A q \in Parties, v \in Threads :
          tpc'[q][v] = IF q = p /\ v = t THEN "done" ELSE tpc[q][v]
    <3>1. \A q \in Parties, v \in Threads :
            SetCell(tpc, p, t, "done")[q][v] = IF q = p /\ v = t THEN "done" ELSE tpc[q][v]
      BY <1>1, TableCell
    <3> QED
      BY <2>1, <3>1
  <2> QED
    BY <1>2, <1>3, <2>1, <2>2, ShrinksByPlaces
<1> QED
  BY <1>5, <1>6, <1>7

\* One worker makes a transfer, or goes on to the next level.
LEMMA ShrinksAtOne ==
    ASSUME WorkTyped, WorkTyped', NEW p \in Parties, NEW w \in Workers, pc' = pc, tpc' = tpc,
           \A q \in Parties, v \in Workers :
             q # p \/ v # w => op'[q][v] = op[q][v],
           \A q \in Parties, t \in Threads :
             q # p \/ t # w => level'[q][t] = level[q][t],
           w = Main => MainWork(p)' < MainWork(p),
           w \in Threads => ThreadWork(p, w)' < ThreadWork(p, w)
    PROVE  Shrinks
<1>1. /\ Main \in Workers /\ (w = Main \/ w \in Threads)
      /\ \A t \in Threads : t \in Workers /\ t # Main
  BY DEF Workers, Threads, Main
<1>2. ASSUME NEW q \in Parties, q # p \/ w # Main PROVE MainWork(q)' = MainWork(q)
  BY <1>1, <1>2, MainWorkKept
<1>3. ASSUME NEW q \in Parties, NEW t \in Threads, q # p \/ t # w
      PROVE  ThreadWork(q, t)' = ThreadWork(q, t)
  BY <1>1, <1>3, ThreadWorkKept
<1>4. ASSUME NEW q \in Parties
      PROVE  /\ MainWork(q)' <= MainWork(q)
             /\ \A t \in Threads : ThreadWork(q, t)' <= ThreadWork(q, t)
  <2>1. /\ MainWork(q) \in Nat /\ MainWork(q)' \in Nat
        /\ \A t \in Threads : ThreadWork(q, t) \in Nat /\ ThreadWork(q, t)' \in Nat
    BY DEF WorkTyped
  <2>2. MainWork(q)' = MainWork(q) \/ MainWork(q)' < MainWork(q)
    BY <1>1, <1>2
  <2>3. ASSUME NEW t \in Threads
        PROVE  ThreadWork(q, t)' = ThreadWork(q, t) \/ ThreadWork(q, t)' < ThreadWork(q, t)
    BY <1>3
  <2> QED
    BY <2>1, <2>2, <2>3
<1> QED
  BY <1>1, <1>4 DEF Shrinks

LEMMA ShrinksByTransfer ==
    ASSUME SpendsInv, MainPlaces, WorkTyped, WorkTyped', NEW p \in Parties, NEW w \in Workers,
           SendShare(p, w) \/ ReceiveShare(p, w)
    PROVE  Shrinks
<1> DEFINE next == op[p][w] + 1
<1>1. op' = SetCell(op, p, w, next) /\ level' = level /\ pc' = pc /\ tpc' = tpc
  BY DEF SendShare, ReceiveShare, SetCell
<1>2. Table(op, Parties, Workers)
  BY DEF SpendsInv, Shapes
<1>3. op[p][w] \in 1 .. 5
  BY DEF SpendsInv, ThreadSpends, MainSpends, Workers
<1> HIDE DEF next
<1>4. \A q \in Parties, v \in Workers : op'[q][v] = IF q = p /\ v = w THEN next ELSE op[q][v]
  <2>1. \A q \in Parties, v \in Workers :
          SetCell(op, p, w, next)[q][v] = IF q = p /\ v = w THEN next ELSE op[q][v]
    BY <1>2, TableCell
  <2> QED
    BY <1>1, <2>1, Zenon
<1>5. op'[p][w] = op[p][w] + 1
  BY <1>4 DEF next
<1>6. CASE w = Main
  <2>1. MainWork(p) \in Nat
    BY DEF WorkTyped
  <2>2. MainSteps[pc[p]] \in Nat
    BY DEF MainPlaces, MainSteps
  <2>3. MainWork(p)' < MainWork(p)
    <3> DEFINE m == MainSteps[pc[p]]
    <3>1. MainWork(p) = m - op[p][Main] + 5 /\ MainWork(p)' = m - (op[p][Main] + 1) + 5
      BY <1>1, <1>5, <1>6 DEF MainWork, MainSteps
    <3> QED
      BY <1>3, <1>6, <2>2, <3>1
  <2>4. w \notin Threads
    BY <1>6 DEF Main, Threads
  <2> QED
    BY <1>1, <1>4, <2>3, <2>4, ShrinksAtOne
<1>7. CASE w \in Threads
  <2>1. level[p][w] \in Nat \ {0} /\ tpc[p][w] \in {"none", "leaf", "triples", "level", "done"}
    BY <1>7 DEF SpendsInv, ThreadSpends
  <2>2. Parts(level[p][w]) \in Nat /\ ThreadPlaces[tpc[p][w]] \in Nat
    BY <2>1, PartsBounds DEF ThreadPlaces
  <2>3. ThreadWork(p, w)' < ThreadWork(p, w)
    <3> DEFINE n == Parts(level[p][w])
               x == ThreadPlaces[tpc[p][w]]
    <3>1. ThreadWork(p, w) = 5 * n - op[p][w] + x /\ ThreadWork(p, w)' = 5 * n - (op[p][w] + 1) + x
      BY <1>1, <1>5 DEF ThreadWork, ThreadPlaces, Parts, D
    <3>2. n \in Nat /\ x \in Nat
      BY <2>2
    <3> HIDE DEF n, x
    <3> QED
      BY <1>3, <3>1, <3>2
  <2>4. w # Main
    BY <1>7 DEF Main, Threads
  <2> QED
    BY <1>1, <1>4, <2>3, <2>4, ShrinksAtOne
<1> QED
  BY <1>6, <1>7 DEF Workers

\* A level makes two parts into one, at least once, which outweighs the transfers of the next.
LEMMA ShrinksByLevel ==
    ASSUME SpendsInv, WorkTyped, WorkTyped', NEW p \in Parties, NEW t \in Threads,
           FinishLevel(p, t)
    PROVE  Shrinks
<1> DEFINE next == 2 * level[p][t]
<1>1. /\ op' = SetCell(op, p, t, 1) /\ level' = SetCell(level, p, t, next)
      /\ pc' = pc /\ tpc' = tpc /\ op[p][t] = 5 /\ t \in Workers /\ t # Main
      /\ level[p][t] < D
  <2>1. t \in Workers /\ t # Main
    BY DEF Workers, Threads, Main
  <2> QED
    BY <2>1 DEF FinishLevel, Exchanging, SetCell, D
<1>2. Table(op, Parties, Workers) /\ Table(level, Parties, Threads)
  BY DEF SpendsInv, Shapes
<1>3. /\ level[p][t] \in Nat \ {0}
      /\ tpc[p][t] \in {"none", "leaf", "triples", "level", "done"}
  BY DEF SpendsInv, ThreadSpends
<1> HIDE DEF next
<1>4. \A q \in Parties, v \in Workers : op'[q][v] = IF q = p /\ v = t THEN 1 ELSE op[q][v]
  <2>1. \A q \in Parties, v \in Workers :
          SetCell(op, p, t, 1)[q][v] = IF q = p /\ v = t THEN 1 ELSE op[q][v]
    BY <1>1, <1>2, TableCell
  <2> QED
    BY <1>1, <2>1, Zenon
<1>5. \A q \in Parties, v \in Threads :
        level'[q][v] = IF q = p /\ v = t THEN next ELSE level[q][v]
  <2>1. \A q \in Parties, v \in Threads :
          SetCell(level, p, t, next)[q][v] = IF q = p /\ v = t THEN next ELSE level[q][v]
    BY <1>2, TableCell
  <2> QED
    BY <1>1, <2>1, Zenon
<1>6. ThreadWork(p, t)' < ThreadWork(p, t)
  <2> DEFINE i == level[p][t]
             x == ThreadPlaces[tpc[p][t]]
  <2>1. op'[p][t] = 1 /\ level'[p][t] = 2 * i
    BY <1>1, <1>4, <1>5 DEF next
  <2>2. ThreadWork(p, t) = 5 * Parts(i) - 5 + x /\ ThreadWork(p, t)' = 5 * Parts(2 * i) - 1 + x
    BY <1>1, <2>1 DEF ThreadWork, ThreadPlaces, Parts, D
  <2>3. x \in Nat
    BY <1>3 DEF ThreadPlaces
  <2>4. Parts(i) \in Nat
    BY <1>3, PartsBounds
  <2>5. /\ NumAnds(i) \in Nat /\ Parts(2 * i) = Parts(i) - NumAnds(i)
        /\ 0 < NumAnds(i) <=> (2 * 0 + 1) * i < D
    BY <1>3, LevelHalves
  <2>6. (2 * 0 + 1) * i < D
    BY <1>1, <1>3
  <2> HIDE DEF i, x
  <2> QED
    BY <2>2, <2>3, <2>4, <2>5, <2>6
<1> QED
  BY <1>1, <1>4, <1>5, <1>6, ShrinksAtOne

\* Every call of perform_block_equality comes to an end if somebody always goes on: the work
\* left, a natural number, is less after each step.
THEOREM CircuitWorkRunsOut == Spec => [](Work \in Nat) /\ [][Work' < Work]_vars
<1>1. SpendsInv /\ MainPlaces => WorkTyped
  BY ThreadWorkIs, MainWorkIs DEF WorkTyped
<1>2. SpendsInv /\ MainPlaces /\ WorkTyped /\ WorkTyped' /\ [Next]_vars => [Work' < Work]_vars
  <2> SUFFICES ASSUME SpendsInv, MainPlaces, WorkTyped, WorkTyped', Next PROVE Work' < Work
    OBVIOUS
  <2>1. CASE MainTriples
    BY <2>1, ShrinksByMain, ShrinksLess
  <2>2. ASSUME NEW t \in Threads, LeafOTs(t) \/ ThreadTriples(t) PROVE Work' < Work
    BY <2>2, ShrinksByThread, ShrinksLess
  <2>3. ASSUME NEW p \in Parties, Launch(p) \/ Join(p) \/ Return(p) PROVE Work' < Work
    BY <2>3, ShrinksByMain, ShrinksLess
  <2>4. ASSUME NEW p \in Parties, NEW w \in Workers, SendShare(p, w) \/ ReceiveShare(p, w)
        PROVE  Work' < Work
    BY <2>4, ShrinksByTransfer, ShrinksLess
  <2>5. ASSUME NEW p \in Parties, NEW t \in Threads, FinishLevel(p, t) \/ FinishThread(p, t)
        PROVE  Work' < Work
    BY <2>5, ShrinksByLevel, ShrinksByThread, ShrinksLess
  <2> QED
    BY <2>1, <2>2, <2>3, <2>4, <2>5 DEF Next
<1>3. Spec => []SpendsInv
  BY SpendsInit, SpendsStep, PTL DEF Spec
<1>4. Spec => [](SpendsInv /\ MainPlaces)
  BY <1>3, MainPlacesInit, MainPlacesStep, PTL DEF Spec
<1> QED
  BY <1>1, <1>2, <1>4, WorkIs, PTL DEF Spec
=============================================================================
