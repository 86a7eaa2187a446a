------------------------ MODULE TriangleCount_proofs ------------------------
(***************************************************************************)
(* For every graph, every order of the neighbor files and every MAX_DEGREE *)
(* that is at least the degree of X: no word is decoded twice, a word      *)
(* stands in row i and column j iff the neighbors i and j of X are joined, *)
(* and what is printed is the number of triangles at X, less one for every *)
(* two words lost to the stash.                                            *)
(*                                                                         *)
(* The argument: the decoded set is at any time a whole number of rows, as *)
(* Row gives them; the word of n at m names n, and determines m because    *)
(* the k-th word of n goes to one neighbor.  So the words are as many as   *)
(* the ordered pairs of joined neighbors, and these are two to a triangle. *)
(***************************************************************************)
EXTENDS TriangleCount, FiniteSetTheorems, TLAPS

-----------------------------------------------------------------------------
(* Arithmetic                                                              *)

\* Unsigned subtraction: a negative difference wraps around.
LEMMA WrapAround ==
    ASSUME NEW W \in Nat \ {0}, NEW a \in Int, -W < a, a < 0
    PROVE  a % W = a + W
OBVIOUS

LEMMA NoWrap ==
    ASSUME NEW W \in Nat \ {0}, NEW a \in Int, 0 <= a, a < W
    PROVE  a % W = a
OBVIOUS

\* r rows of d make r again.
LEMMA WholeQuotient ==
    ASSUME NEW d \in Nat \ {0}, NEW r \in Nat
    PROVE  (r * d) \div d = r
OBVIOUS

\* A position in a table of rows of d is in one row, at one column of it.
LEMMA Position ==
    ASSUME NEW d \in Nat \ {0}, NEW r \in Nat, NEW p \in 1 .. r * d
    PROVE  \E i \in 1 .. r, j \in 1 .. d : p = (i - 1) * d + j
<1> DEFINE q == (p - 1) \div d
           m == (p - 1) % d
<1>1. p - 1 \in Nat /\ r * d \in Nat /\ p <= r * d
  OBVIOUS
<1>2. q \in Int /\ m \in 0 .. d - 1 /\ p - 1 = d * q + m
  BY <1>1
<1>3. q >= 0
  <2> SUFFICES ASSUME q <= -1 PROVE FALSE
    BY <1>2
  <2>1. d * q <= -d
    BY <1>2
  <2> QED
    BY <1>1, <1>2, <2>1
<1>4. q < r
  <2> SUFFICES ASSUME q >= r PROVE FALSE
    BY <1>2
  <2>1. d * q >= d * r
    BY <1>2
  <2> QED
    BY <1>1, <1>2, <2>1
<1>5. p = ((q + 1) - 1) * d + (m + 1)
  BY <1>1, <1>2
<1>6. q + 1 \in 1 .. r /\ m + 1 \in 1 .. d
  BY <1>2, <1>3, <1>4
<1> HIDE DEF q, m
<1> QED
  BY <1>5, <1>6

\* And the other way round.
LEMMA PositionInRange ==
    ASSUME NEW d \in Nat \ {0}, NEW r \in Nat, NEW i \in 1 .. r, NEW j \in 1 .. d
    PROVE  /\ (i - 1) * d + j \in 1 .. r * d
           /\ i * d = (i - 1) * d + d
<1>1. (i - 1) * d >= 0 /\ (i - 1) * d \in Int
  OBVIOUS
<1>2. i * d <= r * d /\ i * d \in Int /\ r * d \in Int
  OBVIOUS
<1>3. i * d = (i - 1) * d + d
  OBVIOUS
<1> QED
  BY <1>1, <1>2, <1>3

-----------------------------------------------------------------------------
(* The files                                                               *)

Graphs == {g \in [Vertices -> SUBSET Vertices] :
             \A v, w \in Vertices : w \in g[v] => v \in g[w] /\ v # w}

\* No list is longer than the graph is large.
LEMMA ListSize ==
    ASSUME NEW S \in SUBSET Vertices
    PROVE  IsFiniteSet(S) /\ Cardinality(S) \in Nat /\ Cardinality(S) <= NumVertex
<1>1. IsFiniteSet(Vertices) /\ Cardinality(Vertices) = NumVertex
  BY FS_Interval, SizesAssumption DEF Vertices
<1> QED
  BY <1>1, FS_Subset, FS_CardinalityType

\* A file holds every neighbor, once.
LEMMA FileHoldsAll ==
    ASSUME NEW S \in SUBSET Vertices, NEW file \in SetToSeqs(S)
    PROVE  /\ DOMAIN file = 1 .. Cardinality(S)
           /\ Len(file) = Cardinality(S)
           /\ \A k \in DOMAIN file : file[k] \in S
           /\ \A k, l \in DOMAIN file : file[k] = file[l] => k = l
           /\ \A m \in S : \E k \in DOMAIN file : file[k] = m
<1> DEFINE D == 1 .. Cardinality(S)
<1>1. IsFiniteSet(S) /\ Cardinality(S) \in Nat
  BY ListSize
<1>2. file \in [D -> S] /\ \A k, l \in D : k # l => file[k] # file[l]
  BY DEF SetToSeqs
<1>3. Cardinality(D) = Cardinality(S)
  BY <1>1, FS_Interval
<1>4. file \in Injection(D, S)
  BY <1>2 DEF Injection, IsInjective
<1>5. file \in Surjection(D, S)
  BY <1>1, <1>3, <1>4, FS_Injection
<1>6. Len(file) = Cardinality(S)
  BY <1>1, <1>2
<1> QED
  BY <1>2, <1>5, <1>6 DEF Surjection

\* max(uint64_t(0), MAX_DEGREE - num_neighbors) is small only when nothing wraps.
LEMMA EnoughWords ==
    ASSUME maxDegree \in MaxDegrees, graph \in Graphs, NEW n \in Vertices,
           NumAdd(n) <= maxDegree
    PROVE  Cardinality(graph[n]) <= maxDegree
<1> DEFINE c == Cardinality(graph[n])
<1>1. c \in Nat /\ c <= NumVertex
  BY ListSize DEF Graphs
<1>2. maxDegree \in Nat \ {0} /\ WordSize \in Nat \ {0} /\ NumVertex \in Nat
        /\ WordSize > 2 * NumVertex
  BY SizesAssumption
<1> SUFFICES ASSUME c > maxDegree PROVE FALSE
  BY <1>1, <1>2
<1>3. maxDegree - c \in Int /\ -WordSize < maxDegree - c /\ maxDegree - c < 0
  BY <1>1, <1>2
<1>4. (maxDegree - c) % WordSize = maxDegree - c + WordSize
  BY <1>2, <1>3, WrapAround
<1> QED
  BY <1>1, <1>2, <1>4 DEF NumAdd

-----------------------------------------------------------------------------
(* The inductive invariant                                                 *)

FilesTrue ==
    /\ maxDegree \in MaxDegrees /\ graph \in Graphs
    /\ neighbors \in SetToSeqs(graph[X])
    /\ Cardinality(graph[X]) \in 1 .. maxDegree

\* An OKVS opens at each of its keys to a word of its own.
WordsTrue ==
    /\ DOMAIN okvs = graph[X]
    /\ \A n \in graph[X] : okvs[n] # None =>
         /\ Cardinality(graph[n]) <= maxDegree
         /\ okvs[n] \in [graph[n] -> {n} \X (1 .. maxDegree)]
         /\ \A a, b \in graph[n] : okvs[n][a] = okvs[n][b] => a = b

\* The set is r rows, and decoding begins when all OKVSs are there.
Rows(r) ==
    /\ Len(set) = r * maxDegree
    /\ r > 0 => Collected
    /\ \A i \in 1 .. r, j \in 1 .. maxDegree :
         set[(i - 1) * maxDegree + j] = Row(i)[j]

Blocks == SenderWords \cup {None}

WholeRows == set \in Seq(Blocks) /\ \E r \in 0 .. Len(neighbors) : Rows(r)

CountedAll ==
    printed # None =>
      /\ Decoded
      /\ lost \subseteq ToSet(set) \ {None}
      /\ printed = Half(Cardinality((ToSet(set) \cap SenderWords) \ lost))

IInv == FilesTrue /\ WordsTrue /\ WholeRows /\ CountedAll

\* What FilesTrue says of the list of X.
LEMMA NeighborsOfX ==
    ASSUME FilesTrue
    PROVE  /\ maxDegree \in Nat \ {0}
           /\ Len(neighbors) \in Nat \ {0} /\ Len(neighbors) <= maxDegree
           /\ DOMAIN neighbors = 1 .. Len(neighbors)
           /\ graph[X] \subseteq Vertices
           /\ \A i \in DOMAIN neighbors : neighbors[i] \in graph[X]
           /\ \A i, j \in DOMAIN neighbors : neighbors[i] = neighbors[j] => i = j
           /\ \A n \in graph[X] : \E i \in DOMAIN neighbors : neighbors[i] = n
<1>1. maxDegree \in Nat \ {0}
  BY SizesAssumption DEF FilesTrue
<1>2. graph[X] \in SUBSET Vertices
  BY QueryAssumption DEF FilesTrue, Graphs
<1>3. neighbors \in SetToSeqs(graph[X]) /\ Cardinality(graph[X]) \in 1 .. maxDegree
  BY DEF FilesTrue
<1> HIDE DEF FilesTrue
<1>4. /\ DOMAIN neighbors = 1 .. Cardinality(graph[X])
      /\ Len(neighbors) = Cardinality(graph[X])
      /\ \A k \in DOMAIN neighbors : neighbors[k] \in graph[X]
      /\ \A k, l \in DOMAIN neighbors : neighbors[k] = neighbors[l] => k = l
      /\ \A m \in graph[X] : \E k \in DOMAIN neighbors : neighbors[k] = m
  BY <1>2, <1>3, FileHoldsAll
<1> QED
  BY <1>1, <1>2, <1>3, <1>4

\* A row, when the OKVSs are there: a word where the neighbors are joined.
LEMMA RowValue ==
    ASSUME FilesTrue, WordsTrue, Collected,
           NEW i \in 1 .. Len(neighbors), NEW j \in 1 .. maxDegree
    PROVE  /\ Row(i)[j] \in Blocks
           /\ Row(i)[j] # None <=>
                j \in 1 .. Len(neighbors) /\ neighbors[j] \in graph[neighbors[i]]
           /\ Row(i)[j] # None => Row(i)[j] = okvs[neighbors[i]][neighbors[j]]
<1> DEFINE n == neighbors[i]
<1>1. n \in graph[X] /\ n \in Vertices
  BY NeighborsOfX
<1>2. okvs[n] # None
  BY <1>1 DEF Collected
<1>3. okvs[n] \in [graph[n] -> {n} \X (1 .. maxDegree)]
  BY <1>1, <1>2 DEF WordsTrue
<1>4. Row(i)[j] = IF j <= Len(neighbors) /\ neighbors[j] \in graph[n]
                  THEN okvs[n][neighbors[j]] ELSE None
  BY <1>3 DEF Row
<1>5. maxDegree \in Nat /\ Len(neighbors) \in Nat
  BY NeighborsOfX
<1>6. CASE j <= Len(neighbors) /\ neighbors[j] \in graph[n]
  <2>1. okvs[n][neighbors[j]] \in {n} \X (1 .. maxDegree)
    BY <1>3, <1>6
  <2>2. okvs[n][neighbors[j]] \in Vertices \X Nat
    BY <1>1, <1>5, <2>1
  <2>3. okvs[n][neighbors[j]] # None
    BY <2>2, NoneAssumption
  <2>4. okvs[n][neighbors[j]] \in SenderWords
    BY <1>1, <2>1 DEF SenderWords
  <2>5. Row(i)[j] = okvs[n][neighbors[j]]
    BY <1>4, <1>6
  <2> QED
    BY <1>5, <1>6, <2>3, <2>4, <2>5 DEF Blocks
<1>7. CASE ~(j <= Len(neighbors) /\ neighbors[j] \in graph[n])
  <2>1. Row(i)[j] = None
    BY <1>4, <1>7
  <2> QED
    BY <1>5, <1>7, <2>1 DEF Blocks
<1> QED
  BY <1>6, <1>7

-----------------------------------------------------------------------------
(* It holds in every state                                                 *)

\* At the start nothing is decoded.
LEMMA InvariantInit == Init => IInv
<1> SUFFICES ASSUME Init PROVE IInv
  OBVIOUS
<1>1. FilesTrue
  BY DEF Init, FilesTrue, Graphs
<1>2. WordsTrue
  BY DEF Init, WordsTrue
<1>3. set = <<>> /\ printed = None
  BY DEF Init
<1>4. maxDegree \in Nat \ {0} /\ Len(neighbors) \in Nat
  BY <1>1, NeighborsOfX
<1>5. Rows(0)
  BY <1>3, <1>4 DEF Rows
<1>6. WholeRows
  BY <1>3, <1>4, <1>5 DEF WholeRows
<1> QED
  BY <1>1, <1>2, <1>3, <1>6 DEF IInv, CountedAll

\* The words of a file are words of n, one for each neighbor.
LEMMA WordsOfFile ==
    ASSUME NEW n, graph[n] \in SUBSET Vertices, NEW file \in SetToSeqs(graph[n]),
           maxDegree \in Nat, Cardinality(graph[n]) <= maxDegree
    PROVE  /\ WordsOf(n, file) \in [graph[n] -> {n} \X (1 .. maxDegree)]
           /\ \A a, b \in graph[n] :
                WordsOf(n, file)[a] = WordsOf(n, file)[b] => a = b
<1> DEFINE place(m) == CHOOSE k \in DOMAIN file : file[k] = m
<1>1. DOMAIN file = 1 .. Cardinality(graph[n]) /\ Cardinality(graph[n]) \in Nat
  BY FileHoldsAll, ListSize
<1>2. \A m \in graph[n] : place(m) \in DOMAIN file /\ file[place(m)] = m
  BY FileHoldsAll
<1>3. \A m \in graph[n] : place(m) \in 1 .. maxDegree
  BY <1>1, <1>2
<1>4. WordsOf(n, file) = [m \in graph[n] |-> <<n, place(m)>>]
  BY DEF WordsOf
<1> HIDE DEF place
<1>5. \A a, b \in graph[n] : <<n, place(a)>> = <<n, place(b)>> => a = b
  BY <1>2
<1> QED
  BY <1>3, <1>4, <1>5

\* A neighbor solves its OKVS while nothing is decoded yet.
LEMMA SolveKeeps ==
    ASSUME IInv, NEW n \in graph[X], Solve(n)
    PROVE  IInv'
<1>1. FilesTrue /\ WordsTrue /\ WholeRows /\ CountedAll
  BY DEF IInv
<1>2. UNCHANGED <<maxDegree, graph, neighbors, set, lost, printed>>
  BY DEF Solve
<1>3. n \in Vertices /\ maxDegree \in Nat \ {0} /\ Len(neighbors) \in Nat
  BY <1>1, NeighborsOfX
<1>4. FilesTrue'
  BY <1>1, <1>2 DEF FilesTrue, Graphs, Vertices
<1>5. WordsTrue'
  <2>1. CASE okvs' = okvs
    BY <1>1, <1>2, <2>1 DEF WordsTrue
  <2>2. ASSUME NumAdd(n) <= maxDegree, NEW file \in SetToSeqs(graph[n]),
               okvs' = [okvs EXCEPT ![n] = WordsOf(n, file)]
        PROVE  WordsTrue'
    <3>1. graph[n] \in SUBSET Vertices
      BY <1>1, <1>3 DEF FilesTrue, Graphs
    <3>2. maxDegree \in MaxDegrees /\ graph \in Graphs
      BY <1>1 DEF FilesTrue
    <3>3. Cardinality(graph[n]) <= maxDegree
      BY <1>3, <2>2, <3>2, EnoughWords
    <3>4. /\ WordsOf(n, file) \in [graph[n] -> {n} \X (1 .. maxDegree)]
          /\ \A a, b \in graph[n] :
               WordsOf(n, file)[a] = WordsOf(n, file)[b] => a = b
      BY <1>3, <3>1, <3>3, WordsOfFile
    <3>5. /\ DOMAIN okvs' = graph[X] /\ okvs'[n] = WordsOf(n, file)
          /\ \A m \in graph[X] \ {n} : okvs'[m] = okvs[m]
      BY <1>1, <2>2 DEF WordsTrue
    <3> QED
      BY <1>1, <1>2, <3>3, <3>4, <3>5 DEF WordsTrue
  <2> QED
    BY <2>1, <2>2 DEF Solve
<1>6. WholeRows'
  <2>1. ~Collected
    BY DEF Collected, Solve
  <2>2. PICK r \in 0 .. Len(neighbors) : Rows(r)
    BY <1>1 DEF WholeRows
  <2>3. r = 0
    BY <1>3, <2>1, <2>2 DEF Rows
  <2>4. Rows(0)'
    BY <1>2, <1>3, <2>2, <2>3 DEF Rows
  <2>5. (set \in Seq(Blocks))'
    BY <1>1, <1>2 DEF WholeRows, Blocks, SenderWords, Vertices
  <2> QED
    BY <1>2, <1>3, <2>4, <2>5 DEF WholeRows
<1>7. CountedAll'
  BY <1>1, <1>2 DEF CountedAll, Decoded, SenderWords, Vertices
<1> QED
  BY <1>4, <1>5, <1>6, <1>7 DEF IInv

\* The next row is put behind the rows that are there.
LEMMA DecodeKeeps ==
    ASSUME IInv, DecodeRow
    PROVE  IInv'
<1>1. FilesTrue /\ WordsTrue /\ WholeRows /\ CountedAll
  BY DEF IInv
<1>2. UNCHANGED <<maxDegree, graph, neighbors, okvs, lost, printed>>
  BY DEF DecodeRow
<1>3. maxDegree \in Nat \ {0} /\ Len(neighbors) \in Nat
  BY <1>1, NeighborsOfX
<1>4. Collected /\ Len(set) < Len(neighbors) * maxDegree
  BY DEF DecodeRow
<1>5. FilesTrue'
  BY <1>1, <1>2 DEF FilesTrue, Graphs, Vertices
<1>6. WordsTrue'
  BY <1>1, <1>2 DEF WordsTrue
<1>7. PICK r \in 0 .. Len(neighbors) : Rows(r)
  BY <1>1 DEF WholeRows
<1>8. set \in Seq(Blocks) /\ Len(set) = r * maxDegree
  BY <1>1, <1>7 DEF WholeRows, Rows
<1>9. r < Len(neighbors)
  BY <1>3, <1>4, <1>8
<1>10. Len(set) \div maxDegree + 1 = r + 1
  BY <1>3, <1>8, WholeQuotient
<1>11. set' = set \o Row(r + 1)
  BY <1>10 DEF DecodeRow
<1>12. Row(r + 1) \in Seq(Blocks) /\ Len(Row(r + 1)) = maxDegree
  <2>1. r + 1 \in 1 .. Len(neighbors)
    BY <1>3, <1>9
  <2>2. \A j \in 1 .. maxDegree : Row(r + 1)[j] \in Blocks
    BY <1>1, <1>4, <2>1, RowValue
  <2>3. DOMAIN Row(r + 1) = 1 .. maxDegree
         /\ Row(r + 1) = [j \in 1 .. maxDegree |-> Row(r + 1)[j]]
    BY DEF Row
  <2> HIDE DEF Row
  <2>4. Row(r + 1) \in [1 .. maxDegree -> Blocks]
    BY <2>2, <2>3
  <2> QED
    BY <1>3, <2>4
<1>13. Rows(r + 1)'
  <2>1. Len(set') = (r + 1) * maxDegree
    <3>1. \A s, t \in Seq(Blocks) : Len(s \o t) = Len(s) + Len(t)
      OBVIOUS
    <3>2. Len(set') = Len(set) + Len(Row(r + 1))
      BY <1>8, <1>11, <1>12, <3>1
    <3>3. (r + 1) * maxDegree = r * maxDegree + maxDegree
      BY <1>3
    <3> QED
      BY <1>8, <1>12, <3>2, <3>3
  <2>2. Collected'
    BY <1>2, <1>4 DEF Collected
  <2>3. \A i \in 1 .. r + 1, j \in 1 .. maxDegree :
          set'[(i - 1) * maxDegree + j] = Row(i)[j]
    <3> SUFFICES ASSUME NEW i \in 1 .. r + 1, NEW j \in 1 .. maxDegree
                 PROVE  set'[(i - 1) * maxDegree + j] = Row(i)[j]
      OBVIOUS
    <3>1. CASE i \in 1 .. r
      <4>1. (i - 1) * maxDegree + j \in 1 .. Len(set)
        BY <1>3, <1>8, <3>1, PositionInRange
      <4>2. set[(i - 1) * maxDegree + j] = Row(i)[j]
        BY <1>7, <3>1 DEF Rows
      <4> HIDE DEF Row
      <4> QED
        BY <1>8, <1>11, <1>12, <4>1, <4>2
    <3>2. CASE i = r + 1
      <4>1. (i - 1) * maxDegree + j = Len(set) + j
        BY <1>3, <1>8, <3>2
      <4> HIDE DEF Row
      <4> QED
        BY <1>3, <1>8, <1>11, <1>12, <3>2, <4>1
    <3> QED
      BY <3>1, <3>2
  <2>4. \A i : Row(i)' = Row(i)
    BY <1>2 DEF Row
  <2> QED
    BY <1>2, <2>1, <2>2, <2>3, <2>4 DEF Rows
<1>14. (set \in Seq(Blocks))'
  <2>1. set' \in Seq(Blocks)
    BY <1>8, <1>11, <1>12
  <2> QED
    BY <1>2, <2>1 DEF Blocks, SenderWords, Vertices
<1>15. WholeRows'
  BY <1>2, <1>3, <1>9, <1>13, <1>14 DEF WholeRows
<1>16. CountedAll'
  BY <1>1, <1>2, <1>4 DEF CountedAll, Decoded
<1> QED
  BY <1>5, <1>6, <1>15, <1>16 DEF IInv

\* The count is taken of the whole set, less some words.
LEMMA CountKeeps ==
    ASSUME IInv, Count
    PROVE  IInv'
<1>1. FilesTrue /\ WordsTrue /\ WholeRows
  BY DEF IInv
<1>2. UNCHANGED <<maxDegree, graph, neighbors, okvs, set>>
  BY DEF Count
<1>3. FilesTrue'
  BY <1>1, <1>2 DEF FilesTrue, Graphs, Vertices
<1>4. WordsTrue'
  BY <1>1, <1>2 DEF WordsTrue
<1>5. WholeRows'
  BY <1>1, <1>2 DEF WholeRows, Rows, Row, Collected, Blocks, SenderWords, Vertices
<1>6. CountedAll'
  BY <1>2 DEF Count, CountedAll, Decoded, SenderWords, Vertices, ToSet
<1> QED
  BY <1>3, <1>4, <1>5, <1>6 DEF IInv

\* The invariant is inductive.
LEMMA InvariantStep == IInv /\ [Next]_vars => IInv'
<1> SUFFICES ASSUME IInv, [Next]_vars PROVE IInv'
  OBVIOUS
<1>1. ASSUME NEW n \in graph[X], Solve(n) PROVE IInv'
  BY <1>1, SolveKeeps
<1>2. CASE DecodeRow
  BY <1>2, DecodeKeeps
<1>3. CASE Count
  BY <1>3, CountKeeps
<1>4. CASE UNCHANGED vars
  <2>1. UNCHANGED <<maxDegree, graph, neighbors, okvs, set, lost, printed>>
    BY <1>4 DEF vars
  <2>2. FilesTrue'
    BY <2>1 DEF IInv, FilesTrue, Graphs, Vertices
  <2>3. WordsTrue'
    BY <2>1 DEF IInv, WordsTrue
  <2>4. WholeRows'
    BY <2>1 DEF IInv, WholeRows, Rows, Row, Collected, Blocks, SenderWords, Vertices
  <2>5. CountedAll'
    BY <2>1 DEF IInv, CountedAll, Decoded, SenderWords, Vertices, ToSet
  <2> QED
    BY <2>2, <2>3, <2>4, <2>5 DEF IInv
<1> QED
  BY <1>1, <1>2, <1>3, <1>4 DEF Next

\* The decoded set is at any time a number of whole rows.
THEOREM InvariantAlways == Spec => []IInv
BY InvariantInit, InvariantStep, PTL DEF Spec

-----------------------------------------------------------------------------
(* What the set says of the graph                                          *)

\* When all is decoded there is a row for every neighbor.
LEMMA AllRows ==
    ASSUME IInv, Decoded
    PROVE  Rows(Len(neighbors)) /\ Collected
<1>1. maxDegree \in Nat \ {0} /\ Len(neighbors) \in Nat \ {0}
  BY NeighborsOfX DEF IInv
<1>2. PICK r \in 0 .. Len(neighbors) : Rows(r)
  BY DEF IInv, WholeRows
<1>3. r * maxDegree = Len(neighbors) * maxDegree
  BY <1>2 DEF Rows, Decoded
<1>4. r = Len(neighbors)
  BY <1>1, <1>3
<1> QED
  BY <1>1, <1>2, <1>4 DEF Rows

\* A word in the set is in some row and column, and is the word there.
LEMMA WordInSet ==
    ASSUME IInv, NEW p \in DOMAIN set, set[p] # None
    PROVE  \E i, j \in DOMAIN neighbors :
             /\ p = (i - 1) * maxDegree + j
             /\ neighbors[j] \in graph[neighbors[i]]
             /\ set[p] = okvs[neighbors[i]][neighbors[j]]
<1>1. FilesTrue /\ WordsTrue
  BY DEF IInv
<1>2. /\ maxDegree \in Nat \ {0} /\ Len(neighbors) \in Nat
      /\ DOMAIN neighbors = 1 .. Len(neighbors)
  BY <1>1, NeighborsOfX
<1>3. PICK r \in 0 .. Len(neighbors) : Rows(r)
  BY DEF IInv, WholeRows
<1>4. set \in Seq(Blocks)
  BY DEF IInv, WholeRows
<1>5. p \in 1 .. r * maxDegree
  BY <1>3, <1>4 DEF Rows
<1>6. PICK i \in 1 .. r, j \in 1 .. maxDegree : p = (i - 1) * maxDegree + j
  <2>1. maxDegree \in Nat \ {0} /\ r \in Nat
    BY <1>2
  <2> QED
    BY <1>5, <2>1, Position, Zenon
<1>7. i \in 1 .. Len(neighbors) /\ Collected
  BY <1>2, <1>3 DEF Rows
<1>8. set[p] = Row(i)[j]
  BY <1>3, <1>6 DEF Rows
<1>9. /\ j \in 1 .. Len(neighbors) /\ neighbors[j] \in graph[neighbors[i]]
      /\ Row(i)[j] = okvs[neighbors[i]][neighbors[j]]
  BY <1>1, <1>7, <1>8, RowValue
<1> QED
  BY <1>2, <1>6, <1>7, <1>8, <1>9

\* The word of one neighbor at another names the first, and tells the second.
LEMMA WordTellsPair ==
    ASSUME FilesTrue, WordsTrue, Collected,
           NEW n \in graph[X], NEW m \in graph[n],
           NEW v \in graph[X], NEW w \in graph[v],
           okvs[n][m] = okvs[v][w]
    PROVE  n = v /\ m = w
<1>1. /\ okvs[n] \in [graph[n] -> {n} \X (1 .. maxDegree)]
      /\ okvs[v] \in [graph[v] -> {v} \X (1 .. maxDegree)]
      /\ \A a, b \in graph[n] : okvs[n][a] = okvs[n][b] => a = b
  BY DEF Collected, WordsTrue
<1>2. okvs[n][m] \in {n} \X (1 .. maxDegree) /\ okvs[v][w] \in {v} \X (1 .. maxDegree)
  BY <1>1
<1>3. n = v
  BY <1>2
<1> QED
  BY <1>1, <1>3

\* A set with words in it was decoded from OKVSs that are all there.
LEMMA WordsAfterCollection ==
    ASSUME IInv, NEW p \in DOMAIN set
    PROVE  Collected
<1>1. PICK r \in 0 .. Len(neighbors) : Rows(r)
  BY DEF IInv, WholeRows
<1>2. maxDegree \in Nat \ {0} /\ Len(neighbors) \in Nat
  BY NeighborsOfX DEF IInv
<1>3. set \in Seq(Blocks)
  BY DEF IInv, WholeRows
<1>4. r # 0
  BY <1>1, <1>2, <1>3 DEF Rows
<1> QED
  BY <1>1, <1>2, <1>4 DEF Rows

\* No word of role 0 is decoded twice.
THEOREM NoWordTwiceInvariant == Spec => []NoWordTwice
<1>1. IInv => NoWordTwice
  <2> SUFFICES ASSUME IInv, NEW p \in DOMAIN set, NEW q \in DOMAIN set,
                      set[p] = set[q], set[p] # None
               PROVE  p = q
    BY DEF NoWordTwice
  <2>1. FilesTrue /\ WordsTrue /\ Collected
    BY WordsAfterCollection DEF IInv
  <2>2. PICK i, j \in DOMAIN neighbors :
          /\ p = (i - 1) * maxDegree + j
          /\ neighbors[j] \in graph[neighbors[i]]
          /\ set[p] = okvs[neighbors[i]][neighbors[j]]
    BY WordInSet
  <2>3. PICK k, l \in DOMAIN neighbors :
          /\ q = (k - 1) * maxDegree + l
          /\ neighbors[l] \in graph[neighbors[k]]
          /\ set[q] = okvs[neighbors[k]][neighbors[l]]
    BY WordInSet
  <2>4. neighbors[i] \in graph[X] /\ neighbors[k] \in graph[X]
    BY <2>1, NeighborsOfX
  <2>5. neighbors[i] = neighbors[k] /\ neighbors[j] = neighbors[l]
    BY <2>1, <2>2, <2>3, <2>4, WordTellsPair
  <2>6. i = k /\ j = l
    BY <2>1, <2>5, NeighborsOfX
  <2> QED
    BY <2>2, <2>3, <2>6
<1> QED
  BY <1>1, InvariantAlways, PTL

\* No result is printed of lists that were cut short.
THEOREM OnlyFromWholeListsInvariant == Spec => []OnlyFromWholeLists
<1>1. IInv => OnlyFromWholeLists
  <2> SUFFICES ASSUME IInv, printed # None, NEW n \in graph[X]
               PROVE  Cardinality(graph[n]) <= maxDegree
    BY DEF OnlyFromWholeLists
  <2>1. Collected
    BY AllRows DEF IInv, CountedAll
  <2> QED
    BY <2>1 DEF IInv, WordsTrue, Collected
<1> QED
  BY <1>1, InvariantAlways, PTL

-----------------------------------------------------------------------------
(* Two words for a triangle                                                *)

\* Two things are two.
LEMMA PairCardinality ==
    ASSUME NEW a, NEW b, a # b
    PROVE  IsFiniteSet({a, b}) /\ Cardinality({a, b}) = 2
<1>1. IsFiniteSet({a}) /\ Cardinality({a}) = 1
  BY FS_Singleton
<1>2. {a, b} = {a} \cup {b} /\ b \notin {a}
  OBVIOUS
<1> QED
  BY <1>1, <1>2, FS_AddElement

\* And a set of two is two things.
LEMMA CardinalityTwo ==
    ASSUME NEW S, IsFiniteSet(S), Cardinality(S) = 2
    PROVE  \E a, b \in S : a # b /\ S = {a, b}
<1>1. S # {}
  BY FS_EmptySet
<1>2. PICK a \in S : TRUE
  BY <1>1
<1>3. IsFiniteSet(S \ {a}) /\ Cardinality(S \ {a}) = 1
  BY <1>2, FS_RemoveElement
<1>4. PICK b : S \ {a} = {b}
  BY <1>3, FS_Singleton
<1> QED
  BY <1>2, <1>4

\* The triangles are the sets of two neighbors that are joined.
LEMMA TrianglePairs ==
    ASSUME FilesTrue
    PROVE  /\ \A a, b \in graph[X] : {a, b} \in Triangles <=> a # b /\ b \in graph[a]
           /\ \A t \in Triangles : \E a, b \in graph[X] :
                a # b /\ t = {a, b} /\ b \in graph[a] /\ a \in graph[b]
<1>1. graph[X] \subseteq Vertices
  BY NeighborsOfX
<1>2. \A v, w \in Vertices : w \in graph[v] => v \in graph[w]
  BY DEF FilesTrue, Graphs
<1>3. ASSUME NEW a \in graph[X], NEW b \in graph[X]
      PROVE  {a, b} \in Triangles <=> a # b /\ b \in graph[a]
  <2>1. CASE a # b
    <3>1. {a, b} \in kSubset(2, graph[X])
      BY <1>3, <2>1, PairCardinality DEF kSubset
    <3>2. {a, b} \in Triangles <=> a \in graph[b] /\ b \in graph[a]
      BY <2>1, <3>1 DEF Triangles
    <3> QED
      BY <1>1, <1>2, <1>3, <2>1, <3>2
  <2>2. CASE a = b
    <3>1. {a, b} = {a} /\ Cardinality({a}) = 1
      BY <2>2, FS_Singleton
    <3>2. {a, b} \notin kSubset(2, graph[X])
      BY <3>1 DEF kSubset
    <3> QED
      BY <2>2, <3>2 DEF Triangles
  <2> QED
    BY <2>1, <2>2
<1>4. ASSUME NEW t \in Triangles
      PROVE  \E a, b \in graph[X] :
               a # b /\ t = {a, b} /\ b \in graph[a] /\ a \in graph[b]
  <2>1. t \in SUBSET graph[X] /\ Cardinality(t) = 2
    BY DEF Triangles, kSubset
  <2>2. IsFiniteSet(t)
    BY <1>1, <2>1, ListSize
  <2>3. PICK a, b \in t : a # b /\ t = {a, b}
    BY <2>1, <2>2, CardinalityTwo
  <2>4. b \in graph[a] /\ a \in graph[b]
    BY <2>3 DEF Triangles
  <2> QED
    BY <2>1, <2>3, <2>4
<1> QED
  BY <1>3, <1>4

\* Neighbors i and j of X are joined iff the set has a word in row i and column j, and
\* one in row j and column i.
THEOREM TwoWordsPerTriangleInvariant == Spec => []TwoWordsPerTriangle
<1>1. IInv => TwoWordsPerTriangle
  <2> SUFFICES ASSUME IInv, Decoded, NEW i \in DOMAIN neighbors, NEW j \in DOMAIN neighbors
               PROVE  ({neighbors[i], neighbors[j]} \in Triangles) <=>
                        /\ i # j
                        /\ set[(i - 1) * maxDegree + j] # None
                        /\ set[(j - 1) * maxDegree + i] # None
    BY DEF TwoWordsPerTriangle
  <2> DEFINE a == neighbors[i]
             b == neighbors[j]
  <2>1. FilesTrue /\ WordsTrue /\ Rows(Len(neighbors)) /\ Collected
    BY AllRows DEF IInv
  <2>2. /\ i \in 1 .. Len(neighbors) /\ j \in 1 .. Len(neighbors)
        /\ i \in 1 .. maxDegree /\ j \in 1 .. maxDegree
    BY <2>1, NeighborsOfX
  <2>3. /\ set[(i - 1) * maxDegree + j] = Row(i)[j]
        /\ set[(j - 1) * maxDegree + i] = Row(j)[i]
    BY <2>1, <2>2 DEF Rows
  <2>4. /\ Row(i)[j] # None <=> b \in graph[a]
        /\ Row(j)[i] # None <=> a \in graph[b]
    BY <2>1, <2>2, RowValue
  <2>5. a \in graph[X] /\ b \in graph[X] /\ (a = b <=> i = j)
    BY <2>1, NeighborsOfX
  <2>6. {a, b} \in Triangles <=> a # b /\ b \in graph[a]
    BY <2>1, <2>5, TrianglePairs
  <2>7. b \in graph[a] <=> a \in graph[b]
    <3>1. a \in Vertices /\ b \in Vertices
      BY <2>1, <2>5, NeighborsOfX
    <3> QED
      BY <2>1, <3>1 DEF FilesTrue, Graphs
  <2> QED
    BY <2>3, <2>4, <2>5, <2>6, <2>7
<1> QED
  BY <1>1, InvariantAlways, PTL

-----------------------------------------------------------------------------
(* The printed number                                                      *)

\* The ordered pairs of neighbors of X that are joined, and those in ascending order.
Joined == {p \in graph[X] \X graph[X] : p[2] \in graph[p[1]]}
Up     == {p \in Joined : p[1] < p[2]}
Down   == {p \in Joined : p[2] < p[1]}

\* There is an ascending pair to each triangle.
LEMMA UpPairs ==
    ASSUME FilesTrue
    PROVE  IsFiniteSet(Up) /\ Cardinality(Up) = Cardinality(Triangles)
<1> DEFINE f == [p \in Up |-> {p[1], p[2]}]
<1>1. graph[X] \in SUBSET Vertices /\ graph[X] \subseteq Nat
  BY NeighborsOfX, SizesAssumption DEF Vertices
<1>2. IsFiniteSet(graph[X])
  BY <1>1, ListSize
<1>3. IsFiniteSet(Up)
  <2>1. IsFiniteSet(graph[X] \X graph[X])
    BY <1>2, FS_Product
  <2> QED
    BY <2>1, FS_Subset DEF Up, Joined
<1>4. f \in [Up -> Triangles]
  <2> SUFFICES ASSUME NEW p \in Up PROVE {p[1], p[2]} \in Triangles
    OBVIOUS
  <2>1. p[1] \in graph[X] /\ p[2] \in graph[X] /\ p[2] \in graph[p[1]] /\ p[1] # p[2]
    BY <1>1 DEF Up, Joined
  <2> QED
    BY <2>1, TrianglePairs
<1>5. \A p, q \in Up : f[p] = f[q] => p = q
  <2> SUFFICES ASSUME NEW p \in Up, NEW q \in Up, {p[1], p[2]} = {q[1], q[2]}
               PROVE  p = q
    OBVIOUS
  <2>1. /\ p = <<p[1], p[2]>> /\ q = <<q[1], q[2]>>
        /\ p[1] \in Nat /\ p[2] \in Nat /\ q[1] \in Nat /\ q[2] \in Nat
        /\ p[1] < p[2] /\ q[1] < q[2]
    BY <1>1 DEF Up, Joined
  <2>2. p[1] = q[1] /\ p[2] = q[2]
    BY <2>1
  <2> QED
    BY <2>1, <2>2
<1>6. \A t \in Triangles : \E p \in Up : f[p] = t
  <2> SUFFICES ASSUME NEW t \in Triangles PROVE \E p \in Up : {p[1], p[2]} = t
    OBVIOUS
  <2>1. PICK a, b \in graph[X] :
          a # b /\ t = {a, b} /\ b \in graph[a] /\ a \in graph[b]
    BY TrianglePairs
  <2>2. <<a, b>> \in Joined /\ <<b, a>> \in Joined
    BY <2>1 DEF Joined
  <2>3. CASE a < b
    BY <2>1, <2>2, <2>3 DEF Up
  <2>4. CASE b < a
    <3>1. <<b, a>> \in Up /\ {b, a} = t
      BY <2>1, <2>2, <2>4 DEF Up
    <3> QED
      BY <3>1
  <2> QED
    BY <1>1, <2>1, <2>3, <2>4
<1>7. ExistsBijection(Up, Triangles)
  <2> HIDE DEF f
  <2>1. f \in Injection(Up, Triangles)
    BY <1>4, <1>5 DEF Injection, IsInjective
  <2>2. f \in Surjection(Up, Triangles)
    BY <1>4, <1>6 DEF Surjection
  <2> QED
    BY <2>1, <2>2 DEF ExistsBijection, Bijection
<1> QED
  BY <1>3, <1>7, FS_Bijection

\* And a descending pair to each ascending one: two ordered pairs to a triangle.
LEMMA TwoPairsToATriangle ==
    ASSUME FilesTrue
    PROVE  /\ IsFiniteSet(Joined) /\ Cardinality(Triangles) \in Nat
           /\ Cardinality(Joined) = 2 * Cardinality(Triangles)
<1> DEFINE f == [p \in Up |-> <<p[2], p[1]>>]
<1>1. graph[X] \in SUBSET Vertices /\ graph[X] \subseteq Nat
  BY NeighborsOfX, SizesAssumption DEF Vertices
<1>2. \A v, w \in Vertices : w \in graph[v] => v \in graph[w] /\ v # w
  BY DEF FilesTrue, Graphs
<1>3. \A p \in Joined : <<p[2], p[1]>> \in Joined /\ p = <<p[1], p[2]>>
  BY <1>1, <1>2 DEF Joined
<1>4. f \in [Up -> Down]
  BY <1>3 DEF Up, Down
<1>5. \A p, q \in Up : f[p] = f[q] => p = q
  BY <1>3 DEF Up
<1>6. \A q \in Down : \E p \in Up : f[p] = q
  <2> SUFFICES ASSUME NEW q \in Down PROVE \E p \in Up : <<p[2], p[1]>> = q
    OBVIOUS
  <2>1. <<q[2], q[1]>> \in Up /\ q = <<q[1], q[2]>>
    BY <1>3 DEF Up, Down
  <2> QED
    BY <2>1
<1>7. ExistsBijection(Up, Down)
  <2> HIDE DEF f
  <2>1. f \in Injection(Up, Down)
    BY <1>4, <1>5 DEF Injection, IsInjective
  <2>2. f \in Surjection(Up, Down)
    BY <1>4, <1>6 DEF Surjection
  <2> QED
    BY <2>1, <2>2 DEF ExistsBijection, Bijection
<1>8. /\ IsFiniteSet(Up) /\ IsFiniteSet(Down)
      /\ Cardinality(Up) = Cardinality(Triangles)
      /\ Cardinality(Down) = Cardinality(Triangles)
      /\ Cardinality(Triangles) \in Nat
  BY <1>7, UpPairs, FS_Bijection, FS_CardinalityType
<1>9. Joined = Up \cup Down /\ Up \cap Down = {}
  <2>1. \A p \in Joined : p[1] \in Nat /\ p[2] \in Nat /\ p[1] # p[2]
    BY <1>1, <1>2 DEF Joined
  <2> QED
    BY <2>1 DEF Up, Down
<1>10. Cardinality(Up \cap Down) = 0
  BY <1>9, FS_EmptySet
<1> QED
  BY <1>8, <1>9, <1>10, FS_Union

\* The words of the decoded set: one for each ordered pair, all of them role 0's.
LEMMA WordToAPair ==
    ASSUME IInv, Decoded
    PROVE  /\ ExistsBijection(Joined, ToSet(set) \ {None})
           /\ ToSet(set) \ {None} \subseteq SenderWords
<1> DEFINE found == ToSet(set) \ {None}
           f == [p \in Joined |-> okvs[p[1]][p[2]]]
<1>1. FilesTrue /\ WordsTrue /\ Rows(Len(neighbors)) /\ Collected
  BY AllRows DEF IInv
<1>2. /\ maxDegree \in Nat \ {0} /\ Len(neighbors) \in Nat
      /\ DOMAIN neighbors = 1 .. Len(neighbors) /\ Len(neighbors) <= maxDegree
      /\ \A n \in graph[X] : \E i \in DOMAIN neighbors : neighbors[i] = n
      /\ \A i \in DOMAIN neighbors : neighbors[i] \in graph[X]
  BY <1>1, NeighborsOfX
<1>3. set \in Seq(Blocks)
  BY DEF IInv, WholeRows
<1>4. \A p \in Joined : okvs[p[1]][p[2]] \in found
  <2> SUFFICES ASSUME NEW p \in Joined PROVE okvs[p[1]][p[2]] \in found
    OBVIOUS
  <2>1. p[1] \in graph[X] /\ p[2] \in graph[X] /\ p[2] \in graph[p[1]]
    BY DEF Joined
  <2>2. PICK i, j \in 1 .. Len(neighbors) : neighbors[i] = p[1] /\ neighbors[j] = p[2]
    BY <1>2, <2>1
  <2>3. j \in 1 .. maxDegree
    BY <1>2
  <2>4. (i - 1) * maxDegree + j \in 1 .. Len(neighbors) * maxDegree
    BY <1>2, <2>3, PositionInRange
  <2>5. set[(i - 1) * maxDegree + j] = Row(i)[j]
    BY <1>1, <2>3 DEF Rows
  <2>6. Row(i)[j] # None
    BY <1>1, <2>1, <2>2, <2>3, RowValue
  <2>7. Row(i)[j] = okvs[p[1]][p[2]]
    BY <1>1, <2>2, <2>3, <2>6, RowValue
  <2>8. (i - 1) * maxDegree + j \in DOMAIN set
    BY <1>1, <1>3, <2>4 DEF Rows
  <2> QED
    BY <2>5, <2>6, <2>7, <2>8 DEF ToSet
<1>5. \A p, q \in Joined : okvs[p[1]][p[2]] = okvs[q[1]][q[2]] => p = q
  <2> SUFFICES ASSUME NEW p \in Joined, NEW q \in Joined,
                      okvs[p[1]][p[2]] = okvs[q[1]][q[2]]
               PROVE  p = q
    OBVIOUS
  <2>1. /\ p = <<p[1], p[2]>> /\ p[1] \in graph[X] /\ p[2] \in graph[p[1]]
        /\ q = <<q[1], q[2]>> /\ q[1] \in graph[X] /\ q[2] \in graph[q[1]]
    BY DEF Joined
  <2>2. p[1] = q[1] /\ p[2] = q[2]
    BY <1>1, <2>1, WordTellsPair
  <2> QED
    BY <2>1, <2>2
<1>6. \A w \in found : \E p \in Joined : okvs[p[1]][p[2]] = w
  <2> SUFFICES ASSUME NEW w \in found
               PROVE  \E p \in Joined : okvs[p[1]][p[2]] = w
    OBVIOUS
  <2>1. PICK k \in DOMAIN set : set[k] = w /\ set[k] # None
    BY DEF ToSet
  <2>2. PICK i, j \in DOMAIN neighbors :
          /\ k = (i - 1) * maxDegree + j
          /\ neighbors[j] \in graph[neighbors[i]]
          /\ set[k] = okvs[neighbors[i]][neighbors[j]]
    BY <2>1, WordInSet
  <2>3. <<neighbors[i], neighbors[j]>> \in Joined
    BY <1>2, <2>2 DEF Joined
  <2> QED
    BY <2>1, <2>2, <2>3
<1>7. found \subseteq SenderWords
  <2>1. \A k \in DOMAIN set : set[k] \in Blocks
    BY <1>3
  <2> QED
    BY <2>1 DEF ToSet, Blocks
<1>8. ExistsBijection(Joined, found)
  <2> HIDE DEF found
  <2>1. f \in [Joined -> found]
    BY <1>4
  <2>2. f \in Injection(Joined, found)
    BY <1>5, <2>1 DEF Injection, IsInjective
  <2>3. f \in Surjection(Joined, found)
    BY <1>6, <2>1 DEF Surjection
  <2> QED
    BY <2>2, <2>3 DEF ExistsBijection, Bijection
<1> QED
  BY <1>7, <1>8

\* The printed number is the number of triangles at X, less one for every two words
\* lost to the stash, rounded up.
THEOREM PrintedIsTrianglesInvariant == Spec => []PrintedIsTriangles
<1>1. IInv => PrintedIsTriangles
  <2> SUFFICES ASSUME IInv, printed # None
               PROVE  printed = Cardinality(Triangles) - (Cardinality(lost) + 1) \div 2
    BY DEF PrintedIsTriangles
  <2> DEFINE found == ToSet(set) \ {None}
             t == Cardinality(Triangles)
  <2>1. FilesTrue /\ CountedAll /\ Decoded
    BY DEF IInv, CountedAll
  <2>2. ExistsBijection(Joined, found) /\ found \subseteq SenderWords
    BY <2>1, WordToAPair
  <2>3. t \in Nat /\ IsFiniteSet(found) /\ Cardinality(found) = 2 * t
    BY <2>1, <2>2, TwoPairsToATriangle, FS_Bijection
  <2>4. lost \subseteq found
    BY <2>1 DEF CountedAll
  <2>5. (ToSet(set) \cap SenderWords) \ lost = found \ lost
    <3>1. None \notin SenderWords
      BY NoneAssumption, <2>1, NeighborsOfX DEF SenderWords
    <3> QED
      BY <2>2, <3>1
  <2>6. Cardinality(found \ lost) = 2 * t - Cardinality(lost) /\ Cardinality(lost) \in Nat
    <3> HIDE DEF found
    <3>1. /\ IsFiniteSet(lost) /\ IsFiniteSet(found \ lost)
          /\ Cardinality(lost) \in Nat /\ Cardinality(found \ lost) \in Nat
      BY <2>3, <2>4, FS_Subset, FS_CardinalityType
    <3>2. found = (found \ lost) \cup lost /\ (found \ lost) \cap lost = {}
      BY <2>4
    <3>3. Cardinality((found \ lost) \cap lost) = 0
      BY <3>2, FS_EmptySet
    <3>4. Cardinality((found \ lost) \cup lost) =
            Cardinality(found \ lost) + Cardinality(lost)
              - Cardinality((found \ lost) \cap lost)
      BY <3>1, FS_Union
    <3>5. Cardinality((found \ lost) \cup lost) = 2 * t
      BY <2>3, <3>2
    <3> HIDE DEF t
    <3> QED
      BY <2>3, <3>1, <3>3, <3>4, <3>5
  <2>7. printed = (2 * t - Cardinality(lost)) \div 2
    BY <2>1, <2>5, <2>6 DEF CountedAll, Half
  <2> QED
    BY <2>3, <2>6, <2>7
<1> QED
  BY <1>1, InvariantAlways, PTL
=============================================================================
