---------------------------- MODULE TriangleCount ----------------------------
(***************************************************************************)
(* What the program computes, from neighbor files to the printed count     *)
(* (triangle_counting/triangle.h and main of circuit_psi.cpp).             *)
(*                                                                         *)
(* Every vertex n has MAX_DEGREE secret words, drawn from fixed_seed and   *)
(* n: word <<n, k>> is the k-th.  The OKVS of n opens, at its k-th         *)
(* neighbor, to <<n, k>>, and to something random elsewhere.  The querying *)
(* node decodes the OKVS of each of its neighbors at each of its           *)
(* neighbors; role 0 knows all words of all vertices.  What the two sets   *)
(* have in common is counted by PsiCardinality and halved.                 *)
(*                                                                         *)
(* How the OKVSs arrive is OkvsCollection's subject: here one arrives      *)
(* whole, or its process has died.                                         *)
(***************************************************************************)
EXTENDS Naturals, Integers, Sequences, SequencesExt, FiniteSets, FiniteSetsExt

CONSTANTS
    NumVertex,     \* NUM_VERTEX
    MaxDegrees,    \* bound: the values MAX_DEGREE may take
    WordSize,      \* 2^64, of uint64_t
    X,             \* the querying node
    MaxStash,      \* bound: words that find no place in the cuckoo table
    None           \* no OKVS yet; a block that is nobody's word; no result yet

Vertices == 0 .. NumVertex - 1

ASSUME SizesAssumption ==
    /\ NumVertex \in Nat \ {0} /\ MaxDegrees \subseteq Nat \ {0} /\ MaxStash \in Nat
    /\ WordSize \in Nat /\ WordSize > 2 * NumVertex
    /\ \A d \in MaxDegrees : WordSize > 2 * d
ASSUME QueryAssumption == X \in Vertices
ASSUME NoneAssumption == None \notin Vertices \X Nat

VARIABLES
    maxDegree,     \* MAX_DEGREE (num_d), the last part of the name of the data directory
    graph,         \* graph[v]: the numbers in the neighbor file of v
    neighbors,     \* the neighbor file of X, in its order
    okvs,          \* okvs[n]: what the OKVS of n opens to, key by key, or None
    dead,          \* the neighbor processes that died
    set,           \* what neighbor_request has decoded, flattened
    lost,          \* the words that ended in the stash
    printed        \* the local triangle counting result, or None

vars == <<maxDegree, graph, neighbors, okvs, dead, set, lost, printed>>

\* The files of an undirected graph without loops, and the degree of X as promised by
\* the directory's name.  (A node without neighbors waits for ever: OkvsCollection.)
Init ==
    /\ maxDegree \in MaxDegrees
    /\ graph \in {g \in [Vertices -> SUBSET Vertices] :
                    \A v, w \in Vertices : w \in g[v] => v \in g[w] /\ v # w}
    /\ Cardinality(graph[X]) \in 1 .. maxDegree
    /\ neighbors \in SetToSeqs(graph[X])
    /\ okvs = [n \in graph[X] |-> None]
    /\ dead = {} /\ set = <<>> /\ lost = {} /\ printed = None

\* A variant that is no part of the model: the difference is clamped to 0.
NumAddClamped(n) ==
    IF Cardinality(graph[n]) > maxDegree THEN 0 ELSE maxDegree - Cardinality(graph[n])

\* max(uint64_t(0), MAX_DEGREE - num_neighbors) in unsigned arithmetic.
NumAdd(n) == (maxDegree - Cardinality(graph[n])) % WordSize

\* Variants of the next operators, each with a slip that some property catches; they
\* are no part of the model.
WordsOfFixedSeed(n, file) ==
    [m \in graph[n] |-> <<0, CHOOSE k \in DOMAIN file : file[k] = m>>]
RowCutShort(i) ==
    [j \in 1 .. maxDegree |->
       IF j < Len(neighbors) /\ neighbors[j] \in DOMAIN okvs[neighbors[i]]
       THEN okvs[neighbors[i]][neighbors[j]]
       ELSE None]
DecodedOneMore == set # <<>> /\ Len(set) = (Len(neighbors) + 1) * maxDegree
HalfUp(n) == (n + 1) \div 2

\* The k-th neighbor in the file of n is the key of the k-th word of n.
WordsOf(n, file) == [m \in graph[n] |-> <<n, CHOOSE k \in DOMAIN file : file[k] = m>>]

\* neighbor(): the keys are filled up with random ones to MAX_DEGREE, and mapped to
\* the words of n.  More neighbors than MAX_DEGREE wrap the difference around, and
\* the process dies allocating that many blocks.
Solve(n) ==
    /\ okvs[n] = None /\ n \notin dead
    /\ \/ /\ NumAdd(n) <= maxDegree
          /\ \E file \in SetToSeqs(graph[n]) :
               okvs' = [okvs EXCEPT ![n] = WordsOf(n, file)]
          /\ dead' = dead
       \/ /\ NumAdd(n) > maxDegree
          /\ dead' = dead \cup {n}
          /\ okvs' = okvs
    /\ UNCHANGED <<maxDegree, graph, neighbors, set, lost, printed>>

\* The i-th row of neighbor_of_neighbor: MAX_DEGREE random blocks, the first of which
\* are replaced by what the OKVS of neighbor i opens to at each neighbor of X.
Row(i) ==
    [j \in 1 .. maxDegree |->
       IF j <= Len(neighbors) /\ neighbors[j] \in DOMAIN okvs[neighbors[i]]
       THEN okvs[neighbors[i]][neighbors[j]]
       ELSE None]

\* startServer has returned, with an OKVS of every neighbor.
Collected == \A n \in graph[X] : okvs[n] # None

\* The decoding loop of neighbor_request; flatten puts the rows one after the other.
DecodeRow ==
    /\ Collected /\ Len(set) < Len(neighbors) * maxDegree
    /\ set' = set \o Row(Len(set) \div maxDegree + 1)
    /\ UNCHANGED <<maxDegree, graph, neighbors, okvs, dead, lost, printed>>

Decoded == Len(set) = Len(neighbors) * maxDegree

\* test_request of role 0: MAX_DEGREE words of each of NUM_VERTEX vertices.
SenderWords == Vertices \X (1 .. maxDegree)

Half(n) == n \div 2

\* psi_ca_receiver counts the common words less those in the stash; half of it is
\* printed.
Count ==
    /\ Decoded /\ printed = None
    /\ \E s \in SUBSET (ToSet(set) \ {None}) :
         /\ Cardinality(s) <= MaxStash
         /\ lost' = s
         /\ printed' = Half(Cardinality((ToSet(set) \cap SenderWords) \ s))
    /\ UNCHANGED <<maxDegree, graph, neighbors, okvs, dead, set>>

Next == (\E n \in graph[X] : Solve(n)) \/ DecodeRow \/ Count

Spec == Init /\ [][Next]_vars /\ WF_vars(Next)

-----------------------------------------------------------------------------

\* The triangles of X: pairs of its neighbors that are neighbors of each other.
Triangles == {p \in kSubset(2, graph[X]) : \A a, b \in p : a # b => a \in graph[b]}

\* No word of role 0 is in the set twice: rows of different neighbors and columns of
\* different keys never decode to the same word.  PsiCardinality counts sets of words.
NoWordTwice ==
    \A i, j \in DOMAIN set : set[i] = set[j] /\ set[i] # None => i = j

\* The set holds words of exactly two vertices for each triangle: neighbors a and b
\* are joined iff the row of a has a word in the column of b, and the row of b one in
\* the column of a, whatever the order of the files.
TwoWordsPerTriangle ==
    Decoded =>
      \A i, j \in DOMAIN neighbors :
        ({neighbors[i], neighbors[j]} \in Triangles) <=>
          /\ i # j
          /\ set[(i - 1) * maxDegree + j] # None
          /\ set[(j - 1) * maxDegree + i] # None

\* The printed number is the number of triangles at X, and when words were lost to the
\* stash one less for every two of them, rounded up: never more than the truth.
PrintedIsTriangles ==
    printed # None =>
      printed = Cardinality(Triangles) - (Cardinality(lost) + 1) \div 2

\* No result is printed when the list of some neighbor is longer than MAX_DEGREE: that
\* neighbor has not words enough for its list, and a count would come out too low.
OnlyFromWholeLists ==
    printed # None => \A n \in graph[X] : Cardinality(graph[n]) <= maxDegree

\* A result is printed, unless a neighbor process died.
EventuallyPrinted == <>(dead # {}) \/ <>(printed # None)
=============================================================================
