--------------------------- MODULE EqualityCircuit ---------------------------
(***************************************************************************)
(* perform_block_equality (triangle_counting/functionalities.cpp) and the  *)
(* circuit of triangle_counting/equality.h, run by two parties.            *)
(*                                                                         *)
(* A block is two words of L bits, each compared on its own: comparison    *)
(* 2b and 2b+1 are the halves of block b.  A thread of each party takes    *)
(* one part of the comparisons, over a stream of its own.  An oblivious    *)
(* transfer per digit leaves the bit "the digits are equal" shared by      *)
(* exclusive or; a tree of ANDs over the digits, each spending a           *)
(* multiplication triple, leaves the bit of the word; and after both       *)
(* threads are joined a last AND joins the halves.                         *)
(*                                                                         *)
(* All arrays are indexed as in the code: digit i of comparison j of a     *)
(* thread with n comparisons is at i*n + j.  Transfers and triples come    *)
(* from libraries, and are one joint step of the two threads at the ends   *)
(* of a stream.                                                            *)
(***************************************************************************)
EXTENDS Integers, Sequences, FiniteSets, FiniteSetsExt

CONSTANTS
    NumBins,       \* inputs.size(), the number of blocks
    ByteSize,      \* comparisons handled at a time (8)
    L, Beta,       \* bits of a word and of a digit (64 and 5)
    Room,          \* messages that a stream takes before a send blocks
    Inputs,        \* bound: the words the parties may hold
    LeafMasks,     \* bound: random shares that ALICE may draw, digit by digit
    TripleShares,  \* bound: shared triples that the generator may draw, one by one
    Pending        \* no result yet

ALICE == 1
BOB   == 2

Parties == {0, 1}          \* context.role: SERVER and CLIENT
Other(p) == 1 - p
Threads == {0, 1}          \* of perform_equality
Main    == 2               \* the thread that calls it
Workers == Threads \cup {Main}

Bins        == 0 .. NumBins - 1
NumCmps     == 2 * NumBins
Comparisons == 0 .. NumCmps - 1

\* num_digits and r; the last digit has r bits unless r is 0.
NumDigits  == (L + Beta - 1) \div Beta
R          == L % Beta
NumTriples == NumDigits - 1

\* PsiCardinality asks for a multiple of ByteSize bins.
ASSUME SizesAssumption ==
    /\ NumBins \in Nat \ {0} /\ ByteSize \in Nat \ {0} /\ NumBins % ByteSize = 0
    /\ L \in Nat \ {0} /\ Beta \in Nat \ {0} /\ Room \in Nat
ASSUME InputsAssumption ==
    Inputs \subseteq [Parties -> [Comparisons -> Nat]]
\* A triple is the two shares of a, those of b, and the first share of c = a*b.
ASSUME RandomnessAssumption ==
    /\ LeafMasks # {} /\ LeafMasks \subseteq [0 .. NumDigits * NumCmps - 1 -> {0, 1}]
    /\ TripleShares # {}
    /\ TripleShares \subseteq
         [0 .. NumDigits * NumCmps - 1 ->
            [a : [Parties -> {0, 1}], b : [Parties -> {0, 1}], c : {0, 1}]]

VARIABLES
    data,       \* data[p][k]: the word that p compares in comparison k
    pc,         \* pc[p]: where perform_block_equality is
    tpc,        \* tpc[p][t]: where equality_thread is
    leaf,       \* leaf[p][t]: leaf_eq
    triple,     \* triple[p][w]: triples_std of a thread, or the triple of the main one
    level,      \* level[p][t]: the distance i of the digits joined by this level
    base,       \* base[p][w]: triple_count before the level
    op,         \* op[p][w]: which of the four transfers of the level comes next
    got,        \* got[p][w]: the other party's e and f
    net,        \* net[s][p]: what is on its way to p over ioArr[s]
    res,        \* res[p]: res_shares
    ans,        \* ans[p]: ans_shares, or Pending
    masking     \* masking[p][w][k]: how many values the triple k has masked (a history)

circuit == <<leaf, triple, level, base, op, got, net, masking>>
vars    == <<data, pc, tpc, circuit, res, ans>>

Xor(a, b) == (a + b) % 2

-----------------------------------------------------------------------------
(* Who does which part                                                     *)

\* perform_block_equality: role 0 is BOB.
PartyOf(p) == IF p = 0 THEN BOB ELSE ALICE

\* equality_thread: odd threads have the sides exchanged.
Side(p, w) == IF w = 1 THEN 3 - PartyOf(p) ELSE PartyOf(p)

\* perform_equality: the second thread gets what the first leaves.
ChunkSize == (NumCmps \div (ByteSize * 2)) * ByteSize
Offset(t) == t * ChunkSize
Count(t)  == IF t = 1 THEN NumCmps - Offset(t) ELSE ChunkSize

\* ioArr of a worker: the last AND reuses the stream of the first thread.
Stream(w) == IF w = Main THEN 0 ELSE w

-----------------------------------------------------------------------------
(* The circuit                                                             *)

\* computeLeafOTs: digit i of a word, from the least significant.
Digit(word, i) ==
    (word \div 2 ^ (i * Beta)) %
      2 ^ (IF i = NumDigits - 1 /\ R # 0 THEN R ELSE Beta)

\* The words have L bits: two that differ do so in some digit.
ASSUME WordsAssumption ==
    \A w \in Inputs, k \in Comparisons :
      (\A i \in 0 .. NumDigits - 1 : Digit(w[0][k], i) = Digit(w[1][k], i)) => w[0][k] = w[1][k]

LeafIndices(t) == 0 .. NumDigits * Count(t) - 1

\* The digit of party p that belongs to position x of leaf_eq of thread t.
DigitAt(p, t, x) == Digit(data[p][Offset(t) + (x % Count(t))], x \div Count(t))

\* set_leaf_ot_messages: what ALICE, holding digit, offers a BOB who chooses k.
LeafMessage(digit, mask, k) == Xor(IF digit = k THEN 1 ELSE 0, mask)

\* The ANDs of a level of distance i: digits j and j + i, for j a multiple of 2*i.
NumAnds(i) == Cardinality({j \in 0 .. NumDigits - 1 : j % (2 * i) = 0 /\ j + i < NumDigits})

\* The bits a worker is joining: comm_size whole bytes of them.
Ands(p, w) ==
    LET bits == IF w = Main THEN NumBins ELSE NumAnds(level[p][w]) * Count(w)
    IN  0 .. (bits \div ByteSize) * ByteSize - 1

\* A variant that is no part of the model: the second operand is the next digit's.
RightAtNext(t, i, k) ==
    (k \div Count(t)) * 2 * i * Count(t) + (k % Count(t)) + Count(t)

\* Where in leaf_eq the operands of AND k are; the result goes to the first.
LeftAt(t, i, k)  == (k \div Count(t)) * 2 * i * Count(t) + (k % Count(t))
RightAt(t, i, k) == LeftAt(t, i, k) + i * Count(t)

Left(p, w, k) ==
    IF w = Main THEN res[p][2 * k] ELSE leaf[p][w][LeftAt(w, level[p][w], k)]
Right(p, w, k) ==
    IF w = Main THEN res[p][2 * k + 1] ELSE leaf[p][w][RightAt(w, level[p][w], k)]

\* The triple that AND k spends.
TripleOf(p, w, k) == triple[p][w][base[p][w] + k]

\* ei and fi: the operands, each hidden by its part of the triple.
MaskedE(p, w, k) == Xor(TripleOf(p, w, k).a, Left(p, w, k))
MaskedF(p, w, k) == Xor(TripleOf(p, w, k).b, Right(p, w, k))
ShareE(p, w) == [k \in Ands(p, w) |-> MaskedE(p, w, k)]
ShareF(p, w) == [k \in Ands(p, w) |-> MaskedF(p, w, k)]

\* Only ALICE adds the product of the two opened values.
Product(p, w, e, f) == IF Side(p, w) = ALICE THEN e * f ELSE 0

\* temp_z: this party's share of the AND, with e and f opened.
AndShare(p, w, k) ==
    LET e == Xor(MaskedE(p, w, k), got[p][w][1][k])
        f == Xor(MaskedF(p, w, k), got[p][w][2][k])
        t == TripleOf(p, w, k)
    IN  Xor(Xor(Product(p, w, e, f), f * t.a), Xor(e * t.b, t.c))

-----------------------------------------------------------------------------

Init ==
    /\ data \in Inputs
    /\ pc   = [p \in Parties |-> "triple"]
    /\ tpc  = [p \in Parties |-> [t \in Threads |-> "none"]]
    /\ leaf   = [p \in Parties |-> [t \in Threads |-> <<>>]]
    /\ triple = [p \in Parties |-> [w \in Workers |-> <<>>]]
    /\ level  = [p \in Parties |-> [t \in Threads |-> 1]]
    /\ base   = [p \in Parties |-> [w \in Workers |-> 0]]
    /\ op     = [p \in Parties |-> [w \in Workers |-> 1]]
    /\ got    = [p \in Parties |-> [w \in Workers |-> <<>>]]
    /\ net    = [s \in Threads |-> [p \in Parties |-> <<>>]]
    /\ res    = [p \in Parties |-> [k \in Comparisons |-> 1]]
    /\ ans    = [p \in Parties |-> Pending]
    /\ masking = [p \in Parties |-> [w \in Workers |-> <<>>]]

\* TripleGenerator: n triples for the workers w at the two ends.
GiveTriples(w, n) ==
    /\ \E shares \in TripleShares :
         triple' = [p \in Parties |-> [triple[p] EXCEPT ![w] =
           [k \in 0 .. n - 1 |->
              LET s == shares[k] IN
              [a |-> s.a[p], b |-> s.b[p],
               c |-> IF p = 0 THEN s.c
                     ELSE Xor(s.c, Xor(s.a[0], s.a[1]) * Xor(s.b[0], s.b[1]))]]]]
    /\ masking' = [p \in Parties |-> [masking[p] EXCEPT ![w] = [k \in 0 .. n - 1 |-> 0]]]

\* The triples of the last AND are made first, over ioArr[2].
MainTriples ==
    /\ \A p \in Parties : pc[p] = "triple"
    /\ {Side(p, Main) : p \in Parties} = {ALICE, BOB}
    /\ pc' = [p \in Parties |-> "launch"]
    /\ GiveTriples(Main, NumBins)
    /\ UNCHANGED <<data, tpc, leaf, level, base, op, got, net, res, ans>>

\* perform_equality starts its threads.
Launch(p) ==
    /\ pc[p] = "launch"
    /\ pc' = [pc EXCEPT ![p] = "threads"]
    /\ tpc' = [tpc EXCEPT ![p] = [t \in Threads |-> "leaf"]]
    /\ UNCHANGED <<data, circuit, res, ans>>

\* computeLeafOTs on both sides: ALICE draws her share, BOB gets the other.  A last digit
\* of more than four bits, for which the code throws "Not yet implemented", is left out:
\* with words of 64 bits and digits of 5 the last one has 4.
LeafOTs(t) ==
    /\ \A p \in Parties : tpc[p][t] = "leaf"
    /\ \E alice \in Parties : LET bob == Other(alice) IN
         /\ Side(alice, t) = ALICE /\ Side(bob, t) = BOB
         /\ \E mask \in LeafMasks :
              leaf' = [leaf EXCEPT
                ![alice][t] = [x \in LeafIndices(t) |-> mask[x]],
                ![bob][t]   = [x \in LeafIndices(t) |->
                   LeafMessage(DigitAt(alice, t, x), mask[x], DigitAt(bob, t, x))]]
    /\ tpc' = [p \in Parties |-> [tpc[p] EXCEPT ![t] = "triples"]]
    /\ UNCHANGED <<data, pc, triple, level, base, op, got, net, masking, res, ans>>

\* generate_triples on both sides.
ThreadTriples(t) ==
    /\ \A p \in Parties : tpc[p][t] = "triples"
    /\ {Side(p, t) : p \in Parties} = {ALICE, BOB}
    /\ tpc' = [p \in Parties |-> [tpc[p] EXCEPT ![t] = "level"]]
    /\ GiveTriples(t, NumTriples * Count(t))
    /\ UNCHANGED <<data, pc, leaf, level, base, op, got, net, res, ans>>

\* A worker is between the first and the last transfer of an AND.
Exchanging(p, w) ==
    IF w = Main THEN pc[p] = "final"
    ELSE tpc[p][w] = "level" /\ level[p][w] < NumDigits

\* A variant that is no part of the model: BOB sends first, too.
OpsSendFirst(p, w) == <<"e", "f", "receive", "receive">>

\* The order of the transfers of one AND.
Ops(p, w) ==
    IF Side(p, w) = ALICE THEN <<"e", "f", "receive", "receive">>
                          ELSE <<"receive", "receive", "e", "f">>

\* The last send of a worker has returned.
Drained(p, w) == Len(net[Stream(w)][Other(p)]) <= Room

\* send_data of ei and of fi.
SendShare(p, w) ==
    /\ Exchanging(p, w) /\ op[p][w] <= 4 /\ Ops(p, w)[op[p][w]] \in {"e", "f"}
    /\ Drained(p, w)
    /\ net' = [net EXCEPT ![Stream(w)][Other(p)] =
                 Append(@, IF Ops(p, w)[op[p][w]] = "e" THEN ShareE(p, w) ELSE ShareF(p, w))]
    /\ masking' = IF Ops(p, w)[op[p][w]] = "e"
                  THEN [masking EXCEPT ![p][w] = [k \in DOMAIN @ |->
                          IF k - base[p][w] \in Ands(p, w) THEN @[k] + 1 ELSE @[k]]]
                  ELSE masking
    /\ op' = [op EXCEPT ![p][w] = @ + 1]
    /\ UNCHANGED <<data, pc, tpc, leaf, triple, level, base, got, res, ans>>

\* recv_data of e and of f: whichever comes next.
ReceiveShare(p, w) ==
    /\ Exchanging(p, w) /\ op[p][w] <= 4 /\ Ops(p, w)[op[p][w]] = "receive"
    /\ Drained(p, w)
    /\ net[Stream(w)][p] # <<>>
    /\ got' = [got EXCEPT ![p][w] = Append(@, Head(net[Stream(w)][p]))]
    /\ net' = [net EXCEPT ![Stream(w)][p] = Tail(@)]
    /\ op'  = [op EXCEPT ![p][w] = @ + 1]
    /\ UNCHANGED <<data, pc, tpc, leaf, triple, level, base, masking, res, ans>>

\* A variant that is no part of the model: the offset is advanced by one AND only.
BaseByOneAnd(p, t) == base[p][t] + Count(t)

\* triple_count after the level.
NextBase(p, t) == base[p][t] + NumAnds(level[p][t]) * Count(t)

\* The shares of the ANDs replace their first operands, and the next level begins.
FinishLevel(p, t) ==
    /\ Exchanging(p, t) /\ op[p][t] = 5 /\ Drained(p, t)
    /\ LET at(k) == LeftAt(t, level[p][t], k) IN
       leaf' = [leaf EXCEPT ![p][t] = [x \in LeafIndices(t) |->
                  IF \E k \in Ands(p, t) : at(k) = x
                  THEN AndShare(p, t, CHOOSE k \in Ands(p, t) : at(k) = x)
                  ELSE @[x]]]
    /\ base'  = [base EXCEPT ![p][t] = NextBase(p, t)]
    /\ level' = [level EXCEPT ![p][t] = 2 * @]
    /\ op'    = [op EXCEPT ![p][t] = 1]
    /\ got'   = [got EXCEPT ![p][t] = <<>>]
    /\ UNCHANGED <<data, pc, tpc, triple, net, masking, res, ans>>

\* traverse_and_compute_ANDs returns: digit 0 of each comparison goes to z.
FinishThread(p, t) ==
    /\ tpc[p][t] = "level" /\ level[p][t] >= NumDigits
    /\ tpc' = [tpc EXCEPT ![p][t] = "done"]
    /\ res' = [res EXCEPT ![p] = [k \in Comparisons |->
                 IF k - Offset(t) \in 0 .. Count(t) - 1 THEN leaf[p][t][k - Offset(t)] ELSE @[k]]]
    /\ UNCHANGED <<data, pc, circuit, ans>>

\* A variant that is no part of the model: the first thread alone is waited for.
FirstJoined(p) == tpc[p][0] = "done"

\* perform_equality joins its threads.
Joined(p) == \A t \in Threads : tpc[p][t] = "done"
Join(p) ==
    /\ pc[p] = "threads" /\ Joined(p)
    /\ pc' = [pc EXCEPT ![p] = "final"]
    /\ UNCHANGED <<data, tpc, circuit, res, ans>>

\* The AND of the two halves of each block is returned.
Return(p) ==
    /\ pc[p] = "final" /\ op[p][Main] = 5 /\ Drained(p, Main)
    /\ pc'  = [pc EXCEPT ![p] = "returned"]
    /\ ans' = [ans EXCEPT ![p] = [b \in Bins |-> AndShare(p, Main, b)]]
    /\ UNCHANGED <<data, tpc, circuit, res>>

Next ==
    \/ MainTriples
    \/ \E t \in Threads : LeafOTs(t) \/ ThreadTriples(t)
    \/ \E p \in Parties : Launch(p) \/ Join(p) \/ Return(p)
    \/ \E p \in Parties, w \in Workers : SendShare(p, w) \/ ReceiveShare(p, w)
    \/ \E p \in Parties, t \in Threads : FinishLevel(p, t) \/ FinishThread(p, t)

\* Every step brings some thread nearer to its end, so it is enough that the system does
\* not stand still while some thread can go on.
Spec == Init /\ [][Next]_vars /\ WF_vars(Next)

-----------------------------------------------------------------------------

\* Whether the digits from i to i + d - 1 of comparison k are the same for both.
DigitsEqual(k, i, d) ==
    \A j \in i .. i + d - 1 :
      j < NumDigits => Digit(data[0][k], j) = Digit(data[1][k], j)

\* While both ends of a stream are at the same level of the tree, their shares at every
\* digit that the level still joins say whether the digits below it, one by one
\* compared so far, are equal: no AND takes an operand that was overwritten or was not
\* computed yet, and none is given the share of another comparison.
SharesOfDigits ==
    \A t \in Threads :
      LET d == level[0][t] IN
      (\A p \in Parties : tpc[p][t] \in {"triples", "level", "done"} /\ level[p][t] = d)
      => \A i \in {n \in 0 .. NumDigits - 1 : n % d = 0}, j \in 0 .. Count(t) - 1 :
           Xor(leaf[0][t][i * Count(t) + j], leaf[1][t][i * Count(t) + j]) = 1
             <=> DigitsEqual(Offset(t) + j, i, d)

\* A triple masks one operand pair and no more, or the difference of two operands would
\* be seen by the other party; and a thread has triples for exactly its ANDs.
TripleMasksOnce ==
    \A p \in Parties :
      /\ \A w \in Workers : \A k \in DOMAIN masking[p][w] : masking[p][w][k] <= 1
      /\ \A t \in Threads : tpc[p][t] = "done" =>
           \A k \in DOMAIN masking[p][t] : masking[p][t][k] = 1

\* No thread waits for ever for the other party: both calls return.
BothReturn == <>(\A p \in Parties : ans[p] # Pending)

\* The circuit computes shares of the equality of whole blocks.
Promise == INSTANCE SharedEquality WITH
    equal <- {b \in Bins : \A h \in {0, 1} : data[0][2 * b + h] = data[1][2 * b + h]}
SharedEqualityKept == Promise!Spec
=============================================================================
