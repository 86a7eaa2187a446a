--------------------------- MODULE PsiCardinality ---------------------------
(***************************************************************************)
(* The two-party protocol of triangle_counting/circuit_psi.cpp that counts *)
(* how many words of the receiver (role 1, psi_ca_receiver) are words of   *)
(* the sender (role 0, psi_ca_sender).                                     *)
(*                                                                         *)
(* The receiver keeps its words in a cuckoo table, at most one to a bin.   *)
(* The sender knows under which keys, pairs of function and word, its own  *)
(* words could be found, and gives the receiver an OKVS that opens, at a   *)
(* key of bin b, to the sender's secret block t[b] masked by the OPRF of   *)
(* the key.  A bin holds a common word iff the block the receiver unmasks  *)
(* is t[b]; an equality circuit leaves that bit shared between the two,    *)
(* and one oblivious transfer per bin turns the shared bits into a sum.    *)
(*                                                                         *)
(* Random blocks are symbols: t[b] is the symbol b, what an OKVS opens to  *)
(* outside its keys is Junk, and Mask(k) is the OPRF of key k, which only  *)
(* unmasking by the same key removes.  io and io2 are the byte streams as  *)
(* sequences of messages; a reader takes whatever comes next.              *)
(***************************************************************************)
EXTENDS Integers, Sequences, FiniteSets, FiniteSetsExt, SequencesExt

CONSTANTS
    Words,          \* words that either party may hold
    Pads,           \* the receiver's random words, which the sender has not
    Capacity,       \* MAX_DEGREE * MAX_DEGREE, the words in the receiver's table
    Align,          \* the number of bins is a multiple of it (8)
    NumFunctions,   \* context.nfuns (3)
    Modulus,        \* of the sums of blocks (2^128)
    RandomBlocks,   \* bound: the values that the blocks hiding a payload may take
    Empty,          \* an empty bin
    Junk            \* a block unrelated to every other

\* 1.27 bins per word, rounded up.
NumBinsOf(c) ==
    LET n == (c * 127) \div 100
    IN  n + (IF n % Align = 0 THEN 0 ELSE Align - (n % Align))

Bins      == 0 .. NumBinsOf(Capacity) - 1
Functions == 0 .. NumFunctions - 1

ASSUME SizesAssumption ==
    /\ Capacity \in Nat \ {0} /\ Align \in Nat \ {0} /\ NumFunctions \in Nat \ {0}
ASSUME WordsAssumption ==
    /\ IsFiniteSet(Words) /\ IsFiniteSet(Pads)
    /\ Words \cap Pads = {} /\ Cardinality(Pads) >= Capacity - 1
ASSUME ModulusAssumption ==
    /\ Modulus \in Nat /\ Modulus > Cardinality(Bins)
    /\ RandomBlocks # {} /\ RandomBlocks \subseteq 0 .. Modulus - 1
ASSUME MarksAssumption ==
    /\ Empty \notin [id : Nat, fn : Nat] /\ Empty \notin Int /\ Junk \notin Int
    /\ Empty \notin [table : [Bins -> [id : Nat, fn : Nat] \cup {Empty}], stash : SUBSET Nat]

VARIABLES
    setX, setY,     \* the words of the receiver's and of the sender's set
    lut,            \* the hash functions, drawn from the same seed by both
    io,             \* the stream from the receiver to the sender
    io2,            \* the stream from the sender to the receiver
    misread,        \* something was read as what it is not
    rpc,            \* where the receiver is
    elements,       \* its vec: the words of its set, then random ones
    placement,      \* its cuckoo table after MapElements
    opened,         \* its eq_blocks, bin by bin
    rAns, rSum,     \* its shares of the equality bits, and its psi_ca_ans
    result,         \* its block_ans, or Empty
    spc,            \* where the sender is
    simple,         \* its simple_table_vec: the keys of each bin, in a row
    sbins,          \* its nbins
    sAns, sOt       \* its shares of the equality bits, and its vec_result_real

inputs   == <<setX, setY, lut>>
streams  == <<io, io2, misread>>
receiver == <<rpc, elements, placement, opened, rAns, rSum, result>>
sender   == <<spc, simple, sbins, sAns, sOt>>
vars     == <<inputs, streams, receiver, sender>>

HP == INSTANCE HashPlacement WITH Values <- Words \cup Pads

Init ==
    /\ setX \in {S \in SUBSET Words : S # {} /\ Cardinality(S) <= Capacity}
    /\ setY \in SUBSET Words
    /\ lut \in [Words \cup Pads -> [Functions -> Bins]]
    /\ io = <<>> /\ io2 = <<>> /\ misread = FALSE
    /\ rpc = "nbins" /\ elements = <<>> /\ placement = Empty /\ opened = <<>>
    /\ rAns = <<>> /\ rSum = 0 /\ result = Empty
    /\ spc = "nbins" /\ simple = <<>> /\ sbins = 0 /\ sAns = <<>> /\ sOt = <<>>

\* A sum of blocks, and the exclusive or of two bits.
Sum(f)    == MapThenSumSet(LAMBDA b : f[b], DOMAIN f) % Modulus
Xor(a, c) == (a + c) % 2

\* Reading the next message of a stream as one of the given kind.
Read(stream, kind) ==
    /\ stream # <<>>
    /\ misread' = (misread \/ Head(stream).kind # kind)

-----------------------------------------------------------------------------
(* The receiver                                                            *)

\* nbins, the same for both.
R_SendBins ==
    /\ rpc = "nbins" /\ rpc' = "map"
    /\ io' = Append(io, [kind |-> "nbins", body |-> NumBinsOf(Capacity)])
    /\ UNCHANGED <<inputs, io2, misread, elements, placement, opened, rAns, rSum,
                   result, sender>>

\* After getchar(): the words of the set, then random ones up to Capacity, are
\* inserted and mapped.  A stash is reported on stderr, and left out of the rest.
R_Map ==
    /\ rpc = "map" /\ rpc' = "oprf"
    /\ elements' = SetToSeq(setX) \o
                   SubSeq(SetToSeq(Pads), 1, Capacity - Cardinality(setX))
    /\ placement' \in HP!Placements(elements', lut)
    /\ UNCHANGED <<inputs, streams, opened, rAns, rSum, result, sender>>

Active    == {b \in Bins : placement.table[b] # Empty}
WordIn(b) == elements[placement.table[b].id]
KeyIn(b)  == <<placement.table[b].fn, WordIn(b)>>

\* Client1: the seed, then an OKVS that is zero at the receiver's keys, masked.
R_Oprf ==
    /\ rpc = "oprf" /\ rpc' = "okvs size"
    /\ io' = io \o <<[kind |-> "seed", body |-> 0],
                     [kind |-> "vector", body |-> {KeyIn(b) : b \in Active}]>>
    /\ UNCHANGED <<inputs, io2, misread, elements, placement, opened, rAns, rSum,
                   result, sender>>

\* The size is read and not used: the receiver has its own.
R_ReceiveOkvsSize ==
    /\ rpc = "okvs size" /\ rpc' = "okvs"
    /\ Read(io2, "size") /\ io2' = Tail(io2)
    /\ UNCHANGED <<inputs, io, elements, placement, opened, rAns, rSum, result, sender>>

\* A variant that is no part of the model: a word is looked up by itself,
\* whichever function placed it.
OpenByWord(okvs, b) ==
    IF \E p \in okvs : p.key[2] = WordIn(b)
    THEN (CHOOSE p \in okvs : p.key[2] = WordIn(b)).bin
    ELSE Junk

\* What the sender's OKVS opens to at the key of bin b, once the receiver's own OPRF
\* value is taken off.
Open(okvs, b) ==
    IF \E p \in okvs : p.key = KeyIn(b)
    THEN (CHOOSE p \in okvs : p.key = KeyIn(b)).bin
    ELSE Junk

\* A bin without a word keeps the zero block.
R_ReceiveOkvs ==
    /\ rpc = "okvs" /\ rpc' = "equality"
    /\ Read(io2, "okvs") /\ io2' = Tail(io2)
    /\ opened' = [b \in Bins |-> IF b \in Active THEN Open(Head(io2).body, b) ELSE Empty]
    /\ UNCHANGED <<inputs, io, elements, placement, rAns, rSum, result, sender>>

\* A variant that is no part of the model: the sums are subtracted in reverse.
R_ReceiveSumReversed ==
    /\ rpc = "sum" /\ rpc' = "done"
    /\ Read(io2, "sum") /\ io2' = Tail(io2)
    /\ result' = (rSum - Head(io2).body) % Modulus
    /\ UNCHANGED <<inputs, io, elements, placement, opened, rAns, rSum, sender>>

\* The sender's sum comes last; sub_with_borrow leaves the count.
R_ReceiveSum ==
    /\ rpc = "sum" /\ rpc' = "done"
    /\ Read(io2, "sum") /\ io2' = Tail(io2)
    /\ result' = (Head(io2).body - rSum) % Modulus
    /\ UNCHANGED <<inputs, io, elements, placement, opened, rAns, rSum, sender>>

-----------------------------------------------------------------------------
(* The sender                                                              *)

\* SimpleTable::Insert and AsRaw2DVectorNoID: word after word, each under all of its
\* functions, every key at the end of the row of its bin.
SimpleTable(words, nbins) ==
    LET total  == NumFunctions * Len(words)
        key(k) == <<(k - 1) % NumFunctions, words[1 + (k - 1) \div NumFunctions]>>
        rows[k \in 0 .. total] ==
          IF k = 0 THEN [b \in 0 .. nbins - 1 |-> <<>>]
          ELSE [rows[k - 1] EXCEPT ![lut[key(k)[2]][key(k)[1]]] = Append(@, key(k))]
    IN  rows[total]

\* The number of bins comes first.
S_ReceiveBins ==
    /\ spc = "nbins" /\ spc' = "seed"
    /\ Read(io, "nbins") /\ io' = Tail(io)
    /\ sbins' = Head(io).body
    /\ simple' = SimpleTable(SetToSeq(setY), Head(io).body)
    /\ UNCHANGED <<inputs, io2, receiver, sAns, sOt>>

\* A variant that is no part of the model: the seed is read as two blocks.
S_ReceiveSeedTwice ==
    /\ spc = "seed" /\ spc' = "vector"
    /\ Len(io) >= 2 /\ Read(io, "seed") /\ io' = Tail(Tail(io))
    /\ UNCHANGED <<inputs, io2, receiver, simple, sbins, sAns, sOt>>

\* After getchar(), Server1: the seed, then the masked vector.
S_ReceiveSeed ==
    /\ spc = "seed" /\ spc' = "vector"
    /\ Read(io, "seed") /\ io' = Tail(io)
    /\ UNCHANGED <<inputs, io2, receiver, simple, sbins, sAns, sOt>>

\* What is sent for the OKVS of send_baxos to open to: simple_table_1d, the rows one
\* after the other, with t[i] at each position that lies in row i.
Pairs ==
    LET row(i) == simple[i - 1]
        keys   == FlattenSeq([i \in 1 .. sbins |-> row(i)])
        blocks == FlattenSeq([i \in 1 .. sbins |-> [j \in DOMAIN row(i) |-> i - 1]])
    IN  {[key |-> keys[tmp], bin |-> blocks[tmp]] : tmp \in DOMAIN keys}

\* A variant that is no part of the model: the OKVS goes before its size.
S_SendOkvsFirst ==
    /\ spc = "vector" /\ spc' = "equality"
    /\ Read(io, "vector") /\ io' = Tail(io)
    /\ io2' = io2 \o <<[kind |-> "okvs", body |-> Pairs], [kind |-> "size", body |-> 0]>>
    /\ UNCHANGED <<inputs, receiver, simple, sbins, sAns, sOt>>

\* With the vector the sender can mask every key (Evaluate1).
S_SendOkvs ==
    /\ spc = "vector" /\ spc' = "equality"
    /\ Read(io, "vector") /\ io' = Tail(io)
    /\ io2' = io2 \o <<[kind |-> "size", body |-> 0], [kind |-> "okvs", body |-> Pairs]>>
    /\ UNCHANGED <<inputs, receiver, simple, sbins, sAns, sOt>>

\* The sum of the first nbins blocks received by oblivious transfer.
S_SendSum ==
    /\ spc = "sum" /\ spc' = "done"
    /\ io2' = Append(io2, [kind |-> "sum", body |-> Sum(sOt)])
    /\ UNCHANGED <<inputs, io, misread, receiver, simple, sbins, sAns, sOt>>

-----------------------------------------------------------------------------
(* The subprotocols both take part in                                      *)

\* perform_block_equality: one bit per bin, shared by exclusive or, that says whether
\* the receiver's block and the sender's t[b] are equal.
Equality ==
    /\ rpc = "equality" /\ rpc' = "ot"
    /\ spc = "equality" /\ spc' = "ot"
    /\ rAns' \in [Bins -> {0, 1}]
    /\ sAns' = [b \in 0 .. sbins - 1 |-> Xor(rAns'[b], IF opened[b] = b THEN 1 ELSE 0)]
    /\ UNCHANGED <<inputs, streams, elements, placement, opened, rSum, result,
                   simple, sbins, sOt>>

\* A variant that is no part of the model: the share selects the payload.
MessagesSwapped(r, p, b) ==
    [choice \in {0, 1} |-> IF choice = rAns[b] THEN (r[b] + p[b]) % Modulus ELSE r[b]]

\* The receiver's two messages for bin b: its own share selects the random block r,
\* the other the block plus the payload.  Past the last occupied bin idxs[j] is read
\* beyond the end of idxs: the payload there is whatever map[] then yields.
Payloads ==
    {p \in [Bins -> {0, 1}] :
       /\ \A b \in Active : p[b] = 1
       /\ \A b \in Bins \ Active : (\E c \in Active : b < c) => p[b] = 0}
Messages(r, p, b) ==
    [choice \in {0, 1} |-> IF choice = rAns[b] THEN r[b] ELSE (r[b] + p[b]) % Modulus]

\* IKNPOTE over io2: of each pair the sender gets the message its share selects.
Transfer ==
    /\ rpc = "ot" /\ rpc' = "sum"
    /\ spc = "ot" /\ spc' = "sum"
    /\ \E r \in [Bins -> RandomBlocks], p \in Payloads :
         /\ rSum' = Sum([b \in Bins |-> Messages(r, p, b)[rAns[b]]])
         /\ sOt' = [b \in 0 .. sbins - 1 |-> Messages(r, p, b)[sAns[b]]]
    /\ UNCHANGED <<inputs, streams, elements, placement, opened, rAns, result,
                   simple, sbins, sAns>>

Receiver ==
    R_SendBins \/ R_Map \/ R_Oprf \/ R_ReceiveOkvsSize \/ R_ReceiveOkvs \/ R_ReceiveSum
Sender   == S_ReceiveBins \/ S_ReceiveSeed \/ S_SendOkvs \/ S_SendSum

Next == Receiver \/ Sender \/ Equality \/ Transfer

\* Two processes that keep running; the user presses the keys they wait for.
Spec ==
    /\ Init /\ [][Next]_vars
    /\ WF_vars(Receiver) /\ WF_vars(Sender) /\ WF_vars(Equality) /\ WF_vars(Transfer)

-----------------------------------------------------------------------------

\* After the equality circuit the two shares of a bin differ iff the bin holds a word
\* of the sender: the key of the receiver's function and the sender's keys agree on
\* the bin, and neither an empty bin nor a random word passes for a match.
SharesMarkCommon ==
    rpc \in {"ot", "sum", "done"} =>
      \A b \in Bins : rAns[b] # sAns[b] <=> b \in Active /\ WordIn(b) \in setY

\* Each bin contributes to the difference of the sums exactly its match, whatever
\* random block hides it and whatever payload an empty bin was given.
EachBinCountsItsMatch ==
    rpc \in {"sum", "done"} =>
      (Sum(sOt) - rSum) % Modulus =
        Cardinality({b \in Active : WordIn(b) \in setY})

\* Every read of a stream finds the message it was meant for, and none is left when both
\* are done, although the streams carry bare bytes and each party decides alone what to
\* read next.
ReadsMatch ==
    /\ ~misread
    /\ rpc = "done" /\ spc = "done" => io = <<>> /\ io2 = <<>>

\* Neither party waits for the other for ever.
BothFinish == <>(rpc = "done" /\ spc = "done")

\* The protocol computes the count of common words less those in the stash.
Ideal == INSTANCE IntersectionCount WITH
    NoAnswer <- Empty,
    answer <- result,
    lost <- IF placement = Empty THEN {}
            ELSE {elements[i] : i \in placement.stash} \cap setX
CountIsIdeal == Ideal!Spec
=============================================================================
