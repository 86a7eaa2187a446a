--------------------------- MODULE BlockArithmetic ---------------------------
(***************************************************************************)
(* The 128-bit arithmetic of triangle_counting/circuit_psi.cpp, which has  *)
(* only SSE2 instructions on four dwords or two lanes of 64 bits to build  *)
(* on, and the two sums it serves: the receiver adds up random blocks, the *)
(* sender the same blocks with the payloads on top, both wrap around, and  *)
(* the difference is the count.                                            *)
(***************************************************************************)
EXTENDS Integers

CONSTANTS
    Radix,          \* 2^32, of a dword
    RandomValues,   \* bound: the values of the random blocks
    MaxCount        \* bound: payloads added

LaneRadix  == Radix * Radix
BlockRadix == LaneRadix * LaneRadix

ASSUME RadixAssumption == Radix \in Nat /\ Radix > 0 /\ Radix % 2 = 0
ASSUME ValuesAssumption == RandomValues \subseteq 0 .. BlockRadix - 1
ASSUME CountAssumption == MaxCount \in Nat /\ MaxCount < BlockRadix

Dwords    == 0 .. Radix - 1
Blocks    == [0 .. 3 -> Dwords]
Lanes     == {0, 1}
Ones      == Radix - 1       \* a dword of ones

VARIABLES
    received,    \* psi_ca_ans of psi_ca_receiver: the sum of ot[ans[i]][i]
    sent,        \* psi_ca_ans of psi_ca_sender: the sum of vec_result_real[i]
    count        \* the payloads added so far

vars == <<received, sent, count>>

\* A lane of a block, a block of two lanes, and the number a block stands for.
Lane(b, k)          == b[2 * k] + Radix * b[2 * k + 1]
FromLanes(low, high) ==
    [i \in 0 .. 3 |-> LET v == IF i < 2 THEN low ELSE high
                      IN  IF i % 2 = 0 THEN v % Radix ELSE v \div Radix]
ToBlock(n)          == FromLanes(n % LaneRadix, n \div LaneRadix)
Value(b)            == Lane(b, 0) + LaneRadix * Lane(b, 1)

-----------------------------------------------------------------------------
(* The instructions                                                        *)

Signed(d)         == IF d >= Radix \div 2 THEN d - Radix ELSE d
FlipSigns(b)      == [i \in 0 .. 3 |-> (b[i] + Radix \div 2) % Radix]
CmpGtEpi32(a, b)  == [i \in 0 .. 3 |-> IF Signed(a[i]) > Signed(b[i]) THEN Ones ELSE 0]
CmpEqEpi32(a, b)  == [i \in 0 .. 3 |-> IF a[i] = b[i] THEN Ones ELSE 0]
\* And, or: of dwords that are all ones or all zeros, as comparisons give them.
AndMask(a, b)     == [i \in 0 .. 3 |-> IF a[i] = Ones THEN b[i] ELSE 0]
OrMask(a, b)      == [i \in 0 .. 3 |-> IF a[i] = Ones THEN Ones ELSE b[i]]
\* _mm_shuffle_epi32 by 0xA0 and by 0xF5: the low, the high dword of each lane twice.
ShuffleLow(a)     == [i \in 0 .. 3 |-> a[2 * (i \div 2)]]
ShuffleHigh(a)    == [i \in 0 .. 3 |-> a[2 * (i \div 2) + 1]]
AddEpi64(x, y)    == FromLanes((Lane(x, 0) + Lane(y, 0)) % LaneRadix,
                               (Lane(x, 1) + Lane(y, 1)) % LaneRadix)
SubEpi64(x, y)    == FromLanes((Lane(x, 0) - Lane(y, 0)) % LaneRadix,
                               (Lane(x, 1) - Lane(y, 1)) % LaneRadix)
\* _mm_unpacklo_epi64 with zero: the low lane moves up.
LowLaneUp(a)      == FromLanes(0, Lane(a, 0))

-----------------------------------------------------------------------------
(* The functions                                                           *)

\* Variants of the next functions, each with a slip that some property catches; they
\* are no part of the model.
SignedLessThan(a, b) ==
    LET bigger == CmpGtEpi32(b, a)
    IN  ShuffleHigh(OrMask(bigger, AndMask(CmpEqEpi32(b, a), ShuffleLow(bigger))))
AddWithoutCarry(x, y) == AddEpi64(x, y)

\* unsigned_lessthan: lane by lane, all ones where a < b.
unsigned_lessthan(a, b) ==
    LET equal   == CmpEqEpi32(b, a)
        bigger  == CmpGtEpi32(FlipSigns(b), FlipSigns(a))
        eqbig   == AndMask(equal, ShuffleLow(bigger))
    IN  ShuffleHigh(OrMask(bigger, eqbig))

\* The carry out of the low lane is a lane of ones, and subtracting it adds one.
add_with_carry(x, y) ==
    LET z == AddEpi64(x, y)
    IN  SubEpi64(z, LowLaneUp(unsigned_lessthan(z, x)))

invert_block(a) == [i \in 0 .. 3 |-> Ones - a[i]]

sub_with_borrow(x, y) ==
    add_with_carry(x, add_with_carry(invert_block(y), ToBlock(1)))

-----------------------------------------------------------------------------
(* The two sums                                                            *)

Init ==
    /\ received = ToBlock(0) /\ sent = ToBlock(0) /\ count = 0

\* Bin by bin: the receiver adds the message its share selects, a random block; the
\* sender the message of its own share, with the payload on top where there is a match.
AddBin(random, payload) ==
    /\ count + payload <= MaxCount
    /\ received' = add_with_carry(received, random)
    /\ sent' = add_with_carry(sent, add_with_carry(random, ToBlock(payload)))
    /\ count' = count + payload

Next == \E r \in RandomValues, p \in {0, 1} : AddBin(ToBlock(r), p)

Spec == Init /\ [][Next]_vars

-----------------------------------------------------------------------------

\* sub_with_borrow recovers the count from the two sums, in all 128 bits, however often
\* either sum has wrapped around and wherever the carries went.
DifferenceIsCount == Value(sub_with_borrow(sent, received)) = count

\* unsigned_lessthan compares both lanes as unsigned 64-bit words, although only signed
\* comparisons of dwords are to be had.
ComparesLanes ==
    \A k \in Lanes :
      Lane(unsigned_lessthan(sent, received), k) =
        IF Lane(sent, k) < Lane(received, k) THEN LaneRadix - 1 ELSE 0
=============================================================================
