----------------------- MODULE BlockArithmetic_proofs -----------------------
(***************************************************************************)
(* For dwords of any even radix, 2^32 among them: the comparison built     *)
(* from signed instructions is the unsigned one, adding with the carry is  *)
(* addition modulo the radix of a block, and so the difference of the two  *)
(* sums is the count after any number of bins.                             *)
(*                                                                         *)
(* The argument: flipping the top bit of a dword subtracts half the radix  *)
(* from its signed value, so signed comparison after the flip is unsigned  *)
(* comparison before; a lane that is less than the lanes it was summed     *)
(* from has overflowed once; and the sums stay congruent to each other but *)
(* for the count.                                                          *)
(***************************************************************************)
EXTENDS BlockArithmetic, TLAPS

\* The radices of dwords, lanes and blocks.
LEMMA Radices ==
    /\ Radix \in Nat /\ Radix >= 2
    /\ Radix \div 2 \in Nat /\ 2 * (Radix \div 2) = Radix
    /\ LaneRadix \in Nat /\ LaneRadix >= 2 /\ LaneRadix = Radix * Radix
<1>1. Radix \in Nat /\ Radix > 0 /\ Radix % 2 = 0
  BY RadixAssumption
<1>2. Radix >= 2 /\ Radix \div 2 \in Nat /\ 2 * (Radix \div 2) = Radix
  BY <1>1
<1>3. Radix * Radix \in Nat /\ Radix * Radix >= 2
  BY <1>1, <1>2
<1> QED
  BY <1>1, <1>2, <1>3 DEF LaneRadix

LEMMA BlockRadixType == BlockRadix \in Nat /\ BlockRadix = LaneRadix * LaneRadix
BY Radices DEF BlockRadix

\* A number modulo another.
LEMMA Remainder ==
    ASSUME NEW n \in Nat \ {0}, NEW a \in Int
    PROVE  /\ 0 <= a /\ a < n => a % n = a
           /\ n <= a /\ a < 2 * n => a % n = a - n
           /\ -n <= a /\ a < 0 => a % n = a + n
OBVIOUS

\* A number of two digits of radix r.
LEMMA TwoDigits ==
    ASSUME NEW r \in Nat \ {0}, NEW lo \in 0 .. r - 1, NEW hi \in 0 .. r - 1
    PROVE  lo + r * hi \in 0 .. r * r - 1
<1>1. r * hi \in Int /\ r * hi >= 0 /\ r * hi <= r * (r - 1)
  OBVIOUS
<1>2. r * (r - 1) = r * r - r /\ r * r \in Int
  OBVIOUS
<1> QED
  BY <1>1, <1>2

LEMMA SplitDigits ==
    ASSUME NEW r \in Nat \ {0}, NEW v \in 0 .. r * r - 1
    PROVE  /\ v % r \in 0 .. r - 1 /\ v \div r \in 0 .. r - 1
           /\ v = (v % r) + r * (v \div r)
<1> DEFINE q == v \div r
           m == v % r
<1>1. v \in Nat /\ v < r * r /\ r * r \in Nat
  OBVIOUS
<1>2. q \in Int /\ m \in 0 .. r - 1 /\ v = m + r * q
  BY <1>1
<1>3. q >= 0
  <2> SUFFICES ASSUME q <= -1 PROVE FALSE
    BY <1>2
  <2>1. r * q <= -r
    BY <1>2
  <2> QED
    BY <1>1, <1>2, <2>1
<1>4. q < r
  <2> SUFFICES ASSUME q >= r PROVE FALSE
    BY <1>2
  <2>1. r * q >= r * r
    BY <1>2
  <2> QED
    BY <1>1, <1>2, <2>1
<1> QED
  BY <1>2, <1>3, <1>4

\* Numbers of two digits are ordered by the high digit first.
LEMMA DigitOrder ==
    ASSUME NEW r \in Nat \ {0},
           NEW a0 \in 0 .. r - 1, NEW a1 \in 0 .. r - 1,
           NEW b0 \in 0 .. r - 1, NEW b1 \in 0 .. r - 1
    PROVE  a0 + r * a1 < b0 + r * b1 <=> a1 < b1 \/ (a1 = b1 /\ a0 < b0)
<1>1. r * a1 \in Int /\ r * b1 \in Int
  OBVIOUS
<1>2. CASE a1 < b1
  <2>1. r * (a1 + 1) <= r * b1 /\ r * (a1 + 1) = r * a1 + r
    BY <1>2
  <2> QED
    BY <1>1, <1>2, <2>1
<1>3. CASE a1 = b1
  BY <1>1, <1>3
<1>4. CASE b1 < a1
  <2>1. r * (b1 + 1) <= r * a1 /\ r * (b1 + 1) = r * b1 + r
    BY <1>4
  <2> QED
    BY <1>1, <1>4, <2>1
<1> QED
  BY <1>2, <1>3, <1>4

-----------------------------------------------------------------------------
(* Lanes                                                                   *)

Lane64 == 0 .. LaneRadix - 1

\* A lane is a number of two dwords, a block one of two lanes.
LEMMA LaneType ==
    ASSUME NEW b \in Blocks, NEW k \in Lanes
    PROVE  Lane(b, k) \in Lane64
<1>1. b[2 * k] \in 0 .. Radix - 1 /\ b[2 * k + 1] \in 0 .. Radix - 1
  BY DEF Blocks, Lanes, Dwords
<1>2. Radix \in Nat \ {0}
  BY Radices
<1>3. b[2 * k] + Radix * b[2 * k + 1] \in 0 .. Radix * Radix - 1
  BY <1>1, <1>2, TwoDigits
<1> QED
  BY <1>3 DEF Lane, Lane64, LaneRadix

\* Two lanes make a block of these lanes.
LEMMA LanesOfBlock ==
    ASSUME NEW low \in Lane64, NEW high \in Lane64
    PROVE  /\ FromLanes(low, high) \in Blocks
           /\ Lane(FromLanes(low, high), 0) = low
           /\ Lane(FromLanes(low, high), 1) = high
<1> DEFINE b == FromLanes(low, high)
<1>1. Radix \in Nat \ {0} /\ LaneRadix = Radix * Radix
  BY Radices
<1>2. ASSUME NEW v \in Lane64
      PROVE  /\ v % Radix \in 0 .. Radix - 1 /\ v \div Radix \in 0 .. Radix - 1
             /\ v = (v % Radix) + Radix * (v \div Radix)
  BY <1>1, <1>2, SplitDigits DEF Lane64
<1>3. /\ b[0] = low % Radix  /\ b[1] = low \div Radix
      /\ b[2] = high % Radix /\ b[3] = high \div Radix
  BY DEF FromLanes
<1>4. b \in Blocks
  <2>1. /\ b = [i \in 0 .. 3 |-> b[i]]
        /\ \A i \in 0 .. 3 : i = 0 \/ i = 1 \/ i = 2 \/ i = 3
    BY DEF FromLanes
  <2>2. \A i \in 0 .. 3 : b[i] \in Dwords
    BY <1>2, <1>3, <2>1 DEF Dwords
  <2> HIDE DEF b
  <2> QED
    BY <2>1, <2>2 DEF Blocks
<1>5. Lane(b, 0) = b[0] + Radix * b[1] /\ Lane(b, 1) = b[2] + Radix * b[3]
  BY DEF Lane
<1> HIDE DEF b
<1>6. Lane(b, 0) = low /\ Lane(b, 1) = high
  BY <1>2, <1>3, <1>5
<1> QED
  BY <1>4, <1>6 DEF b

\* What a block stands for.
LEMMA ValueType ==
    ASSUME NEW b \in Blocks
    PROVE  Value(b) \in 0 .. BlockRadix - 1
<1>1. Lane(b, 0) \in 0 .. LaneRadix - 1 /\ Lane(b, 1) \in 0 .. LaneRadix - 1
  BY LaneType DEF Lanes, Lane64
<1>2. LaneRadix \in Nat \ {0}
  BY Radices
<1>3. Lane(b, 0) + LaneRadix * Lane(b, 1) \in 0 .. LaneRadix * LaneRadix - 1
  BY <1>1, <1>2, TwoDigits
<1> QED
  BY <1>3 DEF Value, BlockRadix

LEMMA BlockOfNumber ==
    ASSUME NEW n \in 0 .. BlockRadix - 1
    PROVE  ToBlock(n) \in Blocks /\ Value(ToBlock(n)) = n
<1>1. LaneRadix \in Nat \ {0} /\ n \in 0 .. LaneRadix * LaneRadix - 1
  BY Radices, BlockRadixType
<1>2. /\ n % LaneRadix \in 0 .. LaneRadix - 1 /\ n \div LaneRadix \in 0 .. LaneRadix - 1
      /\ n = (n % LaneRadix) + LaneRadix * (n \div LaneRadix)
  BY <1>1, SplitDigits
<1>3. /\ ToBlock(n) \in Blocks
      /\ Lane(ToBlock(n), 0) = n % LaneRadix /\ Lane(ToBlock(n), 1) = n \div LaneRadix
  BY <1>2, LanesOfBlock DEF ToBlock, Lane64
<1> QED
  BY <1>2, <1>3 DEF Value

-----------------------------------------------------------------------------
(* The comparison                                                          *)

\* Flipping the top bit lowers the signed value by half the radix.
LEMMA FlipLowers ==
    ASSUME NEW d \in Dwords
    PROVE  Signed((d + Radix \div 2) % Radix) = d - Radix \div 2
<1> DEFINE h == Radix \div 2
<1>1. Radix \in Nat \ {0} /\ h \in Nat /\ 2 * h = Radix /\ d \in 0 .. Radix - 1
  BY Radices DEF Dwords
<1> HIDE DEF h
<1>2. CASE d < h
  <2>1. (d + h) % Radix = d + h
    BY <1>1, <1>2
  <2> QED
    BY <1>1, <1>2, <2>1 DEF Signed, h
<1>3. CASE d >= h
  <2>1. (d + h) % Radix = d + h - Radix
    BY <1>1, <1>3
  <2> QED
    BY <1>1, <1>3, <2>1 DEF Signed, h
<1> QED
  BY <1>1, <1>2, <1>3

\* The comparison is unsigned, lane by lane.
LEMMA LessThan ==
    ASSUME NEW a \in Blocks, NEW b \in Blocks, NEW k \in Lanes
    PROVE  Lane(unsigned_lessthan(a, b), k) =
             IF Lane(a, k) < Lane(b, k) THEN LaneRadix - 1 ELSE 0
<1> DEFINE bigger == CmpGtEpi32(FlipSigns(b), FlipSigns(a))
           equal  == CmpEqEpi32(b, a)
           result == unsigned_lessthan(a, b)
<1>1. /\ Radix \in Nat /\ Radix >= 2 /\ Radix \div 2 \in Nat
      /\ LaneRadix = Radix * Radix /\ LaneRadix \in Nat
  BY Radices
<1>2. \A i \in 0 .. 3 : a[i] \in 0 .. Radix - 1 /\ b[i] \in 0 .. Radix - 1
  BY DEF Blocks, Dwords
<1>3. \A i \in 0 .. 3 : bigger[i] = IF a[i] < b[i] THEN Ones ELSE 0
  <2> SUFFICES ASSUME NEW i \in 0 .. 3
               PROVE  bigger[i] = IF a[i] < b[i] THEN Ones ELSE 0
    OBVIOUS
  <2>1. bigger[i] = IF Signed((b[i] + Radix \div 2) % Radix)
                         > Signed((a[i] + Radix \div 2) % Radix) THEN Ones ELSE 0
    BY DEF CmpGtEpi32, FlipSigns
  <2>2. /\ Signed((b[i] + Radix \div 2) % Radix) = b[i] - Radix \div 2
        /\ Signed((a[i] + Radix \div 2) % Radix) = a[i] - Radix \div 2
    BY <1>2, FlipLowers DEF Dwords
  <2> QED
    BY <1>1, <1>2, <2>1, <2>2
<1>4. \A i \in 0 .. 3 : equal[i] = IF a[i] = b[i] THEN Ones ELSE 0
  BY DEF CmpEqEpi32
<1> DEFINE l == 2 * k
           h == 2 * k + 1
<1>5. /\ l \in 0 .. 3 /\ h \in 0 .. 3
      /\ 2 * (l \div 2) + 1 = h /\ 2 * (h \div 2) + 1 = h /\ 2 * (h \div 2) = l
  BY DEF Lanes
<1>6. result = ShuffleHigh(OrMask(bigger, AndMask(equal, ShuffleLow(bigger))))
  BY DEF unsigned_lessthan
<1> HIDE DEF bigger, equal, result
<1>7. /\ result[l] = OrMask(bigger, AndMask(equal, ShuffleLow(bigger)))[h]
      /\ result[h] = OrMask(bigger, AndMask(equal, ShuffleLow(bigger)))[h]
  <2> HIDE DEF l, h
  <2> QED
    BY <1>5, <1>6 DEF ShuffleHigh
<1>8. OrMask(bigger, AndMask(equal, ShuffleLow(bigger)))[h] =
        IF bigger[h] = Ones THEN Ones
        ELSE IF equal[h] = Ones THEN bigger[l] ELSE 0
  <2> HIDE DEF l, h
  <2> QED
    BY <1>5 DEF OrMask, AndMask, ShuffleLow
<1> DEFINE less == a[h] < b[h] \/ (a[h] = b[h] /\ a[l] < b[l])
<1>9. result[l] = (IF less THEN Ones ELSE 0) /\ result[h] = (IF less THEN Ones ELSE 0)
  <2>1. Ones # 0
    BY <1>1 DEF Ones
  <2>2. /\ bigger[h] = IF a[h] < b[h] THEN Ones ELSE 0
        /\ bigger[l] = IF a[l] < b[l] THEN Ones ELSE 0
        /\ equal[h] = IF a[h] = b[h] THEN Ones ELSE 0
    BY <1>3, <1>4, <1>5
  <2> HIDE DEF l, h
  <2> QED
    BY <1>7, <1>8, <2>1, <2>2
<1>10. Lane(a, k) < Lane(b, k) <=> less
  <2>1. Radix \in Nat \ {0}
    BY <1>1
  <2>2. a[l] + Radix * a[h] < b[l] + Radix * b[h] <=> less
    <3> HIDE DEF l, h
    <3>1. /\ a[l] \in 0 .. Radix - 1 /\ a[h] \in 0 .. Radix - 1
          /\ b[l] \in 0 .. Radix - 1 /\ b[h] \in 0 .. Radix - 1
      BY <1>2, <1>5
    <3>2. \A x0, x1, y0, y1 \in 0 .. Radix - 1 :
            x0 + Radix * x1 < y0 + Radix * y1 <=> x1 < y1 \/ (x1 = y1 /\ x0 < y0)
      BY <2>1, DigitOrder
    <3> QED
      BY <3>1, <3>2
  <2> QED
    BY <2>2 DEF Lane
<1>11. Lane(result, k) = result[l] + Radix * result[h]
  BY DEF Lane
<1>12. Ones + Radix * Ones = LaneRadix - 1 /\ 0 + Radix * 0 = 0
  BY <1>1 DEF Ones
<1>13. Lane(result, k) = IF less THEN LaneRadix - 1 ELSE 0
  <2> HIDE DEF l, h, less
  <2> QED
    BY <1>9, <1>11, <1>12
<1> QED
  BY <1>10, <1>13 DEF result

-----------------------------------------------------------------------------
(* The sums                                                                *)

\* Two numbers of two lanes, added lane by lane with the carry: what comes out is their
\* sum without the multiples of the block radix.
LEMMA CarryChain ==
    ASSUME NEW L \in Nat \ {0},
           NEW x0 \in 0 .. L - 1, NEW x1 \in 0 .. L - 1,
           NEW y0 \in 0 .. L - 1, NEW y1 \in 0 .. L - 1,
           NEW c \in {0, 1}, NEW z0 \in 0 .. L - 1, x0 + y0 = z0 + c * L,
           NEW q \in {0, 1}, NEW z1 \in 0 .. L - 1, x1 + y1 + c = z1 + q * L
    PROVE  (x0 + L * x1) + (y0 + L * y1) = (z0 + L * z1) + q * (L * L)
<1>1. c = 0 \/ c = 1
  OBVIOUS
<1>2. q = 0 \/ q = 1
  OBVIOUS
<1>3. L * (x1 + y1 + c) = L * x1 + L * y1 + L * c
  OBVIOUS
<1>4. L * (z1 + q * L) = L * z1 + q * (L * L)
  BY <1>2
<1>5. L * c = c * L
  OBVIOUS
<1> DEFINE A == L * x1
           B == L * y1
           Z == L * z1
           Q == q * (L * L)
           C == c * L
<1>6. A + B + C = Z + Q
  BY <1>3, <1>4, <1>5
<1>7. A \in Int /\ B \in Int /\ Z \in Int /\ Q \in Int /\ C \in Int
  <2>1. L * L \in Int
    OBVIOUS
  <2> QED
    BY <2>1
<1>8. x0 + y0 = z0 + C
  OBVIOUS
<1> HIDE DEF A, B, Z, Q, C
<1>9. (x0 + A) + (y0 + B) = (z0 + Z) + Q
  BY <1>6, <1>7, <1>8
<1> QED
  BY <1>9 DEF A, B, Z, Q

\* add_with_carry adds modulo the radix of a block.
LEMMA AddWithCarry ==
    ASSUME NEW x \in Blocks, NEW y \in Blocks
    PROVE  /\ add_with_carry(x, y) \in Blocks
           /\ \/ Value(add_with_carry(x, y)) = Value(x) + Value(y)
              \/ Value(add_with_carry(x, y)) = Value(x) + Value(y) - BlockRadix
<1> DEFINE L == LaneRadix
           x0 == Lane(x, 0)
           x1 == Lane(x, 1)
           y0 == Lane(y, 0)
           y1 == Lane(y, 1)
           z  == AddEpi64(x, y)
           up == LowLaneUp(unsigned_lessthan(z, x))
           s  == add_with_carry(x, y)
           c  == IF x0 + y0 < L THEN 0 ELSE 1
           q  == IF x1 + y1 + c < L THEN 0 ELSE 1
<1>1. L \in Nat \ {0} /\ L >= 2
  BY Radices
<1>2. /\ x0 \in 0 .. L - 1 /\ x1 \in 0 .. L - 1
      /\ y0 \in 0 .. L - 1 /\ y1 \in 0 .. L - 1
  BY LaneType DEF Lanes, Lane64
<1>3. ASSUME NEW v \in 0 .. L - 1, NEW w \in 0 .. L - 1
      PROVE  /\ (v + w) % L = (IF v + w < L THEN v + w ELSE v + w - L)
             /\ (v + w) % L \in 0 .. L - 1
  <2>1. v + w \in Int /\ 0 <= v + w /\ v + w < 2 * L
    BY <1>1
  <2>2. CASE v + w < L
    <3>1. (v + w) % L = v + w
      BY <1>1, <2>1, <2>2
    <3> QED
      BY <1>1, <2>1, <2>2, <3>1
  <2>3. CASE v + w >= L
    <3>1. (v + w) % L = v + w - L
      BY <1>1, <2>1, <2>3
    <3> QED
      BY <1>1, <2>1, <2>3, <3>1
  <2> QED
    BY <1>1, <2>1, <2>2, <2>3
<1>4. /\ z \in Blocks
      /\ Lane(z, 0) = (x0 + y0) % L /\ Lane(z, 1) = (x1 + y1) % L
  <2>1. (x0 + y0) % L \in Lane64 /\ (x1 + y1) % L \in Lane64
    BY <1>2, <1>3 DEF Lane64
  <2>2. z = FromLanes((x0 + y0) % L, (x1 + y1) % L)
    BY DEF AddEpi64
  <2> HIDE DEF z, x0, x1, y0, y1, L
  <2> QED
    BY <2>1, <2>2, LanesOfBlock
<1> DEFINE z0 == Lane(z, 0)
           w1 == Lane(z, 1)
<1>5. /\ z0 \in 0 .. L - 1 /\ w1 \in 0 .. L - 1
      /\ z0 = (IF x0 + y0 < L THEN x0 + y0 ELSE x0 + y0 - L)
      /\ w1 = (IF x1 + y1 < L THEN x1 + y1 ELSE x1 + y1 - L)
  <2> HIDE DEF z, x0, x1, y0, y1, L
  <2> QED
    BY <1>2, <1>3, <1>4
<1>6. Lane(unsigned_lessthan(z, x), 0) = IF c = 1 THEN L - 1 ELSE 0
  <2>1. Lane(unsigned_lessthan(z, x), 0) = IF z0 < x0 THEN L - 1 ELSE 0
    <3> HIDE DEF z
    <3> QED
      BY <1>4, LessThan DEF Lanes
  <2>2. z0 < x0 <=> c = 1
    <3> HIDE DEF x0, y0, z0, L
    <3> QED
      BY <1>1, <1>2, <1>5
  <2> QED
    BY <2>1, <2>2
<1>7. up \in Blocks /\ Lane(up, 0) = 0 /\ Lane(up, 1) = IF c = 1 THEN L - 1 ELSE 0
  <2>1. 0 \in Lane64 /\ L - 1 \in Lane64
    BY <1>1 DEF Lane64
  <2>2. Lane(unsigned_lessthan(z, x), 0) \in Lane64
    <3> HIDE DEF z, c, L
    <3> QED
      BY <1>6, <2>1
  <2>3. up = FromLanes(0, Lane(unsigned_lessthan(z, x), 0))
    BY DEF LowLaneUp
  <2> HIDE DEF up, z, c, L
  <2> QED
    BY <1>6, <2>1, <2>2, <2>3, LanesOfBlock
<1>8. /\ (z0 - Lane(up, 0)) % L = z0
      /\ (w1 - Lane(up, 1)) % L = x1 + y1 + c - q * L
      /\ x1 + y1 + c - q * L \in 0 .. L - 1
  <2>1. c \in {0, 1} /\ q \in {0, 1}
    OBVIOUS
  <2>2. x1 + y1 + c - q * L \in 0 .. L - 1
    <3>1. CASE q = 0
      <4>1. x1 + y1 + c < L
        BY <3>1
      <4> HIDE DEF L, x1, y1, c, q
      <4> QED
        BY <1>1, <1>2, <2>1, <3>1, <4>1
    <3>2. CASE q = 1
      <4>1. ~(x1 + y1 + c < L)
        BY <3>2
      <4> HIDE DEF L, x1, y1, c, q
      <4> QED
        BY <1>1, <1>2, <2>1, <3>2, <4>1
    <3> QED
      BY <3>1, <3>2
  <2>3. (z0 - Lane(up, 0)) % L = z0
    <3> HIDE DEF L, z0, up
    <3> QED
      BY <1>1, <1>5, <1>7
  <2>4. (w1 - Lane(up, 1)) % L = x1 + y1 + c - q * L
    <3>1. CASE c = 0
      <4>1. Lane(up, 1) = 0
        BY <1>7, <3>1
      <4>2. (w1 - Lane(up, 1)) % L = w1
        <5>1. w1 - Lane(up, 1) = w1
          <6> HIDE DEF L, w1, up
          <6> QED
            BY <1>1, <1>5, <4>1
        <5>2. w1 % L = w1
          <6> HIDE DEF L, w1
          <6> QED
            BY <1>1, <1>5
        <5> HIDE DEF L, w1, up
        <5> QED
          BY <5>1, <5>2
      <4>3. w1 = x1 + y1 - q * L
        <5>1. q = IF x1 + y1 < L THEN 0 ELSE 1
          <6> HIDE DEF L, x1, y1, c
          <6> QED
            BY <1>1, <1>2, <3>1
        <5> HIDE DEF L, w1, x1, y1, q
        <5> QED
          BY <1>1, <1>2, <1>5, <5>1
      <4> HIDE DEF L, w1, x1, y1, q, c, up
      <4> QED
        BY <1>1, <1>2, <2>1, <3>1, <4>2, <4>3
    <3>2. CASE c = 1
      <4>1. Lane(up, 1) = L - 1
        BY <1>7, <3>2
      <4>2. CASE w1 = L - 1
        <5>1. (w1 - Lane(up, 1)) % L = 0
          <6> HIDE DEF L, w1, up
          <6> QED
            BY <1>1, <1>5, <4>1, <4>2
        <5>2. q = 1 /\ x1 + y1 = L - 1
          <6>1. x1 + y1 = L - 1
            <7> HIDE DEF L, w1, x1, y1
            <7> QED
              BY <1>1, <1>2, <1>5, <4>2
          <6> HIDE DEF L, x1, y1, c
          <6> QED
            BY <1>1, <1>2, <3>2, <6>1
        <5> HIDE DEF L, w1, x1, y1, q, c, up
        <5> QED
          BY <1>1, <1>2, <3>2, <5>1, <5>2
      <4>3. CASE w1 # L - 1
        <5>1. (w1 - Lane(up, 1)) % L = w1 + 1
          <6> HIDE DEF L, w1, up
          <6>1. w1 - Lane(up, 1) \in Int /\ -L < w1 - Lane(up, 1) /\ w1 - Lane(up, 1) < 0
            BY <1>1, <1>5, <4>1, <4>3
          <6>2. (w1 - Lane(up, 1)) % L = (w1 - Lane(up, 1)) + L
            BY <1>1, <6>1
          <6> QED
            BY <1>1, <1>5, <4>1, <6>2
        <5>2. q = IF x1 + y1 < L THEN 0 ELSE 1
          <6> HIDE DEF L, w1, x1, y1, c
          <6> QED
            BY <1>1, <1>2, <1>5, <3>2, <4>3
        <5> HIDE DEF L, w1, x1, y1, q, c, up
        <5> QED
          BY <1>1, <1>2, <1>5, <3>2, <5>1, <5>2
      <4> QED
        BY <4>2, <4>3
    <3> QED
      BY <3>1, <3>2
  <2> QED
    BY <2>2, <2>3, <2>4
<1> DEFINE z1 == x1 + y1 + c - q * L
<1>9. s \in Blocks /\ Lane(s, 0) = z0 /\ Lane(s, 1) = z1
  <2>1. z0 \in Lane64 /\ z1 \in Lane64
    BY <1>5, <1>8 DEF Lane64
  <2>2. s = FromLanes((z0 - Lane(up, 0)) % L, (w1 - Lane(up, 1)) % L)
    BY DEF add_with_carry, SubEpi64
  <2>3. s = FromLanes(z0, z1)
    <3> HIDE DEF s, z0, w1, up, L, x1, y1, c, q
    <3> QED
      BY <1>8, <2>2
  <2> HIDE DEF s, z0, z1
  <2> QED
    BY <2>1, <2>3, LanesOfBlock
<1>10. (x0 + L * x1) + (y0 + L * y1) = (z0 + L * z1) + q * (L * L)
  <2>1. c \in {0, 1} /\ q \in {0, 1}
    OBVIOUS
  <2>2. x0 + y0 = z0 + c * L
    <3> HIDE DEF L, x0, y0, z0
    <3> QED
      BY <1>1, <1>2, <1>5
  <2>3. x1 + y1 + c = z1 + q * L /\ z1 \in 0 .. L - 1
    <3>1. z1 \in 0 .. L - 1
      BY <1>8
    <3>2. z1 = x1 + y1 + c - q * L
      OBVIOUS
    <3> HIDE DEF L, x1, y1, c, q, z1
    <3> QED
      BY <1>1, <1>2, <2>1, <3>1, <3>2
  <2> HIDE DEF L, x0, x1, y0, y1, z0, z1, c, q
  <2> QED
    BY <1>1, <1>2, <1>5, <2>1, <2>2, <2>3, CarryChain
<1>11. /\ Value(x) = x0 + L * x1 /\ Value(y) = y0 + L * y1
       /\ BlockRadix = L * L /\ q \in {0, 1}
  BY BlockRadixType DEF Value
<1>12. Value(s) = z0 + L * z1
  <2> HIDE DEF s, z0, z1
  <2> QED
    BY <1>9 DEF Value
<1>13. Value(x) + Value(y) = Value(s) + q * BlockRadix
  BY <1>10, <1>11, <1>12
<1> HIDE DEF s, q
<1>14. /\ Value(x) \in Int /\ Value(y) \in Int /\ Value(s) \in Int
       /\ BlockRadix \in Int
  BY <1>9, ValueType, BlockRadixType
<1>15. Value(s) = Value(x) + Value(y) \/ Value(s) = Value(x) + Value(y) - BlockRadix
  BY <1>11, <1>13, <1>14
<1> QED
  BY <1>9, <1>15 DEF s

\* Inverting a block takes its value from the largest.
LEMMA InvertBlock ==
    ASSUME NEW y \in Blocks
    PROVE  invert_block(y) \in Blocks /\ Value(invert_block(y)) = BlockRadix - 1 - Value(y)
<1> DEFINE i == invert_block(y)
<1>1. Radix \in Nat \ {0}
  BY Radices
<1>2. \A k \in 0 .. 3 : y[k] \in 0 .. Radix - 1 /\ i[k] = Radix - 1 - y[k]
  BY DEF invert_block, Ones, Blocks, Dwords
<1>3. i \in Blocks
  <2>1. i = [k \in 0 .. 3 |-> i[k]]
    BY DEF invert_block
  <2>2. \A k \in 0 .. 3 : i[k] \in Dwords
    BY <1>1, <1>2 DEF Dwords
  <2> HIDE DEF i
  <2> QED
    BY <2>1, <2>2 DEF Blocks
<1> HIDE DEF i
<1>4. ASSUME NEW u \in 0 .. Radix - 1, NEW v \in 0 .. Radix - 1
      PROVE  (Radix - 1 - u) + Radix * (Radix - 1 - v) = Radix * Radix - 1 - (u + Radix * v)
  <2>1. Radix * (Radix - 1 - v) = Radix * Radix - Radix - Radix * v
    BY <1>1
  <2>2. Radix * Radix \in Int /\ Radix * v \in Int
    BY <1>1
  <2> QED
    BY <1>1, <2>1, <2>2
<1>5. /\ Lane(i, 0) = LaneRadix - 1 - Lane(y, 0)
      /\ Lane(i, 1) = LaneRadix - 1 - Lane(y, 1)
  <2>1. /\ Lane(i, 0) = (Radix - 1 - y[0]) + Radix * (Radix - 1 - y[1])
        /\ Lane(i, 1) = (Radix - 1 - y[2]) + Radix * (Radix - 1 - y[3])
        /\ Lane(y, 0) = y[0] + Radix * y[1]
        /\ Lane(y, 1) = y[2] + Radix * y[3]
    BY <1>2 DEF Lane
  <2>2. /\ y[0] \in 0 .. Radix - 1 /\ y[1] \in 0 .. Radix - 1
        /\ y[2] \in 0 .. Radix - 1 /\ y[3] \in 0 .. Radix - 1
    BY <1>2
  <2> QED
    BY <1>4, <2>1, <2>2 DEF LaneRadix
<1> DEFINE y0 == Lane(y, 0)
           y1 == Lane(y, 1)
           L  == LaneRadix
<1>6. y0 \in 0 .. L - 1 /\ y1 \in 0 .. L - 1 /\ L \in Nat \ {0}
  BY Radices, LaneType DEF Lanes, Lane64
<1>7. Value(i) = (L - 1 - y0) + L * (L - 1 - y1)
  BY <1>5 DEF Value
<1>8. Value(y) = y0 + L * y1 /\ BlockRadix = L * L
  BY BlockRadixType DEF Value
<1> HIDE DEF y0, y1, L
<1>9. L * (L - 1 - y1) = L * L - L - L * y1 /\ L * L \in Int /\ L * y1 \in Int
  BY <1>6
<1>10. Value(i) = BlockRadix - 1 - Value(y)
  BY <1>6, <1>7, <1>8, <1>9
<1> QED
  BY <1>3, <1>10 DEF i

\* Two numbers below a bound that are congruent modulo it are the same.
LEMMA SameResidue ==
    ASSUME NEW n \in Nat \ {0}, NEW a \in 0 .. n - 1, NEW b \in 0 .. n - 1,
           NEW k \in {-2, -1, 0, 1, 2}, a = b + k * n
    PROVE  a = b
<1>1. CASE k = 0
  BY <1>1
<1>2. CASE k = 1
  BY <1>2
<1>3. CASE k = -1
  BY <1>3
<1>4. CASE k = 2
  BY <1>4
<1>5. CASE k = -2
  BY <1>5
<1> QED
  BY <1>1, <1>2, <1>3, <1>4, <1>5

\* sub_with_borrow subtracts modulo the radix of a block.
LEMMA SubWithBorrow ==
    ASSUME NEW x \in Blocks, NEW y \in Blocks
    PROVE  /\ sub_with_borrow(x, y) \in Blocks
           /\ \E k \in {-1, 0, 1} :
                Value(sub_with_borrow(x, y)) = Value(x) - Value(y) + k * BlockRadix
<1> DEFINE one == ToBlock(1)
           i   == invert_block(y)
           n   == add_with_carry(i, one)
           s   == add_with_carry(x, n)
           B   == BlockRadix
<1>1. B \in Nat /\ B > 1
  <2>1. LaneRadix \in Nat /\ LaneRadix >= 2 /\ BlockRadix = LaneRadix * LaneRadix
    BY Radices, BlockRadixType
  <2> QED
    BY <2>1
<1>2. one \in Blocks /\ Value(one) = 1
  <2>1. 1 \in 0 .. BlockRadix - 1
    BY <1>1
  <2> QED
    BY <2>1, BlockOfNumber
<1>3. i \in Blocks /\ Value(i) = B - 1 - Value(y)
  BY InvertBlock
<1>4. n \in Blocks /\ (Value(n) = Value(i) + Value(one) \/ Value(n) = Value(i) + Value(one) - B)
  <2> HIDE DEF one, i
  <2> QED
    BY <1>2, <1>3, AddWithCarry
<1>5. s \in Blocks /\ (Value(s) = Value(x) + Value(n) \/ Value(s) = Value(x) + Value(n) - B)
  <2> HIDE DEF n
  <2> QED
    BY <1>4, AddWithCarry
<1>6. sub_with_borrow(x, y) = s
  BY DEF sub_with_borrow
<1>7. /\ Value(x) \in Int /\ Value(y) \in Int
      /\ Value(n) \in Int /\ Value(i) \in Int /\ Value(s) \in Int
  <2> HIDE DEF n, i, s, one
  <2> QED
    BY <1>1, <1>3, <1>4, <1>5, ValueType
<1> HIDE DEF one, i, n, s, B
<1>8. Value(n) = B - Value(y) \/ Value(n) = -Value(y)
  BY <1>1, <1>2, <1>3, <1>4, <1>7
<1>9. \/ Value(s) = Value(x) - Value(y) + 1 * B
      \/ Value(s) = Value(x) - Value(y) + 0 * B
      \/ Value(s) = Value(x) - Value(y) + (-1) * B
  BY <1>1, <1>5, <1>7, <1>8
<1>10. \E k \in {-1, 0, 1} : Value(s) = Value(x) - Value(y) + k * B
  BY <1>9
<1> QED
  BY <1>5, <1>6, <1>10 DEF B

-----------------------------------------------------------------------------
(* The invariant                                                           *)

\* What the sender's sum holds is the receiver's and the count, less one wrap-around
\* when it has wrapped once more often.
Congruent ==
    \/ Value(sent) = Value(received) + count
    \/ Value(sent) = Value(received) + count - BlockRadix

IInv ==
    /\ received \in Blocks /\ sent \in Blocks /\ count \in 0 .. MaxCount
    /\ Congruent

LEMMA InitIInv == Init => IInv
<1> SUFFICES ASSUME Init PROVE IInv
  OBVIOUS
<1>1. 0 \in 0 .. BlockRadix - 1
  <2>1. MaxCount \in Nat /\ MaxCount < BlockRadix /\ BlockRadix \in Nat
    BY CountAssumption, BlockRadixType
  <2> QED
    BY <2>1
<1>2. ToBlock(0) \in Blocks /\ Value(ToBlock(0)) = 0
  BY <1>1, BlockOfNumber
<1>3. 0 \in 0 .. MaxCount
  BY CountAssumption
<1> QED
  BY <1>2, <1>3 DEF Init, IInv, Congruent

LEMMA StepIInv == IInv /\ [Next]_vars => IInv'
<1> SUFFICES ASSUME IInv, [Next]_vars PROVE IInv'
  OBVIOUS
<1>1. CASE UNCHANGED vars
  <2>1. received' = received /\ sent' = sent /\ count' = count
    BY <1>1 DEF vars
  <2> QED
    BY <2>1 DEF IInv, Congruent
<1>2. ASSUME NEW r \in RandomValues, NEW p \in {0, 1}, AddBin(ToBlock(r), p)
      PROVE  IInv'
  <2> DEFINE B == BlockRadix
             random == ToBlock(r)
             pay    == ToBlock(p)
             top    == add_with_carry(random, pay)
  <2>1. MaxCount \in Nat /\ MaxCount < B /\ B \in Nat /\ B > 1
    <3>1. LaneRadix \in Nat /\ LaneRadix >= 2 /\ BlockRadix = LaneRadix * LaneRadix
      BY Radices, BlockRadixType
    <3> QED
      BY <3>1, CountAssumption
  <2>2. random \in Blocks /\ Value(random) = r
    BY ValuesAssumption, BlockOfNumber
  <2>3. pay \in Blocks /\ Value(pay) = p
    <3>1. p \in 0 .. BlockRadix - 1
      BY <2>1
    <3> QED
      BY <3>1, BlockOfNumber
  <2>4. received \in Blocks /\ sent \in Blocks /\ count \in 0 .. MaxCount /\ Congruent
    BY DEF IInv
  <2>5. /\ count + p <= MaxCount /\ count' = count + p
        /\ received' = add_with_carry(received, random)
        /\ sent' = add_with_carry(sent, top)
    BY <1>2 DEF AddBin
  <2> HIDE DEF random, pay
  <2>6. /\ top \in Blocks
        /\ Value(top) = Value(random) + Value(pay) \/ Value(top) = Value(random) + Value(pay) - B
    BY <2>2, <2>3, AddWithCarry
  <2> HIDE DEF top
  <2>7. /\ received' \in Blocks
        /\ \/ Value(received)' = Value(received) + Value(random)
           \/ Value(received)' = Value(received) + Value(random) - B
    <3>1. Value(received)' = Value(received')
      BY DEF Value, Lane
    <3>2. /\ add_with_carry(received, random) \in Blocks
          /\ \/ Value(add_with_carry(received, random)) = Value(received) + Value(random)
             \/ Value(add_with_carry(received, random)) = Value(received) + Value(random) - B
      BY <2>2, <2>4, AddWithCarry
    <3> QED
      BY <2>5, <3>1, <3>2
  <2>8. /\ sent' \in Blocks
        /\ \/ Value(sent)' = Value(sent) + Value(top)
           \/ Value(sent)' = Value(sent) + Value(top) - B
    <3>1. Value(sent)' = Value(sent')
      BY DEF Value, Lane
    <3>2. /\ add_with_carry(sent, top) \in Blocks
          /\ \/ Value(add_with_carry(sent, top)) = Value(sent) + Value(top)
             \/ Value(add_with_carry(sent, top)) = Value(sent) + Value(top) - B
      BY <2>4, <2>6, AddWithCarry
    <3> QED
      BY <2>5, <3>1, <3>2
  <2>9. count' \in 0 .. MaxCount
    BY <2>1, <2>4, <2>5
  <2>10. /\ Value(received) \in 0 .. B - 1 /\ Value(sent) \in 0 .. B - 1
         /\ Value(received)' \in 0 .. B - 1 /\ Value(sent)' \in 0 .. B - 1
    <3>1. Value(sent)' = Value(sent') /\ Value(received)' = Value(received')
      BY DEF Value, Lane
    <3> QED
      BY <2>4, <2>7, <2>8, <3>1, ValueType
  <2>11. Congruent'
    <3> DEFINE rv == Value(received)
               sv == Value(sent)
               rn == Value(received)'
               sn == Value(sent)'
               c  == count
               d  == count'
    <3>1. sv = rv + c \/ sv = rv + c - B
      BY <2>4 DEF Congruent
    <3>2. rn = rv + r \/ rn = rv + r - B
      BY <2>2, <2>7
    <3>3. sn = sv + Value(top) \/ sn = sv + Value(top) - B
      BY <2>8
    <3>4. Value(top) = r + p \/ Value(top) = r + p - B
      BY <2>2, <2>3, <2>6
    <3>5. /\ rv \in 0 .. B - 1 /\ sv \in 0 .. B - 1
          /\ rn \in 0 .. B - 1 /\ sn \in 0 .. B - 1
          /\ d = c + p /\ d \in 0 .. B - 1 /\ r \in Int /\ p \in Int /\ c \in Int
      <4>1. r \in Int /\ p \in Int
        BY ValuesAssumption, <2>1
      <4>2. d \in 0 .. B - 1 /\ c \in Int
        BY <2>1, <2>4, <2>9
      <4> QED
        BY <2>5, <2>10, <4>1, <4>2
    <3> DEFINE t == Value(top)
    <3>6. Congruent' <=> sn = rn + d \/ sn = rn + d - B
      BY DEF Congruent
    <3> HIDE DEF rv, sv, rn, sn, c, d, t, B
    <3>7. sn = rn + d \/ sn = rn + d - B
      BY <2>1, <3>1, <3>2, <3>3, <3>4, <3>5 DEF t
    <3> QED
      BY <3>6, <3>7
  <2> QED
    BY <2>7, <2>8, <2>9, <2>11 DEF IInv
<1> QED
  BY <1>1, <1>2 DEF Next

\* The sums stay congruent.
THEOREM Invariance == Spec => []IInv
<1> QED
  BY InitIInv, StepIInv, PTL DEF Spec

\* sub_with_borrow recovers the count from the two sums (get_result of the protocol's two
\* ends), for every number of bins and every even radix of a dword.
THEOREM DifferenceIsCountInvariant == Spec => []DifferenceIsCount
<1>1. IInv => DifferenceIsCount
  <2> SUFFICES ASSUME IInv PROVE DifferenceIsCount
    OBVIOUS
  <2> DEFINE d == sub_with_borrow(sent, received)
             B == BlockRadix
  <2>1. received \in Blocks /\ sent \in Blocks /\ count \in 0 .. MaxCount /\ Congruent
    BY DEF IInv
  <2>2. B \in Nat \ {0} /\ count \in 0 .. B - 1
    BY <2>1, CountAssumption, BlockRadixType
  <2>3. d \in Blocks
    BY <2>1, SubWithBorrow
  <2>4. PICK k \in {-1, 0, 1} : Value(d) = Value(sent) - Value(received) + k * B
    BY <2>1, SubWithBorrow
  <2> HIDE DEF d
  <2>5. /\ Value(d) \in 0 .. B - 1
        /\ Value(sent) \in Int /\ Value(received) \in Int
    BY <2>1, <2>3, ValueType, <2>2
  <2> HIDE DEF B
  <2>6. \E j \in {-2, -1, 0, 1} : Value(d) = count + j * B
    <3>1. CASE Value(sent) = Value(received) + count
      <4>1. Value(d) = count + k * B
        BY <2>2, <2>4, <2>5, <3>1
      <4> QED
        BY <4>1
    <3>2. CASE Value(sent) = Value(received) + count - B
      <4>1. Value(d) = count + (k - 1) * B /\ k - 1 \in {-2, -1, 0}
        BY <2>2, <2>4, <2>5, <3>2
      <4> QED
        BY <4>1
    <3> QED
      BY <2>1, <3>1, <3>2 DEF Congruent, B
  <2>7. Value(d) = count
    BY <2>2, <2>5, <2>6, SameResidue
  <2> QED
    BY <2>7 DEF DifferenceIsCount, d
<1> QED
  BY <1>1, Invariance, PTL

\* unsigned_lessthan compares the lanes of the sums as unsigned words.
THEOREM ComparesLanesInvariant == Spec => []ComparesLanes
<1>1. IInv => ComparesLanes
  BY LessThan DEF IInv, ComparesLanes
<1> QED
  BY <1>1, Invariance, PTL
=============================================================================
