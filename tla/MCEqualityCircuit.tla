------------------------- MODULE MCEqualityCircuit -------------------------
(* Two blocks of two words, a word of four digits of three bits and a last of two. *)
EXTENDS EqualityCircuit

\* A word that is equal to all those of role 0, and words that differ from it in the
\* first, in an inner, and in the last digit.
MCWord == 4681
MCWords == <<MCWord, MCWord - 1, MCWord + 128, MCWord - 4096>>

\* Equal and unequal words at all distances from each other, and one block that is
\* equal beside one that is not.
MCInputs ==
    LET against(f) == [p \in Parties |-> [k \in Comparisons |->
                         IF p = 0 THEN MCWord ELSE MCWords[f[k] + 1]]]
    IN  {against([k \in Comparisons |-> (s + m * k) % 4]) : s \in {0, 3}, m \in {1}}
        \cup {against([k \in Comparisons |-> IF k < 2 THEN 0 ELSE k - 2])}

Positions == 0 .. NumDigits * NumCmps - 1
MCLeafMasks == {[x \in Positions |-> (x * x + x \div 3) % 2]}
Bit(n, m) == (n \div m) % 2
MCTripleShares ==
    {[x \in Positions |->
        LET n == s + 11 * x + 5 * x * x IN
        [a |-> [p \in Parties |-> Bit(n, 1 + p)],
         b |-> [p \in Parties |-> Bit(n, 4 + 4 * p)],
         c |-> Bit(n, 16)]] : s \in {3, 6}}
=============================================================================
