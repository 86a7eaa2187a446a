------------------------- MODULE IntersectionCount -------------------------
(***************************************************************************)
(* The functionality the two-party protocol of circuit_psi.cpp computes:   *)
(* the number of words in both sets, once.  The words that found no place  *)
(* in the receiver's table are not counted; without such words the answer  *)
(* is exact.                                                               *)
(***************************************************************************)
EXTENDS FiniteSets

CONSTANT NoAnswer

VARIABLES
    setX, setY,    \* the sets of the two parties
    lost,          \* the words of setX that found no place
    answer         \* NoAnswer, and then the count

vars == <<setX, setY, lost, answer>>

Init == lost = {} /\ answer = NoAnswer

Lose ==
    /\ answer = NoAnswer
    /\ lost' \in (SUBSET setX) \ {{}}
    /\ UNCHANGED <<setX, setY, answer>>

Answer ==
    /\ answer = NoAnswer
    /\ answer' = Cardinality((setX \cap setY) \ lost)
    /\ UNCHANGED <<setX, setY, lost>>

Next == Lose \/ Answer

Spec == Init /\ [][Next]_vars /\ WF_vars(Answer)
=============================================================================
