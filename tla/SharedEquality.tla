--------------------------- MODULE SharedEquality ---------------------------
(***************************************************************************)
(* What perform_block_equality promises the two parties that call it: each *)
(* gets a vector of bits that alone says nothing, and the two vectors      *)
(* differ exactly in the bins where their blocks are equal.                *)
(***************************************************************************)
CONSTANTS Bins, Parties, Pending
VARIABLES equal,      \* the bins where the two parties' blocks are equal
          ans         \* ans[p]: what the call of p returned, or Pending
vars == <<equal, ans>>

Init ==
    /\ equal \in SUBSET Bins
    /\ ans = [p \in Parties |-> Pending]

\* The first vector is any; it determines the second.
Return(p) ==
    /\ ans[p] = Pending
    /\ \E v \in [Bins -> {0, 1}] :
         /\ \A q \in Parties \ {p} :
              ans[q] # Pending => \A b \in Bins : v[b] # ans[q][b] <=> b \in equal
         /\ ans' = [ans EXCEPT ![p] = v]
    /\ UNCHANGED equal

Next == \E p \in Parties : Return(p)

Spec == Init /\ [][Next]_vars /\ WF_vars(Next)
=============================================================================
