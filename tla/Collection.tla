----------------------------- MODULE Collection -----------------------------
(***************************************************************************)
(* What node x is promised by the collection of its neighbors' OKVS        *)
(* (neighbor_request of triangle_counting/triangle.h): every neighbor's    *)
(* structure arrives whole, once each and in any order, and the collection *)
(* ends with the last of them.                                             *)
(***************************************************************************)
EXTENDS FiniteSets

CONSTANT Senders    \* the neighbors of x, each sending one OKVS

VARIABLES
    delivered,      \* the senders whose whole OKVS has arrived
    done            \* the collection is over

vars == <<delivered, done>>

Init == delivered = {} /\ done = FALSE

Deliver(s) ==
    /\ ~done /\ s \notin delivered
    /\ delivered' = delivered \cup {s}
    /\ done' = (delivered' = Senders)

Next == \E s \in Senders : Deliver(s)

Spec == Init /\ [][Next]_vars /\ WF_vars(Next)
=============================================================================
