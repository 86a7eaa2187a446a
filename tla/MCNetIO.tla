------------------------------ MODULE MCNetIO ------------------------------
(* Every order of the ends in three messages, of one or three bytes. *)
EXTENDS NetIO

MCConversations ==
    [1 .. 3 -> [from : Ends, length : {1, 3}]]
=============================================================================
