--------------------------- MODULE HashPlacement ---------------------------
(***************************************************************************)
(* What the users of the cuckoo table rely on (psi_ca_receiver of          *)
(* triangle_counting/circuit_psi.cpp): mapping gives every inserted        *)
(* element one place, either a bin one of its functions leads to or the    *)
(* stash, and leaves at most one element in a bin.  Which place, and how   *)
(* it is found, is left open.                                              *)
(***************************************************************************)
EXTENDS Naturals, Sequences

CONSTANTS
    Values,       \* the words that may be inserted
    Bins,
    Functions,    \* the numbers of the hash functions
    Empty         \* an empty bin; also the placement before mapping

VARIABLES
    elements,     \* the words inserted, in order
    lut,          \* lut[v][f] is the bin of word v under function f
    placement     \* Empty until mapped, then the table and the stashed positions

vars == <<elements, lut, placement>>

Entries(es) == [id : DOMAIN es, fn : Functions]

\* The ways to place the words es.
Placements(es, hash) ==
    {p \in [table : [Bins -> Entries(es) \cup {Empty}], stash : SUBSET DOMAIN es] :
       /\ \A b \in Bins :
            p.table[b] # Empty => hash[es[p.table[b].id]][p.table[b].fn] = b
       /\ \A i \in DOMAIN es :
            i \in p.stash <=> \A b \in Bins : p.table[b] = Empty \/ p.table[b].id # i
       /\ \A b, c \in Bins :
            p.table[b] # Empty /\ p.table[c] # Empty /\ p.table[b].id = p.table[c].id
              => b = c}

Init ==
    /\ elements = <<>>
    /\ lut \in [Values -> [Functions -> Bins]]
    /\ placement = Empty

Insert(v) ==
    /\ placement = Empty
    /\ elements' = Append(elements, v)
    /\ UNCHANGED <<lut, placement>>

MapElements ==
    /\ placement = Empty
    /\ placement' \in Placements(elements, lut)
    /\ UNCHANGED <<elements, lut>>

Next == (\E v \in Values : Insert(v)) \/ MapElements

Spec == Init /\ [][Next]_vars /\ WF_vars(MapElements)
=============================================================================
