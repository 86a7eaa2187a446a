--------------------------- MODULE CuckooHashing ---------------------------
(***************************************************************************)
(* The receiver's hash table of triangle_counting/cuckoo_hashing.cpp.  The *)
(* caller inserts elements, then MapElements() draws the hash functions    *)
(* and places the elements one by one: an element takes its first bin and  *)
(* throws out the entry that lived there, which moves on to the bin of its *)
(* next function, and so on until an empty bin is hit or more than         *)
(* RecursionLimiter entries were thrown out; the entry then in hand goes   *)
(* to the stash.                                                           *)
(*                                                                         *)
(* An entry is a record [id, fn]: the position of its element in elements  *)
(* (global_id_) and the function that placed it (current_function_id_).    *)
(* Its value is elements[id]: two entries may hold equal values.           *)
(***************************************************************************)
EXTENDS Integers, Sequences

CONSTANTS
    Values,            \* the 64-bit words the caller may insert
    NumBins,           \* num_bins_
    NumFunctions,      \* num_of_hash_functions_ (3 in circuit_psi.cpp)
    RecursionLimiter,  \* recursion_limiter_ (200 in cuckoo_hashing.h)
    MaxElements,       \* bound: number of elements the caller inserts
    Empty              \* the default HashTableEntry, whose IsEmpty() holds

ASSUME BinsAssumption == NumBins \in Nat \ {0}
ASSUME FunctionsAssumption == NumFunctions \in Nat \ {0}
ASSUME LimiterAssumption == RecursionLimiter \in Nat
ASSUME MaxElementsAssumption == MaxElements \in Nat
\* No inserted word is DUMMY_ELEMENT, the word that marks an empty entry.
ASSUME EmptyAssumption == Empty \notin [id : Nat, fn : Nat]

Bins      == 0 .. NumBins - 1
Functions == 0 .. NumFunctions - 1
Entries   == [id : Nat, fn : Functions]

VARIABLES
    elements,        \* elements_, in the order of the Insert calls
    lut,             \* the hash functions GenerateLUTs draws from the seed
    table,           \* hash_table_
    stash,           \* stash_
    current,         \* current_entry of MapElementsToTable, or Empty
    elementId,       \* element_id: how many elements have been taken up
    recursionStep,   \* recursion_step of the inner loop
    remappings,      \* statistics_.recursive_remappings_counter_
    mapped           \* mapped_

vars == <<elements, lut, table, stash, current, elementId, recursionStep,
          remappings, mapped>>

\* HashToPosition, reduced to a bin as in GetAddressAt.
Address(id, fn) == lut[elements[id]][fn]

\* GetCurrentAddress() of an entry.
CurrentAddress(e) == Address(e.id, e.fn)

\* IterateFunctionNumber: the functions are tried cyclically.
IterateFunctionNumber(e) == [e EXCEPT !.fn = (@ + 1) % NumFunctions]

Init ==
    /\ elements = <<>>
    /\ lut \in [Values -> [Functions -> Bins]]
    /\ table = [b \in Bins |-> Empty]
    /\ stash = <<>>
    /\ current = Empty
    /\ elementId = 0
    /\ recursionStep = 0
    /\ remappings = 0
    /\ mapped = FALSE

\* The caller fills elements_ before it maps them.
Insert(v) ==
    /\ ~mapped /\ elementId = 0 /\ Len(elements) < MaxElements
    /\ elements' = Append(elements, v)
    /\ UNCHANGED <<lut, table, stash, current, elementId, recursionStep,
                   remappings, mapped>>

\* Variants of the next operators that lose what the loop depends on.  They are
\* no part of the model: each is the bug against which a property is tried.
SwapInTakesOutFirst(e) ==
    LET b == CurrentAddress(e)
    IN  /\ table' = [table EXCEPT ![b] = IF @ = Empty THEN e ELSE Empty]
        /\ current' = IF table[b] = Empty THEN Empty ELSE table[b]
PlaceNextKeepsStep ==
    /\ ~mapped /\ current = Empty /\ elementId < Len(elements)
    /\ LET e == [id |-> elementId + 1, fn |-> 0]
       IN  /\ table' = [table EXCEPT ![CurrentAddress(e)] = e]
           /\ current' = table[CurrentAddress(e)]
    /\ elementId' = elementId + 1
    /\ UNCHANGED <<elements, lut, stash, recursionStep, remappings, mapped>>
RemapStaleFunction ==
    /\ current # Empty /\ recursionStep <= RecursionLimiter
    /\ LET b == CurrentAddress(IterateFunctionNumber(current))
       IN  /\ table' = [table EXCEPT ![b] = current]
           /\ current' = table[b]
    /\ recursionStep' = recursionStep + 1
    /\ remappings' = remappings + 1
    /\ UNCHANGED <<elements, lut, stash, elementId, mapped>>
RemapUncounted ==
    /\ current # Empty /\ recursionStep <= RecursionLimiter
    /\ LET e == IterateFunctionNumber(current)
       IN  /\ table' = [table EXCEPT ![CurrentAddress(e)] = e]
           /\ current' = table[CurrentAddress(e)]
    /\ UNCHANGED <<elements, lut, stash, elementId, recursionStep, remappings, mapped>>
RemapOnceMore ==
    /\ current # Empty /\ recursionStep <= RecursionLimiter + 1
    /\ LET e == IterateFunctionNumber(current)
       IN  /\ table' = [table EXCEPT ![CurrentAddress(e)] = e]
           /\ current' = table[CurrentAddress(e)]
    /\ recursionStep' = recursionStep + 1
    /\ remappings' = remappings + 1
    /\ UNCHANGED <<elements, lut, stash, elementId, mapped>>
GiveUpDropsEntry ==
    /\ current # Empty /\ recursionStep > RecursionLimiter
    /\ current' = Empty
    /\ UNCHANGED <<elements, lut, table, stash, elementId, recursionStep,
                   remappings, mapped>>

\* std::swap(current_entry, hash_table_.at(current_entry.GetCurrentAddress())):
\* e goes into its bin and what lived there is now in hand.
SwapIn(e) ==
    /\ table' = [table EXCEPT ![CurrentAddress(e)] = e]
    /\ current' = table[CurrentAddress(e)]

\* The outer loop takes up the next element and puts it in the bin of function 0.
PlaceNext ==
    /\ ~mapped /\ current = Empty /\ elementId < Len(elements)
    /\ SwapIn([id |-> elementId + 1, fn |-> 0])
    /\ elementId' = elementId + 1
    /\ recursionStep' = 0
    /\ UNCHANGED <<elements, lut, stash, remappings, mapped>>

\* The inner loop puts the entry in hand into the bin of its next function.
Remap ==
    /\ current # Empty /\ recursionStep <= RecursionLimiter
    /\ SwapIn(IterateFunctionNumber(current))
    /\ recursionStep' = recursionStep + 1
    /\ remappings' = remappings + 1
    /\ UNCHANGED <<elements, lut, stash, elementId, mapped>>

\* The inner loop gives up: whatever entry is in hand goes to the stash.
GiveUp ==
    /\ current # Empty /\ recursionStep > RecursionLimiter
    /\ stash' = Append(stash, current)
    /\ current' = Empty
    /\ UNCHANGED <<elements, lut, table, elementId, recursionStep, remappings,
                   mapped>>

Finish ==
    /\ ~mapped /\ current = Empty /\ elementId = Len(elements)
    /\ mapped' = TRUE
    /\ UNCHANGED <<elements, lut, table, stash, current, elementId,
                   recursionStep, remappings>>

MapElementsToTable == PlaceNext \/ Remap \/ GiveUp \/ Finish

Next == (\E v \in Values : Insert(v)) \/ MapElementsToTable

Spec == Init /\ [][Next]_vars /\ WF_vars(MapElementsToTable)

-----------------------------------------------------------------------------

\* AsRawVectorNoID: the non-empty bins in increasing order, and the pair of
\* function and word stored in each.
ActiveBins  == {b \in Bins : table[b] # Empty}
RawKey(b)   == <<table[b].fn, elements[table[b].id]>>

InTable(i)  == \E b \in Bins : table[b] # Empty /\ table[b].id = i
InStash(i)  == \E k \in 1 .. Len(stash) : stash[k].id = i
InHand(i)   == current # Empty /\ current.id = i

\* The type of the state; every entry holds an element already taken up.
TypeOK ==
    /\ elements \in Seq(Values)
    /\ lut \in [Values -> [Functions -> Bins]]
    /\ table \in [Bins -> Entries \cup {Empty}]
    /\ stash \in Seq(Entries)
    /\ current \in Entries \cup {Empty}
    /\ elementId \in 0 .. Len(elements)
    /\ recursionStep \in 0 .. RecursionLimiter + 1
    /\ remappings \in Nat
    /\ mapped \in BOOLEAN

\* An entry anywhere holds an element that the outer loop has taken up.
OnlyTakenUp ==
    /\ \A b \in Bins : table[b] # Empty => table[b].id \in 1 .. elementId
    /\ \A k \in 1 .. Len(stash) : stash[k].id \in 1 .. elementId
    /\ current # Empty => current.id \in 1 .. elementId

\* No element taken up is lost by a swap, at any step of the chain of evictions.
NothingLost == \A i \in 1 .. elementId : InTable(i) \/ InStash(i) \/ InHand(i)

\* No element is in two places: not in two bins, twice in the stash, or in both.
NothingTwice ==
    /\ \A b, c \in Bins :
          table[b] # Empty /\ table[c] # Empty /\ table[b].id = table[c].id => b = c
    /\ \A j, k \in 1 .. Len(stash) : stash[j].id = stash[k].id => j = k
    /\ \A b \in Bins, k \in 1 .. Len(stash) :
          table[b] # Empty => table[b].id # stash[k].id
    /\ current # Empty =>
          /\ \A b \in Bins : table[b] # Empty => table[b].id # current.id
          /\ \A k \in 1 .. Len(stash) : stash[k].id # current.id

\* Every element taken up is in exactly one of table, stash and hand, whatever
\* chain of evictions MapElementsToTable runs through.  The receiver's count is
\* over the table alone, so what it misses is exactly the stash.
EachElementOnce == OnlyTakenUp /\ NothingLost /\ NothingTwice

\* A stored entry is in the bin that its current function gives its element.
\* The sender looks for the pair of function and element in that bin only, so a
\* function number that is stale after a swap would hide a common element.
PlacedWhereHashed == \A b \in Bins : table[b] # Empty => CurrentAddress(table[b]) = b

\* recursive_remappings_counter_ is bounded: every element costs at most
\* RecursionLimiter + 1 evictions, and every stashed one has cost exactly that.
WorkBound ==
    LET perElement == RecursionLimiter + 1
        finished   == IF current = Empty THEN elementId ELSE elementId - 1
        thisChain  == IF current = Empty THEN 0 ELSE recursionStep
    IN  /\ Len(stash) * perElement + thisChain <= remappings
        /\ remappings <= finished * perElement + thisChain

\* An occupied bin stays occupied: an eviction only replaces the entry, so the
\* bins already found full are never searched again as empty ones.
OccupiedStays == [][\A b \in Bins : table[b] # Empty => table'[b] # Empty]_vars

\* Mapping ends: the recursion limiter cuts every cycle of evictions, and
\* MapElementsToTable is an ordinary loop that the scheduler keeps running.
EventuallyMapped == <>mapped

\* The table, with the order and functions of the stash forgotten, is what its users
\* are promised: each way to map gives one of the allowed placements, in one step
\* that is never taken back.
Promise == INSTANCE HashPlacement WITH
    placement <- IF mapped THEN [table |-> table, stash |-> {stash[k].id : k \in DOMAIN stash}]
                           ELSE Empty
PlacementPromise == Promise!Spec
=============================================================================
