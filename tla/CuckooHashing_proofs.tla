------------------------ MODULE CuckooHashing_proofs ------------------------
(***************************************************************************)
(* For every number of bins, functions, elements and every recursion       *)
(* limiter: MapElementsToTable keeps each element in exactly one place and *)
(* each stored entry in the bin of its function, and bounds its work.      *)
(***************************************************************************)
EXTENDS CuckooHashing, TLAPS

\* A bin address is a bin, and the next function number a function number.
LEMMA AddressInBins ==
    ASSUME TypeOK, NEW e \in Entries, e.id \in 1 .. Len(elements)
    PROVE  CurrentAddress(e) \in Bins
BY DEF TypeOK, CurrentAddress, Address, Entries

\* IterateFunctionNumber changes the function of an entry, never its element.
LEMMA IterateType ==
    ASSUME NEW e \in Entries
    PROVE  /\ IterateFunctionNumber(e) \in Entries
           /\ IterateFunctionNumber(e).id = e.id
BY FunctionsAssumption DEF IterateFunctionNumber, Entries, Functions

\* The default HashTableEntry is told apart from every stored one.
LEMMA EmptyIsNoEntry == Empty \notin Entries
BY EmptyAssumption DEF Entries, Functions

\* The shape invariant: types, and every entry is of an element taken up.
Shape == TypeOK /\ OnlyTakenUp

\* Every entry the table, the stash or the loop holds is well formed and taken up.
THEOREM ShapeInvariant == Spec => []Shape
<1>1. Init => Shape
  <2> SUFFICES ASSUME Init PROVE Shape
    OBVIOUS
  <2>1. TypeOK
    <3>1. elements \in Seq(Values) /\ stash \in Seq(Entries) /\ Len(elements) = 0
      BY DEF Init
    <3>2. recursionStep \in 0 .. RecursionLimiter + 1
      BY LimiterAssumption DEF Init
    <3>3. elementId \in 0 .. Len(elements)
      BY <3>1 DEF Init
    <3>4. mapped \in BOOLEAN
      BY DEF Init
    <3>5. table \in [Bins -> Entries \cup {Empty}] /\ current \in Entries \cup {Empty}
      BY DEF Init
    <3> QED
      BY <3>1, <3>2, <3>3, <3>4, <3>5 DEF Init, TypeOK
  <2>2. OnlyTakenUp
    BY DEF Init, OnlyTakenUp
  <2> QED
    BY <2>1, <2>2 DEF Shape
<1>2. Shape /\ [Next]_vars => Shape'
  <2> SUFFICES ASSUME Shape, [Next]_vars PROVE Shape'
    OBVIOUS
  <2> USE EmptyIsNoEntry DEF Shape, TypeOK, OnlyTakenUp
  <2>1. CASE \E v \in Values : Insert(v)
    BY <2>1 DEF Insert
  <2>2. CASE PlaceNext
    <3> DEFINE e == [id |-> elementId + 1, fn |-> 0]
    <3>1. e \in Entries /\ e.id \in 1 .. Len(elements)
      BY <2>2, FunctionsAssumption DEF PlaceNext, Entries, Functions
    <3>2. CurrentAddress(e) \in Bins
      BY <3>1, AddressInBins
    <3> QED
      BY <2>2, <3>1, <3>2, LimiterAssumption DEF PlaceNext, SwapIn
  <2>3. CASE Remap
    <3> DEFINE e == IterateFunctionNumber(current)
    <3>1. current \in Entries
      BY <2>3 DEF Remap
    <3>2. e \in Entries /\ e.id = current.id
      BY <3>1, IterateType
    <3>3. CurrentAddress(e) \in Bins
      BY <2>3, <3>2, AddressInBins DEF Remap
    <3> HIDE DEF e
    <3> QED
      BY <2>3, <3>1, <3>2, <3>3, LimiterAssumption DEF Remap, SwapIn, e
  <2>4. CASE GiveUp
    BY <2>4 DEF GiveUp
  <2>5. CASE Finish
    BY <2>5 DEF Finish
  <2>6. CASE UNCHANGED vars
    BY <2>6 DEF vars
  <2> QED
    BY <2>1, <2>2, <2>3, <2>4, <2>5, <2>6 DEF Next, MapElementsToTable
<1> QED
  BY <1>1, <1>2, PTL DEF Spec

\* The state keeps its type: in particular every bin address stays inside the table.
THEOREM TypeInvariant == Spec => []TypeOK
<1>1. Shape => TypeOK
  BY DEF Shape
<1> QED
  BY <1>1, ShapeInvariant, PTL

\* Putting an entry whose element is neither in the table nor in the stash into a bin,
\* and taking what lived there in hand, leaves every element in one place.
LEMMA SwapKeepsApart ==
    ASSUME Shape, NothingTwice, NEW e \in Entries, NEW b \in Bins,
           table' = [table EXCEPT ![b] = e], current' = table[b], stash' = stash,
           \A c \in Bins : table[c] # Empty => table[c].id # e.id,
           \A k \in 1 .. Len(stash) : stash[k].id # e.id
    PROVE  NothingTwice'
<1>1. table'[b] = e /\ \A c \in Bins \ {b} : table'[c] = table[c]
  BY DEF Shape, TypeOK
<1>2. ASSUME NEW c \in Bins, NEW d \in Bins,
             table'[c] # Empty, table'[d] # Empty, table'[c].id = table'[d].id
      PROVE  c = d
  <2>1. CASE c = b \/ d = b
    BY <1>1, <1>2, <2>1
  <2>2. CASE c # b /\ d # b
    BY <1>1, <1>2, <2>2 DEF NothingTwice
  <2> QED
    BY <2>1, <2>2
<1>3. ASSUME NEW c \in Bins, NEW k \in 1 .. Len(stash), table'[c] # Empty
      PROVE  table'[c].id # stash[k].id
  <2>1. CASE c = b
    BY <1>1, <2>1
  <2>2. CASE c # b
    BY <1>1, <1>3, <2>2 DEF NothingTwice
  <2> QED
    BY <2>1, <2>2
<1>4. ASSUME current' # Empty
      PROVE  /\ \A c \in Bins : table'[c] # Empty => table'[c].id # current'.id
             /\ \A k \in 1 .. Len(stash) : stash[k].id # current'.id
  <2>1. table[b] # Empty
    BY <1>4
  <2>2. \A c \in Bins \ {b} : table[c] # Empty => table[c].id # table[b].id
    BY <2>1 DEF NothingTwice
  <2>3. \A k \in 1 .. Len(stash) : stash[k].id # table[b].id
    BY <2>1 DEF NothingTwice
  <2> QED
    BY <1>1, <2>1, <2>2, <2>3
<1>5. \A j, k \in 1 .. Len(stash) : stash[j].id = stash[k].id => j = k
  BY DEF NothingTwice
<1> QED
  BY <1>2, <1>3, <1>4, <1>5 DEF NothingTwice

\* The invariant is inductive together with Shape: a swap moves the entry in hand
\* into a bin and the entry of that bin into the hand.
THEOREM EachElementOnceInvariant == Spec => []EachElementOnce
<1>1. Init => NothingLost /\ NothingTwice
  BY DEF Init, NothingLost, NothingTwice
<1>2. Shape /\ Shape' /\ NothingLost /\ NothingTwice /\ [Next]_vars
        => NothingLost' /\ NothingTwice'
  <2> SUFFICES ASSUME Shape, Shape', NothingLost, NothingTwice, [Next]_vars
               PROVE  NothingLost' /\ NothingTwice'
    OBVIOUS
  <2> USE EmptyIsNoEntry
  <2>1. CASE \E v \in Values : Insert(v)
    BY <2>1 DEF Insert, NothingLost, NothingTwice, InTable, InStash, InHand
  <2>2. CASE PlaceNext
    <3> DEFINE e == [id |-> elementId + 1, fn |-> 0]
    <3>1. PICK b \in Bins : /\ table' = [table EXCEPT ![b] = e]
                            /\ current' = table[b]
      <4>1. e \in Entries /\ e.id \in 1 .. Len(elements)
        BY <2>2, FunctionsAssumption DEF PlaceNext, Entries, Functions, Shape, TypeOK
      <4>2. CurrentAddress(e) \in Bins
        BY <4>1, AddressInBins DEF Shape
      <4> QED
        BY <2>2, <4>2 DEF PlaceNext, SwapIn
    <3>2. e.id = elementId + 1 /\ e # Empty
      BY <2>2, EmptyAssumption, FunctionsAssumption DEF PlaceNext, Shape, TypeOK
    <3>3. stash' = stash /\ elementId' = elementId + 1 /\ current = Empty
      BY <2>2 DEF PlaceNext
    <3> HIDE DEF e
    <3>4. NothingLost'
      <4> SUFFICES ASSUME NEW i \in 1 .. elementId + 1
                   PROVE  InTable(i)' \/ InStash(i)' \/ InHand(i)'
        BY <3>3 DEF NothingLost
      <4>1. table'[b] = e /\ \A c \in Bins \ {b} : table'[c] = table[c]
        BY <3>1 DEF Shape, TypeOK
      <4>2. CASE i = elementId + 1
        BY <3>2, <4>1, <4>2 DEF InTable
      <4>3. CASE i # elementId + 1
        <5>1. InTable(i) \/ InStash(i)
          BY <3>3, <4>3 DEF NothingLost, InHand, Shape, TypeOK
        <5> QED
          BY <3>1, <3>3, <4>1, <5>1 DEF InTable, InStash, InHand
      <4> QED
        BY <4>2, <4>3
    <3>5. NothingTwice'
      <4>1. /\ \A c \in Bins : table[c] # Empty => table[c].id \in 1 .. elementId
            /\ \A k \in 1 .. Len(stash) : stash[k].id \in 1 .. elementId
            /\ elementId \in Nat
        BY DEF Shape, TypeOK, OnlyTakenUp
      <4>2. /\ \A c \in Bins : table[c] # Empty => table[c].id # e.id
            /\ \A k \in 1 .. Len(stash) : stash[k].id # e.id
        BY <3>2, <4>1
      <4>3. e \in Entries
        BY <2>2, FunctionsAssumption DEF PlaceNext, Entries, Functions, Shape, TypeOK, e
      <4> QED
        BY <3>1, <3>3, <4>2, <4>3, SwapKeepsApart
    <3> QED
      BY <3>4, <3>5
  <2>3. CASE Remap
    <3> DEFINE e == IterateFunctionNumber(current)
    <3>1. current \in Entries /\ current # Empty
      BY <2>3 DEF Remap, Shape, TypeOK
    <3>2. e \in Entries /\ e.id = current.id
      BY <3>1, IterateType
    <3>3. PICK b \in Bins : /\ table' = [table EXCEPT ![b] = e]
                            /\ current' = table[b]
      <4>1. CurrentAddress(e) \in Bins
        BY <3>1, <3>2, AddressInBins DEF Shape, TypeOK, OnlyTakenUp
      <4> QED
        BY <2>3, <4>1 DEF Remap, SwapIn
    <3>4. stash' = stash /\ elementId' = elementId
      BY <2>3 DEF Remap
    <3> HIDE DEF e
    <3>5. NothingLost'
      <4> SUFFICES ASSUME NEW i \in 1 .. elementId
                   PROVE  InTable(i)' \/ InStash(i)' \/ InHand(i)'
        BY <3>4 DEF NothingLost
      <4>1. table'[b] = e /\ \A c \in Bins \ {b} : table'[c] = table[c]
        BY <3>3 DEF Shape, TypeOK
      <4>2. CASE i = e.id
        BY <3>2, <4>1, <4>2, b \in Bins DEF InTable
      <4>3. CASE i # e.id
        <5>1. InTable(i) \/ InStash(i)
          BY <3>2, <4>3 DEF NothingLost, InHand
        <5> QED
          BY <3>3, <3>4, <4>1, <5>1 DEF InTable, InStash, InHand
      <4> QED
        BY <4>2, <4>3
    <3>6. NothingTwice'
      <4>1. /\ \A c \in Bins : table[c] # Empty => table[c].id # e.id
            /\ \A k \in 1 .. Len(stash) : stash[k].id # e.id
        BY <3>1, <3>2 DEF NothingTwice
      <4> QED
        BY <3>2, <3>3, <3>4, <4>1, SwapKeepsApart
    <3> QED
      BY <3>5, <3>6
  <2>4. CASE GiveUp
    <3>1. /\ stash' = Append(stash, current)
          /\ current \in Entries /\ current # Empty /\ current' = Empty
          /\ UNCHANGED <<table, elementId>>
      BY <2>4 DEF GiveUp, Shape, TypeOK
    <3>2. /\ Len(stash') = Len(stash) + 1
          /\ stash'[Len(stash) + 1] = current
          /\ \A k \in 1 .. Len(stash) : stash'[k] = stash[k]
      BY <3>1 DEF Shape, TypeOK
    <3>3. Len(stash) \in Nat
      BY DEF Shape, TypeOK
    <3>4. NothingLost'
      BY <3>1, <3>2, <3>3 DEF NothingLost, InTable, InStash, InHand
    <3>5. NothingTwice'
      BY <3>1, <3>2, <3>3 DEF NothingTwice
    <3> QED
      BY <3>4, <3>5
  <2>5. CASE Finish
    BY <2>5 DEF Finish, NothingLost, NothingTwice, InTable, InStash, InHand
  <2>6. CASE UNCHANGED vars
    BY <2>6 DEF vars, NothingLost, NothingTwice, InTable, InStash, InHand
  <2> QED
    BY <2>1, <2>2, <2>3, <2>4, <2>5, <2>6 DEF Next, MapElementsToTable
<1>3. Shape /\ NothingLost /\ NothingTwice => EachElementOnce
  BY DEF Shape, EachElementOnce
<1> QED
  BY <1>1, <1>2, <1>3, ShapeInvariant, PTL DEF Spec

\* Every stored entry sits in the bin of its current function.
THEOREM PlacedWhereHashedInvariant == Spec => []PlacedWhereHashed
<1>1. Init => PlacedWhereHashed
  BY DEF Init, PlacedWhereHashed
<1>2. Shape /\ PlacedWhereHashed /\ [Next]_vars => PlacedWhereHashed'
  <2> SUFFICES ASSUME Shape, PlacedWhereHashed, [Next]_vars PROVE PlacedWhereHashed'
    OBVIOUS
  <2> USE EmptyIsNoEntry
  <2>1. CASE \E v \in Values : Insert(v)
    <3>1. PICK v \in Values : elements' = Append(elements, v) /\ UNCHANGED <<lut, table>>
      BY <2>1 DEF Insert
    <3>2. \A i \in 1 .. Len(elements) : elements'[i] = elements[i]
      BY <3>1 DEF Shape, TypeOK
    <3>3. \A b \in Bins : table[b] # Empty => table[b].id \in 1 .. Len(elements)
      BY DEF Shape, TypeOK, OnlyTakenUp
    <3> QED
      BY <3>1, <3>2, <3>3 DEF PlacedWhereHashed, CurrentAddress, Address
  <2>2. ASSUME NEW e \in Entries, e.id \in 1 .. Len(elements), SwapIn(e),
               UNCHANGED <<elements, lut>>
        PROVE  PlacedWhereHashed'
    <3>1. CurrentAddress(e) \in Bins
      BY <2>2, AddressInBins DEF Shape
    <3>2. ASSUME NEW b \in Bins, table'[b] # Empty
          PROVE  Address(table'[b].id, table'[b].fn) = b
      BY <2>2, <3>1, <3>2
      DEF SwapIn, PlacedWhereHashed, CurrentAddress, Shape, TypeOK
    <3> QED
      BY <2>2, <3>2 DEF PlacedWhereHashed, CurrentAddress, Address
  <2>3. CASE PlaceNext
    <3>1. /\ [id |-> elementId + 1, fn |-> 0] \in Entries
          /\ elementId + 1 \in 1 .. Len(elements)
      BY <2>3, FunctionsAssumption DEF PlaceNext, Entries, Functions, Shape, TypeOK
    <3> QED
      BY <2>2, <2>3, <3>1 DEF PlaceNext
  <2>4. CASE Remap
    <3>1. current \in Entries /\ current.id \in 1 .. Len(elements)
      BY <2>4 DEF Remap, Shape, TypeOK, OnlyTakenUp
    <3>2. /\ IterateFunctionNumber(current) \in Entries
          /\ IterateFunctionNumber(current).id = current.id
      BY <3>1, IterateType
    <3> QED
      BY <2>2, <2>4, <3>1, <3>2 DEF Remap
  <2>5. CASE GiveUp
    BY <2>5 DEF GiveUp, PlacedWhereHashed, CurrentAddress, Address
  <2>6. CASE Finish
    BY <2>6 DEF Finish, PlacedWhereHashed, CurrentAddress, Address
  <2>7. CASE UNCHANGED vars
    BY <2>7 DEF vars, PlacedWhereHashed, CurrentAddress, Address
  <2> QED
    BY <2>1, <2>3, <2>4, <2>5, <2>6, <2>7 DEF Next, MapElementsToTable
<1> QED
  BY <1>1, <1>2, ShapeInvariant, PTL DEF Spec

\* A bin once occupied is occupied in every later state.
THEOREM OccupiedStaysAlways == Spec => OccupiedStays
<1>1. Shape /\ [Next]_vars => [\A b \in Bins : table[b] # Empty => table'[b] # Empty]_vars
  <2> SUFFICES ASSUME Shape, Next
               PROVE  \A b \in Bins : table[b] # Empty => table'[b] # Empty
    BY DEF vars
  <2> USE EmptyIsNoEntry
  <2>1. ASSUME NEW e \in Entries, SwapIn(e)
        PROVE  \A b \in Bins : table[b] # Empty => table'[b] # Empty
    BY <2>1 DEF SwapIn, Shape, TypeOK
  <2>2. CASE PlaceNext
    <3>1. [id |-> elementId + 1, fn |-> 0] \in Entries
      BY <2>2, FunctionsAssumption DEF PlaceNext, Entries, Functions, Shape, TypeOK
    <3> QED
      BY <2>1, <2>2, <3>1 DEF PlaceNext
  <2>3. CASE Remap
    <3>1. IterateFunctionNumber(current) \in Entries
      BY <2>3, IterateType DEF Remap, Shape, TypeOK
    <3> QED
      BY <2>1, <2>3, <3>1 DEF Remap
  <2> QED
    BY <2>2, <2>3 DEF Next, MapElementsToTable, Insert, GiveUp, Finish
<1> QED
  BY <1>1, ShapeInvariant, PTL DEF Spec, OccupiedStays

\* One more element costs at most one more chain of k evictions.
LEMMA OneMore ==
    ASSUME NEW m \in Nat, NEW k \in Nat
    PROVE  (m + 1) * k = m * k + k
OBVIOUS

\* The evictions counted are bounded by RecursionLimiter + 1 per element, and each
\* stashed element has cost that many.
THEOREM WorkBoundInvariant == Spec => []WorkBound
<1>1. Init => WorkBound
  <2> SUFFICES ASSUME Init PROVE WorkBound
    OBVIOUS
  <2>1. Len(stash) = 0 /\ elementId = 0 /\ remappings = 0 /\ current = Empty
    BY DEF Init
  <2> QED
    BY <2>1, LimiterAssumption DEF WorkBound
<1>2. Shape /\ Shape' /\ WorkBound /\ [Next]_vars => WorkBound'
  <2> SUFFICES ASSUME Shape, Shape', WorkBound, [Next]_vars PROVE WorkBound'
    OBVIOUS
  <2> USE EmptyIsNoEntry
  <2> DEFINE k == RecursionLimiter + 1
             Cost(m) == m * k
  <2>a. /\ k \in Nat /\ Len(stash) \in Nat /\ elementId \in Nat
        /\ remappings \in Nat /\ recursionStep \in 0 .. k
        /\ current # Empty => elementId - 1 \in Nat
    BY LimiterAssumption DEF Shape, TypeOK, OnlyTakenUp
  <2>b. WorkBound <=>
          IF current = Empty
            THEN Cost(Len(stash)) <= remappings /\ remappings <= Cost(elementId)
            ELSE /\ Cost(Len(stash)) + recursionStep <= remappings
                 /\ remappings <= Cost(elementId - 1) + recursionStep
    BY <2>a DEF WorkBound
  <2>c. WorkBound' <=>
          IF current' = Empty
            THEN Cost(Len(stash')) <= remappings' /\ remappings' <= Cost(elementId')
            ELSE /\ Cost(Len(stash')) + recursionStep' <= remappings'
                 /\ remappings' <= Cost(elementId' - 1) + recursionStep'
    <3>1. Len(stash') \in Nat /\ elementId' \in Nat
      BY DEF Shape, TypeOK
    <3>2. Cost(Len(stash')) \in Nat /\ Cost(elementId') \in Nat
      BY <2>a, <3>1
    <3> QED
      BY <2>a, <3>2 DEF WorkBound
  <2>d. ASSUME NEW m \in Nat
        PROVE  Cost(m) \in Nat /\ Cost(m + 1) = Cost(m) + k
    BY <2>a, OneMore
  <2>e. recursionStep <= RecursionLimiter => recursionStep + 1 <= k
    BY LimiterAssumption DEF Shape, TypeOK
  <2>f. recursionStep > RecursionLimiter => recursionStep = k
    BY LimiterAssumption DEF Shape, TypeOK
  <2> HIDE DEF k, Cost
  <2>1. CASE \E v \in Values : Insert(v)
    BY <2>1 DEF Insert, WorkBound
  <2>2. CASE PlaceNext
    <3>1. /\ current = Empty /\ elementId' = elementId + 1 /\ recursionStep' = 0
          /\ UNCHANGED <<stash, remappings>>
      BY <2>2 DEF PlaceNext
    <3>2. /\ Cost(elementId + 1) = Cost(elementId) + k
          /\ Cost(elementId) \in Nat /\ Cost(Len(stash)) \in Nat
      BY <2>a, <2>d
    <3>3. elementId' - 1 = elementId
      BY <2>a, <3>1
    <3> QED
      BY <2>a, <2>b, <2>c, <3>1, <3>2, <3>3
  <2>3. CASE Remap
    <3>1. /\ current # Empty /\ recursionStep + 1 <= k
          /\ recursionStep' = recursionStep + 1 /\ remappings' = remappings + 1
          /\ UNCHANGED <<stash, elementId>>
      BY <2>3, <2>e DEF Remap
    <3>2. Cost(elementId - 1) \in Nat /\ Cost(elementId) = Cost(elementId - 1) + k
      <4>1. elementId - 1 \in Nat /\ (elementId - 1) + 1 = elementId
        BY <2>a, <3>1
      <4> QED
        BY <2>d, <4>1
    <3>3. Cost(Len(stash)) \in Nat
      BY <2>a, <2>d
    <3> QED
      BY <2>a, <2>b, <2>c, <3>1, <3>2, <3>3
  <2>4. CASE GiveUp
    <3>1. /\ current # Empty /\ recursionStep = k /\ current' = Empty
          /\ UNCHANGED <<elementId, remappings>>
      BY <2>4, <2>f DEF GiveUp
    <3>2. Len(stash') = Len(stash) + 1
      BY <2>4 DEF GiveUp, Shape, TypeOK
    <3>3. Cost(elementId - 1) \in Nat /\ Cost(elementId) = Cost(elementId - 1) + k
      <4>1. elementId - 1 \in Nat /\ (elementId - 1) + 1 = elementId
        BY <2>a, <3>1
      <4> QED
        BY <2>d, <4>1
    <3>4. Cost(Len(stash)) \in Nat /\ Cost(Len(stash) + 1) = Cost(Len(stash)) + k
      BY <2>a, <2>d
    <3> QED
      BY <2>a, <2>b, <2>c, <3>1, <3>2, <3>3, <3>4
  <2>5. CASE Finish
    BY <2>5 DEF Finish, WorkBound
  <2>6. CASE UNCHANGED vars
    BY <2>6 DEF vars, WorkBound
  <2> QED
    BY <2>1, <2>2, <2>3, <2>4, <2>5, <2>6 DEF Next, MapElementsToTable
<1> QED
  BY <1>1, <1>2, ShapeInvariant, PTL DEF Spec

\* Once the table is mapped it is left alone.
MappedIsFinal == mapped => current = Empty /\ elementId = Len(elements)

\* What mapping leaves when the last element has found its place is a placement.
LEMMA FinishPlaces ==
    ASSUME Shape, EachElementOnce, PlacedWhereHashed,
           current = Empty, elementId = Len(elements)
    PROVE  [table |-> table, stash |-> {stash[k].id : k \in DOMAIN stash}]
             \in Promise!Placements(elements, lut)
<1> DEFINE stashed == {stash[k].id : k \in DOMAIN stash}
<1>1. /\ elements \in Seq(Values) /\ stash \in Seq(Entries)
      /\ table \in [Bins -> Entries \cup {Empty}]
  BY DEF Shape, TypeOK
<1>2. DOMAIN elements = 1 .. elementId /\ DOMAIN stash = 1 .. Len(stash)
  BY <1>1
<1>3. table \in [Bins -> Promise!Entries(elements) \cup {Empty}]
  <2> SUFFICES ASSUME NEW b \in Bins, table[b] # Empty
               PROVE  table[b] \in Promise!Entries(elements)
    BY <1>1
  <2>1. table[b] \in Entries /\ table[b].id \in DOMAIN elements
    BY <1>1, <1>2 DEF Shape, OnlyTakenUp
  <2> QED
    BY <2>1 DEF Entries, Promise!Entries
<1>4. stashed \in SUBSET DOMAIN elements
  BY <1>2 DEF Shape, OnlyTakenUp
<1>5. \A b \in Bins : table[b] # Empty => lut[elements[table[b].id]][table[b].fn] = b
  BY DEF PlacedWhereHashed, CurrentAddress, Address
<1>6. \A i \in DOMAIN elements :
        i \in stashed <=> \A b \in Bins : table[b] = Empty \/ table[b].id # i
  <2> SUFFICES ASSUME NEW i \in 1 .. elementId
               PROVE  i \in stashed <=> ~InTable(i)
    BY <1>2 DEF InTable
  <2>1. InTable(i) \/ InStash(i)
    BY DEF EachElementOnce, NothingLost, InHand
  <2>2. ~(InTable(i) /\ InStash(i))
    BY DEF EachElementOnce, NothingTwice, InTable, InStash
  <2>3. InStash(i) <=> i \in stashed
    BY <1>2 DEF InStash
  <2> QED
    BY <2>1, <2>2, <2>3
<1>7. \A b, c \in Bins :
        table[b] # Empty /\ table[c] # Empty /\ table[b].id = table[c].id => b = c
  BY DEF EachElementOnce, NothingTwice
<1> HIDE DEF stashed
<1> DEFINE place == [table |-> table, stash |-> stashed]
<1>8. place \in [table : [Bins -> Promise!Entries(elements) \cup {Empty}],
                  stash : SUBSET DOMAIN elements]
  BY <1>3, <1>4
<1>9. place.table = table /\ place.stash = stashed
  OBVIOUS
<1> HIDE DEF place
<1>10. place \in Promise!Placements(elements, lut)
  BY <1>5, <1>6, <1>7, <1>8, <1>9 DEF Promise!Placements
<1> QED
  BY <1>10 DEF place, stashed

\* Mapping implements the promise of HashPlacement: swaps stutter, the last step gives
\* an allowed placement, and no step takes it back.
THEOREM MappingPlaces == Spec => Promise!Init /\ [][Promise!Next]_(Promise!vars)
<1>1. Init => Promise!Init /\ MappedIsFinal
  BY DEF Init, Promise!Init, MappedIsFinal
<1>2. MappedIsFinal /\ [Next]_vars => MappedIsFinal'
  <2> SUFFICES ASSUME MappedIsFinal, [Next]_vars PROVE MappedIsFinal'
    OBVIOUS
  <2>1. CASE \E v \in Values : Insert(v)
    BY <2>1 DEF Insert, MappedIsFinal
  <2>2. CASE PlaceNext \/ Remap \/ GiveUp \/ Finish
    BY <2>2 DEF PlaceNext, Remap, GiveUp, Finish, MappedIsFinal
  <2>3. CASE UNCHANGED vars
    BY <2>3 DEF vars, MappedIsFinal
  <2> QED
    BY <2>1, <2>2, <2>3 DEF Next, MapElementsToTable
<1>3. Shape /\ EachElementOnce /\ PlacedWhereHashed /\ MappedIsFinal /\ [Next]_vars
        => [Promise!Next]_(Promise!vars)
  <2> SUFFICES ASSUME Shape, EachElementOnce, PlacedWhereHashed, MappedIsFinal, [Next]_vars
               PROVE  [Promise!Next]_(Promise!vars)
    OBVIOUS
  <2>1. ASSUME NEW v \in Values, Insert(v) PROVE Promise!Insert(v)
    BY <2>1 DEF Insert, Promise!Insert
  <2>2. CASE PlaceNext \/ Remap \/ GiveUp
    <3>1. ~mapped /\ mapped' = mapped /\ UNCHANGED <<elements, lut>>
      BY <2>2 DEF PlaceNext, Remap, GiveUp, MappedIsFinal
    <3> QED
      BY <3>1 DEF Promise!vars
  <2>3. CASE Finish
    <3>1. /\ ~mapped /\ mapped' = TRUE /\ current = Empty /\ elementId = Len(elements)
          /\ UNCHANGED <<elements, lut, table, stash>>
      BY <2>3 DEF Finish
    <3>2. [table |-> table, stash |-> {stash[k].id : k \in DOMAIN stash}]
            \in Promise!Placements(elements, lut)
      BY <3>1, FinishPlaces
    <3>3. Promise!MapElements
      BY <3>1, <3>2 DEF Promise!MapElements
    <3> QED
      BY <3>3 DEF Promise!Next
  <2>4. CASE UNCHANGED vars
    BY <2>4 DEF vars, Promise!vars
  <2> QED
    BY <2>1, <2>2, <2>3, <2>4 DEF Next, MapElementsToTable, Promise!Next
<1> QED
  BY <1>1, <1>2, <1>3, ShapeInvariant, EachElementOnceInvariant,
     PlacedWhereHashedInvariant, PTL DEF Spec
=============================================================================
