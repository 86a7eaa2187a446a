------------------------ MODULE ReadWriteLock_proofs ------------------------
(***************************************************************************)
(* For any finite set of threads, which call and try as often as they      *)
(* like: the spinning lock excludes writers from readers and from each     *)
(* other, its atomics are true to the holders, and it is a SharedLock.     *)
(***************************************************************************)
EXTENDS ReadWriteLock, FiniteSetTheorems, TLAPS

CountedAt == {"check writer", "back out", "reading"}
FlaggedAt == {"check readers", "take down", "writing"}
Places == {"idle", "add reader", "spin", "set flag"} \cup CountedAt \cup FlaggedAt

Shape ==
    /\ reader_locks \in Int
    /\ writer_locked \in BOOLEAN
    /\ pc \in [Threads -> Places]

\* Each thread looks at the other side's atomic after changing its own, so what the
\* atomics say of the holders is what makes exclusion inductive.
IInv == Shape /\ AtomicsTrueToHolders /\ Exclusion

\* A step of thread t to x leaves all others where they are: t joins or leaves.
LEMMA Moves ==
    ASSUME Shape, NEW t \in Threads, NEW x \in Places, pc' = [pc EXCEPT ![t] = x]
    PROVE  /\ pc' \in [Threads -> Places]
           /\ pc'[t] = x
           /\ \A u \in Threads \ {t} : pc'[u] = pc[u]
           /\ x \in CountedAt => Counted' = Counted \cup {t}
           /\ x \notin CountedAt => Counted' = Counted \ {t}
           /\ x \in FlaggedAt => Flagged' = Flagged \cup {t}
           /\ x \notin FlaggedAt => Flagged' = Flagged \ {t}
<1>1. pc' \in [Threads -> Places] /\ pc'[t] = x /\ \A u \in Threads \ {t} : pc'[u] = pc[u]
  BY DEF Shape
<1>2. Counted' = {u \in Threads : pc'[u] \in CountedAt}
  BY DEF Counted, CountedAt
<1>3. Counted = {u \in Threads : pc[u] \in CountedAt}
  BY DEF Counted, CountedAt
<1>4. Flagged' = {u \in Threads : pc'[u] \in FlaggedAt}
  BY DEF Flagged, FlaggedAt
<1>5. Flagged = {u \in Threads : pc[u] \in FlaggedAt}
  BY DEF Flagged, FlaggedAt
<1>6. x \in CountedAt => Counted' = Counted \cup {t}
  BY <1>1, <1>2, <1>3
<1>7. x \notin CountedAt => Counted' = Counted \ {t}
  BY <1>1, <1>2, <1>3
<1>8. x \in FlaggedAt => Flagged' = Flagged \cup {t}
  BY <1>1, <1>4, <1>5
<1>9. x \notin FlaggedAt => Flagged' = Flagged \ {t}
  BY <1>1, <1>4, <1>5
<1> QED
  BY <1>1, <1>6, <1>7, <1>8, <1>9

\* The readers can be counted, one more and one less.
LEMMA CountedFinite ==
    /\ IsFiniteSet(Counted)
    /\ Cardinality(Counted) \in Nat
    /\ Cardinality(Counted) = 0 <=> Counted = {}
    /\ \A t \in Threads :
         /\ Cardinality(Counted \cup {t}) =
              IF t \in Counted THEN Cardinality(Counted) ELSE Cardinality(Counted) + 1
         /\ Cardinality(Counted \ {t}) =
              IF t \in Counted THEN Cardinality(Counted) - 1 ELSE Cardinality(Counted)
<1>1. IsFiniteSet(Counted)
  <2>1. Counted \in SUBSET Threads
    BY DEF Counted
  <2> QED
    BY <2>1, ThreadsAssumption, FS_Subset
<1>2. Cardinality(Counted) \in Nat
  BY <1>1, FS_CardinalityType
<1>3. Cardinality(Counted) = 0 <=> Counted = {}
  BY <1>1, FS_EmptySet
<1>4. ASSUME NEW t \in Threads
      PROVE Cardinality(Counted \cup {t}) =
              IF t \in Counted THEN Cardinality(Counted) ELSE Cardinality(Counted) + 1
  BY <1>1, FS_AddElement
<1>5. ASSUME NEW t \in Threads
      PROVE Cardinality(Counted \ {t}) =
              IF t \in Counted THEN Cardinality(Counted) - 1 ELSE Cardinality(Counted)
  BY <1>1, FS_RemoveElement
<1> QED
  BY <1>1, <1>2, <1>3, <1>4, <1>5

LEMMA InitInvariant == Init => IInv
<1> SUFFICES ASSUME Init PROVE IInv
  OBVIOUS
<1>1. Shape
  <2>1. reader_locks \in Int /\ pc \in [Threads -> Places]
    BY DEF Init, Places
  <2>2. writer_locked \in BOOLEAN
    BY DEF Init
  <2> QED
    BY <2>1, <2>2 DEF Shape
<1>2. Counted = {} /\ Flagged = {}
  BY DEF Init, Counted, Flagged
<1>3. AtomicsTrueToHolders
  BY <1>2, FS_EmptySet DEF Init, AtomicsTrueToHolders
<1>4. Exclusion
  BY DEF Init, Exclusion
<1> QED
  BY <1>1, <1>3, <1>4 DEF IInv

\* A step that moves t between places of neither kind, or within one kind, and leaves
\* the atomics alone.
LEMMA QuietMove ==
    ASSUME IInv, NEW t \in Threads, NEW x \in Places \ {"reading", "writing"},
           pc' = [pc EXCEPT ![t] = x],
           x \in CountedAt <=> pc[t] \in CountedAt,
           x \in FlaggedAt <=> pc[t] \in FlaggedAt,
           UNCHANGED atomics
    PROVE  IInv'
<1>1. Shape' /\ \A u \in Threads \ {t} : pc'[u] = pc[u]
  BY Moves DEF IInv, Shape, atomics
<1>2. Counted' = Counted /\ Flagged' = Flagged
  BY <1>1, Moves DEF IInv, Counted, Flagged, CountedAt, FlaggedAt
<1>3. AtomicsTrueToHolders'
  BY <1>2 DEF IInv, AtomicsTrueToHolders, atomics
<1>4. Exclusion'
  BY <1>1, Moves DEF IInv, Exclusion
<1> QED
  BY <1>1, <1>3, <1>4 DEF IInv

\* The invariant is kept by every step of every thread.
LEMMA StepInvariant == IInv /\ [Next]_vars => IInv'
<1> SUFFICES ASSUME IInv, [Next]_vars PROVE IInv'
  OBVIOUS
<1> USE DEF Goto
<1>0. \A u \in Threads : u \in Counted <=> pc[u] \in CountedAt
  BY DEF Counted, CountedAt
<1>1. \A u \in Threads : u \in Flagged <=> pc[u] \in FlaggedAt
  BY DEF Flagged, FlaggedAt
<1>2. Shape /\ AtomicsTrueToHolders /\ Exclusion
  BY DEF IInv
<1>3. ASSUME NEW t \in Threads, CallRead(t) PROVE IInv'
  BY <1>3, QuietMove DEF CallRead, Places, CountedAt, FlaggedAt
<1>4. ASSUME NEW t \in Threads, CallWrite(t) PROVE IInv'
  BY <1>4, QuietMove DEF CallWrite, Places, CountedAt, FlaggedAt
<1>5. ASSUME NEW t \in Threads, AddReader(t) PROVE IInv'
  <2>1. pc' = [pc EXCEPT ![t] = "check writer"] /\ pc[t] = "add reader"
    BY <1>5 DEF AddReader
  <2>2. "check writer" \in Places /\ "check writer" \in CountedAt /\ "check writer" \notin FlaggedAt
    BY DEF Places, CountedAt, FlaggedAt
  <2>3. /\ pc' \in [Threads -> Places] /\ pc'[t] = "check writer"
        /\ \A u \in Threads \ {t} : pc'[u] = pc[u]
        /\ Counted' = Counted \cup {t} /\ Flagged' = Flagged \ {t}
    BY <1>2, <2>1, <2>2, Moves
  <2>4. t \notin Counted /\ t \notin Flagged
    BY <1>0, <1>1, <2>1 DEF CountedAt, FlaggedAt
  <2>5. reader_locks' = reader_locks + 1 /\ writer_locked' = writer_locked
    BY <1>5 DEF AddReader
  <2>6. AtomicsTrueToHolders'
    <3>1. Cardinality(Counted') = Cardinality(Counted) + 1
      BY <2>3, <2>4, CountedFinite
    <3>2. Flagged' = Flagged
      BY <2>3, <2>4
    <3> QED
      BY <1>2, <2>5, <3>1, <3>2 DEF AtomicsTrueToHolders
  <2>7. Shape'
    <3>1. reader_locks' \in Int
      BY <1>2, <2>5 DEF Shape
    <3>2. writer_locked' \in BOOLEAN
      BY <1>2, <2>5 DEF Shape
    <3> QED
      BY <2>3, <3>1, <3>2 DEF Shape
  <2>8. Exclusion'
    BY <1>2, <2>3 DEF Exclusion
  <2> QED
    BY <2>6, <2>7, <2>8 DEF IInv
<1>6. ASSUME NEW t \in Threads, CheckWriter(t) PROVE IInv'
  <2>1. CASE writer_locked
    BY <1>6, <2>1, QuietMove DEF CheckWriter, Places, CountedAt, FlaggedAt
  <2>2. CASE ~writer_locked
    <3>1. pc' = [pc EXCEPT ![t] = "reading"] /\ pc[t] = "check writer" /\ UNCHANGED atomics
      BY <1>6, <2>2 DEF CheckWriter
    <3>2. "reading" \in Places /\ "reading" \in CountedAt /\ "reading" \notin FlaggedAt
      BY DEF Places, CountedAt, FlaggedAt
    <3>3. /\ pc' \in [Threads -> Places] /\ pc'[t] = "reading"
          /\ \A u \in Threads \ {t} : pc'[u] = pc[u]
          /\ Counted' = Counted \cup {t} /\ Flagged' = Flagged \ {t}
      BY <1>2, <3>1, <3>2, Moves
    <3>4. t \in Counted /\ Flagged = {}
      BY <1>0, <1>2, <2>2, <3>1 DEF CountedAt, AtomicsTrueToHolders
    <3>5. Counted' = Counted /\ Flagged' = Flagged
      BY <3>3, <3>4
    <3>6. AtomicsTrueToHolders'
      BY <1>2, <3>1, <3>5 DEF AtomicsTrueToHolders, atomics
    <3>7. \A u \in Threads : pc[u] # "writing"
      BY <1>1, <3>4 DEF FlaggedAt
    <3>8. Exclusion'
      BY <3>3, <3>7 DEF Exclusion
    <3>9. Shape'
      <4>1. reader_locks' \in Int
        BY <1>2, <3>1 DEF Shape, atomics
      <4>2. writer_locked' \in BOOLEAN
        BY <1>2, <3>1 DEF Shape, atomics
      <4> QED
        BY <3>3, <4>1, <4>2 DEF Shape
    <3> QED
      BY <3>6, <3>8, <3>9 DEF IInv
  <2> QED
    BY <2>1, <2>2
<1>7. ASSUME NEW t \in Threads, NEW x \in {"idle", "spin"},
             pc[t] \in {"back out", "reading"}, pc' = [pc EXCEPT ![t] = x],
             reader_locks' = reader_locks - 1, writer_locked' = writer_locked
      PROVE IInv'
  <2>1. x \in Places /\ x \notin CountedAt /\ x \notin FlaggedAt
    BY DEF Places, CountedAt, FlaggedAt
  <2>2. /\ pc' \in [Threads -> Places] /\ pc'[t] = x
        /\ \A u \in Threads \ {t} : pc'[u] = pc[u]
        /\ Counted' = Counted \ {t} /\ Flagged' = Flagged \ {t}
    BY <1>2, <1>7, <2>1, Moves
  <2>3. t \in Counted /\ t \notin Flagged
    BY <1>0, <1>1, <1>7 DEF CountedAt, FlaggedAt
  <2>4. AtomicsTrueToHolders'
    <3>1. Cardinality(Counted') = Cardinality(Counted) - 1
      BY <2>2, <2>3, CountedFinite
    <3>2. Flagged' = Flagged
      BY <2>2, <2>3
    <3> QED
      BY <1>2, <1>7, <3>1, <3>2 DEF AtomicsTrueToHolders
  <2>5. Shape'
    <3>. reader_locks' = reader_locks - 1
      BY <1>7
    <3>1. reader_locks' \in Int
      BY <1>2 DEF Shape
    <3>2. writer_locked' \in BOOLEAN
      BY <1>2, <1>7 DEF Shape
    <3> QED
      BY <2>2, <3>1, <3>2 DEF Shape
  <2>6. Exclusion'
    BY <1>2, <2>2 DEF Exclusion
  <2> QED
    BY <2>4, <2>5, <2>6 DEF IInv
<1>8. ASSUME NEW t \in Threads, BackOut(t) PROVE IInv'
  BY <1>7, <1>8 DEF BackOut
<1>9. ASSUME NEW t \in Threads, UnlockRead(t) PROVE IInv'
  BY <1>7, <1>9 DEF UnlockRead
<1>10. ASSUME NEW t \in Threads, Spin(t) PROVE IInv'
  BY <1>10, QuietMove DEF Spin, Places, CountedAt, FlaggedAt
<1>11. ASSUME NEW t \in Threads, SetFlag(t) PROVE IInv'
  <2>1. CASE writer_locked
    BY <1>11, <2>1, QuietMove DEF SetFlag, Places, CountedAt, FlaggedAt, atomics
  <2>2. CASE ~writer_locked
    <3>1. /\ pc' = [pc EXCEPT ![t] = "check readers"] /\ pc[t] = "set flag"
          /\ writer_locked' = TRUE /\ reader_locks' = reader_locks
      BY <1>11, <2>2 DEF SetFlag
    <3>2. "check readers" \in Places /\ "check readers" \notin CountedAt /\ "check readers" \in FlaggedAt
      BY DEF Places, CountedAt, FlaggedAt
    <3>3. /\ pc' \in [Threads -> Places] /\ pc'[t] = "check readers"
          /\ \A u \in Threads \ {t} : pc'[u] = pc[u]
          /\ Counted' = Counted \ {t} /\ Flagged' = Flagged \cup {t}
      BY <1>2, <3>1, <3>2, Moves
    <3>4. t \notin Counted /\ Flagged = {}
      BY <1>0, <1>2, <2>2, <3>1 DEF CountedAt, AtomicsTrueToHolders
    <3>5. Counted' = Counted /\ Flagged' = {t}
      BY <3>3, <3>4
    <3>6. AtomicsTrueToHolders'
      BY <1>2, <3>1, <3>5 DEF AtomicsTrueToHolders
    <3>7. Exclusion'
      BY <1>2, <3>3 DEF Exclusion
    <3>8. Shape'
      BY <1>2, <3>1, <3>3 DEF Shape
    <3> QED
      BY <3>6, <3>7, <3>8 DEF IInv
  <2> QED
    BY <2>1, <2>2
<1>12. ASSUME NEW t \in Threads, CheckReaders(t) PROVE IInv'
  <2>1. CASE reader_locks # 0
    BY <1>12, <2>1, QuietMove DEF CheckReaders, Places, CountedAt, FlaggedAt
  <2>2. CASE reader_locks = 0
    <3>1. pc' = [pc EXCEPT ![t] = "writing"] /\ pc[t] = "check readers" /\ UNCHANGED atomics
      BY <1>12, <2>2 DEF CheckReaders
    <3>2. "writing" \in Places /\ "writing" \notin CountedAt /\ "writing" \in FlaggedAt
      BY DEF Places, CountedAt, FlaggedAt
    <3>3. /\ pc' \in [Threads -> Places] /\ pc'[t] = "writing"
          /\ \A u \in Threads \ {t} : pc'[u] = pc[u]
          /\ Counted' = Counted \ {t} /\ Flagged' = Flagged \cup {t}
      BY <1>2, <3>1, <3>2, Moves
    <3>4. t \in Flagged /\ Counted = {}
      BY <1>1, <1>2, <2>2, <3>1, CountedFinite DEF FlaggedAt, AtomicsTrueToHolders
    <3>5. Counted' = Counted /\ Flagged' = Flagged
      BY <3>3, <3>4
    <3>6. AtomicsTrueToHolders'
      BY <1>2, <3>1, <3>5 DEF AtomicsTrueToHolders, atomics
    <3>7. \A u \in Threads \ {t} : pc[u] \notin {"reading", "writing"}
      <4>1. \A u \in Threads : pc[u] # "reading"
        BY <1>0, <3>4 DEF CountedAt
      <4>2. \A u \in Threads \ {t} : pc[u] # "writing"
        BY <1>1, <1>2, <3>4 DEF FlaggedAt, AtomicsTrueToHolders
      <4> QED
        BY <4>1, <4>2
    <3>8. Exclusion'
      BY <3>3, <3>7 DEF Exclusion
    <3>9. Shape'
      <4>1. reader_locks' \in Int
        BY <1>2, <3>1 DEF Shape, atomics
      <4>2. writer_locked' \in BOOLEAN
        BY <1>2, <3>1 DEF Shape, atomics
      <4> QED
        BY <3>3, <4>1, <4>2 DEF Shape
    <3> QED
      BY <3>6, <3>8, <3>9 DEF IInv
  <2> QED
    BY <2>1, <2>2
<1>13. ASSUME NEW t \in Threads, pc[t] \in {"take down", "writing"},
              pc' = [pc EXCEPT ![t] = "idle"],
              writer_locked' = FALSE, reader_locks' = reader_locks
       PROVE IInv'
  <2>1. "idle" \in Places /\ "idle" \notin CountedAt /\ "idle" \notin FlaggedAt
    BY DEF Places, CountedAt, FlaggedAt
  <2>2. /\ pc' \in [Threads -> Places] /\ pc'[t] = "idle"
        /\ \A u \in Threads \ {t} : pc'[u] = pc[u]
        /\ Counted' = Counted \ {t} /\ Flagged' = Flagged \ {t}
    BY <1>2, <1>13, <2>1, Moves
  <2>3. t \notin Counted /\ t \in Flagged
    BY <1>0, <1>1, <1>13 DEF CountedAt, FlaggedAt
  <2>4. Counted' = Counted /\ Flagged' = {}
    BY <1>2, <2>2, <2>3 DEF AtomicsTrueToHolders
  <2>5. AtomicsTrueToHolders'
    BY <1>2, <1>13, <2>4 DEF AtomicsTrueToHolders
  <2>6. Shape'
    BY <1>2, <1>13, <2>2 DEF Shape
  <2>7. Exclusion'
    BY <1>2, <2>2 DEF Exclusion
  <2> QED
    BY <2>5, <2>6, <2>7 DEF IInv
<1>14. ASSUME NEW t \in Threads, TakeDown(t) PROVE IInv'
  BY <1>13, <1>14 DEF TakeDown
<1>15. ASSUME NEW t \in Threads, UnlockWrite(t) PROVE IInv'
  BY <1>13, <1>15 DEF UnlockWrite
<1>16. CASE UNCHANGED vars
  <2>1. Counted' = Counted /\ Flagged' = Flagged
    BY <1>16 DEF vars, Counted, Flagged
  <2> QED
    BY <1>2, <1>16, <2>1 DEF IInv, Shape, AtomicsTrueToHolders, Exclusion, vars, atomics
<1> QED
  BY <1>3, <1>4, <1>5, <1>6, <1>8, <1>9, <1>10, <1>11, <1>12, <1>14, <1>15, <1>16
     DEF Next, Proceed

LEMMA Invariant == Spec => []IInv
<1> QED
  BY InitInvariant, StepInvariant, PTL DEF Spec

\* Nobody reads while somebody writes, and one thread writes at a time.
THEOREM ExclusionAlways == Spec => []Exclusion
<1>1. IInv => Exclusion
  BY DEF IInv
<1> QED
  BY <1>1, Invariant, PTL

\* The count and the flag are those of the threads that hold or try.
THEOREM AtomicsAlwaysTrue == Spec => []AtomicsTrueToHolders
<1>1. IInv => AtomicsTrueToHolders
  BY DEF IInv
<1> QED
  BY <1>1, Invariant, PTL

\* The readers and the writer that SharedLock sees, when f says where the threads are.
ReadersAt(f) == {t \in Threads : f[t] = "reading"}
WritersAt(f) == {t \in Threads : f[t] = "writing"}
WriterAt(f) == IF \E t \in Threads : f[t] = "writing"
               THEN CHOOSE t \in Threads : f[t] = "writing" ELSE Nobody
Readers   == ReadersAt(pc)
Writers   == WritersAt(pc)
TheWriter == WriterAt(pc)

\* By exclusion the writer is the thread that writes, and while it does nobody reads.
LEMMA WriterSeen ==
    ASSUME NEW f,
           \A t, u \in Threads : f[t] = "writing" /\ t # u => f[u] \notin {"reading", "writing"}
    PROVE  /\ \A t \in Threads : f[t] = "writing" => WriterAt(f) = t /\ ReadersAt(f) = {}
           /\ WritersAt(f) = {} <=> WriterAt(f) = Nobody
<1>1. ASSUME NEW t \in Threads, f[t] = "writing" PROVE WriterAt(f) = t /\ ReadersAt(f) = {}
  <2>1. \A u \in Threads : f[u] = "writing" => u = t
    BY <1>1
  <2>2. \A u \in Threads : f[u] # "reading"
    BY <1>1
  <2> QED
    BY <1>1, <2>1, <2>2 DEF WriterAt, ReadersAt
<1>2. ASSUME WritersAt(f) = {} PROVE WriterAt(f) = Nobody
  BY <1>2 DEF WritersAt, WriterAt
<1>3. ASSUME WritersAt(f) # {} PROVE WriterAt(f) \in Threads
  BY <1>3 DEF WritersAt, WriterAt
<1> QED
  BY <1>1, <1>2, <1>3, ThreadsAssumption

\* A step changes the place of one thread, so who holds the lock changes by one at most.
LEMMA OneMoves ==
    ASSUME Shape, [Next]_vars
    PROVE  \/ pc' = pc
           \/ \E t \in Threads, x \in Places :
                /\ pc' = [pc EXCEPT ![t] = x]
                /\ \/ x \notin {"reading", "writing"}
                   \/ x = "reading" /\ CheckWriter(t)
                   \/ x = "writing" /\ CheckReaders(t)
<1> USE DEF Goto, Places, CountedAt, FlaggedAt
<1>1. ASSUME NEW t \in Threads, CallRead(t) \/ CallWrite(t) PROVE
        \E x \in Places \ {"reading", "writing"} : pc' = [pc EXCEPT ![t] = x]
  BY <1>1 DEF CallRead, CallWrite
<1>2. ASSUME NEW t \in Threads,
             AddReader(t) \/ BackOut(t) \/ Spin(t) \/ UnlockRead(t) PROVE
        \E x \in Places \ {"reading", "writing"} : pc' = [pc EXCEPT ![t] = x]
  BY <1>2 DEF AddReader, BackOut, Spin, UnlockRead
<1>3. ASSUME NEW t \in Threads, SetFlag(t) \/ TakeDown(t) \/ UnlockWrite(t) PROVE
        \E x \in Places \ {"reading", "writing"} : pc' = [pc EXCEPT ![t] = x]
  BY <1>3 DEF SetFlag, TakeDown, UnlockWrite
<1>4. ASSUME NEW t \in Threads, CheckWriter(t) PROVE
        pc' = [pc EXCEPT ![t] = "reading"] \/ pc' = [pc EXCEPT ![t] = "back out"]
  BY <1>4 DEF CheckWriter
<1>5. ASSUME NEW t \in Threads, CheckReaders(t) PROVE
        pc' = [pc EXCEPT ![t] = "writing"] \/ pc' = [pc EXCEPT ![t] = "take down"]
  BY <1>5 DEF CheckReaders
<1>6. UNCHANGED vars => pc' = pc
  BY DEF vars
<1>7. ASSUME NEW t \in Threads, CallRead(t) \/ CallWrite(t) \/ Proceed(t) PROVE
        \E x \in Places :
                /\ pc' = [pc EXCEPT ![t] = x]
                /\ \/ x \notin {"reading", "writing"}
                   \/ x = "reading" /\ CheckWriter(t)
                   \/ x = "writing" /\ CheckReaders(t)
  <2>1. CASE CheckWriter(t)
    BY <1>4, <2>1
  <2>2. CASE CheckReaders(t)
    BY <1>5, <2>2
  <2>3. CASE ~CheckWriter(t) /\ ~CheckReaders(t)
    <3>1. \E x \in Places \ {"reading", "writing"} : pc' = [pc EXCEPT ![t] = x]
      BY <1>1, <1>2, <1>3, <1>7, <2>3, Zenon DEF Proceed
    <3> QED
      BY <3>1
  <2> QED
    BY <2>1, <2>2, <2>3
<1> QED
  BY <1>6, <1>7 DEF Next

\* Every step of the spinning lock is a step of SharedLock, or does not show there.
LEMMA StepRefines ==
    ASSUME IInv, IInv', [Next]_vars
    PROVE  [Abstract!Next]_<<Readers, TheWriter>>
<1>1. CASE pc' = pc
  BY <1>1 DEF Readers, ReadersAt, TheWriter, WriterAt
<1>2. ASSUME NEW t \in Threads, NEW x \in Places, pc' = [pc EXCEPT ![t] = x],
             \/ x \notin {"reading", "writing"}
             \/ x = "reading" /\ CheckWriter(t)
             \/ x = "writing" /\ CheckReaders(t)
      PROVE [Abstract!Next]_<<Readers, TheWriter>>
  <2>1. pc'[t] = x /\ \A u \in Threads \ {t} : pc'[u] = pc[u]
    BY <1>2 DEF IInv, Shape
  <2>2. Exclusion /\ Exclusion'
    BY DEF IInv
  <2>3. /\ x = "reading" => Readers' = Readers \cup {t}
        /\ x # "reading" => Readers' = Readers \ {t}
        /\ x = "writing" => Writers' = Writers \cup {t}
        /\ x # "writing" => Writers' = Writers \ {t}
    BY <2>1 DEF Readers, ReadersAt, Writers, WritersAt
  <2>4. /\ \A u \in Threads : pc[u] = "writing" => TheWriter = u /\ Readers = {}
        /\ Writers = {} <=> TheWriter = Nobody
    BY <2>2, WriterSeen DEF Exclusion, TheWriter, Readers, Writers
  <2>5. /\ \A u \in Threads : pc'[u] = "writing" => TheWriter' = u /\ Readers' = {}
        /\ Writers' = {} <=> TheWriter' = Nobody
    BY <2>2, WriterSeen DEF Exclusion, TheWriter, Readers, Writers
  <2>6. CASE x = "reading"
    <3>1. TheWriter' = Nobody
      BY <2>1, <2>5, <2>6 DEF Writers, WritersAt, Readers, ReadersAt
    <3>2. pc[t] = "check writer"
      BY <1>2, <2>6 DEF CheckWriter, Goto
    <3>3. Writers' = Writers
      BY <2>1, <2>6, <3>2 DEF Writers, WritersAt
    <3>4. TheWriter = Nobody
      BY <2>4, <2>5, <3>1, <3>3
    <3>5. Abstract!AcquireRead(t)
      BY <2>3, <2>6, <3>1, <3>4 DEF Abstract!AcquireRead, Readers, ReadersAt, TheWriter, WriterAt
    <3> QED
      BY <3>5 DEF Abstract!Next
  <2>7. CASE x = "writing"
    <3>1. pc[t] = "check readers" /\ Readers' = {} /\ TheWriter' = t
      BY <1>2, <2>1, <2>5, <2>7 DEF CheckReaders, Goto
    <3>2. Readers' = Readers
      BY <2>1, <2>7, <3>1 DEF Readers, ReadersAt
    <3>3. Writers = {}
      BY <2>1, <2>2, <2>7, <3>1 DEF Writers, WritersAt, Exclusion
    <3>4. Abstract!AcquireWrite(t)
      BY <2>4, <3>1, <3>2, <3>3 DEF Abstract!AcquireWrite, Readers, ReadersAt, TheWriter, WriterAt
    <3> QED
      BY <3>4 DEF Abstract!Next
  <2>8. CASE x \notin {"reading", "writing"}
    <3>1. CASE pc[t] = "reading"
      <4>1. Writers = {} /\ Writers' = {}
        BY <2>1, <2>2, <2>3, <2>8, <3>1 DEF Writers, WritersAt, Exclusion
      <4>2. Abstract!ReleaseRead(t)
        BY <2>3, <2>4, <2>5, <2>8, <3>1, <4>1 DEF Abstract!ReleaseRead, Readers, ReadersAt, TheWriter, WriterAt
      <4> QED
        BY <4>2 DEF Abstract!Next
    <3>2. CASE pc[t] = "writing"
      <4>1. Writers' = {}
        BY <2>1, <2>2, <2>8, <3>2 DEF Writers, WritersAt, Exclusion
      <4>2. Readers' = Readers
        BY <2>1, <2>8, <3>2 DEF Readers, ReadersAt
      <4>3. Abstract!ReleaseWrite(t)
        BY <2>4, <2>5, <3>2, <4>1, <4>2 DEF Abstract!ReleaseWrite, Readers, ReadersAt, TheWriter, WriterAt
      <4> QED
        BY <4>3 DEF Abstract!Next
    <3>3. CASE pc[t] \notin {"reading", "writing"}
      <4>1. Readers' = Readers
        BY <2>1, <2>8, <3>3 DEF Readers, ReadersAt
      <4>2. Writers' = Writers
        BY <2>1, <2>8, <3>3 DEF Writers, WritersAt
      <4>3. TheWriter' = TheWriter
        <5>1. CASE Writers = {}
          BY <2>4, <2>5, <4>2, <5>1
        <5>2. ASSUME NEW u \in Writers PROVE TheWriter' = TheWriter
          BY <2>4, <2>5, <4>2, <5>2 DEF Writers, WritersAt
        <5> QED
          BY <5>1, <5>2
      <4> QED
        BY <4>1, <4>3
    <3> QED
      BY <3>1, <3>2, <3>3
  <2> QED
    BY <1>2, <2>6, <2>7, <2>8
<1>3. Shape
  BY DEF IInv
<1> QED
  BY <1>1, <1>2, <1>3, OneMoves

\* The spinning lock implements SharedLock.
THEOREM LockImplements == Spec => ImplementsSharedLock
<1>1. Init => Abstract!Init
  BY ThreadsAssumption DEF Init, Abstract!Init
<1>2. IInv /\ IInv' /\ [Next]_vars => [Abstract!Next]_(Abstract!vars)
  BY StepRefines DEF Abstract!vars, Readers, ReadersAt, TheWriter, WriterAt
<1> QED
  BY <1>1, <1>2, Invariant, PTL DEF Spec, ImplementsSharedLock, Abstract!Spec
=============================================================================
