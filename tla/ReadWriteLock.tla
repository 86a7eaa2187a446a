--------------------------- MODULE ReadWriteLock ---------------------------
(***************************************************************************)
(* The spinning read-write lock of debug_files/locks.h: the locker used    *)
(* where std::shared_mutex is not available.                               *)
(*                                                                         *)
(* A locker is two atomics, a count of readers and a flag of the writer.   *)
(* Both sides announce themselves first and look at the other's atomic     *)
(* then: a reader that sees the flag backs out, a writer that sees readers *)
(* waits for them, or backs out when it only tries.  Each thread uses one  *)
(* ReaderLock and one WriterLock object at a time; an action is one atomic *)
(* operation together with the thread's own steps up to the next.          *)
(*                                                                         *)
(* The atomics are taken to be sequentially consistent, as read-modify-    *)
(* write instructions are on the x86-64 that the program's __m128i needs.  *)
(***************************************************************************)
EXTENDS Integers, FiniteSets

CONSTANTS
    Threads,       \* threads that share one locker
    Nobody         \* no thread

ASSUME ThreadsAssumption == IsFiniteSet(Threads) /\ Nobody \notin Threads

VARIABLES
    reader_locks,  \* reader_locks_
    writer_locked, \* writer_locked_
    pc,            \* pc[t]: where thread t is
    trying         \* the threads that are in a try_acquire

atomics == <<reader_locks, writer_locked>>
vars    == <<atomics, pc, trying>>

Init ==
    /\ reader_locks = 0 /\ writer_locked = FALSE
    /\ pc = [t \in Threads |-> "idle"]
    /\ trying = {}

Goto(t, from, to) == pc[t] = from /\ pc' = [pc EXCEPT ![t] = to]

-----------------------------------------------------------------------------
(* ReaderLock                                                              *)

\* A call of acquire, or of try_acquire, by an idle thread: as often as it likes.
CallRead(t) ==
    /\ Goto(t, "idle", "add reader")
    /\ trying' = trying \cup {t} \/ UNCHANGED trying
    /\ UNCHANGED atomics

\* fetch_add, then locker_ is set.
AddReader(t) ==
    /\ Goto(t, "add reader", "check writer")
    /\ reader_locks' = reader_locks + 1
    /\ UNCHANGED <<writer_locked, trying>>

\* A variant that is no part of the model: the flag is not looked at again.
CheckWriterUnseen(t) ==
    /\ Goto(t, "check writer", "reading")
    /\ trying' = trying \ {t}
    /\ UNCHANGED atomics

\* The load of writer_locked_: the lock is taken, or the reader backs out.
CheckWriter(t) ==
    /\ \/ /\ ~writer_locked /\ Goto(t, "check writer", "reading")
          /\ trying' = trying \ {t}
       \/ /\ writer_locked /\ Goto(t, "check writer", "back out")
          /\ UNCHANGED trying
    /\ UNCHANGED atomics

\* A variant that is no part of the model: a reader that backs out stays counted.
BackOutUncounted(t) ==
    /\ Goto(t, "back out", IF t \in trying THEN "idle" ELSE "spin")
    /\ trying' = trying \ {t}
    /\ UNCHANGED atomics

\* unlock() of a reader that saw the flag: try_acquire fails, acquire waits.
BackOut(t) ==
    /\ Goto(t, "back out", IF t \in trying THEN "idle" ELSE "spin")
    /\ reader_locks' = reader_locks - 1
    /\ trying' = trying \ {t}
    /\ UNCHANGED writer_locked

\* The inner loop of acquire ends when the flag is down, and the outer begins again.
Spin(t) ==
    /\ ~writer_locked /\ Goto(t, "spin", "add reader")
    /\ UNCHANGED <<atomics, trying>>

\* unlock() by the holder.
UnlockRead(t) ==
    /\ Goto(t, "reading", "idle")
    /\ reader_locks' = reader_locks - 1
    /\ UNCHANGED <<writer_locked, trying>>

-----------------------------------------------------------------------------
(* WriterLock                                                              *)

CallWrite(t) ==
    /\ Goto(t, "idle", "set flag")
    /\ trying' = trying \cup {t} \/ UNCHANGED trying
    /\ UNCHANGED atomics

\* compare_exchange_strong: acquire repeats it until the flag was down, try_acquire
\* gives up.
SetFlag(t) ==
    /\ \/ /\ ~writer_locked /\ writer_locked' = TRUE
          /\ Goto(t, "set flag", "check readers") /\ UNCHANGED trying
       \/ /\ writer_locked /\ t \in trying
          /\ Goto(t, "set flag", "idle") /\ trying' = trying \ {t}
          /\ UNCHANGED writer_locked
    /\ UNCHANGED reader_locks

\* A variant that is no part of the model: readers are not waited for.
CheckReadersUnseen(t) ==
    /\ Goto(t, "check readers", "writing")
    /\ trying' = trying \ {t}
    /\ UNCHANGED atomics

\* The load of reader_locks_: acquire repeats it until there are none, try_acquire
\* takes its flag down.
CheckReaders(t) ==
    /\ \/ /\ reader_locks = 0 /\ Goto(t, "check readers", "writing")
          /\ trying' = trying \ {t}
       \/ /\ reader_locks # 0 /\ t \in trying
          /\ Goto(t, "check readers", "take down") /\ UNCHANGED trying
    /\ UNCHANGED atomics

\* A variant that is no part of the model: a failed try leaves its flag up.
TakeDownForgotten(t) ==
    /\ Goto(t, "take down", "idle")
    /\ trying' = trying \ {t}
    /\ UNCHANGED atomics

\* unlock() of a writer that saw readers: try_acquire fails.
TakeDown(t) ==
    /\ Goto(t, "take down", "idle")
    /\ writer_locked' = FALSE
    /\ trying' = trying \ {t}
    /\ UNCHANGED reader_locks

\* unlock() by the holder.
UnlockWrite(t) ==
    /\ Goto(t, "writing", "idle")
    /\ writer_locked' = FALSE
    /\ UNCHANGED <<reader_locks, trying>>

\* What a thread does on its own once it has called: everything but the call itself.
Proceed(t) ==
    \/ AddReader(t) \/ CheckWriter(t) \/ BackOut(t) \/ Spin(t) \/ UnlockRead(t)
    \/ SetFlag(t) \/ CheckReaders(t) \/ TakeDown(t) \/ UnlockWrite(t)

Next == \E t \in Threads : CallRead(t) \/ CallWrite(t) \/ Proceed(t)

\* Threads are scheduled, and a holder unlocks in the end; nobody has to call.
Spec == Init /\ [][Next]_vars /\ \A t \in Threads : WF_vars(Proceed(t))

-----------------------------------------------------------------------------

\* The threads that are counted in reader_locks_, and those whose flag it is.
Counted == {t \in Threads : pc[t] \in {"check writer", "back out", "reading"}}
Flagged == {t \in Threads : pc[t] \in {"check readers", "take down", "writing"}}

\* Nobody reads while somebody writes, and one thread writes at a time, although each
\* looks at the other's atomic only after its own was changed.
Exclusion ==
    \A t, u \in Threads : pc[t] = "writing" /\ t # u => pc[u] \notin {"reading", "writing"}

\* The atomics say what the threads hold: a thread that backs out or fails to get the
\* lock leaves no trace, and nobody takes down the flag of another.
AtomicsTrueToHolders ==
    /\ reader_locks = Cardinality(Counted)
    /\ writer_locked <=> Flagged # {}
    /\ \A t, u \in Flagged : t = u

\* A writer that has raised its flag gets the lock, or gives up where it only tries,
\* unless tries of readers fail for ever: each is counted until it has backed out, so
\* nothing promises that the writer ever finds no reader.  Readers that acquire cannot
\* hold it off, however many come: each backs out once and waits for the flag.
TriesFailForever == []<>(\E t \in trying : pc[t] = "back out")
FlaggedWriterSettles ==
    \/ \A t \in Threads : pc[t] = "check readers" ~> pc[t] \in {"writing", "idle"}
    \/ TriesFailForever

\* Without the spinning: readers and a writer that come and go, one at a time.
Abstract == INSTANCE SharedLock WITH
    readers <- {t \in Threads : pc[t] = "reading"},
    writer  <- IF \E t \in Threads : pc[t] = "writing"
               THEN CHOOSE t \in Threads : pc[t] = "writing" ELSE Nobody
ImplementsSharedLock == Abstract!Spec
=============================================================================
