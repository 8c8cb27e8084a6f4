------------------------------- MODULE RWLock -------------------------------
(***************************************************************************)
(* The writer-preferring readers-writer lock of whist/utils/rwlock.c.      *)
(*                                                                         *)
(* A step is what a thread does in one critical section.  Only             *)
(* num_writers_lock is held across two of them (in read_lock, while the    *)
(* reader is counted): it is taken when some thread is in "count".  A      *)
(* thread that waits on a condition variable is in a state of its own,     *)
(* until the condition is broadcast, or for no reason at all.              *)
(***************************************************************************)
EXTENDS Naturals, FiniteSets

CONSTANTS Readers, Writers   \* the threads that read, and those that write

Threads == Readers \cup Writers

ASSUME ThreadsAssumption == IsFiniteSet(Threads)

VARIABLES
    num_active_readers,
    num_writers,
    is_active_writer,
    rw                   \* where each thread is

vars == <<num_active_readers, num_writers, is_active_writer, rw>>

Init ==
    /\ num_active_readers = 0
    /\ num_writers = 0
    /\ is_active_writer = FALSE
    /\ rw = [t \in Threads |-> "out"]

NumWritersLockIsFree == \A t \in Threads : rw[t] # "count"

Goto(t, place) == rw' = [rw EXCEPT ![t] = place]

\* whist_broadcast_cond, on the way of t to a new place
Woken(waiting, woken) == [u \in Threads |-> IF rw[u] = waiting THEN woken ELSE rw[u]]
GotoAndWake(t, place, waiting, woken) == rw' = [Woken(waiting, woken) EXCEPT ![t] = place]

-----------------------------------------------------------------------------
(* read_lock *)

ReadLock(t) ==
    /\ rw[t] = "out"
    /\ Goto(t, "check_writers")
    /\ UNCHANGED <<num_active_readers, num_writers, is_active_writer>>

CheckWriters(t) ==
    /\ rw[t] = "check_writers"
    /\ NumWritersLockIsFree
    /\ Goto(t, IF num_writers > 0 THEN "wait_writers" ELSE "count")
    /\ UNCHANGED <<num_active_readers, num_writers, is_active_writer>>

\* Mutation: the reader is not counted
CountsNobody(t) ==
    /\ rw[t] = "count"
    /\ Goto(t, "reading")
    /\ UNCHANGED <<num_active_readers, num_writers, is_active_writer>>

CountReader(t) ==
    /\ rw[t] = "count"
    /\ num_active_readers' = num_active_readers + 1
    /\ Goto(t, "reading")
    /\ UNCHANGED <<num_writers, is_active_writer>>

\* Mutation: the last reader wakes nobody
LeavesSilently(t) ==
    /\ rw[t] = "reading"
    /\ num_active_readers' = num_active_readers - 1
    /\ Goto(t, "out")
    /\ UNCHANGED <<num_writers, is_active_writer>>

ReadUnlock(t) ==
    /\ rw[t] = "reading"
    /\ num_active_readers' = num_active_readers - 1
    /\ IF num_active_readers' = 0
         THEN GotoAndWake(t, "out", "wait_readers", "check_readers")
         ELSE Goto(t, "out")
    /\ UNCHANGED <<num_writers, is_active_writer>>

-----------------------------------------------------------------------------
(* write_lock *)

\* Mutation: a writer counts itself while a reader holds num_writers_lock
RequestsUnlocked(t) ==
    /\ rw[t] = "out"
    /\ num_writers' = num_writers + 1
    /\ Goto(t, "check_readers")
    /\ UNCHANGED <<num_active_readers, is_active_writer>>

WriteLock(t) ==
    /\ rw[t] = "out"
    /\ NumWritersLockIsFree
    /\ num_writers' = num_writers + 1
    /\ Goto(t, "check_readers")
    /\ UNCHANGED <<num_active_readers, is_active_writer>>

CheckReaders(t) ==
    /\ rw[t] = "check_readers"
    /\ Goto(t, IF num_active_readers > 0 THEN "wait_readers" ELSE "check_writer")
    /\ UNCHANGED <<num_active_readers, num_writers, is_active_writer>>

CheckWriter(t) ==
    /\ rw[t] = "check_writer"
    /\ is_active_writer' = TRUE
    /\ Goto(t, IF is_active_writer THEN "wait_writer" ELSE "writing")
    /\ UNCHANGED <<num_active_readers, num_writers>>

(* write_unlock *)

WriteUnlock(t) ==
    /\ rw[t] = "writing"
    /\ is_active_writer' = FALSE
    /\ Goto(t, "signal")
    /\ UNCHANGED <<num_active_readers, num_writers>>

SignalWriters(t) ==
    /\ rw[t] = "signal"
    /\ GotoAndWake(t, "leave", "wait_writer", "check_writer")
    /\ UNCHANGED <<num_active_readers, num_writers, is_active_writer>>

WriterLeaves(t) ==
    /\ rw[t] = "leave"
    /\ NumWritersLockIsFree
    /\ num_writers' = num_writers - 1
    /\ IF num_writers' = 0
         THEN GotoAndWake(t, "out", "wait_writers", "check_writers")
         ELSE Goto(t, "out")
    /\ UNCHANGED <<num_active_readers, is_active_writer>>

-----------------------------------------------------------------------------
\* A wait may also end without a broadcast.
WakeUp(t) ==
    /\ \/ rw[t] = "wait_writers" /\ Goto(t, "check_writers")
       \/ rw[t] = "wait_readers" /\ Goto(t, "check_readers")
       \/ rw[t] = "wait_writer" /\ Goto(t, "check_writer")
    /\ UNCHANGED <<num_active_readers, num_writers, is_active_writer>>

\* What a thread does inside of a call until it returns
Continue(t) ==
    \/ CheckWriters(t) \/ CountReader(t)
    \/ CheckReaders(t) \/ CheckWriter(t)
    \/ SignalWriters(t) \/ WriterLeaves(t)

Next ==
    \/ \E t \in Readers : ReadLock(t) \/ ReadUnlock(t)
    \/ \E t \in Writers : WriteLock(t) \/ WriteUnlock(t)
    \/ \E t \in Threads : Continue(t) \/ WakeUp(t)

Spec == Init /\ [][Next]_vars

\* Every thread gets on with its call, and gives the lock back.
Fairness ==
    \A t \in Threads : WF_vars(Continue(t)) /\ WF_vars(ReadUnlock(t)) /\ WF_vars(WriteUnlock(t))

FairSpec == Spec /\ Fairness

-----------------------------------------------------------------------------
Places == {"out", "check_writers", "wait_writers", "count", "reading", "check_readers",
           "wait_readers", "check_writer", "wait_writer", "writing", "signal", "leave"}

\* Every variable has its type; in particular, no count goes below 0.
TypeOK ==
    /\ num_active_readers \in Nat
    /\ num_writers \in Nat
    /\ is_active_writer \in BOOLEAN
    /\ rw \in [Threads -> Places]

\* A writer has the lock for itself: nobody reads while one writes, and no two write.
Exclusion ==
    \A t, u \in Threads :
        rw[t] = "writing" /\ rw[u] \in {"reading", "writing"} => t = u

\* Nobody sleeps through a wake-up: who waits for a condition waits for something that
\* is still going on, or for a thread that is about to broadcast.
NoLostWakeup ==
    \A t \in Threads :
        /\ rw[t] = "wait_writers" => num_writers > 0
        /\ rw[t] = "wait_readers" => num_active_readers > 0
        /\ rw[t] = "wait_writer" => is_active_writer \/ \E u \in Threads : rw[u] = "signal"

\* The lock is write-preferred: no reader gets in while a writer waits.
WriterIsPreferred ==
    [][\A t \in Readers : rw[t] # "reading" /\ rw'[t] = "reading" =>
          \A u \in Threads : rw[u] \notin {"check_readers", "wait_readers", "check_writer",
                                           "wait_writer", "writing"}]_vars

\* Readers never keep a writer out for ever: some writer gets in.
SomeWriterWrites ==
    (\E t \in Writers : rw[t] \in {"check_readers", "wait_readers"}) ~>
    (\E t \in Writers : rw[t] = "writing")
=============================================================================
