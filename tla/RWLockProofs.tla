---------------------------- MODULE RWLockProofs ----------------------------
(***************************************************************************)
(* Proofs for module RWLock, for any number of readers and writers.        *)
(***************************************************************************)
EXTENDS RWLock, FiniteSetTheorems, TLAPS

\* Where a thread is counted in num_writers, and where it has seen the readers gone
Inside == {"check_readers", "wait_readers", "check_writer", "wait_writer", "writing", "signal",
           "leave"}
PastReaders == Inside \ {"check_readers", "wait_readers"}

Reading == {t \in Threads : rw[t] = "reading"}
Writing == {t \in Threads : rw[t] \in Inside}

CountsAreExact ==
    /\ num_active_readers = Cardinality(Reading)
    /\ num_writers = Cardinality(Writing)

\* num_writers_lock, which the reader in "count" holds, keeps writers out.
CountedFirst == \A t \in Threads : rw[t] = "count" => num_writers = 0

ReadersAreGone == \A t \in Threads : rw[t] \in PastReaders => num_active_readers = 0

OneActiveWriter ==
    /\ \A t \in Threads : rw[t] = "writing" => is_active_writer
    /\ \A t, u \in Threads : rw[t] = "writing" /\ rw[u] = "writing" => t = u

IndInv ==
    /\ TypeOK
    /\ CountsAreExact
    /\ CountedFirst
    /\ ReadersAreGone
    /\ OneActiveWriter
    /\ NoLostWakeup

-----------------------------------------------------------------------------
\* A count is a number, and 0 exactly when there is nothing to count.
LEMMA CountIsZero ==
    ASSUME NEW S \in SUBSET Threads
    PROVE  /\ IsFiniteSet(S)
           /\ Cardinality(S) \in Nat
           /\ Cardinality(S) = 0 <=> S = {}
BY ThreadsAssumption, FS_Subset, FS_CardinalityType, FS_EmptySet

\* One thread comes in.
LEMMA CountOneMore ==
    ASSUME NEW S \in SUBSET Threads, NEW t \in Threads, t \notin S
    PROVE  Cardinality(S \cup {t}) = Cardinality(S) + 1
BY CountIsZero, FS_AddElement

\* One thread leaves.
LEMMA CountOneLess ==
    ASSUME NEW S \in SUBSET Threads, NEW t \in S
    PROVE  Cardinality(S \ {t}) = Cardinality(S) - 1
BY CountIsZero, FS_RemoveElement

\* The counts, and who is counted
LEMMA Counted ==
    ASSUME IndInv
    PROVE  /\ Reading \in SUBSET Threads /\ Writing \in SUBSET Threads
           /\ num_active_readers = 0 <=> \A t \in Threads : rw[t] # "reading"
           /\ num_writers = 0 <=> \A t \in Threads : rw[t] \notin Inside
<1>1. Reading \in SUBSET Threads /\ Writing \in SUBSET Threads
  BY DEF Reading, Writing
<1>2. num_active_readers = 0 <=> Reading = {}
  BY <1>1, CountIsZero DEF IndInv, CountsAreExact
<1>3. num_writers = 0 <=> Writing = {}
  BY <1>1, CountIsZero DEF IndInv, CountsAreExact
<1> QED
  BY <1>1, <1>2, <1>3 DEF Reading, Writing

-----------------------------------------------------------------------------
\* Nobody is in the lock at first.
LEMMA InitHolds == Init => IndInv
<1> SUFFICES ASSUME Init PROVE IndInv
  OBVIOUS
<1>1. Reading = {} /\ Writing = {}
  BY DEF Init, Reading, Writing, Inside
<1>2. CountsAreExact
  BY <1>1, FS_EmptySet DEF Init, CountsAreExact
<1>3. TypeOK
  BY DEF Init, TypeOK, Places
<1> QED
  BY <1>2, <1>3 DEF Init, IndInv, CountedFirst, ReadersAreGone, OneActiveWriter, NoLostWakeup,
                    PastReaders, Inside

\* A step inside of read_lock changes none of the counts of who waits or writes.
LEMMA ReadLockStep ==
    ASSUME IndInv, NEW t \in Threads, ReadLock(t) \/ CheckWriters(t)
    PROVE  IndInv'
<1>1. PICK place \in {"check_writers", "wait_writers", "count"} :
         /\ rw' = [rw EXCEPT ![t] = place]
         /\ place = "wait_writers" => num_writers > 0
         /\ place = "count" => num_writers = 0
  BY DEF ReadLock, CheckWriters, Goto, IndInv, TypeOK
<1>2. /\ UNCHANGED <<num_active_readers, num_writers, is_active_writer>>
      /\ rw[t] \in {"out", "check_writers"}
  BY DEF ReadLock, CheckWriters
<1>3. TypeOK'
  BY <1>1, <1>2 DEF IndInv, TypeOK, Places
<1>4. Reading' = Reading /\ Writing' = Writing
  BY <1>1, <1>2 DEF IndInv, TypeOK, Reading, Writing, Inside
<1>5. CountsAreExact'
  BY <1>2, <1>4 DEF IndInv, CountsAreExact
<1> QED
  BY <1>1, <1>2, <1>3, <1>5 DEF IndInv, TypeOK, CountedFirst, ReadersAreGone, OneActiveWriter,
     NoLostWakeup, PastReaders, Inside

\* The reader is counted while no writer is in the lock.
LEMMA CountReaderStep ==
    ASSUME IndInv, NEW t \in Threads, CountReader(t)
    PROVE  IndInv' /\ \A u \in Threads : rw[u] \notin Inside
<1>1. /\ rw' = [rw EXCEPT ![t] = "reading"] /\ rw[t] = "count"
      /\ num_active_readers' = num_active_readers + 1
      /\ UNCHANGED <<num_writers, is_active_writer>>
  BY DEF CountReader, Goto
<1>2. \A u \in Threads : rw[u] \notin Inside
  BY <1>1, Counted DEF IndInv, CountedFirst
<1>3. TypeOK'
  BY <1>1 DEF IndInv, TypeOK, Places
<1>4. Reading' = Reading \cup {t} /\ t \notin Reading /\ Writing' = Writing
  BY <1>1 DEF IndInv, TypeOK, Reading, Writing, Inside
<1>5. CountsAreExact'
  BY <1>1, <1>4, Counted, CountOneMore DEF IndInv, CountsAreExact
<1> QED
  BY <1>1, <1>2, <1>3, <1>5 DEF IndInv, TypeOK, CountedFirst, ReadersAreGone, OneActiveWriter,
     NoLostWakeup, PastReaders, Inside

\* The last reader to leave wakes the writer that waits for it.
LEMMA ReadUnlockStep ==
    ASSUME IndInv, NEW t \in Threads, ReadUnlock(t)
    PROVE  IndInv'
<1>1. /\ rw[t] = "reading"
      /\ num_active_readers' = num_active_readers - 1
      /\ UNCHANGED <<num_writers, is_active_writer>>
      /\ num_active_readers # 0
  BY Counted DEF ReadUnlock
<1>2. /\ rw'[t] = "out" /\ DOMAIN rw' = Threads
      /\ rw' \in [Threads -> Places]
      /\ \A u \in Threads : u # t => rw'[u] = rw[u] \/ (rw[u] = "wait_readers" /\ rw'[u] = "check_readers")
      /\ num_active_readers' = 0 => \A u \in Threads : rw'[u] # "wait_readers"
  <2>1. CASE num_active_readers' = 0
    BY <2>1 DEF ReadUnlock, GotoAndWake, Woken, IndInv, TypeOK, Places
  <2>2. CASE num_active_readers' # 0
    BY <2>2 DEF ReadUnlock, Goto, IndInv, TypeOK, Places
  <2> QED
    BY <2>1, <2>2
<1>3. TypeOK'
  BY <1>1, <1>2 DEF IndInv, TypeOK
<1>4. Reading' = Reading \ {t} /\ t \in Reading /\ Writing' = Writing
  BY <1>1, <1>2 DEF IndInv, TypeOK, Reading, Writing, Inside
<1>5. CountsAreExact'
  BY <1>1, <1>4, Counted, CountOneLess DEF IndInv, CountsAreExact
<1>6. CountedFirst' /\ OneActiveWriter'
  BY <1>1, <1>2 DEF IndInv, CountedFirst, OneActiveWriter
<1>7. ReadersAreGone'
  BY <1>1, <1>2 DEF IndInv, ReadersAreGone, PastReaders, Inside
<1>8. NoLostWakeup'
  BY <1>1, <1>2, <1>3 DEF IndInv, NoLostWakeup, TypeOK
<1> QED
  BY <1>3, <1>5, <1>6, <1>7, <1>8 DEF IndInv

\* A writer asks for the lock, while nobody holds num_writers_lock.
LEMMA WriteLockStep ==
    ASSUME IndInv, NEW t \in Threads, WriteLock(t)
    PROVE  IndInv'
<1>1. /\ rw' = [rw EXCEPT ![t] = "check_readers"] /\ rw[t] = "out"
      /\ num_writers' = num_writers + 1
      /\ UNCHANGED <<num_active_readers, is_active_writer>>
      /\ \A u \in Threads : rw[u] # "count"
  BY DEF WriteLock, Goto, NumWritersLockIsFree
<1>2. TypeOK'
  BY <1>1 DEF IndInv, TypeOK, Places
<1>3. Reading' = Reading /\ Writing' = Writing \cup {t} /\ t \notin Writing
  BY <1>1 DEF IndInv, TypeOK, Reading, Writing, Inside
<1>4. CountsAreExact'
  BY <1>1, <1>3, Counted, CountOneMore DEF IndInv, CountsAreExact
<1> QED
  BY <1>1, <1>2, <1>4 DEF IndInv, TypeOK, CountedFirst, ReadersAreGone, OneActiveWriter,
     NoLostWakeup, PastReaders, Inside

\* A writer gets past the readers, or waits for them.
LEMMA CheckReadersStep ==
    ASSUME IndInv, NEW t \in Threads, CheckReaders(t)
    PROVE  IndInv'
<1>1. PICK place \in {"wait_readers", "check_writer"} :
         /\ rw' = [rw EXCEPT ![t] = place]
         /\ place = "wait_readers" => num_active_readers > 0
         /\ place = "check_writer" => num_active_readers = 0
  <2>1. num_active_readers \in Nat
    BY DEF IndInv, TypeOK
  <2>2. CASE num_active_readers > 0
    BY <2>1, <2>2 DEF CheckReaders, Goto
  <2>3. CASE num_active_readers = 0
    BY <2>3 DEF CheckReaders, Goto
  <2> QED
    BY <2>1, <2>2, <2>3
<1>2. /\ UNCHANGED <<num_active_readers, num_writers, is_active_writer>>
      /\ rw[t] = "check_readers"
  BY DEF CheckReaders
<1>3. TypeOK'
  BY <1>1, <1>2 DEF IndInv, TypeOK, Places
<1>4. Reading' = Reading /\ Writing' = Writing
  BY <1>1, <1>2 DEF IndInv, TypeOK, Reading, Writing, Inside
<1>5. CountsAreExact'
  BY <1>2, <1>4 DEF IndInv, CountsAreExact
<1> QED
  BY <1>1, <1>2, <1>3, <1>5 DEF IndInv, TypeOK, CountedFirst, ReadersAreGone, OneActiveWriter,
     NoLostWakeup, PastReaders, Inside

\* A writer becomes the active one, or waits for it.
LEMMA CheckWriterStep ==
    ASSUME IndInv, NEW t \in Threads, CheckWriter(t)
    PROVE  IndInv'
<1>1. PICK place \in {"wait_writer", "writing"} :
         /\ rw' = [rw EXCEPT ![t] = place]
         /\ place = "writing" => ~is_active_writer
  BY DEF CheckWriter, Goto
<1>2. /\ UNCHANGED <<num_active_readers, num_writers>> /\ is_active_writer'
      /\ is_active_writer' \in BOOLEAN
      /\ rw[t] = "check_writer"
  BY DEF CheckWriter
<1>3. TypeOK'
  BY <1>1, <1>2 DEF IndInv, TypeOK, Places
<1>4. Reading' = Reading /\ Writing' = Writing
  BY <1>1, <1>2 DEF IndInv, TypeOK, Reading, Writing, Inside
<1>5. CountsAreExact'
  BY <1>2, <1>4 DEF IndInv, CountsAreExact
<1>6. OneActiveWriter'
  BY <1>1, <1>2 DEF IndInv, TypeOK, OneActiveWriter
<1> QED
  BY <1>1, <1>2, <1>3, <1>5, <1>6 DEF IndInv, TypeOK, CountedFirst, ReadersAreGone,
     NoLostWakeup, PastReaders, Inside

\* The active writer is about to wake the others.
LEMMA WriteUnlockStep ==
    ASSUME IndInv, NEW t \in Threads, WriteUnlock(t)
    PROVE  IndInv'
<1>1. /\ rw' = [rw EXCEPT ![t] = "signal"] /\ rw[t] = "writing"
      /\ is_active_writer' = FALSE
      /\ UNCHANGED <<num_active_readers, num_writers>>
  BY DEF WriteUnlock, Goto
<1>2. TypeOK'
  BY <1>1 DEF IndInv, TypeOK, Places
<1>3. Reading' = Reading /\ Writing' = Writing
  BY <1>1 DEF IndInv, TypeOK, Reading, Writing, Inside
<1>4. CountsAreExact'
  BY <1>1, <1>3 DEF IndInv, CountsAreExact
<1>5. OneActiveWriter' /\ NoLostWakeup'
  BY <1>1 DEF IndInv, TypeOK, OneActiveWriter, NoLostWakeup
<1> QED
  BY <1>1, <1>2, <1>4, <1>5 DEF IndInv, TypeOK, CountedFirst, ReadersAreGone, PastReaders, Inside

\* It wakes all of them.
LEMMA SignalWritersStep ==
    ASSUME IndInv, NEW t \in Threads, SignalWriters(t)
    PROVE  IndInv'
<1>1. /\ rw[t] = "signal" /\ rw'[t] = "leave"
      /\ rw' \in [Threads -> Places]
      /\ \A u \in Threads : u # t =>
            IF rw[u] = "wait_writer" THEN rw'[u] = "check_writer" ELSE rw'[u] = rw[u]
  BY DEF SignalWriters, GotoAndWake, Woken, IndInv, TypeOK, Places
<1>2. UNCHANGED <<num_active_readers, num_writers, is_active_writer>>
  BY DEF SignalWriters
<1>3. TypeOK'
  BY <1>1, <1>2 DEF IndInv, TypeOK
<1>4. Reading' = Reading /\ Writing' = Writing
  BY <1>1 DEF Reading, Writing, Inside
<1>5. CountsAreExact'
  BY <1>2, <1>4 DEF IndInv, CountsAreExact
<1>6. CountedFirst' /\ OneActiveWriter'
  BY <1>1, <1>2 DEF IndInv, CountedFirst, OneActiveWriter
<1>7. ReadersAreGone'
  BY <1>1, <1>2 DEF IndInv, ReadersAreGone, PastReaders, Inside
<1>8. NoLostWakeup'
  BY <1>1, <1>2 DEF IndInv, NoLostWakeup
<1> QED
  BY <1>3, <1>5, <1>6, <1>7, <1>8 DEF IndInv

\* The last writer to leave wakes the readers.
LEMMA WriterLeavesStep ==
    ASSUME IndInv, NEW t \in Threads, WriterLeaves(t)
    PROVE  IndInv'
<1>1. /\ rw[t] = "leave" /\ t \in Writing
      /\ num_writers' = num_writers - 1
      /\ num_writers # 0
      /\ UNCHANGED <<num_active_readers, is_active_writer>>
      /\ \A u \in Threads : rw[u] # "count"
  <2>1. rw[t] = "leave"
    BY DEF WriterLeaves
  <2>2. t \in Writing
    BY <2>1 DEF Writing, Inside
  <2>3. num_writers # 0
    BY <2>1, Counted DEF Inside
  <2> QED
    BY <2>1, <2>2, <2>3 DEF WriterLeaves, NumWritersLockIsFree
<1>2. /\ rw'[t] = "out" /\ rw' \in [Threads -> Places]
      /\ \A u \in Threads : u # t => rw'[u] = rw[u] \/ (rw[u] = "wait_writers" /\ rw'[u] = "check_writers")
      /\ num_writers' = 0 => \A u \in Threads : rw'[u] # "wait_writers"
  <2>1. CASE num_writers' = 0
    BY <2>1 DEF WriterLeaves, GotoAndWake, Woken, IndInv, TypeOK, Places
  <2>2. CASE num_writers' # 0
    BY <2>2 DEF WriterLeaves, Goto, IndInv, TypeOK, Places
  <2> QED
    BY <2>1, <2>2
<1>3. TypeOK'
  BY <1>1, <1>2 DEF IndInv, TypeOK
<1>4. Reading' = Reading /\ Writing' = Writing \ {t}
  BY <1>1, <1>2 DEF Reading, Writing, Inside
<1>5. CountsAreExact'
  BY <1>1, <1>4, Counted, CountOneLess DEF IndInv, CountsAreExact
<1>6. CountedFirst' /\ OneActiveWriter'
  BY <1>1, <1>2 DEF IndInv, CountedFirst, OneActiveWriter
<1>7. ReadersAreGone'
  BY <1>1, <1>2 DEF IndInv, ReadersAreGone, PastReaders, Inside
<1>8. NoLostWakeup'
  BY <1>1, <1>2, <1>3 DEF IndInv, NoLostWakeup, TypeOK
<1> QED
  BY <1>3, <1>5, <1>6, <1>7, <1>8 DEF IndInv

\* Waking up without a reason means to check again.
LEMMA WakeUpStep ==
    ASSUME IndInv, NEW t \in Threads, WakeUp(t)
    PROVE  IndInv'
<1>1. /\ UNCHANGED <<num_active_readers, num_writers, is_active_writer>>
      /\ \/ rw[t] = "wait_writers" /\ rw' = [rw EXCEPT ![t] = "check_writers"]
         \/ rw[t] = "wait_readers" /\ rw' = [rw EXCEPT ![t] = "check_readers"]
         \/ rw[t] = "wait_writer" /\ rw' = [rw EXCEPT ![t] = "check_writer"]
  BY DEF WakeUp, Goto
<1>2. TypeOK'
  BY <1>1 DEF IndInv, TypeOK, Places
<1>3. Reading' = Reading /\ Writing' = Writing
  BY <1>1 DEF IndInv, TypeOK, Reading, Writing, Inside
<1>4. CountsAreExact'
  BY <1>1, <1>3 DEF IndInv, CountsAreExact
<1> QED
  BY <1>1, <1>2, <1>4 DEF IndInv, TypeOK, CountedFirst, ReadersAreGone, OneActiveWriter,
     NoLostWakeup, PastReaders, Inside

-----------------------------------------------------------------------------
\* The invariant holds of every lock that is used as rwlock.h says.
THEOREM Invariant == Spec => []IndInv
<1>1. IndInv /\ [Next]_vars => IndInv'
  <2> SUFFICES ASSUME IndInv, [Next]_vars PROVE IndInv'
    OBVIOUS
  <2>1. ASSUME NEW t \in Readers, ReadLock(t) \/ ReadUnlock(t) PROVE IndInv'
    BY <2>1, ReadLockStep, ReadUnlockStep DEF Threads
  <2>2. ASSUME NEW t \in Writers, WriteLock(t) \/ WriteUnlock(t) PROVE IndInv'
    BY <2>2, WriteLockStep, WriteUnlockStep DEF Threads
  <2>3. ASSUME NEW t \in Threads, Continue(t) \/ WakeUp(t) PROVE IndInv'
    BY <2>3, ReadLockStep, CountReaderStep, CheckReadersStep, CheckWriterStep, SignalWritersStep,
       WriterLeavesStep, WakeUpStep DEF Continue
  <2>4. CASE UNCHANGED vars
    BY <2>4 DEF vars, IndInv, TypeOK, CountsAreExact, Reading, Writing, CountedFirst,
       ReadersAreGone, OneActiveWriter, NoLostWakeup
  <2> QED
    BY <2>1, <2>2, <2>3, <2>4 DEF Next
<1> QED
  BY InitHolds, <1>1, PTL DEF Spec

\* A writer has the lock for itself, whatever the number of readers and writers.
THEOREM WriterIsAlone == Spec => []Exclusion
<1>1. IndInv => Exclusion
  <2> SUFFICES ASSUME IndInv, NEW t \in Threads, NEW u \in Threads,
                      rw[t] = "writing", rw[u] \in {"reading", "writing"}
               PROVE  t = u
    BY DEF Exclusion
  <2>1. num_active_readers = 0
    BY DEF IndInv, ReadersAreGone, PastReaders, Inside
  <2>2. rw[u] = "writing"
    BY <2>1, Counted
  <2> QED
    BY <2>2 DEF IndInv, OneActiveWriter
<1> QED
  BY Invariant, <1>1, PTL

\* No thread waits on a condition that nobody is going to broadcast.
THEOREM NoWakeupIsLost == Spec => []NoLostWakeup
<1>1. IndInv => NoLostWakeup
  BY DEF IndInv
<1> QED
  BY Invariant, <1>1, PTL

\* No reader gets in while a writer waits.
THEOREM ReadersYield == Spec => WriterIsPreferred
<1>1. IndInv /\ [Next]_vars =>
        [\A t \in Readers : rw[t] # "reading" /\ rw'[t] = "reading" =>
            \A u \in Threads : rw[u] \notin {"check_readers", "wait_readers", "check_writer",
                                             "wait_writer", "writing"}]_vars
  <2> SUFFICES ASSUME IndInv, Next, NEW t \in Readers, rw[t] # "reading", rw'[t] = "reading"
               PROVE  \A u \in Threads : rw[u] \notin Inside
    BY DEF Inside
  <2>1. t \in Threads /\ rw \in [Threads -> Places]
    BY DEF Threads, IndInv, TypeOK
  <2>2. ASSUME NEW s \in Threads, ~CountReader(s),
               ReadLock(s) \/ ReadUnlock(s) \/ WriteLock(s) \/ WriteUnlock(s) \/ Continue(s) \/ WakeUp(s)
        PROVE  FALSE
    <3>1. ~(ReadLock(s) \/ WriteLock(s) \/ WriteUnlock(s) \/ WakeUp(s))
      BY <2>1 DEF ReadLock, WriteLock, WriteUnlock, WakeUp, Goto
    <3>2. ~(CheckWriters(s) \/ CheckReaders(s))
      BY <2>1 DEF CheckWriters, CheckReaders, Goto
    <3>3. ~CheckWriter(s)
      BY <2>1 DEF CheckWriter, Goto
    <3>4. ~ReadUnlock(s)
      BY <2>1 DEF ReadUnlock, Goto, GotoAndWake, Woken
    <3>5. ~(SignalWriters(s) \/ WriterLeaves(s))
      BY <2>1 DEF SignalWriters, WriterLeaves, Goto, GotoAndWake, Woken
    <3> QED
      BY <2>2, <3>1, <3>2, <3>3, <3>4, <3>5 DEF Continue
  <2>3. PICK s \in Threads : CountReader(s)
    BY <2>2 DEF Next, Threads
  <2> QED
    BY <2>3, CountReaderStep
<1> QED
  BY Invariant, <1>1, PTL DEF Spec, WriterIsPreferred
=============================================================================
