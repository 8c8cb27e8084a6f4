---------------------------- MODULE ThreadProofs -----------------------------
(***************************************************************************)
(* What threads share, for any number of them.                             *)
(*                                                                         *)
(* The client lock: ClientLockIsSafe, for any number of threads and        *)
(* connections.  The lock is built on the readers-writer lock, and so is   *)
(* its proof: what is proved of module RWLock is used through an instance  *)
(* of its proofs.                                                          *)
(*                                                                         *)
(* The client's renderer, video decoder and audio thread: the memory of a  *)
(* frame is kept while it is read, a picture is asked for only of a        *)
(* decoder that has one, and audio is heard in its order.                  *)
(*                                                                         *)
(* The logger: LinesAreKept, for any number of threads, items and lines.   *)
(***************************************************************************)
EXTENDS ClientLock, MCPlayback, MCLogger, SequenceTheorems, TLAPS

RWP == INSTANCE RWLockProofs WITH Readers <- Lockers \cup Triers, Writers <- {"main"}

-----------------------------------------------------------------------------
(* The client lock. *)

Users == Lockers \cup Triers

Types ==
    /\ is_active \in BOOLEAN /\ is_deactivating \in BOOLEAN /\ has_context \in BOOLEAN
    /\ pc \in [Threads -> ClientPlaces]

\* Where a thread is in the code of client.c says where it is in that of rwlock.c.
PlacesAgree ==
    /\ \A t \in Users :
          /\ pc[t] = "granted" => rw[t] \in {"check_writers", "wait_writers", "count", "reading"}
          /\ Holds(t) => rw[t] = "reading"
          /\ pc[t] # "granted" /\ ~Holds(t) => rw[t] = "out"
    /\ pc["main"] = "write_lock" =>
          rw["main"] \in {"check_readers", "wait_readers", "check_writer", "wait_writer", "writing"}
    /\ pc["main"] = "write_unlock" => rw["main"] \in {"signal", "leave", "out"}
    /\ pc["main"] \notin {"write_lock", "write_unlock"} => rw["main"] = "out"
    /\ pc["main"] # "granted" /\ ~Holds("main")

\* A thread that is given a lock, and holds cond_mutex meanwhile, keeps the client from
\* being marked; one that has the lock keeps the marked client from being deactivated.
LocksProtect ==
    /\ \A t \in Users : pc[t] = "granted" => Available
    /\ \A t \in Users : Holds(t) => is_active /\ pc["main"] # "write_unlock"
    /\ is_active => has_context
    /\ is_deactivating => is_active

\* What the main thread knows of the client at each place.
MainKnows ==
    /\ pc["main"] = "activate" => ~is_active /\ has_context
    /\ pc["main"] = "start_deactivating" => is_active
    /\ pc["main"] \in {"deactivate", "write_lock", "write_unlock"} => is_active /\ is_deactivating
    /\ pc["main"] \in {"disconnect", "deactivate_permanently", "join", "join_visitors", "done"} =>
          ~is_active

IInv == Types /\ PlacesAgree /\ LocksProtect /\ MainKnows /\ LockReturnsPromptly

-----------------------------------------------------------------------------
LEMMA MainIsNoUser ==
    ASSUME ClientAssumption
    PROVE  /\ Threads = Users \cup {"main"} /\ "main" \notin Users
           /\ RWP!Threads = Threads
           /\ RWP!IsFiniteSet(RWP!Threads)
  <1>1. Threads = Users \cup {"main"} /\ RWP!Threads = Threads
    BY DEF Threads, Users, RWP!Threads
  <1>2. "main" \notin Users
    BY DEF ClientAssumption, Users, Lockers, Triers
  <1>3. RWP!IsFiniteSet(RWP!Threads)
    BY <1>1, Zenon DEF ClientAssumption, IsFiniteSet, RWP!IsFiniteSet
  <1> QED BY <1>1, <1>2, <1>3

\* The two instances of the readers-writer lock are the same.
LEMMA SameLock ==
    ASSUME NEW t
    PROVE  /\ RW!ReadLock(t) <=> RWP!ReadLock(t)
           /\ RW!ReadUnlock(t) <=> RWP!ReadUnlock(t)
           /\ RW!WriteLock(t) <=> RWP!WriteLock(t)
           /\ RW!WriteUnlock(t) <=> RWP!WriteUnlock(t)
           /\ RW!Continue(t) <=> RWP!Continue(t)
           /\ RW!WakeUp(t) <=> RWP!WakeUp(t)
           /\ RW!Init <=> RWP!Init
  <1>1. /\ RW!ReadLock(t) <=> RWP!ReadLock(t)
        /\ RW!WriteUnlock(t) <=> RWP!WriteUnlock(t)
        /\ RW!WakeUp(t) <=> RWP!WakeUp(t)
    BY Zenon DEF RW!ReadLock, RWP!ReadLock, RW!WriteUnlock, RWP!WriteUnlock, RW!WakeUp,
       RWP!WakeUp,
                 RW!Goto, RWP!Goto
  <1>2. RW!Init <=> RWP!Init
    BY Zenon DEF RW!Init, RWP!Init, RW!Threads, RWP!Threads
  <1>3. RW!NumWritersLockIsFree <=> RWP!NumWritersLockIsFree
    BY Zenon DEF RW!NumWritersLockIsFree, RWP!NumWritersLockIsFree, RW!Threads, RWP!Threads
  <1>4. RW!WriteLock(t) <=> RWP!WriteLock(t)
    BY <1>3, Zenon DEF RW!WriteLock, RWP!WriteLock, RW!Goto, RWP!Goto
  <1>5. \A u, place, waiting, woken :
            RW!GotoAndWake(u, place, waiting, woken) <=> RWP!GotoAndWake(u, place, waiting, woken)
    BY Zenon DEF RW!GotoAndWake, RWP!GotoAndWake, RW!Woken, RWP!Woken, RW!Threads, RWP!Threads
  <1>6. RW!ReadUnlock(t) <=> RWP!ReadUnlock(t)
    BY <1>5, Zenon DEF RW!ReadUnlock, RWP!ReadUnlock, RW!Goto, RWP!Goto
  <1>7. /\ RW!CheckWriters(t) <=> RWP!CheckWriters(t)
        /\ RW!CountReader(t) <=> RWP!CountReader(t)
        /\ RW!CheckReaders(t) <=> RWP!CheckReaders(t)
        /\ RW!CheckWriter(t) <=> RWP!CheckWriter(t)
    BY <1>3, Zenon DEF RW!CheckWriters, RWP!CheckWriters, RW!CountReader, RWP!CountReader,
       RW!CheckReaders, RWP!CheckReaders, RW!CheckWriter, RWP!CheckWriter, RW!Goto, RWP!Goto
  <1>8. /\ RW!SignalWriters(t) <=> RWP!SignalWriters(t)
        /\ RW!WriterLeaves(t) <=> RWP!WriterLeaves(t)
    BY <1>3, <1>5, Zenon DEF RW!SignalWriters, RWP!SignalWriters, RW!WriterLeaves,
       RWP!WriterLeaves, RW!Goto, RWP!Goto
  <1>9. RW!Continue(t) <=> RWP!Continue(t)
    BY <1>7, <1>8, Zenon DEF RW!Continue, RWP!Continue
  <1> QED BY <1>1, <1>2, <1>4, <1>6, <1>9

\* Every step of a thread is one of the readers-writer lock, or none.
LEMMA StepsOfTheLock ==
    ASSUME ClientAssumption, [Next]_vars
    PROVE  [RWP!Next]_(RWP!vars)
  <1> SUFFICES RWP!Next \/ UNCHANGED rwVars
    BY DEF RWP!vars, rwVars
  <1>0. /\ \A t \in Users : RWP!ReadLock(t) \/ RWP!ReadUnlock(t) => RWP!Next
        /\ RWP!WriteLock("main") \/ RWP!WriteUnlock("main") => RWP!Next
        /\ \A t \in Threads : RWP!Continue(t) \/ RWP!WakeUp(t) => RWP!Next
        /\ \A t \in Lockers \cup Visitors \cup {"send"} : t \in Users
    BY MainIsNoUser DEF RWP!Next, Users, Triers
  <1>1. CASE UNCHANGED vars
    BY <1>1 DEF vars, rwVars
  <1>2. ASSUME NEW t \in Threads, InRWLock(t) \/ WakeUpInRWLock(t) PROVE RWP!Next
    BY <1>0, <1>2, SameLock DEF InRWLock, WakeUpInRWLock
  <1>3. ASSUME NEW t \in Users, Lock(t) \/ Granted(t) PROVE RWP!Next \/ UNCHANGED rwVars
    BY <1>0, <1>3, SameLock DEF Lock, Granted, ClientActiveLock, ClientActiveTrylock
  <1>4. ASSUME NEW t \in Users, NEW place, ClientActiveUnlock(t, place) PROVE RWP!Next
    BY <1>0, <1>4, SameLock DEF ClientActiveUnlock
  <1>5. ASSUME NEW t \in Lockers, WakeUp(t) \/ Renew(t) PROVE RWP!Next \/ UNCHANGED rwVars
    BY <1>0, <1>4, <1>5 DEF WakeUp, Renew
  <1>6. ASSUME NEW t \in Visitors, VisitDone(t) \/ \E isExit \in BOOLEAN : Visit(t, isExit)
        PROVE  RWP!Next \/ UNCHANGED rwVars
    BY <1>0, <1>4, <1>6 DEF VisitDone, Visit
  <1>7. CASE TcpDeactivates \/ QueueFrame \/ VideoFails \/ VideoStep
    BY <1>0, <1>7, SameLock DEF TcpDeactivates, QueueFrame, VideoFails, VideoStep, FrameQueued,
       EndSend,
       VideoDone, Lockers
  <1>8. CASE SendStep
    BY <1>0, <1>4, <1>8 DEF SendStep, Resend, TakeFrame, SendDone, MarkSent, ResetCounter
  <1>9. CASE Connect \/ GiveUp \/ MainDeactivates \/ Finished
    BY <1>9 DEF Connect, GiveUp, MainDeactivates, Finished, vars, rwVars
  <1>10. CASE MainStep
    BY <1>0, <1>10, SameLock DEF MainStep, ActivateClient, Leave, StartDeactivating, Deactivate,
       NobodyHoldsALock, MarkInactive, Disconnect, PermanentlyDeactivate, JoinThreads, DestroyClient
  <1> QED
    BY <1>1, <1>2, <1>3, <1>5, <1>6, <1>7, <1>8, <1>9, <1>10 DEF Next, Users

\* The threads use the readers-writer lock as it is meant to be used (client.c:116-219):
\* what they do to it is a behaviour of module RWLock, with the main thread as its writer.
THEOREM UsesRWLock == ASSUME ClientAssumption PROVE Spec => RWP!Spec
  <1>1. Init => RWP!Init
    BY SameLock DEF Init
  <1>2. [Next]_vars => [RWP!Next]_(RWP!vars)
    BY StepsOfTheLock
  <1> QED BY <1>1, <1>2, PTL DEF Spec, RWP!Spec

LEMMA LockInvariant == ASSUME ClientAssumption PROVE Spec => []RWP!IndInv
  BY MainIsNoUser, UsesRWLock, RWP!Invariant, PTL
-----------------------------------------------------------------------------
\* No writer is in the readers-writer lock while a client lock is being given out.
LEMMA NoWriterMeanwhile ==
    ASSUME ClientAssumption, IInv, RWP!IndInv, NEW t \in Users, pc[t] = "granted"
    PROVE  num_writers = 0
  <1>1. pc["main"] \notin {"write_lock", "write_unlock"}
    BY DEF IInv, LocksProtect, Available, MainKnows
  <1>2. \A u \in Threads : rw[u] \notin RWP!Inside
    BY <1>1, MainIsNoUser DEF IInv, PlacesAgree, RWP!Inside
  <1> QED BY <1>2, MainIsNoUser, RWP!Counted

\* Who writes is alone with the client.
LEMMA NobodyHolds ==
    ASSUME ClientAssumption, IInv, RWP!IndInv, rw["main"] = "writing"
    PROVE  \A t \in Users : ~Holds(t)
  <1>1. num_active_readers = 0
    BY MainIsNoUser DEF RWP!IndInv, RWP!ReadersAreGone, RWP!PastReaders, RWP!Inside
  <1>2. \A t \in Threads : rw[t] # "reading"
    BY <1>1, MainIsNoUser, RWP!Counted
  <1> QED BY <1>2, MainIsNoUser DEF IInv, PlacesAgree

LEMMA InitIsGood == ASSUME ClientAssumption, Init PROVE IInv
  <1>1. /\ pc \in [Threads -> ClientPlaces] /\ pc["main"] = "loop"
        /\ \A t \in Users : pc[t] \in {"lock", "idle"}
    BY MainIsNoUser DEF Init, ClientPlaces
  <1>2. \A t \in Threads : rw[t] = "out"
    BY MainIsNoUser, SameLock DEF Init, RWP!Init
  <1> QED
    BY <1>1, <1>2, MainIsNoUser DEF Init, IInv, Types, PlacesAgree, LocksProtect, MainKnows,
       LockReturnsPromptly, Holds

\* Where the threads are in the readers-writer lock after a step of it.
LEMMA PlacesInRWLock ==
    ASSUME ClientAssumption, RWP!IndInv, RWP!IndInv' \/ UNCHANGED rw
    PROVE  rw \in [Threads -> RWP!Places] /\ rw' \in [Threads -> RWP!Places]
  BY MainIsNoUser DEF RWP!IndInv, RWP!TypeOK

\* A step inside of read_lock or write_lock.
LEMMA InRWLockIsGood ==
    ASSUME ClientAssumption, IInv, RWP!IndInv, RWP!IndInv',
           NEW t \in Threads, InRWLock(t) \/ WakeUpInRWLock(t)
    PROVE  IInv'
  <1>0. /\ UNCHANGED <<flags, socketVars, exitVars, videoVars, pc>>
        /\ RWP!Continue(t) \/ RWP!WakeUp(t)
    BY SameLock DEF InRWLock, WakeUpInRWLock
  <1>1. rw \in [Threads -> RWP!Places] /\ rw' \in [Threads -> RWP!Places]
    BY PlacesInRWLock
  <1>2. PlacesAgree' /\ LockReturnsPromptly'
    <2>1. CASE RWP!CheckWriters(t)
      <3>1. t \in Users /\ pc[t] = "granted"
        BY <2>1, MainIsNoUser DEF RWP!CheckWriters, IInv, PlacesAgree
      <3>2. num_writers = 0
        BY <3>1, NoWriterMeanwhile
      <3> QED BY <2>1, <3>1, <3>2, <1>0, <1>1, MainIsNoUser
              DEF RWP!CheckWriters, RWP!Goto, IInv, PlacesAgree, Holds, LockReturnsPromptly
    <2>2. CASE RWP!CountReader(t)
      BY <2>2, <1>0, <1>1, MainIsNoUser
      DEF RWP!CountReader, RWP!Goto, IInv, PlacesAgree, Holds, LockReturnsPromptly
    <2>3. CASE RWP!CheckReaders(t) \/ RWP!CheckWriter(t)
      BY <2>3, <1>0, <1>1, MainIsNoUser
      DEF RWP!CheckReaders, RWP!CheckWriter, RWP!Goto, IInv, PlacesAgree, Holds,
         LockReturnsPromptly
    <2>4. CASE RWP!SignalWriters(t) \/ RWP!WriterLeaves(t)
      BY <2>4, <1>0, <1>1, MainIsNoUser
      DEF RWP!SignalWriters, RWP!WriterLeaves, RWP!Goto, RWP!GotoAndWake, RWP!Woken, IInv,
         PlacesAgree,
          Holds, LockReturnsPromptly
    <2>5. CASE RWP!WakeUp(t)
      BY <2>5, <1>0, <1>1, MainIsNoUser
      DEF RWP!WakeUp, RWP!Goto, IInv, PlacesAgree, Holds, LockReturnsPromptly
    <2> QED BY <1>0, <2>1, <2>2, <2>3, <2>4, <2>5 DEF RWP!Continue
  <1> QED
    BY <1>0, <1>2 DEF IInv, Types, LocksProtect, MainKnows, Available, Holds, flags, socketVars

\* A step of a user of the client leaves the flags and the main thread alone.  It keeps the
\* invariant if its own places agree, and if it is given a lock only while it may be.
LEMMA UserStep ==
    ASSUME ClientAssumption, IInv, NEW t \in Users, NEW next \in ClientPlaces,
           pc' = [pc EXCEPT ![t] = next], UNCHANGED <<flags, socketVars>>,
           \A u \in Threads \ {t} :
               rw'[u] = rw[u] \/ (rw[u] = "wait_readers" /\ rw'[u] = "check_readers"),
           Holds(t)' => rw'[t] = "reading" /\ is_active /\ pc["main"] # "write_unlock",
           next = "granted" => rw'[t] = "check_writers" /\ Available,
           next # "granted" /\ ~Holds(t)' => rw'[t] = "out"
    PROVE  IInv'
  <1>1. /\ t \in Threads /\ t # "main" /\ "main" \in Threads
        /\ \A u \in Users : u \in Threads
        /\ \A u \in Threads : u \in Users \/ u = "main"
    BY MainIsNoUser
  <1>2. /\ pc' \in [Threads -> ClientPlaces] /\ pc'[t] = next /\ pc'["main"] = pc["main"]
        /\ \A u \in Threads \ {t} : pc'[u] = pc[u]
    BY <1>1 DEF IInv, Types
  <1>3. /\ \A u \in Threads \ {t} : Holds(u)' <=> Holds(u)
        /\ Available' <=> Available
        /\ UNCHANGED <<is_active, is_deactivating, has_context>>
    BY <1>2 DEF Holds, Available, flags, socketVars
  <1>4. Types' /\ MainKnows'
    BY <1>2, <1>3 DEF IInv, Types, MainKnows
  <1>5. LocksProtect'
    BY <1>1, <1>2, <1>3 DEF IInv, LocksProtect
  <1>6. PlacesAgree'
    <2>1. ASSUME NEW u \in Users \ {t}
          PROVE  rw'[u] = rw[u]
      BY <1>1 DEF IInv, PlacesAgree
    <2> QED BY <1>1, <1>2, <1>3, <2>1 DEF IInv, PlacesAgree
  <1>7. LockReturnsPromptly'
    BY <1>1, <1>2 DEF IInv, LockReturnsPromptly
  <1> QED BY <1>4, <1>5, <1>6, <1>7 DEF IInv

\* client_active_lock and client_active_trylock, up to the return of read_lock.
LEMMA LockIsGood ==
    ASSUME ClientAssumption, IInv, RWP!IndInv, NEW t \in Users, Lock(t) \/ Granted(t)
    PROVE  IInv'
  <1>0. /\ rw \in [Threads -> RWP!Places] /\ pc \in [Threads -> ClientPlaces]
        /\ t \in Threads /\ t # "main"
    BY MainIsNoUser DEF RWP!IndInv, RWP!TypeOK, IInv, Types
  <1>1. CASE Granted(t)
    <2>1. is_active /\ pc["main"] # "write_unlock"
      BY <1>1 DEF Granted, IInv, LocksProtect, MainKnows, Available
    <2>2. pc' = [pc EXCEPT ![t] = "use"] /\ rw' = rw /\ rw[t] = "reading" /\ UNCHANGED <<flags, socketVars>>
      BY <1>1 DEF Granted, Goto, rwVars
    <2>3. Holds(t)'
      BY <1>0, <2>2 DEF Holds
    <2> QED BY <2>1, <2>2, <2>3, UserStep DEF ClientPlaces
  <1>2. CASE Lock(t) /\ Available
    <2>1. /\ RWP!ReadLock(t) /\ pc' = [pc EXCEPT ![t] = "granted"]
          /\ UNCHANGED <<flags, socketVars>>
      BY <1>2, SameLock DEF Lock, ClientActiveLock, ClientActiveTrylock, Goto
    <2>2. rw' = [rw EXCEPT ![t] = "check_writers"]
      BY <2>1 DEF RWP!ReadLock, RWP!Goto
    <2>3. /\ ~Holds(t)' /\ rw'[t] = "check_writers"
          /\ \A u \in Threads \ {t} : rw'[u] = rw[u]
      BY <1>0, <2>1, <2>2 DEF Holds
    <2> QED BY <1>2, <2>1, <2>3, UserStep DEF ClientPlaces
  <1>3. CASE Lock(t) /\ ~Available
    <2>1. PICK place \in {"ended", "wait", "failed"} :
            /\ pc' = [pc EXCEPT ![t] = place] /\ pc[t] \in {"lock", "try"}
            /\ UNCHANGED <<flags, socketVars, rwVars>>
      BY <1>3 DEF Lock, ClientActiveLock, ClientActiveTrylock, Goto
    <2>2. rw[t] = "out" /\ rw' = rw
      BY <2>1 DEF IInv, PlacesAgree, Holds, rwVars
    <2>3. ~Holds(t)' /\ place # "granted" /\ place \in ClientPlaces
      BY <1>0, <2>1 DEF Holds, ClientPlaces
    <2> QED BY <2>1, <2>2, <2>3, UserStep
  <1> QED BY <1>1, <1>2, <1>3

\* client_active_unlock
LEMMA UnlockIsGood ==
    ASSUME ClientAssumption, IInv, RWP!IndInv, NEW t \in Users,
           RWP!ReadUnlock(t), NEW next \in {"lock", "idle", "failed", "ended"},
           pc' = [pc EXCEPT ![t] = next], UNCHANGED <<flags, socketVars>>
    PROVE  IInv'
  <1>0. /\ rw \in [Threads -> RWP!Places] /\ pc \in [Threads -> ClientPlaces]
        /\ t \in Threads /\ t # "main"
    BY MainIsNoUser DEF RWP!IndInv, RWP!TypeOK, IInv, Types
  <1>1. rw'[t] = "out"
    BY <1>0, MainIsNoUser DEF RWP!ReadUnlock, RWP!Goto, RWP!GotoAndWake, RWP!Woken
  <1>2. \A u \in Threads \ {t} :
            rw'[u] = rw[u] \/ (rw[u] = "wait_readers" /\ rw'[u] = "check_readers")
    BY <1>0, MainIsNoUser DEF RWP!ReadUnlock, RWP!Goto, RWP!GotoAndWake, RWP!Woken
  <1>3. ~Holds(t)' /\ next # "granted" /\ next \in ClientPlaces
    BY <1>0 DEF Holds, ClientPlaces
  <1> QED BY <1>1, <1>2, <1>3, UserStep

\* Steps of the threads that use the client, other than of the locks.
LEMMA PlainStepIsGood ==
    ASSUME ClientAssumption, IInv, RWP!IndInv, NEW t \in Users,
           NEW next \in {"wait_consumer", "used", "idle", "try", "lock", "failed", "ended", "join_send",
                         "done", "reset_counter"},
           pc' = [pc EXCEPT ![t] = next], UNCHANGED <<flags, socketVars, rwVars>>,
           pc[t] # "granted", Holds(t) <=> next \in {"wait_consumer", "used"}
    PROVE  IInv'
  <1>0. /\ pc \in [Threads -> ClientPlaces] /\ t \in Threads /\ rw' = rw
    BY MainIsNoUser DEF IInv, Types, rwVars
  <1>1. Holds(t)' <=> Holds(t)
    BY <1>0 DEF Holds
  <1>2. /\ Holds(t) => rw[t] = "reading" /\ is_active /\ pc["main"] # "write_unlock"
        /\ ~Holds(t) => rw[t] = "out"
    BY DEF IInv, PlacesAgree, LocksProtect
  <1>3. next # "granted" /\ next \in ClientPlaces
    BY DEF ClientPlaces
  <1> QED BY <1>0, <1>1, <1>2, <1>3, UserStep

\* The steps of the video, send, TCP and visiting threads.
LEMMA UsersAreGood ==
    ASSUME ClientAssumption, IInv, RWP!IndInv,
           \/ \E t \in Lockers : WakeUp(t) \/ Renew(t)
           \/ \E t \in Visitors : VisitDone(t) \/ \E isExit \in BOOLEAN : Visit(t, isExit)
           \/ QueueFrame \/ VideoFails \/ VideoStep \/ SendStep
    PROVE  IInv'
  <1>0. /\ Lockers \subseteq Users /\ Visitors \subseteq Users
        /\ "video" \in Users /\ "send" \in Users
    BY DEF Users, Lockers, Triers
  <1>1. ASSUME NEW t \in Users, NEW next \in {"lock", "idle", "failed"}, ClientActiveUnlock(t, next)
        PROVE  IInv'
    BY <1>1, SameLock, UnlockIsGood DEF ClientActiveUnlock, Goto
  <1>2. ASSUME NEW t \in Lockers, WakeUp(t) PROVE IInv'
    BY <1>0, <1>2, PlainStepIsGood DEF WakeUp, Goto, Holds
  <1>3. ASSUME NEW t \in Visitors, VisitDone(t) PROVE IInv'
    BY <1>0, <1>1, <1>3, PlainStepIsGood DEF VisitDone, Goto, Holds
  <1>4. ASSUME NEW t \in Visitors, NEW isExit, Visit(t, isExit) PROVE IInv'
    BY <1>0, <1>4, PlainStepIsGood DEF Visit, Goto, Holds
  <1>5. CASE QueueFrame
    BY <1>0, <1>5, PlainStepIsGood DEF QueueFrame, Goto, Holds
  <1>6. CASE VideoFails
    BY <1>0, <1>6, SameLock, UnlockIsGood DEF VideoFails, Goto
  <1>7. CASE FrameQueued
    BY <1>0, <1>7, PlainStepIsGood DEF FrameQueued, Goto, Holds
  <1>8. CASE EndSend
    BY <1>0, <1>8, PlainStepIsGood DEF EndSend, Goto, Holds
  <1>9. CASE VideoDone
    BY <1>0, <1>9, PlainStepIsGood DEF VideoDone, Goto, Holds
  <1>10. CASE Resend
    BY <1>0, <1>10, PlainStepIsGood DEF Resend, Goto, Holds
  <1>11. CASE TakeFrame
    BY <1>0, <1>11, PlainStepIsGood DEF TakeFrame, Goto, Holds
  <1>12. CASE SendDone
    BY <1>0, <1>1, <1>12 DEF SendDone
  <1>13. CASE MarkSent
    BY <1>0, <1>13, PlainStepIsGood DEF MarkSent, Goto, Holds
  <1>14. CASE ResetCounter
    BY <1>0, <1>14, PlainStepIsGood DEF ResetCounter, Goto, Holds
  <1>15. ASSUME NEW t \in Lockers, Renew(t) PROVE IInv'
    BY <1>0, <1>1, <1>15 DEF Renew
  <1> QED
    BY <1>2, <1>3, <1>4, <1>5, <1>6, <1>7, <1>8, <1>9, <1>10, <1>11, <1>12, <1>13, <1>14, <1>15
    DEF VideoStep, SendStep
-----------------------------------------------------------------------------
\* A step of the main thread that wakes nobody.  What it knows at its new place has to hold.
LEMMA MainStepIsGood ==
    ASSUME ClientAssumption, IInv, NEW next \in ClientPlaces,
           pc' = [pc EXCEPT !["main"] = next], next # "granted", next \notin {"use", "wait_consumer", "used"},
           UNCHANGED <<is_active, is_deactivating>>, Types', MainKnows',
           is_active => has_context',
           \A t \in Users : rw'[t] = rw[t],
           \/ next = "write_lock" /\ rw'["main"] = "check_readers"
           \/ next = "write_unlock" /\ rw'["main"] = "signal" /\ \A t \in Users : ~Holds(t)
           \/ next \notin {"write_lock", "write_unlock"} /\ rw'["main"] = "out"
    PROVE  IInv'
  <1>1. /\ "main" \in Threads /\ "main" \notin Users
        /\ \A u \in Users : u \in Threads
        /\ \A u \in Threads : u \in Users \/ u = "main"
    BY MainIsNoUser
  <1>2. /\ pc'["main"] = next /\ \A u \in Users : pc'[u] = pc[u]
    BY <1>1 DEF IInv, Types
  <1>3. /\ \A u \in Users : Holds(u)' <=> Holds(u)
        /\ ~Holds("main")'
        /\ Available' <=> Available
    BY <1>2 DEF Holds, Available
  <1>4. LocksProtect'
    BY <1>2, <1>3 DEF IInv, LocksProtect
  <1>5. PlacesAgree'
    BY <1>2, <1>3 DEF IInv, PlacesAgree
  <1>6. LockReturnsPromptly'
    BY <1>1, <1>2 DEF IInv, LockReturnsPromptly
  <1> QED BY <1>4, <1>5, <1>6 DEF IInv

LEMMA MainIsGood ==
    ASSUME ClientAssumption, IInv, RWP!IndInv,
           Connect \/ GiveUp \/ Leave \/ Deactivate \/ NobodyHoldsALock \/ Disconnect \/ JoinThreads
           \/ DestroyClient
    PROVE  IInv'
  <1>0. /\ rw \in [Threads -> RWP!Places] /\ pc \in [Threads -> ClientPlaces]
        /\ "main" \in Threads /\ \A t \in Users : t \in Threads /\ t # "main"
    BY MainIsNoUser DEF RWP!IndInv, RWP!TypeOK, IInv, Types
  <1>1. ASSUME NEW next \in ClientPlaces, pc' = [pc EXCEPT !["main"] = next]
        PROVE  pc' \in [Threads -> ClientPlaces] /\ pc'["main"] = next
    BY <1>0, <1>1
  <1>2. pc["main"] \notin {"write_lock", "write_unlock"} => rw["main"] = "out"
    BY DEF IInv, PlacesAgree
  <1>3. CASE Connect
    <2>1. /\ pc' = [pc EXCEPT !["main"] = "activate"] /\ has_context' = TRUE /\ ~is_active
          /\ UNCHANGED <<is_active, is_deactivating, rw>> /\ rw["main"] = "out"
          /\ "activate" \in ClientPlaces
      BY <1>2, <1>3 DEF Connect, InLoop, Goto, flags, rwVars, ClientPlaces
    <2>2. pc' \in [Threads -> ClientPlaces] /\ pc'["main"] = "activate"
      BY <1>1, <2>1
    <2>3. Types' /\ MainKnows'
      BY <2>1, <2>2 DEF IInv, Types, MainKnows
    <2> QED BY <2>1, <2>3, MainStepIsGood
  <1>4. CASE GiveUp
    <2>1. UNCHANGED <<is_active, is_deactivating, has_context, pc, rw>>
      BY <1>4 DEF GiveUp, flags, socketVars, rwVars
    <2> QED BY <2>1 DEF IInv, Types, PlacesAgree, LocksProtect, MainKnows, LockReturnsPromptly,
       Available,
                        Holds
  <1>5. CASE Leave
    <2>1. PICK next \in {"start_deactivating", "deactivate_permanently"} :
            /\ pc' = [pc EXCEPT !["main"] = next]
            /\ next = "start_deactivating" <=> is_active
      BY <1>5 DEF Leave, Goto
    <2>2. /\ UNCHANGED <<is_active, is_deactivating, has_context, rw>> /\ rw["main"] = "out"
          /\ next \in ClientPlaces /\ next # "granted" /\ next \notin {"use", "wait_consumer", "used"}
          /\ next \notin {"write_lock", "write_unlock"}
      BY <1>2, <1>5, <2>1 DEF Leave, flags, socketVars, rwVars, ClientPlaces
    <2>3. pc' \in [Threads -> ClientPlaces] /\ pc'["main"] = next
      BY <1>1, <2>1, <2>2
    <2>4. Types' /\ MainKnows'
      BY <2>1, <2>2, <2>3 DEF IInv, Types, MainKnows
    <2>5. is_active => has_context'
      BY <2>2 DEF IInv, LocksProtect
    <2> QED BY <2>1, <2>2, <2>4, <2>5, MainStepIsGood
  <1>6. CASE Deactivate
    <2>1. /\ pc' = [pc EXCEPT !["main"] = "write_lock"] /\ RWP!WriteLock("main")
          /\ UNCHANGED <<is_active, is_deactivating, has_context>>
          /\ is_active /\ is_deactivating /\ "write_lock" \in ClientPlaces
      BY <1>6, SameLock DEF Deactivate, InLoop, Goto, flags, socketVars, ClientPlaces, IInv,
         MainKnows
    <2>2. rw'["main"] = "check_readers" /\ \A t \in Users : rw'[t] = rw[t]
      BY <1>0, <2>1 DEF RWP!WriteLock, RWP!Goto
    <2>3. pc' \in [Threads -> ClientPlaces] /\ pc'["main"] = "write_lock"
      BY <1>1, <2>1
    <2>4. Types' /\ MainKnows'
      BY <2>1, <2>3 DEF IInv, Types, MainKnows
    <2>5. is_active => has_context'
      BY <2>1 DEF IInv, LocksProtect
    <2> QED BY <2>1, <2>2, <2>4, <2>5, MainStepIsGood
  <1>7. CASE NobodyHoldsALock
    <2>1. /\ pc' = [pc EXCEPT !["main"] = "write_unlock"] /\ RWP!WriteUnlock("main")
          /\ UNCHANGED <<is_active, is_deactivating, has_context>>
          /\ is_active /\ is_deactivating /\ "write_unlock" \in ClientPlaces
      BY <1>7, SameLock DEF NobodyHoldsALock, Goto, flags, socketVars, ClientPlaces, IInv,
         MainKnows
    <2>2. /\ rw["main"] = "writing" /\ rw'["main"] = "signal"
          /\ \A t \in Users : rw'[t] = rw[t]
      BY <1>0, <2>1 DEF RWP!WriteUnlock, RWP!Goto
    <2>3. pc' \in [Threads -> ClientPlaces] /\ pc'["main"] = "write_unlock"
      BY <1>1, <2>1
    <2>4. Types' /\ MainKnows'
      BY <2>1, <2>3 DEF IInv, Types, MainKnows
    <2>5. is_active => has_context'
      BY <2>1 DEF IInv, LocksProtect
    <2>6. \A t \in Users : ~Holds(t)
      BY <2>2, NobodyHolds
    <2> QED BY <2>1, <2>2, <2>4, <2>5, <2>6, MainStepIsGood
  <1>8. CASE Disconnect
    <2>1. /\ pc' = [pc EXCEPT !["main"] = "loop"] /\ has_context' = FALSE /\ ~is_active
          /\ UNCHANGED <<is_active, is_deactivating, rw>> /\ rw["main"] = "out"
          /\ "loop" \in ClientPlaces
      BY <1>2, <1>8 DEF Disconnect, Goto, flags, rwVars, ClientPlaces, IInv, MainKnows
    <2>2. pc' \in [Threads -> ClientPlaces] /\ pc'["main"] = "loop"
      BY <1>1, <2>1
    <2>3. Types' /\ MainKnows'
      BY <2>1, <2>2 DEF IInv, Types, MainKnows
    <2> QED BY <2>1, <2>3, MainStepIsGood
  <1>9. CASE JoinThreads \/ DestroyClient
    <2>1. PICK next \in {"join_visitors", "done"} : pc' = [pc EXCEPT !["main"] = next]
      BY <1>9 DEF JoinThreads, DestroyClient, Goto
    <2>2. /\ UNCHANGED <<is_active, is_deactivating, has_context, rw>> /\ rw["main"] = "out"
          /\ ~is_active /\ next \in ClientPlaces
          /\ next # "granted" /\ next \notin {"use", "wait_consumer", "used"}
          /\ next \notin {"write_lock", "write_unlock"}
      BY <1>2, <1>9, <2>1 DEF JoinThreads, DestroyClient, flags, socketVars, rwVars,
         ClientPlaces, IInv,
                              MainKnows
    <2>3. pc' \in [Threads -> ClientPlaces] /\ pc'["main"] = next
      BY <1>1, <2>1, <2>2
    <2>4. Types' /\ MainKnows'
      BY <2>1, <2>2, <2>3 DEF IInv, Types, MainKnows
    <2> QED BY <2>1, <2>2, <2>4, MainStepIsGood
  <1> QED BY <1>3, <1>4, <1>5, <1>6, <1>7, <1>8, <1>9

\* start_deactivating_client, of the TCP thread or in the main loop: whoever calls it knows
\* an active client, and no lock is being given out meanwhile.
LEMMA MarkingIsGood ==
    ASSUME ClientAssumption, IInv, TcpDeactivates \/ MainDeactivates
    PROVE  IInv'
  <1>1. /\ is_active /\ is_deactivating' = TRUE
        /\ UNCHANGED <<is_active, has_context, pc, rw>>
        /\ \A t \in Users : pc[t] # "granted"
    BY MainIsNoUser DEF TcpDeactivates, MainDeactivates, Available, CondMutexIsFree, IInv,
       LocksProtect,
                        Holds, Users, Lockers, socketVars, rwVars
  <1> QED BY <1>1 DEF IInv, Types, PlacesAgree, LocksProtect, MainKnows, LockReturnsPromptly,
     Available,
                      Holds

\* The main thread changes the flags with cond_mutex held: nobody is being given a lock.
\* It may wake those who wait for the client to be activated, or for the end.
LEMMA FlagsAreGood ==
    ASSUME ClientAssumption, IInv, RWP!IndInv,
           StartDeactivating \/ ActivateClient \/ MarkInactive \/ PermanentlyDeactivate
    PROVE  IInv'
  <1>0. /\ rw \in [Threads -> RWP!Places] /\ pc \in [Threads -> ClientPlaces]
        /\ "main" \in Threads /\ "main" \notin Users
        /\ \A t \in Users : t \in Threads /\ t # "main"
        /\ \A t \in Threads : t \in Users \/ t = "main"
    BY MainIsNoUser DEF RWP!IndInv, RWP!TypeOK, IInv, Types
  <1>1. PICK next \in {"deactivate", "loop", "deactivate_permanently", "disconnect", "join"} :
          /\ pc'["main"] = next
          /\ \A t \in Users : pc'[t] = pc[t] \/ (pc[t] = "wait" /\ pc'[t] = "lock")
          /\ pc' \in [Threads -> ClientPlaces]
    BY <1>0 DEF StartDeactivating, ActivateClient, MarkInactive, PermanentlyDeactivate, Goto,
       GotoAndWake,
                ClientPlaces
  <1>2. UNCHANGED <<has_context, rw>> /\ rw["main"] = "out"
    BY DEF StartDeactivating, ActivateClient, MarkInactive, PermanentlyDeactivate, socketVars,
       rwVars,
           IInv, PlacesAgree
  <1>3. \A t \in Users : pc[t] # "granted" /\ pc'[t] # "granted" /\ (Holds(t)' <=> Holds(t))
    BY <1>0, <1>1 DEF StartDeactivating, ActivateClient, MarkInactive, PermanentlyDeactivate,
                      CondMutexIsFree, Holds
  <1>4. ~Holds("main")'
    BY <1>1 DEF Holds
  <1>5. PlacesAgree' /\ LockReturnsPromptly'
    BY <1>0, <1>1, <1>2, <1>3, <1>4 DEF IInv, PlacesAgree, LockReturnsPromptly
  <1>6. CASE StartDeactivating
    <2>1. is_active /\ is_active' = is_active /\ is_deactivating' = TRUE /\ pc'["main"] = "deactivate"
      BY <1>0, <1>6 DEF StartDeactivating, Goto, IInv, MainKnows
    <2> QED BY <1>1, <1>2, <1>3, <1>5, <2>1 DEF IInv, Types, LocksProtect, MainKnows
  <1>7. CASE ActivateClient
    <2>1. /\ is_active' = TRUE /\ is_deactivating' = is_deactivating /\ pc'["main"] = "loop" /\ has_context
      BY <1>0, <1>7 DEF ActivateClient, GotoAndWake, IInv, MainKnows
    <2> QED BY <1>1, <1>2, <1>3, <1>5, <2>1 DEF IInv, Types, LocksProtect, MainKnows
  <1>8. CASE MarkInactive
    <2>1. /\ is_active' = FALSE /\ is_deactivating' = FALSE
          /\ pc'["main"] \in {"deactivate_permanently", "disconnect"}
      BY <1>0, <1>8 DEF MarkInactive, Goto
    <2>2. \A t \in Users : ~Holds(t)
      BY <1>8 DEF MarkInactive, IInv, LocksProtect
    <2> QED BY <1>1, <1>2, <1>3, <1>5, <2>1, <2>2 DEF IInv, Types, LocksProtect, MainKnows
  <1>9. CASE PermanentlyDeactivate
    <2>1. /\ ~is_active /\ UNCHANGED <<is_active, is_deactivating>> /\ pc'["main"] = "join"
      BY <1>0, <1>9 DEF PermanentlyDeactivate, GotoAndWake, IInv, MainKnows
    <2> QED BY <1>1, <1>2, <1>3, <1>5, <2>1 DEF IInv, Types, LocksProtect, MainKnows
  <1> QED BY <1>6, <1>7, <1>8, <1>9

LEMMA NextIsGood ==
    ASSUME ClientAssumption, IInv, RWP!IndInv, RWP!IndInv', [Next]_vars
    PROVE  IInv'
  <1>1. CASE UNCHANGED vars \/ Finished
    <2>1. UNCHANGED <<is_active, is_deactivating, has_context, pc, rw>>
      BY <1>1 DEF Finished, vars, flags, socketVars, rwVars
    <2> QED BY <2>1 DEF IInv, Types, PlacesAgree, LocksProtect, MainKnows, LockReturnsPromptly,
       Available,
                        Holds
  <1>2. ASSUME NEW t \in Threads, InRWLock(t) \/ WakeUpInRWLock(t) PROVE IInv'
    BY <1>2, InRWLockIsGood
  <1>3. ASSUME NEW t \in Users, Lock(t) \/ Granted(t) PROVE IInv'
    BY <1>3, LockIsGood
  <1>4. CASE \/ \E t \in Lockers : WakeUp(t) \/ Renew(t)
             \/ \E t \in Visitors : VisitDone(t) \/ \E isExit \in BOOLEAN : Visit(t, isExit)
             \/ QueueFrame \/ VideoFails \/ VideoStep \/ SendStep
    BY <1>4, UsersAreGood
  <1>5. CASE TcpDeactivates \/ MainDeactivates
    BY <1>5, MarkingIsGood
  <1>6. CASE Connect \/ GiveUp \/ MainStep
    BY <1>6, MainIsGood, FlagsAreGood DEF MainStep
  <1> QED BY <1>1, <1>2, <1>3, <1>4, <1>5, <1>6 DEF Next, Users

LEMMA IInvIsEnough == ASSUME ClientAssumption, IInv PROVE ClientLockIsSafe
  <1>1. \A t \in Threads : t \in Users \/ t = "main"
    BY MainIsNoUser
  <1>2. LockedIsActive
    BY <1>1 DEF IInv, PlacesAgree, LocksProtect, LockedIsActive
  <1>3. MainAsserts
    BY DEF IInv, LocksProtect, MainKnows, MainAsserts
  <1> QED BY <1>2, <1>3 DEF IInv, ClientLockIsSafe

\* A thread that holds a client lock uses a client that is active and has its sockets, no
\* call for a lock sleeps in read_lock with cond_mutex held, and what connect_client,
\* deactivate_client and permanently_deactivate_client assert holds (client.c:60-219), with
\* any number of threads and of connections.
THEOREM ClientLockIsAlwaysSafe == ASSUME ClientAssumption PROVE Spec => []ClientLockIsSafe
  <1>1. Init => IInv
    BY InitIsGood
  <1>2. IInv /\ RWP!IndInv /\ RWP!IndInv' /\ [Next]_vars => IInv'
    BY NextIsGood
  <1>3. IInv => ClientLockIsSafe
    BY IInvIsEnough
  <1> QED BY <1>1, <1>2, <1>3, LockInvariant, PTL DEF Spec

-----------------------------------------------------------------------------
(* The renderer. *)

\* The frame that a thread reads is the pending one, and it is in the memory that the ring
\* buffer holds, unless that is the memory of an audio frame that was dropped.
ReadFrameIsHeld ==
    /\ video.at = "decode" => pending_render_context.video /\ video.frame = rendering.video
    /\ audio.at = "render" =>
           /\ pending_render_context.audio /\ audio.frame = render_context.audio
           /\ audio.frame = rendering.audio \/ rendering.audio = count.dropped

RenderInv ==
    /\ DOMAIN rendering = {"video", "audio"} /\ DOMAIN render_context = {"video", "audio"}
    /\ DOMAIN pending_render_context = {"video", "audio"}
    /\ DOMAIN count = {"drops", "dropped", "errors", "alerts"}
    /\ pending_render_context.video => render_context.video = rendering.video
    /\ pending_render_context.audio /\ rendering.audio # count.dropped =>
           render_context.audio = rendering.audio
    /\ ReadFrameIsHeld
    /\ DOMAIN video = {"at", "frame", "pending_video"}
    /\ DOMAIN audio = {"at", "frame"}

LEMMA RenderInit == Rendering!Init => RenderInv
  BY DEF Rendering!Init, RenderInv, ReadFrameIsHeld, Rendering!Types

LEMMA UdpKeepsFrames == RenderInv /\ Rendering!Udp => RenderInv'
<1> SUFFICES ASSUME RenderInv, Rendering!Udp PROVE RenderInv'
  OBVIOUS
<1> USE DEF RenderInv, ReadFrameIsHeld
<1>1. CASE Rendering!ReceiveVideo
  BY <1>1 DEF Rendering!ReceiveVideo, Rendering!VideoReadyForFrame
<1>2. CASE Rendering!ReceiveAudio
  BY <1>2 DEF Rendering!ReceiveAudio
<1>3. CASE Rendering!DropAudio
  <2>1. /\ UNCHANGED <<render_context, pending_render_context, video, audio>>
        /\ rendering' = [rendering EXCEPT !.audio = rendering.audio + 1]
        /\ count' = [count EXCEPT !.drops = count.drops + 1, !.dropped = rendering.audio + 1]
    BY <1>3 DEF Rendering!DropAudio
  <2>2. /\ rendering'.video = rendering.video /\ DOMAIN rendering' = {"video", "audio"}
        /\ rendering'.audio = count'.dropped
        /\ DOMAIN count' = {"drops", "dropped", "errors", "alerts"}
    BY <2>1
  <2> QED BY <2>1, <2>2
<1>4. CASE Rendering!NoFrame \/ Rendering!PostFrame \/ Rendering!UdpEnds
  BY <1>4 DEF Rendering!NoFrame, Rendering!PostFrame, Rendering!UdpEnds
<1> QED BY <1>1, <1>2, <1>3, <1>4 DEF Rendering!Udp

LEMMA VideoKeepsFrames == RenderInv /\ Rendering!Video => RenderInv'
<1> SUFFICES ASSUME RenderInv, Rendering!Video PROVE RenderInv'
  OBVIOUS
<1> USE DEF RenderInv, ReadFrameIsHeld
<1>1. CASE Rendering!VideoWakes
  BY <1>1 DEF Rendering!VideoWakes
<1>2. CASE Rendering!VideoTakesFrame
  BY <1>2 DEF Rendering!VideoTakesFrame
<1>3. CASE Rendering!VideoConsumesFrame
  BY <1>3 DEF Rendering!VideoConsumesFrame
<1>4. CASE Rendering!DecoderFails
  BY <1>4 DEF Rendering!DecoderFails
<1>5. CASE Rendering!VideoDrains
  BY <1>5 DEF Rendering!VideoDrains, Rendering!AfterDrain
<1>6. CASE Rendering!UpdateFramebuffer \/ Rendering!RenderFramebuffer \/ Rendering!VideoNotifies
  BY <1>6 DEF Rendering!UpdateFramebuffer, Rendering!RenderFramebuffer, Rendering!VideoNotifies
<1> QED BY <1>1, <1>2, <1>3, <1>4, <1>5, <1>6 DEF Rendering!Video

LEMMA AudioKeepsFrames == RenderInv /\ Rendering!Audio => RenderInv'
<1> SUFFICES ASSUME RenderInv, Rendering!Audio PROVE RenderInv'
  OBVIOUS
<1> USE DEF RenderInv, ReadFrameIsHeld
<1>1. CASE Rendering!AudioWakes
  BY <1>1 DEF Rendering!AudioWakes
<1>2. CASE Rendering!AudioTakesFrame
  BY <1>2 DEF Rendering!AudioTakesFrame
<1>3. CASE Rendering!AudioConsumesFrame
  BY <1>3 DEF Rendering!AudioConsumesFrame
<1> QED BY <1>1, <1>2, <1>3 DEF Rendering!Audio

LEMMA MainKeepsFrames == RenderInv /\ Rendering!Main => RenderInv'
<1> SUFFICES ASSUME RenderInv, Rendering!Main PROVE RenderInv'
  OBVIOUS
<1>1. /\ UNCHANGED <<rendering, render_context, pending_render_context, video, audio>>
      /\ count' = count \/ count' = [count EXCEPT !.alerts = @ + 1]
  BY DEF Rendering!Main, Rendering!Present, Rendering!Presented, Rendering!StopSynchronizers,
         Rendering!DestroyRenderer, Rendering!Joined
<1> QED BY <1>1 DEF RenderInv, ReadFrameIsHeld

\* The memory of a video frame is not released while the frame waits to be read or is read, by
\* threads that take no lock (sync_packets.cpp:135), however many frames come in, cannot be
\* decoded or have to wait to be presented.  That of an audio frame is released only when
\* another is taken to be dropped (audio.cpp:623), until the next one is handed over.
THEOREM FramesAreKept == Rendering!Spec => []FrameIsKept /\ []ReadFrameIsHeld
<1>1. Rendering!Init => RenderInv
  BY RenderInit
<1>2. RenderInv /\ [Rendering!Next]_Rendering!vars => RenderInv'
  <2>1. CASE Rendering!Next
    BY <2>1, UdpKeepsFrames, VideoKeepsFrames, AudioKeepsFrames, MainKeepsFrames
    DEF Rendering!Next
  <2>2. CASE UNCHANGED Rendering!vars
    BY <2>2 DEF Rendering!vars, RenderInv, ReadFrameIsHeld
  <2> QED BY <2>1, <2>2
<1>3. RenderInv => FrameIsKept /\ ReadFrameIsHeld
  BY DEF RenderInv, FrameIsKept, Rendering!FrameIsKept, Rendering!Held
<1> QED BY <1>1, <1>2, <1>3, PTL DEF Rendering!Spec

-----------------------------------------------------------------------------
(* The decoder. *)

Fields == {"type", "open", "sent", "decoded_frame", "received_a_frame"}

\* A picture that was got from the decoder and not shown yet is the decoder's, until an intra
\* frame is sent that may replace the decoder; then there is one again before the decoder is
\* asked for it.
DecodeInv ==
    /\ DOMAIN video_decoder = Fields
    /\ DOMAIN frame = {"id", "intra", "size"} /\ frame.id \in Nat
    /\ at = "send" => frame.id # 0
    /\ at = "render" => video_decoder.decoded_frame # 0
    /\ \/ at = "send" /\ frame.intra
       \/ got_frame_from_decoder => video_decoder.decoded_frame # 0 \/ video_decoder.sent # 0

LEMMA NewDecoder ==
    ASSUME NEW type, NEW b
    PROVE  DOMAIN Decoding!TryNext(type, b) = Fields
BY DEF Decoding!TryNext, Fields

LEMMA DecodeInit == Decoding!Init => DecodeInv
<1> SUFFICES ASSUME Decoding!Init PROVE DecodeInv
  OBVIOUS
<1>1. DOMAIN video_decoder = Fields
  BY NewDecoder DEF Decoding!Init, Decoding!Created
<1> QED BY <1>1 DEF Decoding!Init, DecodeInv

LEMMA DecodeNext == DecodeInv /\ [Decoding!Next]_Decoding!vars => DecodeInv'
<1> SUFFICES ASSUME DecodeInv, [Decoding!Next]_Decoding!vars PROVE DecodeInv'
  OBVIOUS
<1>1. ASSUME NEW intra \in BOOLEAN, NEW size \in Sizes, Decoding!TakeFrame(intra, size)
      PROVE DecodeInv'
  <2>1. DOMAIN video_decoder' = Fields
    BY <1>1, NewDecoder DEF Decoding!TakeFrame, Decoding!Created, DecodeInv
  <2>2. /\ frame'.id = frame.id + 1 /\ frame'.intra = intra
        /\ DOMAIN frame' = {"id", "intra", "size"}
        /\ at' = "send" /\ got_frame_from_decoder' = got_frame_from_decoder
    BY <1>1 DEF Decoding!TakeFrame
  <2>3. frame'.id \in Nat /\ frame'.id # 0
    BY <2>2 DEF DecodeInv
  <2>4. ~intra => video_decoder' = video_decoder /\ at # "send"
    BY <1>1 DEF Decoding!TakeFrame
  <2> QED BY <2>1, <2>2, <2>3, <2>4 DEF DecodeInv
<1>2. CASE Decoding!SendPackets
  <2>1. CASE /\ video_decoder' = [video_decoder EXCEPT !.sent = frame.id, !.received_a_frame = TRUE]
             /\ at' = "drain"
    BY <1>2, <2>1 DEF Decoding!SendPackets, DecodeInv, Fields
  <2>2. CASE /\ frame.intra
             /\ video_decoder' = IF video_decoder.type < software_decode_type
                        THEN Decoding!TryNext(Decoding!AfterFailing(video_decoder.type),
                                              video_decoder.received_a_frame)
                        ELSE video_decoder
             /\ at' = "send"
    <3>1. DOMAIN video_decoder' = Fields
      BY <2>2, NewDecoder DEF DecodeInv
    <3> QED BY <1>2, <2>2, <3>1 DEF Decoding!SendPackets, DecodeInv
  <2>3. CASE ~frame.intra /\ at' = "wait" /\ UNCHANGED video_decoder
    BY <1>2, <2>3 DEF Decoding!SendPackets, DecodeInv
  <2> QED BY <1>2, <2>1, <2>2, <2>3 DEF Decoding!SendPackets, Decoding!AfterRefusal
<1>3. CASE Decoding!Drain
  <2>1. PICK gives \in BOOLEAN, type \in {video_decoder.type, software_decode_type} :
          /\ gives
          /\ IF video_decoder.sent # 0 /\ gives
             THEN /\ video_decoder' = [video_decoder EXCEPT !.sent = 0,
                                !.decoded_frame = video_decoder.sent, !.type = type]
                  /\ got_frame_from_decoder' = TRUE
             ELSE UNCHANGED <<video_decoder, got_frame_from_decoder>>
    BY <1>3 DEF Decoding!Drain
  <2>2. /\ at' = IF got_frame_from_decoder' THEN "render" ELSE "wait"
        /\ at = "drain" /\ frame' = frame
    BY <1>3 DEF Decoding!Drain
  <2>3. DOMAIN video_decoder' = Fields
    BY <2>1 DEF DecodeInv, Fields
  <2>4. got_frame_from_decoder' => video_decoder'.decoded_frame # 0
    BY <2>1, <2>2 DEF DecodeInv, Fields
  <2> QED BY <2>2, <2>3, <2>4 DEF DecodeInv
<1>4. CASE \/ Decoding!DrainFails \/ Decoding!RenderPending \/ Decoding!WithoutFrame
           \/ Decoding!Render
  BY <1>4 DEF Decoding!DrainFails, Decoding!RenderPending, Decoding!WithoutFrame,
              Decoding!Render, DecodeInv
<1>5. CASE UNCHANGED Decoding!vars
  BY <1>5 DEF Decoding!vars, DecodeInv
<1> QED BY <1>1, <1>2, <1>3, <1>4, <1>5 DEF Decoding!Next

\* video_decoder_get_last_decoded_frame, which aborts without a picture (decode.c:602), finds
\* one, for any number of decoder kinds, whichever of them can be set up and take a stream,
\* whatever frames change the size, and wherever the decoder fails.
THEOREM PicturesAreHeld == Decoding!Spec => []PictureIsHeld
<1>1. DecodeInv => PictureIsHeld
  BY DEF DecodeInv, PictureIsHeld, Decoding!PictureIsHeld
<1> QED BY <1>1, DecodeInit, DecodeNext, PTL DEF Decoding!Spec

-----------------------------------------------------------------------------
(* Audio. *)

L == Playback!LargestTarget

\* How many more times the frame that was handed over may be put into the device
Remaining ==
    IF ~audio_pending THEN 0
    ELSE IF audio_thread.at # "idle" THEN audio_thread.left
    ELSE IF audio_context.command = "DUP_FRAME" THEN 2 ELSE 1

Committed == Len(device) + Remaining

AudioTypes ==
    /\ taken \in Nat /\ played \in Nat
    /\ target \in Targets /\ adjust_command \in Playback!Commands
    /\ udp_thread \in [at : {"look", "decide"}, len : Nat]
    /\ audio_pending \in BOOLEAN
    /\ audio_context \in [frame : Nat, command : Playback!Commands]
    /\ audio_state \in {"BUFFERING", "PLAYING"}
    /\ buffer \in Seq(Nat) /\ device \in Seq(Nat)
    /\ audio_thread \in [at : {"idle", "check", "place"}, left : {0, 1, 2}]

\* Where the audio thread is, and what is then in the device and in the buffer
AudioPlaces ==
    /\ ~audio_pending => audio_thread.at = "idle"
    /\ audio_thread.at = "idle" => audio_thread.left = 0
    /\ audio_thread.at = "place" => audio_thread.left > 0
    /\ audio_thread.left = 2 => buffer = <<>>
    /\ audio_state = "PLAYING" => buffer = <<>>
    /\ audio_state = "BUFFERING" => device = <<>>

\* While the UDP thread goes by a length that it read, at most the frame that was rendered
\* in between has come on top of it, or a buffer that reached its target was flushed.
AudioLengths ==
    /\ Len(buffer) <= L - 1
    /\ Committed <= L + 2
    /\ udp_thread.at = "decide" => Committed <= udp_thread.len + 2 \/ Committed <= L

\* What waits is in order, no older than the frame that was played and no newer than the one
\* that was handed over.
InOrder(s, oldest, newest) ==
    /\ \A i \in 1 .. Len(s) : oldest <= s[i] /\ s[i] <= newest
    /\ \A i, j \in 1 .. Len(s) : i < j => s[i] <= s[j]

AudioOrder ==
    /\ played <= audio_context.frame /\ audio_context.frame <= taken
    /\ InOrder(device, played, audio_context.frame)
    /\ InOrder(buffer, played, audio_context.frame)

AudioInv == AudioTypes /\ AudioPlaces /\ AudioLengths /\ AudioOrder

LEMMA TargetFacts ==
    /\ \A t \in Targets : t \in Nat /\ t >= 2 /\ t <= L
    /\ L \in Targets /\ L \in Nat /\ Playback!InitialTarget \in Targets
<1>1. /\ Targets \subseteq Nat \ {0, 1}
      /\ \E smallest, largest \in Targets : \A t \in Targets : smallest <= t /\ t <= largest
  BY ComponentAssumptions DEF Playback!AudioPlaybackAssumption
<1>2. L \in Targets /\ \A t \in Targets : t <= L
  BY <1>1 DEF L, Playback!LargestTarget
<1>3. Playback!InitialTarget \in Targets
  BY <1>1 DEF Playback!InitialTarget
<1> QED BY <1>1, <1>2, <1>3

LEMMA EmptyInOrder ==
    ASSUME NEW a, NEW b
    PROVE  InOrder(<<>>, a, b)
BY DEF InOrder

LEMMA WiderInOrder ==
    ASSUME NEW s \in Seq(Nat), NEW a \in Nat, NEW b \in Nat, NEW c \in Nat, b <= c,
           InOrder(s, a, b)
    PROVE  InOrder(s, a, c)
<1>1. \A i \in 1 .. Len(s) : s[i] \in Nat
  OBVIOUS
<1> QED BY <1>1 DEF InOrder

LEMMA AppendInOrder ==
    ASSUME NEW s \in Seq(Nat), NEW a \in Nat, NEW b \in Nat, a <= b, InOrder(s, a, b)
    PROVE  /\ Append(s, b) \in Seq(Nat) /\ Len(Append(s, b)) = Len(s) + 1
           /\ InOrder(Append(s, b), a, b)
<1> DEFINE t == Append(s, b)
<1>1. /\ t \in Seq(Nat) /\ Len(t) = Len(s) + 1 /\ Len(s) \in Nat
      /\ \A i \in 1 .. Len(s) : t[i] = s[i]
      /\ t[Len(s) + 1] = b
  BY AppendProperties
<1>2. Len(t) = Len(s) + 1 /\ Len(s) \in Nat
  BY <1>1
<1>3. \A i \in 1 .. Len(t) : i \in 1 .. Len(s) \/ i = Len(s) + 1
  BY <1>2
<1>4. \A i \in 1 .. Len(s) : s[i] \in Nat /\ t[i] = s[i]
  BY <1>1
<1>5. t[Len(s) + 1] = b
  BY <1>1
<1> HIDE DEF t
<1>6. \A i \in 1 .. Len(t) : a <= t[i] /\ t[i] <= b
  BY <1>3, <1>4, <1>5 DEF InOrder
<1>7. \A i, j \in 1 .. Len(t) : i < j => t[i] <= t[j]
  <2> SUFFICES ASSUME NEW i \in 1 .. Len(t), NEW j \in 1 .. Len(t), i < j PROVE t[i] <= t[j]
    OBVIOUS
  <2>1. CASE j = Len(s) + 1
    BY <1>5, <1>6, <2>1
  <2>2. CASE j # Len(s) + 1
    <3>1. i \in 1 .. Len(s) /\ j \in 1 .. Len(s)
      BY <1>2, <2>2
    <3> QED BY <1>4, <3>1 DEF InOrder
  <2> QED BY <2>1, <2>2
<1> QED BY <1>1, <1>2, <1>6, <1>7 DEF InOrder, t

LEMMA TailInOrder ==
    ASSUME NEW s \in Seq(Nat), NEW a \in Nat, NEW b \in Nat, s # <<>>, InOrder(s, a, b)
    PROVE  /\ Tail(s) \in Seq(Nat) /\ Len(Tail(s)) = Len(s) - 1
           /\ Head(s) \in Nat /\ a <= Head(s) /\ Head(s) <= b
           /\ InOrder(Tail(s), Head(s), b)
<1> DEFINE t == Tail(s)
<1>1. /\ t \in Seq(Nat) /\ Len(t) = Len(s) - 1 /\ Len(s) \in Nat /\ Len(s) > 0
      /\ \A i \in 1 .. Len(t) : t[i] = s[i + 1]
      /\ Head(s) = s[1] /\ \A i \in 1 .. Len(s) : s[i] \in Nat
  OBVIOUS
<1> HIDE DEF t
<1>2. a <= s[1] /\ s[1] <= b
  BY <1>1 DEF InOrder
<1>3. Len(t) = Len(s) - 1 /\ Len(s) \in Nat /\ Len(s) > 0
  BY <1>1
<1>4. \A i \in 1 .. Len(t) : i + 1 \in 1 .. Len(s) /\ 1 \in 1 .. Len(s) /\ 1 < i + 1
  BY <1>3
<1>5. \A i \in 1 .. Len(t) : s[1] <= t[i] /\ t[i] <= b
  BY <1>1, <1>4 DEF InOrder
<1>6. \A i, j \in 1 .. Len(t) : i < j => t[i] <= t[j]
  <2> SUFFICES ASSUME NEW i \in 1 .. Len(t), NEW j \in 1 .. Len(t), i < j PROVE t[i] <= t[j]
    OBVIOUS
  <2>1. i + 1 \in 1 .. Len(s) /\ j + 1 \in 1 .. Len(s) /\ i + 1 < j + 1
    BY <1>4
  <2>2. s[i + 1] <= s[j + 1]
    BY <2>1 DEF InOrder
  <2> QED BY <1>1, <2>2
<1> QED BY <1>1, <1>2, <1>5, <1>6 DEF InOrder, t

\* Frames that wait in order are heard in order after the one that was played, and before the
\* one that was handed over.
LEMMA ConcatInOrder ==
    ASSUME NEW s \in Seq(Nat), NEW a \in Nat, NEW b \in Nat, a <= b, InOrder(s, a, b),
           NEW rest, rest = <<>> \/ rest = <<b>>
    PROVE  LET heard == <<a>> \o s \o rest
           IN  \A i \in 1 .. Len(heard) - 1 : heard[i] <= heard[i + 1]
<1> DEFINE h == <<a>> \o s
           heard == h \o rest
<1>1. /\ h \in Seq(Nat) /\ Len(h) = Len(s) + 1 /\ Len(s) \in Nat /\ h[1] = a
      /\ \A i \in 1 .. Len(h) : i # 1 => h[i] = s[i - 1] /\ i - 1 \in 1 .. Len(s)
  OBVIOUS
<1>2. \A i \in 1 .. Len(s) : s[i] \in Nat
  OBVIOUS
<1> HIDE DEF h
<1>3. Len(h) \in Nat /\ Len(h) = Len(s) + 1 /\ Len(s) \in Nat
  BY <1>1
<1>4. \A i \in 1 .. Len(h) : h[i] <= b
  BY <1>1, <1>2 DEF InOrder
<1>5. \A i \in 1 .. Len(h) - 1 : h[i] <= h[i + 1]
  <2> TAKE i \in 1 .. Len(h) - 1
  <2>1. i \in 1 .. Len(h) /\ i + 1 \in 1 .. Len(h) /\ i + 1 # 1 /\ (i + 1) - 1 = i
    BY <1>3
  <2>2. h[i + 1] = s[i] /\ i \in 1 .. Len(s)
    BY <1>1, <2>1
  <2>3. CASE i = 1
    BY <1>1, <2>2, <2>3 DEF InOrder
  <2>4. CASE i # 1
    <3>1. h[i] = s[i - 1] /\ i - 1 \in 1 .. Len(s) /\ i - 1 < i
      BY <1>1, <2>1, <2>4
    <3> QED BY <2>2, <3>1 DEF InOrder
  <2> QED BY <2>3, <2>4
<1>6. CASE rest = <<>>
  <2>1. heard = h
    BY <1>1, <1>6
  <2> QED BY <1>5, <2>1 DEF h
<1>7. CASE rest = <<b>>
  <2>1. /\ Len(heard) = Len(h) + 1
        /\ \A i \in 1 .. Len(h) : heard[i] = h[i]
        /\ heard[Len(h) + 1] = b
    BY <1>1, <1>7
  <2> HIDE DEF heard
  <2>2. \A i \in 1 .. Len(heard) - 1 : heard[i] <= heard[i + 1]
    <3> TAKE i \in 1 .. Len(heard) - 1
    <3>1. i \in 1 .. Len(h) /\ (i # Len(h) => i \in 1 .. Len(h) - 1 /\ i + 1 \in 1 .. Len(h))
      BY <1>3, <2>1
    <3>2. CASE i = Len(h)
      BY <1>4, <2>1, <3>1, <3>2
    <3>3. CASE i # Len(h)
      BY <1>5, <2>1, <3>1, <3>3
    <3> QED BY <3>2, <3>3
  <2> QED BY <2>2 DEF heard, h
<1> QED BY <1>6, <1>7

LEMMA AudioIsSound == AudioInv => AudioIsInOrder
<1> SUFFICES ASSUME AudioInv PROVE AudioIsInOrder
  OBVIOUS
<1>1. Playback!DeviceIsBounded
  <2>1. Remaining \in Nat /\ Len(device) \in Nat /\ L \in Nat
    BY TargetFacts DEF AudioInv, AudioTypes, Remaining
  <2> QED BY <2>1 DEF AudioInv, AudioLengths, Committed, Playback!DeviceIsBounded, L
<1>2. Playback!HeardInOrder
  <2> DEFINE rest == IF audio_thread.left > 0 THEN <<audio_context.frame>> ELSE <<>>
             q == IF audio_state = "PLAYING" THEN device ELSE buffer
  <2>1. q \in Seq(Nat) /\ InOrder(q, played, audio_context.frame)
    BY DEF AudioInv, AudioTypes, AudioOrder
  <2>2. <<played>> \o device \o buffer \o rest = <<played>> \o q \o rest
    <3>1. CASE audio_state = "PLAYING"
      <4>1. buffer = <<>> /\ <<played>> \o device \in Seq(Nat)
        BY <3>1 DEF AudioInv, AudioTypes, AudioPlaces
      <4>2. <<played>> \o device \o <<>> = <<played>> \o device
        BY <4>1
      <4> QED BY <3>1, <4>1, <4>2
    <3>2. CASE audio_state # "PLAYING"
      <4>1. device = <<>> /\ played \in Nat
        BY <3>2 DEF AudioInv, AudioTypes, AudioPlaces
      <4>2. <<played>> \o <<>> = <<played>>
        OBVIOUS
      <4> QED BY <3>2, <4>1, <4>2
    <3> QED BY <3>1, <3>2
  <2>3. /\ played \in Nat /\ audio_context.frame \in Nat /\ played <= audio_context.frame
        /\ rest = <<>> \/ rest = <<audio_context.frame>>
    BY DEF AudioInv, AudioTypes, AudioOrder
  <2> HIDE DEF q, rest
  <2>4. LET heard == <<played>> \o q \o rest
        IN  \A i \in 1 .. Len(heard) - 1 : heard[i] <= heard[i + 1]
    BY <2>1, <2>3, ConcatInOrder
  <2> QED BY <2>2, <2>4 DEF Playback!HeardInOrder, rest
<1> QED BY <1>1, <1>2 DEF AudioIsInOrder

LEMMA AudioInit == Playback!Init => AudioInv
<1> SUFFICES ASSUME Playback!Init PROVE AudioInv
  OBVIOUS
<1>1. /\ L \in Nat /\ L >= 2 /\ Playback!InitialTarget \in Targets
  BY TargetFacts
<1>2. /\ udp_thread \in [at : {"look", "decide"}, len : Nat]
      /\ audio_context \in [frame : Nat, command : Playback!Commands]
      /\ audio_thread \in [at : {"idle", "check", "place"}, left : {0, 1, 2}]
      /\ buffer \in Seq(Nat) /\ device \in Seq(Nat)
  BY DEF Playback!Init, Playback!Commands
<1>3. AudioTypes /\ AudioPlaces
  BY <1>1, <1>2 DEF Playback!Init, AudioTypes, AudioPlaces, Playback!Commands
<1>4. Len(device) = 0 /\ Len(buffer) = 0 /\ Remaining = 0
  BY DEF Playback!Init, Remaining
<1>5. AudioLengths
  BY <1>1, <1>4 DEF Playback!Init, AudioLengths, Committed
<1>6. AudioOrder
  BY EmptyInOrder DEF Playback!Init, AudioOrder
<1> QED BY <1>3, <1>5, <1>6 DEF AudioInv

LEMMA LookInv == AudioInv /\ Playback!Look => AudioInv'
<1> SUFFICES ASSUME AudioInv, Playback!Look PROVE AudioInv'
  OBVIOUS
<1>1. /\ udp_thread' = [at |-> "decide", len |-> Len(device)]
      /\ UNCHANGED <<taken, played, target, adjust_command, audio_pending, audio_context,
                     audio_state, buffer, device, audio_thread>>
  BY DEF Playback!Look
<1>2. AudioTypes' /\ AudioPlaces' /\ AudioOrder'
  BY <1>1 DEF AudioInv, AudioTypes, AudioPlaces, AudioOrder
<1>3. Len(device) \in Nat /\ Remaining \in {0, 1, 2} /\ Committed' = Committed
  BY <1>1 DEF AudioInv, AudioTypes, Committed, Remaining
<1>4. Committed <= udp_thread'.len + 2
  BY <1>1, <1>3 DEF Committed
<1>5. AudioLengths'
  BY <1>1, <1>3, <1>4 DEF AudioInv, AudioLengths
<1> QED BY <1>2, <1>5 DEF AudioInv

LEMMA DecideInv == AudioInv /\ Playback!Decide => AudioInv'
<1> SUFFICES ASSUME AudioInv, Playback!Decide PROVE AudioInv'
  OBVIOUS
<1> DEFINE Command(t, s) ==
               IF Playback!Overflowing(udp_thread.len + received - taken, t)
               THEN "DROP_FRAME" ELSE s
<1>1. PICK t \in Targets, s \in Playback!Sampled :
        LET takes == /\ \/ ~audio_pending /\ Playback!HasRoom(Command(t, s), udp_thread.len, t)
                        \/ Command(t, s) = "DROP_FRAME"
                     /\ taken < received
        IN  /\ target' = t
            /\ taken' = IF takes THEN taken + 1 ELSE taken
            /\ adjust_command' = IF takes THEN "NOOP_FRAME" ELSE Command(t, s)
            /\ IF takes /\ Command(t, s) # "DROP_FRAME"
               THEN /\ audio_context' = [frame |-> taken + 1, command |-> Command(t, s)]
                    /\ audio_pending' = TRUE
               ELSE UNCHANGED <<audio_context, audio_pending>>
  BY DEF Playback!Decide
<1>2. /\ udp_thread.at = "decide" /\ udp_thread' = [at |-> "look", len |-> 0]
      /\ UNCHANGED <<played, audio_state, buffer, device, audio_thread>>
  BY DEF Playback!Decide
<1>3. Command(t, s) \in Playback!Commands
  BY DEF AudioInv, AudioTypes, Playback!Sampled, Playback!Commands
<1> DEFINE command == Command(t, s)
<1>4. command \in Playback!Commands
  BY <1>3
<1> HIDE DEF Command
<1>5. CASE UNCHANGED <<audio_context, audio_pending>> /\ (taken' = taken \/ taken' = taken + 1)
  <2>1. AudioTypes'
    BY <1>1, <1>2, <1>4, <1>5 DEF AudioInv, AudioTypes, Playback!Commands
  <2>2. AudioPlaces' /\ Committed' = Committed
    BY <1>2, <1>5 DEF AudioInv, AudioPlaces, Committed, Remaining
  <2>3. AudioLengths'
    BY <1>2, <2>2 DEF AudioInv, AudioLengths
  <2>4. AudioOrder'
    BY <1>2, <1>5 DEF AudioInv, AudioOrder, AudioTypes
  <2> QED BY <2>1, <2>2, <2>3, <2>4 DEF AudioInv
<1>6. CASE /\ ~audio_pending /\ Playback!HasRoom(command, udp_thread.len, t)
           /\ audio_context' = [frame |-> taken + 1, command |-> command]
           /\ audio_pending' = TRUE /\ taken' = taken + 1 /\ adjust_command' = "NOOP_FRAME"
  <2>1. AudioTypes'
    BY <1>1, <1>2, <1>4, <1>6 DEF AudioInv, AudioTypes, Playback!Commands
  <2>2. AudioPlaces'
    BY <1>2, <1>6 DEF AudioInv, AudioPlaces
  <2>3. AudioLengths'
    <3>1. /\ Remaining = 0 /\ Len(device) \in Nat /\ device' = device
          /\ Remaining' = IF command = "DUP_FRAME" THEN 2 ELSE 1
      BY <1>2, <1>6 DEF AudioInv, AudioTypes, AudioPlaces, Remaining
    <3>2. udp_thread.len <= t - Remaining'
      BY <1>6, <3>1 DEF Playback!HasRoom
    <3>3. t <= L /\ t \in Nat /\ L \in Nat /\ udp_thread.len \in Nat
      BY TargetFacts DEF AudioInv, AudioTypes
    <3>4. Len(device) <= udp_thread.len + 2 \/ Len(device) <= L
      BY <1>2, <3>1 DEF AudioInv, AudioLengths, Committed
    <3>5. Len(device) + Remaining' <= L + 2
      BY <3>1, <3>2, <3>3, <3>4
    <3> QED BY <1>2, <3>1, <3>5 DEF AudioInv, AudioLengths, Committed
  <2>4. AudioOrder'
    <3>1. /\ played \in Nat /\ audio_context.frame \in Nat /\ taken \in Nat
          /\ audio_context'.frame = taken + 1
      BY <1>6 DEF AudioInv, AudioTypes
    <3>2. played <= taken + 1 /\ audio_context.frame <= taken + 1 /\ taken + 1 \in Nat
      BY <3>1 DEF AudioInv, AudioOrder
    <3>3. InOrder(device, played, taken + 1) /\ InOrder(buffer, played, taken + 1)
      BY <3>1, <3>2, WiderInOrder DEF AudioInv, AudioTypes, AudioOrder
    <3> QED BY <1>2, <1>6, <3>1, <3>2, <3>3 DEF AudioOrder
  <2> QED BY <2>1, <2>2, <2>3, <2>4 DEF AudioInv
<1> QED BY <1>1, <1>5, <1>6

\* A step after which no more is committed than before keeps the lengths.
LEMMA LessCommitted ==
    ASSUME AudioInv, Len(device') \in Nat, Remaining' \in Nat, Committed' <= Committed,
           buffer' = buffer, udp_thread' = udp_thread
    PROVE  AudioLengths'
<1>1. Remaining \in Nat /\ Len(device) \in Nat /\ L \in Nat /\ udp_thread.len \in Nat
  BY TargetFacts DEF AudioInv, AudioTypes, Remaining
<1>2. Committed \in Nat /\ Committed' \in Nat
  BY <1>1 DEF Committed
<1> QED BY <1>1, <1>2 DEF AudioInv, AudioLengths

LEMMA AudioDecodeInv == AudioInv /\ Playback!Decode => AudioInv'
<1> SUFFICES ASSUME AudioInv, Playback!Decode PROVE AudioInv'
  OBVIOUS
<1>1. /\ audio_thread.at = "idle" /\ audio_pending
      /\ device' = device \/ device' = <<>>
      /\ audio_state' = IF Len(device') = 0 THEN "BUFFERING" ELSE audio_state
      /\ audio_thread' = [at |-> "check",
             left |-> IF audio_context.command = "DUP_FRAME" /\ audio_state' # "BUFFERING"
                      THEN 2 ELSE 1]
      /\ UNCHANGED <<taken, played, target, adjust_command, udp_thread, audio_pending,
                     audio_context, buffer>>
  BY DEF Playback!Decode, Playback!StateAfterCheck
<1>2. device' \in Seq(Nat) /\ Len(device') \in Nat /\ Len(device') <= Len(device) /\ Len(device) \in Nat
  <2>1. CASE device' = device
    BY <2>1 DEF AudioInv, AudioTypes
  <2>2. CASE device' = <<>>
    BY <2>2 DEF AudioInv, AudioTypes
  <2> QED BY <1>1, <2>1, <2>2
<1>3. audio_state' \in {"BUFFERING", "PLAYING"} /\ (audio_state' = "BUFFERING" \/ audio_state' = audio_state)
  BY <1>1 DEF AudioInv, AudioTypes
<1>4. AudioTypes'
  BY <1>1, <1>2, <1>3 DEF AudioInv, AudioTypes
<1>5. AudioPlaces'
  <2>1. audio_state' = "BUFFERING" => device' = <<>>
    BY <1>1, <1>2 DEF AudioInv, AudioPlaces
  <2>2. audio_state' = "PLAYING" => buffer = <<>>
    BY <1>3 DEF AudioInv, AudioPlaces
  <2>3. audio_thread'.left = 2 => audio_state' # "BUFFERING"
    BY <1>1
  <2> QED BY <1>1, <1>3, <2>1, <2>2, <2>3 DEF AudioPlaces
<1>6. AudioLengths'
  <2>1. /\ Remaining = IF audio_context.command = "DUP_FRAME" THEN 2 ELSE 1
        /\ Remaining' \in {1, 2} /\ Remaining' <= Remaining
    BY <1>1 DEF Remaining
  <2>2. Committed' <= Committed
    BY <1>2, <2>1 DEF Committed
  <2> QED BY <1>1, <1>2, <2>1, <2>2, LessCommitted
<1>7. AudioOrder'
  <2>1. CASE device' = device
    BY <1>1, <2>1 DEF AudioInv, AudioOrder
  <2>2. CASE device' = <<>>
    BY <1>1, <2>2, EmptyInOrder DEF AudioInv, AudioOrder
  <2> QED BY <1>1, <2>1, <2>2
<1> QED BY <1>4, <1>5, <1>6, <1>7 DEF AudioInv

LEMMA CheckAgainInv == AudioInv /\ Playback!CheckAgain => AudioInv'
<1> SUFFICES ASSUME AudioInv, Playback!CheckAgain PROVE AudioInv'
  OBVIOUS
<1>1. /\ audio_thread.at = "check" /\ audio_thread.left > 0
      /\ audio_state' = IF Len(device) = 0 THEN "BUFFERING" ELSE audio_state
      /\ audio_thread' = [audio_thread EXCEPT !.at = "place"]
      /\ UNCHANGED <<taken, played, target, adjust_command, udp_thread, audio_pending,
                     audio_context, buffer, device>>
  BY DEF Playback!CheckAgain, Playback!StateAfterCheck
<1>2. AudioTypes'
  BY <1>1 DEF AudioInv, AudioTypes
<1>3. audio_thread'.at = "place" /\ audio_thread'.left = audio_thread.left
  BY <1>1 DEF AudioInv, AudioTypes
<1>4. AudioPlaces'
  <2>1. Len(device) = 0 => device = <<>>
    BY DEF AudioInv, AudioTypes
  <2> QED BY <1>1, <1>3, <2>1 DEF AudioInv, AudioPlaces
<1>5. AudioLengths'
  <2>1. Committed' = Committed
    BY <1>1, <1>3 DEF Committed, Remaining
  <2> QED BY <1>1, <2>1 DEF AudioInv, AudioLengths
<1>6. AudioOrder'
  BY <1>1 DEF AudioInv, AudioOrder
<1> QED BY <1>2, <1>4, <1>5, <1>6 DEF AudioInv

LEMMA RenderDoneInv == AudioInv /\ Playback!RenderDone => AudioInv'
<1> SUFFICES ASSUME AudioInv, Playback!RenderDone PROVE AudioInv'
  OBVIOUS
<1>1. /\ audio_thread.at = "check" /\ audio_thread.left = 0 /\ audio_pending' = FALSE
      /\ audio_thread' = [audio_thread EXCEPT !.at = "idle"]
      /\ UNCHANGED <<taken, played, target, adjust_command, udp_thread, audio_context,
                     audio_state, buffer, device>>
  BY DEF Playback!RenderDone
<1>2. AudioTypes'
  BY <1>1 DEF AudioInv, AudioTypes
<1>3. audio_thread'.at = "idle" /\ audio_thread'.left = 0
  BY <1>1 DEF AudioInv, AudioTypes
<1>4. AudioPlaces'
  BY <1>1, <1>3 DEF AudioInv, AudioPlaces
<1>5. AudioLengths'
  <2>1. Committed' = Committed
    BY <1>1 DEF Committed, Remaining
  <2> QED BY <1>1, <2>1 DEF AudioInv, AudioLengths
<1>6. AudioOrder'
  BY <1>1 DEF AudioInv, AudioOrder
<1> QED BY <1>2, <1>4, <1>5, <1>6 DEF AudioInv

LEMMA PlayFrameInv == AudioInv /\ Playback!PlayFrame => AudioInv'
<1> SUFFICES ASSUME AudioInv, Playback!PlayFrame PROVE AudioInv'
  OBVIOUS
<1>1. /\ device # <<>> /\ played' = Head(device) /\ device' = Tail(device)
      /\ UNCHANGED <<taken, target, adjust_command, udp_thread, audio_pending, audio_context,
                     audio_state, buffer, audio_thread>>
  BY DEF Playback!PlayFrame
<1>2. audio_state = "PLAYING" /\ buffer = <<>>
  BY <1>1 DEF AudioInv, AudioTypes, AudioPlaces
<1>3. /\ played \in Nat /\ audio_context.frame \in Nat /\ device \in Seq(Nat)
      /\ InOrder(device, played, audio_context.frame)
  BY DEF AudioInv, AudioTypes, AudioOrder
<1>4. /\ device' \in Seq(Nat) /\ Len(device') = Len(device) - 1
      /\ played' \in Nat /\ played' <= audio_context.frame
      /\ InOrder(device', played', audio_context.frame)
  BY <1>1, <1>3, TailInOrder
<1>5. AudioTypes'
  BY <1>1, <1>4 DEF AudioInv, AudioTypes
<1>6. AudioPlaces'
  BY <1>1, <1>2 DEF AudioInv, AudioPlaces
<1>7. AudioLengths'
  <2>1. Len(device) \in Nat /\ Len(device') \in Nat
    BY <1>3, <1>4
  <2>2. Remaining \in Nat /\ Remaining' = Remaining
    BY <1>1 DEF AudioInv, AudioTypes, Remaining
  <2>3. Committed' <= Committed
    BY <1>4, <2>1, <2>2 DEF Committed
  <2> QED BY <1>1, <2>1, <2>2, <2>3, LessCommitted
<1>8. AudioOrder'
  BY <1>1, <1>2, <1>4, EmptyInOrder DEF AudioInv, AudioOrder
<1> QED BY <1>5, <1>6, <1>7, <1>8 DEF AudioInv

LEMMA PlaceInv == AudioInv /\ Playback!Place => AudioInv'
<1> SUFFICES ASSUME AudioInv, Playback!Place PROVE AudioInv'
  OBVIOUS
<1> DEFINE f == audio_context.frame
<1>1. /\ audio_thread.at = "place" /\ audio_pending
      /\ audio_thread' = [at |-> "check", left |-> audio_thread.left - 1]
      /\ UNCHANGED <<taken, played, target, adjust_command, udp_thread, audio_pending,
                     audio_context>>
  BY DEF Playback!Place, AudioInv, AudioTypes, AudioPlaces
<1>2. /\ audio_thread.left \in {1, 2} /\ audio_thread'.left = audio_thread.left - 1
      /\ audio_thread'.at = "check" /\ audio_thread'.left \in {0, 1}
  BY <1>1 DEF AudioInv, AudioTypes, AudioPlaces
<1>3. /\ Remaining = audio_thread.left /\ Remaining' = audio_thread.left - 1
  BY <1>1, <1>2 DEF Remaining
<1>4. /\ played \in Nat /\ f \in Nat /\ played <= f /\ f <= taken
      /\ device \in Seq(Nat) /\ buffer \in Seq(Nat)
      /\ InOrder(device, played, f) /\ InOrder(buffer, played, f)
  BY DEF AudioInv, AudioTypes, AudioOrder
<1>5. /\ L \in Nat /\ L >= 2 /\ target \in Nat /\ target <= L /\ udp_thread.len \in Nat
      /\ Len(device) \in Nat /\ Len(buffer) \in Nat
  BY <1>4, TargetFacts DEF AudioInv, AudioTypes
<1>6. audio_thread' \in [at : {"idle", "check", "place"}, left : {0, 1, 2}]
  BY <1>1, <1>2
<1>7. CASE /\ audio_state = "PLAYING" /\ device' = Append(device, f)
           /\ UNCHANGED <<buffer, audio_state>>
  <2>1. /\ device' \in Seq(Nat) /\ Len(device') = Len(device) + 1
        /\ InOrder(device', played, f)
    BY <1>4, <1>7, AppendInOrder
  <2>2. AudioTypes'
    BY <1>1, <1>6, <1>7, <2>1 DEF AudioInv, AudioTypes
  <2>3. AudioPlaces'
    BY <1>1, <1>2, <1>7 DEF AudioInv, AudioPlaces
  <2>4. AudioLengths'
    <3>1. Committed' <= Committed /\ Len(device') \in Nat /\ Remaining' \in Nat
      BY <1>2, <1>3, <1>5, <2>1 DEF Committed
    <3> QED BY <1>1, <1>7, <3>1, LessCommitted
  <2>5. AudioOrder'
    BY <1>1, <1>4, <1>7, <2>1 DEF AudioOrder
  <2> QED BY <2>2, <2>3, <2>4, <2>5 DEF AudioInv
<1>8. CASE /\ audio_state # "PLAYING" /\ device' = device \o buffer \o <<f>>
           /\ buffer' = <<>> /\ audio_state' = "PLAYING"
  <2>1. device = <<>>
    BY <1>8 DEF AudioInv, AudioTypes, AudioPlaces
  <2>2. device' = Append(buffer, f)
    <3>1. device \o buffer = buffer
      BY <1>4, <2>1
    <3> QED BY <1>4, <1>8, <3>1
  <2>3. /\ device' \in Seq(Nat) /\ Len(device') = Len(buffer) + 1
        /\ InOrder(device', played, f)
    BY <1>4, <2>2, AppendInOrder
  <2>4. AudioTypes'
    BY <1>1, <1>6, <1>8, <2>3 DEF AudioInv, AudioTypes
  <2>5. AudioPlaces'
    BY <1>1, <1>2, <1>8 DEF AudioInv, AudioPlaces
  <2>6. AudioLengths'
    <3>1. Len(buffer) <= L - 1 /\ (audio_thread.left = 2 => Len(buffer) = 0)
      BY DEF AudioInv, AudioLengths, AudioPlaces
    <3>2. Committed' = Len(buffer) + audio_thread.left
      BY <1>2, <1>3, <1>5, <2>3 DEF Committed
    <3>3. Committed' <= L
      BY <1>2, <1>5, <3>1, <3>2
    <3>4. Len(buffer') = 0 /\ Committed' \in Int
      BY <1>2, <1>5, <1>8, <3>2
    <3> QED BY <1>5, <3>3, <3>4 DEF AudioLengths
  <2>7. AudioOrder'
    BY <1>1, <1>4, <1>8, <2>3, EmptyInOrder DEF AudioOrder
  <2> QED BY <2>4, <2>5, <2>6, <2>7 DEF AudioInv
<1>9. CASE /\ audio_state # "PLAYING" /\ ~(Len(buffer) + 1 > target - 1)
           /\ buffer' = Append(buffer, f) /\ UNCHANGED <<device, audio_state>>
  <2>1. /\ buffer' \in Seq(Nat) /\ Len(buffer') = Len(buffer) + 1
        /\ InOrder(buffer', played, f)
    BY <1>4, <1>9, AppendInOrder
  <2>2. AudioTypes'
    BY <1>1, <1>6, <1>9, <2>1 DEF AudioInv, AudioTypes
  <2>3. AudioPlaces'
    BY <1>1, <1>2, <1>9 DEF AudioInv, AudioPlaces
  <2>4. AudioLengths'
    <3>1. Len(buffer') <= L - 1
      BY <1>5, <1>9, <2>1
    <3>2. Committed' <= Committed /\ Committed' \in Int /\ Committed \in Int
      BY <1>2, <1>3, <1>5, <1>9 DEF Committed
    <3> QED BY <1>1, <1>5, <3>1, <3>2 DEF AudioInv, AudioLengths
  <2>5. AudioOrder'
    BY <1>1, <1>4, <1>9, <2>1 DEF AudioOrder
  <2> QED BY <2>2, <2>3, <2>4, <2>5 DEF AudioInv
<1> QED BY <1>7, <1>8, <1>9 DEF Playback!Place, Playback!Flushed

LEMMA AudioNext == AudioInv /\ [Playback!Next]_Playback!vars => AudioInv'
<1>1. AudioInv /\ (Playback!Arrive \/ UNCHANGED Playback!vars) => AudioInv'
  <2> SUFFICES ASSUME AudioInv, Playback!Arrive \/ UNCHANGED Playback!vars PROVE AudioInv'
    OBVIOUS
  <2>1. UNCHANGED <<taken, played, target, adjust_command, udp_thread, audio_pending,
                    audio_context, audio_state, buffer, device, audio_thread>>
    BY DEF Playback!Arrive, Playback!vars
  <2>2. AudioTypes' /\ AudioPlaces' /\ AudioOrder'
    BY <2>1 DEF AudioInv, AudioTypes, AudioPlaces, AudioOrder
  <2>3. AudioLengths'
    BY <2>1 DEF AudioInv, AudioLengths, Committed, Remaining
  <2> QED BY <2>2, <2>3 DEF AudioInv
<1> QED BY <1>1, LookInv, DecideInv, AudioDecodeInv, CheckAgainInv, PlaceInv, RenderDoneInv,
           PlayFrameInv DEF Playback!Next, Playback!RenderAudio

\* Frames come out of the device in their order, and never more wait in it than the largest
\* target and one stale answer allow (audio.cpp:566, 620 and 768), for any targets and any
\* number of frames, whenever frames are dropped and repeated, the target changes, and the
\* device runs dry or is opened anew.
THEOREM AudioIsAlwaysInOrder == Playback!Spec => []AudioIsInOrder
BY AudioInit, AudioNext, AudioIsSound, PTL DEF Playback!Spec

-----------------------------------------------------------------------------
(* The logger. *)

LogTypes ==
    /\ logger_freelist \subseteq Items
    /\ logger_queue \in Seq(Items)
    /\ buf \in [Items -> Log!Content \cup {Log!None}]
    /\ writer \in [Loggers -> [at : {"idle", "write"}, n : 0 .. MaxLines,
                               item : Items \cup {Log!None}, overflow : BOOLEAN]]
    /\ logger \in [at : {"look", "asleep", "print", "return", "ended"},
                   item : Items \cup {Log!None}, flush : BOOLEAN]

\* Who has an item in hand
LogPlaces ==
    /\ \A w \in Loggers :
          /\ writer[w].at = "idle" => writer[w].item = Log!None /\ writer[w].overflow = FALSE
          /\ writer[w].at = "write" => writer[w].item \in Items /\ writer[w].n >= 1
    /\ logger.at \in {"print", "return"} => logger.item \in Items
    /\ logger.at \notin {"print", "return"} => logger.item = Log!None
    /\ log_main \in {"flush", "destroyed"} => logger.at = "ended"

ItemsOf(s) == {s[i] : i \in DOMAIN s}
Distinct(s) == \A i, j \in DOMAIN s : s[i] = s[j] => i = j

\* Every item is in one place.
ItemsArePlaced ==
    /\ \A i \in Items : \/ i \in logger_freelist \/ i \in ItemsOf(logger_queue)
                        \/ (\E w \in Loggers : writer[w].item = i) \/ logger.item = i
    /\ logger_freelist \cap ItemsOf(logger_queue) = {}
    /\ \A w \in Loggers : writer[w].item \notin logger_freelist \cup ItemsOf(logger_queue)
    /\ logger.item \notin logger_freelist \cup ItemsOf(logger_queue)
    /\ \A v, w \in Loggers :
           writer[v].item = writer[w].item /\ v # w => writer[v].item = Log!None
    /\ \A w \in Loggers : writer[w].item = logger.item => logger.item = Log!None
    /\ Distinct(logger_queue)

ItemsInv == LogTypes /\ LogPlaces /\ ItemsArePlaced

\* What is in the queue, and in the hands of the logger thread
Waiting == [i \in 1 .. Len(logger_queue) |-> buf[logger_queue[i]]]
InHand == IF logger.at = "print" THEN {buf[logger.item]} ELSE {}

\* A line's place in the order in which lines were queued
Has(s, l) == \E p \in DOMAIN s : s[p] = l
PlaceIn(s, l) == CHOOSE p \in DOMAIN s : s[p] = l

Output == [line : Log!Lines, overflow : BOOLEAN, by : {"logger", "flusher", "main"}]

\* Every line is queued once.
WritersAreAhead ==
    \A p \in DOMAIN log_queued, w \in Loggers :
        log_queued[p][1] = w =>
            /\ log_queued[p][2] <= writer[w].n
            /\ writer[w].at = "write" => log_queued[p][2] < writer[w].n

LinesAreTracked ==
    /\ printed \in Seq(Output)
    /\ log_queued \in Seq(Log!Lines)
    /\ Distinct(log_queued)
    /\ WritersAreAhead
    /\ \A i \in DOMAIN printed : Has(log_queued, printed[i].line)
    /\ \A h \in InHand : h \in Log!Content /\ Has(log_queued, h.line)
    /\ Waiting \in Seq(Log!Content)
    /\ \A i \in DOMAIN Waiting : Has(log_queued, Waiting[i].line)

\* What waits comes after all that was printed and is in hand.
WaitingComesLast ==
    /\ \A i, j \in DOMAIN Waiting :
          i < j => PlaceIn(log_queued, Waiting[i].line) < PlaceIn(log_queued, Waiting[j].line)
    /\ \A h \in InHand, j \in DOMAIN Waiting :
          PlaceIn(log_queued, h.line) < PlaceIn(log_queued, Waiting[j].line)
    /\ \A i \in DOMAIN printed, j \in DOMAIN Waiting :
          PlaceIn(log_queued, printed[i].line) < PlaceIn(log_queued, Waiting[j].line)

\* The lines that came out after one that was queued later
Late(s, out) ==
    {j \in DOMAIN out : \E i \in 1 .. j - 1 : PlaceIn(s, out[i].line) > PlaceIn(s, out[j].line)}

IsOvertaken ==
    \E h \in InHand : \E i \in DOMAIN printed :
        PlaceIn(log_queued, printed[i].line) > PlaceIn(log_queued, h.line)

\* Only the line that the logger thread has in hand while flush_logs drains the queue can be
\* overtaken.
OneIsLate ==
    /\ Late(log_queued, printed) # {} =>
           \E j \in DOMAIN printed :
               /\ Late(log_queued, printed) = {j}
               /\ printed[j].by = "logger" /\ \E i \in 1 .. j - 1 : printed[i].by = "flusher"
    /\ flusher \in {"idle", "poll"} => Late(log_queued, printed) = {} /\ ~IsOvertaken
    /\ flusher = "drain" /\ InHand # {} => Late(log_queued, printed) = {}
    /\ IsOvertaken => /\ Late(log_queued, printed) = {}
                      /\ \E i \in DOMAIN printed : printed[i].by = "flusher"

OrderInv == LinesAreTracked /\ WaitingComesLast /\ OneIsLate

\* What was in the queue when flush_logs was called is out, lost, or still on its way.
OutstandingIsKnown ==
    flusher # "idle" =>
        \A l \in outstanding \ lost :
            \/ \E i \in DOMAIN printed : printed[i].line = l
            \/ \E h \in InHand : h.line = l
            \/ flusher # "done" /\ \E i \in DOMAIN Waiting : Waiting[i].line = l

LossIsKnown ==
    lost # {} =>
        \/ \E i \in DOMAIN printed : printed[i].overflow
        \/ \E i \in DOMAIN Waiting : Waiting[i].overflow
        \/ \E w \in Loggers : writer[w].overflow
        \/ \E h \in InHand : h.overflow

LogInv == ItemsInv /\ OrderInv /\ OutstandingIsKnown /\ LossIsKnown

-----------------------------------------------------------------------------
LEMMA FunctionIsQueue ==
    ASSUME NEW S, NEW n \in Nat, NEW f \in [1 .. n -> S]
    PROVE  f \in Seq(S) /\ Len(f) = n
OBVIOUS

LEMMA TailOfQueue ==
    ASSUME NEW S, NEW s \in Seq(S), s # <<>>
    PROVE  /\ Tail(s) \in Seq(S) /\ Head(s) \in S /\ Head(s) = s[1] /\ 1 \in DOMAIN s
           /\ Len(s) \in Nat /\ Len(s) >= 1 /\ Len(Tail(s)) = Len(s) - 1
           /\ \A i \in DOMAIN Tail(s) :
                  i + 1 \in DOMAIN s /\ i + 1 # 1 /\ Tail(s)[i] = s[i + 1]
           /\ \A i \in DOMAIN s : i = 1 \/ (i - 1 \in DOMAIN Tail(s) /\ s[i] = Tail(s)[i - 1])
OBVIOUS

LEMMA AppendToQueue ==
    ASSUME NEW S, NEW s \in Seq(S), NEW x \in S
    PROVE  /\ Append(s, x) \in Seq(S) /\ Len(Append(s, x)) = Len(s) + 1 /\ Len(s) \in Nat
           /\ \A i \in DOMAIN s : i \in DOMAIN Append(s, x) /\ Append(s, x)[i] = s[i] /\ i # Len(s) + 1
           /\ Len(s) + 1 \in DOMAIN Append(s, x) /\ Append(s, x)[Len(s) + 1] = x
           /\ \A i \in DOMAIN Append(s, x) : i = Len(s) + 1 \/ i \in DOMAIN s
OBVIOUS

LEMMA TailIsDistinct ==
    ASSUME NEW s \in Seq(Items), s # <<>>, Distinct(s)
    PROVE  /\ Head(s) \in ItemsOf(s) /\ ItemsOf(Tail(s)) = ItemsOf(s) \ {Head(s)}
           /\ Distinct(Tail(s))
<1>1. ItemsOf(Tail(s)) \subseteq ItemsOf(s) \ {Head(s)}
  BY TailOfQueue DEF ItemsOf, Distinct
<1>2. ItemsOf(s) \ {Head(s)} \subseteq ItemsOf(Tail(s))
  <2> SUFFICES ASSUME NEW i \in DOMAIN s, s[i] # Head(s) PROVE s[i] \in ItemsOf(Tail(s))
    BY DEF ItemsOf
  <2>1. i - 1 \in DOMAIN Tail(s) /\ s[i] = Tail(s)[i - 1]
    BY TailOfQueue
  <2> QED BY <2>1 DEF ItemsOf
<1>3. Distinct(Tail(s))
  <2> SUFFICES ASSUME NEW i \in DOMAIN Tail(s), NEW j \in DOMAIN Tail(s), Tail(s)[i] = Tail(s)[j]
               PROVE  i = j
    BY DEF Distinct
  <2>1. i + 1 = j + 1
    BY TailOfQueue DEF Distinct
  <2>2. i \in Int /\ j \in Int
    OBVIOUS
  <2> QED BY <2>1, <2>2
<1> QED BY <1>1, <1>2, <1>3, TailOfQueue DEF ItemsOf

LEMMA AppendIsDistinct ==
    ASSUME NEW s \in Seq(Items), Distinct(s), NEW x \in Items, x \notin ItemsOf(s)
    PROVE  ItemsOf(Append(s, x)) = ItemsOf(s) \cup {x} /\ Distinct(Append(s, x))
<1>1. ItemsOf(Append(s, x)) = ItemsOf(s) \cup {x}
  BY AppendToQueue DEF ItemsOf
<1>2. Distinct(Append(s, x))
  BY AppendToQueue DEF ItemsOf, Distinct
<1> QED BY <1>1, <1>2

LEMMA PlacedIsConserved == ItemsArePlaced <=> Log!ItemsAreConserved
BY DEF ItemsArePlaced, Log!ItemsAreConserved, Log!InQueue, Log!Held, ItemsOf, Distinct

LEMMA NoneIsNoItem == Log!LoggerAssumption => Log!None \notin Items /\ MaxLines \in Nat
BY DEF Log!LoggerAssumption, Log!None

LEMMA ItemsInit == ASSUME Log!LoggerAssumption, Log!Init PROVE ItemsInv
<1>1. LogTypes
  BY NoneIsNoItem DEF Log!Init, LogTypes
<1>2. LogPlaces
  BY DEF Log!Init, LogPlaces
<1>3. ItemsArePlaced
  BY NoneIsNoItem DEF Log!Init, ItemsArePlaced, ItemsOf, Distinct
<1> QED BY <1>1, <1>2, <1>3 DEF ItemsInv

\* A thread takes an item from the free list, or the first one of the queue.
LEMMA WriterTakes ==
    ASSUME Log!LoggerAssumption, ItemsInv, NEW w \in Loggers, NEW i \in Items, NEW b \in BOOLEAN,
           writer[w].at = "idle", writer[w].n < MaxLines,
           writer' = [writer EXCEPT ![w] = [at |-> "write", n |-> writer[w].n + 1, item |-> i,
                                            overflow |-> b]],
           logger_queue' \in Seq(Items), Distinct(logger_queue'),
           i \in logger_freelist \cup ItemsOf(logger_queue),
           logger_freelist' = logger_freelist \ {i},
           ItemsOf(logger_queue') = ItemsOf(logger_queue) \ {i},
           UNCHANGED <<buf, logger, log_main>>
    PROVE  ItemsInv'
<1>1. writer[w].n \in 0 .. MaxLines /\ MaxLines \in Nat
  BY NoneIsNoItem DEF ItemsInv, LogTypes
<1>2. writer[w].n + 1 \in 0 .. MaxLines /\ writer[w].n + 1 >= 1
  BY <1>1
<1>3. LogTypes'
  BY <1>2 DEF ItemsInv, LogTypes
<1>4. LogPlaces'
  BY <1>2 DEF ItemsInv, LogTypes, LogPlaces
<1>5. \A v \in Loggers : writer'[v].item = IF v = w THEN i ELSE writer[v].item
  BY DEF ItemsInv, LogTypes
<1>6. writer[w].item = Log!None
  BY DEF ItemsInv, LogPlaces
<1>7. i # Log!None
  BY NoneIsNoItem
<1>8. ItemsArePlaced
  BY DEF ItemsInv
<1>9. ItemsArePlaced'
  <2>1. \A j \in Items : \/ j \in logger_freelist' \/ j \in ItemsOf(logger_queue')
                         \/ (\E v \in Loggers : writer'[v].item = j) \/ logger'.item = j
    <3> SUFFICES ASSUME NEW j \in Items
                 PROVE  \/ j \in logger_freelist' \/ j \in ItemsOf(logger_queue')
                        \/ (\E v \in Loggers : writer'[v].item = j) \/ logger'.item = j
      OBVIOUS
    <3>1. CASE j = i
      BY <1>5, <3>1
    <3>2. CASE j # i
      <4>1. \A v \in Loggers : writer[v].item = j => writer'[v].item = j
        BY <1>5, <1>6, NoneIsNoItem
      <4> QED BY <1>8, <3>2, <4>1 DEF ItemsArePlaced
    <3> QED BY <3>1, <3>2
  <2>2. logger_freelist' \cap ItemsOf(logger_queue') = {}
    BY <1>8 DEF ItemsArePlaced
  <2>3. \A v \in Loggers : writer'[v].item \notin logger_freelist' \cup ItemsOf(logger_queue')
    BY <1>5, <1>8 DEF ItemsArePlaced
  <2>4. logger'.item \notin logger_freelist' \cup ItemsOf(logger_queue')
    BY <1>8 DEF ItemsArePlaced
  <2>5. \A v, u \in Loggers :
           writer'[v].item = writer'[u].item /\ v # u => writer'[v].item = Log!None
    BY <1>5, <1>8 DEF ItemsArePlaced
  <2>6. \A v \in Loggers : writer'[v].item = logger'.item => logger'.item = Log!None
    BY <1>5, <1>8 DEF ItemsArePlaced
  <2> QED BY <2>1, <2>2, <2>3, <2>4, <2>5, <2>6 DEF ItemsArePlaced
<1> QED BY <1>3, <1>4, <1>9 DEF ItemsInv

LEMMA WakeKeepsItem ==
    ASSUME ItemsInv
    PROVE  /\ Log!Wake.item = logger.item
           /\ Log!Wake.at = logger.at \/ (logger.at = "asleep" /\ Log!Wake.at = "look")
           /\ Log!Wake \in [at : {"look", "asleep", "print", "return", "ended"},
                            item : Items \cup {Log!None}, flush : BOOLEAN]
<1>1. logger \in [at : {"look", "asleep", "print", "return", "ended"},
                 item : Items \cup {Log!None}, flush : BOOLEAN]
  BY DEF ItemsInv, LogTypes
<1>2. CASE logger.at = "asleep"
  <2>1. Log!Wake = [logger EXCEPT !.at = "look"]
    BY <1>2 DEF Log!Wake
  <2> QED BY <1>1, <1>2, <2>1
<1>3. CASE logger.at # "asleep"
  <2>1. Log!Wake = logger
    BY <1>3 DEF Log!Wake
  <2> QED BY <1>1, <2>1
<1> QED BY <1>2, <1>3

LEMMA AddTailPlaces == ASSUME Log!LoggerAssumption, ItemsInv, NEW w \in Loggers, Log!AddTail(w) PROVE ItemsInv'
<1> DEFINE x == writer[w].item
<1>1. /\ x \in Items /\ writer[w].n \in 1 .. MaxLines /\ writer[w].at = "write"
      /\ x # Log!None /\ writer[w].n \in 0 .. MaxLines
  BY NoneIsNoItem DEF Log!AddTail, ItemsInv, LogTypes, LogPlaces
<1>2. /\ logger_queue' = Append(logger_queue, x)
      /\ writer' = [writer EXCEPT ![w] = [at |-> "idle", n |-> writer[w].n, item |-> Log!None,
                                          overflow |-> FALSE]]
      /\ buf' = [buf EXCEPT ![x] = Log!Written(w)]
      /\ logger' = Log!Wake
      /\ UNCHANGED <<logger_freelist, log_main>>
  BY DEF Log!AddTail, Log!Queued
<1>3. /\ logger'.item = logger.item
      /\ logger'.at = logger.at \/ (logger.at = "asleep" /\ logger'.at = "look")
      /\ logger' \in [at : {"look", "asleep", "print", "return", "ended"},
                      item : Items \cup {Log!None}, flush : BOOLEAN]
  BY <1>2, WakeKeepsItem
<1>4. Log!Written(w) \in Log!Content
  BY <1>1 DEF Log!Written, Log!Content, Log!Lines, ItemsInv, LogTypes
<1>5. ItemsArePlaced /\ logger_queue \in Seq(Items) /\ x \notin ItemsOf(logger_queue)
  BY DEF ItemsInv, ItemsArePlaced, LogTypes
<1>6. /\ logger_queue' \in Seq(Items) /\ Distinct(logger_queue')
      /\ ItemsOf(logger_queue') = ItemsOf(logger_queue) \cup {x}
  BY <1>1, <1>2, <1>5, AppendToQueue, AppendIsDistinct DEF ItemsArePlaced
<1>7. \A v \in Loggers : writer'[v].item = IF v = w THEN Log!None ELSE writer[v].item
  BY <1>2 DEF ItemsInv, LogTypes
<1>8. LogTypes'
  BY <1>1, <1>2, <1>3, <1>4, <1>6 DEF ItemsInv, LogTypes
<1>9. LogPlaces'
  <2>1. /\ writer'[w].at = "idle" /\ writer'[w].item = Log!None /\ writer'[w].overflow = FALSE
        /\ \A v \in Loggers : v # w => writer'[v] = writer[v]
    BY <1>2 DEF ItemsInv, LogTypes
  <2> QED BY <1>2, <1>3, <2>1 DEF ItemsInv, LogPlaces
<1>10. ItemsArePlaced'
  <2>1. \A j \in Items : \/ j \in logger_freelist' \/ j \in ItemsOf(logger_queue')
                         \/ (\E v \in Loggers : writer'[v].item = j) \/ logger'.item = j
    <3> SUFFICES ASSUME NEW j \in Items, j # x
                 PROVE  \/ j \in logger_freelist' \/ j \in ItemsOf(logger_queue')
                        \/ (\E v \in Loggers : writer'[v].item = j) \/ logger'.item = j
      BY <1>6
    <3>1. \A v \in Loggers : writer[v].item = j => writer'[v].item = j
      BY <1>7
    <3> QED BY <1>2, <1>3, <1>5, <1>6, <3>1 DEF ItemsArePlaced
  <2>2. /\ logger_freelist' \cap ItemsOf(logger_queue') = {}
        /\ Log!None \notin logger_freelist' \cup ItemsOf(logger_queue')
    BY <1>1, <1>2, <1>5, <1>6, NoneIsNoItem DEF ItemsArePlaced, ItemsInv, LogTypes, ItemsOf
  <2>3. \A v \in Loggers : writer'[v].item \notin logger_freelist' \cup ItemsOf(logger_queue')
    BY <1>1, <1>2, <1>5, <1>6, <1>7, <2>2 DEF ItemsArePlaced
  <2>4. logger'.item \notin logger_freelist' \cup ItemsOf(logger_queue')
    BY <1>1, <1>2, <1>3, <1>5, <1>6 DEF ItemsArePlaced
  <2>5. \A v, u \in Loggers :
           writer'[v].item = writer'[u].item /\ v # u => writer'[v].item = Log!None
    BY <1>5, <1>7 DEF ItemsArePlaced
  <2>6. \A v \in Loggers : writer'[v].item = logger'.item => logger'.item = Log!None
    BY <1>3, <1>5, <1>7 DEF ItemsArePlaced
  <2> QED BY <1>6, <2>1, <2>2, <2>3, <2>4, <2>5, <2>6 DEF ItemsArePlaced
<1> QED BY <1>8, <1>9, <1>10 DEF ItemsInv

\* The logger thread takes the first item of the queue.
LEMMA LoggerTakes ==
    ASSUME Log!LoggerAssumption, ItemsInv, logger.at = "look", logger_queue # <<>>,
           logger' = [at |-> "print", item |-> Head(logger_queue), flush |-> Len(logger_queue) <= 1],
           logger_queue' = Tail(logger_queue), log_main \notin {"flush", "destroyed"},
           UNCHANGED <<logger_freelist, buf, writer, log_main>>
    PROVE  ItemsInv'
<1> DEFINE x == Head(logger_queue)
<1>1. ItemsArePlaced /\ logger_queue \in Seq(Items) /\ logger.item = Log!None
  BY DEF ItemsInv, LogTypes, LogPlaces
<1>2. /\ x \in Items /\ x \in ItemsOf(logger_queue) /\ Len(logger_queue) \in Nat
      /\ logger_queue' \in Seq(Items) /\ Distinct(logger_queue')
      /\ ItemsOf(logger_queue') = ItemsOf(logger_queue) \ {x}
  BY <1>1, TailOfQueue, TailIsDistinct DEF ItemsArePlaced
<1>3. logger'.item = x /\ logger'.at = "print"
  OBVIOUS
<1>4. LogTypes'
  BY <1>2 DEF ItemsInv, LogTypes
<1>5. LogPlaces'
  BY <1>2, <1>3 DEF ItemsInv, LogPlaces
<1>6. ItemsArePlaced'
  BY <1>1, <1>2, <1>3, NoneIsNoItem DEF ItemsArePlaced
<1> QED BY <1>4, <1>5, <1>6 DEF ItemsInv

\* A line of the queue is printed, and its item is free again.
LEMMA DrainPlaces ==
    ASSUME Log!LoggerAssumption, ItemsInv, NEW by, Log!PrintHead(by)
    PROVE  ItemsInv'
<1> DEFINE x == Head(logger_queue)
<1>1. /\ logger_queue # <<>> /\ logger_queue' = Tail(logger_queue)
      /\ logger_freelist' = logger_freelist \cup {x}
      /\ UNCHANGED <<buf, writer, logger, log_main>>
  BY DEF Log!PrintHead, Log!Freed
<1>2. ItemsArePlaced /\ logger_queue \in Seq(Items)
  BY DEF ItemsInv, LogTypes
<1>3. /\ x \in Items /\ x \in ItemsOf(logger_queue)
      /\ logger_queue' \in Seq(Items) /\ Distinct(logger_queue')
      /\ ItemsOf(logger_queue') = ItemsOf(logger_queue) \ {x}
  BY <1>1, <1>2, TailOfQueue, TailIsDistinct DEF ItemsArePlaced
<1>4. LogTypes'
  BY <1>1, <1>3 DEF ItemsInv, LogTypes
<1>5. LogPlaces'
  BY <1>1 DEF ItemsInv, LogPlaces
<1>6. ItemsArePlaced'
  BY <1>1, <1>2, <1>3 DEF ItemsArePlaced
<1> QED BY <1>4, <1>5, <1>6 DEF ItemsInv

LEMMA ReturnPlaces ==
    ASSUME Log!LoggerAssumption, ItemsInv, Log!LoggerReturnsItem
    PROVE  ItemsInv'
<1> DEFINE x == logger.item
<1>1. /\ logger.at = "return" /\ logger_freelist' = logger_freelist \cup {x}
      /\ logger' = [at |-> "look", item |-> Log!None, flush |-> FALSE]
      /\ UNCHANGED <<logger_queue, buf, writer, log_main>>
  BY DEF Log!LoggerReturnsItem
<1>2. /\ ItemsArePlaced /\ logger_queue \in Seq(Items) /\ x \in Items /\ x # Log!None
      /\ Log!None \notin logger_freelist \cup ItemsOf(logger_queue)
  BY <1>1, NoneIsNoItem DEF ItemsInv, LogTypes, LogPlaces, ItemsOf
<1>3. logger'.item = Log!None /\ logger'.at = "look"
  BY <1>1
<1>4. LogTypes'
  BY <1>1, <1>2 DEF ItemsInv, LogTypes
<1>5. LogPlaces'
  BY <1>1, <1>3 DEF ItemsInv, LogPlaces
<1>6. ItemsArePlaced'
  BY <1>1, <1>2, <1>3 DEF ItemsArePlaced
<1> QED BY <1>4, <1>5, <1>6 DEF ItemsInv

-----------------------------------------------------------------------------
\* What the steps do to the contents that wait and that are in hand
LEMMA WaitingTail ==
    ASSUME ItemsInv, Waiting \in Seq(Log!Content), logger_queue # <<>>,
           logger_queue' = Tail(logger_queue), buf' = buf
    PROVE  /\ Waiting # <<>> /\ Head(Waiting) = buf[Head(logger_queue)]
           /\ Waiting' = Tail(Waiting)
<1>1. logger_queue \in Seq(Items)
  BY DEF ItemsInv, LogTypes
<1>2. Len(Waiting) = Len(logger_queue) /\ DOMAIN Waiting = 1 .. Len(logger_queue)
  BY <1>1 DEF Waiting
<1>3. Waiting # <<>> /\ Head(Waiting) = buf[Head(logger_queue)]
  BY <1>1, <1>2, TailOfQueue DEF Waiting
<1>4. Len(Waiting') = Len(Tail(Waiting)) /\ Waiting' \in Seq(Log!Content)
  <2>1. /\ Len(logger_queue') = Len(logger_queue) - 1 /\ Len(logger_queue) \in Nat
        /\ Len(logger_queue) >= 1
    BY <1>1, TailOfQueue
  <2>2. Waiting' = [i \in 1 .. Len(logger_queue) - 1 |-> buf[logger_queue'[i]]]
    BY <2>1 DEF Waiting
  <2>3. \A i \in 1 .. Len(logger_queue) - 1 : logger_queue'[i] = logger_queue[i + 1] /\ i + 1 \in 1 .. Len(logger_queue)
    BY <1>1, <2>1, TailOfQueue
  <2>4. \A i \in 1 .. Len(logger_queue) : buf[logger_queue[i]] = Waiting[i] /\ Waiting[i] \in Log!Content
    <3>1. \A i \in 1 .. Len(logger_queue) : buf[logger_queue[i]] = Waiting[i]
      BY DEF Waiting
    <3>2. \A i \in 1 .. Len(logger_queue) : Waiting[i] \in Log!Content
      BY <1>2
    <3> QED BY <3>1, <3>2
  <2>5. \A i \in 1 .. Len(logger_queue) - 1 : buf[logger_queue'[i]] \in Log!Content
    BY <2>3, <2>4
  <2>6. Waiting' \in Seq(Log!Content) /\ Len(Waiting') = Len(logger_queue) - 1
    <3>1. Waiting' \in [1 .. Len(logger_queue) - 1 -> Log!Content]
      BY <2>2, <2>5
    <3>2. Len(logger_queue) - 1 \in Nat
      BY <2>1
    <3> QED BY <3>1, <3>2, FunctionIsQueue
  <2> QED BY <1>2, <1>3, <2>1, <2>6, TailOfQueue
<1>5. \A i \in 1 .. Len(Waiting') : Waiting'[i] = Tail(Waiting)[i]
  <2> SUFFICES ASSUME NEW i \in 1 .. Len(Waiting') PROVE Waiting'[i] = Tail(Waiting)[i]
    OBVIOUS
  <2>1. /\ Len(Waiting') = Len(logger_queue) - 1 /\ Len(logger_queue') = Len(logger_queue) - 1
        /\ Len(logger_queue) \in Nat
    BY <1>1, <1>2, <1>3, <1>4, TailOfQueue
  <2>2. /\ i \in 1 .. Len(logger_queue') /\ i + 1 \in 1 .. Len(logger_queue)
        /\ i \in 1 .. Len(Tail(Waiting))
    BY <1>4, <2>1
  <2>3. Waiting'[i] = buf[logger_queue[i + 1]]
    BY <1>1, <2>2, TailOfQueue DEF Waiting
  <2>4. Tail(Waiting)[i] = Waiting[i + 1]
    BY <1>3, <2>2, TailOfQueue
  <2> QED BY <2>2, <2>3, <2>4 DEF Waiting
<1>6. Waiting' = Tail(Waiting)
  BY <1>3, <1>4, <1>5, TailOfQueue, SeqEqual
<1> QED BY <1>3, <1>6

LEMMA WaitingAppend ==
    ASSUME Log!LoggerAssumption, ItemsInv, Waiting \in Seq(Log!Content), NEW w \in Loggers, Log!AddTail(w)
    PROVE  Waiting' = Append(Waiting, Log!Written(w)) /\ InHand' = InHand
<1> DEFINE x == writer[w].item
           c == Log!Written(w)
           n == Len(logger_queue)
<1>1. /\ x \in Items /\ writer[w].n \in 1 .. MaxLines /\ x # Log!None
      /\ logger_queue \in Seq(Items) /\ n \in Nat
  BY NoneIsNoItem DEF Log!AddTail, ItemsInv, LogTypes, LogPlaces
<1>2. /\ logger_queue' = Append(logger_queue, x) /\ buf' = [buf EXCEPT ![x] = c]
      /\ logger' = Log!Wake
  BY DEF Log!AddTail, Log!Queued
<1>3. \A i \in Items : buf'[i] = IF i = x THEN c ELSE buf[i]
  BY <1>1, <1>2 DEF ItemsInv, LogTypes
<1>4. c \in Log!Content
  BY <1>1 DEF Log!Written, Log!Content, Log!Lines, ItemsInv, LogTypes
<1>5. InHand' = InHand
  <2>1. logger'.item = logger.item /\ (logger'.at = "print" <=> logger.at = "print")
    BY <1>2, WakeKeepsItem
  <2>2. logger.at = "print" => logger.item \in Items /\ logger.item # x
    BY <1>1 DEF ItemsInv, LogPlaces, ItemsArePlaced
  <2> QED BY <1>3, <2>1, <2>2 DEF InHand
<1> HIDE DEF x, c, n
<1>6. /\ n + 1 = Len(logger_queue') /\ logger_queue'[n + 1] = x
      /\ \A i \in 1 .. n : logger_queue'[i] = logger_queue[i]
  BY <1>1, <1>2, AppendToQueue DEF n
<1>7. \A i \in 1 .. n : logger_queue[i] # x /\ logger_queue[i] \in Items
  BY <1>1 DEF ItemsInv, ItemsArePlaced, ItemsOf, n, x
<1>8. Waiting' = [i \in 1 .. n + 1 |-> IF i = n + 1 THEN c ELSE Waiting[i]]
  <2>1. Waiting' = [i \in 1 .. n + 1 |-> buf'[logger_queue'[i]]]
    BY <1>6 DEF Waiting
  <2>2. \A i \in 1 .. n + 1 : buf'[logger_queue'[i]] = IF i = n + 1 THEN c ELSE Waiting[i]
    <3> TAKE i \in 1 .. n + 1
    <3>1. CASE i = n + 1
      BY <1>1, <1>3, <1>6, <3>1
    <3>2. CASE i # n + 1
      <4>1. i \in 1 .. n
        BY <1>1, <3>2
      <4>2. Waiting[i] = buf[logger_queue[i]]
        BY <4>1 DEF Waiting, n
      <4> QED BY <1>3, <1>6, <1>7, <3>2, <4>1, <4>2
    <3> QED BY <3>1, <3>2
  <2> QED BY <2>1, <2>2
<1>9. DOMAIN Waiting = 1 .. n /\ Len(Waiting) = n
  BY <1>1 DEF Waiting, n
<1>10. /\ Append(Waiting, c) \in Seq(Log!Content) /\ Len(Append(Waiting, c)) = n + 1
       /\ \A i \in 1 .. n : Append(Waiting, c)[i] = Waiting[i]
       /\ Append(Waiting, c)[n + 1] = c
  BY <1>4, <1>9, AppendToQueue
<1> DEFINE extended == [i \in 1 .. n + 1 |-> IF i = n + 1 THEN c ELSE Waiting[i]]
<1>11. extended \in Seq(Log!Content) /\ Len(extended) = n + 1
  <2>1. \A i \in 1 .. n + 1 : i = n + 1 \/ i \in 1 .. n
    BY <1>1
  <2>2. \A i \in 1 .. n : Waiting[i] \in Log!Content
    BY <1>9
  <2> QED BY <1>1, <1>4, <2>1, <2>2
<1>12. \A i \in 1 .. n + 1 : Append(Waiting, c)[i] = extended[i]
  <2> TAKE i \in 1 .. n + 1
  <2>1. i \in 1 .. n \/ i = n + 1
    BY <1>1
  <2>2. i \in 1 .. n => i # n + 1
    BY <1>1
  <2> QED BY <1>10, <2>1, <2>2
<1>13. Append(Waiting, c) = extended
  <2> HIDE DEF extended
  <2> QED BY <1>10, <1>11, <1>12, SeqEqual
<1> QED BY <1>5, <1>8, <1>13 DEF c

-----------------------------------------------------------------------------
\* Places and late lines
LEMMA PlaceIsThere ==
    ASSUME NEW s, NEW l, Has(s, l)
    PROVE  PlaceIn(s, l) \in DOMAIN s /\ s[PlaceIn(s, l)] = l
BY DEF Has, PlaceIn

LEMMA PlaceStays ==
    ASSUME NEW S, NEW s \in Seq(S), Distinct(s), NEW x \in S, ~Has(s, x)
    PROVE  /\ Append(s, x) \in Seq(S) /\ Distinct(Append(s, x)) /\ Len(s) \in Nat
           /\ Has(Append(s, x), x) /\ PlaceIn(Append(s, x), x) = Len(s) + 1
           /\ \A l : Has(s, l) =>
                  /\ Has(Append(s, x), l) /\ PlaceIn(Append(s, x), l) = PlaceIn(s, l)
                  /\ PlaceIn(s, l) \in 1 .. Len(s)
<1> DEFINE t == Append(s, x)
<1>1. /\ t \in Seq(S) /\ Len(t) = Len(s) + 1 /\ Len(s) \in Nat
      /\ \A i \in DOMAIN s : i \in DOMAIN t /\ t[i] = s[i] /\ i # Len(s) + 1
      /\ Len(s) + 1 \in DOMAIN t /\ t[Len(s) + 1] = x
      /\ \A i \in DOMAIN t : i = Len(s) + 1 \/ i \in DOMAIN s
  BY AppendToQueue
<1> HIDE DEF t
<1>2. Distinct(t)
  BY <1>1 DEF Distinct, Has
<1>3. Has(t, x)
  BY <1>1 DEF Has
<1>4. PlaceIn(t, x) = Len(s) + 1
  BY <1>1, <1>2, <1>3, PlaceIsThere DEF Distinct
<1>5. ASSUME NEW l, Has(s, l)
      PROVE Has(t, l) /\ PlaceIn(t, l) = PlaceIn(s, l) /\ PlaceIn(s, l) \in 1 .. Len(s)
  <2>1. PlaceIn(s, l) \in DOMAIN s /\ s[PlaceIn(s, l)] = l
    BY <1>5, PlaceIsThere
  <2>2. Has(t, l)
    BY <1>1, <2>1 DEF Has
  <2>3. PlaceIn(t, l) \in DOMAIN t /\ t[PlaceIn(t, l)] = l
    BY <2>2, PlaceIsThere
  <2>4. PlaceIn(t, l) = PlaceIn(s, l)
    BY <1>1, <1>2, <2>1, <2>3 DEF Distinct
  <2> QED BY <2>1, <2>2, <2>4
<1> QED BY <1>1, <1>2, <1>3, <1>4, <1>5 DEF t

LEMMA LateAfterPrinting ==
    ASSUME NEW S, NEW out \in Seq(S), NEW e \in S, NEW s
    PROVE  Late(s, Append(out, e)) =
               Late(s, out) \cup
               (IF \E i \in DOMAIN out : PlaceIn(s, out[i].line) > PlaceIn(s, e.line)
                THEN {Len(out) + 1} ELSE {})
<1> DEFINE t == Append(out, e)
           P(l) == PlaceIn(s, l)
<1>1. /\ Len(out) \in Nat /\ DOMAIN out = 1 .. Len(out)
      /\ \A i \in DOMAIN out : i \in DOMAIN t /\ t[i] = out[i] /\ i # Len(out) + 1
      /\ Len(out) + 1 \in DOMAIN t /\ t[Len(out) + 1] = e
      /\ \A i \in DOMAIN t : i = Len(out) + 1 \/ i \in DOMAIN out
  BY AppendToQueue
<1> HIDE DEF t, P
<1>2. \A j \in DOMAIN out : \A i \in 1 .. j - 1 : i \in DOMAIN out
  BY <1>1
<1>3. 1 .. (Len(out) + 1) - 1 = DOMAIN out
  BY <1>1
<1>4. \A j \in DOMAIN out : j \in Late(s, t) <=> j \in Late(s, out)
  BY <1>1, <1>2 DEF Late
<1>5. Len(out) + 1 \in Late(s, t) <=>
          \E i \in DOMAIN out : PlaceIn(s, out[i].line) > PlaceIn(s, e.line)
  BY <1>1, <1>3 DEF Late
<1>6. Late(s, t) \subseteq DOMAIN t /\ Late(s, out) \subseteq DOMAIN out
  BY DEF Late
<1> QED BY <1>1, <1>4, <1>5, <1>6 DEF t

-----------------------------------------------------------------------------
(* The order of lines *)

LEMMA HeadWaits ==
    ASSUME Waiting \in Seq(Log!Content), Waiting # <<>>
    PROVE  /\ 1 \in DOMAIN Waiting /\ Head(Waiting) = Waiting[1] /\ Head(Waiting) \in Log!Content
           /\ Tail(Waiting) \in Seq(Log!Content)
           /\ \A i \in DOMAIN Tail(Waiting) :
                  /\ i \in Int /\ i + 1 \in DOMAIN Waiting /\ 1 < i + 1
                  /\ Tail(Waiting)[i] = Waiting[i + 1]
           /\ \A i \in DOMAIN Waiting :
                  \/ Waiting[i] = Head(Waiting)
                  \/ \E j \in DOMAIN Tail(Waiting) : Waiting[i] = Tail(Waiting)[j]
<1>1. /\ 1 \in DOMAIN Waiting /\ Head(Waiting) = Waiting[1] /\ Head(Waiting) \in Log!Content
      /\ Tail(Waiting) \in Seq(Log!Content)
  BY TailOfQueue
<1>2. \A i \in DOMAIN Tail(Waiting) :
         /\ i \in Int /\ i + 1 \in DOMAIN Waiting /\ 1 < i + 1
         /\ Tail(Waiting)[i] = Waiting[i + 1]
  BY TailOfQueue
<1>3. \A i \in DOMAIN Waiting : i = 1 \/ (i - 1 \in DOMAIN Tail(Waiting) /\ Waiting[i] = Tail(Waiting)[i - 1])
  BY TailOfQueue
<1> QED BY <1>1, <1>2, <1>3

LEMMA LaterWaits ==
    ASSUME OrderInv, Waiting # <<>>
    PROVE  /\ \A i \in DOMAIN Tail(Waiting) :
                  /\ Has(log_queued, Tail(Waiting)[i].line)
                  /\ PlaceIn(log_queued, Head(Waiting).line) < PlaceIn(log_queued, Tail(Waiting)[i].line)
           /\ \A i, j \in DOMAIN Tail(Waiting) :
                  i < j => PlaceIn(log_queued, Tail(Waiting)[i].line) < PlaceIn(log_queued, Tail(Waiting)[j].line)
           /\ \A h \in InHand, j \in DOMAIN Tail(Waiting) :
                  PlaceIn(log_queued, h.line) < PlaceIn(log_queued, Tail(Waiting)[j].line)
           /\ \A i \in DOMAIN printed, j \in DOMAIN Tail(Waiting) :
                  PlaceIn(log_queued, printed[i].line) < PlaceIn(log_queued, Tail(Waiting)[j].line)
<1>1. /\ 1 \in DOMAIN Waiting /\ Head(Waiting) = Waiting[1]
      /\ \A i \in DOMAIN Tail(Waiting) :
             /\ i \in Int /\ i + 1 \in DOMAIN Waiting /\ 1 < i + 1
             /\ Tail(Waiting)[i] = Waiting[i + 1]
  BY HeadWaits DEF OrderInv, LinesAreTracked
<1>2. \A i \in DOMAIN Tail(Waiting) :
         /\ Has(log_queued, Tail(Waiting)[i].line)
         /\ PlaceIn(log_queued, Head(Waiting).line) < PlaceIn(log_queued, Tail(Waiting)[i].line)
  BY <1>1 DEF OrderInv, LinesAreTracked, WaitingComesLast
<1>3. \A i, j \in DOMAIN Tail(Waiting) : i < j => i + 1 < j + 1
  BY <1>1
<1>4. \A i, j \in DOMAIN Tail(Waiting) :
         i < j => PlaceIn(log_queued, Tail(Waiting)[i].line) < PlaceIn(log_queued, Tail(Waiting)[j].line)
  BY <1>1, <1>3 DEF OrderInv, WaitingComesLast
<1>5. \A h \in InHand, j \in DOMAIN Tail(Waiting) :
         PlaceIn(log_queued, h.line) < PlaceIn(log_queued, Tail(Waiting)[j].line)
  BY <1>1 DEF OrderInv, WaitingComesLast
<1>6. \A i \in DOMAIN printed, j \in DOMAIN Tail(Waiting) :
         PlaceIn(log_queued, printed[i].line) < PlaceIn(log_queued, Tail(Waiting)[j].line)
  BY <1>1 DEF OrderInv, WaitingComesLast
<1> QED BY <1>2, <1>4, <1>5, <1>6

\* Nothing is queued, taken by the logger thread or printed.
LEMMA OrderIsKept ==
    ASSUME OrderInv, UNCHANGED <<printed, log_queued>>, InHand' = InHand,
           Waiting' = Waiting \/ (Waiting # <<>> /\ Waiting' = Tail(Waiting)),
           flusher' \in {"idle", "poll"} => flusher \in {"idle", "poll"},
           flusher' = "drain" => flusher \in {"poll", "drain"},
           WritersAreAhead'
    PROVE  OrderInv'
<1>1. OneIsLate'
  BY DEF OrderInv, OneIsLate, IsOvertaken
<1>2. CASE Waiting' = Waiting
  BY <1>1, <1>2 DEF OrderInv, LinesAreTracked, WaitingComesLast
<1>3. CASE Waiting # <<>> /\ Waiting' = Tail(Waiting)
  <2>1. LinesAreTracked'
    BY <1>3, LaterWaits, HeadWaits DEF OrderInv, LinesAreTracked
  <2>2. WaitingComesLast'
    BY <1>3, LaterWaits DEF WaitingComesLast
  <2> QED BY <1>1, <2>1, <2>2 DEF OrderInv
<1> QED BY <1>2, <1>3

\* The logger thread takes a line.
LEMMA OrderIsTaken ==
    ASSUME OrderInv, UNCHANGED <<printed, log_queued, flusher, writer>>, InHand = {}, Waiting # <<>>,
           Waiting' = Tail(Waiting), InHand' = {Head(Waiting)}, flusher # "drain"
    PROVE  OrderInv'
<1>1. /\ 1 \in DOMAIN Waiting /\ Head(Waiting) = Waiting[1] /\ Head(Waiting) \in Log!Content
      /\ Tail(Waiting) \in Seq(Log!Content)
  BY HeadWaits DEF OrderInv, LinesAreTracked
<1>2. LinesAreTracked'
  BY <1>1, LaterWaits DEF OrderInv, LinesAreTracked, WritersAreAhead
<1>3. WaitingComesLast'
  BY LaterWaits DEF WaitingComesLast
<1>4. ~IsOvertaken'
  <2> SUFFICES ASSUME NEW i \in DOMAIN printed,
                      PlaceIn(log_queued, printed[i].line) > PlaceIn(log_queued, Head(Waiting).line)
               PROVE  FALSE
    BY DEF IsOvertaken
  <2>1. PlaceIn(log_queued, printed[i].line) < PlaceIn(log_queued, Head(Waiting).line)
    BY <1>1 DEF OrderInv, WaitingComesLast
  <2>2. /\ PlaceIn(log_queued, printed[i].line) \in Int /\ PlaceIn(log_queued, Head(Waiting).line) \in Int
    BY <1>1, PlaceIsThere DEF OrderInv, LinesAreTracked
  <2> QED BY <2>1, <2>2
<1>5. OneIsLate'
  BY <1>4 DEF OrderInv, OneIsLate
<1> QED BY <1>2, <1>3, <1>5 DEF OrderInv

\* The logger thread prints the line that it has in hand.
LEMMA OrderIsPrinted ==
    ASSUME OrderInv, UNCHANGED <<log_queued, flusher, writer>>, NEW h, InHand = {h}, InHand' = {},
           Waiting' = Waiting,
           printed' = Append(printed, [line |-> h.line, overflow |-> h.overflow, by |-> "logger"])
    PROVE  OrderInv'
<1> DEFINE e == [line |-> h.line, overflow |-> h.overflow, by |-> "logger"]
<1>1. /\ printed \in Seq(Output) /\ e \in Output /\ e.line = h.line /\ e.by = "logger"
      /\ Has(log_queued, h.line)
  BY DEF OrderInv, LinesAreTracked, Log!Content, Output
<1> HIDE DEF e
<1>2. /\ printed' \in Seq(Output) /\ Len(printed) \in Nat
      /\ \A i \in DOMAIN printed : i \in DOMAIN printed' /\ printed'[i] = printed[i]
      /\ Len(printed) + 1 \in DOMAIN printed' /\ printed'[Len(printed) + 1] = e
      /\ \A i \in DOMAIN printed' : i = Len(printed) + 1 \/ i \in DOMAIN printed
  BY <1>1, AppendToQueue DEF e
<1>3. LinesAreTracked'
  BY <1>1, <1>2 DEF OrderInv, LinesAreTracked, WritersAreAhead
<1>4. WaitingComesLast'
  BY <1>1, <1>2 DEF OrderInv, WaitingComesLast
<1>5. ~IsOvertaken'
  BY DEF IsOvertaken
<1>6. Late(log_queued, printed') = Late(log_queued, printed) \cup (IF IsOvertaken THEN {Len(printed) + 1} ELSE {})
  <2>1. IsOvertaken <=> \E i \in DOMAIN printed : PlaceIn(log_queued, printed[i].line) > PlaceIn(log_queued, e.line)
    BY <1>1 DEF IsOvertaken
  <2> QED BY <1>1, <2>1, LateAfterPrinting DEF e
<1>7. OneIsLate'
  <2>1. Late(log_queued, printed)' = Late(log_queued, printed')
    BY DEF Late
  <2>2. CASE IsOvertaken
    <3>1. Late(log_queued, printed') = {Len(printed) + 1} /\ flusher \notin {"idle", "poll"}
      BY <1>6, <2>2 DEF OrderInv, OneIsLate
    <3>2. PICK i \in DOMAIN printed : printed[i].by = "flusher"
      BY <2>2 DEF OrderInv, OneIsLate
    <3>3. i \in 1 .. (Len(printed) + 1) - 1 /\ printed'[i].by = "flusher"
      BY <1>1, <1>2, <3>2
    <3> QED BY <1>1, <1>2, <1>5, <2>1, <3>1, <3>3 DEF OneIsLate
  <2>3. CASE ~IsOvertaken
    <3>1. Late(log_queued, printed') = Late(log_queued, printed)
      BY <1>6, <2>3
    <3>2. \A j \in DOMAIN printed : \A i \in 1 .. j - 1 : i \in DOMAIN printed
      BY <1>1
    <3> QED BY <1>2, <1>5, <2>1, <3>1, <3>2 DEF OrderInv, OneIsLate
  <2> QED BY <2>2, <2>3
<1> QED BY <1>3, <1>4, <1>7 DEF OrderInv

\* flush_logs, or destroy_logger at the end, prints the first line of the queue.
LEMMA OrderIsDrained ==
    ASSUME OrderInv, UNCHANGED <<log_queued, flusher, writer>>, InHand' = InHand, Waiting # <<>>,
           Waiting' = Tail(Waiting), NEW by \in {"flusher", "main"},
           by = "flusher" => flusher = "drain", by = "main" => InHand = {},
           printed' = Append(printed, [line |-> Head(Waiting).line,
                                       overflow |-> Head(Waiting).overflow, by |-> by])
    PROVE  OrderInv'
<1> DEFINE e == [line |-> Head(Waiting).line, overflow |-> Head(Waiting).overflow, by |-> by]
<1>1. /\ 1 \in DOMAIN Waiting /\ Head(Waiting) = Waiting[1] /\ Head(Waiting) \in Log!Content
      /\ Tail(Waiting) \in Seq(Log!Content) /\ Has(log_queued, Head(Waiting).line)
  BY HeadWaits DEF OrderInv, LinesAreTracked
<1>2. /\ printed \in Seq(Output) /\ e \in Output /\ e.line = Head(Waiting).line /\ e.by = by
  BY <1>1 DEF OrderInv, LinesAreTracked, Log!Content, Output
<1> HIDE DEF e
<1>3. /\ printed' \in Seq(Output) /\ Len(printed) \in Nat
      /\ \A i \in DOMAIN printed : i \in DOMAIN printed' /\ printed'[i] = printed[i]
      /\ Len(printed) + 1 \in DOMAIN printed' /\ printed'[Len(printed) + 1] = e
      /\ \A i \in DOMAIN printed' : i = Len(printed) + 1 \/ i \in DOMAIN printed
  BY <1>2, AppendToQueue DEF e
<1>4. LinesAreTracked'
  BY <1>1, <1>2, <1>3, LaterWaits DEF OrderInv, LinesAreTracked, WritersAreAhead
<1>5. WaitingComesLast'
  BY <1>2, <1>3, LaterWaits DEF WaitingComesLast
<1>6. \A i \in DOMAIN printed : ~(PlaceIn(log_queued, printed[i].line) > PlaceIn(log_queued, e.line))
  <2> TAKE i \in DOMAIN printed
  <2>1. PlaceIn(log_queued, printed[i].line) < PlaceIn(log_queued, e.line)
    BY <1>1, <1>2 DEF OrderInv, WaitingComesLast
  <2>2. /\ PlaceIn(log_queued, printed[i].line) \in Int /\ PlaceIn(log_queued, e.line) \in Int
    BY <1>1, <1>2, PlaceIsThere DEF OrderInv, LinesAreTracked
  <2> QED BY <2>1, <2>2
<1>7. Late(log_queued, printed)' = Late(log_queued, printed)
  <2>1. Late(log_queued, printed)' = Late(log_queued, printed')
    BY DEF Late
  <2>2. Late(log_queued, printed') = Late(log_queued, printed)
    <3>1. printed' = Append(printed, e)
      BY DEF e
    <3>2. Late(log_queued, Append(printed, e)) =
              Late(log_queued, printed) \cup
              (IF \E i \in DOMAIN printed : PlaceIn(log_queued, printed[i].line) > PlaceIn(log_queued, e.line)
               THEN {Len(printed) + 1} ELSE {})
      BY <1>2, LateAfterPrinting
    <3> QED BY <1>6, <3>1, <3>2
  <2> QED BY <2>1, <2>2
<1>8. OneIsLate'
  <2>1. \A j \in DOMAIN printed : \A i \in 1 .. j - 1 : i \in DOMAIN printed
    BY <1>2
  <2>2. IsOvertaken' => flusher = "drain" /\ by = "flusher" /\ InHand # {}
    BY DEF IsOvertaken
  <2>3. IsOvertaken' => Late(log_queued, printed) = {}
    BY <2>2 DEF OrderInv, OneIsLate
  <2>4. IsOvertaken' => \E i \in DOMAIN printed' : printed'[i].by = "flusher"
    BY <1>2, <1>3, <2>2
  <2> QED BY <1>3, <1>7, <2>1, <2>2, <2>3, <2>4 DEF OrderInv, OneIsLate
<1> QED BY <1>4, <1>5, <1>8 DEF OrderInv

\* A thread queues its line, which was not queued before.
LEMMA OrderIsQueued ==
    ASSUME OrderInv, Log!LoggerAssumption, ItemsInv, NEW w \in Loggers, Log!AddTail(w)
    PROVE  OrderInv'
<1> DEFINE c == Log!Written(w)
           l == <<w, writer[w].n>>
<1>1. /\ writer[w].at = "write" /\ writer[w].n \in 1 .. MaxLines
      /\ l \in Log!Lines /\ c \in Log!Content /\ c.line = l
  BY NoneIsNoItem DEF Log!AddTail, Log!Written, Log!Content, Log!Lines, ItemsInv, LogTypes,
     LogPlaces
<1>2. /\ Waiting' = Append(Waiting, c) /\ InHand' = InHand /\ log_queued' = Append(log_queued, l)
      /\ UNCHANGED <<printed, flusher>>
      /\ writer' = [writer EXCEPT ![w] = [at |-> "idle", n |-> writer[w].n, item |-> Log!None,
                                          overflow |-> FALSE]]
  BY WaitingAppend DEF Log!AddTail, OrderInv, LinesAreTracked
<1>3. \A v \in Loggers : /\ writer'[v].n = writer[v].n
                         /\ writer'[v].at = "write" => writer[v].at = "write" /\ v # w
  BY <1>2 DEF ItemsInv, LogTypes
<1>4. /\ log_queued \in Seq(Log!Lines) /\ Distinct(log_queued) /\ WritersAreAhead
      /\ Waiting \in Seq(Log!Content) /\ Len(Waiting) \in Nat
  BY DEF OrderInv, LinesAreTracked
<1>5. ~Has(log_queued, l)
  <2> SUFFICES ASSUME NEW p \in DOMAIN log_queued, log_queued[p] = l PROVE FALSE
    BY DEF Has
  <2>1. log_queued[p][1] = w /\ log_queued[p][2] = writer[w].n
    OBVIOUS
  <2>2. log_queued[p][2] < writer[w].n
    BY <1>1, <1>4, <2>1 DEF WritersAreAhead
  <2> QED BY <1>1, <2>1, <2>2
<1> HIDE DEF c, l
<1>6. /\ log_queued' \in Seq(Log!Lines) /\ Distinct(log_queued') /\ Len(log_queued) \in Nat
      /\ Has(log_queued', l) /\ PlaceIn(log_queued', l) = Len(log_queued) + 1
      /\ \A k : Has(log_queued, k) =>
             /\ Has(log_queued', k) /\ PlaceIn(log_queued', k) = PlaceIn(log_queued, k)
             /\ PlaceIn(log_queued, k) \in 1 .. Len(log_queued)
  BY <1>1, <1>2, <1>4, <1>5, PlaceStays
<1>7. /\ Waiting' \in Seq(Log!Content)
      /\ \A i \in DOMAIN Waiting : i \in DOMAIN Waiting' /\ Waiting'[i] = Waiting[i]
      /\ Waiting'[Len(Waiting) + 1] = c
      /\ \A i \in DOMAIN Waiting' : i = Len(Waiting) + 1 \/ i \in DOMAIN Waiting
  BY <1>1, <1>2, <1>4, AppendToQueue
<1>8. /\ \A i \in DOMAIN printed : Has(log_queued, printed[i].line)
      /\ \A h \in InHand : h \in Log!Content /\ Has(log_queued, h.line)
      /\ \A i \in DOMAIN Waiting : Has(log_queued, Waiting[i].line)
  BY DEF OrderInv, LinesAreTracked
<1>9. WritersAreAhead'
  <2> SUFFICES ASSUME NEW p \in DOMAIN log_queued', NEW v \in Loggers, log_queued'[p][1] = v
               PROVE  /\ log_queued'[p][2] <= writer'[v].n
                      /\ writer'[v].at = "write" => log_queued'[p][2] < writer'[v].n
    BY DEF WritersAreAhead
  <2>1. CASE p \in DOMAIN log_queued
    <3>1. log_queued'[p] = log_queued[p]
      BY <1>1, <1>2, <1>4, <2>1, AppendToQueue
    <3> QED BY <1>3, <1>4, <2>1, <3>1 DEF WritersAreAhead
  <2>2. CASE p \notin DOMAIN log_queued
    <3>1. log_queued'[p] = l
      BY <1>1, <1>2, <1>4, <2>2, AppendToQueue
    <3>2. v = w /\ log_queued'[p][2] = writer[w].n /\ writer[w].n \in Int
      BY <1>1, <3>1 DEF l
    <3> QED BY <1>3, <3>2
  <2> QED BY <2>1, <2>2
<1>10. LinesAreTracked'
  <2>1. \A i \in DOMAIN printed' : Has(log_queued', printed'[i].line)
    BY <1>2, <1>6, <1>8
  <2>2. \A h \in InHand' : h \in Log!Content /\ Has(log_queued', h.line)
    BY <1>2, <1>6, <1>8
  <2>3. \A i \in DOMAIN Waiting' : Has(log_queued', Waiting'[i].line)
    BY <1>1, <1>6, <1>7, <1>8
  <2>4. printed' \in Seq(Output)
    BY <1>2 DEF OrderInv, LinesAreTracked
  <2> QED BY <1>6, <1>7, <1>9, <2>1, <2>2, <2>3, <2>4 DEF LinesAreTracked
<1>11. WaitingComesLast'
  <2>1. \A i \in DOMAIN Waiting : PlaceIn(log_queued', Waiting'[i].line) = PlaceIn(log_queued, Waiting[i].line)
    BY <1>6, <1>7, <1>8
  <2>2. PlaceIn(log_queued', Waiting'[Len(Waiting) + 1].line) = Len(log_queued) + 1
    BY <1>1, <1>6, <1>7
  <2>3. \A k : Has(log_queued, k) => PlaceIn(log_queued', k) < Len(log_queued) + 1
    BY <1>6
  <2>4. \A i, j \in DOMAIN Waiting' :
          i < j => PlaceIn(log_queued', Waiting'[i].line) < PlaceIn(log_queued', Waiting'[j].line)
    <3> SUFFICES ASSUME NEW i \in DOMAIN Waiting', NEW j \in DOMAIN Waiting', i < j
                 PROVE  PlaceIn(log_queued', Waiting'[i].line) < PlaceIn(log_queued', Waiting'[j].line)
      OBVIOUS
    <3>1. i \in DOMAIN Waiting
      <4>1. i \in Int /\ j \in Int /\ (j \in DOMAIN Waiting => j <= Len(Waiting))
        BY <1>4, <1>7
      <4> QED BY <1>4, <1>7, <4>1
    <3>2. CASE j \in DOMAIN Waiting
      BY <2>1, <3>1, <3>2 DEF OrderInv, WaitingComesLast
    <3>3. CASE j = Len(Waiting) + 1
      BY <1>7, <1>8, <2>2, <2>3, <3>1, <3>3
    <3> QED BY <1>7, <3>2, <3>3
  <2>5. \A h \in InHand, j \in DOMAIN Waiting' :
          PlaceIn(log_queued', h.line) < PlaceIn(log_queued', Waiting'[j].line)
    <3> SUFFICES ASSUME NEW h \in InHand, NEW j \in DOMAIN Waiting'
                 PROVE  PlaceIn(log_queued', h.line) < PlaceIn(log_queued', Waiting'[j].line)
      OBVIOUS
    <3>1. CASE j \in DOMAIN Waiting
      BY <1>6, <1>8, <2>1, <3>1 DEF OrderInv, WaitingComesLast
    <3>2. CASE j = Len(Waiting) + 1
      BY <1>8, <2>2, <2>3, <3>2
    <3> QED BY <1>7, <3>1, <3>2
  <2>6. \A i \in DOMAIN printed, j \in DOMAIN Waiting' :
          PlaceIn(log_queued', printed[i].line) < PlaceIn(log_queued', Waiting'[j].line)
    <3> SUFFICES ASSUME NEW i \in DOMAIN printed, NEW j \in DOMAIN Waiting'
                 PROVE  PlaceIn(log_queued', printed[i].line) < PlaceIn(log_queued', Waiting'[j].line)
      OBVIOUS
    <3>1. CASE j \in DOMAIN Waiting
      BY <1>6, <1>8, <2>1, <3>1 DEF OrderInv, WaitingComesLast
    <3>2. CASE j = Len(Waiting) + 1
      BY <1>8, <2>2, <2>3, <3>2
    <3> QED BY <1>7, <3>1, <3>2
  <2> QED BY <1>2, <2>4, <2>5, <2>6 DEF WaitingComesLast
<1>12. \A i \in DOMAIN printed : PlaceIn(log_queued', printed[i].line) = PlaceIn(log_queued, printed[i].line)
  BY <1>6, <1>8
<1>13. Late(log_queued, printed)' = Late(log_queued, printed)
  <2>1. \A j \in DOMAIN printed : \A i \in 1 .. j - 1 : i \in DOMAIN printed
    <3>1. Len(printed) \in Nat /\ DOMAIN printed = 1 .. Len(printed)
      BY DEF OrderInv, LinesAreTracked
    <3> QED BY <3>1
  <2> QED BY <1>2, <1>12, <2>1 DEF Late
<1>14. IsOvertaken' <=> IsOvertaken
  BY <1>2, <1>6, <1>8, <1>12 DEF IsOvertaken
<1>15. OneIsLate'
  BY <1>2, <1>13, <1>14 DEF OrderInv, OneIsLate
<1> QED BY <1>10, <1>11, <1>15 DEF OrderInv

-----------------------------------------------------------------------------
(* What is known of lines that were lost, or log_queued before flush_logs was called *)

Known == OutstandingIsKnown /\ LossIsKnown

\* No line moves.
LEMMA KnownIsKept ==
    ASSUME Known, UNCHANGED <<outstanding, lost, printed>>, InHand' = InHand, Waiting' = Waiting,
           \/ flusher' = flusher
           \/ flusher # "idle" /\ (flusher' = "done" => Waiting = <<>>),
           \A w \in Loggers : writer[w].overflow => writer'[w].overflow
    PROVE  Known'
<1>1. LossIsKnown'
  BY DEF Known, LossIsKnown
<1>2. OutstandingIsKnown'
  BY DEF Known, OutstandingIsKnown
<1> QED BY <1>1, <1>2 DEF Known

LEMMA KnownIsStolen ==
    ASSUME Known, ItemsInv, LinesAreTracked, NEW w \in Loggers, Log!Steal(w)
    PROVE  Known'
<1>1. /\ Waiting # <<>> /\ Waiting' = Tail(Waiting) /\ Head(Waiting) = buf[Head(logger_queue)]
      /\ InHand' = InHand
  BY WaitingTail DEF Log!Steal, LinesAreTracked, InHand
<1>2. /\ UNCHANGED <<flusher, outstanding, printed>> /\ lost' = lost \cup {Head(Waiting).line}
      /\ writer'[w].overflow
  BY <1>1 DEF Log!Steal, ItemsInv, LogTypes
<1>3. LossIsKnown'
  BY <1>2 DEF LossIsKnown
<1>4. \A i \in DOMAIN Waiting :
         \/ Waiting[i] = Head(Waiting)
         \/ \E j \in DOMAIN Tail(Waiting) : Waiting[i] = Tail(Waiting)[j]
  BY <1>1, HeadWaits DEF LinesAreTracked
<1>5. OutstandingIsKnown'
  BY <1>1, <1>2, <1>4 DEF Known, OutstandingIsKnown
<1> QED BY <1>3, <1>5 DEF Known

LEMMA KnownIsQueued ==
    ASSUME Known, Log!LoggerAssumption, ItemsInv, LinesAreTracked, NEW w \in Loggers, Log!AddTail(w)
    PROVE  Known'
<1> DEFINE c == Log!Written(w)
<1>1. /\ Waiting' = Append(Waiting, c) /\ InHand' = InHand /\ c.overflow = writer[w].overflow
      /\ UNCHANGED <<flusher, outstanding, printed, lost>> /\ c \in Log!Content
      /\ \A v \in Loggers : v # w => writer'[v].overflow = writer[v].overflow
  <2>1. writer[w].n \in 1 .. MaxLines /\ writer[w].overflow \in BOOLEAN
    BY NoneIsNoItem DEF Log!AddTail, ItemsInv, LogTypes, LogPlaces
  <2>2. c \in Log!Content /\ c.overflow = writer[w].overflow
    BY <2>1 DEF Log!Written, Log!Content, Log!Lines
  <2> QED BY <2>2, WaitingAppend DEF Log!AddTail, LinesAreTracked, ItemsInv, LogTypes
<1> HIDE DEF c
<1>2. /\ \A i \in DOMAIN Waiting : i \in DOMAIN Waiting' /\ Waiting'[i] = Waiting[i]
      /\ Len(Waiting) + 1 \in DOMAIN Waiting' /\ Waiting'[Len(Waiting) + 1] = c
  BY <1>1, AppendToQueue DEF LinesAreTracked
<1>3. OutstandingIsKnown'
  BY <1>1, <1>2 DEF Known, OutstandingIsKnown
<1>4. LossIsKnown'
  BY <1>1, <1>2 DEF Known, LossIsKnown
<1> QED BY <1>3, <1>4 DEF Known

LEMMA KnownIsTaken ==
    ASSUME Known, LinesAreTracked, UNCHANGED <<printed, flusher, outstanding, lost, writer>>,
           InHand = {}, Waiting # <<>>, Waiting' = Tail(Waiting), InHand' = {Head(Waiting)}
    PROVE  Known'
<1>1. \A i \in DOMAIN Waiting :
         \/ Waiting[i] = Head(Waiting)
         \/ \E j \in DOMAIN Tail(Waiting) : Waiting[i] = Tail(Waiting)[j]
  BY HeadWaits DEF LinesAreTracked
<1>2. OutstandingIsKnown'
  BY <1>1 DEF Known, OutstandingIsKnown
<1>3. LossIsKnown'
  BY <1>1 DEF Known, LossIsKnown
<1> QED BY <1>2, <1>3 DEF Known

LEMMA KnownIsPrinted ==
    ASSUME Known, LinesAreTracked, UNCHANGED <<flusher, outstanding, lost, writer>>,
           NEW c \in Log!Content, NEW by \in {"logger", "flusher", "main"},
           printed' = Append(printed, [line |-> c.line, overflow |-> c.overflow, by |-> by]),
           \/ InHand = {c} /\ InHand' = {} /\ Waiting' = Waiting
           \/ InHand' = InHand /\ Waiting # <<>> /\ c = Head(Waiting) /\ Waiting' = Tail(Waiting)
    PROVE  Known'
<1> DEFINE e == [line |-> c.line, overflow |-> c.overflow, by |-> by]
<1>1. /\ printed \in Seq(Output) /\ e \in Output /\ e.line = c.line /\ e.overflow = c.overflow
  BY DEF LinesAreTracked, Log!Content, Output
<1> HIDE DEF e
<1>2. /\ \A i \in DOMAIN printed : i \in DOMAIN printed' /\ printed'[i] = printed[i]
      /\ Len(printed) + 1 \in DOMAIN printed' /\ printed'[Len(printed) + 1] = e
  BY <1>1, AppendToQueue DEF e
<1>3. \A i \in DOMAIN Waiting :
         \/ Waiting' = Waiting
         \/ Waiting[i] = c
         \/ \E j \in DOMAIN Waiting' : Waiting[i] = Waiting'[j]
  BY HeadWaits DEF LinesAreTracked
<1>4. OutstandingIsKnown'
  BY <1>1, <1>2, <1>3 DEF Known, OutstandingIsKnown
<1>5. LossIsKnown'
  BY <1>1, <1>2, <1>3 DEF Known, LossIsKnown
<1> QED BY <1>4, <1>5 DEF Known
-----------------------------------------------------------------------------
(* The steps *)

LEMMA LogInit == ASSUME Log!LoggerAssumption, Log!Init PROVE LogInv
<1>1. ItemsInv
  BY ItemsInit
<1>2. Waiting = <<>> /\ InHand = {}
  BY DEF Log!Init, Waiting, InHand
<1>3. LinesAreTracked
  BY <1>2 DEF Log!Init, LinesAreTracked, Distinct, WritersAreAhead
<1>4. WaitingComesLast
  BY <1>2 DEF WaitingComesLast
<1>5. Late(log_queued, printed) = {} /\ ~IsOvertaken
  BY <1>2 DEF Log!Init, Late, IsOvertaken
<1>6. OneIsLate
  BY <1>5 DEF OneIsLate
<1>7. OutstandingIsKnown /\ LossIsKnown
  BY DEF Log!Init, OutstandingIsKnown, LossIsKnown
<1> QED BY <1>1, <1>3, <1>4, <1>6, <1>7 DEF LogInv, OrderInv

LEMMA WritersStayAhead ==
    ASSUME ItemsInv, LinesAreTracked, NEW w \in Loggers, log_queued' = log_queued,
           writer'[w].n = writer[w].n + 1, \A v \in Loggers : v # w => writer'[v] = writer[v]
    PROVE  WritersAreAhead'
<1> SUFFICES ASSUME NEW p \in DOMAIN log_queued, NEW v \in Loggers, log_queued[p][1] = v
             PROVE  /\ log_queued[p][2] <= writer'[v].n
                    /\ writer'[v].at = "write" => log_queued[p][2] < writer'[v].n
  BY DEF WritersAreAhead
<1>1. /\ log_queued[p][2] <= writer[v].n
      /\ writer[v].at = "write" => log_queued[p][2] < writer[v].n
  BY DEF LinesAreTracked, WritersAreAhead
<1>2. log_queued[p] \in Loggers \X (1 .. MaxLines)
  BY DEF LinesAreTracked, Log!Lines
<1>3. log_queued[p][2] \in Int /\ writer[w].n \in Int
  BY <1>2 DEF ItemsInv, LogTypes
<1> QED BY <1>1, <1>3

LEMMA TakeFreeKeeps ==
    ASSUME Log!LoggerAssumption, LogInv, NEW w \in Loggers, Log!TakeFree(w)
    PROVE  LogInv'
<1>1. PICK i \in logger_freelist :
         /\ logger_freelist' = logger_freelist \ {i}
         /\ writer' = [writer EXCEPT ![w] = [at |-> "write", n |-> writer[w].n + 1, item |-> i,
                                             overflow |-> FALSE]]
  BY DEF Log!TakeFree
<1>2. /\ ItemsInv /\ OrderInv /\ Known /\ i \in Items /\ i \notin ItemsOf(logger_queue)
      /\ LinesAreTracked /\ logger_queue \in Seq(Items) /\ Distinct(logger_queue)
  BY DEF LogInv, Known, OrderInv, ItemsInv, LogTypes, ItemsArePlaced
<1>3. /\ writer[w].at = "idle" /\ writer[w].n < MaxLines
      /\ UNCHANGED <<logger_queue, buf, logger, flusher, log_main, printed, log_queued, lost, outstanding>>
  BY DEF Log!TakeFree
<1>4. ItemsInv'
  <2>1. /\ logger_queue' \in Seq(Items) /\ Distinct(logger_queue')
        /\ ItemsOf(logger_queue') = ItemsOf(logger_queue) \ {i}
    BY <1>2, <1>3
  <2> QED BY <1>1, <1>2, <1>3, <2>1, WriterTakes
<1>5. Waiting' = Waiting /\ InHand' = InHand
  BY <1>3 DEF Waiting, InHand
<1>6. /\ writer'[w].n = writer[w].n + 1 /\ writer[w].overflow = FALSE
      /\ \A v \in Loggers : v # w => writer'[v] = writer[v]
  BY <1>1, <1>2, <1>3 DEF ItemsInv, LogTypes, LogPlaces
<1>7. WritersAreAhead'
  BY <1>2, <1>3, <1>6, WritersStayAhead
<1>8. OrderInv'
  BY <1>2, <1>3, <1>5, <1>7, OrderIsKept
<1>9. Known'
  BY <1>2, <1>3, <1>5, <1>6, KnownIsKept
<1> QED BY <1>4, <1>8, <1>9 DEF LogInv, Known

LEMMA StealKeeps ==
    ASSUME Log!LoggerAssumption, LogInv, NEW w \in Loggers, Log!Steal(w)
    PROVE  LogInv'
<1> DEFINE i == Head(logger_queue)
<1>1. /\ ItemsInv /\ OrderInv /\ Known /\ LinesAreTracked /\ Waiting \in Seq(Log!Content)
      /\ logger_queue \in Seq(Items) /\ Distinct(logger_queue)
  BY DEF LogInv, Known, OrderInv, LinesAreTracked, ItemsInv, LogTypes, ItemsArePlaced
<1>2. /\ writer[w].at = "idle" /\ writer[w].n < MaxLines
      /\ logger_freelist = {} /\ logger_queue # <<>> /\ logger_queue' = Tail(logger_queue)
      /\ writer' = [writer EXCEPT ![w] = [at |-> "write", n |-> writer[w].n + 1, item |-> i,
                                          overflow |-> TRUE]]
      /\ UNCHANGED <<logger_freelist, buf, logger, flusher, log_main, printed, log_queued, outstanding>>
  BY DEF Log!Steal
<1>3. /\ i \in Items /\ i \in ItemsOf(logger_queue) /\ logger_queue' \in Seq(Items)
      /\ Distinct(logger_queue') /\ ItemsOf(logger_queue') = ItemsOf(logger_queue) \ {i}
  BY <1>1, <1>2, TailOfQueue, TailIsDistinct
<1> HIDE DEF i
<1>4. ItemsInv'
  <2>1. logger_freelist' = logger_freelist \ {i} /\ i \in logger_freelist \cup ItemsOf(logger_queue)
    BY <1>2, <1>3
  <2> QED BY <1>1, <1>2, <1>3, <2>1, WriterTakes
<1>5. Waiting # <<>> /\ Waiting' = Tail(Waiting) /\ InHand' = InHand
  BY <1>1, <1>2, WaitingTail DEF InHand
<1>6. /\ writer'[w].n = writer[w].n + 1
      /\ \A v \in Loggers : v # w => writer'[v] = writer[v]
  BY <1>1, <1>2 DEF ItemsInv, LogTypes
<1>7. WritersAreAhead'
  BY <1>1, <1>2, <1>6, WritersStayAhead
<1>8. OrderInv'
  BY <1>1, <1>2, <1>5, <1>7, OrderIsKept
<1>9. Known'
  BY <1>1, KnownIsStolen
<1> QED BY <1>4, <1>8, <1>9 DEF LogInv, Known

LEMMA GiveUpKeeps ==
    ASSUME Log!LoggerAssumption, LogInv, NEW w \in Loggers, Log!GiveUp(w)
    PROVE  LogInv'
<1>1. /\ ItemsInv /\ OrderInv /\ Known /\ LinesAreTracked
  BY DEF LogInv, Known, OrderInv
<1>2. /\ writer[w].at = "idle" /\ writer[w].n < MaxLines
      /\ writer' = [writer EXCEPT ![w].n = writer[w].n + 1]
      /\ UNCHANGED <<logger_freelist, logger_queue, buf, logger, flusher, log_main, printed,
                     log_queued, lost, outstanding>>
  BY DEF Log!GiveUp
<1>3. writer[w].n + 1 \in 0 .. MaxLines
  <2>1. writer[w].n \in 0 .. MaxLines /\ MaxLines \in Nat
    BY <1>1, NoneIsNoItem DEF ItemsInv, LogTypes
  <2> QED BY <1>2, <2>1
<1>4. /\ writer'[w].n = writer[w].n + 1 /\ writer'[w].at = writer[w].at
      /\ writer'[w].item = writer[w].item /\ writer'[w].overflow = writer[w].overflow
      /\ \A v \in Loggers : v # w => writer'[v] = writer[v]
  BY <1>1, <1>2 DEF ItemsInv, LogTypes
<1>5. ItemsInv'
  <2>1. LogTypes'
    BY <1>1, <1>2, <1>3 DEF ItemsInv, LogTypes
  <2>2. LogPlaces'
    BY <1>1, <1>2, <1>4 DEF ItemsInv, LogPlaces
  <2>3. \A v \in Loggers : writer'[v].item = writer[v].item
    BY <1>4
  <2>4. ItemsArePlaced'
    BY <1>1, <1>2, <2>3 DEF ItemsInv, ItemsArePlaced
  <2> QED BY <2>1, <2>2, <2>4 DEF ItemsInv
<1>6. Waiting' = Waiting /\ InHand' = InHand
  BY <1>2 DEF Waiting, InHand
<1>7. WritersAreAhead'
  BY <1>1, <1>2, <1>4, WritersStayAhead
<1>8. OrderInv'
  BY <1>1, <1>2, <1>6, <1>7, OrderIsKept
<1>9. Known'
  BY <1>1, <1>2, <1>4, <1>6, KnownIsKept
<1> QED BY <1>5, <1>8, <1>9 DEF LogInv, Known

LEMMA AddTailKeeps ==
    ASSUME Log!LoggerAssumption, LogInv, NEW w \in Loggers, Log!AddTail(w)
    PROVE  LogInv'
BY AddTailPlaces, OrderIsQueued, KnownIsQueued DEF LogInv, Known, OrderInv

\* The logger thread sleeps, wakes or ends, main goes on, flush_logs waits or ends: no line
\* moves.
LEMMA NoLineMoves ==
    ASSUME LogInv,
           UNCHANGED <<logger_freelist, logger_queue, buf, writer, printed, log_queued, lost, outstanding>>,
           logger' \in [at : {"look", "asleep", "print", "return", "ended"},
                        item : Items \cup {Log!None}, flush : BOOLEAN],
           logger'.item = logger.item,
           logger'.at = logger.at \/ {logger.at, logger'.at} \subseteq {"look", "asleep", "ended"},
           log_main' \in {"flush", "destroyed"} => logger'.at = "ended",
           \/ flusher' = flusher
           \/ flusher = "poll" /\ flusher' = "drain"
           \/ flusher \in {"poll", "drain"} /\ flusher' = "done" /\ logger_queue = <<>>
    PROVE  LogInv'
<1>1. ItemsInv /\ OrderInv /\ Known
  BY DEF LogInv, Known
<1>2. ItemsInv'
  <2>1. LogTypes'
    BY <1>1 DEF ItemsInv, LogTypes
  <2>2. LogPlaces'
    BY <1>1 DEF ItemsInv, LogPlaces
  <2>3. ItemsArePlaced'
    BY <1>1 DEF ItemsInv, ItemsArePlaced
  <2> QED BY <2>1, <2>2, <2>3 DEF ItemsInv
<1>3. Waiting' = Waiting
  BY DEF Waiting
<1>4. InHand' = InHand
  BY DEF InHand
<1>5. logger_queue = <<>> => Waiting = <<>>
  BY DEF Waiting
<1>6. WritersAreAhead'
  BY <1>1 DEF OrderInv, LinesAreTracked, WritersAreAhead
<1>7. OrderInv'
  BY <1>1, <1>3, <1>4, <1>6, OrderIsKept
<1>8. Known'
  BY <1>1, <1>3, <1>4, <1>5, KnownIsKept
<1> QED BY <1>2, <1>7, <1>8 DEF LogInv, Known

LEMMA LooksKeeps == ASSUME Log!LoggerAssumption, LogInv, Log!LoggerLooks PROVE LogInv'
<1>1. /\ ItemsInv /\ OrderInv /\ Known /\ LinesAreTracked /\ Waiting \in Seq(Log!Content)
  BY DEF LogInv, Known, OrderInv, LinesAreTracked
<1>2. /\ logger.at = "look" /\ flusher # "drain"
      /\ UNCHANGED <<logger_freelist, buf, writer, flusher, log_main, printed, log_queued, lost,
                     outstanding>>
  BY DEF Log!LoggerLooks, Log!MutexFree
<1>3. log_main \notin {"flush", "destroyed"}
  BY <1>1, <1>2 DEF ItemsInv, LogPlaces
<1>4. ASSUME NEW a \in {"asleep", "ended"}, logger' = [logger EXCEPT !.at = a],
             logger_queue' = logger_queue
      PROVE  LogInv'
  <2>1. /\ logger' \in [at : {"look", "asleep", "print", "return", "ended"},
                         item : Items \cup {Log!None}, flush : BOOLEAN]
        /\ logger'.item = logger.item /\ logger'.at = a
    BY <1>1, <1>4 DEF ItemsInv, LogTypes
  <2>2. {logger.at, logger'.at} \subseteq {"look", "asleep", "ended"}
    BY <1>2, <2>1
  <2> QED BY <1>2, <1>3, <1>4, <2>1, <2>2, NoLineMoves
<1>5. ASSUME logger_queue # <<>>, logger_queue' = Tail(logger_queue),
             logger' = [at |-> "print", item |-> Head(logger_queue), flush |-> Len(logger_queue) <= 1]
      PROVE  LogInv'
  <2>1. ItemsInv'
    BY <1>1, <1>2, <1>3, <1>5, LoggerTakes
  <2>2. Waiting # <<>> /\ Waiting' = Tail(Waiting) /\ Head(Waiting) = buf[Head(logger_queue)]
    BY <1>1, <1>2, <1>5, WaitingTail
  <2>3. InHand = {} /\ InHand' = {Head(Waiting)}
    BY <1>2, <1>5, <2>2 DEF InHand
  <2>4. OrderInv'
    BY <1>1, <1>2, <2>2, <2>3, OrderIsTaken
  <2>5. Known'
    BY <1>1, <1>2, <2>2, <2>3, KnownIsTaken
  <2> QED BY <2>1, <2>4, <2>5 DEF LogInv, Known
<1> QED BY <1>4, <1>5 DEF Log!LoggerLooks

LEMMA PrintsKeeps == ASSUME Log!LoggerAssumption, LogInv, Log!LoggerPrints PROVE LogInv'
<1> DEFINE c == buf[logger.item]
<1>1. /\ ItemsInv /\ OrderInv /\ Known /\ LinesAreTracked
  BY DEF LogInv, Known, OrderInv
<1>2. /\ logger.at = "print" /\ logger' = [logger EXCEPT !.at = "return"]
      /\ printed' = Append(printed, [line |-> c.line, overflow |-> c.overflow, by |-> "logger"])
      /\ UNCHANGED <<logger_freelist, logger_queue, buf, writer, flusher, log_main, log_queued,
                     lost, outstanding>>
  BY DEF Log!LoggerPrints, Log!Output
<1>3. /\ logger'.item = logger.item /\ logger'.at = "return"
      /\ logger' \in [at : {"look", "asleep", "print", "return", "ended"},
                       item : Items \cup {Log!None}, flush : BOOLEAN]
  BY <1>1, <1>2 DEF ItemsInv, LogTypes
<1>4. ItemsInv'
  <2>1. LogTypes'
    BY <1>1, <1>2, <1>3 DEF ItemsInv, LogTypes
  <2>2. LogPlaces'
    BY <1>1, <1>2, <1>3 DEF ItemsInv, LogPlaces
  <2>3. ItemsArePlaced'
    BY <1>1, <1>2, <1>3 DEF ItemsInv, ItemsArePlaced
  <2> QED BY <2>1, <2>2, <2>3 DEF ItemsInv
<1>5. InHand = {c} /\ InHand' = {} /\ Waiting' = Waiting
  BY <1>2, <1>3 DEF InHand, Waiting
<1>6. c \in Log!Content
  BY <1>1, <1>5 DEF LinesAreTracked
<1> HIDE DEF c
<1>7. OrderInv'
  BY <1>1, <1>2, <1>5, OrderIsPrinted
<1>8. Known'
  BY <1>1, <1>2, <1>5, <1>6, KnownIsPrinted
<1> QED BY <1>4, <1>7, <1>8 DEF LogInv, Known

LEMMA ReturnsKeeps == ASSUME Log!LoggerAssumption, LogInv, Log!LoggerReturnsItem PROVE LogInv'
<1>1. /\ ItemsInv /\ OrderInv /\ Known
  BY DEF LogInv, Known
<1>2. /\ logger.at = "return" /\ logger' = [at |-> "look", item |-> Log!None, flush |-> FALSE]
      /\ UNCHANGED <<logger_queue, buf, writer, flusher, printed, log_queued, lost, outstanding>>
  BY DEF Log!LoggerReturnsItem
<1>3. ItemsInv'
  BY <1>1, ReturnPlaces
<1>4. Waiting' = Waiting /\ InHand' = InHand
  BY <1>2 DEF Waiting, InHand
<1>5. WritersAreAhead'
  BY <1>1, <1>2 DEF OrderInv, LinesAreTracked, WritersAreAhead
<1>6. OrderInv'
  BY <1>1, <1>2, <1>4, <1>5, OrderIsKept
<1>7. Known'
  BY <1>1, <1>2, <1>4, KnownIsKept
<1> QED BY <1>3, <1>6, <1>7 DEF LogInv, Known

LEMMA BeginsKeeps == ASSUME LogInv, Log!CrashHandlerBegins PROVE LogInv'
<1>1. /\ ItemsInv /\ OrderInv /\ Known
  BY DEF LogInv, Known
<1>2. /\ flusher = "idle" /\ flusher' = "poll"
      /\ outstanding' = {buf[logger_queue[i]].line : i \in DOMAIN logger_queue}
      /\ UNCHANGED <<logger_freelist, logger_queue, buf, writer, logger, log_main, printed,
                     log_queued, lost>>
  BY DEF Log!CrashHandlerBegins
<1>3. ItemsInv'
  BY <1>1, <1>2 DEF ItemsInv, LogTypes, LogPlaces, ItemsArePlaced
<1>4. Waiting' = Waiting /\ InHand' = InHand
  BY <1>2 DEF Waiting, InHand
<1>5. WritersAreAhead'
  BY <1>1, <1>2 DEF OrderInv, LinesAreTracked, WritersAreAhead
<1>6. OrderInv'
  BY <1>1, <1>2, <1>4, <1>5, OrderIsKept
<1>7. \A l \in outstanding' : \E i \in DOMAIN Waiting : Waiting[i].line = l
  BY <1>1, <1>2 DEF Waiting, ItemsInv, LogTypes
<1>8. OutstandingIsKnown'
  BY <1>2, <1>4, <1>7 DEF OutstandingIsKnown
<1>9. LossIsKnown'
  BY <1>1, <1>2, <1>4 DEF Known, LossIsKnown
<1> QED BY <1>3, <1>6, <1>8, <1>9 DEF LogInv

\* flush_logs under the mutex, or destroy_logger after the logger thread has ended
LEMMA DrainsKeeps ==
    ASSUME Log!LoggerAssumption, LogInv, Log!FlusherDrains \/ Log!MainDrains
    PROVE  LogInv'
<1>1. /\ ItemsInv /\ OrderInv /\ Known /\ LinesAreTracked /\ Waiting \in Seq(Log!Content)
  BY DEF LogInv, Known, OrderInv, LinesAreTracked
<1>2. PICK by \in {"flusher", "main"} :
         /\ Log!PrintHead(by)
         /\ by = "flusher" => flusher = "drain"
         /\ by = "main" => log_main = "flush"
  BY DEF Log!FlusherDrains, Log!MainDrains
<1> DEFINE c == buf[Head(logger_queue)]
<1>3. /\ logger_queue # <<>> /\ logger_queue' = Tail(logger_queue)
      /\ printed' = Append(printed, [line |-> c.line, overflow |-> c.overflow, by |-> by])
      /\ UNCHANGED <<buf, writer, logger, flusher, log_main, log_queued, lost, outstanding>>
  BY <1>2 DEF Log!PrintHead, Log!Output
<1>4. Waiting # <<>> /\ Waiting' = Tail(Waiting) /\ Head(Waiting) = c
  BY <1>1, <1>3, WaitingTail
<1> HIDE DEF c
<1>5. InHand' = InHand /\ (by = "main" => InHand = {})
  <2>1. by = "main" => logger.at = "ended"
    BY <1>1, <1>2 DEF ItemsInv, LogPlaces
  <2> QED BY <1>3, <2>1 DEF InHand
<1>6. ItemsInv'
  BY <1>1, <1>2, DrainPlaces
<1>7. OrderInv'
  BY <1>1, <1>2, <1>3, <1>4, <1>5, OrderIsDrained
<1>8. c \in Log!Content
  BY <1>1, <1>4, HeadWaits
<1>9. Known'
  BY <1>1, <1>3, <1>4, <1>5, <1>8, KnownIsPrinted
<1> QED BY <1>6, <1>7, <1>9 DEF LogInv, Known

LEMMA OthersKeep ==
    ASSUME LogInv,
           \/ Log!FlusherSeesEmpty \/ Log!FlusherTimesOut \/ Log!FlusherEnds
           \/ Log!Deactivate \/ Log!Join \/ Log!MainFlushed \/ UNCHANGED Log!vars
    PROVE  LogInv'
<1>1. /\ logger \in [at : {"look", "asleep", "print", "return", "ended"},
                      item : Items \cup {Log!None}, flush : BOOLEAN]
      /\ log_main \in {"flush", "destroyed"} => logger.at = "ended"
      /\ ItemsInv
  BY DEF LogInv, ItemsInv, LogTypes, LogPlaces
<1>2. CASE Log!FlusherSeesEmpty
  BY <1>1, <1>2, NoLineMoves DEF Log!FlusherSeesEmpty
<1>3. CASE Log!FlusherTimesOut
  BY <1>1, <1>3, NoLineMoves DEF Log!FlusherTimesOut
<1>4. CASE Log!FlusherEnds
  BY <1>1, <1>4, NoLineMoves DEF Log!FlusherEnds
<1>5. CASE Log!Deactivate
  <2>1. /\ logger' = Log!Wake /\ log_main' = "join"
        /\ UNCHANGED <<logger_freelist, logger_queue, buf, writer, flusher, printed, log_queued,
                       lost, outstanding>>
    BY <1>5 DEF Log!Deactivate
  <2>2. /\ Log!Wake.item = logger.item
        /\ Log!Wake.at = logger.at \/ (logger.at = "asleep" /\ Log!Wake.at = "look")
        /\ Log!Wake \in [at : {"look", "asleep", "print", "return", "ended"},
                          item : Items \cup {Log!None}, flush : BOOLEAN]
    BY <1>1, WakeKeepsItem
  <2>3. \/ logger'.at = logger.at
        \/ {logger.at, logger'.at} \subseteq {"look", "asleep", "ended"}
    BY <2>1, <2>2
  <2> QED BY <2>1, <2>2, <2>3, NoLineMoves
<1>6. CASE Log!Join
  BY <1>1, <1>6, NoLineMoves DEF Log!Join
<1>7. CASE Log!MainFlushed
  BY <1>1, <1>7, NoLineMoves DEF Log!MainFlushed
<1>8. CASE UNCHANGED Log!vars
  BY <1>1, <1>8, NoLineMoves DEF Log!vars
<1> QED BY <1>2, <1>3, <1>4, <1>5, <1>6, <1>7, <1>8

LEMMA LogNext == Log!LoggerAssumption /\ LogInv /\ [Log!Next]_Log!vars => LogInv'
BY TakeFreeKeeps, StealKeeps, GiveUpKeeps, AddTailKeeps, LooksKeeps, PrintsKeeps, ReturnsKeeps,
   BeginsKeeps, DrainsKeeps, OthersKeep
   DEF Log!Next, Log!Log, Log!LoggerThread, Log!CrashHandler, Log!Destroy

LEMMA LogIsSound == LogInv => Log!LinesAreKept
<1> SUFFICES ASSUME LogInv PROVE Log!LinesAreKept
  OBVIOUS
<1>1. Log!ItemsAreConserved
  BY PlacedIsConserved DEF LogInv, ItemsInv
<1>2. DOMAIN Waiting = DOMAIN logger_queue /\ \A i \in DOMAIN logger_queue : Waiting[i] = buf[logger_queue[i]]
  BY DEF Waiting, LogInv, ItemsInv, LogTypes
<1>3. Log!LossIsNoted
  <2>1. \A i \in DOMAIN Waiting : Waiting[i].overflow => \E x \in Log!InQueue : buf[x].overflow
    BY <1>2 DEF Log!InQueue
  <2>2. \A h \in InHand : h.overflow => logger.at = "print" /\ buf[logger.item].overflow
    BY DEF InHand
  <2> QED BY <2>1, <2>2 DEF LogInv, LossIsKnown, Log!LossIsNoted
<1>4. Log!PrintedInOrder
  <2> DEFINE late == Late(log_queued, printed)
  <2>1. late = {j \in DOMAIN printed : \E i \in 1 .. j - 1 :
                   Log!Position(printed[i].line) > Log!Position(printed[j].line)}
    BY DEF Late, PlaceIn, Log!Position
  <2>2. /\ \A j, k \in late : j = k
        /\ \A j \in late : /\ printed[j].by = "logger"
                           /\ \E i \in 1 .. j - 1 : printed[i].by = "flusher"
    BY DEF LogInv, OrderInv, OneIsLate
  <2> HIDE DEF late
  <2> QED BY <2>1, <2>2 DEF Log!PrintedInOrder
<1>5. Log!FlushLeavesAtMostOne
  <2>1. \A h \in InHand : logger.at = "print" /\ h = buf[logger.item]
    BY DEF InHand
  <2> QED BY <2>1 DEF LogInv, OutstandingIsKnown, Log!FlushLeavesAtMostOne
<1> QED BY <1>1, <1>3, <1>4, <1>5 DEF Log!LinesAreKept

\* No item of the logger is ever lost or in two places, lines come out in the order in which
\* they were queued but for the one that flush_logs may overtake, and the reader of the log
\* can tell when lines are missing (logging.c:176-310): for any threads, any number of items
\* above one and any number of lines, whenever the crash handler takes over and the logger
\* is destroyed.
THEOREM LinesAreAlwaysKept == Log!LoggerAssumption => (Log!Spec => []LinesAreKept)
<1>1. ASSUME Log!LoggerAssumption PROVE Log!Spec => []LinesAreKept
  <2>1. Log!Init => LogInv
    BY <1>1, LogInit
  <2>2. LogInv /\ [Log!Next]_Log!vars => LogInv'
    BY <1>1, LogNext
  <2>3. LogInv => LinesAreKept
    BY LogIsSound DEF LinesAreKept
  <2> QED BY <2>1, <2>2, <2>3, PTL DEF Log!Spec
<1> QED BY <1>1

=============================================================================
