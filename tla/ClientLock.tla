----------------------------- MODULE ClientLock -----------------------------
(***************************************************************************)
(* The server's client object (server/client.c) and the threads that share *)
(* it.  The main thread (server/main.c) connects, activates and            *)
(* deactivates the client; the others may use its sockets only while they  *)
(* hold a client lock.  Deactivation waits until nobody holds one, by      *)
(* taking the writer's side of a readers-writer lock (module RWLock).      *)
(*                                                                         *)
(* cond_mutex protects the flags.  The one call made under it that could   *)
(* block is read_lock: it is taken when a thread's pc is "granted".  All   *)
(* else that happens under it is one step.                                 *)
(*                                                                         *)
(* The video thread hands frames to the send thread with two semaphores    *)
(* (server/video.c), holding its client lock all the while.                *)
(***************************************************************************)
EXTENDS Naturals, FiniteSets

CONSTANTS
    Loopers,          \* threads that renew their client lock in a loop: audio, GPU
    Visitors,         \* threads that try to lock the client now and then: D-Bus, signals
    MaxConnections    \* bound: how many clients connect

Lockers == {"video", "tcp"} \cup Loopers
Triers == {"send"} \cup Visitors
Threads == {"main"} \cup Lockers \cup Triers

\* What the constants have to be; the module that instantiates this one assumes it.
ClientAssumption ==
    /\ IsFiniteSet(Threads) /\ MaxConnections \in Nat
    /\ \A t \in Loopers \cup Visitors : t \notin {"main", "video", "tcp", "send"}
    /\ Loopers \cap Visitors = {}

VARIABLES
    is_active, is_deactivating, is_permanently_deactivated,
    connections,      \* how many clients have connected
    has_context,      \* the socket contexts exist
    exiting,          \* server_state.exiting
    leaving,          \* the main thread has left its loop
    producer, consumer, run_send,   \* run_multithreaded_send_video_packets
    has_frame,        \* the send thread has taken a frame that it has not marked as sent
    pc,
    num_active_readers, num_writers, is_active_writer, rw

rwVars == <<num_active_readers, num_writers, is_active_writer, rw>>
flags == <<is_active, is_deactivating, is_permanently_deactivated>>
socketVars == <<connections, has_context>>
exitVars == <<exiting, leaving>>
videoVars == <<producer, consumer, run_send, has_frame>>
vars == <<flags, socketVars, exitVars, videoVars, pc, rwVars>>

RW == INSTANCE RWLock WITH Readers <- Lockers \cup Triers, Writers <- {"main"}

Init ==
    /\ is_active = FALSE /\ is_deactivating = FALSE /\ is_permanently_deactivated = FALSE
    /\ connections = 0 /\ has_context = FALSE
    /\ exiting = FALSE /\ leaving = FALSE
    /\ producer = 0 /\ consumer = 1 /\ run_send = TRUE /\ has_frame = FALSE
    /\ pc = [t \in Threads |-> IF t = "main" THEN "loop" ELSE IF t \in Lockers THEN "lock" ELSE "idle"]
    /\ RW!Init

CondMutexIsFree == \A t \in Threads : pc[t] # "granted"

Goto(t, place) == pc' = [pc EXCEPT ![t] = place]

\* Broadcast to those who wait in client_active_lock, on t's way to a new place
GotoAndWake(t, place) ==
    pc' = [[u \in Threads |-> IF pc[u] = "wait" THEN "lock" ELSE pc[u]] EXCEPT ![t] = place]

Available == is_active /\ ~is_deactivating

-----------------------------------------------------------------------------
(* Calls of the threads that use the client *)

\* Mutation: a client that is being deactivated can still be locked
LocksDeactivating(t) ==
    /\ pc[t] = "lock"
    /\ CondMutexIsFree
    /\ IF is_active THEN RW!ReadLock(t) /\ Goto(t, "granted")
       ELSE /\ Goto(t, IF is_permanently_deactivated THEN "ended" ELSE "wait")
            /\ UNCHANGED rwVars
    /\ UNCHANGED <<flags, socketVars, exitVars, videoVars>>

ClientActiveLock(t) ==
    /\ pc[t] = "lock"
    /\ CondMutexIsFree
    /\ IF Available THEN RW!ReadLock(t) /\ Goto(t, "granted")
       ELSE /\ Goto(t, IF is_permanently_deactivated THEN "ended" ELSE "wait")
            /\ UNCHANGED rwVars
    /\ UNCHANGED <<flags, socketVars, exitVars, videoVars>>

\* A wait for the condition may end without a broadcast.
WakeUp(t) ==
    /\ pc[t] = "wait"
    /\ Goto(t, "lock")
    /\ UNCHANGED <<flags, socketVars, exitVars, videoVars, rwVars>>

ClientActiveTrylock(t) ==
    /\ pc[t] = "try"
    /\ CondMutexIsFree
    /\ IF Available THEN RW!ReadLock(t) /\ Goto(t, "granted")
       ELSE Goto(t, "failed") /\ UNCHANGED rwVars
    /\ UNCHANGED <<flags, socketVars, exitVars, videoVars>>

\* read_lock has returned; cond_mutex is unlocked, and so the client is locked.
Granted(t) ==
    /\ pc[t] = "granted"
    /\ rw[t] = "reading"
    /\ Goto(t, "use")
    /\ UNCHANGED <<flags, socketVars, exitVars, videoVars, rwVars>>

\* client_active_unlock
ClientActiveUnlock(t, next) ==
    /\ pc[t] \in {"use", "used"}
    /\ RW!ReadUnlock(t)
    /\ Goto(t, next)
    /\ UNCHANGED <<flags, socketVars, exitVars, videoVars>>

\* start_deactivating_client: the TCP thread has lost the connection or got a QUIT.
TcpDeactivates ==
    /\ pc["tcp"] = "use"
    /\ CondMutexIsFree
    /\ is_deactivating' = TRUE
    /\ UNCHANGED <<is_active, is_permanently_deactivated, socketVars, exitVars, videoVars, pc, rwVars>>

\* Threads in a loop renew the lock.
Renew(t) == ClientActiveUnlock(t, "lock")

-----------------------------------------------------------------------------
(* The video and the send thread *)

\* send_populated_frames or send_empty_frame, at most once in a turn of the loop
QueueFrame ==
    /\ pc["video"] = "use"
    /\ Goto("video", "wait_consumer")
    /\ UNCHANGED <<flags, socketVars, exitVars, videoVars, rwVars>>

FrameQueued ==
    /\ pc["video"] = "wait_consumer"
    /\ consumer > 0
    /\ consumer' = consumer - 1
    /\ producer' = producer + 1
    /\ Goto("video", "used")
    /\ UNCHANGED <<flags, socketVars, exitVars, run_send, has_frame, rwVars>>

\* The capture device or the encoder has failed.
VideoFails ==
    /\ pc["video"] = "use"
    /\ RW!ReadUnlock("video")
    /\ exiting' = TRUE
    /\ Goto("video", "ended")
    /\ UNCHANGED <<flags, socketVars, leaving, videoVars>>

\* The video thread has left its loop: end the send thread, too.
EndSend ==
    /\ pc["video"] = "ended"
    /\ run_send' = FALSE
    /\ producer' = producer + 1
    /\ Goto("video", "join_send")
    /\ UNCHANGED <<flags, socketVars, exitVars, consumer, has_frame, rwVars>>

VideoDone ==
    /\ pc["video"] = "join_send"
    /\ pc["send"] = "ended"
    /\ Goto("video", "done")
    /\ UNCHANGED <<flags, socketVars, exitVars, videoVars, rwVars>>

\* No new frame: answer nacks, and send duplicates (in the code, once a frame was sent).
Resend ==
    /\ pc["send"] = "idle"
    /\ producer = 0
    /\ Goto("send", "try")
    /\ UNCHANGED <<flags, socketVars, exitVars, videoVars, rwVars>>

TakeFrame ==
    /\ pc["send"] = "idle"
    /\ producer > 0
    /\ producer' = producer - 1
    /\ has_frame' = run_send
    /\ consumer' = IF run_send THEN consumer ELSE consumer + 1
    /\ Goto("send", IF run_send THEN "try" ELSE "ended")
    /\ UNCHANGED <<flags, socketVars, exitVars, run_send, rwVars>>

SendDone == ClientActiveUnlock("send", "failed")

\* Mutation: a frame that came too late to be sent is not marked as sent
KeepsConsumerOut ==
    /\ pc["send"] = "failed"
    /\ has_frame' = FALSE
    /\ consumer' = IF has_frame /\ Available THEN consumer + 1 ELSE consumer
    /\ Goto("send", IF has_frame THEN "reset_counter" ELSE "idle")
    /\ UNCHANGED <<flags, socketVars, exitVars, producer, run_send, rwVars>>

\* With or without a lock, the frame is marked as sent.
MarkSent ==
    /\ pc["send"] = "failed"
    /\ has_frame' = FALSE
    /\ consumer' = IF has_frame THEN consumer + 1 ELSE consumer
    /\ Goto("send", IF has_frame THEN "reset_counter" ELSE "idle")
    /\ UNCHANGED <<flags, socketVars, exitVars, producer, run_send, rwVars>>

\* udp_reset_duplicate_packet_counter uses the context, and no lock is held any more.
ResetCounter ==
    /\ pc["send"] = "reset_counter"
    /\ Goto("send", "idle")
    /\ UNCHANGED <<flags, socketVars, exitVars, videoVars, rwVars>>

-----------------------------------------------------------------------------
(* A D-Bus notification, or graceful_exit from a signal handler *)

Visit(t, isExit) ==
    /\ t \in Visitors
    /\ pc["main"] \notin {"join_visitors", "done"}
    /\ pc[t] = "idle"
    /\ exiting' = (exiting \/ isExit)
    /\ Goto(t, "try")
    /\ UNCHANGED <<flags, socketVars, leaving, videoVars, rwVars>>

VisitDone(t) ==
    /\ t \in Visitors
    /\ \/ ClientActiveUnlock(t, "idle")
       \/ /\ pc[t] = "failed"
          /\ Goto(t, "idle")
          /\ UNCHANGED <<flags, socketVars, exitVars, videoVars, rwVars>>

-----------------------------------------------------------------------------
(* The main thread *)

InLoop == pc["main"] = "loop" /\ ~exiting

\* connect_client makes the socket contexts while nobody can lock the client.
Connect ==
    /\ InLoop /\ ~is_active
    /\ connections < MaxConnections
    /\ connections' = connections + 1
    /\ has_context' = TRUE
    /\ Goto("main", "activate")
    /\ UNCHANGED <<flags, exitVars, videoVars, rwVars>>

\* No client has connected for begin_time_to_exit.
GiveUp ==
    /\ InLoop /\ ~is_active
    /\ exiting' = TRUE
    /\ UNCHANGED <<flags, socketVars, leaving, videoVars, pc, rwVars>>

ActivateClient ==
    /\ pc["main"] = "activate"
    /\ CondMutexIsFree
    /\ is_active' = TRUE
    /\ GotoAndWake("main", "loop")
    /\ UNCHANGED <<is_deactivating, is_permanently_deactivated, socketVars, exitVars, videoVars, rwVars>>

\* start_deactivating_client: UDP has disconnected, or the client has quit.
MainDeactivates ==
    /\ InLoop /\ Available
    /\ CondMutexIsFree
    /\ is_deactivating' = TRUE
    /\ UNCHANGED <<is_active, is_permanently_deactivated, socketVars, exitVars, videoVars, pc, rwVars>>

\* Out of the loop, an active client is deactivated.
Leave ==
    /\ pc["main"] = "loop" /\ exiting
    /\ leaving' = TRUE
    /\ Goto("main", IF is_active THEN "start_deactivating" ELSE "deactivate_permanently")
    /\ UNCHANGED <<flags, socketVars, exiting, videoVars, rwVars>>

StartDeactivating ==
    /\ pc["main"] = "start_deactivating"
    /\ CondMutexIsFree
    /\ is_deactivating' = TRUE
    /\ Goto("main", "deactivate")
    /\ UNCHANGED <<is_active, is_permanently_deactivated, socketVars, exitVars, videoVars, rwVars>>

\* deactivate_client: take the writer's side, and give it back.
Deactivate ==
    /\ pc["main"] = "deactivate" \/ (InLoop /\ is_active /\ is_deactivating)
    /\ RW!WriteLock("main")
    /\ Goto("main", "write_lock")
    /\ UNCHANGED <<flags, socketVars, exitVars, videoVars>>

NobodyHoldsALock ==
    /\ pc["main"] = "write_lock"
    /\ RW!WriteUnlock("main")
    /\ Goto("main", "write_unlock")
    /\ UNCHANGED <<flags, socketVars, exitVars, videoVars>>

\* Mutation: the client stays marked for deactivation
StaysDeactivating ==
    /\ pc["main"] = "write_unlock" /\ rw["main"] = "out"
    /\ CondMutexIsFree
    /\ is_active' = FALSE
    /\ Goto("main", IF leaving THEN "deactivate_permanently" ELSE "disconnect")
    /\ UNCHANGED <<is_deactivating, is_permanently_deactivated, socketVars, exitVars, videoVars, rwVars>>

MarkInactive ==
    /\ pc["main"] = "write_unlock" /\ rw["main"] = "out"
    /\ CondMutexIsFree
    /\ is_deactivating' = FALSE
    /\ is_active' = FALSE
    /\ Goto("main", IF leaving THEN "deactivate_permanently" ELSE "disconnect")
    /\ UNCHANGED <<is_permanently_deactivated, socketVars, exitVars, videoVars, rwVars>>

\* The socket contexts are destroyed, and the loop starts again.
Disconnect ==
    /\ pc["main"] = "disconnect"
    /\ has_context' = FALSE
    /\ Goto("main", "loop")
    /\ UNCHANGED <<flags, connections, exitVars, videoVars, rwVars>>

\* Mutation: nobody is told
DeactivatesSilently ==
    /\ pc["main"] = "deactivate_permanently"
    /\ CondMutexIsFree
    /\ is_permanently_deactivated' = TRUE
    /\ Goto("main", "join")
    /\ UNCHANGED <<is_active, is_deactivating, socketVars, exitVars, videoVars, rwVars>>

PermanentlyDeactivate ==
    /\ pc["main"] = "deactivate_permanently"
    /\ CondMutexIsFree
    /\ is_permanently_deactivated' = TRUE
    /\ GotoAndWake("main", "join")
    /\ UNCHANGED <<is_active, is_deactivating, socketVars, exitVars, videoVars, rwVars>>

\* The threads have ended; whist_destroy_dbus_handler ends the last one.
JoinThreads ==
    /\ pc["main"] = "join"
    /\ pc["video"] = "done" /\ \A t \in Lockers \ {"video"} : pc[t] = "ended"
    /\ Goto("main", "join_visitors")
    /\ UNCHANGED <<flags, socketVars, exitVars, videoVars, rwVars>>

DestroyClient ==
    /\ pc["main"] = "join_visitors"
    /\ \A t \in Visitors : pc[t] = "idle"
    /\ Goto("main", "done")
    /\ UNCHANGED <<flags, socketVars, exitVars, videoVars, rwVars>>

-----------------------------------------------------------------------------
\* A thread gets on inside of read_lock or write_lock.
InRWLock(t) ==
    /\ RW!Continue(t)
    /\ UNCHANGED <<flags, socketVars, exitVars, videoVars, pc>>

WakeUpInRWLock(t) ==
    /\ RW!WakeUp(t)
    /\ UNCHANGED <<flags, socketVars, exitVars, videoVars, pc>>

Lock(t) == ClientActiveLock(t) \/ ClientActiveTrylock(t)

VideoStep == FrameQueued \/ EndSend \/ VideoDone
SendStep == Resend \/ TakeFrame \/ SendDone \/ MarkSent \/ ResetCounter
MainStep ==
    \/ ActivateClient \/ Leave \/ StartDeactivating \/ Deactivate \/ NobodyHoldsALock
    \/ MarkInactive \/ Disconnect \/ PermanentlyDeactivate \/ JoinThreads \/ DestroyClient

\* The server has ended.
Finished == pc["main"] = "done" /\ UNCHANGED vars

Next ==
    \/ \E t \in Threads : InRWLock(t) \/ WakeUpInRWLock(t)
    \/ \E t \in Lockers \cup Triers : Lock(t) \/ Granted(t)
    \/ \E t \in Lockers : WakeUp(t) \/ Renew(t)
    \/ \E t \in Visitors : VisitDone(t) \/ \E isExit \in BOOLEAN : Visit(t, isExit)
    \/ TcpDeactivates
    \/ QueueFrame \/ VideoFails \/ VideoStep \/ SendStep
    \/ Connect \/ GiveUp \/ MainDeactivates \/ MainStep
    \/ Finished

Spec == Init /\ [][Next]_vars

\* Every thread gets on, and renews its lock.  When the main thread asks for a mutex
\* that the others take and give back again and again, it gets it in the end.
Fairness ==
    /\ \A t \in Threads : WF_vars(InRWLock(t))
    /\ \A t \in Lockers \cup Triers : WF_vars(Lock(t)) /\ WF_vars(Granted(t))
    /\ \A t \in Lockers : WF_vars(Renew(t))
    /\ \A t \in Visitors : WF_vars(VisitDone(t))
    /\ WF_vars(VideoStep) /\ WF_vars(SendStep)
    /\ WF_vars(MainStep) /\ SF_vars(StartDeactivating)

FairSpec == Spec /\ Fairness

-----------------------------------------------------------------------------
Holds(t) == pc[t] \in {"use", "wait_consumer", "used"}

ClientPlaces ==
    {"loop", "lock", "wait", "try", "granted", "use", "used", "failed", "ended", "idle", "wait_consumer",
     "join_send", "done", "reset_counter", "activate", "start_deactivating", "deactivate", "write_lock",
     "write_unlock", "disconnect", "deactivate_permanently", "join", "join_visitors"}

\* Every variable has its type; the semaphores never hold more than was put in.
TypeOK ==
    /\ is_active \in BOOLEAN /\ is_deactivating \in BOOLEAN
    /\ is_permanently_deactivated \in BOOLEAN
    /\ connections \in 0 .. MaxConnections /\ has_context \in BOOLEAN
    /\ exiting \in BOOLEAN /\ leaving \in BOOLEAN
    /\ producer \in 0 .. 2 /\ consumer \in 0 .. 2
    /\ run_send \in BOOLEAN /\ has_frame \in BOOLEAN
    /\ pc \in [Threads -> ClientPlaces]
    /\ RW!TypeOK

\* The client stays active, and its sockets exist, as long as somebody holds a client
\* lock.  (This is also what client_active_unlock and start_deactivating_client assert.)
LockedIsActive == \A t \in Threads : Holds(t) => is_active /\ has_context

\* A call to lock the client never sleeps with cond_mutex held: when it gets to
\* read_lock, no deactivation is under way (client_active_trylock: "guaranteed to
\* return promptly").
LockReturnsPromptly == \A t \in Threads : pc[t] = "granted" => rw[t] # "wait_writers"

\* Only a client without a context is given one, and only an inactive client is
\* deactivated for good (the asserts of connect_client and
\* permanently_deactivate_client).
MainAsserts ==
    /\ pc["main"] = "activate" => ~is_active /\ ~is_deactivating /\ has_context
    /\ pc["main"] \in {"write_lock", "write_unlock"} => is_active /\ is_deactivating
    /\ pc["main"] \in {"deactivate_permanently", "join", "join_visitors", "done"} => ~is_active

\* Who holds a client lock uses a client that is active and has its sockets, nobody sleeps in
\* read_lock with cond_mutex held, and the asserts of the main thread hold (client.c:116-215).
ClientLockIsSafe == LockedIsActive /\ LockReturnsPromptly /\ MainAsserts

\* A client marked for deactivation is deactivated, although the video thread may be
\* waiting for the send thread, and others keep coming for locks.
DeactivationEnds == is_deactivating ~> ~is_active

\* When the server is told to exit, all threads end, and the client is destroyed.
ExitEnds == exiting ~> pc["main"] = "done"

\* Nothing of the client is used on other threads once it is inactive (client.h).
ContextUsedWhileActive == pc["send"] = "reset_counter" => has_context
=============================================================================
