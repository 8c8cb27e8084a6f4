---------------------------- MODULE ClipboardSync ----------------------------
(***************************************************************************)
(* The clipboard of the client (macOS) and of the server (X11), kept in    *)
(* step over the TCP connection:                                           *)
(*                                                                         *)
(*   whist/clipboard/clipboard_synchronizer.c  transfers and their threads *)
(*   whist/clipboard/clipboard.c, mac_clipboard.c, x11_clipboard.c         *)
(*                                             the clipboard of the system *)
(*   client/sync_packets.cpp, server/main.c    the loops that call them    *)
(*                                                                         *)
(* A peer's TCP thread alternates between push_clipboard_chunk, with a     *)
(* chunk that came in, and pull_clipboard_chunk, whose chunk it sends.     *)
(* Each transfer has a thread of its own.  clipboard_action_mutex is held  *)
(* for each of those calls, and a thread that is started runs its set-up   *)
(* before the call goes on, so that a call is one step.  A wait on a       *)
(* condition is a guard: each change of the condition is broadcast under   *)
(* the mutex.  clipboard_mutex is a variable, because a read of the X11    *)
(* clipboard holds it while the user goes on copying.                      *)
(*                                                                         *)
(* Thread IDs are taken from a small set and used again once a thread has  *)
(* been joined, as the system does.                                        *)
(***************************************************************************)
EXTENDS Integers, Sequences

CONSTANTS
    Threads,         \* IDs of clipboard threads
    Chunks,          \* chunks of a clipboard's data (CHUNK_SIZE bytes each)
    MaxCopies,       \* bound: copies made by the users, both ends together
    MaxReconnects    \* bound: connections after the first

ASSUME ClipboardAssumption ==
    /\ Threads \subseteq Nat \ {0} /\ Threads # {}
    /\ Chunks \in Nat \ {0}
    /\ MaxCopies \in Nat /\ MaxReconnects \in Nat

Peers == {"client", "server"}
Other(p) == IF p = "client" THEN "server" ELSE "client"

VARIABLES
    os,          \* per peer: content of the system's clipboard, 0 if it has no text or picture
    notices,     \* per peer: changes that has_os_clipboard_updated has still to report
    skip,        \* per peer: skip_next_has_updated
    reader,      \* per peer: the thread that holds clipboard_mutex for a read, 0 if none
    act,         \* per peer: current_clipboard_activity
    thr,         \* per peer and thread: its stack variables and where it is
    setting,     \* per peer: setting_os_clipboard
    queued,      \* per peer: queued_os_clipboard_setter_thread_id
    turn,        \* per peer: what the TCP thread does next
    wire,        \* per peer: chunks on their way to it
    linked,      \* the connection is up
    copies,      \* copies made so far
    reconnects,  \* connections made after the first
    newest       \* per peer: the thread of the latest push that was complete (history)

vars == <<os, notices, skip, reader, act, thr, setting, queued, turn, wire,
          linked, copies, reconnects, newest>>

\* The data of copy number c, chunk by chunk; that of no clipboard is empty.
Data(c) == [i \in 1 .. (IF c = 0 THEN 0 ELSE Chunks) |-> <<c, i>>]
Contents == {Data(c) : c \in 0 .. MaxCopies}

Pieces == (1 .. MaxCopies) \X (1 .. Chunks)
ChunkTypes == {"START", "MIDDLE", "FINAL"}
Idle == [thread |-> 0, type |-> "NONE", published |-> FALSE, start_done |-> FALSE, pulled |-> 0]
Unused == [pc |-> "free", kind |-> "NONE", complete |-> FALSE, aborting |-> FALSE, buffer |-> <<>>]

Init ==
    /\ os = [p \in Peers |-> 0]
    /\ notices = [p \in Peers |-> 0]
    /\ skip = [p \in Peers |-> FALSE]
    /\ reader = [p \in Peers |-> 0]
    /\ act = [p \in Peers |-> Idle]
    /\ thr = [p \in Peers |-> [t \in Threads |-> Unused]]
    /\ setting = [p \in Peers |-> FALSE]
    /\ queued = [p \in Peers |-> 0]
    /\ turn = [p \in Peers |-> "receive"]
    /\ wire = [p \in Peers |-> <<>>]
    /\ linked = TRUE
    /\ copies = 0
    /\ reconnects = 0
    /\ newest = [p \in Peers |-> 0]

-----------------------------------------------------------------------------
(***************************************************************************)
(* The system's clipboard.  X11 queues one event per change; macOS counts  *)
(* changes, and a look at the counter reports all of them at once.         *)
(***************************************************************************)
Noticed(p, n) == IF p = "client" THEN 1 ELSE n + 1
AfterLook(p, n) == IF p = "client" THEN 0 ELSE n - 1

\* The user copies something, or something that is neither text nor picture.
UserCopies(p, c) ==
    /\ copies < MaxCopies
    /\ c \in {0, copies + 1}
    /\ copies' = copies + 1
    /\ os' = [os EXCEPT ![p] = c]
    /\ notices' = [notices EXCEPT ![p] = Noticed(p, @)]
    /\ UNCHANGED <<skip, reader, act, thr, setting, queued, turn, wire, linked, reconnects, newest>>

\* has_os_clipboard_updated: what it returns, and what it leaves behind.
LooksAt(p) == reader[p] = 0 /\ notices[p] > 0
HasUpdated(p) == LooksAt(p) /\ ~skip[p]

Look(p) ==
    IF LooksAt(p)
    THEN /\ notices' = [notices EXCEPT ![p] = AfterLook(p, @)]
         /\ skip' = [skip EXCEPT ![p] = FALSE]
    ELSE UNCHANGED <<notices, skip>>

-----------------------------------------------------------------------------
(***************************************************************************)
(* finish_active_transfer: the threads of peer p once its active transfer  *)
(* is marked as complete or aborted and the finished threads are joined.   *)
(***************************************************************************)
Marked(p, complete) ==
    [t \in Threads |->
        IF t # act[p].thread THEN thr[p][t]
        ELSE IF complete THEN [thr[p][t] EXCEPT !.complete = TRUE]
        ELSE [thr[p][t] EXCEPT !.aborting = TRUE]]

Joined(threads) == [t \in Threads |-> IF threads[t].pc = "done" THEN Unused ELSE threads[t]]

FinishActive(p, complete) == Joined(Marked(p, complete))

\* The transfer that start_clipboard_transfer leaves as the active one.
Transfer(t, type) == [Idle EXCEPT !.thread = t, !.type = type, !.published = (type = "PUSH")]

NewThread(type) ==
    [Unused EXCEPT !.pc = IF type = "PUSH" THEN "wait" ELSE "get", !.kind = type]

\* start_clipboard_transfer, with data as the first content of a push's buffer.
\* The system gives the new thread an ID of no living thread; here the lowest.
Start(p, type, data) ==
    LET left == FinishActive(p, FALSE)
        free == {t \in Threads : left[t].pc = "free"}
    IN  \E t \in free :
            /\ \A u \in free : t <= u
            /\ thr' = [thr EXCEPT ![p] = [left EXCEPT ![t] = [NewThread(type) EXCEPT !.buffer = data]]]
            /\ act' = [act EXCEPT ![p] = Transfer(t, type)]

IsActive(p, type) == act[p].type = type /\ act[p].thread # 0 /\ act[p].published

-----------------------------------------------------------------------------
(***************************************************************************)
(* push_clipboard_chunk, for the chunk at the head of the wire.            *)
(***************************************************************************)
\* Faulty: a START while a push is under way is taken for one more chunk of it.
StartContinues(p, chunk) ==
    IF IsActive(p, "PUSH")
    THEN /\ thr' = [thr EXCEPT ![p][act[p].thread].buffer = @ \o chunk.data]
         /\ UNCHANGED <<act, queued, newest>>
    ELSE /\ Start(p, "PUSH", chunk.data)
         /\ UNCHANGED <<queued, newest>>

\* A START begins a push; the one before it, or a pull, is given up.
PushStart(p, chunk) ==
    /\ Start(p, "PUSH", chunk.data)
    /\ UNCHANGED <<queued, newest>>

Appended(p, chunk) ==
    [thr[p] EXCEPT ![act[p].thread].buffer = @ \o chunk.data]

PushMiddle(p, chunk) ==
    /\ IF IsActive(p, "PUSH")
       THEN thr' = [thr EXCEPT ![p] = Appended(p, chunk)]
       ELSE UNCHANGED thr
    /\ UNCHANGED <<act, queued, newest>>

\* The last chunk queues the thread as the next one to set the clipboard.
PushFinal(p, chunk) ==
    IF IsActive(p, "PUSH")
    THEN /\ thr' = [thr EXCEPT ![p] = FinishActive(p, TRUE)]
         /\ queued' = [queued EXCEPT ![p] = act[p].thread]
         /\ newest' = [newest EXCEPT ![p] = act[p].thread]
         /\ act' = [act EXCEPT ![p] = Idle]
    ELSE UNCHANGED <<thr, queued, newest, act>>

PushChunk(p, chunk) ==
    \/ chunk.type = "START" /\ PushStart(p, chunk)
    \/ chunk.type = "MIDDLE" /\ PushMiddle(p, chunk)
    \/ chunk.type = "FINAL" /\ PushFinal(p, chunk)

\* The TCP threads: a chunk has come in, and the next thing is to pull.
Receive(p) ==
    /\ linked
    /\ turn[p] = "receive"
    /\ wire[p] # <<>>
    /\ PushChunk(p, Head(wire[p]))
    /\ wire' = [wire EXCEPT ![p] = Tail(@)]
    /\ turn' = [turn EXCEPT ![p] = "pull"]
    /\ UNCHANGED <<os, notices, skip, reader, setting, linked, copies, reconnects>>

-----------------------------------------------------------------------------
(***************************************************************************)
(* pull_clipboard_chunk.                                                   *)
(***************************************************************************)
\* A change of the clipboard starts a transfer, whatever is going on.
PullStart(p) ==
    /\ HasUpdated(p)
    /\ Start(p, "PULL", <<>>)
    /\ UNCHANGED wire

Pulled(p) == thr[p][act[p].thread].buffer

ChunkType(p) ==
    IF ~act[p].start_done THEN "START"
    ELSE IF act[p].pulled = Len(Pulled(p)) THEN "FINAL"
    ELSE "MIDDLE"

Chunk(p) ==
    [type |-> ChunkType(p),
     data |-> IF act[p].pulled < Len(Pulled(p)) THEN <<Pulled(p)[act[p].pulled + 1]>> ELSE <<>>]

\* The chunk is sent, unless there is no connection (broadcast_tcp_packet fails).
PullChunk(p) ==
    /\ ~HasUpdated(p)
    /\ IsActive(p, "PULL")
    /\ IF Chunk(p).type = "FINAL"
       THEN /\ act' = [act EXCEPT ![p] = Idle]
            /\ thr' = [thr EXCEPT ![p] = FinishActive(p, TRUE)]
       ELSE /\ act' = [act EXCEPT ![p].start_done = TRUE,
                                  ![p].pulled = @ + Len(Chunk(p).data)]
            /\ UNCHANGED thr
    /\ wire' = IF linked THEN [wire EXCEPT ![Other(p)] = Append(@, Chunk(p))] ELSE wire

PullNothing(p) ==
    /\ ~HasUpdated(p)
    /\ ~IsActive(p, "PULL")
    /\ UNCHANGED <<thr, act, wire>>

\* The second half of the loop, after a chunk was pushed or none had come in.
Pull(p) ==
    /\ linked \/ p = "server"
    /\ Look(p)
    /\ PullStart(p) \/ PullChunk(p) \/ PullNothing(p)
    /\ turn' = [turn EXCEPT ![p] = "receive"]
    /\ UNCHANGED <<os, reader, setting, queued, linked, copies, reconnects, newest>>

-----------------------------------------------------------------------------
(***************************************************************************)
(* pull_clipboard_thread_function.                                         *)
(***************************************************************************)
\* get_os_clipboard asks the owner of the clipboard for its content ...
GetBegins(p, t) ==
    /\ thr[p][t].pc = "get"
    /\ reader[p] = 0
    /\ reader' = [reader EXCEPT ![p] = t]
    /\ thr' = [thr EXCEPT ![p][t].pc = "read", ![p][t].buffer = Data(os[p])]
    /\ UNCHANGED <<os, notices, skip, act, setting, queued, turn, wire, linked, copies, reconnects, newest>>

\* ... and, with X11, drops every event that comes before the answer.
GetEnds(p, t) ==
    /\ thr[p][t].pc = "read"
    /\ reader' = [reader EXCEPT ![p] = 0]
    /\ notices' = [notices EXCEPT ![p] = IF p = "server" THEN 0 ELSE @]
    /\ thr' = [thr EXCEPT ![p][t].pc = "got"]
    /\ UNCHANGED <<os, skip, act, setting, queued, turn, wire, linked, copies, reconnects, newest>>

\* Faulty: the flags are not looked at again once the clipboard has been read.
PublishesLate(p, t) ==
    /\ thr[p][t].pc = "got"
    /\ thr' = [thr EXCEPT ![p][t].pc = "wait"]
    /\ act' = [act EXCEPT ![p].published = TRUE]
    /\ UNCHANGED <<os, notices, skip, reader, setting, queued, turn, wire, linked, copies,
                   reconnects, newest>>

\* The buffer is published, unless the transfer was given up meanwhile.
Publish(p, t) ==
    /\ thr[p][t].pc = "got"
    /\ ~thr[p][t].complete /\ ~thr[p][t].aborting
    /\ thr' = [thr EXCEPT ![p][t].pc = "wait"]
    /\ act' = [act EXCEPT ![p].published = TRUE]
    /\ UNCHANGED <<os, notices, skip, reader, setting, queued, turn, wire, linked, copies,
                   reconnects, newest>>

\* Woken, or given up before; free_clipboard_buffer takes clipboard_mutex.
PullThreadEnds(p, t) ==
    /\ thr[p][t].pc \in {"got", "wait"} /\ thr[p][t].kind = "PULL"
    /\ thr[p][t].complete \/ thr[p][t].aborting
    /\ reader[p] = 0
    /\ thr' = [thr EXCEPT ![p][t].pc = "done"]
    /\ UNCHANGED <<os, notices, skip, reader, act, setting, queued, turn, wire, linked, copies,
                   reconnects, newest>>

-----------------------------------------------------------------------------
(***************************************************************************)
(* push_clipboard_thread_function.                                         *)
(***************************************************************************)
\* Faulty: every complete push sets the clipboard once it is its turn.
SetsInAnyOrder(p, t) == thr[p][t].complete /\ ~setting[p]

\* The thread may set the clipboard, or it was aborted or overtaken.
MaySet(p, t) == thr[p][t].complete /\ queued[p] = t /\ ~setting[p]
MustQuit(p, t) == IF thr[p][t].complete THEN queued[p] # t ELSE thr[p][t].aborting

\* Faulty: the queued ID is left as it is.
KeepsItsPlace(p, t) ==
    /\ thr[p][t].pc = "wait" /\ thr[p][t].kind = "PUSH"
    /\ MaySet(p, t)
    /\ setting' = [setting EXCEPT ![p] = TRUE]
    /\ thr' = [thr EXCEPT ![p][t].pc = "set"]
    /\ UNCHANGED <<os, notices, skip, reader, act, queued, turn, wire, linked, copies, reconnects,
                   newest>>

TakesTurn(p, t) ==
    /\ thr[p][t].pc = "wait" /\ thr[p][t].kind = "PUSH"
    /\ MaySet(p, t)
    /\ setting' = [setting EXCEPT ![p] = TRUE]
    /\ queued' = [queued EXCEPT ![p] = 0]
    /\ thr' = [thr EXCEPT ![p][t].pc = "set"]
    /\ UNCHANGED <<os, notices, skip, reader, act, turn, wire, linked, copies, reconnects, newest>>

Quits(p, t) ==
    /\ thr[p][t].pc = "wait" /\ thr[p][t].kind = "PUSH"
    /\ MustQuit(p, t)
    /\ thr' = [thr EXCEPT ![p][t].aborting = TRUE, ![p][t].pc = "done"]
    /\ UNCHANGED <<os, notices, skip, reader, act, setting, queued, turn, wire, linked, copies,
                   reconnects, newest>>

\* set_os_clipboard; data that is neither text nor picture changes nothing.
SetOs(p, t) ==
    /\ thr[p][t].pc = "set"
    /\ reader[p] = 0
    /\ IF thr[p][t].buffer = <<>>
       THEN UNCHANGED <<os, notices>>
       ELSE /\ os' = [os EXCEPT ![p] = thr[p][t].buffer[1][1]]
            /\ notices' = [notices EXCEPT ![p] = Noticed(p, @)]
    /\ skip' = [skip EXCEPT ![p] = TRUE]
    /\ thr' = [thr EXCEPT ![p][t].pc = "unset"]
    /\ UNCHANGED <<reader, act, setting, queued, turn, wire, linked, copies, reconnects, newest>>

\* Faulty: setting_os_clipboard is not reset.
SetNeverEnds(p, t) ==
    /\ thr[p][t].pc = "unset"
    /\ thr' = [thr EXCEPT ![p][t].pc = "done"]
    /\ UNCHANGED <<os, notices, skip, reader, act, setting, queued, turn, wire, linked, copies,
                   reconnects, newest>>

SetEnds(p, t) ==
    /\ thr[p][t].pc = "unset"
    /\ setting' = [setting EXCEPT ![p] = FALSE]
    /\ thr' = [thr EXCEPT ![p][t].pc = "done"]
    /\ UNCHANGED <<os, notices, skip, reader, act, queued, turn, wire, linked, copies, reconnects, newest>>

-----------------------------------------------------------------------------
(***************************************************************************)
(* The client loses the connection, ends its TCP thread and destroys its   *)
(* synchronizer; the server's lives on.  Then the client starts anew.      *)
(***************************************************************************)
Disconnect ==
    /\ linked
    /\ reconnects < MaxReconnects
    /\ linked' = FALSE
    /\ wire' = [p \in Peers |-> <<>>]
    /\ thr' = [thr EXCEPT !["client"] = FinishActive("client", FALSE)]
    /\ act' = [act EXCEPT !["client"] = Idle]
    /\ UNCHANGED <<os, notices, skip, reader, setting, queued, turn, copies, reconnects, newest>>

\* destroy_clipboard_synchronizer has joined every thread; init runs again.
Reconnect ==
    /\ ~linked
    /\ \A t \in Threads : thr["client"][t].pc \in {"free", "done"}
    /\ linked' = TRUE
    /\ reconnects' = reconnects + 1
    /\ thr' = [thr EXCEPT !["client"] = Joined(@)]
    /\ setting' = [setting EXCEPT !["client"] = FALSE]
    /\ queued' = [queued EXCEPT !["client"] = 0]
    /\ turn' = [turn EXCEPT !["client"] = "receive"]
    /\ UNCHANGED <<os, notices, skip, reader, act, wire, copies, newest>>

-----------------------------------------------------------------------------
ThreadSteps(p, t) ==
    \/ GetBegins(p, t) \/ GetEnds(p, t) \/ Publish(p, t) \/ PullThreadEnds(p, t)
    \/ TakesTurn(p, t) \/ Quits(p, t) \/ SetOs(p, t) \/ SetEnds(p, t)

TcpLoop(p) == Receive(p) \/ Pull(p)

Next ==
    \/ \E p \in Peers : TcpLoop(p)
    \/ \E p \in Peers, t \in Threads : ThreadSteps(p, t)
    \/ \E p \in Peers, c \in 0 .. MaxCopies : UserCopies(p, c)
    \/ Disconnect
    \/ Reconnect

(***************************************************************************)
(* Each thread goes on, the loops turn, what was sent arrives, and the     *)
(* client comes back.  Users need not copy and connections need not fail.  *)
(***************************************************************************)
Fairness ==
    /\ \A p \in Peers : WF_vars(Pull(p)) /\ SF_vars(Receive(p))
    /\ \A p \in Peers, t \in Threads : WF_vars(ThreadSteps(p, t))
    /\ WF_vars(Reconnect)

Spec == Init /\ [][Next]_vars /\ Fairness

-----------------------------------------------------------------------------
TypeOK ==
    /\ os \in [Peers -> 0 .. MaxCopies]
    /\ notices \in [Peers -> Nat]
    /\ skip \in [Peers -> BOOLEAN]
    /\ reader \in [Peers -> Threads \cup {0}]
    /\ act \in [Peers -> [thread : Threads \cup {0}, type : {"NONE", "PUSH", "PULL"},
                          published : BOOLEAN, start_done : BOOLEAN, pulled : 0 .. Chunks]]
    /\ thr \in [Peers -> [Threads ->
                   [pc : {"free", "get", "read", "got", "wait", "set", "unset", "done"},
                    kind : {"NONE", "PUSH", "PULL"}, complete : BOOLEAN, aborting : BOOLEAN,
                    buffer : Seq(Pieces)]]]
    /\ setting \in [Peers -> BOOLEAN]
    /\ queued \in [Peers -> Threads \cup {0}]
    /\ turn \in [Peers -> {"receive", "pull"}]
    /\ wire \in [Peers -> Seq([type : ChunkTypes, data : Seq(Pieces)])]
    /\ linked \in BOOLEAN
    /\ copies \in 0 .. MaxCopies
    /\ reconnects \in 0 .. MaxReconnects
    /\ newest \in [Peers -> Threads \cup {0}]

Given(p) == act[p].thread

\* The pointers of current_clipboard_activity lead to the stack of the active
\* thread: while they are set, that thread has neither ended nor been told to,
\* and a published buffer is one that is there.  A thread that was given up
\* while it still read the clipboard comes late and must not set them again.
PointersAreLive == \A p \in Peers :
    /\ Given(p) # 0 =>
        LET t == thr[p][Given(p)]
        IN  /\ t.pc \in {"get", "read", "got", "wait"}
            /\ ~t.complete /\ ~t.aborting
            /\ t.kind = act[p].type
            /\ act[p].published => t.pc = "wait"
    /\ Given(p) = 0 => ~act[p].published

\* Whatever was interrupted on either side, by copies, by the other's chunks or
\* by a lost connection: what a thread is to put on the system's clipboard is
\* the whole of one copy, never the head of one and the tail of another.
WholeCopiesAreSet == \A p \in Peers, t \in Threads :
    thr[p][t].kind = "PUSH" /\ thr[p][t].complete => thr[p][t].buffer \in Contents

\* The queued ID is that of a living push that is complete and still waits: an
\* ID that the system uses again never inherits the place of a dead thread.
\* And at most one thread writes the clipboard at a time.
QueuedSetterWaits == \A p \in Peers :
    /\ queued[p] # 0 => LET t == thr[p][queued[p]]
                        IN  t.kind = "PUSH" /\ t.pc = "wait" /\ t.complete
    /\ \A t, u \in Threads : thr[p][t].pc \in {"set", "unset"} /\ thr[p][u].pc \in {"set", "unset"} => t = u

\* Setters of the clipboard are given whole copies and wait for their turn, one of them at a
\* time (clipboard_synchronizer.c:319-380).
SettersAreSafe == WholeCopiesAreSet /\ QueuedSetterWaits

\* Pushes that are complete write the clipboard in the order in which they were
\* completed: a thread that starts to write has not been overtaken.
NewestPushSets == [][\A p \in Peers, t \in Threads :
    thr[p][t].pc # "set" /\ thr'[p][t].pc = "set" => newest[p] = t]_vars

\* Once the users stop copying, everything comes to rest: no push waits for its
\* turn for good, and the peers do not go on sending each other the same
\* clipboard, although skip_next_has_updated is only a flag and two writes in a
\* row make a peer send the second one back.
TransfersSettle == <>[](\A p \in Peers : wire[p] = <<>> /\ queued[p] = 0)

\* Copies are set in their order, and then everything comes to rest
\* (clipboard_synchronizer.c:177-449).
CopiesSettle == NewestPushSets /\ TransfersSettle
=============================================================================
