------------------------------ MODULE NackRepair ------------------------------
(***************************************************************************)
(* The repair of lost video segments by nacks:                             *)
(*                                                                         *)
(*   whist/network/ringbuffer.c  try_nacking, at the client                *)
(*   whist/network/udp.cpp       the nack buffers, the nack queue and the  *)
(*                               relay of what was asked for, at the server*)
(*   server/video.c              the thread that sends video               *)
(*                                                                         *)
(* UDP loses in both directions and reorders segments; what was repaired   *)
(* or repeated arrives twice.  Every frame has Segments segments and no    *)
(* redundancy (module RingBuffer has that, and the slots of the ring).     *)
(*                                                                         *)
(* nack_mutex is held while a segment is written into the nack buffer, the *)
(* pending nacks are served and the segment is sent: one step.             *)
(***************************************************************************)
EXTENDS Integers, Sequences, FiniteSets

CONSTANTS
    MaxId,        \* bound: frames
    Segments,     \* segments of a frame
    Buffers,      \* VIDEO_NACKBUFFER_SIZE
    MaxNacks,     \* MAX_PACKET_NACKS
    NackBehind,   \* the "5" of try_nacking
    Unordered,    \* max_unordered_packets
    Recovery,     \* the frames that are recovery points
    MaxLosses     \* bound: what the network loses

Ids == 1 .. MaxId
Indices == 0 .. Segments - 1
Whole == -1       \* the index of a nack for all of a frame
QueueSize == Buffers * Segments   \* of nack_queue

RepairAssumption ==
    /\ MaxId \in Nat /\ Segments \in Nat \ {0} /\ Buffers \in Nat \ {0}
    /\ MaxNacks \in Nat /\ NackBehind \in Nat /\ Unordered \in Nat
    /\ Recovery \subseteq Ids /\ MaxLosses \in Nat

VARIABLES
    newest,       \* the frame that is being sent, or was sent last
    index,        \* its next segment, Segments if all are sent
    buffer,       \* nack_buffers: per slot and index the ID of the segment, 0 if not valid
    nack_queue,
    net,          \* segments on their way to the client
    nacks,        \* nacks on their way to the server
    got,          \* per frame: the segments that the client has
    min_id,       \* the first frame of which the client has a segment, -1 for none
    max_id,       \* the last one
    whole,        \* per frame: num_entire_frame_nacked
    last,         \* last_rendered_id
    losses,       \* what the network has lost
    aborted       \* udp_handle_nack's FATAL_ASSERT(0 < packet_id) was hit

vars == <<newest, index, buffer, nack_queue, net, nacks, got, min_id, max_id, whole, last, losses, aborted>>

Init ==
    /\ newest = 0
    /\ index = Segments
    /\ buffer = [s \in 0 .. Buffers - 1 |-> [k \in Indices |-> 0]]
    /\ nack_queue = <<>>
    /\ net = {}
    /\ nacks = {}
    /\ got = [id \in Ids |-> {}]
    /\ min_id = -1
    /\ max_id = -1
    /\ whole = [id \in 0 .. MaxId |-> 0]
    /\ last = -1
    /\ losses = 0
    /\ aborted = FALSE

Larger(a, b) == IF a >= b THEN a ELSE b
SlotOf(id) == id % Buffers

-----------------------------------------------------------------------------
(***************************************************************************)
(* The server.                                                             *)
(***************************************************************************)
\* Faulty: the last queued nack is thrown away with the queue.
LeavesOneOut(b, queue) ==
    {queue[i] : i \in {j \in 1 .. Len(queue) - 1 : b[SlotOf(queue[j][1])][queue[j][2]] = queue[j][1]}}

\* udp_handle_nack for each queued nack: the segment is relayed if the buffer
\* still holds it.
Relayed(b, queue) ==
    {queue[i] : i \in {j \in DOMAIN queue : b[SlotOf(queue[j][1])][queue[j][2]] = queue[j][1]}}

Asserts(queue) == aborted' = (aborted \/ \E i \in DOMAIN queue : queue[i][1] <= 0)

BeginFrame ==
    /\ index = Segments
    /\ newest < MaxId
    /\ newest' = newest + 1
    /\ index' = 0
    /\ UNCHANGED <<buffer, nack_queue, net, nacks, got, min_id, max_id, whole, last, losses, aborted>>

SendSegment ==
    /\ index < Segments
    /\ buffer' = [buffer EXCEPT ![SlotOf(newest)][index] = newest]
    /\ net' = net \cup Relayed(buffer', nack_queue) \cup {<<newest, index>>}
    /\ Asserts(nack_queue)
    /\ nack_queue' = <<>>
    /\ index' = index + 1
    /\ UNCHANGED <<newest, nacks, got, min_id, max_id, whole, last, losses>>

\* Between two frames the thread serves nacks.
ServeNacks ==
    /\ index = Segments
    /\ nack_queue # <<>>
    /\ net' = net \cup Relayed(buffer, nack_queue)
    /\ Asserts(nack_queue)
    /\ nack_queue' = <<>>
    /\ UNCHANGED <<newest, index, buffer, nacks, got, min_id, max_id, whole, last, losses>>

\* Without nacks to serve it repeats segments of the last frame (saturate_bandwidth).
Duplicate ==
    /\ index = Segments
    /\ nack_queue = <<>> /\ net = {}
    /\ newest > 0
    /\ \E k \in Indices : net' = net \cup {<<newest, k>>}
    /\ UNCHANGED <<newest, index, buffer, nack_queue, nacks, got, min_id, max_id, whole, last, losses, aborted>>

\* fifo_queue_enqueue_item: what does not fit is dropped.
Upto(s, n) == IF Len(s) <= n THEN s ELSE SubSeq(s, 1, n)
Enqueued(queue, items) == Upto(queue \o items, QueueSize)

\* udp_handle_message of the main thread.  A nack for a whole frame is one for
\* each of its segments, if the buffer still holds its first one.  Nacks are taken
\* in the order they were sent; all that are queued are served together, so that
\* another order would only change what a full queue drops.
HandleNack(n) ==
    /\ n \in nacks
    /\ \A m \in nacks : n[1] < m[1] \/ (n[1] = m[1] /\ n[2] <= m[2])
    /\ nacks' = nacks \ {n}
    /\ nack_queue' =
          IF n[2] # Whole THEN Enqueued(nack_queue, <<n>>)
          ELSE IF buffer[SlotOf(n[1])][0] = n[1]
          THEN Enqueued(nack_queue, [i \in 1 .. Segments |-> <<n[1], i - 1>>])
          ELSE nack_queue
    /\ UNCHANGED <<newest, index, buffer, net, got, min_id, max_id, whole, last, losses, aborted>>

-----------------------------------------------------------------------------
(***************************************************************************)
(* The network and the client.                                             *)
(***************************************************************************)
LoseSegment(p) ==
    /\ p \in net
    /\ losses < MaxLosses
    /\ net' = net \ {p}
    /\ losses' = losses + 1
    /\ UNCHANGED <<newest, index, buffer, nack_queue, nacks, got, min_id, max_id, whole, last, aborted>>

LoseNack(n) ==
    /\ n \in nacks
    /\ losses < MaxLosses
    /\ nacks' = nacks \ {n}
    /\ losses' = losses + 1
    /\ UNCHANGED <<newest, index, buffer, nack_queue, net, got, min_id, max_id, whole, last, aborted>>

ReceiveSegment(p) ==
    /\ p \in net
    /\ net' = net \ {p}
    /\ IF p[1] <= last THEN UNCHANGED <<got, min_id, max_id>>
       ELSE /\ got' = [got EXCEPT ![p[1]] = @ \cup {p[2]}]
            /\ max_id' = Larger(max_id, p[1])
            /\ min_id' = IF min_id = -1 \/ p[1] < min_id THEN p[1] ELSE min_id
    /\ UNCHANGED <<newest, index, buffer, nack_queue, nacks, whole, last, losses, aborted>>

Complete(id) == got[id] = Indices

\* udp_get_packet: the next frame, or a later recovery point.
Play(id) ==
    /\ Complete(id)
    /\ id > last
    /\ id \in Recovery \/ (last # -1 /\ id = last + 1)
    /\ last' = id
    /\ UNCHANGED <<newest, index, buffer, nack_queue, net, nacks, got, min_id, max_id, whole, losses, aborted>>

\* Faulty: the first frame that was seen does not matter.
NacksFromBefore == IF last = -1 THEN Larger(max_id - NackBehind, 0) ELSE last + 1

FirstToNack == IF last = -1 THEN Larger(max_id - NackBehind, min_id) ELSE last + 1

\* How many of a frame's last segments may still be under way out of order.
Slack(id) ==
    LET between == {p \in (id + 1 .. max_id - 1) \X Indices : p[2] \in got[p[1]]}
    IN  Larger(Unordered - Cardinality(between), 0)

LastReceived(id) == CHOOSE k \in got[id] : \A j \in got[id] : j <= k

\* The last index that is taken for missing; of the newest frame more may come.
NackUpTo(id) == (IF id < max_id THEN Segments - 1 ELSE LastReceived(id)) - Slack(id)

\* A frame of which nothing has come is asked for as a whole, MaxNacks times.
MissingOf(id) ==
    IF id \in Ids /\ got[id] # {} THEN {<<id, k>> : k \in (0 .. NackUpTo(id)) \ got[id]}
    ELSE IF whole[id] < MaxNacks THEN {<<id, Whole>>} ELSE {}

Asked == IF min_id = -1 THEN {} ELSE UNION {MissingOf(id) : id \in FirstToNack .. max_id}

\* Everything that is missing is asked for, and again after a round trip.  (That
\* the bitrate of nacks is limited looks to the server like the loss of some.)
TryNacking ==
    /\ nacks = {}
    /\ LET asked == Asked IN
        /\ asked # {}
        /\ nacks' = asked
        /\ whole' = [id \in 0 .. MaxId |-> IF <<id, Whole>> \in asked THEN whole[id] + 1 ELSE whole[id]]
    /\ UNCHANGED <<newest, index, buffer, nack_queue, net, got, min_id, max_id, last, losses, aborted>>

-----------------------------------------------------------------------------
Server == BeginFrame \/ SendSegment \/ ServeNacks \/ Duplicate

Next ==
    \/ Server
    \/ \E n \in nacks : HandleNack(n) \/ LoseNack(n)
    \/ \E p \in net : LoseSegment(p) \/ ReceiveSegment(p)
    \/ \E id \in Ids : Play(id)
    \/ TryNacking

\* The threads run, and what is not lost arrives.
Fairness ==
    /\ WF_vars(SendSegment) /\ WF_vars(ServeNacks) /\ WF_vars(TryNacking)
    /\ WF_vars(\E n \in nacks : HandleNack(n))
    /\ WF_vars(\E p \in net : ReceiveSegment(p))

Spec == Init /\ [][Next]_vars /\ Fairness

-----------------------------------------------------------------------------
\* No nack makes the server abort: the client only ever asks for frames whose IDs
\* the server has used, also before it has played anything.
NacksAreAnswerable == ~aborted /\ \A n \in nacks : n[1] \in 1 .. newest

\* The nack buffer no longer holds the segment.
Overwritten(id, k) == buffer[SlotOf(id)][k] > id

\* What the client asks for and the server can still relay.
Owed == {p \in Asked : p[2] # Whole /\ ~Overwritten(p[1], p[2])}

\* Repair catches up: time and again nothing is owed, however the segments, the
\* nacks and the repairs are lost and whatever waits in the nack queue for frames
\* whose buffer was used again.
RepairCompletes == []<>(Owed = {})
=============================================================================
