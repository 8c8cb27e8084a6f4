----------------------------- MODULE RingBuffer -----------------------------
(***************************************************************************)
(* The client's frame ring buffer (protocol/whist/network/ringbuffer.c)    *)
(* and the function that takes frames out of it, udp_get_packet            *)
(* (protocol/whist/network/udp.cpp).                                       *)
(*                                                                         *)
(* The server splits frame `id` into segments 0..NumIndices(id)-1, the     *)
(* first Original[id] of them data and the other Fec[id] redundancy.       *)
(* UDP loses, duplicates and reorders segments: any segment of a frame     *)
(* that was sent may arrive at any time, or never.  The client's UDP       *)
(* thread is the only one that touches the ring buffer, so each function   *)
(* is one action.                                                          *)
(*                                                                         *)
(* A failing FATAL_ASSERT or LOG_FATAL ends the process: `aborted`.        *)
(***************************************************************************)
EXTENDS Integers, FiniteSets

CONSTANTS
    Type,           \* PACKET_VIDEO, PACKET_AUDIO or PACKET_GPU
    Size,           \* ring_buffer_size
    MaxId,          \* bound: the last frame the server sends
    Original,       \* num_original_packets of each frame
    Fec,            \* num_fec_packets of each frame
    TooLarge,       \* <<id, index>>: does not fit in largest_frame_size
    MaxDelay,       \* how many frames behind the newest a segment arrives
    InitialFrames,  \* INITIAL_FRAMES, what audio starts with
    ScanSlack,      \* the "10" of udp_get_packet's video scan
    NackBehind      \* the "5" of try_nacking, for a stream that has not started

Ids == 1 .. MaxId
Slots == 0 .. Size - 1
Types == {"video", "audio", "gpu"}

ASSUME TypeAssumption == Type \in Types
ASSUME SizeAssumption == Size \in Nat \ {0} /\ MaxId \in Nat
ASSUME FrameAssumption ==
    /\ Original \in [Ids -> Nat \ {0}]
    /\ Fec \in [Ids -> Nat]
    /\ TooLarge \subseteq Ids \X Nat
ASSUME BoundAssumption ==
    /\ MaxDelay \in Nat
    /\ InitialFrames \in Nat \ {0}
    /\ ScanSlack \in Nat
    /\ NackBehind \in Nat

VARIABLES
    slots,                     \* receiving_frames
    currently_rendering_id,
    last_rendered_id,
    min_id,
    max_id,
    num_pending_ready_frames,
    newest,                    \* the last frame the server has sent
    recovery,                  \* the frames sent as I-frames or LTR references
    aborted                    \* a FATAL_ASSERT or LOG_FATAL was hit

bufferVars == <<slots, currently_rendering_id, last_rendered_id, min_id, max_id,
                num_pending_ready_frames>>
vars == <<bufferVars, newest, recovery, aborted>>

Larger(a, b) == IF a >= b THEN a ELSE b
Smaller(a, b) == IF a <= b THEN a ELSE b

-----------------------------------------------------------------------------
(* Frames *)

NumIndices(id) == Original[id] + Fec[id]
Indices(id) == 0 .. NumIndices(id) - 1

\* FrameData: `got` is received_indices, `buf` says that packet_buffer (and with
\* it the FEC buffers) is allocated, `rec` is successful_fec_recovery and `fb`
\* says that frame_buffer is set.
FrameData == [id : {0} \cup Ids, got : SUBSET Nat, buf : BOOLEAN, rec : BOOLEAN, fb : BOOLEAN]

\* Mutation: slots are marked free by the ID -1, as init_ring_buffer does
FreeIsMinusOne == [id |-> -1, got |-> {}, buf |-> FALSE, rec |-> FALSE, fb |-> FALSE]

\* A slot that was memset to 0.  Frame IDs start at 1.
Empty == [id |-> 0, got |-> {}, buf |-> FALSE, rec |-> FALSE, fb |-> FALSE]

\* init_frame
Fresh(id) == [id |-> id, got |-> {}, buf |-> TRUE, rec |-> FALSE, fb |-> FALSE]

\* Mutation: the frame_buffer pointer is left behind
KeepsFrameBuffer(f) == [f EXCEPT !.buf = FALSE]

\* What reset_frame and the hand-over in set_rendering leave behind: the buffers
\* are gone, the ID and what was received stay.
Released(f) == [f EXCEPT !.buf = FALSE, !.fb = FALSE]

SlotOf(id) == id % Size
FrameAt(id) == slots[SlotOf(id)]

\* Enough segments that fit have come in to decode the frame: the code is a
\* maximum distance separable one.
Decodable(id, got) ==
    Cardinality({k \in got : <<id, k>> \notin TooLarge}) >= Original[id]

\* Mutation: the last segment is not waited for
AllButTheLast(f) ==
    /\ f.buf
    /\ IF Fec[f.id] > 0 THEN f.rec ELSE (0 .. Original[f.id] - 2) \subseteq f.got

\* get_framebuffer() # NULL
HasFramebuffer(f) ==
    /\ f.buf
    /\ IF Fec[f.id] > 0 THEN f.rec ELSE (0 .. Original[f.id] - 1) \subseteq f.got

\* The frame that is_ready_to_render finds at `id`, out of the slots `sl`
Ready(sl, id) == sl[SlotOf(id)].id = id /\ HasFramebuffer(sl[SlotOf(id)])

\* is_ready_to_render stores the frame buffer it finds ...
Refreshed(sl, ids) ==
    [s \in Slots |->
        IF sl[s].id \in ids THEN [sl[s] EXCEPT !.fb = HasFramebuffer(sl[s])] ELSE sl[s]]

\* ... and asserts that a frame that was played has none.
PlayedFrameHasBuffer(sl, ids) ==
    \E s \in Slots :
        /\ sl[s].id \in ids
        /\ sl[s].id <= currently_rendering_id
        /\ sl[s].fb \/ HasFramebuffer(sl[s])

-----------------------------------------------------------------------------
Init ==
    /\ slots = [s \in Slots |-> Empty]
    /\ currently_rendering_id = -1
    /\ last_rendered_id = -1
    /\ min_id = -1
    /\ max_id = -1
    /\ num_pending_ready_frames = 0
    /\ newest = 0
    /\ recovery = {}
    /\ aborted = FALSE

\* The server sends its next frame.  A video frame is a recovery point or not.
SendFrame(isRecovery) ==
    /\ ~aborted
    /\ isRecovery => Type = "video"
    /\ newest < MaxId
    /\ newest' = newest + 1
    /\ recovery' = IF isRecovery THEN recovery \cup {newest'} ELSE recovery
    /\ UNCHANGED <<bufferVars, aborted>>

-----------------------------------------------------------------------------
(* ring_buffer_receive_segment *)

\* The asserts that segment k of frame id meets on its way into FrameData f
DepositFails(f, id, k) ==
    /\ k \notin f.got
    /\ IF id <= currently_rendering_id
         THEN f.fb \/ HasFramebuffer(f)
         ELSE <<id, k>> \notin TooLarge /\ ~f.buf

\* A segment that is late or too large is marked as received and dropped.
Deposit(f, id, k) ==
    LET marked == [f EXCEPT !.got = @ \cup {k}, !.fb = HasFramebuffer(f)]
        copied == [marked EXCEPT !.rec = @ \/ (Fec[id] > 0 /\ Decodable(id, marked.got))]
    IN  IF k \in f.got THEN f
        ELSE IF id <= currently_rendering_id \/ <<id, k>> \in TooLarge THEN marked
        ELSE [copied EXCEPT !.fb = HasFramebuffer(copied)]

\* Mutation: a frame that was already ready is counted again
CountsTwice(sl, pending, resident, id, k) ==
    LET filled == Deposit(resident, id, k) IN
    /\ aborted' = DepositFails(resident, id, k)
    /\ slots' = [sl EXCEPT ![SlotOf(id)] = filled]
    /\ num_pending_ready_frames' = pending + IF k \notin resident.got /\ filled.fb THEN 1 ELSE 0

\* Put segment k of frame id into `resident`, the FrameData of its slot, with
\* the other slots and the count of ready frames as given.
Store(sl, pending, resident, id, k) ==
    LET filled == Deposit(resident, id, k) IN
    /\ aborted' = DepositFails(resident, id, k)
    /\ slots' = [sl EXCEPT ![SlotOf(id)] = filled]
    /\ num_pending_ready_frames' =
          pending + IF k \notin resident.got /\ filled.fb /\ ~HasFramebuffer(resident)
                      THEN 1 ELSE 0

\* A segment of a frame that was sent, at most MaxDelay frames late
Arrives(id, k) ==
    /\ ~aborted
    /\ id \in newest - MaxDelay .. newest
    /\ k \in Indices(id)
    /\ UNCHANGED <<currently_rendering_id, newest, recovery>>

\* The slot is held by a frame that is still to be played.
WouldOverflow(id) ==
    FrameAt(id).id < id /\ FrameAt(id).buf /\ FrameAt(id).id > currently_rendering_id

\* Mutation: late packets of skipped frames are not ignored
TakesSkipped(id) == FALSE

\* A frame that the stream has caught up beyond is not wanted any more.
AlreadySkipped(id) == id <= last_rendered_id

ReceiveStale(id, k) ==
    /\ Arrives(id, k)
    /\ id < FrameAt(id).id
    /\ UNCHANGED <<slots, last_rendered_id, min_id, max_id, num_pending_ready_frames, aborted>>

ReceiveKnown(id, k) ==
    /\ Arrives(id, k)
    /\ id = FrameAt(id).id
    /\ Store(slots, num_pending_ready_frames, FrameAt(id), id, k)
    /\ UNCHANGED <<last_rendered_id, min_id, max_id>>

\* The occupant is older than what is played: it is dropped for the new frame,
\* unless the new frame is itself one that was skipped.
ReceiveNew(id, k) ==
    /\ Arrives(id, k)
    /\ FrameAt(id).id < id
    /\ ~WouldOverflow(id)
    /\ LET cleared == [slots EXCEPT ![SlotOf(id)] = Released(@)]
           pending == num_pending_ready_frames
                        - IF FrameAt(id).buf /\ FrameAt(id).fb THEN 1 ELSE 0
       IN  IF AlreadySkipped(id)
             THEN /\ slots' = cleared
                  /\ num_pending_ready_frames' = pending
                  /\ UNCHANGED <<min_id, max_id, aborted>>
             ELSE /\ Store(cleared, pending, Fresh(id), id, k)
                  /\ max_id' = Larger(max_id, id)
                  /\ min_id' = IF min_id = -1 THEN id ELSE Smaller(min_id, id)
    /\ UNCHANGED last_rendered_id

\* Every slot is logged, and with it checked, before reset_ring_buffer drops
\* everything but the frame being rendered.
ReceiveOverflow(id, k) ==
    /\ Arrives(id, k)
    /\ WouldOverflow(id)
    /\ IF PlayedFrameHasBuffer(slots, {slots[s].id : s \in Slots})
         THEN /\ aborted' = TRUE
              /\ UNCHANGED bufferVars
         ELSE /\ Store([s \in Slots |-> Empty], 0, Fresh(id), id, k)
              /\ last_rendered_id' = -1
              /\ max_id' = id
              /\ min_id' = id

-----------------------------------------------------------------------------
(* udp_get_packet *)

\* Mutation: ready frames are dropped without being discounted
DropsUncounted(st, id) ==
    LET old == {s \in Slots : st.slots[s].buf /\ st.slots[s].id < id}
    IN  IF id <= st.last THEN st
        ELSE [slots   |-> [s \in Slots |-> IF s \in old THEN Released(st.slots[s]) ELSE st.slots[s]],
              pending |-> st.pending,
              last    |-> id - 1]

\* reset_stream: skip to frame id by dropping every older frame.  `st` is a
\* record of the slots, the pending count and last_rendered_id.
ResetStream(st, id) ==
    LET old == {s \in Slots : st.slots[s].buf /\ st.slots[s].id < id}
    IN  IF id <= st.last THEN st
        ELSE [slots   |-> [s \in Slots |-> IF s \in old THEN Released(st.slots[s]) ELSE st.slots[s]],
              pending |-> st.pending - Cardinality({s \in old : st.slots[s].fb}),
              last    |-> id - 1]

\* The buffer after is_ready_to_render was called for the frames ids
Scanned(ids) == [slots   |-> Refreshed(slots, ids),
                 pending |-> num_pending_ready_frames,
                 last    |-> last_rendered_id]

\* The end of udp_get_packet: set_rendering of the next frame if it is ready.
\* `scanned` are the frames that is_ready_to_render was called for before.
PlayNext(st, scanned) ==
    LET next == st.last + 1
        seen == Refreshed(st.slots, {next})
    IN  /\ IF PlayedFrameHasBuffer(slots, scanned) \/ PlayedFrameHasBuffer(st.slots, {next})
             THEN aborted' = TRUE /\ UNCHANGED bufferVars
             ELSE /\ IF Ready(seen, next)
                       THEN /\ slots' = [seen EXCEPT ![SlotOf(next)] = Released(@)]
                            /\ num_pending_ready_frames' = st.pending - 1
                            /\ currently_rendering_id' = next
                            /\ last_rendered_id' = next
                       ELSE /\ slots' = seen
                            /\ num_pending_ready_frames' = st.pending
                            /\ last_rendered_id' = st.last
                            /\ UNCHANGED currently_rendering_id
                  /\ UNCHANGED <<min_id, max_id, aborted>>
        /\ UNCHANGED <<newest, recovery>>

\* Mutation: any ready frame is skipped to
SkipsToAnyFrame(i) == Ready(slots, i)

IsRecoveryPoint(i) == Ready(slots, i) /\ i \in recovery

\* Mutation: the size of the ring is left out of the bound
SearchesSlackOnly == max_id - ScanSlack

\* The oldest frame that is looked at, however little was played
SearchFloor == max_id - Size - ScanSlack

\* Video skips to the newest recovery point that is ready.
GetVideoPacket ==
    /\ ~aborted
    /\ Type = "video"
    /\ LET window == Larger(Larger(0, last_rendered_id + 1), SearchFloor) .. max_id
           hits == {i \in window : IsRecoveryPoint(i)}
       IN  \/ /\ hits = {}
              /\ PlayNext(Scanned(window), window)
           \/ \E i \in hits :
                /\ \A j \in hits : j <= i
                /\ PlayNext(ResetStream(Scanned(i .. max_id), i), i .. max_id)

\* Audio starts InitialFrames behind the newest frame ...
StartAudio ==
    /\ ~aborted
    /\ Type = "audio"
    /\ last_rendered_id = -1
    /\ PlayNext(IF max_id > InitialFrames
                  THEN ResetStream(Scanned({}), max_id - InitialFrames + 1)
                  ELSE Scanned({}), {})

\* Mutation: a blocked stream only looks at how far it is behind
IgnoresAge(i, old) == max_id >= i + 2

\* How long a ready frame waits for the ones before it
HasWaited(i, old) == max_id >= i + 2 \/ old

\* ... and when the next frame is missing, it skips to the first ready one, once
\* that one has waited for two more frames or for 25ms (`old`).
GetAudioPacket(old) ==
    /\ ~aborted
    /\ Type = "audio"
    /\ last_rendered_id # -1
    /\ LET next == last_rendered_id + 1
           window == Larger(next + 1, max_id - Size + 1) .. max_id
           ready == {i \in window : Ready(slots, i)}
       IN  \/ /\ Ready(slots, next)
              /\ PlayNext(Scanned({next}), {next})
           \/ /\ ~Ready(slots, next) /\ ready = {}
              /\ PlayNext(Scanned({next} \cup window), {next} \cup window)
           \/ /\ ~Ready(slots, next)
              /\ \E i \in ready :
                   LET seen == {next} \cup {j \in window : j <= i} IN
                   /\ \A j \in ready : i <= j
                   /\ PlayNext(IF HasWaited(i, old)
                                 THEN ResetStream(Scanned(seen), i)
                                 ELSE Scanned(seen), seen)

\* Mutation: GPU commands are skipped like audio
SkipsToNewestGpu ==
    /\ ~aborted
    /\ Type = "gpu"
    /\ PlayNext(ResetStream(Scanned({}), max_id), {})

\* GPU commands are never skipped.
GetGpuPacket ==
    /\ ~aborted
    /\ Type = "gpu"
    /\ PlayNext([Scanned({}) EXCEPT !.last = Larger(@, 0)], {})

\* The self check of get_num_pending_ready_frames.  The code runs it now and then,
\* when it spans at most 50 frames; here it may run at any time.
GetNumPendingReadyFrames ==
    LET first == Larger(min_id, last_rendered_id + 1)
        counted == {i \in first .. max_id : Ready(slots, i)}
    IN  /\ ~aborted
        /\ IF min_id = -1
             THEN /\ aborted' = (num_pending_ready_frames # 0)
                  /\ UNCHANGED slots
             ELSE /\ aborted' = \/ PlayedFrameHasBuffer(slots, first .. max_id)
                                \/ Cardinality(counted) # num_pending_ready_frames
                                \/ num_pending_ready_frames \notin 0 .. Size
                  /\ slots' = Refreshed(slots, first .. max_id)
        /\ UNCHANGED <<currently_rendering_id, last_rendered_id, min_id, max_id,
                       num_pending_ready_frames, newest, recovery>>

-----------------------------------------------------------------------------
(* try_recovering_missing_packets_or_frames: what it does to the buffer, for   *)
(* video only.  It calls is_ready_to_render for the frames it may nack, up to  *)
(* where its nack budget ends, and for the frame it waits for.                 *)

FirstToNack ==
    IF last_rendered_id = -1 THEN Larger(max_id - NackBehind, min_id) ELSE last_rendered_id + 1

CurrentlyPendingId == IF last_rendered_id = -1 THEN min_id ELSE last_rendered_id + 1

TryRecovering(upto) ==
    LET scanned == (FirstToNack .. upto) \cup {CurrentlyPendingId}
    IN  /\ ~aborted
        /\ Type = "video"
        /\ min_id # -1
        /\ upto \in FirstToNack - 1 .. max_id
        /\ aborted' = PlayedFrameHasBuffer(slots, scanned)
        /\ slots' = Refreshed(slots, scanned)
        /\ UNCHANGED <<currently_rendering_id, last_rendered_id, min_id, max_id,
                       num_pending_ready_frames, newest, recovery>>

-----------------------------------------------------------------------------
Receive == \E id \in Ids : \E k \in Indices(id) :
    \/ ReceiveStale(id, k)
    \/ ReceiveKnown(id, k)
    \/ ReceiveNew(id, k)
    \/ ReceiveOverflow(id, k)

GetPacket ==
    \/ GetVideoPacket
    \/ StartAudio
    \/ \E old \in BOOLEAN : GetAudioPacket(old)
    \/ GetGpuPacket

Next ==
    \/ \E isRecovery \in BOOLEAN : SendFrame(isRecovery)
    \/ Receive
    \/ GetPacket
    \/ GetNumPendingReadyFrames
    \/ \E upto \in 0 .. MaxId : TryRecovering(upto)

Spec == Init /\ [][Next]_vars

-----------------------------------------------------------------------------
\* Every variable has its type: a slot is empty or holds a frame that was sent, with
\* the segments received of it.
TypeOK ==
    /\ slots \in [Slots -> FrameData]
    /\ currently_rendering_id \in Int
    /\ last_rendered_id \in Int
    /\ min_id \in Int
    /\ max_id \in Int
    /\ num_pending_ready_frames \in Int
    /\ newest \in 0 .. MaxId
    /\ recovery \subseteq Ids
    /\ aborted \in BOOLEAN

\* No FATAL_ASSERT or LOG_FATAL of the ring buffer is ever hit, whatever segments
\* are lost, duplicated or reordered: among them is_ready_to_render's check that a
\* frame that was played owns no buffer, ring_buffer_receive_segment's that a frame
\* still to be played owns one, and the self check of get_num_pending_ready_frames.
NoAbort == ~aborted

\* num_pending_ready_frames, kept by increments and decrements spread over five
\* functions, is the number of frames in the buffer that could be played.
PendingCountExact ==
    num_pending_ready_frames = Cardinality({s \in Slots : HasFramebuffer(slots[s])})

\* Memory is held only for frames that can still be played: a buffer belongs to a
\* frame after the one being rendered and after every frame that was skipped, and
\* that frame can be found under its ID.
BuffersAreAhead ==
    \A s \in Slots : slots[s].buf =>
        /\ slots[s].id > currently_rendering_id
        /\ slots[s].id > last_rendered_id
        /\ SlotOf(slots[s].id) = s

\* The segments `got` are enough to put frame id together from what was copied.
Assembled(id, got) ==
    IF Fec[id] > 0
      THEN Decodable(id, got)
      ELSE \A k \in 0 .. Original[id] - 1 : k \in got /\ <<id, k>> \notin TooLarge

\* The frame that set_rendering hands to the renderer was put together from
\* enough segments, each of which was really copied into its buffer.
PlayedFrameComplete ==
    LET id == currently_rendering_id IN
    (id # -1 /\ FrameAt(id).id = id) => Assembled(id, FrameAt(id).got)

-----------------------------------------------------------------------------
(* The inductive invariant behind the properties above *)

\* The environment in which the asserts hold: no segment is later than a whole
\* turn of the ring, frames without redundancy fit in their buffer, and an audio
\* frame is a single segment (server/audio.c).
Environment ==
    /\ MaxDelay <= Size
    /\ \A id \in Ids : Fec[id] = 0 => \A k \in Indices(id) : <<id, k>> \notin TooLarge
    /\ Type = "audio" => \A id \in Ids : Original[id] = 1 /\ Fec[id] = 0

\* A slot with its frame, given the IDs that the rest of the state holds
GoodFrame(f, s, rendering, last, low, high, sent) ==
    /\ f.id = 0 => f = Empty
    /\ f.id # 0 => /\ SlotOf(f.id) = s
                   /\ f.id <= sent
                   /\ f.got # {} /\ f.got \subseteq Indices(f.id)
                   /\ f.rec => Decodable(f.id, f.got)
    /\ f.fb <=> HasFramebuffer(f)
    /\ f.buf => f.id > rendering /\ f.id > last /\ low <= f.id /\ f.id <= high

\* A frame without a buffer was passed, or it has nothing left to receive.
Settled(f, rendering) ==
    (f.id # 0 /\ ~f.buf) => f.id <= rendering \/ f.got = Indices(f.id)

SlotsInv ==
    \A s \in Slots :
        /\ GoodFrame(slots[s], s, currently_rendering_id, last_rendered_id, min_id, max_id, newest)
        /\ Settled(slots[s], currently_rendering_id)

CountersInv ==
    /\ currently_rendering_id \in {-1} \cup Ids
    /\ currently_rendering_id <= newest
    /\ last_rendered_id >= -1
    /\ \/ min_id = -1 /\ max_id = -1
       \/ min_id \in Ids /\ max_id \in Ids /\ max_id <= newest
    \* after an overflow, the stream is a whole turn ahead of what is rendered
    /\ last_rendered_id >= currently_rendering_id \/ newest > currently_rendering_id + Size
    /\ Type = "video" => last_rendered_id \in {-1, currently_rendering_id}
    /\ Type = "gpu" => last_rendered_id \in {-1, 0, currently_rendering_id}

IndInv ==
    /\ TypeOK
    /\ SlotsInv
    /\ CountersInv
    /\ PendingCountExact
    /\ PlayedFrameComplete
    /\ NoAbort

-----------------------------------------------------------------------------
\* What the renderer sees, as an abstract playout
Abstract == INSTANCE Playout WITH playing <- currently_rendering_id

\* Frames are handed to the renderer in the order that the decoder needs, also
\* across skips and overflows of the ring buffer (see module Playout).
PlaysInOrder == Abstract!Spec

-----------------------------------------------------------------------------
(* The UDP thread's loop calls udp_get_packet again and again, and 25ms pass:  *)
(* a frame that can be taken out of the buffer is.                             *)

FairSpec == Spec /\ WF_vars(GetPacket)

Gone(id) == currently_rendering_id >= id \/ FrameAt(id).id # id

\* The search goes ScanSlack frames further back than a turn of the ring and no further:
\* what is older is found only as the next frame to play.
PassedBySearch(id) == id < max_id - Size - ScanSlack

\* A video stream that waits for lost frames recovers at the first complete recovery
\* point: it is played, or passed by a later one, unless the ring buffer overflows or
\* the stream has moved beyond the search before udp_get_packet is called again.
RecoveryPointPlayed ==
    \A id \in Ids : (Ready(slots, id) /\ id \in recovery) ~> Gone(id) \/ PassedBySearch(id)

\* A started audio stream never stays blocked behind a missing frame: every
\* complete frame is played or passed, unless the ring buffer overflows before.
AudioKeepsPlaying ==
    \A id \in Ids : (Ready(slots, id) /\ last_rendered_id # -1) ~> Gone(id)

=============================================================================
