----------------------------- MODULE VideoStream -----------------------------
(***************************************************************************)
(* The video stream from the server's encoder to the client's decoder, and *)
(* the two kinds of messages that come back: acknowledgements of frames    *)
(* and requests to reset the stream.                                       *)
(*                                                                         *)
(* Server: the video thread (multithreaded_send_video) runs loops that are *)
(* atomic here; it shares a queue with the send thread                     *)
(* (multithreaded_send_video_packets) and the slots for incoming messages  *)
(* with the threads that receive them.  Client: what udp_get_packet hands  *)
(* over is described by module Playout, which the ring buffer implements;  *)
(* render_video acknowledges and decodes it.                               *)
(*                                                                         *)
(* All messages travel by UDP.  A frame that was sent may never be played; *)
(* acks and reset requests are lost, duplicated and reordered: one that    *)
(* was ever made may come in at any time.                                  *)
(***************************************************************************)
EXTENDS LongTermReference, Sequences

CONSTANTS
    MaxId,            \* bound: how many frames the server makes
    MaxDisruptions,   \* bound: on the empty or too large frames, restarts and reconnections
    SlowSender        \* may the send thread sleep through a reconnection?

ASSUME StreamAssumption ==
    MaxId \in Nat /\ MaxDisruptions \in Nat /\ SlowSender \in BOOLEAN

VARIABLES
    \* the video thread
    ltr,               \* ltr_context
    needs_restart,     \* stream_needs_restart
    needs_recovery,    \* stream_needs_recovery
    encoder,           \* the references that the encoder holds
    frames,            \* every frame made, by ID
    queue,             \* IDs of the frames for the send thread, oldest first
    \* written by the threads that receive messages
    frame_ack,         \* frame_ack_id when update_frame_ack is set, else 0
    reset,             \* reset_data[PACKET_VIDEO]
    \* the connection and the client
    disruptions,       \* how many there were, see MaxDisruptions
    last_start,        \* last_start_of_stream_id[PACKET_VIDEO]
    sent,              \* IDs of the frames sent to the client
    playing,           \* the ID of the frame last handed to render_video
    acks,              \* IDs that the client has acknowledged
    decoder            \* the references that the decoder holds

serverVars == <<ltr, needs_restart, needs_recovery, encoder, frames>>
clientVars == <<playing, acks, decoder>>
vars == <<serverVars, queue, frame_ack, reset, last_start, sent, clientVars, disruptions>>

-----------------------------------------------------------------------------
(* H.264 references: the frame before, and two long-term slots.  Frames are  *)
(* named by their frame_counter; 0 is no frame.                              *)

Codec == [last : Nat, slots : [{0, 1} -> Nat]]

NoReferences == [last |-> 0, slots |-> [i \in {0, 1} |-> 0]]

\* The reference that frame f is coded against by a codec in state c
Reference(c, f) ==
    IF f.type = "INTRA" THEN 0
    ELSE IF f.type = "REFER" THEN c.slots[f.index]
    ELSE c.last

\* The references after frame f.  An intra frame clears all but slot 0.
CodecAfter(c, f) ==
    [last  |-> f.counter,
     slots |-> IF f.type = "INTRA" THEN [i \in {0, 1} |-> IF i = 0 THEN f.counter ELSE 0]
               ELSE IF f.type = "CREATE" THEN [c.slots EXCEPT ![f.index] = f.counter]
               ELSE c.slots]

\* A frame of the stream.  `needs` is what the encoder coded it against.
StreamFrame == [type : FrameTypes \cup {"EMPTY"}, index : {0, 1}, counter : Nat, needs : Nat]

EmptyFrame == [type |-> "EMPTY", index |-> 0, counter |-> 0, needs |-> 0]

CanDecode(id) ==
    frames[id].type = "EMPTY" \/ Reference(decoder, frames[id]) = frames[id].needs

Recovery == {id \in sent : IsRecoveryType(frames[id].type)}

\* The ring buffer hands over frames as module Playout allows.
Channel == INSTANCE Playout WITH Type <- "video", newest <- Len(frames), recovery <- Recovery

Playable(id) == id \in sent /\ id > playing /\ Channel!CanFollow(id)

-----------------------------------------------------------------------------
Init ==
    /\ ltr = LtrCreate
    /\ needs_restart = TRUE
    /\ needs_recovery = FALSE
    /\ encoder = NoReferences
    /\ frames = <<>>
    /\ queue = <<>>
    /\ frame_ack = 0
    /\ reset = [pending |-> TRUE, failed |-> -1]
    /\ disruptions = 0
    /\ last_start = 0
    /\ sent = {}
    /\ playing = -1
    /\ acks = {}
    /\ decoder = NoReferences

Disrupt ==
    /\ disruptions < MaxDisruptions
    /\ disruptions' = disruptions + 1

-----------------------------------------------------------------------------
(* The video thread.  With two frames in the queue, it waits for the send     *)
(* thread to finish the older one.                                            *)

AtLoopStart == Len(queue) < 2

\* What every turn of the loop does first: take in an ack ...
Acked == IF frame_ack = 0 THEN ltr ELSE MarkFrameReceived(ltr, frame_ack)

\* ... and a reset request (udp_get_pending_stream_reset).
StreamReset == reset.pending /\ (reset.failed = -1 \/ reset.failed > last_start)

TakeMessages ==
    /\ frame_ack' = 0
    /\ reset' = [reset EXCEPT !.pending = FALSE]

\* A turn without a frame
Poll ==
    /\ AtLoopStart
    /\ TakeMessages
    /\ ltr' = Acked
    /\ needs_recovery' = (needs_recovery \/ StreamReset)
    /\ UNCHANGED <<needs_restart, encoder, frames, queue, last_start, sent, clientVars, disruptions>>

\* send_empty_frame: the screen has not changed for a while.
SendEmptyFrame ==
    /\ AtLoopStart
    /\ Len(frames) < MaxId
    /\ ~needs_restart /\ ~needs_recovery /\ ~StreamReset
    /\ Disrupt
    /\ TakeMessages
    /\ ltr' = Acked
    /\ frames' = Append(frames, EmptyFrame)
    /\ queue' = Append(queue, Len(frames'))
    /\ UNCHANGED <<needs_restart, needs_recovery, encoder, last_start, sent, clientVars>>

\* The LTRState that the type of the next frame is picked from
Prepared ==
    IF needs_restart THEN ForceIntra(Acked)
    ELSE IF needs_recovery \/ StreamReset THEN MarkStreamBroken(Acked)
    ELSE Acked

\* Encode a frame, and queue it unless it is larger than MAX_VIDEOFRAME_DATA_SIZE.
EncodeFrame(fits) ==
    LET id == Len(frames) + 1
        f == NextFrame(Prepared, id)
    IN  /\ AtLoopStart
        /\ Len(frames) < MaxId
        /\ IF fits THEN UNCHANGED disruptions ELSE Disrupt
        /\ TakeMessages
        /\ ltr' = GetNextAction(Prepared, f)
        /\ needs_restart' = FALSE
        /\ needs_recovery' = FALSE
        /\ frames' = Append(frames, [type |-> f.type, index |-> f.index, counter |-> f.counter,
                                     needs |-> Reference(encoder, f)])
        /\ encoder' = CodecAfter(encoder, f)
        /\ queue' = IF fits THEN Append(queue, id) ELSE queue
        /\ UNCHANGED <<last_start, sent, clientVars>>

\* The capture device or its dimensions change, or the client asks for a new start.
Restart ==
    /\ Disrupt
    /\ needs_restart' = TRUE
    /\ UNCHANGED <<ltr, needs_recovery, encoder, frames, queue, frame_ack, reset, last_start,
                   sent, clientVars>>

\* The send thread
SendFrame ==
    /\ queue # <<>>
    /\ LET id == Head(queue) IN
       /\ queue' = Tail(queue)
       /\ sent' = sent \cup {id}
       /\ last_start' = IF IsRecoveryType(frames[id].type) THEN id ELSE last_start
    /\ UNCHANGED <<serverVars, frame_ack, reset, clientVars, disruptions>>

-----------------------------------------------------------------------------
(* The client *)

\* render_video acknowledges a frame before it decodes it.
RenderFrame(id) ==
    /\ Playable(id)
    /\ playing' = id
    /\ IF frames[id].type = "EMPTY"
         THEN UNCHANGED <<acks, decoder>>
         ELSE /\ acks' = acks \cup {id}
              /\ decoder' = IF CanDecode(id) THEN CodecAfter(decoder, frames[id]) ELSE decoder
    /\ UNCHANGED <<serverVars, queue, frame_ack, reset, last_start, sent, disruptions>>

\* handle_frame_ack_message: there is room for one ack.
ReceiveFrameAck(id) ==
    /\ id \in acks
    /\ frame_ack' = id
    /\ UNCHANGED <<serverVars, queue, reset, last_start, sent, clientVars, disruptions>>

\* udp_handle_stream_reset.  The client has given up on a frame that was sent.
ReceiveStreamReset(id) ==
    /\ id \in sent
    /\ reset' = [pending |-> TRUE, failed |-> IF id > reset.failed THEN id ELSE reset.failed]
    /\ UNCHANGED <<serverVars, queue, frame_ack, last_start, sent, clientVars, disruptions>>

\* A new client takes over while the video thread is between two loops.  The send
\* thread drops what it cannot send to the old one.
Connect ==
    /\ AtLoopStart
    /\ Disrupt
    /\ needs_restart' = TRUE
    /\ queue' \in {<<>>} \cup (IF SlowSender THEN {queue} ELSE {})
    /\ reset' = [pending |-> TRUE, failed |-> -1]
    /\ last_start' = 0
    /\ sent' = {}
    /\ playing' = -1
    /\ acks' = {}
    /\ decoder' = NoReferences
    /\ UNCHANGED <<ltr, needs_recovery, encoder, frames, frame_ack>>

-----------------------------------------------------------------------------
Next ==
    \/ Poll
    \/ SendEmptyFrame
    \/ \E fits \in BOOLEAN : EncodeFrame(fits)
    \/ Restart
    \/ SendFrame
    \/ \E id \in 1 .. MaxId :
         \/ RenderFrame(id)
         \/ ReceiveFrameAck(id)
         \/ ReceiveStreamReset(id)
    \/ Connect

Spec == Init /\ [][Next]_vars

-----------------------------------------------------------------------------
\* Every variable has its type; the send thread is at most two frames behind, and only
\* what was sent is played or acknowledged.
TypeOK ==
    /\ ltr \in LtrState
    /\ needs_restart \in BOOLEAN /\ needs_recovery \in BOOLEAN
    /\ encoder \in Codec /\ decoder \in Codec
    /\ frames \in Seq(StreamFrame) /\ Len(frames) <= MaxId
    /\ queue \in Seq(1 .. Len(frames)) /\ Len(queue) <= 2
    /\ frame_ack \in 0 .. Len(frames)
    /\ reset \in [pending : BOOLEAN, failed : {-1} \cup 1 .. Len(frames)]
    /\ disruptions \in 0 .. MaxDisruptions
    /\ last_start \in 0 .. Len(frames)
    /\ sent \subseteq 1 .. Len(frames)
    /\ playing \in {-1} \cup sent
    /\ acks \subseteq sent

\* Every frame that the client may play next can be decoded: the frame that the
\* encoder coded it against is in the decoder, in the same slot, however many frames
\* were lost, skipped, dropped or repaired before.
PlayableIsDecodable == \A id \in sent : Playable(id) => CanDecode(id)

\* The server's idea of a good long-term reference is right: encoder and decoder
\* hold that very frame in that slot, whatever was encoded or played since.  Between
\* a reconnection and the I-frame that follows, the idea is out of date.
GoodReferenceIsHeld ==
    ltr.have_good /\ ~needs_restart =>
        /\ encoder.slots[ltr.good_index] = ltr.good_counter
        /\ decoder.slots[ltr.good_index] = ltr.good_counter

\* When the server acts on a stream reset for a frame that the client still waits
\* for, and that no recovery point was sent after, then the next frame is a recovery
\* point (ltr_mark_stream_broken).
ResetIsAnswered ==
    [][/\ frames' # frames
       /\ needs_recovery \/ StreamReset
       /\ reset.failed > playing /\ reset.failed > last_start
       => IsRecoveryType(frames'[Len(frames')].type)]_vars
=============================================================================
