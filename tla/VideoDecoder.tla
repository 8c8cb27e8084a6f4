------------------------------ MODULE VideoDecoder ------------------------------
(***************************************************************************)
(* whist/video/codec/decode.c with its caller in client/video.cpp: the      *)
(* kinds of decoders are tried in their order, software last, when one is   *)
(* created and when one refuses the first frame of a stream.  The video     *)
(* thread sends a frame, takes what the decoder gives and renders the last  *)
(* picture, unless the one before is still being presented.                 *)
(*                                                                         *)
(* A frame is its number; FFmpeg and the drivers are external: which kinds  *)
(* can be set up and which of them take a stream is open.                   *)
(***************************************************************************)
EXTENDS Integers, FiniteSetsExt

CONSTANTS
    software_decode_type,  \* the number of hardware kinds, which come before it
    Sizes,                 \* width, height and codec of frames
    MaxFrames,
    MayDelay,              \* a decoder may give a frame only after the next was sent
    MaxErrors              \* bound on errors when a frame is taken from the decoder

\* What the constants have to be; the module that instantiates this one assumes it.
VideoDecoderAssumption ==
    /\ software_decode_type \in Nat /\ MaxFrames \in Nat /\ MaxErrors \in Nat
    /\ MayDelay \in BOOLEAN

VARIABLES
    works,     \* the kinds that can be set up
    accepts,   \* the kinds that take the first frame of a stream
    decoder,   \* kind, whether it is open, frames sent to it, decoded_frame (0: none)
    live,      \* the decoder has not been freed
    last_size, \* last_frame_width, last_frame_height, last_frame_codec
    frame,     \* the frame in hand: its number, intra, size
    got_frame_from_decoder,
    shown,     \* the newest picture given to the renderer
    at,        \* where render_video is
    errors

vars == <<works, accepts, decoder, live, last_size, frame, got_frame_from_decoder, shown, at,
          errors>>

Kinds == 0 .. software_decode_type

TypeOK ==
    /\ works \subseteq Kinds /\ accepts \subseteq Kinds
    /\ decoder.type \in 0 .. software_decode_type + 1 /\ decoder.open \in BOOLEAN
    /\ decoder.sent \in 0 .. MaxFrames /\ decoder.decoded_frame \in 0 .. MaxFrames
    /\ decoder.received_a_frame \in BOOLEAN
    /\ live \in BOOLEAN /\ last_size \in Sizes
    /\ frame \in [id : 0 .. MaxFrames, intra : BOOLEAN, size : Sizes]
    /\ got_frame_from_decoder \in BOOLEAN /\ shown \in 0 .. MaxFrames
    /\ at \in {"wait", "send", "drain", "render"} /\ errors \in 0 .. MaxErrors

\* try_next_decoder: the first kind from `type` on that can be set up; the frame of the old
\* one is freed, and whether a frame was ever received stays.
TryNext(type, received_a_frame) ==
    LET can == {t \in works : t >= type}
    IN  [type |-> IF can = {} THEN software_decode_type + 1 ELSE Min(can),
         open |-> can # {}, sent |-> 0, decoded_frame |-> 0,
         received_a_frame |-> received_a_frame]

\* video_decoder_create
Created == TryNext(0, FALSE)

\* Software decoding can be set up and takes every stream; without it the client ends.
Init ==
    /\ works \in {w \in SUBSET Kinds : software_decode_type \in w}
    /\ accepts \in {a \in SUBSET Kinds : software_decode_type \in a}
    /\ last_size \in Sizes
    /\ decoder = Created
    /\ live = TRUE
    /\ frame = [id |-> 0, intra |-> FALSE, size |-> last_size]
    /\ got_frame_from_decoder = FALSE
    /\ shown = 0
    /\ at = "wait"
    /\ errors = 0

-----------------------------------------------------------------------------
\* The next frame; an intra frame of another size gets a new decoder.  A stream begins with
\* an intra frame.
TakeFrame(intra, size) ==
    /\ at = "wait" /\ frame.id < MaxFrames
    /\ frame.id = 0 => intra
    /\ frame' = [id |-> frame.id + 1, intra |-> intra, size |-> size]
    /\ IF size # last_size /\ intra
       THEN decoder' = Created /\ last_size' = size
       ELSE UNCHANGED <<decoder, last_size>>
    /\ at' = "send"
    /\ UNCHANGED <<works, accepts, live, got_frame_from_decoder, shown, errors>>

\* Faulty: the same decoder is set up again.
SameAgain(type) == type

AfterFailing(type) == type + 1

\* Faulty: the next decoder starts with the next frame.
NextFrameInstead == "drain"

\* The frame is sent to the next decoder.
AfterRefusal == "send"

\* video_decoder_send_packets, one round: a decoder that refuses the first frame of a
\* stream is replaced by the next kind.
SendPackets ==
    /\ at = "send" /\ live
    /\ \/ /\ decoder.open /\ (frame.intra => decoder.type \in accepts)
          /\ decoder' = [decoder EXCEPT !.sent = frame.id, !.received_a_frame = TRUE]
          /\ at' = "drain"
       \/ /\ frame.intra /\ ~(decoder.open /\ decoder.type \in accepts)
          /\ decoder' = IF decoder.type < software_decode_type
                        THEN TryNext(AfterFailing(decoder.type), decoder.received_a_frame)
                        ELSE decoder
          /\ at' = AfterRefusal
       \/ /\ ~frame.intra
          /\ at' = "wait"
          /\ UNCHANGED decoder
    /\ UNCHANGED <<works, accepts, live, last_size, frame, got_frame_from_decoder, shown, errors>>

\* video_decoder_decode_frame until it gives no more: a picture that is got replaces the last
\* one.  A picture in software format shows that the codec has left the hardware by itself.
Drain ==
    /\ at = "drain" /\ live
    /\ \E gives \in BOOLEAN, type \in {decoder.type, software_decode_type} :
         /\ ~MayDelay => gives
         /\ IF decoder.sent # 0 /\ gives
            THEN /\ decoder' = [decoder EXCEPT !.sent = 0, !.decoded_frame = decoder.sent,
                                             !.type = type]
                 /\ got_frame_from_decoder' = TRUE
            ELSE UNCHANGED <<decoder, got_frame_from_decoder>>
    /\ at' = IF got_frame_from_decoder' THEN "render" ELSE "wait"
    /\ UNCHANGED <<works, accepts, live, last_size, frame, shown, errors>>

\* An error: the decoder is freed, and render_video returns -1.  What a use of it does
\* afterwards is undefined: the model ends there.
DrainFails ==
    /\ at = "drain" /\ live /\ decoder.received_a_frame /\ errors < MaxErrors
    /\ errors' = errors + 1
    /\ live' = FALSE
    /\ at' = "wait"
    /\ UNCHANGED <<works, accepts, decoder, last_size, frame, got_frame_from_decoder, shown>>

\* The last picture is still being presented (sdl_render_pending).
RenderPending ==
    /\ at = "render"
    /\ at' = "wait"
    /\ UNCHANGED <<works, accepts, decoder, live, last_size, frame, got_frame_from_decoder,
                   shown, errors>>

\* render_video comes back without a frame.
WithoutFrame ==
    /\ at = "wait"
    /\ at' = "drain"
    /\ UNCHANGED <<works, accepts, decoder, live, last_size, frame, got_frame_from_decoder,
                   shown, errors>>

\* video_decoder_get_last_decoded_frame
Render ==
    /\ at = "render"
    /\ shown' = decoder.decoded_frame
    /\ got_frame_from_decoder' = FALSE
    /\ at' = "wait"
    /\ UNCHANGED <<works, accepts, decoder, live, last_size, frame, errors>>

Next ==
    \/ \E intra \in BOOLEAN, size \in Sizes : TakeFrame(intra, size)
    \/ SendPackets \/ Drain \/ DrainFails \/ RenderPending \/ WithoutFrame \/ Render

\* The video thread goes on sending.
Spec == Init /\ [][Next]_vars /\ WF_vars(SendPackets)
-----------------------------------------------------------------------------
(* Properties. *)

\* video_decoder_send_packets ends (decode.c:484), whatever hardware kinds fail to be set up
\* or refuse the stream.
SendReturns == at = "send" /\ live ~> at # "send"

\* video_decoder_get_last_decoded_frame aborts without a picture (decode.c:602).  It is
\* called for a picture that was got before, and in between the decoder may have been
\* replaced, because of a new size or because it refused a frame.
PictureIsHeld == at = "render" => decoder.decoded_frame # 0

\* The decoder is not used after video_decoder_decode_frame has freed it (decode.c:561).
DecoderIsLive == at \in {"send", "drain", "render"} => live

=============================================================================
