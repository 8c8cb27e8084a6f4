---------------------------- MODULE MCRingBuffer ----------------------------
(***************************************************************************)
(* The ring buffers of the three streams.  They have no state in common:   *)
(* stream says which of them a behaviour is about, and the states of the   *)
(* run are those of the three, added up.  Audio and GPU commands share the *)
(* second set of variables.                                                *)
(***************************************************************************)
EXTENDS RingBuffer

CONSTANTS OtherSize, MaxAudioId, MaxGpuId, OtherDelay

VARIABLES
    stream,
    other_slots, other_rendering_id, other_last_id, other_min_id, other_max_id, other_ready,
    other_newest, other_recovery, other_aborted

-----------------------------------------------------------------------------
(* The shapes of the frames. *)

\* Every frame is one segment, as audio frames are.
SingleOriginal == <<1, 1, 1>>
NoFec == <<0, 0, 0>>
AudioOriginal == <<1, 1, 1, 1, 1, 1>>
AudioFec == <<0, 0, 0, 0, 0, 0>>

\* Frames of one segment, of two, and of two with a redundant third.
MixedOriginal == <<1, 2, 2, 1, 2>>
MixedFec == <<0, 0, 1, 0, 0>>
GpuOriginal == <<1, 2, 2, 1, 2>>
GpuFec == <<0, 0, 1, 0, 0>>

\* The redundant segment lies beyond largest_frame_size.
LargeFec == {<<3, 2>>}

\* Frame 1 fills largest_frame_size to the last byte.
ExactlyFull == {<<1, 0>>}

-----------------------------------------------------------------------------
Audio == INSTANCE RingBuffer WITH
    Type <- "audio", Size <- OtherSize, MaxId <- MaxAudioId, MaxDelay <- OtherDelay,
    Original <- AudioOriginal, Fec <- AudioFec, TooLarge <- {},
    slots <- other_slots, currently_rendering_id <- other_rendering_id,
    last_rendered_id <- other_last_id, min_id <- other_min_id, max_id <- other_max_id,
    num_pending_ready_frames <- other_ready, newest <- other_newest,
    recovery <- other_recovery, aborted <- other_aborted
Gpu == INSTANCE RingBuffer WITH
    Type <- "gpu", Size <- OtherSize, MaxId <- MaxGpuId, MaxDelay <- OtherDelay,
    Original <- GpuOriginal, Fec <- GpuFec, TooLarge <- {},
    slots <- other_slots, currently_rendering_id <- other_rendering_id,
    last_rendered_id <- other_last_id, min_id <- other_min_id, max_id <- other_max_id,
    num_pending_ready_frames <- other_ready, newest <- other_newest,
    recovery <- other_recovery, aborted <- other_aborted

otherVars == <<other_slots, other_rendering_id, other_last_id, other_min_id, other_max_id,
               other_ready, other_newest, other_recovery, other_aborted>>

MCInit == stream \in {"video", "audio", "gpu"} /\ Init /\ Audio!Init

MCNext ==
    \/ stream = "video" /\ Next /\ UNCHANGED <<stream, otherVars>>
    \/ stream = "audio" /\ Audio!Next /\ UNCHANGED <<stream, vars>>
    \/ stream = "gpu" /\ Gpu!Next /\ UNCHANGED <<stream, vars>>

\* The loop of the UDP thread calls udp_get_packet again and again.
MCSpec ==
    /\ MCInit /\ [][MCNext]_<<stream, vars, otherVars>>
    /\ WF_vars(stream = "video" /\ GetPacket)
    /\ WF_otherVars(stream = "audio" /\ Audio!GetPacket)
-----------------------------------------------------------------------------
\* Neither a video stream nor an audio stream stays blocked behind missing frames: a complete
\* recovery point within the part of the ring that is searched, and every complete audio frame,
\* is played or passed (udp.cpp:880-1003, ringbuffer.c:509).
StreamsPlayOn ==
    /\ RecoveryPointPlayed
    /\ \A id \in 1 .. MaxAudioId :
          (stream = "audio" /\ Audio!Ready(other_slots, id) /\ other_last_id # -1)
              ~> Audio!Gone(id)

\* The count of the frames that can be played is exact also for audio and GPU commands, and no
\* assert fails (ringbuffer.c:1136).
OtherCountsExact ==
    /\ ~other_aborted
    /\ IF stream = "gpu" THEN Gpu!PendingCountExact ELSE Audio!PendingCountExact
=============================================================================
