----------------------------- MODULE MCPlayback -----------------------------
(***************************************************************************)
(* What the client does with a frame that it plays: the threads that       *)
(* render, the device that plays audio and the video decoder.  Each of     *)
(* them is modelled with the part of the others that it depends on, so     *)
(* that they have no state in common: component says which of them a       *)
(* behaviour is about, and the states of the run are those of the three,   *)
(* added up.                                                               *)
(***************************************************************************)
EXTENDS Integers, Sequences

CONSTANTS
    MaxVideo, MaxAudio, MaxDrops, MaxErrors, MaxAlerts,        \* ClientRender
    Targets, MaxFrames, MaxRing, MaxAdjusts, MaxRefreshes,     \* AudioPlayback
    software_decode_type, Sizes, MaxDecoded, MaxFailures  \* VideoDecoder

VARIABLES
    component,
    rendering, render_context, pending_render_context, semaphore, udp, video, audio, decoder,
    got_frame, has_video_rendered_yet, pending_render, pending_video_frame,
    run_renderer_threads, main, count,
    received, taken, target, is_overflowing, adjust_command, udp_thread, audio_pending,
    audio_context, audio_state, buffer, device, played, audio_thread, audio_count,
    works, accepts, video_decoder, live, last_size, frame, got_frame_from_decoder,
    picture_shown, at, errors

Rendering == INSTANCE ClientRender
Playback == INSTANCE AudioPlayback WITH
    udp <- udp_thread, pending_render_context <- audio_pending,
    render_context <- audio_context, audio <- audio_thread, count <- audio_count
Decoding == INSTANCE VideoDecoder WITH
    MaxFrames <- MaxDecoded, MaxErrors <- MaxFailures, MayDelay <- FALSE,
    decoder <- video_decoder, shown <- picture_shown

ASSUME ComponentAssumptions ==
    /\ Rendering!ClientRenderAssumption
    /\ Playback!AudioPlaybackAssumption
    /\ Decoding!VideoDecoderAssumption

renderVars == <<rendering, render_context, pending_render_context, semaphore, udp, video, audio,
                decoder, got_frame, has_video_rendered_yet, pending_render, pending_video_frame,
                run_renderer_threads, main, count>>
audioVars == <<received, taken, target, is_overflowing, adjust_command, udp_thread,
               audio_pending, audio_context, audio_state, buffer, device, played, audio_thread,
               audio_count>>
decoderVars == <<works, accepts, video_decoder, live, last_size, frame, got_frame_from_decoder,
                 picture_shown, at, errors>>
mcVars == <<component, renderVars, audioVars, decoderVars>>

MCInit ==
    /\ component \in {"renderer", "audio", "decoder"}
    /\ Rendering!Init /\ Playback!Init /\ Decoding!Init
    \* one of the decoder's initial states is enough for a behaviour about something else
    /\ component # "decoder" =>
           /\ works = Decoding!Kinds /\ accepts = Decoding!Kinds
           /\ last_size = CHOOSE s \in Sizes : TRUE

MCNext ==
    \/ component = "renderer" /\ Rendering!Next
       /\ UNCHANGED <<component, audioVars, decoderVars>>
    \/ component = "audio" /\ Playback!Next
       /\ UNCHANGED <<component, renderVars, decoderVars>>
    \/ component = "decoder" /\ Decoding!Next
       /\ UNCHANGED <<component, renderVars, audioVars>>

\* The fairness of each component, for the behaviours that are about it
MCFairness ==
    /\ WF_renderVars(component = "renderer" /\ Rendering!Udp)
    /\ WF_renderVars(component = "renderer" /\ Rendering!Video)
    /\ WF_renderVars(component = "renderer" /\ Rendering!Audio)
    /\ WF_renderVars(component = "renderer" /\ Rendering!MainGoesOn)
    /\ WF_audioVars(component = "audio" /\ (Playback!Look \/ Playback!Decide))
    /\ WF_audioVars(component = "audio" /\ Playback!RenderAudio)
    /\ WF_audioVars(component = "audio" /\ Playback!PlayFrame)
    /\ WF_decoderVars(component = "decoder" /\ Decoding!SendPackets)

MCSpec == MCInit /\ [][MCNext]_mcVars /\ MCFairness
-----------------------------------------------------------------------------
\* The memory of a video frame is not released while it is read or waits to be read
\* (sync_packets.cpp:135), and that of an audio frame only when another is dropped.
FrameIsKept == Rendering!FrameIsKept

\* "If the renderer wants a new frame, it must be done with the old frame, so we can free it
\* now" (sync_packets.cpp:135): this is said of every type of frame.
RendererIsDone == Rendering!RendererIsDone

\* Frames come out of the device in their order, and never more wait in it than the largest
\* target and one stale answer allow (audio.cpp:566, 620 and 768).
AudioIsInOrder == Playback!HeardInOrder /\ Playback!DeviceIsBounded

\* Playing goes on: audio that came before the first picture is heard, a decoded picture is
\* shown, destroy_renderer returns (renderer.c:155 and 225, video.cpp:334), the ring of audio
\* frames is emptied, and an overflow passes (audio.cpp:410 and 614).
PlaybackGoesOn ==
    /\ Rendering!AudioFollowsVideo /\ Rendering!DecodedIsPresented /\ Rendering!RendererEnds
    /\ Playback!RingDrains /\ Playback!OverflowPasses

\* video_decoder_get_last_decoded_frame is called only for a decoder that has a picture
\* (decode.c:602).
PictureIsHeld == Decoding!PictureIsHeld
=============================================================================
