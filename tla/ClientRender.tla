----------------------------- MODULE ClientRender -----------------------------
(***************************************************************************)
(* The client's threads that show frames: the UDP thread hands frames of   *)
(* the ring buffers over (sync_packets.cpp), a video and an audio thread   *)
(* render them (renderer.c, video.cpp, audio.cpp), and the main thread     *)
(* presents the framebuffer (sdl_utils.c) and ends them all.               *)
(*                                                                         *)
(* A frame is its number.  A frame's memory belongs to the ring buffer,    *)
(* which releases it when the next frame of its type is taken.  When the   *)
(* audio queue wants frames, and when it drops them, is left open here     *)
(* (AudioPlayback).  The GPU lock does nothing unless it is compiled in.   *)
(***************************************************************************)
EXTENDS Integers

CONSTANTS
    MaxVideo, MaxAudio,  \* how many frames of each type come in
    MaxDrops,            \* bound on the audio frames that are dropped
    MaxErrors,           \* bound on the errors of the video decoder
    MaxAlerts            \* bound on the times the bandwidth becomes insufficient

\* What the constants have to be; the module that instantiates this one assumes it.
ClientRenderAssumption ==
    /\ MaxVideo \in Nat /\ MaxAudio \in Nat
    /\ MaxDrops \in Nat /\ MaxErrors \in Nat /\ MaxAlerts \in Nat

VARIABLES
    rendering,       \* per type, the frame whose memory the ring buffer holds
    render_context,  \* per type, the frame that was handed over
    pending_render_context,
    semaphore,       \* video_semaphore and audio_semaphore
    udp,             \* the UDP thread
    video,           \* the video thread: where it is, the frame it reads, pending_video
    audio,           \* the audio thread: where it is, the frame it reads
    decoder,         \* the newest frame in the video decoder, or 0
    got_frame,       \* got_frame_from_decoder: the frame got from it, or 0
    has_video_rendered_yet,
    pending_render, pending_video_frame,
    run_renderer_threads,
    main,            \* the main thread
    count            \* of drops, errors and alerts, and the last frame that was dropped

vars == <<rendering, render_context, pending_render_context, semaphore, udp, video, audio,
          decoder, got_frame, has_video_rendered_yet, pending_render, pending_video_frame,
          run_renderer_threads, main, count>>

Types == {"video", "audio"}

TypeOK ==
    /\ rendering \in [video : 0 .. MaxVideo, audio : 0 .. MaxAudio]
    /\ render_context \in [video : 0 .. MaxVideo, audio : 0 .. MaxAudio]
    /\ pending_render_context \in [Types -> BOOLEAN]
    /\ semaphore \in [Types -> Nat]
    /\ udp \in {"video", "post video", "audio", "post audio", "ended"}
    /\ video.at \in {"wait", "render", "decode", "drain", "update", "mark", "notify", "ended"}
    /\ video.frame \in 0 .. MaxVideo /\ video.pending_video \in BOOLEAN
    /\ audio.at \in {"wait", "check", "render", "ended"} /\ audio.frame \in 0 .. MaxAudio
    /\ decoder \in 0 .. MaxVideo /\ got_frame \in 0 .. MaxVideo
    /\ has_video_rendered_yet \in [context : BOOLEAN, renderer : BOOLEAN]
    /\ pending_render \in BOOLEAN /\ pending_video_frame \in 0 .. MaxVideo
    /\ run_renderer_threads \in BOOLEAN
    /\ main \in {"loop", "present", "stop", "join", "destroyed"}

\* init_renderer; init_video marks the framebuffer out to render.
Init ==
    /\ rendering = [t \in Types |-> 0] /\ render_context = [t \in Types |-> 0]
    /\ pending_render_context = [t \in Types |-> FALSE]
    /\ semaphore = [t \in Types |-> 0]
    /\ udp = "video"
    /\ video = [at |-> "wait", frame |-> 0, pending_video |-> FALSE]
    /\ audio = [at |-> "wait", frame |-> 0]
    /\ decoder = 0 /\ got_frame = 0
    /\ has_video_rendered_yet = [context |-> FALSE, renderer |-> FALSE]
    /\ pending_render = TRUE /\ pending_video_frame = 0
    /\ run_renderer_threads = TRUE
    /\ main = "loop"
    /\ count = [drops |-> 0, dropped |-> 0, errors |-> 0, alerts |-> 0]

-----------------------------------------------------------------------------
(* multithreaded_sync_udp_packets. *)

\* Faulty: a frame is taken, also if the last one was not consumed.
AlwaysReady == TRUE

VideoReadyForFrame == ~pending_render_context.video

\* A frame is ready and wanted: the last one is released and this one handed over,
\* unless the last one is still pending.
ReceiveVideo ==
    /\ udp = "video" /\ main # "stop"
    /\ VideoReadyForFrame
    /\ rendering.video < MaxVideo
    /\ rendering' = [rendering EXCEPT !.video = @ + 1]
    /\ render_context' = [render_context EXCEPT !.video =
                              IF pending_render_context.video THEN @ ELSE rendering.video + 1]
    /\ pending_render_context' = [pending_render_context EXCEPT !.video = TRUE]
    /\ udp' = "post video"
    /\ UNCHANGED <<semaphore, video, audio, decoder, got_frame, has_video_rendered_yet,
                   pending_render, pending_video_frame, run_renderer_threads, main, count>>

\* The same for audio.
ReceiveAudio ==
    /\ udp = "audio"
    /\ ~pending_render_context.audio
    /\ rendering.audio < MaxAudio
    /\ rendering' = [rendering EXCEPT !.audio = @ + 1]
    /\ render_context' = [render_context EXCEPT !.audio = rendering.audio + 1]
    /\ pending_render_context' = [pending_render_context EXCEPT !.audio = TRUE]
    /\ udp' = "post audio"
    /\ UNCHANGED <<semaphore, video, audio, decoder, got_frame, has_video_rendered_yet,
                   pending_render, pending_video_frame, run_renderer_threads, main, count>>

\* An audio frame is taken to be dropped, whether or not the last one was consumed: its
\* memory is released all the same.
DropAudio ==
    /\ udp = "audio"
    /\ rendering.audio < MaxAudio /\ count.drops < MaxDrops
    /\ rendering' = [rendering EXCEPT !.audio = @ + 1]
    /\ count' = [count EXCEPT !.drops = @ + 1, !.dropped = rendering.audio + 1]
    /\ udp' = "post audio"
    /\ UNCHANGED <<render_context, pending_render_context, semaphore, video, audio, decoder,
                   got_frame, has_video_rendered_yet, pending_render, pending_video_frame,
                   run_renderer_threads, main>>

\* Nothing is wanted, or nothing has come.
NoFrame ==
    /\ udp \in {"video", "audio"} /\ ~(udp = "video" /\ main = "stop")
    /\ udp' = IF udp = "video" THEN "audio" ELSE "video"
    /\ UNCHANGED <<rendering, render_context, pending_render_context, semaphore, video, audio,
                   decoder, got_frame, has_video_rendered_yet, pending_render,
                   pending_video_frame, run_renderer_threads, main, count>>

\* renderer_receive_frame posts the semaphore of the frame's thread.
PostFrame ==
    /\ udp \in {"post video", "post audio"}
    /\ semaphore' = [semaphore EXCEPT ![IF udp = "post video" THEN "video" ELSE "audio"] = @ + 1]
    /\ udp' = IF udp = "post video" THEN "audio" ELSE "video"
    /\ UNCHANGED <<rendering, render_context, pending_render_context, video, audio, decoder,
                   got_frame, has_video_rendered_yet, pending_render, pending_video_frame,
                   run_renderer_threads, main, count>>

UdpEnds ==
    /\ udp = "video" /\ main = "stop"
    /\ udp' = "ended"
    /\ UNCHANGED <<rendering, render_context, pending_render_context, semaphore, video, audio,
                   decoder, got_frame, has_video_rendered_yet, pending_render,
                   pending_video_frame, run_renderer_threads, main, count>>

-----------------------------------------------------------------------------
(* multithreaded_video_renderer and render_video. *)

\* The semaphore, or a millisecond if a render is pending.
VideoWakes ==
    /\ video.at = "wait"
    /\ \/ semaphore.video > 0 /\ semaphore' = [semaphore EXCEPT !.video = @ - 1]
       \/ semaphore.video = 0 /\ video.pending_video /\ semaphore' = semaphore
    /\ video' = [video EXCEPT !.at = IF run_renderer_threads THEN "render" ELSE "ended"]
    /\ UNCHANGED <<rendering, render_context, pending_render_context, udp, audio, decoder,
                   got_frame, has_video_rendered_yet, pending_render, pending_video_frame,
                   run_renderer_threads, main, count>>

\* A frame that is pending is read: acknowledged, decoded, its cursor taken.
VideoTakesFrame ==
    /\ video.at = "render"
    /\ video' = IF pending_render_context.video
                THEN [video EXCEPT !.at = "decode", !.frame = render_context.video]
                ELSE [video EXCEPT !.at = "drain"]
    /\ UNCHANGED <<rendering, render_context, pending_render_context, semaphore, udp, audio,
                   decoder, got_frame, has_video_rendered_yet, pending_render,
                   pending_video_frame, run_renderer_threads, main, count>>

\* It was empty, or the decoder has it.
VideoConsumesFrame ==
    /\ video.at = "decode"
    /\ decoder' \in {decoder, video.frame}
    /\ pending_render_context' = [pending_render_context EXCEPT !.video = FALSE]
    /\ video' = [video EXCEPT !.at = "drain", !.frame = 0]
    /\ UNCHANGED <<rendering, render_context, semaphore, udp, audio, got_frame,
                   has_video_rendered_yet, pending_render, pending_video_frame,
                   run_renderer_threads, main, count>>

\* The decoder refuses a frame, or fails to give one: render_video returns -1.
DecoderFails ==
    /\ video.at \in {"decode", "drain"}
    /\ count.errors < MaxErrors
    /\ count' = [count EXCEPT !.errors = @ + 1]
    /\ pending_render_context' = [pending_render_context EXCEPT !.video =
                                      IF video.at = "decode" THEN FALSE ELSE @]
    /\ video' = [at |-> "notify", frame |-> 0, pending_video |-> FALSE]
    /\ UNCHANGED <<rendering, render_context, semaphore, udp, audio, decoder, got_frame,
                   has_video_rendered_yet, pending_render, pending_video_frame,
                   run_renderer_threads, main>>

\* Faulty: it waits for the next frame.
WaitsForNextFrame(got) ==
    IF got # 0 /\ ~pending_render
    THEN [video EXCEPT !.at = "update"]
    ELSE [video EXCEPT !.at = "notify", !.pending_video = FALSE]

\* Where the thread goes on with the frame it got: render_video returns 1 if the framebuffer
\* is still to be presented, and 0 if there is no frame.
AfterDrain(got) ==
    CASE got # 0 /\ pending_render  -> [video EXCEPT !.at = "wait", !.pending_video = TRUE]
      [] got # 0 /\ ~pending_render -> [video EXCEPT !.at = "update"]
      [] got = 0                    -> [video EXCEPT !.at = "notify", !.pending_video = FALSE]

\* All frames of the decoder are taken; the last one counts.
VideoDrains ==
    /\ video.at = "drain"
    /\ LET got == IF decoder # 0 THEN decoder ELSE got_frame
       IN  /\ got_frame' = got
           /\ video' = AfterDrain(got)
    /\ decoder' = 0
    /\ UNCHANGED <<rendering, render_context, pending_render_context, semaphore, udp, audio,
                   has_video_rendered_yet, pending_render, pending_video_frame,
                   run_renderer_threads, main, count>>

\* sdl_update_framebuffer,
UpdateFramebuffer ==
    /\ video.at = "update"
    /\ pending_video_frame' = got_frame
    /\ got_frame' = 0
    /\ video' = [video EXCEPT !.at = "mark"]
    /\ UNCHANGED <<rendering, render_context, pending_render_context, semaphore, udp, audio,
                   decoder, has_video_rendered_yet, pending_render, run_renderer_threads, main,
                   count>>

\* and sdl_render_framebuffer.
RenderFramebuffer ==
    /\ video.at = "mark"
    /\ pending_render' = TRUE
    /\ has_video_rendered_yet' = [has_video_rendered_yet EXCEPT !.context = TRUE]
    /\ video' = [video EXCEPT !.at = "notify", !.pending_video = FALSE]
    /\ UNCHANGED <<rendering, render_context, pending_render_context, semaphore, udp, audio,
                   decoder, got_frame, pending_video_frame, run_renderer_threads, main, count>>

\* Faulty: the audio thread is left to the next frame.
TellsNobody == semaphore

\* Audio that had to wait for the first picture is told.
Notified ==
    IF has_video_rendered_yet.context /\ ~has_video_rendered_yet.renderer
    THEN [semaphore EXCEPT !.audio = @ + 1] ELSE semaphore

VideoNotifies ==
    /\ video.at = "notify"
    /\ has_video_rendered_yet' = [has_video_rendered_yet EXCEPT !.renderer = has_video_rendered_yet.context]
    /\ semaphore' = Notified
    /\ video' = [video EXCEPT !.at = "wait"]
    /\ UNCHANGED <<rendering, render_context, pending_render_context, udp, audio, decoder,
                   got_frame, pending_render, pending_video_frame, run_renderer_threads, main,
                   count>>

-----------------------------------------------------------------------------
(* multithreaded_audio_renderer. *)

AudioWakes ==
    /\ audio.at = "wait" /\ semaphore.audio > 0
    /\ semaphore' = [semaphore EXCEPT !.audio = @ - 1]
    /\ audio' = [audio EXCEPT !.at = IF run_renderer_threads THEN "check" ELSE "ended"]
    /\ UNCHANGED <<rendering, render_context, pending_render_context, udp, video, decoder,
                   got_frame, has_video_rendered_yet, pending_render, pending_video_frame,
                   run_renderer_threads, main, count>>

\* Nothing is played before the first picture.
AudioTakesFrame ==
    /\ audio.at = "check"
    /\ audio' = IF has_video_rendered_yet.renderer /\ pending_render_context.audio
                THEN [at |-> "render", frame |-> render_context.audio]
                ELSE [audio EXCEPT !.at = "wait"]
    /\ UNCHANGED <<rendering, render_context, pending_render_context, semaphore, udp, video,
                   decoder, got_frame, has_video_rendered_yet, pending_render,
                   pending_video_frame, run_renderer_threads, main, count>>

AudioConsumesFrame ==
    /\ audio.at = "render"
    /\ pending_render_context' = [pending_render_context EXCEPT !.audio = FALSE]
    /\ audio' = [at |-> "wait", frame |-> 0]
    /\ UNCHANGED <<rendering, render_context, semaphore, udp, video, decoder, got_frame,
                   has_video_rendered_yet, pending_render, pending_video_frame,
                   run_renderer_threads, main, count>>

-----------------------------------------------------------------------------
(* The main thread. *)

\* sdl_present_pending_framebuffer takes the frame; it also presents when the bandwidth has
\* become insufficient.
Present(alert) ==
    /\ main = "loop"
    /\ pending_render \/ alert
    /\ alert => count.alerts < MaxAlerts
    /\ count' = IF alert THEN [count EXCEPT !.alerts = @ + 1] ELSE count
    /\ pending_render' = TRUE
    /\ pending_video_frame' = 0
    /\ main' = "present"
    /\ UNCHANGED <<rendering, render_context, pending_render_context, semaphore, udp, video,
                   audio, decoder, got_frame, has_video_rendered_yet, run_renderer_threads>>

\* After the frontend has rendered, which takes a while and no lock.
Presented ==
    /\ main = "present"
    /\ pending_render' = FALSE
    /\ main' = "loop"
    /\ UNCHANGED <<rendering, render_context, pending_render_context, semaphore, udp, video,
                   audio, decoder, got_frame, has_video_rendered_yet, pending_video_frame,
                   run_renderer_threads, count>>

\* The connection ends: first the UDP thread is joined,
StopSynchronizers ==
    /\ main = "loop"
    /\ main' = "stop"
    /\ UNCHANGED <<rendering, render_context, pending_render_context, semaphore, udp, video,
                   audio, decoder, got_frame, has_video_rendered_yet, pending_render,
                   pending_video_frame, run_renderer_threads, count>>

\* Faulty: only the video thread is woken.
WakesOnlyVideo == [semaphore EXCEPT !.video = @ + 1]

WakesBoth == [t \in Types |-> semaphore[t] + 1]

\* then destroy_renderer tells the other two to end
DestroyRenderer ==
    /\ main = "stop" /\ udp = "ended"
    /\ run_renderer_threads' = FALSE
    /\ semaphore' = WakesBoth
    /\ main' = "join"
    /\ UNCHANGED <<rendering, render_context, pending_render_context, udp, video, audio, decoder,
                   got_frame, has_video_rendered_yet, pending_render, pending_video_frame, count>>

\* and joins them.
Joined ==
    /\ main = "join" /\ video.at = "ended" /\ audio.at = "ended"
    /\ main' = "destroyed"
    /\ UNCHANGED <<rendering, render_context, pending_render_context, semaphore, udp, video,
                   audio, decoder, got_frame, has_video_rendered_yet, pending_render,
                   pending_video_frame, run_renderer_threads, count>>

-----------------------------------------------------------------------------
Udp == ReceiveVideo \/ ReceiveAudio \/ DropAudio \/ NoFrame \/ PostFrame \/ UdpEnds
Video == VideoWakes \/ VideoTakesFrame \/ VideoConsumesFrame \/ DecoderFails \/ VideoDrains
         \/ UpdateFramebuffer \/ RenderFramebuffer \/ VideoNotifies
Audio == AudioWakes \/ AudioTakesFrame \/ AudioConsumesFrame
Main == (\E alert \in BOOLEAN : Present(alert)) \/ Presented \/ StopSynchronizers
        \/ DestroyRenderer \/ Joined

Next == Udp \/ Video \/ Audio \/ Main

\* Every thread runs; whether the connection ends is open.
MainGoesOn == Present(FALSE) \/ Presented \/ DestroyRenderer \/ Joined

Fairness == WF_vars(Udp) /\ WF_vars(Video) /\ WF_vars(Audio) /\ WF_vars(MainGoesOn)

Spec == Init /\ [][Next]_vars /\ Fairness
-----------------------------------------------------------------------------
(* Properties. *)

\* The memory of a frame is released when the next one is taken, in another thread and
\* without a lock.  A video frame that is read or waits to be read always keeps it; an audio
\* frame loses it only to a frame that is taken to be dropped (audio.cpp:623), and the next
\* one that is handed over has it again.
Held(t) == pending_render_context[t] => render_context[t] = rendering[t]

FrameIsKept == Held("video") /\ (rendering.audio # count.dropped => Held("audio"))

\* "If the renderer wants a new frame, it must be done with the old frame, so we can free it
\* now" (sync_packets.cpp:135), of audio too.
RendererIsDone == Held("video") /\ Held("audio")

\* Audio that came before the first picture does not stay behind (renderer.c:225): its post
\* of the semaphore is used up, and no frame follows while it is pending.
AudioFollowsVideo ==
    pending_render_context.audio /\ has_video_rendered_yet.renderer
        ~> ~pending_render_context.audio \/ main \in {"stop", "join", "destroyed"}

\* A decoded frame gets to the screen although the thread had to skip it while the last one
\* was being presented (video.cpp:334), also when no other frame follows.  A decoder error
\* at that moment makes the thread wait for the next frame, and when the bandwidth becomes
\* insufficient the flag may be cleared under a new frame (sdl_utils.c:412).
DecodedIsPresented ==
    got_frame # 0 \/ pending_video_frame # 0
        ~> \/ got_frame = 0 /\ pending_video_frame = 0
           \/ main \in {"stop", "join", "destroyed"}
           \/ count.errors + count.alerts > 0

\* destroy_renderer returns (renderer.c:155), whatever the threads wait for, also though
\* nothing is presented any more.
RendererEnds == main = "stop" ~> main = "destroyed"

=============================================================================
