------------------------------ MODULE VideoCapture ------------------------------
(***************************************************************************)
(* The video thread of the server (server/video.c) with the capture device  *)
(* (whist/video/capture/linuxcapture.c), its manager thread, the encoders   *)
(* (whist/video/codec/encode.c, nvidia_encode.c) and the thread that makes  *)
(* one; and the message thread, which changes the size and stops and starts *)
(* the stream.                                                             *)
(*                                                                         *)
(* With a GPU there are two CUDA contexts: one is current in the video      *)
(* thread while the manager creates a capture session in the other, and     *)
(* then they are swapped.  An NVIDIA encoder belongs to a context, so a     *)
(* VideoEncoder has up to two.  Without a GPU the screen comes from X11 and *)
(* every change of the settings makes a new FFmpeg encoder.                 *)
(*                                                                         *)
(* CUDA, NvFBC, NVENC, FFmpeg and X11 are external; what they are asked to  *)
(* create they create, a capture may fail.  Contexts and encoders are       *)
(* numbered, 0 is NULL; a size is a number, 0 is the unknown size -1.       *)
(***************************************************************************)
EXTENDS Integers, FiniteSets

CONSTANTS
    Gpu,        \* USING_NVIDIA_CAPTURE, USING_NVIDIA_ENCODE, LTR_DEFAULT_SETTING
    Sizes,      \* what the client may ask for
    Resizes,    \* bound on MESSAGE_DIMENSIONS
    Starts,     \* bound on MESSAGE_START_STREAMING
    Changes,    \* bound on changes of the network settings
    Resets,     \* bound on stream resets and new connections
    Faults      \* bound on captures that fail

ASSUME VideoCaptureAssumption ==
    /\ Gpu \in BOOLEAN /\ Sizes \subseteq Nat \ {0} /\ Sizes # {}
    /\ {Resizes, Starts, Changes, Resets, Faults} \subseteq Nat

VARIABLES
    client_size,           \* client_width, client_height, client_dpi
    update_device, stop_streaming, stream_needs_restart, stream_needs_recovery,
    message,               \* what the message thread is about to set
    left,                  \* what the environment may still do
    device,                \* the CaptureDevice; number 0: NULL
    manager,               \* where multithreaded_nvidia_device_manager is
    cuda,                  \* the two context pointers, what is current, what exists
    encoder,               \* the VideoEncoder; its NVIDIA or FFmpeg encoders
    factory,               \* pending_encoder, encoder_finished, encoder_factory_result
    alive,                 \* the encoders that were created and not destroyed
    at,                    \* where the video thread is
    hand,                  \* its own: true_width and the like, update_encoder, the frame
    shot,                  \* the last frame that was encoded, and by whom
    asked                  \* whether a restart was asked for and no intra frame was encoded
                           \* since, and whether it came too late to be seen

stream == <<stop_streaming, stream_needs_restart, stream_needs_recovery, asked>>
client == <<client_size, message>>
vars == <<client_size, update_device, stop_streaming, stream_needs_restart,
          stream_needs_recovery, message, left, device, manager, cuda, encoder, factory, alive,
          at, hand, shot, asked>>

NoEncoder == [id |-> 0, ctx |-> 0, size |-> 0, wants_iframe |-> FALSE, fresh |-> TRUE]
NoVideoEncoder == [in |-> 0, idx |-> 0, of |-> [i \in 0 .. 1 |-> NoEncoder]]
NoDevice == [number |-> 0, size |-> 0, active |-> "x11", last |-> "x11", nvidia |-> 0,
             stale |-> FALSE, semaphore |-> 0, created |-> 0, pending_destruction |-> FALSE]
NoFactory == [pending |-> FALSE, finished |-> FALSE, size |-> 0, result |-> NoVideoEncoder]
Contexts == 0 .. 2 * (Faults + 1)
EncoderIds == 0 .. Faults + 4
Ended == {"left", "refused", "assert", "destroyed twice"}

TypeOK ==
    /\ client_size \in Sizes \cup {0} /\ message \in {"none", "device", "restart"}
    /\ {update_device, stop_streaming, stream_needs_restart, stream_needs_recovery} \subseteq BOOLEAN
    /\ asked \in {"no", "yes", "overtaken"}
    /\ device.size \in Sizes \cup {0} /\ device.nvidia \in Contexts
    /\ device.semaphore \in 0 .. 2 /\ device.created \in 0 .. 1
    /\ manager \in {"none", "wait", "create", "pop", "stale", "active", "post"}
    /\ {cuda.video, cuda.nvidia, cuda.current, cuda.managers} \subseteq Contexts
    /\ cuda.live \subseteq Contexts
    /\ \A i \in 0 .. 1 : encoder.of[i].id \in EncoderIds
    /\ alive \subseteq EncoderIds
    /\ at \in {"top", "device", "reconfigure", "create", "factory", "settings", "capture", "x11",
               "destroy", "send", "due", "transfer", "flags", "force", "clear", "encode"} \cup Ended

Init ==
    /\ client_size = 0 /\ update_device = TRUE /\ stop_streaming = FALSE
    /\ stream_needs_restart = FALSE /\ stream_needs_recovery = FALSE /\ asked = "no"
    /\ message = "none"
    /\ left = [resizes |-> Resizes, starts |-> Starts, changes |-> Changes, resets |-> Resets,
               faults |-> Faults]
    /\ device = NoDevice /\ manager = "none"
    /\ cuda = [video |-> 0, nvidia |-> 0, current |-> 0, managers |-> 0, live |-> {}]
    /\ encoder = NoVideoEncoder /\ factory = NoFactory /\ alive = {}
    /\ at = "top"
    /\ hand = [size |-> 0, new |-> TRUE, update |-> FALSE, captured |-> FALSE, type |-> "normal",
               leaving |-> FALSE]
    /\ shot = [type |-> "intra", by |-> 0, after |-> 0]

-----------------------------------------------------------------------------
(* The message thread: server/handle_client_message.c *)

\* handle_dimensions_message: the size, and then the flag
Dimensions(s) ==
    /\ message = "none" /\ left.resizes > 0
    /\ client_size # s
    /\ client_size' = s /\ message' = "device"
    /\ left' = [left EXCEPT !.resizes = @ - 1]
    /\ UNCHANGED <<update_device, stream, device, manager, cuda, encoder, factory, alive, at,
                   hand, shot>>

\* handle_streaming_toggle_message
StopStreaming ==
    /\ message = "none" /\ ~stop_streaming /\ left.starts > 0
    /\ stop_streaming' = TRUE
    /\ UNCHANGED <<client, left, update_device, stream_needs_restart, stream_needs_recovery, asked,
                   device, manager, cuda, encoder, factory, alive, at, hand, shot>>

StartStreaming ==
    /\ message = "none" /\ stop_streaming /\ left.starts > 0
    /\ stop_streaming' = FALSE /\ message' = "restart"
    /\ left' = [left EXCEPT !.starts = @ - 1]
    /\ UNCHANGED <<client_size, update_device, stream_needs_restart, stream_needs_recovery, asked,
                   device, manager, cuda, encoder, factory, alive, at, hand, shot>>

\* The video thread has looked at the flags for the last time before it clears them, and what
\* it will encode is not an intra frame.
PastTheLook == at = "clear" /\ hand.type # "intra"

\* The flag that follows
SetFlag ==
    /\ message # "none" /\ message' = "none"
    /\ update_device' = (update_device \/ message = "device")
    /\ stream_needs_restart' = (stream_needs_restart \/ message = "restart")
    /\ asked' = IF message # "restart" \/ asked = "yes" THEN asked
                ELSE IF PastTheLook THEN "overtaken" ELSE "yes"
    /\ UNCHANGED <<client_size, left, stop_streaming, stream_needs_recovery, device, manager,
                   cuda, encoder, factory, alive, at, hand, shot>>

-----------------------------------------------------------------------------
(* CUDA contexts: whist/video/cudacontext.c *)

\* Bug: the pointer of the manager is left as it was.
KeepsPointer(c) == [c EXCEPT !.current = c.video]

\* The swap that follows when the manager has put its context into the video pointer: the
\* current context of the video thread goes into the other pointer.
Swapped(c) == [c EXCEPT !.nvidia = c.current, !.current = c.video]

SwapIfStale == IF device.stale THEN Swapped(cuda) ELSE cuda

\* cuda_init for both pointers, which are NULL, and the pop of the second
CreatedContexts(n) ==
    [video |-> 2 * n - 1, nvidia |-> 2 * n, current |-> 2 * n - 1, managers |-> 0,
     live |-> {2 * n - 1, 2 * n}]

-----------------------------------------------------------------------------
(* The manager thread of the capture device: linuxcapture.c *)

ManagerOnly == UNCHANGED <<client, left, update_device, stream, encoder, factory, alive, at, hand,
                           shot>>

ManagerWakes ==
    /\ manager = "wait" /\ device.semaphore > 0
    /\ device' = [device EXCEPT !.semaphore = @ - 1]
    /\ IF device.pending_destruction
       THEN manager' = "none" /\ UNCHANGED cuda
       ELSE manager' = "create" /\ cuda' = [cuda EXCEPT !.managers = cuda.nvidia]
    /\ ManagerOnly

\* create_nvidia_capture_device, until it succeeds
ManagerCreates ==
    /\ manager = "create"
    /\ device' = [device EXCEPT !.nvidia = cuda.managers]
    /\ manager' = "pop" /\ UNCHANGED cuda /\ ManagerOnly

\* cu_ctx_pop_current_ptr(get_video_thread_cuda_context_ptr())
ManagerPops ==
    /\ manager = "pop"
    /\ cuda' = [cuda EXCEPT !.video = cuda.managers, !.managers = 0]
    /\ manager' = "stale" /\ UNCHANGED device /\ ManagerOnly

ManagerAnnounces ==
    /\ \/ manager = "stale" /\ device' = [device EXCEPT !.stale = TRUE] /\ manager' = "active"
       \/ manager = "active" /\ device' = [device EXCEPT !.active = "nvidia"] /\ manager' = "post"
       \/ manager = "post" /\ device' = [device EXCEPT !.created = @ + 1] /\ manager' = "wait"
    /\ UNCHANGED cuda /\ ManagerOnly

Manager == ManagerWakes \/ ManagerCreates \/ ManagerPops \/ ManagerAnnounces

-----------------------------------------------------------------------------
(* Encoders: encode.c, nvidia_encode.c *)

Active == encoder.of[encoder.idx]
FreshId == CHOOSE n \in EncoderIds \ {0} : n \notin alive /\ n # shot.by

\* create_nvidia_encoder, create_ffmpeg_encoder
Encoder(ctx, size) ==
    [id |-> FreshId, ctx |-> ctx, size |-> size, wants_iframe |-> FALSE, fresh |-> TRUE]

\* create_video_encoder
VideoEncoder(size) ==
    [NoVideoEncoder EXCEPT !.in = size,
                           !.of[0] = Encoder(IF Gpu THEN cuda.video ELSE 0, size)]

\* nvidia_reconfigure_encoder: another size needs an IDR frame
Reconfigured(e, size) ==
    [e EXCEPT !.size = size, !.wants_iframe = @ \/ e.size # size]

\* The encoders of a VideoEncoder
Ids(v) == {v.of[i].id : i \in 0 .. 1} \ {0}

-----------------------------------------------------------------------------
(* The video thread: multithreaded_send_video *)

VideoOnly == UNCHANGED <<client, manager>>

\* The client lock is taken anew: a new connection restarts the stream.  The size is read
\* before update_device is looked at.
Top ==
    /\ at = "top"
    /\ \E new \in {hand.new} \cup (IF left.resets > 0 THEN {TRUE} ELSE {}) :
          /\ stream_needs_restart' = (stream_needs_restart \/ new)
          /\ asked' = IF new THEN "yes" ELSE asked
          /\ left' = [left EXCEPT !.resets = IF new = hand.new THEN @ ELSE @ - 1]
    /\ hand' = [hand EXCEPT !.new = FALSE, !.size = client_size, !.captured = FALSE,
                            !.type = "normal"]
    /\ at' = IF client_size = 0 THEN "top" ELSE "device"
    /\ UNCHANGED <<update_device, stop_streaming, stream_needs_recovery, device, cuda, encoder,
                   factory, alive, shot>>
    /\ VideoOnly

\* update_current_device clears the flag before it does anything
UpdateDevice ==
    /\ at = "device"
    /\ at' = CASE device.number = 0 -> "create"
               [] update_device /\ device.number # 0 -> "reconfigure"
               [] OTHER -> "settings"
    /\ update_device' = FALSE
    /\ stream_needs_restart' = (stream_needs_restart \/ (update_device /\ device.number = 0))
    /\ UNCHANGED <<left, stop_streaming, stream_needs_recovery, asked, device, cuda, encoder,
                   factory, alive, hand, shot>>
    /\ VideoOnly

\* Bug: the session that is being created is not waited for.
NeverPending == FALSE

\* Whether a capture session is still being created
SessionIsPending == Gpu /\ device.created = 0

\* Bug: the stream is not restarted.
ResizesQuietly ==
    /\ at = "reconfigure" /\ at' = "settings"
    /\ ~SessionIsPending
    /\ device' = [device EXCEPT !.created = 0, !.stale = FALSE, !.nvidia = 0, !.active = "x11",
                                !.semaphore = @ + 1, !.size = hand.size]
    /\ cuda' = SwapIfStale
    /\ hand' = [hand EXCEPT !.update = TRUE]
    /\ UNCHANGED <<client, left, update_device, stream, manager, encoder, factory, alive, shot>>

\* reconfigure_capture_device: waits for the session that is being created, resizes the
\* display, destroys the session and lets the manager create another one.
Reconfigure ==
    /\ at = "reconfigure"
    /\ ~SessionIsPending
    /\ device' = IF Gpu
                 THEN [device EXCEPT !.created = 0, !.stale = FALSE, !.nvidia = 0,
                                     !.active = "x11", !.semaphore = @ + 1, !.size = hand.size]
                 ELSE [device EXCEPT !.size = hand.size]
    /\ cuda' = SwapIfStale
    /\ hand' = [hand EXCEPT !.update = TRUE]
    /\ stream_needs_restart' = TRUE
    /\ at' = "settings"
    /\ UNCHANGED <<client, left, update_device, stop_streaming, stream_needs_recovery, asked,
                   manager, encoder, factory, alive, shot>>

\* create_capture_device, with its contexts and its manager
CreateDevice ==
    /\ at = "create"
    /\ LET n == Faults - left.faults + 1
       IN  /\ device' = [NoDevice EXCEPT !.number = n, !.size = hand.size,
                                         !.semaphore = IF Gpu THEN 1 ELSE 0]
           /\ cuda' = IF Gpu THEN CreatedContexts(n) ELSE cuda
    /\ manager' = IF Gpu THEN "wait" ELSE "none"
    /\ at' = "factory"
    /\ UNCHANGED <<client, left, update_device, stream, encoder, factory, alive, hand, shot>>

\* The end of create_new_device: an encoder that is being made is waited for, and taken.
AwaitFactory ==
    /\ at = "factory"
    /\ factory.pending => factory.finished
    /\ encoder' = IF factory.pending THEN factory.result ELSE encoder
    /\ factory' = [factory EXCEPT !.pending = FALSE]
    /\ hand' = [hand EXCEPT !.update = TRUE]
    /\ stream_needs_restart' = TRUE
    /\ at' = "settings"
    /\ UNCHANGED <<client, left, update_device, stop_streaming, stream_needs_recovery, asked,
                   device, manager, cuda, alive, shot>>

\* update_video_encoder with an NVIDIA encoder: in place, or made at once
UpdateNvidia ==
    LET new == VideoEncoder(device.size)
    IN  /\ IF encoder = NoVideoEncoder
           THEN encoder' = new /\ alive' = alive \cup Ids(new)
           ELSE /\ encoder' = [encoder EXCEPT
                     !.in = device.size, !.of[encoder.idx] = Reconfigured(@, device.size)]
                /\ UNCHANGED alive
        /\ hand' = [hand EXCEPT !.update = FALSE]
        /\ UNCHANGED factory

\* update_video_encoder with an FFmpeg encoder, which cannot be reconfigured: the first one is
\* made at once, the next one by the factory, while the old one goes on with a new in_width.
MakeFirst ==
    /\ encoder = NoVideoEncoder
    /\ encoder' = VideoEncoder(device.size) /\ alive' = alive \cup Ids(encoder')
    /\ hand' = [hand EXCEPT !.update = FALSE]
    /\ factory' = [factory EXCEPT !.pending = FALSE]

StartFactory ==
    /\ encoder # NoVideoEncoder /\ ~factory.pending
    /\ factory' = [factory EXCEPT !.pending = TRUE, !.finished = FALSE, !.size = device.size]
    /\ encoder' = [encoder EXCEPT !.in = device.size]
    /\ hand' = [hand EXCEPT !.update = TRUE]
    /\ UNCHANGED alive

\* Bug: the result could be taken once more.
TakesAgain ==
    /\ encoder # NoVideoEncoder /\ factory.pending /\ factory.finished
    /\ alive' = alive \ Ids(encoder)
    /\ encoder' = factory.result
    /\ hand' = [hand EXCEPT !.update = FALSE]
    /\ UNCHANGED factory

\* The old one is destroyed in a thread of its own.
TakeResult ==
    /\ encoder # NoVideoEncoder /\ factory.pending /\ factory.finished
    /\ alive' = alive \ Ids(encoder)
    /\ encoder' = factory.result
    /\ factory' = [factory EXCEPT !.pending = FALSE]
    /\ hand' = [hand EXCEPT !.update = FALSE]

GoOnWithOld ==
    /\ encoder # NoVideoEncoder /\ factory.pending /\ ~factory.finished
    /\ encoder' = [encoder EXCEPT !.in = device.size]
    /\ hand' = [hand EXCEPT !.update = TRUE]
    /\ UNCHANGED <<factory, alive>>

\* Other network settings make the encoder be updated; a stream reset asks for a recovery.
Settings ==
    /\ at = "settings" /\ at' = "capture"
    /\ \E changed \in IF left.changes > 0 THEN BOOLEAN ELSE {FALSE},
          reset \in IF left.resets > 0 THEN BOOLEAN ELSE {FALSE} :
          /\ left' = [left EXCEPT !.changes = IF changed THEN @ - 1 ELSE @,
                                  !.resets = IF reset THEN @ - 1 ELSE @]
          /\ stream_needs_recovery' = (stream_needs_recovery \/ reset)
          /\ IF hand.update \/ changed
             THEN IF Gpu THEN UpdateNvidia
                  ELSE MakeFirst \/ StartFactory \/ TakeResult \/ GoOnWithOld
             ELSE UNCHANGED <<encoder, factory, alive, hand>>
    /\ UNCHANGED <<client, update_device, stop_streaming, stream_needs_restart, asked, device,
                   manager, cuda, shot>>

\* multithreaded_encoder_factory
Factory ==
    /\ factory.pending /\ ~factory.finished
    /\ factory' = [factory EXCEPT !.finished = TRUE, !.result = VideoEncoder(factory.size)]
    /\ alive' = alive \cup Ids(factory'.result)
    /\ UNCHANGED <<client, left, update_device, stream, device, manager, cuda, encoder, at, hand,
                   shot>>

-----------------------------------------------------------------------------
(* Capture *)

\* A stopped stream is not captured.
NoCapture ==
    /\ at = "capture" /\ stop_streaming /\ ~stream_needs_restart
    /\ at' = "send"
    /\ UNCHANGED <<client, left, update_device, stream, device, manager, cuda, encoder, factory,
                   alive, hand, shot>>

\* capture_screen with NvFBC; when that fails, X11 is used until the next resize.
CaptureNvidia ==
    /\ at = "capture" /\ (~stop_streaming \/ stream_needs_restart)
    /\ device.active = "nvidia"
    /\ cuda' = SwapIfStale
    /\ \/ /\ \E new \in BOOLEAN : hand' = [hand EXCEPT !.captured = new]
          /\ device' = [device EXCEPT !.stale = FALSE, !.last = "nvidia"]
          /\ at' = "send"
          /\ UNCHANGED left
       \/ /\ left.faults > 0 /\ left' = [left EXCEPT !.faults = @ - 1]
          /\ device' = [device EXCEPT !.stale = FALSE, !.active = "x11"]
          /\ at' = "x11"
          /\ UNCHANGED hand
    /\ UNCHANGED <<client, update_device, stream, manager, encoder, factory, alive, shot>>

UsesX11 ==
    \/ at = "x11"
    \/ at = "capture" /\ (~stop_streaming \/ stream_needs_restart) /\ device.active = "x11"

CaptureX11 ==
    /\ UsesX11
    /\ \E new \in BOOLEAN : hand' = [hand EXCEPT !.captured = new]
    /\ device' = [device EXCEPT !.last = "x11"]
    /\ at' = "send"
    /\ UNCHANGED <<client, left, update_device, stream, manager, cuda, encoder, factory, alive,
                   shot>>

\* Bug: the encoder outlives its contexts.
NothingWithDevice == {}

\* The encoder that goes with the device, in retry_capture_screen: an NVIDIA one must be
\* wrapped in its lifetime.
WithDevice == IF Gpu THEN Ids(encoder) ELSE {}

\* retry_capture_screen, up to the wait for the manager in destroy_capture_device
CaptureFails ==
    /\ UsesX11
    /\ left.faults > 0 /\ left' = [left EXCEPT !.faults = @ - 1]
    /\ alive' = alive \ WithDevice
    /\ encoder' = IF Ids(encoder) = WithDevice THEN NoVideoEncoder ELSE encoder
    /\ device' = [device EXCEPT !.last = "x11", !.pending_destruction = TRUE,
                                !.semaphore = IF Gpu THEN @ + 1 ELSE @]
    /\ at' = "destroy"
    /\ UNCHANGED <<client, update_device, stream, manager, cuda, factory, hand, shot>>

\* The client is gone: the end of multithreaded_send_video, up to the same wait
Leave ==
    /\ at = "top"
    /\ alive' = alive \ Ids(encoder) /\ encoder' = NoVideoEncoder
    /\ device' = [device EXCEPT !.pending_destruction = TRUE,
                                !.semaphore = IF manager # "none" THEN @ + 1 ELSE @]
    /\ hand' = [hand EXCEPT !.leaving = TRUE]
    /\ at' = IF device.number = 0 THEN "left" ELSE "destroy"
    /\ UNCHANGED <<client, left, update_device, stream, manager, cuda, factory, shot>>

\* The rest: cuda_destroy of both pointers, which must not name the same context
DestroyDevice ==
    /\ at = "destroy" /\ manager = "none"
    /\ at' = IF Gpu /\ cuda.video = cuda.nvidia THEN "destroyed twice"
             ELSE IF hand.leaving THEN "left" ELSE "top"
    /\ cuda' = [video |-> 0, nvidia |-> 0, current |-> 0, managers |-> 0,
                live |-> cuda.live \ {cuda.video, cuda.nvidia}]
    /\ device' = NoDevice
    /\ update_device' = TRUE
    /\ UNCHANGED <<client, left, stream, manager, encoder, factory, alive, hand, shot>>

-----------------------------------------------------------------------------
(* Sending *)

\* Bug: the requests are not looked at.
MayAlwaysDisable == ~hand.captured

\* disable_encoder: after many equal frames only empty ones are sent, unless a recovery point
\* is wanted.
MayDisableEncoder == ~hand.captured /\ ~stream_needs_restart /\ ~stream_needs_recovery

Send ==
    /\ at = "send"
    /\ at' = "due" \/ (MayDisableEncoder /\ at' = "top")
    /\ UNCHANGED <<client, left, update_device, stream, device, manager, cuda, encoder, factory,
                   alive, hand, shot>>

\* A frame is sent when there is a new one, a restart is asked for or it is time for one.
Due ==
    /\ at = "due"
    /\ at' = "transfer" \/ (~hand.captured /\ ~stream_needs_restart /\ at' = "top")
    /\ UNCHANGED <<client, left, update_device, stream, device, manager, cuda, encoder, factory,
                   alive, hand, shot>>

\* Bug: the encoder is used in a context that it does not belong to.
StaysInContext == FALSE

\* transfer_capture: an NVIDIA encoder of the other context is made or taken up again when the
\* contexts were swapped; nvidia_encoder_frame_intake adapts its size.
OtherContext == Gpu /\ Active.ctx # cuda.video

\* Bug: the other encoder goes on with the stream.
NeverForced == FALSE

\* *force_iframe
ForceIframe == OtherContext

Transfer ==
    /\ at = "transfer"
    /\ IF encoder.in # device.size
       THEN at' = "refused" /\ UNCHANGED <<encoder, alive, stream_needs_restart>>
       ELSE LET i    == IF OtherContext THEN 1 - encoder.idx ELSE encoder.idx
                e    == IF encoder.of[i].id = 0 THEN Encoder(cuda.video, Active.size)
                                                ELSE encoder.of[i]
            IN  /\ encoder' = [encoder EXCEPT
                      !.idx = i, !.of[i] = IF Gpu THEN Reconfigured(e, device.size) ELSE e]
                /\ alive' = alive \cup {e.id}
                /\ stream_needs_restart' = (stream_needs_restart \/ ForceIframe)
                /\ at' = "flags"
    /\ UNCHANGED <<client, left, update_device, stop_streaming, stream_needs_recovery, asked,
                   device, manager, cuda, factory, hand, shot>>

\* Bug: they are cleared also when nothing was seen.
ClearsAnyway ==
    /\ at = "flags"
    /\ at' = IF stream_needs_restart \/ stream_needs_recovery THEN "force" ELSE "clear"
    /\ UNCHANGED <<client, left, update_device, stream, device, manager, cuda, encoder, factory,
                   alive, hand, shot>>

\* The flags are looked at, looked at again, and cleared; the message thread may set one in
\* between.  Without long-term references an I-frame is asked for, and they are cleared anyway.
LookAtFlags ==
    /\ at = "flags"
    /\ LET wanted == stream_needs_restart \/ stream_needs_recovery
       IN  /\ at' = CASE Gpu /\ wanted -> "force" [] Gpu /\ ~wanted -> "encode" [] OTHER -> "clear"
           /\ encoder' = IF Gpu THEN encoder
                         ELSE [encoder EXCEPT !.of[encoder.idx].wants_iframe = @ \/ wanted]
    /\ UNCHANGED <<client, left, update_device, stream, device, manager, cuda, factory, alive,
                   hand, shot>>

\* Bug: a restart is taken for a reset.
OnlyMarksBroken == {"intra", "refer", "normal"}

\* ltr_force_intra, or ltr_mark_stream_broken: that takes back the newest of the frames that
\* are not acked, which need not be the newest that was sent, or starts anew if there is none.
\* The next action may then be any ("normal" stands also for one that creates a long-term
\* frame).
MayFollow == IF stream_needs_restart THEN {"intra"} ELSE {"intra", "refer", "normal"}

\* The flag is looked at once more, and ltr_get_next_action chooses the type of the frame.
Force ==
    /\ at = "force" /\ at' = "clear"
    /\ \E type \in MayFollow : hand' = [hand EXCEPT !.type = type]
    /\ UNCHANGED <<client, left, update_device, stream, device, manager, cuda, encoder, factory,
                   alive, shot>>

ClearFlags ==
    /\ at = "clear" /\ at' = "encode"
    /\ stream_needs_restart' = FALSE /\ stream_needs_recovery' = FALSE
    /\ UNCHANGED <<client, left, update_device, stop_streaming, asked, device, manager, cuda,
                   encoder, factory, alive, hand, shot>>

\* Bug: the first frame of an encoder is not known to be one.
ForgetsFirst == IF Active.wants_iframe THEN "intra" ELSE hand.type

\* The type of the frame that comes out: nvidia_encoder_encode, ffmpeg_encoder_send_frame
TypeOfFrame ==
    IF Active.wants_iframe \/ (~Gpu /\ Active.fresh) THEN "intra" ELSE hand.type

\* video_encoder_encode and the assert on the type; a frame that is too large is not sent,
\* which changes nothing here.
Encode ==
    /\ at = "encode"
    /\ at' = IF Gpu /\ TypeOfFrame # hand.type THEN "assert" ELSE "top"
    /\ encoder' = [encoder EXCEPT !.of[encoder.idx].wants_iframe = FALSE,
                                  !.of[encoder.idx].fresh = FALSE]
    /\ shot' = [type |-> TypeOfFrame, by |-> Active.id, after |-> shot.by]
    /\ asked' = IF TypeOfFrame = "intra" THEN "no" ELSE asked
    /\ UNCHANGED <<client, left, update_device, stop_streaming, stream_needs_restart,
                   stream_needs_recovery, device, manager, cuda, factory, alive, hand>>

-----------------------------------------------------------------------------
Video ==
    \/ Top \/ UpdateDevice \/ Reconfigure \/ CreateDevice \/ AwaitFactory \/ Settings
    \/ NoCapture \/ CaptureNvidia \/ CaptureX11 \/ CaptureFails \/ DestroyDevice
    \/ Send \/ Due \/ Transfer \/ LookAtFlags \/ Force \/ ClearFlags \/ Encode

Message == (\E s \in Sizes : Dimensions(s)) \/ StopStreaming \/ StartStreaming \/ SetFlag

Next == Message \/ Manager \/ Factory \/ Video \/ Leave

\* The threads run; a message that has set one value sets the other, too.
Fairness == WF_vars(Video) /\ WF_vars(Manager) /\ WF_vars(Factory) /\ WF_vars(SetFlag)

Spec == Init /\ [][Next]_vars /\ Fairness

-----------------------------------------------------------------------------
(* Properties *)

\* The display is resized and the capture session destroyed only when the manager is not
\* creating one: reconfigure_capture_device waits, since "otherwise nvidia drivers will
\* fail/crash".
ResizeWaits == [][at = "reconfigure" /\ at' # at => manager \in {"none", "wait"}]_vars

\* The two threads never work in the same CUDA context, whatever the order of the manager's
\* pop and of the swap in capture_screen or reconfigure_capture_device.
ContextsAreApart == cuda.managers # 0 => cuda.managers # cuda.current

\* A picture that NvFBC has left in a texture is encoded in the context the texture belongs to,
\* which is current in the video thread.
PictureIsInContext ==
    at = "encode" /\ device.last = "nvidia" => {Active.ctx, cuda.current} = {device.nvidia}

\* An NVIDIA encoder exists only while the capture device and its contexts do.
EncoderWithinDevice ==
    Gpu => /\ \A i \in 0 .. 1 : encoder.of[i].id # 0 => encoder.of[i].ctx \in cuda.live
           /\ device.number = 0 => alive = {}

\* transfer_capture never refuses a picture, which would end the server, the assert of the
\* video thread on the type of the frame holds, and the encoder really has the size of the
\* picture.
PictureIsTaken ==
    /\ at \notin {"refused", "assert"}
    /\ at = "encode" => Active.size = device.size

\* Whichever encoder made a frame, it also made the one before, or it is an intra frame: the
\* client is never sent a reference to a picture of another encoder.
ReferencesAreHeld == shot.type = "intra" \/ shot.by = shot.after

\* Where a restart is waiting for its frame
IsOnItsWay ==
    \/ stream_needs_restart
    \/ at \in {"clear", "encode"} /\ hand.type = "intra"

\* A restart that the message thread or a new connection asks for is answered by an intra frame:
\* the flag is not cleared unseen, unless it is set between the last look at it and its being
\* cleared, while a stream reset is dealt with.
RequestIsKept == asked = "yes" => IsOnItsWay

\* And the answer comes.
RequestIsAnswered == (asked = "yes" /\ client_size # 0) ~> (asked # "yes" \/ at \in Ended)

\* Whether "the stream needs to be restarted with new parameter sets and an intra frame"
\* (server/state.h): the flag stays set, whenever it is set, until such a frame follows.
RestartIsKept == asked # "no" => IsOnItsWay

\* Every encoder that exists is the one in use or the one that is being made for it: none is
\* lost, and the one in use is not destroyed.
EncodersAreOwned ==
    /\ alive = Ids(encoder) \cup (IF factory.pending /\ factory.finished THEN Ids(factory.result)
                                  ELSE {})

\* cuda_destroy is not called twice for one context.
DestroyedOnce == at # "destroyed twice"

\* When nothing is under way, the device has the size that the client asked for last.
SizeIsFollowed ==
    at = "top" /\ message = "none" /\ ~update_device => device.size = client_size

=============================================================================
