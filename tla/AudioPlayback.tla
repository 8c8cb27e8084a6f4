----------------------------- MODULE AudioPlayback -----------------------------
(***************************************************************************)
(* client/audio.cpp: how many frames of audio the client keeps.  The UDP   *)
(* thread takes frames from the ring buffer while the device's queue is    *)
(* short, drops some when there are too many and lets some be played twice *)
(* when there are too few; the audio thread decodes them and fills the     *)
(* device, or a buffer of its own when the device has run dry.             *)
(*                                                                         *)
(* A frame is its number, and lengths are counted in whole frames.  When   *)
(* the average of the samples asks for an adjustment, and when the target  *)
(* is scaled, is left open; the overflow is not.  The first picture has    *)
(* been shown (ClientRender).                                              *)
(***************************************************************************)
EXTENDS Integers, Sequences

CONSTANTS
    Targets,      \* values of the target size of the device's queue
    MaxFrames,    \* bound on the frames that come in
    MaxRing,      \* bound on the frames in the ring buffer
    MaxAdjusts,   \* bound on the decisions to drop or repeat by the samples
    MaxRefreshes  \* bound on changes of the audio device

\* What the constants have to be; the module that instantiates this one assumes it.  The scale
\* factor of the target size has a minimum and a maximum.
AudioPlaybackAssumption ==
    /\ Targets \subseteq Nat \ {0, 1}
    /\ \E smallest, largest \in Targets : \A t \in Targets : smallest <= t /\ t <= largest
    /\ MaxFrames \in Nat /\ MaxRing \in Nat /\ MaxAdjusts \in Nat /\ MaxRefreshes \in Nat

VARIABLES
    received,        \* the newest frame that has come in
    taken,           \* the newest frame taken from the ring buffer
    target,          \* get_device_queue_target_size
    is_overflowing, adjust_command,
    udp,             \* the UDP thread: where it is, the length of the device's queue it read
    pending_render_context,
    render_context,  \* the frame and the command handed over
    audio_state,
    buffer,          \* audio_buffering_buffer
    device,          \* the device's queue
    played,          \* the newest frame that was played
    audio,           \* the audio thread: where it is, what is left to get from the decoder
    count            \* of adjustments and refreshes

vars == <<received, taken, target, is_overflowing, adjust_command, udp, pending_render_context,
          render_context, audio_state, buffer, device, played, audio, count>>

Commands == {"NOOP_FRAME", "DROP_FRAME", "DUP_FRAME"}

TypeOK ==
    /\ {received, taken, played} \subseteq 0 .. MaxFrames
    /\ target \in Targets
    /\ is_overflowing \in BOOLEAN /\ adjust_command \in Commands
    /\ udp.at \in {"look", "decide"} /\ udp.len \in Nat
    /\ pending_render_context \in BOOLEAN
    /\ render_context.frame \in 0 .. MaxFrames /\ render_context.command \in Commands
    /\ audio_state \in {"BUFFERING", "PLAYING"}
    /\ buffer \in Seq(1 .. MaxFrames) /\ device \in Seq(1 .. MaxFrames)
    /\ audio.at \in {"idle", "check", "place"} /\ audio.left \in 0 .. 2

\* The scale factor starts at its minimum.
InitialTarget == CHOOSE t \in Targets : \A u \in Targets : t <= u

Init ==
    /\ received = 0 /\ taken = 0 /\ played = 0
    /\ target = InitialTarget
    /\ is_overflowing = FALSE /\ adjust_command = "NOOP_FRAME"
    /\ udp = [at |-> "look", len |-> 0]
    /\ pending_render_context = FALSE
    /\ render_context = [frame |-> 0, command |-> "NOOP_FRAME"]
    /\ audio_state = "BUFFERING"
    /\ buffer = <<>> /\ device = <<>>
    /\ audio = [at |-> "idle", left |-> 0]
    /\ count = [adjusts |-> 0, refreshes |-> 0]

\* Both sizes grow with the scale factor: 8 and 20 frames at the start.
OverflowSize(t) == (5 * t) \div 2

-----------------------------------------------------------------------------
(* The UDP thread. *)

Arrive ==
    /\ udp.at = "look"
    /\ received < MaxFrames /\ received - taken < MaxRing
    /\ received' = received + 1
    /\ UNCHANGED <<taken, target, is_overflowing, adjust_command, udp, pending_render_context,
                   render_context, audio_state, buffer, device, played, audio, count>>

\* audio_ready_for_frame reads the length of the device's queue
Look ==
    /\ udp.at = "look"
    /\ udp' = [at |-> "decide", len |-> Len(device)]
    /\ UNCHANGED <<received, taken, target, is_overflowing, adjust_command,
                   pending_render_context, render_context, audio_state, buffer, device, played,
                   audio, count>>

\* Faulty: the overflow is never declared over.
NeverOver(total, t) == is_overflowing \/ total > OverflowSize(t)

\* handle_overflowing: from above the one limit to below the other.
Overflowing(total, t) ==
    IF is_overflowing THEN total >= t + 1 ELSE total > OverflowSize(t)

\* Faulty: the frames that are about to be rendered are not counted.
NotCounted(command, len, t) == len <= t

\* Faulty: the queue is to stay below its target, so that a repeated frame may never fit.
StaysBelow(command, len, t) == len < t - (IF command = "DUP_FRAME" THEN 2 ELSE 1)

\* The frames fit into what the device's queue should hold.
HasRoom(command, len, t) == len <= t - (IF command = "DUP_FRAME" THEN 2 ELSE 1)

\* handle_sampling decides only while audio is playing.
Sampled == IF audio_state = "PLAYING" /\ count.adjusts < MaxAdjusts THEN Commands ELSE {adjust_command}

\* and decides on it; if a frame is wanted and there is one, receive_audio drops it or hands
\* it over, and the command is used up.
Decide ==
    /\ udp.at = "decide"
    /\ \E t \in Targets, s \in Sampled :
         LET over    == Overflowing(udp.len + received - taken, t)
             command == IF over THEN "DROP_FRAME" ELSE s
             drop    == command = "DROP_FRAME"
             wants   == ~pending_render_context /\ HasRoom(command, udp.len, t)
             takes   == (wants \/ drop) /\ taken < received
         IN  /\ target' = t
             /\ is_overflowing' = over
             /\ count' = [count EXCEPT !.adjusts = IF s = adjust_command THEN @ ELSE @ + 1]
             /\ taken' = IF takes THEN taken + 1 ELSE taken
             /\ adjust_command' = IF takes THEN "NOOP_FRAME" ELSE command
             /\ IF takes /\ ~drop
                THEN /\ render_context' = [frame |-> taken + 1, command |-> command]
                     /\ pending_render_context' = TRUE
                ELSE UNCHANGED <<render_context, pending_render_context>>
    /\ udp' = [at |-> "look", len |-> 0]
    /\ UNCHANGED <<received, audio_state, buffer, device, played, audio>>

-----------------------------------------------------------------------------
(* The audio thread: render_audio. *)

\* check_device_buffer_dry.
StateAfterCheck(dev) == IF Len(dev) = 0 THEN "BUFFERING" ELSE audio_state

\* The device may be opened anew, which empties its queue.  The frame goes to the decoder,
\* twice if it is to be repeated and the device is not dry.
Decode ==
    /\ audio.at = "idle" /\ pending_render_context
    /\ \E refresh \in BOOLEAN :
         /\ refresh => count.refreshes < MaxRefreshes
         /\ count' = [count EXCEPT !.refreshes = IF refresh THEN @ + 1 ELSE @]
         /\ device' = IF refresh THEN <<>> ELSE device
    /\ audio_state' = StateAfterCheck(device')
    /\ audio' = [at |-> "check",
                 left |-> IF render_context.command = "DUP_FRAME" /\ audio_state' # "BUFFERING"
                          THEN 2 ELSE 1]
    /\ UNCHANGED <<received, taken, target, is_overflowing, adjust_command, udp,
                   pending_render_context, render_context, buffer, played>>

\* The next decoded frame: the device may have run dry since.
CheckAgain ==
    /\ audio.at = "check" /\ audio.left > 0
    /\ audio_state' = StateAfterCheck(device)
    /\ audio' = [audio EXCEPT !.at = "place"]
    /\ UNCHANGED <<received, taken, target, is_overflowing, adjust_command, udp,
                   pending_render_context, render_context, buffer, device, played, count>>

\* Faulty: the new frame goes to the device before what was buffered.
NewFrameFirst(frame) == device \o <<frame>> \o buffer

Flushed(frame) == device \o buffer \o <<frame>>

\* It goes to the device, or, when buffering, to the buffer until that reaches the target.
Place ==
    /\ audio.at = "place"
    /\ IF audio_state = "PLAYING"
       THEN /\ device' = Append(device, render_context.frame)
            /\ UNCHANGED <<buffer, audio_state>>
       ELSE IF Len(buffer) + 1 > target - 1
       THEN /\ device' = Flushed(render_context.frame)
            /\ buffer' = <<>>
            /\ audio_state' = "PLAYING"
       ELSE /\ buffer' = Append(buffer, render_context.frame)
            /\ UNCHANGED <<device, audio_state>>
    /\ audio' = [at |-> "check", left |-> audio.left - 1]
    /\ UNCHANGED <<received, taken, target, is_overflowing, adjust_command, udp,
                   pending_render_context, render_context, played, count>>

RenderDone ==
    /\ audio.at = "check" /\ audio.left = 0
    /\ pending_render_context' = FALSE
    /\ audio' = [audio EXCEPT !.at = "idle"]
    /\ UNCHANGED <<received, taken, target, is_overflowing, adjust_command, udp, render_context,
                   audio_state, buffer, device, played, count>>

-----------------------------------------------------------------------------
\* The device plays.
PlayFrame ==
    /\ device # <<>>
    /\ played' = Head(device)
    /\ device' = Tail(device)
    /\ UNCHANGED <<received, taken, target, is_overflowing, adjust_command, udp,
                   pending_render_context, render_context, audio_state, buffer, audio, count>>

RenderAudio == Decode \/ CheckAgain \/ Place \/ RenderDone

Next == Arrive \/ Look \/ Decide \/ RenderAudio \/ PlayFrame

\* The threads run and the device plays; frames need not come.
Fairness == WF_vars(Look \/ Decide) /\ WF_vars(RenderAudio) /\ WF_vars(PlayFrame)

Spec == Init /\ [][Next]_vars /\ Fairness
-----------------------------------------------------------------------------
(* Properties. *)

LargestTarget == CHOOSE t \in Targets : \A u \in Targets : u <= t

\* The latency of audio is bounded: the length that audio_ready_for_frame goes by
\* (audio.cpp:566) may be stale when it looks whether a frame is pending (audio.cpp:620), so
\* that the frame rendered in between comes on top, but never more than that, twice.
DeviceIsBounded == Len(device) <= LargestTarget + 2

\* Whatever was dropped, repeated, buffered and flushed (audio.cpp:768), the frames come out
\* in their order: the buffer is empty while audio is playing, and goes out before the frame
\* that filled it.
HeardInOrder ==
    LET heard == <<played>> \o device \o buffer
                 \o (IF audio.left > 0 THEN <<render_context.frame>> ELSE <<>>)
    IN  \A i \in 1 .. Len(heard) - 1 : heard[i] <= heard[i + 1]

\* What has come in is taken in the end, rendered or dropped, also when the command to
\* repeat a frame outlives the reason for it and when the buffer overflows (audio.cpp:614).
RingDrains == received > taken ~> received = taken

\* Frames are not dropped for long after an overflow has passed.
OverflowPasses == is_overflowing ~> ~is_overflowing

=============================================================================
