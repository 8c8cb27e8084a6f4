# Verification of the Whist protocol

Whist streams a browser from a server to a client. The protocol (`src/protocol`) is a C/C++
program of two halves: `server/` captures, encodes and sends video, audio and GPU commands and
replays the user's input; `client/` receives, puts together, decodes and shows. Both link
`whist/`, which holds the transport, the codecs, the clipboard, files, input and utilities.
This directory models the parts of it whose correctness depends on the order of events, checks
them with TLC and proves the central results with TLAPS.

`PROJECT.json` maps every definition to the lines it models, lists the hazards of the code at
their lines with the properties that cover them, and a mutant for every property.

## Inventory

| Part | State | Operations | Interacts with |
|---|---|---|---|
| Ring buffer (`whist/network/ringbuffer.c`, `udp_get_packet`) | a ring of frames being received, IDs rendered / minimal / maximal, count of ready frames | receive a segment, take out the next frame, skip, reset, nack scan, self check | UDP thread fills it, renderers empty it |
| Nacks (`udp.cpp`, `ringbuffer.c`) | nack buffers, nack queue, what was asked for | send, nack, relay | ring buffer, send thread |
| FEC (`whist/fec`) | groups of segments, buffers of the decoder | cut, encode, register, decode | UDP |
| Congestion control (`network_algorithm.c`, `udp.cpp`) | bitrates, maxima, flags, timers, settings at both ends | measure, raise, lower, severe congestion, resize, send settings | UDP, encoder |
| Throttler (`throttle.c`) | tickets, coins | wait for bytes, set bitrate | every sender over UDP |
| TCP (`tcp.c`, `queue.c`) | send queue, semaphore, send thread, sockets, pings | send, receive, ping, lose, destroy | main and TCP threads |
| Session (`*/network.c*`, `whist_client.cpp`, `main.c`) | sockets, attempts, timers | attempt, confirm, connect, key, init, time out, retry | UDP and TCP |
| Client object (`server/client.c`, `rwlock.c`) | three flags, counts of readers and writers | activate, deactivate, lock, trylock, unlock | all threads of the server |
| Long-term references, video stream (`ltr.c`, `*/video.*`) | in-flight frames, good reference; codecs, acks, resets | next action, ack, nack, break, restart; decode, acknowledge | ring buffer, encoder |
| Cursor cache (`cursor.cpp`) | LRU cache at both ends, last cursor sent | add, check, clear | video stream |
| Capture and encoders (`server/video.c`, `linuxcapture.c`, `encode.c`) | CUDA contexts, devices, encoders, flags of requests | capture, resize, swap, reconfigure, restart | manager, factory and message threads |
| Decoder (`decode.c`) | kind of decoder, pictures | create, fall back, send, receive, render | video thread |
| Renderer and audio (`renderer.c`, `audio.cpp`, `sdl_utils.c`) | frames handed over, device queue, audio buffer | hand over, render, drop, repeat, present, end | ring buffer, decoder |
| Keyboard (`input.c`, `keyboard_mapping.cpp`) | keys held, locks, mapped combination, message numbers | key, pinch, snapshot, map | UDP |
| Clipboard (`whist/clipboard`) | clipboards, transfer threads, chunks | copy, pull, push, reset | TCP thread |
| Files (`whist/file`) | list of transfers, files written, groups dropped | drop, visit, receive, reset | TCP thread |
| Logger (`logging.c`) | items, free list, queue | log, print, overflow, flush, destroy | every thread |
| Backend, browser, host (`src/backend`, ...) | - | - | outside of the protocol |

What is hard here: UDP loses, duplicates and reorders, and repair is spread over both ends and
several threads; both ends keep caches (ring buffer, codec references, cursors, keyboard,
settings) that must agree without being compared; the server's threads share one client object
that comes and goes; flags and single slots pass messages between threads, some without a lock;
timeouts of the two ends must fit together; and lists and memory are used by one thread while
another changes them. What each part must guarantee is stated in the runs below.

## Modules

Components that have no state in common are checked in one run: an `MC` module instantiates them
side by side, the constant variable `component` (or `setting`, or `stream`, for instances of one
module) says which of them a behaviour is about, and the state space is the sum of theirs.

| Module | Code | Remarks |
|---|---|---|
| `RingBuffer` | `ringbuffer.c`, `udp_get_packet` | `MCRingBuffer`: three instances, one for each packet type |
| `Playout` | - | abstract: the order in which frames may be played; implemented by `RingBuffer`, used by `VideoStream` and `CursorCache` |
| `NackRepair` | `try_nacking`, nack buffers and queue | `MCNackRepair` |
| `SegmentGroups`, `ForwardErrorCorrection` | `rs_wrapper.c`, `fec.c` | in `MCFrames` |
| `LongTermReference`, `VideoStream` | `ltr.c`; `server/video.c`, `render_video`, acks and resets | operators on LTRState, and the stream around them; extended by `MCFrames` |
| `CursorCache` | `cursor.cpp`, `send_populated_frames`, `render_video` | extended by `MCTransfer` |
| `VideoCapture` | the video loop, `linuxcapture.c`, `nvidiacapture.c`, encoders | `MCVideoCapture`: three instances |
| `VideoDecoder` | `decode.c`, `client/video.cpp` | in `MCPlayback` |
| `ClientRender`, `AudioPlayback` | `renderer.c`, `sync_packets.cpp`, `sdl_utils.c`; `audio.cpp` | in `MCPlayback` |
| `CongestionControl` | `network_algorithm.c`, settings in `udp.cpp` | `MCCongestionControl`: two instances, in `MCThreads` |
| `Throttler` | `throttle.c` | in `MCTransfer` |
| `FifoQueue`, `TCPConnection` | `queue.c`, `tcp.c` | |
| `Channel` | - | abstract: what the users of the connection rely on; implemented by `TCPConnection`, assumed by `ClipboardSync` and `FileTransfer` |
| `Session` | handshakes, pings, timeouts, retries | in `MCServer` |
| `RWLock` | `rwlock.c` | extended by `MCThreads` |
| `ClientLock` | `client.c`, `main.c`, the server's threads | instantiates `RWLock`; extended by `MCServer` |
| `ClipboardSync` | `clipboard_synchronizer.c`, `clipboard.c`, `x11_clipboard.c`, `mac_clipboard.c` | extended by `MCClipboard` |
| `FileTransfer` | `file_synchronizer.c`, `file_drop.c` | in `MCTransfer` |
| `Keyboard` | `input.c`, `keyboard_mapping.cpp`, `uinput_input_driver.c`, `send_wcmsg` | extended by `MCFrames` |
| `Logger` | `logging.c` | `MCLogger`, in `MCClipboard` |
| `*Proofs` | - | theorems, see Proofs |

**RingBuffer.** `slots` is `receiving_frames`; a frame records which segments were received
(`got`), whether it owns a packet buffer (`buf`), was recovered by redundancy (`rec`) and can be
rendered (`fb`). One action per branch of `ring_buffer_receive_segment` (stale, known, new,
overflow), one per packet type of `udp_get_packet`, one for the self check and one for the scan
that looks for what to nack. `aborted` is set by every `FATAL_ASSERT` and `LOG_FATAL` on the way.
Loss, duplication and reordering need no state: any segment of a frame sent at most `MaxDelay`
frames ago may arrive at any time, any number of times, or never. Nacks and resends are such
duplicates. Bytes are left out, except whether a segment fits its buffer (`TooLarge`). The search
for a recovery point ends at `max_id` - `Size` - `ScanSlack`, where the code's slack is 10; a
recovery point below it is given up (`PassedBySearch`).

**NackRepair.** Frames of `Segments` segments, sent one by one; the server's nack buffers are a
ring indexed by frame; a nack is queued by the thread that receives it and served by the one that
sends, before its next segment. Nacks are handled in order with one round outstanding; the limit
on the bitrate of nacks is a loss.

**SegmentGroups, ForwardErrorCorrection.** The index arithmetic of `rs_wrapper.c` as operators,
and the encoder and decoder that use them: segments arrive in any order, any number of times, or
never; what a buffer holds and whose memory it is are followed to the decoded packet. The code
over GF(256) is external: any k blocks of a group of k are enough. Every group has a redundant
segment (see Observations).

**LongTermReference, VideoStream.** The in-flight list is a set ordered by `frame_counter`; the
recursive ack of references is the least closed set. A turn of the video thread's loop is one
action; it takes in the pending ack and reset request first, as the code does. The queue stands
for the frame that the send thread is sending and the one that waits for it; a frame that is too
large, or that the encoder left empty, is encoded but not queued. Acks and reset requests that
were ever made may come in at any time, in any order, again, or never. A codec is the last frame
and two long-term slots, each by frame number; a frame remembers what it was coded against, and
can be decoded if the decoder has that frame in that place. A reconnection replaces the client
and the connection, and leaves the server's state as it is.

**CursorCache.** Both caches are sequences of hashes, least recently used first. A frame carries
the cursor and whether it is "cached", and, for the properties, what was captured and what the
server's cache was. Frames are played as `Playout` allows.

**VideoCapture.** One action per stage of the loop in `multithreaded_send_video`, of the manager
thread and of the encoder factory; the message thread changes the size, stops, starts and resets
the stream in between. Contexts and encoders are numbered, and what belongs to which is followed.
What CUDA, NvFBC, NVENC and X11 are asked to create they create and every reconfiguration is
accepted; captures may fail. There is no fallback to FFmpeg encoders in a build with a GPU.
A request for a restart is followed from the moment its flag is set (`asked`): only an intra frame
answers it. After `ltr_mark_stream_broken` any frame may follow (`MayFollow`), since it takes back
the newest frame that is not acked, which need not be the newest one.

**VideoDecoder.** Kinds of decoders are tried in order; which can be set up and which take the
stream is open, except that software decoding always works. Decoders give a picture for a frame
without delay.

**ClientRender, AudioPlayback.** The first is the hand-over of frame memory between the UDP thread,
the render threads and the main thread, with the semaphores and flags of the code; the second is
how many audio frames are kept where, with drops, repeats, the buffer for a dry device and the
overflow. When averages ask for an adjustment is open.

**CongestionControl.** The decision tree of `network_algorithm.c` on integers, in a coarser unit
of bitrate; measurements are inputs, reduced to the side of each threshold they are on; the waits
keep their order. The main thread acts on a resize within a tick. Settings travel in packets that
are lost and overtake one another. `ENABLE_FEC` is false and there is no bitrate on the command
line. The main thread copies its settings part by part, and a signal of severe congestion, which
takes no mutex (`udp.cpp:683`), may come between any two of them; the packet that it sends then holds
a part of each (`SevereSent`).

**Throttler.** Tickets, the turn, the look at the bucket and the subtraction are separate steps;
the bitrate is changed in three steps without a lock; `size_t` wraps around at `Width`.

**FifoQueue, TCPConnection.** The ring array with its indices; at each end two producers, the send
thread, the semaphore that is posted after the mutex is released, the blocking `send`, pings,
`connection_lost`, and the destruction and re-creation of the connection, in the steps of `tcp.c`.
What the server sends at a time fits the network (else both ends could block in `send`).

**Session.** A tick is 500 ms; what a side can do it does before the next tick. The constants are
the code's timeouts. Outages hit any moment; what UDP has on the wire is lost, TCP flows again within a tick
of the outage's end, and closing takes at most a tick. Over TCP only the client sends pings: in its wait
for the init reply a ping that is not answered in time sets `connection_lost`, after which no packet
is taken any more, and the wait goes on to its end (`LosesHearing`, place "deaf"). The server's wait
for the init message ends when the client's socket is closed, or after 1000 s (`InitWait`).

**RWLock.** Each critical section is one step; the window in `read_lock` in which both mutexes
are held is a place of its own (`count`), as is the broadcast outside of the mutex (`signal`).
Waits on a condition may end without a broadcast.

**ClientLock.** A thread's `pc` says where it is in the calls of `client.c`; places inside of
`read_lock` and `write_lock` are the lock's. The main thread connects, activates, deactivates and
shuts down as in `main.c`; the video thread queues frames for the send thread through the two
semaphores while it holds a lock; TCP (and, as `Loopers`, audio and GPU) renew their lock in a
loop; D-Bus notifications and signal handlers (`Visitors`) try for one. `verify_deactivation`,
which ends the server when deactivation takes 10 seconds, is not modelled: that it has nothing to
do is part of `ShutdownEnds`.

**ClipboardSync.** At each end the TCP loop and one thread per transfer; calls under
`clipboard_action_mutex` are steps; the OS clipboards are read and set with their own delays;
thread IDs are reused after a join.

**FileTransfer.** The client's list is walked without its mutex while the main thread adds to it;
a file's handle is its position; the server keeps the files it writes and the list of names to
drop. A disconnection cuts the wire anywhere.

**Keyboard.** Key events, snapshots and pinches travel under numbers that another thread may
disturb; the server maps a Mac's combinations and keeps what it presses. Num lock is handled like
caps lock and left out.

**Logger.** Items move between free list, queue and the hands of a thread; the crash handler gives
the logger thread a second and then flushes itself.

## Runs

| Run (module, states) | What it shows | Bounds |
|---|---|---|
| `ring` (`MCRingBuffer`, 9,801) | no assert fails (`NoAbort`); counts of ready frames are exact (`PendingCountExact`, `OtherCountsExact`); frames are played whole and in order (`PlaysInOrder`); a stream that lost frames goes on (`StreamsPlayOn`) | video: ring of 2, 5 frames (two turns) of 1, 2 and 2+1 redundant segments, the redundant one may be too large, delay up to a whole turn, no slack in the search for recovery points, so that it does not reach back to all frames; audio 6 and GPU 5 frames in a ring of 3 |
| `frames` (`MCFrames`, 1.38 M) | what may be played can be decoded, and both codecs hold the good reference (`PlayableIsDecodable`, `GoodReferenceIsHeld`); packets are decoded right, and as soon as they can be (`DecodingIsSound`); snapshots bring the server's keys in line, mapped combinations stand alone (`KeyboardFollows`) | stream of 5 frames, 3 in flight, a new I-frame after 3, one disruption; packets of 1 to 7 segments, redundancy 20% and 50%, groups of 5, overhead 2; 4 keys, Mac and Linux clients, 3 events, one of: pinch, race, reconnection |
| `nack_repair` (`MCNackRepair`, 518 k) | no nack for a frame that does not exist (`NacksAreAnswerable`); what can be repaired is (`RepairCompletes`) | 3 frames of 2 segments, 2 nack buffers, 2 nacks, 2 losses |
| `tcp_connection` (`TCPConnection`, 226 k) | no packet stays in a queue unannounced (`NoPacketStranded`); the connection implements `Channel` (`ChannelSpec`); closing ends (`ClosingEnds`) | queue of 2, network of 2, one ping, 2 and 1 sends, one re-connection |
| `server` (`MCServer`, 470 k) | who holds a client lock uses an active client, and nobody sleeps with `cond_mutex` (`ClientLockIsSafe`); deactivation and exit end (`ShutdownEnds`); outages end in a session again (`SessionIsKept`); no deadlock of the client lock | two connections; main, video, send, TCP and D-Bus threads; two outages of together 12 ticks = 6 s, the code's timeouts |
| `clipboard` (`MCClipboard`, 497 k) | no chunk for a thread that is gone (`PointersAreLive`); only whole copies are set, in order (`SettersAreSafe`); transfers come to rest with the newest copy (`CopiesSettle`); log lines are kept and flushed (`LinesAreKept`, `EverythingIsFlushed`); no deadlock of the clipboards | 3 thread IDs at each end, 2 chunks, 2 copies, one reconnection; 2 threads with 2 lines each, 2 items |
| `video_capture` (`MCVideoCapture`, 1.34 M) | contexts, pictures and encoders belong together (`CaptureIsSound`); a restart is answered by an intra frame, but for the case of `lost_restart` (`RequestsAreAnswered`) | GPU: 2 size messages and one fault, or one with a restart and a reset; no GPU: 3 size messages, a change of settings, a reset |
| `threads` (`MCThreads`, 170 k) | exclusion, no lost wake-up, writers are not kept out (`Exclusion`, `NoLostWakeup`, `SomeWriterWrites`), no deadlock of the readers-writer lock; rates, maximum and flags are consistent (`RatesAreSound`); whatever mixture of settings two threads leave behind, the server's two bitrates are positive and within the burst ratio of each other (`ServedRatesAreNear`); the server ends up with the client's settings, and probing ends (`NetworkSettles`) | 3 readers, 2 writers; 2 windows, 2 packets, one new rate and one fault, delays above their threshold; or all measurements, 3 new rates, one severe congestion |
| `playback` (`MCPlayback`, 257 k) | a video frame's memory is not released while it is read, an audio frame's only for one that is dropped (`FrameIsKept`); audio is in order and bounded (`AudioIsInOrder`); no picture of a replaced decoder is shown (`PictureIsHeld`); playing and ending go on (`PlaybackGoesOn`) | 2 video and 2 audio frames, one drop, error, alert; 6 audio frames, targets 2 and 4; 3 kinds of decoders, 2 sizes, 4 frames |
| `transfer` (`MCTransfer`, 490 k) | cursor caches in step (`CachesAgree`, `ShowsCapturedCursor`); files arrive whole (`FilesArriveWhole`), drops are complete and end (`DropsSettle`); one thread at the bucket, bounded bursts (`ThrottlingIsSound`), every ticket is served (`EveryTicketIsServed`) | 4 cursors, 3 with an image, cache of 2, 4 frames; 2 files of up to 2 pieces, window of 2, one reconnection; 3 threads, sizes 1 and 3, buckets 1 and 4, 4 tickets, one change |
| `drops` (`MCPlayback`, violation) | a comment says that the renderer is done with the last frame when it wants another (`RendererIsDone`): not when it wants to drop it | as `playback` |
| `lost_restart` (`VideoCapture`, violation) | the flag of a restart stays until an intra frame follows (`RestartIsKept`): not when it is set between the last look at it and its being cleared, behind a stream reset | with a GPU: one size message, one restart, one reset |

The bounds are chosen so that every branch is taken: the ring turns over, the in-flight list, the
cache and the queues overflow, a recovery follows a recovery, a client is replaced, a bucket wraps
around. The constants of the code (ring of 256, 60 frames in flight, 20 cursors, queue of 16) differ
from them mostly in size, and where a theorem exists it covers all sizes. The timeouts of `Session`
are the code's own. With 13 ticks of outages instead of 12 (`OutageTicks` in `MCServer.cfg`)
`SessionIsKept` fails: the client's attempts are used up, some of them on a server that still holds
the dead session. `CHECK_DEADLOCK FALSE` is used where a bound or the user ends the behaviour;
in `MCServer`, `MCThreads` and `MCClipboard` a stuttering step of the session, the settings and the
logger does the same for those alone, so that deadlock is checked for the two locks and the
clipboards. In `MCThreads` the instance with resizes and faults measures only delays above their
threshold; the one with every kind of measurement has no resizes and no losses.

### Fairness

Always weak fairness of what a thread does once it has been called, and nothing about users, losses
or failures; nothing is assumed of the network but where noted.

* ring: `udp_get_packet`, which the client's loop calls for every stream in every turn.
* nack_repair: sending, serving, `try_nacking`, handling a nack, and arrival of a segment that is
  not lost (losses are bounded).
* tcp_connection: each thread; that it is told to stop is assumed only once the connection is lost.
* session: the next step; time passes.
* client lock: each thread's steps, including that it renews its lock (the loops of `server/*.c` do
  so in every turn, and what they call in between does not block). Strong fairness in one place:
  the main thread, about to mark the client for deactivation, gets `cond_mutex` although the others
  keep taking it for short times. No operating system promises it for a plain mutex; the others
  hold it for a few instructions and sleep in between.
* readers-writer lock: each thread inside of a call; holding the lock ends.
* clipboard: each transfer thread and pulling; strong fairness of receiving, which alternates with
  pulling; reconnecting.
* files: adding the entry that the main thread has in hand, the client's loop, the server's
  receiving. Throttler: each sender, and time. Logger: a writer with an item, the logger thread, the
  crash handler, destruction.
* renderer, audio, decoder: every thread; the device plays on.
* video_capture: the video thread (but for its end), the manager, the factory's flag.
* network settings: time, video that keeps arriving and being measured (without a new rate: those
  are bounded), the main thread, arrival of what is not lost, the server's start.

## Observations

Two disagreements of the code with its comments are runs of their own, which TLC ends with a
counterexample:

* `drops`: "If the renderer wants a new frame, it must be done with the old frame, so we can free it
  now" (`client/sync_packets.cpp:135`). `audio_ready_for_frame` wants a frame also when it is to be
  dropped, without a look at `pending_render_context` (`audio.cpp:623-624`), and the frame that the
  audio thread has yet to read is freed. `FrameIsKept` states what holds nevertheless.
* `lost_restart`: "Whether the stream needs to be restarted with new parameter sets and an intra
  frame" (`server/state.h:91`). The flag is looked at in `server/video.c:820-821` and cleared in 827. When
  a stream reset is dealt with and another thread sets it in between, it is cleared unseen, and
  `ltr_mark_stream_broken` promises no intra frame. `RequestsAreAnswered` covers every other moment.
  Without long-term references the flags are cleared in 849 also when nothing was seen, so that
  nothing is claimed there.

The others were seen while modelling; where a `.cfg` is named, `tlc -config X.cfg M` shows it. None of
them contradicts a property of the passing runs, which state what the code does guarantee.

*Transport.*
* The last segment of a frame that has exactly the maximal size is dropped, since the check is `>=`
  (`ringbuffer.c:397`): `MCRingBufferFull.cfg` with `MCRingBuffer`, `NoAbort` fails. A packet more
  than a whole turn of the ring late is taken for a new one after an overflow (`ringbuffer.c:298`;
  `MaxDelay > Size`).
* A group of two or more segments without a redundant one lets `cm256_decode` return -1 and the
  `FATAL_ASSERT` in `rs_wrapper.c:560` fail. It takes more than 256 segments and a ratio below
  1/256. With `ForwardErrorCorrection` alone, `Ratios = {10}` and the other constants of `MCFrames.cfg`,
  `NoAbort` fails.
* A partial `send` advances by the size of a structure and by the full size (`tcp.c:872`).
* Severe congestion is signalled without the mutex and races with the copy of a resize
  (`udp.cpp:683`, against `1371-1380`), so that a packet may hold a part of each: the burst bitrate is then
  below the video bitrate, or above it while the link is being filled, although it is raised "only after exceeding max bitrate"
  (`network_algorithm.c:115`). `MCBursts.cfg` with `MCThreads`: `BurstsMatch` fails. Neither
  rate is ever more than the burst ratio away from the other (`ServedRatesAreNear`). A "decrease" can raise the
  rate (`network_algorithm.c:341`); `last_update_timer` is static and outlives a connection
  (`:404`); the flag of insufficient bandwidth outlives a resize and a reconnection; severe
  congestion before any settings leaves `desired_codec` unset.
* A bucket that shrinks can wrap around (`throttle.c:108`); the next filling repairs it. The last sender
  reads `group_id` and unlocks after it passed its turn, when the throttler may be destroyed (`:126`).

*Session.*
* The client's wait for the init reply ignores `socket_update` and compares seconds with
  milliseconds (`client/network.cpp:112`): it may hang for 500 s, also when the reply has come, which is
  not taken any more once a ping went unanswered (`tcp.c:279-282`, 352). The server has the same mix of
  units (`server/network.c:222`), but `socket_update` ends its wait when the client's socket is closed;
  pings do not, since only the client sends them. The server exits after 60 s
  without a client by default, so that a client that overslept finds none.
* The send thread resets a counter of the socket context after it gave its lock back
  (`server/video.c:536`): with `Visitors = {}`, no `Loopers`
  and `MaxConnections = 2`, TLC finds that `ContextUsedWhileActive` of `ClientLock` fails.
* Waiting writers get the readers-writer lock in any order, not in that of their requests
  (`rwlock.h:20`); the server has only one writer.

*Video.*
* `ltr_mark_stream_broken` nacks the newest frame *in flight*, which is not the newest frame when
  that was acked already; the next frame is then no recovery point (`ltr.c:440`):
  `VideoStreamReset.cfg` with `VideoStream`. A `CREATE` frame that drops out of the in-flight list
  leaves `create_long_term_outstanding` set until the next recovery (`ltr.c:159`).
* The send thread looks for a client after it took a frame; the frame may be the old client's
  (`server/video.c:521`; with `SlowSender = TRUE` in `VideoStreamReset.cfg`, `PlayableIsDecodable` fails).
* When the decoder refuses a frame, its cursor is lost at the client, and a later assert fails
  (`client/video.cpp:254`): with `DecoderMayFail = TRUE` in
  `MCTransfer.cfg`, `ShowsCapturedCursor` fails, and alone `CachesAgree` too.
* The size is read before `update_device` is checked (`server/video.c:658`): with `Resizes = 2` and
  `INVARIANT SizeIsFollowed` in `VideoCaptureRestart.cfg`, TLC shows it. A device may be destroyed between the manager's pop and the swap
  (`linuxcapture.c:464`): the same with `Faults = 1` and `DestroyedOnce`; the code goes on with a dangling
  pointer there, and the model ends. Without a GPU, a second resize while the
  factory works installs an encoder of the wrong size, which ends the server; `create_new_device`
  overwrites a live encoder; without long-term references, flags are cleared unconditionally
  (`video.c:849-850`). `nvidia_reconfigure_encoder` never stores bitrate and VBV size. The semaphore
  that the comment in `linuxcapture.c:44-48` speaks of is not posted when NvFBC fails, and the
  manager's loop retries for ever.
* The loop that sends packets to the decoder does not end if software decoding refuses too
  (`decode.c:484`); a decoder freed on an error is still named (`:561`); `got_frame_from_decoder`
  survives the decoder (`:602`).
* `pending_render` is cleared under a new frame when bandwidth becomes
  insufficient (`sdl_utils.c:412`); after a decoder error the decoded frame stays until the next
  post; the end of a sound, up to one frame less than the target, stays in the audio buffer.

*Input, clipboard, files, log.*
* `last_input_id` is never stored (`server/network.c:128`); `wcmsg_id` is drawn without a lock; the
  keys held by a mapping survive a reconnection with another OS.
* The flag that skips the clipboard's own change is a single bool (`clipboard.c:35-37`): two quick sets
  echo, and may revert; a set of data without a type leaves it set, and the next copy is
  lost. When both users copy at once, the starts of the two transfers end both. Reading the X11
  clipboard swallows events (`x11_clipboard.c:331`).
* The file mutex stays locked after data for an unknown file (`file_synchronizer.c:287`); the list of names
  outlives a connection (`file_drop.c:320`) and is neither reset nor the display unlocked when no
  window can be entered; names with a newline are not dropped.
* `flush_logs`, after its second, can overtake the line in the logger thread's hand and leave it unflushed;
  `FATAL_ASSERT(writers == 0)` fails if a thread still logs while the logger is destroyed.

*Backend* (not modelled): concurrent requests to assign a mandelbox can pick the same waiting row,
and capacities are written back as whole rows that may be stale.

## Proofs

All theorems hold for every value of the constants that satisfies the named assumptions: rings,
queues, caches, windows and thread sets of every size, any number of frames, packets and
connections. They are about the specifications the runs check, whose safety part
`Init /\ [][Next]_vars` is all they use. In each module the inductive invariant comes first, then
the lemmas, one per action, then the theorems.

**RingBufferProofs.** From `Environment` (no segment is more than a whole turn late; frames
without redundancy fit; audio frames are single segments), `Spec` implies `TypeOK`, `NoAbort`,
`PendingCountExact`, `BuffersAreAhead`, `PlayedFrameComplete`, and refines `Playout`
(`PlaysInOrder`). The properties are not inductive alone. `IndInv` adds for each slot: the frame
belongs to it, the flag `fb` is what `get_framebuffer` would say, a frame with a buffer lies ahead
of everything played or skipped, and one without was passed or has nothing left to receive
(`Settled`); and for the counters: where `last_rendered_id` may be, for each type. The delicate
case is the overflow, after which `last_rendered_id` is -1 while `currently_rendering_id` is not:
there the stream is a whole turn ahead (`newest > currently_rendering_id + Size`), so that no
packet of a played frame can still arrive. This is where `Environment` is needed.

**VideoStreamProofs.** `EverythingPlayableIsDecodable` and `GoodReferenceIsAlwaysHeld` prove
`PlayableIsDecodable` and `GoodReferenceIsHeld` under one hypothesis, `~SlowSender`: the send thread
has sent or dropped the frames of an old client before a new one is there. It holds unless that
thread sleeps through a whole handshake; without it the first property is false (see Observations).
A reference becomes good when an ack says that the client has it, and by then other frames may be on
their way that overwrite it, so `IInv` says:

* the counters of the encoder and of LTRState go with the frames that were made (`CountersAgree`),
  and the frames in flight are as LTRState has them (`InflightAgrees`);
* a frame that would become good if it were acked now is in the encoder and, once played, in the
  decoder (`CandidatesAreHeld`); while the newest I-frame is in flight there is no other
  candidate and no good reference, so that at most one slot is at stake;
* acks are closed under references (`AcksAreClosed`): the client played whatever an acked frame refers
  to, so that the recursive ack, the least closed set, marks only frames the client has played;
* the good reference is in both codecs and nothing awaited by the client overwrites it
  (`GoodIsHeld`); the same for the reference of every `REFER` frame that is on its way
  (`RefersAreHeld`);
* the decoder's last frame is the last that was played (`LastIsPlayed`), and an ack that is left over
  from an old client meets a stream that starts anew (`AckIsTrue`).

A frame that may be played is then either a recovery point or coded against the frame played
last, since empty frames change no codec.

**TransferProofs.** Of the cursor caches, `CachesAgree`, `ShowsCapturedCursor` and `CacheFollowsServer`, for a decoder
that takes every frame. The invariant says that every frame is the difference between what the
server had before and after it, starting from nothing at a recovery point (`FrameIsDelta`);
`Playout` then makes the client apply each difference to the right base.

Of the throttler, `ThrottlerIsSound` proves `ThrottlingIsSound`, for any threads, sizes and buckets
with a packet above the largest bucket still within a `size_t`. The invariant says that tickets lie
between the two counters and are distinct, and that the coins a thread has seen are there when it
takes them unless the bitrate was changed since the bucket was filled.

Of the files, `FilesAreWhole` proves `FilesArriveWhole`, for any number of files, chunks, groups and
connections and any window. The invariant is stated for one file, `FileFits`, so that the packets of
the others between its own do not matter:

* before its first visit the server knows nothing of it, and once its entry is removed its size is
  fixed (`WaitsAtClient`); its metadata are in front of all that is under way (`MetaFirst`);
* as long as the server has it open or will hear of it, before each chunk on the wire there are
  all the chunks from the last one written to that one, in front of the end of the file all that it
  has, and while the connection is up, on the wire all that the client has read
  (`BodiesFollow`). It says nothing of a file that the server could not open, whose chunks pass
  unread.

A connection that ends cuts the wire from the rear, which keeps each of these but the last, and that
one is needed again only for files of the next connection.

**RWLockProofs.** `Exclusion`, `NoLostWakeup` and `WriterIsPreferred` for all finite sets of
threads. The invariant says that the two counts are the cardinalities of sets of places, that no
writer was counted while a reader is at `count` (it holds the mutex of the writers' count), that
readers are gone once a writer has found none, and that `is_active_writer` stands for exactly one
writer.

**ThreadProofs.** Of the client lock, `UsesRWLock`: with the main thread as the writer, what the server's threads
do is a behaviour of `RWLock`, so that its theorems hold for the client lock; they are used through
an instance of `RWLockProofs`. `ClientLockIsAlwaysSafe`: `ClientLockIsSafe`, for any set of
threads and any number of connections. The invariant says that a thread's place in `client.c`
fits its place in `rwlock.c` (`PlacesAgree`), that a thread at `read_lock`, holding `cond_mutex`,
keeps the client from being marked (`LocksProtect`), and what the main thread knows of the flags at
each of its places (`MainKnows`). The heart is that `write_lock` returns only when there are no
readers (from the invariant of `RWLock`), so that nobody holds a client lock when the flag is cleared,
and that marking waits for `cond_mutex`, so that nobody who was granted a lock can find a writer
counted.

Of the logger, `LinesAreAlwaysKept` proves `LinesAreKept`, for any threads, any number of lines and
of items above one, with a crash handler and a destruction at any moment the code allows. The
invariant `LogInv`, which TLC checked before the proof:

* every item is in exactly one place, and who is in the middle of a line has one (`LogPlaces`,
  `ItemsArePlaced`);
* a writer is ahead of all that it queued, so that each line is queued once and has a place in the
  order (`WritersAreAhead`); what waits in the queue is in that order, after all that was printed
  and after the line in the logger thread's hand (`WaitingComesLast`);
* at most one line comes out late: none before `flush_logs` takes the mutex, since only then can
  the line in hand be overtaken; and while one is in hand and overtaken, none was late before
  (`OneIsLate`). This needs that the logger thread takes no line while `flush_logs` has the mutex;
* of the lines that were queued before `flush_logs`, each is out, overwritten, in hand or, until it
  is done, still in the queue (`OutstandingIsKnown`); and a note of the loss is on its way
  wherever the line that carries it is (`LossIsKnown`).

Of the client's renderer, decoder and audio thread: `FramesAreKept` proves `FrameIsKept`, for any
number of frames, errors, alerts and drops: a video frame keeps its memory while it is pending, and an
audio frame unless the frame taken last was dropped (the case of `drops`). That a thread reads a frame
only while it is pending is `ReadFrameIsHeld`. `PicturesAreHeld` proves
`PictureIsHeld`, for decoders that give a picture at once; a picture that was got is the decoder's
until an intra frame is sent that may replace the decoder, and then there is a new picture before
one is asked for (`DecodeInv`). `AudioIsAlwaysInOrder` proves `AudioIsInOrder`, for any targets. The
invariant says that what was played, what is in the device, what waits in the buffer and the frame in
hand are in their order, that the buffer is empty while the device plays, and bounds all that is
committed to the device, which includes what a look at the length of the queue still allows
(`AudioLengths`). It needs targets of at least two, which is what the code makes of them
(`audio.cpp:124`).

**TCPConnectionProofs.** The array of `queue.c` with its wrapped indices is a sequence
(`EnqueueAppends`, `DequeueTakesFirst`). With queues and networks of every size,
`NobodyIsStranded` proves `NoPacketStranded`, and `IsAChannel` the refinement of `Channel` by the
mapping that lines up the network, the packet in the hand of the send thread and the queue. The
invariant adds that only packets that were sent are queued or held, and that an end is closed only
after its threads have stopped (`ClosesInOrder`).

**ClipboardProofs.** `PointersAreAlwaysLive` proves `PointersAreLive`, `SettersAreAlwaysSafe`
`SettersAreSafe`, and `CopiesAreSetInOrder` the action property `NewestPushSets` (half of
`CopiesSettle`), for any number of threads, chunks, copies and reconnections. The invariant has a
part for each peer (`PeerIsSound`) and one for what is between the peers (`WireFits`):

* a thread that still reads the clipboard is the active one or was given up, so that none that comes
  late publishes (`LateOnesAreGivenUp`);
* the queued ID is that of the latest complete push, which still waits, and who writes has
  `setting_os_clipboard` (`SettersTakeTurns`); joining and starting threads changes neither, since
  only the IDs of threads that are done are used again;
* the chunks on the wire follow one another: a `MIDDLE` has the piece after that of its predecessor, a
  `FINAL` comes after the last piece of a copy, and no `MIDDLE` comes after a `FINAL`
  (`InSequence`);
* the first of them follows what the receiver's active push holds, and the last is what the
  sender's active pull sent last; with an empty wire these two agree. Each is needed for the
  other: a receiver that holds the head of a copy may meet only a `START` or the next piece of
  that copy. While there is no connection nothing is on the wire and the client has no transfer
  (`NothingUnlinked`); the server may be in the middle of one, whose chunks are thrown away.

**UdpProofs.** Of the segments, `NacksNameSentFrames` proves `NacksAreAnswerable`: whatever names a frame (a
segment on the net, a nack, an entry of the nack queue, the client's `min_id` and `max_id`) names one
that was begun. `FullIndexIsRestored` and `SubIndexIsRestored` say that the two index mappings of
`rs_wrapper.c` are inverse to one another, `SubIndexFitsGroup` that a segment's place lies within its
group, `EvenCutNeedsAll` that the even cut of `fec.c` again needs all segments.

Of the congestion control, two theorems about the instance `Sending` of `MCCongestionControl`, which is
the module itself. `ServedRatesAreAlwaysNear` proves `ServedRatesAreNear`, without any assumption on when
severe congestion is signalled. The invariant says what the main thread may have copied, and what
the other thread may have left in its place, at each of its steps (`CopiesStarting`): what has been
copied so far is, in each rate, the starting or the minimal one of the same window, and the burst ratio
covers any pair of those. `RatesAreAlwaysSound` proves
`RatesAreSound` for one window and one connection: that bandwidth is insufficient only at the
minimum is false after a resize, which changes the minimum. Maximum and congestion flag need no
such hypothesis (`RatesInv`); the flag of insufficient bandwidth needs that no time has passed until
the main thread has installed its first settings (`StartsCalm`). Both hold for any windows, links,
delays, losses and numbers of measurements, with the integer arithmetic of the code; windows have at
least two pixels.

Of the keyboard, `KeyboardAlwaysFollows` proves `KeyboardFollows`, for any of the sixteen keys, Macs
and others, and any number of events, pinches, messages, races and reconnections, from
`KeyboardAssumption`, which `MCFrames` assumes and TLC evaluates. Its invariant
`KeyboardInv`, which TLC checked before the proof:

* only a Mac's combinations are mapped, the combination that the device shows is the one that the
  keys stand for, and a Mac's right modifiers are never down on the device, so that no key is left
  that snapshots do not look at (`DeviceFits`); but for caps lock, and the control key after a
  pinch, the device shows a held combination alone (`Alone`);
* after a settled snapshot nothing but snapshots of the same keyboard is under way, since all that
  was sent before it has a smaller number (`SnapshotsSettle`);
* once one of these has been applied all keys but caps lock follow, and after the second one caps
  lock does too, unless a keymap is held (`ClientFollowed`).

The loop over the keys is a recursive function over sixteen keys. `SyncLoopFacts` gives its values
one by one, and the induction over them is over sixteen steps (`SnapshotFacts`): a turn for one key
changes no other key that was brought in line before, because what `emit_mapped_key_event` does to
the device is, for all other keys, nothing that counts (`EmitMappedPress`, `EmitMappedRelease`), even
where it engages a keymap or gives one up.

### Only model-checked

* Every liveness property: with fairness and ENABLED it is out of the prover's reach.
* What a recursive definition or a fold computes: induction over data is out of its reach too. So
  the coding of a packet (`DecodingIsSound`, which folds over groups) stays with TLC.
* Without a theorem: `Session`; `CaptureIsSound` (`VideoCapture`), six properties of a model with
  three threads; `OtherCountsExact`, which is what is proved of `RingBuffer` for two more
  instances of it; and of the file transfer `GroupIsComplete`, the action half of `DropsSettle`.

## Not modelled

* Vendored code (`lodepng`, the Wirehair, CM256 and GF256 sources, headers of NVIDIA and CUDA):
  the erasure codes enter as what `rs_wrapper.c` expects of them.
* Drivers and codecs (NvFBC, X11, NVENC, FFmpeg, SDL, PulseAudio): what they answer is a choice of
  the environment.
* The controller of FEC ratios (`fec_controller.cpp`): it computes with floating-point numbers, and
  its result is only a constant of `ForwardErrorCorrection`.
* The single pending slot of a UDP message (`udp.cpp:662`), which a second message of the same type
  overwrites; every user of it sends again.
* Mouse motion, keyboard layouts, the virtual interface, `whist_memory`, Windows-only code.
* The Go backend, the browser, mandelboxes and host setup: another program in another language,
  with a database whose code is elsewhere.

## Plan

By proof: `CaptureIsSound`, then `GroupIsComplete`. By model: the pending
slot of a UDP message, and mouse motion.
