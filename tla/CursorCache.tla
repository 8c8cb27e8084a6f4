----------------------------- MODULE CursorCache -----------------------------
(***************************************************************************)
(* The cursor images that video frames carry.  Server and client each keep *)
(* a cache of the images that were used last (whist/cursor/cursor.cpp).    *)
(* The server (server/video.c) sends an image once, and from then on only  *)
(* its hash; the client (client/video.cpp) asserts that the two caches     *)
(* agree.  They can only do so if both forget everything at a recovery     *)
(* point, where the client may have skipped frames.                        *)
(***************************************************************************)
EXTENDS Integers, Sequences

CONSTANTS
    Cursors,         \* hashes of the cursors on the screen
    Pngs,            \* those that come with an image
    MaxEntries,      \* CURSOR_CACHE_ENTRIES
    MaxId,           \* bound: how many frames the server makes
    DecoderMayFail   \* can video_decoder_send_packets fail?

\* The hash 0 stands for no cursor.
ASSUME CursorAssumption ==
    /\ Cursors \subseteq Nat \ {0}
    /\ Pngs \subseteq Cursors
    /\ MaxEntries \in Nat \ {0}
    /\ MaxId \in Nat
    /\ DecoderMayFail \in BOOLEAN

VARIABLES
    server_cache,      \* hashes, least recently used first
    last_cursor_hash,
    frames,            \* every frame made, by ID
    playing,           \* the ID of the frame last handed to render_video
    client_cache,
    shown,             \* the hash of the cursor that the client shows
    aborted            \* a FATAL_ASSERT of the client has failed

serverVars == <<server_cache, last_cursor_hash, frames>>
clientVars == <<playing, client_cache, shown, aborted>>
vars == <<serverVars, clientVars>>

-----------------------------------------------------------------------------
(* whist_cursor_cache *)

Contains(cache, hash) == \E i \in 1 .. Len(cache) : cache[i] = hash

\* whist_cursor_cache_check: a hit becomes the most recently used entry.
Touched(cache, hash) ==
    LET at == CHOOSE i \in 1 .. Len(cache) : cache[i] = hash
    IN  [i \in 1 .. Len(cache) |->
            IF i < at THEN cache[i] ELSE IF i < Len(cache) THEN cache[i + 1] ELSE hash]

\* whist_cursor_cache_add evicts the least recently used entry.
Added(cache, hash) ==
    IF Len(cache) = MaxEntries THEN Append(Tail(cache), hash) ELSE Append(cache, hash)

\* What both sides do with a cursor: one that has an image is looked up, and added.
Used(cache, hash) ==
    IF hash \notin Pngs THEN cache
    ELSE IF Contains(cache, hash) THEN Touched(cache, hash)
    ELSE Added(cache, hash)

-----------------------------------------------------------------------------
(* Frames.  A populated frame that has no cursor repeats the one before.  The *)
(* last two fields are history: what the server captured, and the cache with  *)
(* which it continued.                                                        *)

FrameKinds == {"populated", "empty", "dropped"}
Frame == [kind : FrameKinds, recovery : BOOLEAN, cursor : {0} \cup Cursors, cached : BOOLEAN,
          captured : {0} \cup Cursors, cache : Seq(Pngs)]

Recovery == {id \in 1 .. Len(frames) : frames[id].recovery}

\* The ring buffer hands over frames as module Playout allows.
Channel == INSTANCE Playout WITH Type <- "video", newest <- Len(frames), recovery <- Recovery

Playable(id) ==
    id \in 1 .. Len(frames) /\ frames[id].kind # "dropped" /\ id > playing /\ Channel!CanFollow(id)

\* What the screen showed when the last frame was made
Captured == IF frames = <<>> THEN 0 ELSE frames[Len(frames)].captured

Init ==
    /\ server_cache = <<>>
    /\ last_cursor_hash = 0
    /\ frames = <<>>
    /\ playing = -1
    /\ client_cache = <<>>
    /\ shown = 0
    /\ aborted = FALSE

\* Mutation: the hash of the last cursor survives a recovery point
RemembersLastCursor(isRecovery) ==
    [cache |-> IF isRecovery THEN <<>> ELSE server_cache, last |-> last_cursor_hash]

\* Mutation: the cache survives a recovery point
KeepsServerCache(isRecovery) ==
    [cache |-> server_cache, last |-> IF isRecovery THEN 0 ELSE last_cursor_hash]

\* The server forgets everything at a recovery point.
AtFrame(isRecovery) ==
    [cache |-> IF isRecovery THEN <<>> ELSE server_cache,
     last  |-> IF isRecovery THEN 0 ELSE last_cursor_hash]

\* send_populated_frames, with the cursor that whist_cursor_capture returned
SendPopulatedFrame(isRecovery, hash) ==
    LET before == AtFrame(isRecovery)
        repeats == hash = before.last
    IN  /\ Len(frames) < MaxId
        /\ server_cache' = IF repeats THEN before.cache ELSE Used(before.cache, hash)
        /\ last_cursor_hash' = hash
        /\ frames' = Append(frames,
                        [kind |-> "populated", recovery |-> isRecovery,
                         cursor |-> IF repeats THEN 0 ELSE hash,
                         cached |-> ~repeats /\ hash \in Pngs /\ Contains(before.cache, hash),
                         captured |-> hash, cache |-> server_cache'])
        /\ UNCHANGED clientVars

\* send_empty_frame, or a frame that was too large to be sent
SendNoCursor(kind) ==
    /\ Len(frames) < MaxId
    /\ frames' = Append(frames,
                    [kind |-> kind, recovery |-> FALSE, cursor |-> 0, cached |-> FALSE,
                     captured |-> Captured, cache |-> server_cache])
    /\ UNCHANGED <<server_cache, last_cursor_hash, clientVars>>

\* Mutation: the client's cache survives a recovery point
KeepsClientCache(f) == client_cache

\* So does the client.
ClientCacheAt(f) == IF f.recovery THEN <<>> ELSE client_cache

\* render_video.  When the decoder does not take the frame, it returns early.
RenderFrame(id, decoded) ==
    LET f == frames[id]
        before == ClientCacheAt(f)
    IN  /\ ~aborted
        /\ Playable(id)
        /\ playing' = id
        /\ IF f.kind = "empty" \/ ~decoded
             THEN UNCHANGED <<client_cache, shown, aborted>>
             ELSE /\ aborted' = \/ f.recovery /\ f.cursor = 0
                                \/ /\ f.cursor # 0
                                   /\ f.cached # (f.cursor \in Pngs /\ Contains(before, f.cursor))
                  /\ client_cache' = IF f.cursor = 0 THEN before ELSE Used(before, f.cursor)
                  /\ shown' = IF f.cursor = 0 THEN shown ELSE f.cursor
        /\ UNCHANGED serverVars

Next ==
    \/ \E isRecovery \in BOOLEAN, hash \in Cursors : SendPopulatedFrame(isRecovery, hash)
    \/ \E kind \in {"empty", "dropped"} : SendNoCursor(kind)
    \/ \E id \in 1 .. MaxId, decoded \in {TRUE, ~DecoderMayFail} : RenderFrame(id, decoded)

Spec == Init /\ [][Next]_vars

-----------------------------------------------------------------------------
\* Every variable has its type: only cursors that come with an image are cached
\* (WHIST_CURSOR_PNG).
TypeOK ==
    /\ server_cache \in Seq(Pngs)
    /\ client_cache \in Seq(Pngs)
    /\ last_cursor_hash \in {0} \cup Cursors
    /\ frames \in Seq(Frame)
    /\ playing \in {-1} \cup 1 .. Len(frames)
    /\ shown \in {0} \cup Cursors
    /\ aborted \in BOOLEAN

\* The asserts of render_video hold: a recovery point carries a cursor, and an image
\* is left out of a frame exactly when the client has it in its cache.
CachesAgree == ~aborted

\* The client shows the cursor that the server captured for the frame being rendered,
\* also after frames were skipped, and although most frames do not say which it is.
ShowsCapturedCursor == playing # -1 => shown = frames[playing].captured

\* The client's cache is the one that the server had after this frame: the same
\* images, to be evicted in the same order.
CacheFollowsServer == playing # -1 => client_cache = frames[playing].cache
=============================================================================
