--------------------------- MODULE TransferProofs ----------------------------
(***************************************************************************)
(* What is sent, and arrives as it was meant.                              *)
(*                                                                         *)
(* The cursors: as long as the decoder takes every frame, the client's     *)
(* cursor cache follows the server's, whatever frames are lost and         *)
(* skipped, for every cache size and every set of cursors.                 *)
(*                                                                         *)
(* The throttler: ThrottlingIsSound, for any number of threads, any packet *)
(* sizes and bitrates, and a bitrate that is changed at any moment.        *)
(*                                                                         *)
(* The files: FilesArriveWhole, for any number of files and chunks, any    *)
(* window of the connection and any number of connections.                 *)
(***************************************************************************)
EXTENDS MCTransfer, SequenceTheorems, TLAPS

\* The caches, and the cursor, before frame i
CacheBefore(i) == IF i = 1 \/ frames[i].recovery THEN <<>> ELSE frames[i - 1].cache
CapturedBefore(i) == IF i = 1 THEN 0 ELSE frames[i - 1].captured

\* What frame i says is what changed since frame i - 1.
FrameIsDelta(i) ==
    LET f == frames[i] IN
    /\ f.cursor = 0 =>
         /\ ~f.recovery
         /\ f.captured = CapturedBefore(i)
         /\ f.cache = CacheBefore(i)
    /\ f.cursor # 0 =>
         /\ f.kind = "populated"
         /\ f.captured = f.cursor
         /\ f.cache = Used(CacheBefore(i), f.cursor)
         /\ f.cached = (f.cursor \in Pngs /\ Contains(CacheBefore(i), f.cursor))

ServerInv ==
    /\ frames = <<>> => server_cache = <<>> /\ last_cursor_hash = 0
    /\ frames # <<>> => /\ server_cache = frames[Len(frames)].cache
                        /\ last_cursor_hash = frames[Len(frames)].captured
    /\ \A i \in 1 .. Len(frames) : FrameIsDelta(i)

IndInv ==
    /\ TypeOK
    /\ ServerInv
    /\ ShowsCapturedCursor
    /\ CacheFollowsServer
    /\ CachesAgree

-----------------------------------------------------------------------------
\* Using a cursor leaves a sequence of images.
LEMMA UsedType ==
    ASSUME NEW cache \in Seq(Pngs), NEW hash
    PROVE  Used(cache, hash) \in Seq(Pngs)
<1>1. CASE hash \notin Pngs
  BY <1>1 DEF Used
<1>2. CASE hash \in Pngs /\ Contains(cache, hash)
  <2> DEFINE n == Len(cache)
             at == CHOOSE i \in 1 .. n : cache[i] = hash
  <2>1. n \in Nat /\ \A i \in 1 .. n : cache[i] \in Pngs
    OBVIOUS
  <2>2. Touched(cache, hash) \in [1 .. n -> Pngs]
    BY <1>2, <2>1 DEF Touched
  <2> QED
    BY <1>2, <2>1, <2>2 DEF Used
<1>3. CASE hash \in Pngs /\ ~Contains(cache, hash)
  <2>1. CASE Len(cache) = MaxEntries
    <3>1. cache # <<>>
      BY <2>1, CursorAssumption
    <3>2. Tail(cache) \in Seq(Pngs)
      BY <3>1
    <3> QED
      BY <1>3, <2>1, <3>2 DEF Used, Added
  <2>2. CASE Len(cache) # MaxEntries
    BY <1>3, <2>2 DEF Used, Added
  <2> QED
    BY <2>1, <2>2
<1> QED
  BY <1>1, <1>2, <1>3

\* Appending a frame that is a delta to the last one keeps the server's invariant.
LEMMA AppendFrame ==
    ASSUME TypeOK, ServerInv, NEW f \in Frame,
           frames' = Append(frames, f),
           server_cache' = f.cache,
           last_cursor_hash' = f.captured,
           LET before == IF f.recovery THEN <<>> ELSE server_cache IN
             /\ f.cursor = 0 => ~f.recovery /\ f.captured = last_cursor_hash /\ f.cache = before
             /\ f.cursor # 0 =>
                  /\ f.kind = "populated"
                  /\ f.captured = f.cursor
                  /\ f.cache = Used(before, f.cursor)
                  /\ f.cached = (f.cursor \in Pngs /\ Contains(before, f.cursor))
    PROVE  /\ frames' \in Seq(Frame)
           /\ Len(frames') = Len(frames) + 1
           /\ \A i \in 1 .. Len(frames) : frames'[i] = frames[i]
           /\ ServerInv'
<1>0. PICK n \in Nat : n = Len(frames)
  BY DEF TypeOK
<1>1. /\ frames' \in Seq(Frame) /\ n \in Nat /\ Len(frames') = n + 1
      /\ \A i \in 1 .. n : frames'[i] = frames[i]
      /\ frames'[n + 1] = f
      /\ frames' # <<>>
  BY <1>0 DEF TypeOK
<1>2. \A i \in 1 .. n : FrameIsDelta(i)'
  <2> TAKE i \in 1 .. n
  <2>1. FrameIsDelta(i)
    BY <1>0 DEF ServerInv
  <2>2. frames'[i] = frames[i] /\ (i # 1 => frames'[i - 1] = frames[i - 1])
    BY <1>1
  <2> QED
    BY <2>1, <2>2 DEF FrameIsDelta, CacheBefore, CapturedBefore
<1>3. FrameIsDelta(n + 1)'
  <2>1. CASE n = 0
    <3>1. frames = <<>>
      BY <1>0, <2>1, EmptySeq DEF TypeOK
    <3>2. server_cache = <<>> /\ last_cursor_hash = 0
      BY <3>1 DEF ServerInv
    <3>3. CacheBefore(n + 1)' = <<>> /\ CapturedBefore(n + 1)' = 0
      BY <2>1 DEF CacheBefore, CapturedBefore
    <3> QED
      BY <1>1, <3>2, <3>3 DEF FrameIsDelta
  <2>2. CASE n # 0
    <3>1. frames # <<>> /\ frames'[n] = frames[n] /\ (n + 1) - 1 = n /\ n + 1 # 1
      BY <1>0, <1>1, <2>2
    <3>2. server_cache = frames[n].cache /\ last_cursor_hash = frames[n].captured
      BY <1>0, <3>1 DEF ServerInv
    <3>3. /\ CacheBefore(n + 1)' = IF f.recovery THEN <<>> ELSE server_cache
          /\ CapturedBefore(n + 1)' = last_cursor_hash
      BY <1>1, <3>1, <3>2 DEF CacheBefore, CapturedBefore
    <3> QED
      BY <1>1, <3>3 DEF FrameIsDelta
  <2> QED
    BY <2>1, <2>2
<1>4. \A i \in 1 .. Len(frames') : FrameIsDelta(i)'
  BY <1>1, <1>2, <1>3
<1> QED
  BY <1>0, <1>1, <1>4 DEF ServerInv

-----------------------------------------------------------------------------
\* Both sides start with empty caches, and nothing is played.
LEMMA InitHolds == Init => IndInv
<1> SUFFICES ASSUME Init PROVE IndInv
  OBVIOUS
<1>1. /\ server_cache \in Seq(Pngs) /\ client_cache \in Seq(Pngs)
      /\ frames \in Seq(Frame) /\ Len(frames) = 0
  BY EmptySeq DEF Init
<1>2. TypeOK
  BY <1>1 DEF Init, TypeOK
<1>3. ServerInv
  BY <1>1 DEF Init, ServerInv
<1>4. ShowsCapturedCursor /\ CacheFollowsServer /\ CachesAgree
  BY DEF Init, ShowsCapturedCursor, CacheFollowsServer, CachesAgree
<1> QED
  BY <1>2, <1>3, <1>4 DEF IndInv

\* The server's steps leave what the client follows as it was.
LEMMA ClientUnmoved ==
    ASSUME IndInv, UNCHANGED clientVars,
           frames' \in Seq(Frame),
           Len(frames') = Len(frames) + 1,
           \A i \in 1 .. Len(frames) : frames'[i] = frames[i],
           server_cache' \in Seq(Pngs),
           last_cursor_hash' \in {0} \cup Cursors,
           ServerInv'
    PROVE  IndInv'
<1>1. Len(frames) \in Nat
  BY DEF IndInv, TypeOK
<1>2. TypeOK'
  BY <1>1 DEF IndInv, TypeOK, clientVars
<1>3. playing # -1 => frames'[playing] = frames[playing]
  BY DEF IndInv, TypeOK
<1>4. ShowsCapturedCursor' /\ CacheFollowsServer' /\ CachesAgree'
  BY <1>3 DEF IndInv, clientVars, ShowsCapturedCursor, CacheFollowsServer, CachesAgree
<1> QED
  BY <1>2, <1>4 DEF IndInv

\* A frame with a cursor continues from where the server was (send_populated_frames).
LEMMA PopulatedStep ==
    ASSUME IndInv, NEW isRecovery \in BOOLEAN, NEW hash \in Cursors,
           SendPopulatedFrame(isRecovery, hash)
    PROVE  IndInv'
<1> DEFINE before == IF isRecovery THEN <<>> ELSE server_cache
           last == IF isRecovery THEN 0 ELSE last_cursor_hash
           repeats == hash = last
           f == [kind |-> "populated", recovery |-> isRecovery,
                 cursor |-> IF repeats THEN 0 ELSE hash,
                 cached |-> ~repeats /\ hash \in Pngs /\ Contains(before, hash),
                 captured |-> hash, cache |-> server_cache']
<1>1. /\ server_cache' = IF repeats THEN before ELSE Used(before, hash)
      /\ last_cursor_hash' = hash
      /\ frames' = Append(frames, f)
      /\ UNCHANGED clientVars
  BY DEF SendPopulatedFrame, AtFrame
<1>2. before \in Seq(Pngs) /\ hash # 0
  BY CursorAssumption DEF IndInv, TypeOK
<1>3. server_cache' \in Seq(Pngs)
  BY <1>1, <1>2, UsedType
<1>4. (~repeats /\ hash \in Pngs /\ Contains(before, hash)) \in BOOLEAN
  OBVIOUS
<1>5. f \in Frame
  BY <1>3, <1>4 DEF Frame, FrameKinds
<1>6. repeats => ~isRecovery /\ hash = last_cursor_hash
  BY <1>2
<1>7. f.cursor = 0 <=> repeats
  BY <1>2
<1> HIDE DEF f
<1>8. /\ f.kind = "populated" /\ f.recovery = isRecovery /\ f.captured = hash
      /\ f.cache = server_cache'
      /\ f.cursor = (IF repeats THEN 0 ELSE hash)
      /\ f.cached = (~repeats /\ hash \in Pngs /\ Contains(before, hash))
  BY DEF f
<1>9. /\ f.cursor = 0 => ~f.recovery /\ f.captured = last_cursor_hash /\ f.cache = before
      /\ f.cursor # 0 => /\ f.kind = "populated"
                         /\ f.captured = f.cursor
                         /\ f.cache = Used(before, f.cursor)
                         /\ f.cached = (f.cursor \in Pngs /\ Contains(before, f.cursor))
  BY <1>1, <1>6, <1>7, <1>8
<1>10. /\ frames' \in Seq(Frame)
       /\ Len(frames') = Len(frames) + 1
       /\ \A i \in 1 .. Len(frames) : frames'[i] = frames[i]
       /\ ServerInv'
  BY <1>1, <1>5, <1>8, <1>9, AppendFrame DEF IndInv
<1> QED
  BY <1>1, <1>3, <1>10, ClientUnmoved

\* A frame without a cursor changes nothing (send_empty_frame, or a dropped frame).
LEMMA NoCursorStep ==
    ASSUME IndInv, NEW kind \in {"empty", "dropped"}, SendNoCursor(kind)
    PROVE  IndInv'
<1> DEFINE f == [kind |-> kind, recovery |-> FALSE, cursor |-> 0, cached |-> FALSE,
                 captured |-> Captured, cache |-> server_cache]
<1>1. Captured = last_cursor_hash
  BY DEF Captured, IndInv, ServerInv
<1>2. frames' = Append(frames, f) /\ UNCHANGED <<server_cache, last_cursor_hash, clientVars>>
  BY DEF SendNoCursor
<1>3. f \in Frame
  BY <1>1 DEF Frame, FrameKinds, IndInv, TypeOK
<1>4. /\ frames' \in Seq(Frame)
      /\ Len(frames') = Len(frames) + 1
      /\ \A i \in 1 .. Len(frames) : frames'[i] = frames[i]
      /\ ServerInv'
  BY <1>1, <1>2, <1>3, AppendFrame DEF IndInv
<1> QED
  BY <1>2, <1>4, ClientUnmoved DEF IndInv, TypeOK

\* A frame that the client may play follows the one it has played, or needs no other.
LEMMA RenderStep ==
    ASSUME IndInv, NEW id \in 1 .. MaxId, RenderFrame(id, TRUE)
    PROVE  IndInv'
<1> DEFINE f == frames[id]
           before == IF f.recovery THEN <<>> ELSE client_cache
<1>1. /\ id \in 1 .. Len(frames) /\ f.kind # "dropped"
      /\ id \in Recovery \/ (playing # -1 /\ id = playing + 1)
      /\ playing' = id
      /\ UNCHANGED serverVars
  BY DEF RenderFrame, Playable, Channel!CanFollow
<1>2. f \in Frame /\ FrameIsDelta(id)
  BY <1>1 DEF IndInv, TypeOK, ServerInv
<1>3. ~f.recovery => /\ playing # -1 /\ id = playing + 1
                     /\ shown = frames[id - 1].captured
                     /\ client_cache = frames[id - 1].cache
                     /\ id # 1
  BY <1>1 DEF IndInv, TypeOK, ShowsCapturedCursor, CacheFollowsServer, Recovery
<1>4. before = CacheBefore(id)
  BY <1>3 DEF CacheBefore
<1>5. f.cursor = 0 => /\ ~f.recovery
                      /\ f.captured = shown
                      /\ f.cache = client_cache
  BY <1>2, <1>3, <1>4 DEF FrameIsDelta, CapturedBefore
<1>6. f.cursor # 0 => /\ f.kind # "empty"
                      /\ f.captured = f.cursor
                      /\ f.cache = Used(before, f.cursor)
                      /\ f.cached = (f.cursor \in Pngs /\ Contains(before, f.cursor))
  BY <1>2, <1>4 DEF FrameIsDelta
<1>7. f.captured \in {0} \cup Cursors /\ f.cache \in Seq(Pngs)
  BY <1>2 DEF Frame
<1>8. shown' = f.captured /\ client_cache' = f.cache /\ aborted' = FALSE
  <2>1. CASE f.kind = "empty"
    BY <1>5, <1>6, <2>1 DEF RenderFrame, IndInv, CachesAgree
  <2>2. CASE f.kind # "empty"
    <3>1. /\ aborted' = (\/ f.recovery /\ f.cursor = 0
                         \/ /\ f.cursor # 0
                            /\ f.cached # (f.cursor \in Pngs /\ Contains(before, f.cursor)))
          /\ client_cache' = IF f.cursor = 0 THEN before ELSE Used(before, f.cursor)
          /\ shown' = IF f.cursor = 0 THEN shown ELSE f.cursor
      BY <2>2 DEF RenderFrame, ClientCacheAt
    <3> QED
      BY <1>5, <1>6, <3>1
  <2> QED
    BY <2>1, <2>2
<1>9. TypeOK'
  BY <1>1, <1>7, <1>8 DEF IndInv, TypeOK, serverVars
<1>10. ServerInv'
  BY <1>1 DEF IndInv, ServerInv, serverVars, FrameIsDelta, CacheBefore, CapturedBefore
<1> QED
  BY <1>1, <1>8, <1>9, <1>10
     DEF IndInv, serverVars, ShowsCapturedCursor, CacheFollowsServer, CachesAgree

-----------------------------------------------------------------------------
\* The inductive invariant holds as long as video_decoder_send_packets takes every
\* frame.
THEOREM Invariant == ASSUME DecoderMayFail = FALSE PROVE Spec => []IndInv
<1>1. IndInv /\ [Next]_vars => IndInv'
  <2> SUFFICES ASSUME IndInv, [Next]_vars PROVE IndInv'
    OBVIOUS
  <2>1. CASE UNCHANGED vars
    BY <2>1 DEF vars, serverVars, clientVars, IndInv, TypeOK, ServerInv, FrameIsDelta, CacheBefore,
                CapturedBefore, ShowsCapturedCursor, CacheFollowsServer, CachesAgree
  <2>2. CASE \E isRecovery \in BOOLEAN, hash \in Cursors : SendPopulatedFrame(isRecovery, hash)
    BY <2>2, PopulatedStep
  <2>3. CASE \E kind \in {"empty", "dropped"} : SendNoCursor(kind)
    BY <2>3, NoCursorStep
  <2>4. CASE \E id \in 1 .. MaxId, decoded \in {TRUE, ~DecoderMayFail} : RenderFrame(id, decoded)
    BY <2>4, RenderStep
  <2> QED
    BY <2>1, <2>2, <2>3, <2>4 DEF Next
<1> QED
  BY <1>1, InitHolds, PTL DEF Spec

\* The asserts of render_video hold, whatever frames are lost and skipped: an image is
\* left out of a frame exactly when the client has it in its cache.
THEOREM AssertsHold == ASSUME DecoderMayFail = FALSE PROVE Spec => []CachesAgree
BY Invariant, PTL DEF IndInv

\* The client shows the cursor that the server captured for the frame being rendered.
THEOREM CursorIsCurrent == ASSUME DecoderMayFail = FALSE PROVE Spec => []ShowsCapturedCursor
BY Invariant, PTL DEF IndInv

\* The client's cache is the one that the server had after the frame being rendered.
THEOREM CacheFollows == ASSUME DecoderMayFail = FALSE PROVE Spec => []CacheFollowsServer
BY Invariant, PTL DEF IndInv

-----------------------------------------------------------------------------
(* The throttler *)

Waits(t) == pc[t] # "idle"

Setters == [at : {"idle", "read", "wrote"}, max : Buckets, read : 0 .. Width - 1]

Types ==
    /\ next_queue_id \in Nat /\ current_queue_id \in Nat
    /\ coin_bucket \in 0 .. Width - 1
    /\ coin_bucket_max \in Buckets
    /\ expired \in BOOLEAN /\ disturbed \in BOOLEAN
    /\ pc \in [Threads -> Throttle!Places]
    /\ queue_id \in [Threads -> Nat]
    /\ bytes \in [Threads -> Nat]
    /\ setter \in Setters
    /\ spent \in Nat

\* The tickets of those inside lie between the two counters, and no two are the same.
Tickets ==
    /\ current_queue_id <= next_queue_id
    /\ \A t \in Threads : Waits(t) => queue_id[t] >= current_queue_id /\ queue_id[t] < next_queue_id
    /\ \A t, u \in Threads : Waits(t) /\ Waits(u) /\ queue_id[t] = queue_id[u] => t = u
    /\ \A t \in Threads : Throttle!Served(t) => queue_id[t] = current_queue_id

\* Once the bucket was filled for the bitrate in use, the coins that a thread has found
\* are there when it takes them.
CoinsAreThere ==
    ~disturbed /\ setter.at = "idle" =>
        \A t \in Threads : pc[t] = "take" => bytes[t] <= coin_bucket

IInv == Types /\ Tickets /\ CoinsAreThere /\ Throttle!BurstIsBounded

-----------------------------------------------------------------------------
\* Arithmetic of a size_t.
LEMMA Wraps ==
    ASSUME NEW n \in Nat \ {0}, NEW a \in Int
    PROVE  a % n \in 0 .. n - 1
  BY SMT

LEMMA Fits ==
    ASSUME NEW n \in Nat \ {0}, NEW a \in 0 .. n - 1
    PROVE  a % n = a
  BY SMT

LEMMA OneIsServed ==
    ASSUME Tickets, NEW t \in Threads, NEW u \in Threads, Throttle!Served(t), Throttle!Served(u)
    PROVE  t = u
  BY DEF Tickets, Throttle!Served, Waits

LEMMA InitIsGood == ASSUME Throttle!ThrottlerAssumption, Throttle!Init PROVE IInv
  <1> USE DEF Throttle!Init
  <1>0. Starting \in Buckets /\ Starting \in Nat /\ PacketMax \in Nat \ {0} /\ Width \in Nat
        /\ Starting + PacketMax < Width
    BY DEF Throttle!ThrottlerAssumption
  <1>a. setter \in Setters
    BY <1>0 DEF Setters
  <1>b. coin_bucket \in 0 .. Width - 1
    BY <1>0
  <1>1. Types BY <1>0, <1>a, <1>b DEF Types, Throttle!Places
  <1>2. Tickets BY DEF Tickets, Waits, Throttle!Served
  <1>3. CoinsAreThere BY DEF CoinsAreThere
  <1>4. Throttle!BurstIsBounded BY <1>0 DEF Throttle!BurstIsBounded
  <1> QED BY <1>1, <1>2, <1>3, <1>4 DEF IInv

LEMMA DrawTicketIsGood ==
    ASSUME Throttle!ThrottlerAssumption, IInv, NEW t \in Threads, Throttle!DrawTicket(t)
    PROVE  IInv'
  <1> USE DEF IInv, Throttle!DrawTicket
  <1>0. PICK n \in Sizes : bytes' = [bytes EXCEPT ![t] = n]
    OBVIOUS
  <1>a. n \in Nat
    BY DEF Throttle!ThrottlerAssumption
  <1>1. Types' BY <1>0, <1>a DEF Types, Throttle!Places
  <1>2. Tickets'
    <2>1. \A u \in Threads \ {t} : /\ pc'[u] = pc[u] /\ queue_id'[u] = queue_id[u]
                                  /\ Waits(u) => queue_id[u] # next_queue_id
      BY DEF Types, Tickets
    <2>2. queue_id'[t] = next_queue_id /\ pc'[t] = "queue" /\ next_queue_id' = next_queue_id + 1
      BY DEF Types
    <2> QED BY <2>1, <2>2 DEF Types, Tickets, Waits, Throttle!Served
  <1>3. CoinsAreThere' BY <1>0 DEF Types, CoinsAreThere
  <1>4. Throttle!BurstIsBounded' BY DEF Throttle!BurstIsBounded
  <1> QED BY <1>1, <1>2, <1>3, <1>4

LEMMA AwaitTurnIsGood ==
    ASSUME Throttle!ThrottlerAssumption, IInv, NEW t \in Threads, Throttle!AwaitTurn(t)
    PROVE  IInv'
  <1> USE DEF IInv, Throttle!AwaitTurn
  <1>1. Types' BY DEF Types, Throttle!Places
  <1>2. Tickets' BY DEF Types, Tickets, Waits, Throttle!Served, Throttle!MustWait
  <1>3. CoinsAreThere' BY DEF Types, CoinsAreThere
  <1>4. Throttle!BurstIsBounded' BY DEF Throttle!BurstIsBounded
  <1> QED BY <1>1, <1>2, <1>3, <1>4

\* A filled bucket holds what the bitrate gives and less than one packet more.
LEMMA FilledIsBounded ==
    ASSUME Throttle!ThrottlerAssumption, Types
    PROVE  Throttle!Filled \in 0 .. Width - 1 /\ Throttle!Filled < coin_bucket_max + PacketMax
  <1>1. /\ coin_bucket_max \in Nat /\ PacketMax \in Nat \ {0} /\ Width \in Nat \ {0}
        /\ coin_bucket \in Nat
        /\ coin_bucket_max + PacketMax < Width
    BY DEF Throttle!ThrottlerAssumption, Types
  <1>2. CASE coin_bucket < PacketMax
    <2>1. (coin_bucket + coin_bucket_max) % Width = coin_bucket + coin_bucket_max
      BY <1>1, <1>2, Fits
    <2> QED BY <1>1, <1>2, <2>1 DEF Throttle!Filled
  <1>3. CASE ~(coin_bucket < PacketMax)
    BY <1>1, <1>3 DEF Throttle!Filled
  <1> QED BY <1>2, <1>3

LEMMA LookIsGood ==
    ASSUME Throttle!ThrottlerAssumption, IInv, NEW t \in Threads, Throttle!Look(t)
    PROVE  IInv'
  <1> USE DEF IInv, Throttle!Look
  <1>1. Types'
    BY FilledIsBounded DEF Types, Throttle!Places
  <1>2. Tickets' BY DEF Types, Tickets, Waits, Throttle!Served
  <1>3. CoinsAreThere'
    <2>1. \A u \in Threads : pc'[u] = "take" => u = t
      BY OneIsServed DEF Types, Throttle!Served
    <2>2. pc'[t] = "take" => bytes'[t] <= coin_bucket'
      BY DEF Types
    <2> QED BY <2>1, <2>2 DEF CoinsAreThere
  <1>4. Throttle!BurstIsBounded'
    BY FilledIsBounded DEF Throttle!BurstIsBounded, Types
  <1> QED BY <1>1, <1>2, <1>3, <1>4

LEMMA TakeIsGood ==
    ASSUME Throttle!ThrottlerAssumption, IInv, NEW t \in Threads, Throttle!Take(t)
    PROVE  IInv'
  <1> USE DEF IInv, Throttle!Take
  <1>0. /\ Width \in Nat \ {0} /\ coin_bucket \in 0 .. Width - 1 /\ bytes[t] \in Nat
        /\ coin_bucket_max \in Nat /\ PacketMax \in Nat /\ spent \in Nat
    BY DEF Types, Throttle!ThrottlerAssumption
  <1>1. Types'
    BY <1>0, Wraps DEF Types, Throttle!Places
  <1>2. Tickets' BY DEF Types, Tickets, Waits, Throttle!Served
  <1>3. CoinsAreThere'
    <2>1. \A u \in Threads : pc'[u] # "take"
      BY OneIsServed DEF Types, Throttle!Served
    <2> QED BY <2>1 DEF CoinsAreThere
  <1>4. Throttle!BurstIsBounded'
    <2> SUFFICES ASSUME ~disturbed, setter.at = "idle"
                 PROVE  spent' + coin_bucket' < coin_bucket_max + PacketMax
      BY DEF Throttle!BurstIsBounded
    <2>1. bytes[t] <= coin_bucket
      BY DEF CoinsAreThere
    <2>2. coin_bucket' = coin_bucket - bytes[t]
      BY <1>0, <2>1, Fits
    <2> QED BY <1>0, <2>1, <2>2 DEF Throttle!BurstIsBounded
  <1> QED BY <1>1, <1>2, <1>3, <1>4

LEMMA PassTurnIsGood ==
    ASSUME Throttle!ThrottlerAssumption, IInv, NEW t \in Threads, Throttle!PassTurn(t)
    PROVE  IInv'
  <1> USE DEF IInv, Throttle!PassTurn
  <1>1. Types' BY DEF Types, Throttle!Places, Throttle!Woken
  <1>2. Tickets'
    <2>1. \A u \in Threads : Waits(u)' => Waits(u) /\ u # t /\ queue_id'[u] = queue_id[u]
      BY DEF Types, Waits, Throttle!Woken
    <2>2. queue_id[t] = current_queue_id /\ Waits(t)
      BY DEF Tickets, Throttle!Served, Waits
    <2>3. \A u \in Threads : ~Throttle!Served(u)'
      BY OneIsServed DEF Types, Throttle!Served, Throttle!Woken
    <2>4. \A u \in Threads : Waits(u)' =>
              queue_id[u] >= current_queue_id + 1 /\ queue_id[u] < next_queue_id
      BY <2>1, <2>2 DEF Tickets, Types
    <2>5. current_queue_id + 1 <= next_queue_id
      BY <2>2 DEF Tickets, Types
    <2> QED BY <2>1, <2>3, <2>4, <2>5 DEF Tickets
  <1>3. CoinsAreThere' BY DEF Types, CoinsAreThere, Throttle!Woken
  <1>4. Throttle!BurstIsBounded' BY DEF Throttle!BurstIsBounded
  <1> QED BY <1>1, <1>2, <1>3, <1>4

LEMMA OthersAreGood ==
    ASSUME Throttle!ThrottlerAssumption, IInv,
           Throttle!Expire \/ Throttle!SetReads \/ Throttle!SetWritesBucket \/ Throttle!SetWritesMax
           \/ UNCHANGED Throttle!vars
    PROVE  IInv'
  <1> USE DEF IInv
  <1>1. CASE Throttle!Expire \/ UNCHANGED Throttle!vars
    BY <1>1
      DEF Throttle!Expire, Throttle!vars, Types, Tickets, Waits, Throttle!Served, CoinsAreThere,
          Throttle!BurstIsBounded
  <1>2. CASE Throttle!SetReads
    <2>1. setter' \in Setters /\ setter'.at = "read"
      BY <1>2 DEF Throttle!SetReads, Types, Setters
    <2> QED BY <1>2, <2>1
      DEF Throttle!SetReads, Types, Tickets, Waits, Throttle!Served, CoinsAreThere,
          Throttle!BurstIsBounded
  <1>3. CASE Throttle!SetWritesBucket
    <2>a. setter.read \in 0 .. Width - 1 /\ setter.max \in Buckets /\ coin_bucket_max \in Buckets
      BY DEF Types, Setters
    <2>b. Width \in Nat \ {0} /\ Buckets \subseteq Nat
      BY DEF Throttle!ThrottlerAssumption
    <2>0. /\ Width \in Nat \ {0} /\ setter.read \in Int /\ setter.max \in Int /\ coin_bucket_max \in Int
      <3>1. (\A x \in 0 .. Width - 1 : x \in Int) /\ (\A x \in Buckets : x \in Int)
      BY <2>b
      <3> QED BY <2>a, <2>b, <3>1, Zenon
    <2>d. coin_bucket \in 0 .. Width - 1
      BY DEF Types
    <2>c. setter.read + setter.max - coin_bucket_max \in Int
      BY <2>0
    <2>1. Throttle!Adjusted \in 0 .. Width - 1
      BY <2>0, <2>c, Wraps DEF Throttle!Adjusted
    <2>2. coin_bucket' \in 0 .. Width - 1
      BY <1>3, <2>d, <2>1 DEF Throttle!SetWritesBucket
    <2>3. setter' \in Setters /\ setter'.at = "wrote"
      BY <1>3 DEF Throttle!SetWritesBucket, Types, Setters
    <2> QED BY <1>3, <2>2, <2>3
      DEF Throttle!SetWritesBucket, Types, Tickets, Waits, Throttle!Served, CoinsAreThere,
          Throttle!BurstIsBounded
  <1>4. CASE Throttle!SetWritesMax
    <2>0. Width \in Nat \ {0}
      BY DEF Throttle!ThrottlerAssumption
    <2>a. setter.max \in Buckets /\ setter' = [at |-> "idle", max |-> setter.max, read |-> 0]
      BY <1>4 DEF Throttle!SetWritesMax, Types, Setters
    <2>1. setter' \in Setters /\ coin_bucket_max' \in Buckets
      BY <1>4, <2>0, <2>a DEF Throttle!SetWritesMax, Setters
    <2> QED BY <1>4, <2>1
      DEF Throttle!SetWritesMax, Types, Tickets, Waits, Throttle!Served, CoinsAreThere,
          Throttle!BurstIsBounded
  <1> QED BY <1>1, <1>2, <1>3, <1>4

\* One thread at a time uses the bucket without a lock, in the order of the tickets; and
\* once the bucket was filled after a change of the bitrate, what is sent until the next
\* filling is bounded, although a change may wrap the bucket around (throttle.c:108-165).
THEOREM ThrottlerIsSound == Throttle!Spec => []ThrottlingIsSound
  <1>1. Throttle!Init => IInv
    BY ComponentAssumptions, InitIsGood
  <1>2. IInv /\ [Throttle!Next]_(Throttle!vars) => IInv'
    BY ComponentAssumptions, DrawTicketIsGood, AwaitTurnIsGood, LookIsGood, TakeIsGood,
       PassTurnIsGood, OthersAreGood
    DEF Throttle!Next, Throttle!Send
  <1>3. IInv => ThrottlingIsSound
    BY OneIsServed DEF IInv, ThrottlingIsSound, Throttle!ThrottlingIsSound,
       Throttle!OneAtTheBucket, Tickets
  <1> QED BY <1>1, <1>2, <1>3, PTL DEF Throttle!Spec

-----------------------------------------------------------------------------
(* The files *)

\* The files whose entry was added to the client's list are 1 .. AddedFiles.
AddedFiles == IF adding.kind = "file" THEN Len(dropped) - 1 ELSE Len(dropped)

\* The list has an entry for f whose handle is at piece p.
Listed(f, p) == \E i \in 1 .. Len(files) :
    files[i].kind = "file" /\ files[i].id = f /\ files[i].pos = p

Positions == -1 .. MaxPieces
Entries == [kind : {"file", "marker"}, id : Nat, pos : Positions]

Packets ==
    {Transfer!Meta(f) : f \in Transfer!Files} \cup {Transfer!Close(f) : f \in Transfer!Files}
        \cup {Transfer!GroupEnd(g) : g \in Nat}
        \cup {Transfer!Body(f, k) : f \in Transfer!Files, k \in 1 .. MaxPieces}

\* The packet p is about file f.
IsAbout(p, f) ==
    p = Transfer!Meta(f) \/ p = Transfer!Close(f) \/ \E k \in 1 .. MaxPieces : p = Transfer!Body(f, k)

OnWire(p) == \E i \in 1 .. Len(wire) : wire[i] = p

\* The server has f open, or is still to be told of it.
Awaited(f) == f \in writing \/ OnWire(Transfer!Meta(f))

FileTypes ==
    /\ files \in Seq(Entries)
    /\ \/ adding = Transfer!NoEntry \/ adding = Transfer!FileEntry(Len(dropped))
       \/ \E g \in Nat : adding = Transfer!Marker(g)
    /\ dropped \in Seq(Nat) /\ Len(dropped) <= MaxFiles
    /\ groups \in Nat
    /\ wire \in Seq(Packets)
    /\ linked \in BOOLEAN
    /\ written \in [Transfer!Files -> Seq(Nat)]
    /\ size \in [Transfer!Files -> Int]
    /\ writing \subseteq Transfer!Files /\ ready \subseteq Transfer!Files

\* The list has one entry for each file.
ListFits ==
    /\ next \in 0 .. Len(files)
    /\ AddedFiles \in 0 .. MaxFiles
    /\ \A f \in Nat, p \in Positions : Listed(f, p) => f \in 1 .. AddedFiles
    /\ \A i, j \in 1 .. Len(files) :
          files[i].kind = "file" /\ files[j].kind = "file" /\ files[i].id = files[j].id => i = j

\* The server knows nothing of f, nor will it by what is under way.
Fresh(f) ==
    /\ f \notin writing
    /\ written[f] = <<>>
    /\ \A i \in 1 .. Len(wire) : ~IsAbout(wire[i], f)

\* What f waits for at the client.
WaitsAtClient(f) ==
    /\ f > AddedFiles \/ Listed(f, -1) => Fresh(f)
    /\ f > AddedFiles \/ (\E p \in Positions : Listed(f, p)) =>
          size[f] = -1 /\ f \notin ready /\ ~OnWire(Transfer!Close(f))

\* The metadata come first.
MetaFirst(f) ==
    \A i \in 1 .. Len(wire) : wire[i] = Transfer!Meta(f) =>
        /\ f \notin writing /\ f \notin ready /\ written[f] = <<>>
        /\ \A j \in 1 .. Len(wire) : IsAbout(wire[j], f) => j >= i

\* The pieces after the last one written, up to the m-th, are under way before place j.
LeadsTo(f, m, j) ==
    \A k \in Len(written[f]) + 1 .. m : \E i \in 1 .. j - 1 : wire[i] = Transfer!Body(f, k)

\* The pieces follow one another, up to the one that the client is at.
BodyFollows(f, j, k) ==
    /\ k > Len(written[f])
    /\ LeadsTo(f, k - 1, j)
    /\ \A i \in 1 .. j - 1, l \in 1 .. MaxPieces : wire[i] = Transfer!Body(f, l) => l < k

CloseFollows(f, j) ==
    /\ Len(written[f]) <= size[f]
    /\ LeadsTo(f, size[f], j)
    /\ \A i \in 1 .. j - 1, l \in 1 .. MaxPieces : wire[i] = Transfer!Body(f, l) => l <= size[f]

ClientIsAt(f, p) ==
    /\ Len(written[f]) <= p
    /\ \A i \in 1 .. Len(wire), k \in 1 .. MaxPieces : wire[i] = Transfer!Body(f, k) => k <= p
    /\ LeadsTo(f, p, Len(wire) + 1)

BodiesFollow(f) ==
    Awaited(f) =>
        /\ \A j \in 1 .. Len(wire), k \in 1 .. MaxPieces :
              wire[j] = Transfer!Body(f, k) => BodyFollows(f, j, k)
        /\ \A j \in 1 .. Len(wire) : wire[j] = Transfer!Close(f) => CloseFollows(f, j)
        /\ linked => \A p \in 0 .. MaxPieces : Listed(f, p) => ClientIsAt(f, p)

WrittenInOrder(f) ==
    /\ \A k \in 1 .. Len(written[f]) : written[f][k] = k
    /\ f \in ready => f \notin writing /\ size[f] = Len(written[f])

FileFits(f) == WaitsAtClient(f) /\ MetaFirst(f) /\ BodiesFollow(f) /\ WrittenInOrder(f)

FileInv == FileTypes /\ ListFits /\ \A f \in Transfer!Files : FileFits(f)

-----------------------------------------------------------------------------
\* Packets of different types or files differ.
LEMMA PacketsDiffer ==
    \A f, g, k, l :
        /\ Transfer!Meta(f) # Transfer!Close(g) /\ Transfer!Meta(f) # Transfer!Body(g, k)
        /\ Transfer!Meta(f) # Transfer!GroupEnd(g)
        /\ Transfer!Close(f) # Transfer!Body(g, k) /\ Transfer!Close(f) # Transfer!GroupEnd(g)
        /\ Transfer!Body(f, k) # Transfer!GroupEnd(g)
        /\ Transfer!Meta(f) = Transfer!Meta(g) => f = g
        /\ Transfer!Close(f) = Transfer!Close(g) => f = g
        /\ Transfer!Body(f, k) = Transfer!Body(g, l) => f = g /\ k = l
<1> SUFFICES ASSUME NEW f, NEW g, NEW k, NEW l
    PROVE /\ Transfer!Meta(f) # Transfer!Close(g) /\ Transfer!Meta(f) # Transfer!Body(g, k)
          /\ Transfer!Meta(f) # Transfer!GroupEnd(g)
          /\ Transfer!Close(f) # Transfer!Body(g, k) /\ Transfer!Close(f) # Transfer!GroupEnd(g)
          /\ Transfer!Body(f, k) # Transfer!GroupEnd(g)
          /\ Transfer!Meta(f) = Transfer!Meta(g) => f = g
          /\ Transfer!Close(f) = Transfer!Close(g) => f = g
          /\ Transfer!Body(f, k) = Transfer!Body(g, l) => f = g /\ k = l
    OBVIOUS
<1>1. Transfer!Meta(f).type = "meta" /\ Transfer!Close(g).type = "close"
      /\ Transfer!Body(g, k).type = "body"
      /\ Transfer!GroupEnd(g).type = "group" /\ Transfer!Close(f).type = "close"
      /\ Transfer!Body(f, k).type = "body"
    BY DEF Transfer!Meta, Transfer!Close, Transfer!Body, Transfer!GroupEnd
<1>2. Transfer!Meta(f).id = f /\ Transfer!Meta(g).id = g /\ Transfer!Close(f).id = f
      /\ Transfer!Close(g).id = g
      /\ Transfer!Body(f, k).id = f /\ Transfer!Body(g, l).id = g
      /\ Transfer!Body(f, k).piece = k /\ Transfer!Body(g, l).piece = l
    BY DEF Transfer!Meta, Transfer!Close, Transfer!Body
<1>3. Transfer!Meta(f) # Transfer!Close(g) BY <1>1
<1>4. Transfer!Meta(f) # Transfer!Body(g, k) BY <1>1
<1>5. Transfer!Meta(f) # Transfer!GroupEnd(g) BY <1>1
<1>6. Transfer!Close(f) # Transfer!Body(g, k) BY <1>1
<1>7. Transfer!Close(f) # Transfer!GroupEnd(g) BY <1>1
<1>8. Transfer!Body(f, k) # Transfer!GroupEnd(g) BY <1>1
<1>9. Transfer!Meta(f) = Transfer!Meta(g) => f = g BY <1>2
<1>10. Transfer!Close(f) = Transfer!Close(g) => f = g BY <1>2
<1>11. Transfer!Body(f, k) = Transfer!Body(g, l) => f = g /\ k = l BY <1>2
<1> QED BY <1>3, <1>4, <1>5, <1>6, <1>7, <1>8, <1>9, <1>10, <1>11

\* What the client does that leaves the packets about f, in front of its last one, as they are.
LEMMA ClientStep ==
    ASSUME Transfer!FileAssumption, FileTypes, NEW f \in Transfer!Files, FileFits(f),
           UNCHANGED <<writing, written, ready>>,
           Len(wire') \in Nat,
           \A i \in 1 .. Len(wire') : IsAbout(wire'[i], f) =>
               \A j \in 1 .. i : j \in 1 .. Len(wire) /\ wire'[j] = wire[j],
           linked' => linked /\ \A i \in 1 .. Len(wire) : i \in 1 .. Len(wire') /\ wire'[i] = wire[i],
           f > AddedFiles' \/ Listed(f, -1)' => f > AddedFiles \/ Listed(f, -1),
           f > AddedFiles' \/ (\E p \in Positions : Listed(f, p)') =>
               (f > AddedFiles \/ \E p \in Positions : Listed(f, p)) /\ size'[f] = size[f],
           size'[f] = size[f] \/ (f \notin ready /\ ~OnWire(Transfer!Close(f))),
           \A p \in 0 .. MaxPieces : linked' /\ Listed(f, p)' => Listed(f, p)
    PROVE  FileFits(f)'
<1> DEFINE L == Len(wire)
<1>1. L \in Nat
    BY DEF FileTypes
<1>2. \A i \in 1 .. Len(wire') : IsAbout(wire'[i], f) => i \in 1 .. L /\ wire'[i] = wire[i]
    OBVIOUS
<1>3. OnWire(Transfer!Close(f))' => OnWire(Transfer!Close(f))
    BY <1>2 DEF OnWire, IsAbout
<1>4. Fresh(f) => Fresh(f)'
    BY <1>2 DEF Fresh
<1>5. WaitsAtClient(f)'
    BY <1>3, <1>4 DEF FileFits, WaitsAtClient
<1>6. MetaFirst(f)'
    BY <1>2 DEF FileFits, MetaFirst, IsAbout
<1>7. WrittenInOrder(f)'
    BY DEF FileFits, WrittenInOrder
<1>8. Awaited(f)' => Awaited(f)
    BY <1>2 DEF Awaited, OnWire, IsAbout
<1>9. ASSUME NEW j \in 1 .. Len(wire'), IsAbout(wire'[j], f), NEW m \in Int, LeadsTo(f, m, j)
      PROVE  LeadsTo(f, m, j)'
    <2>1. \A i \in 1 .. j - 1 : wire'[i] = wire[i]
        BY <1>9
    <2> QED BY <1>9, <2>1 DEF LeadsTo
<1>10. ASSUME Awaited(f)', NEW j \in 1 .. Len(wire'), NEW k \in 1 .. MaxPieces,
              wire'[j] = Transfer!Body(f, k)
       PROVE  BodyFollows(f, j, k)'
    <2>1. IsAbout(wire'[j], f)
        BY <1>10 DEF IsAbout
    <2>2. BodyFollows(f, j, k)
        BY <1>2, <1>8, <1>10, <2>1 DEF FileFits, BodiesFollow
    <2>3. LeadsTo(f, k - 1, j)'
        BY <1>9, <2>1, <2>2 DEF BodyFollows, Transfer!FileAssumption
    <2>4. \A i \in 1 .. j - 1 : wire'[i] = wire[i]
        BY <2>1
    <2> QED BY <2>2, <2>3, <2>4 DEF BodyFollows
<1>11. ASSUME Awaited(f)', NEW j \in 1 .. Len(wire'), wire'[j] = Transfer!Close(f)
       PROVE  CloseFollows(f, j)'
    <2>1. IsAbout(wire'[j], f)
        BY <1>11 DEF IsAbout
    <2>2. CloseFollows(f, j) /\ size'[f] = size[f]
        BY <1>2, <1>8, <1>11, <2>1 DEF FileFits, BodiesFollow, OnWire
    <2>3. LeadsTo(f, size[f], j)'
        BY <1>9, <2>1, <2>2 DEF CloseFollows, FileTypes
    <2>4. \A i \in 1 .. j - 1 : wire'[i] = wire[i]
        BY <2>1
    <2> QED BY <2>2, <2>3, <2>4 DEF CloseFollows, LeadsTo
<1>12. ASSUME Awaited(f)', linked', NEW p \in 0 .. MaxPieces, Listed(f, p)'
       PROVE  ClientIsAt(f, p)'
    <2>1. ClientIsAt(f, p)
        BY <1>8, <1>12 DEF FileFits, BodiesFollow
    <2>2. \A i \in 1 .. Len(wire'), k \in 1 .. MaxPieces : wire'[i] = Transfer!Body(f, k) => k <= p
        BY <1>2, <2>1 DEF ClientIsAt, IsAbout
    <2>3. \A i \in 1 .. L : i \in 1 .. Len(wire') /\ wire'[i] = wire[i]
        BY <1>12
    <2>4. ASSUME NEW k \in Len(written[f]) + 1 .. p
          PROVE  \E i \in 1 .. Len(wire') + 1 - 1 : wire'[i] = Transfer!Body(f, k)
        <3>1. PICK i \in 1 .. L + 1 - 1 : wire[i] = Transfer!Body(f, k)
            BY <2>1 DEF ClientIsAt, LeadsTo
        <3>2. i \in 1 .. L
            BY <1>1
        <3>3. i \in 1 .. Len(wire') /\ wire'[i] = Transfer!Body(f, k)
            BY <2>3, <3>1, <3>2
        <3> QED BY <3>3
    <2>5. LeadsTo(f, p, Len(wire) + 1)'
        <3>1. \A k \in Len(written'[f]) + 1 .. p : \E i \in 1 .. Len(wire') + 1 - 1 :
                  wire'[i] = Transfer!Body(f, k)
            BY <2>4
        <3> QED BY <3>1, SMTT(30) DEF LeadsTo
    <2> QED BY <2>1, <2>2, <2>5 DEF ClientIsAt
<1>13. BodiesFollow(f)'
    BY <1>10, <1>11, <1>12 DEF BodiesFollow
<1> QED BY <1>5, <1>6, <1>7, <1>13 DEF FileFits

-----------------------------------------------------------------------------
LEMMA PacketAppended ==
    ASSUME FileTypes, NEW packet \in Packets, wire' = Append(wire, packet)
    PROVE  /\ Len(wire) \in Nat /\ Len(wire') = Len(wire) + 1
           /\ \A i \in 1 .. Len(wire) : wire'[i] = wire[i]
           /\ wire'[Len(wire) + 1] = packet
  BY DEF FileTypes

\* What is about another file, or gets lost, does not concern f.
LEMMA SentIsOther ==
    ASSUME FileTypes, NEW f \in Transfer!Files, NEW packet \in Packets,
           Transfer!SendPacket(packet), linked' = linked,
           ~IsAbout(packet, f) \/ ~linked
    PROVE  /\ Len(wire') \in Nat
           /\ \A i \in 1 .. Len(wire') : IsAbout(wire'[i], f) =>
                 \A j \in 1 .. i : j \in 1 .. Len(wire) /\ wire'[j] = wire[j]
           /\ linked' => linked /\ \A i \in 1 .. Len(wire) : i \in 1 .. Len(wire') /\ wire'[i] = wire[i]
<1>1. CASE linked
    <2>1. wire' = Append(wire, packet)
        BY <1>1 DEF Transfer!SendPacket
    <2> QED BY <1>1, <2>1, PacketAppended
<1>2. CASE ~linked
    BY <1>2 DEF Transfer!SendPacket, FileTypes
<1> QED BY <1>1, <1>2

LEMMA MetaSent ==
    ASSUME Transfer!FileAssumption, FileTypes, ListFits, NEW f \in Transfer!Files, FileFits(f),
           UNCHANGED <<writing, written, ready, size, linked>>, AddedFiles' = AddedFiles,
           wire' = Append(wire, Transfer!Meta(f)), Listed(f, -1),
           \A p \in Positions : Listed(f, p)' => p = 0
    PROVE  FileFits(f)'
<1> DEFINE L == Len(wire)
<1>1. /\ L \in Nat /\ Len(wire') = L + 1
      /\ \A i \in 1 .. L : wire'[i] = wire[i]
      /\ wire'[L + 1] = Transfer!Meta(f)
    BY PacketAppended DEF Packets
<1>2. f \in 1 .. AddedFiles /\ AddedFiles \in Nat /\ -1 \in Positions
    BY DEF ListFits, Transfer!Files, Positions, Transfer!FileAssumption
<1>3. Fresh(f) /\ size[f] = -1 /\ f \notin ready /\ ~OnWire(Transfer!Close(f))
    BY <1>2 DEF FileFits, WaitsAtClient
<1>4. \A i \in 1 .. L + 1 : IsAbout(wire'[i], f) => i = L + 1
    BY <1>1, <1>3 DEF Fresh
<1>5. \A i \in 1 .. L + 1 : wire'[i] # Transfer!Close(f)
      /\ \A k \in 1 .. MaxPieces : wire'[i] # Transfer!Body(f, k)
    BY <1>1, <1>4, PacketsDiffer DEF IsAbout
<1>6. WaitsAtClient(f)'
    <2>1. ~(f > AddedFiles') /\ ~Listed(f, -1)'
        BY <1>2
    <2>2. ~OnWire(Transfer!Close(f))'
        BY <1>1, <1>5 DEF OnWire
    <2> QED BY <1>3, <2>1, <2>2 DEF WaitsAtClient
<1>7. MetaFirst(f)'
    BY <1>1, <1>3, <1>4 DEF MetaFirst, Fresh, IsAbout
<1>8. BodiesFollow(f)'
    <2>1. ASSUME NEW p \in 0 .. MaxPieces, Listed(f, p)'
          PROVE  ClientIsAt(f, p)'
        <3>1. p = 0 /\ Len(written'[f]) = 0
            BY <1>3, <2>1 DEF Fresh, Positions, Transfer!FileAssumption
        <3> QED BY <1>1, <1>5, <3>1 DEF ClientIsAt, LeadsTo
    <2> QED BY <1>1, <1>5, <2>1 DEF BodiesFollow
<1>9. WrittenInOrder(f)'
    BY DEF FileFits, WrittenInOrder
<1> QED BY <1>6, <1>7, <1>8, <1>9 DEF FileFits

LEMMA BodySent ==
    ASSUME Transfer!FileAssumption, FileTypes, ListFits, NEW f \in Transfer!Files, FileFits(f),
           UNCHANGED <<writing, written, ready, size>>, linked, linked', AddedFiles' = AddedFiles,
           NEW p \in 0 .. MaxPieces - 1, wire' = Append(wire, Transfer!Body(f, p + 1)), Listed(f, p),
           \A q \in Positions : Listed(f, q)' => q = p + 1
    PROVE  FileFits(f)'
<1> DEFINE L == Len(wire)
<1>1. /\ L \in Nat /\ Len(wire') = L + 1
      /\ \A i \in 1 .. L : wire'[i] = wire[i]
      /\ wire'[L + 1] = Transfer!Body(f, p + 1)
    <2>1. Transfer!Body(f, p + 1) \in Packets
        BY DEF Packets, Transfer!FileAssumption
    <2> QED BY <2>1, PacketAppended
<1>2. f \in 1 .. AddedFiles /\ AddedFiles \in Nat /\ p \in Positions /\ -1 \in Positions
    BY DEF ListFits, Transfer!Files, Positions, Transfer!FileAssumption
<1>3. size[f] = -1 /\ f \notin ready /\ ~OnWire(Transfer!Close(f))
    BY <1>2 DEF FileFits, WaitsAtClient
<1>4. \A i \in 1 .. L + 1 : wire'[i] # Transfer!Close(f)
    BY <1>1, <1>3, PacketsDiffer DEF OnWire
<1>5. \A i \in 1 .. L + 1 : wire'[i] = Transfer!Meta(f) => i \in 1 .. L /\ wire[i] = Transfer!Meta(f)
    BY <1>1, PacketsDiffer
<1>6. WaitsAtClient(f)'
    <2>1. ~(f > AddedFiles') /\ ~Listed(f, -1)'
        BY <1>2
    <2>2. ~OnWire(Transfer!Close(f))'
        BY <1>1, <1>4 DEF OnWire
    <2> QED BY <1>3, <2>1, <2>2 DEF WaitsAtClient
<1>7. MetaFirst(f)'
    BY <1>1, <1>5 DEF FileFits, MetaFirst
<1>8. ASSUME Awaited(f)' PROVE Awaited(f) /\ ClientIsAt(f, p) /\ Len(written[f]) \in Nat
    <2>1. Awaited(f)
        BY <1>1, <1>5, <1>8 DEF Awaited, OnWire
    <2> QED BY <1>2, <2>1 DEF FileFits, BodiesFollow, FileTypes, Transfer!FileAssumption
<1>9. ASSUME NEW j \in 1 .. L + 1, NEW m \in Int, LeadsTo(f, m, j)
      PROVE  LeadsTo(f, m, j)'
    <2>1. \A i \in 1 .. j - 1 : wire'[i] = wire[i]
        BY <1>1
    <2> QED BY <1>9, <2>1 DEF LeadsTo
<1>10. ASSUME Awaited(f)', NEW j \in 1 .. Len(wire'), NEW k \in 1 .. MaxPieces,
              wire'[j] = Transfer!Body(f, k)
       PROVE  BodyFollows(f, j, k)'
    <2>1. CASE j \in 1 .. L
        <3>1. BodyFollows(f, j, k)
            BY <1>1, <1>8, <1>10, <2>1 DEF FileFits, BodiesFollow
        <3>2. \A i \in 1 .. j - 1 : wire'[i] = wire[i]
            BY <1>1
        <3>3. k - 1 \in Int /\ j \in 1 .. L + 1
            BY <1>1, Transfer!FileAssumption DEF Transfer!FileAssumption
        <3>4. LeadsTo(f, k - 1, j)'
            BY <1>9, <3>1, <3>3 DEF BodyFollows
        <3> QED BY <3>1, <3>2, <3>4 DEF BodyFollows
    <2>2. CASE j = L + 1
        <3>1. k = p + 1
            BY <1>1, <1>10, <2>2, PacketsDiffer
        <3>2. ClientIsAt(f, p)
            BY <1>8, <1>10
        <3>3. LeadsTo(f, p, j)'
            BY <1>1, <1>9, <2>2, <3>2 DEF ClientIsAt
        <3>4. k - 1 = p /\ k > Len(written'[f])
            BY <1>8, <1>10, <3>1, <3>2 DEF ClientIsAt
        <3>5. \A i \in 1 .. j - 1, l \in 1 .. MaxPieces : wire'[i] = Transfer!Body(f, l) => l < k
            BY <1>1, <2>2, <3>1, <3>2 DEF ClientIsAt
        <3> QED BY <2>2, <3>3, <3>4, <3>5 DEF BodyFollows
    <2> QED BY <1>1, <2>1, <2>2
<1>11. ASSUME Awaited(f)', NEW q \in 0 .. MaxPieces, Listed(f, q)'
       PROVE  ClientIsAt(f, q)'
    <2>1. q = p + 1
        BY <1>11 DEF Positions, Transfer!FileAssumption
    <2>2. ClientIsAt(f, p)
        BY <1>8, <1>11
    <2>3. ASSUME NEW k \in Len(written[f]) + 1 .. p + 1
          PROVE  \E i \in 1 .. L + 1 : wire'[i] = Transfer!Body(f, k)
        <3>1. CASE k = p + 1
            BY <1>1, <3>1
        <3>2. CASE k # p + 1
            <4>1. k \in Len(written[f]) + 1 .. p
                BY <1>8, <1>11, <3>2
            <4>2. PICK i \in 1 .. L + 1 - 1 : wire[i] = Transfer!Body(f, k)
                BY <2>2, <4>1 DEF ClientIsAt, LeadsTo
            <4> QED BY <1>1, <4>2
        <3> QED BY <3>1, <3>2
    <2>4. LeadsTo(f, q, Len(wire) + 1)'
        BY <1>1, <2>1, <2>3 DEF LeadsTo
    <2>5. \A i \in 1 .. Len(wire'), k \in 1 .. MaxPieces : wire'[i] = Transfer!Body(f, k) => k <= q
        <3>1. \A k \in 1 .. MaxPieces : wire'[L + 1] = Transfer!Body(f, k) => k = p + 1
            BY <1>1, PacketsDiffer
        <3> QED BY <1>1, <2>1, <2>2, <3>1 DEF ClientIsAt
    <2>6. Len(written'[f]) <= q
        BY <1>8, <1>11, <2>1, <2>2 DEF ClientIsAt
    <2> QED BY <2>4, <2>5, <2>6 DEF ClientIsAt
<1>12. BodiesFollow(f)'
    BY <1>1, <1>4, <1>10, <1>11 DEF BodiesFollow
<1>13. WrittenInOrder(f)'
    BY DEF FileFits, WrittenInOrder
<1> QED BY <1>6, <1>7, <1>12, <1>13 DEF FileFits

LEMMA CloseSent ==
    ASSUME Transfer!FileAssumption, FileTypes, ListFits, NEW f \in Transfer!Files, FileFits(f),
           UNCHANGED <<writing, written, ready>>, linked, linked', AddedFiles' = AddedFiles,
           NEW p \in 0 .. MaxPieces, wire' = Append(wire, Transfer!Close(f)), Listed(f, p),
           size'[f] = p, \A q \in Positions : ~Listed(f, q)'
    PROVE  FileFits(f)'
<1> DEFINE L == Len(wire)
<1>1. /\ L \in Nat /\ Len(wire') = L + 1
      /\ \A i \in 1 .. L : wire'[i] = wire[i]
      /\ wire'[L + 1] = Transfer!Close(f)
    BY PacketAppended DEF Packets
<1>2. f \in 1 .. AddedFiles /\ AddedFiles \in Nat /\ p \in Positions /\ -1 \in Positions
    BY DEF ListFits, Transfer!Files, Positions, Transfer!FileAssumption
<1>3. f \notin ready /\ ~OnWire(Transfer!Close(f))
    BY <1>2 DEF FileFits, WaitsAtClient
<1>4. \A i \in 1 .. L : wire[i] # Transfer!Close(f)
    BY <1>3 DEF OnWire
<1>5. \A i \in 1 .. L + 1 : wire'[i] = Transfer!Meta(f) => i \in 1 .. L /\ wire[i] = Transfer!Meta(f)
    BY <1>1, PacketsDiffer
<1>6. WaitsAtClient(f)'
    BY <1>2 DEF WaitsAtClient
<1>7. MetaFirst(f)'
    BY <1>1, <1>5 DEF FileFits, MetaFirst
<1>8. ASSUME Awaited(f)' PROVE Awaited(f) /\ ClientIsAt(f, p)
    <2>1. Awaited(f)
        BY <1>1, <1>5, <1>8 DEF Awaited, OnWire
    <2> QED BY <2>1 DEF FileFits, BodiesFollow
<1>9. ASSUME NEW j \in 1 .. L + 1, NEW m \in Int, LeadsTo(f, m, j)
      PROVE  LeadsTo(f, m, j)'
    <2>1. \A i \in 1 .. j - 1 : wire'[i] = wire[i]
        BY <1>1
    <2> QED BY <1>9, <2>1 DEF LeadsTo
<1>10. ASSUME Awaited(f)', NEW j \in 1 .. Len(wire'), NEW k \in 1 .. MaxPieces,
              wire'[j] = Transfer!Body(f, k)
       PROVE  BodyFollows(f, j, k)'
    <2>1. j \in 1 .. L
        BY <1>1, <1>10, PacketsDiffer
    <2>2. BodyFollows(f, j, k)
        BY <1>1, <1>8, <1>10, <2>1 DEF FileFits, BodiesFollow
    <2>3. \A i \in 1 .. j - 1 : wire'[i] = wire[i]
        BY <1>1
    <2>4. k - 1 \in Int /\ j \in 1 .. L + 1
        BY <1>1, Transfer!FileAssumption DEF Transfer!FileAssumption
    <2>5. LeadsTo(f, k - 1, j)'
        BY <1>9, <2>2, <2>4 DEF BodyFollows
    <2> QED BY <2>2, <2>3, <2>5 DEF BodyFollows
<1>11. ASSUME Awaited(f)', NEW j \in 1 .. Len(wire'), wire'[j] = Transfer!Close(f)
       PROVE  CloseFollows(f, j)'
    <2>1. j = L + 1
        BY <1>1, <1>4, <1>11
    <2>2. ClientIsAt(f, p)
        BY <1>8, <1>11
    <2>3. LeadsTo(f, p, j)'
        BY <1>1, <1>9, <2>1, <2>2 DEF ClientIsAt
    <2>4. \A i \in 1 .. j - 1 : wire'[i] = wire[i] /\ i \in 1 .. L
        BY <1>1, <2>1
    <2> QED BY <2>1, <2>2, <2>3, <2>4 DEF CloseFollows, ClientIsAt, LeadsTo
<1>12. BodiesFollow(f)'
    <2>1. \A q \in 0 .. MaxPieces : ~Listed(f, q)'
        BY DEF Positions, Transfer!FileAssumption
    <2> QED BY <1>10, <1>11, <2>1 DEF BodiesFollow
<1>13. WrittenInOrder(f)'
    BY <1>3 DEF FileFits, WrittenInOrder
<1> QED BY <1>6, <1>7, <1>12, <1>13 DEF FileFits

-----------------------------------------------------------------------------
LEMMA Shifted ==
    ASSUME FileTypes, wire # <<>>, wire' = Tail(wire)
    PROVE  /\ Len(wire) \in Nat /\ Len(wire') = Len(wire) - 1 /\ Len(wire) >= 1
           /\ wire[1] \in Packets /\ Head(wire) = wire[1]
           /\ \A i \in 1 .. Len(wire) - 1 : wire'[i] = wire[i + 1]
  BY DEF FileTypes

LEMMA LeadShifts ==
    ASSUME FileTypes, wire # <<>>, wire' = Tail(wire), NEW f \in Transfer!Files,
           NEW m \in Int, NEW j \in 1 .. Len(wire), LeadsTo(f, m, j + 1),
           Len(written'[f]) >= Len(written[f]), Len(written[f]) \in Nat, Len(written'[f]) \in Nat,
           \A k \in Int : wire[1] = Transfer!Body(f, k) => k <= Len(written'[f])
    PROVE  LeadsTo(f, m, j)'
<1> SUFFICES ASSUME NEW k \in Len(written'[f]) + 1 .. m
             PROVE  \E i \in 1 .. j - 1 : wire'[i] = Transfer!Body(f, k)
    BY DEF LeadsTo
<1>1. PICK i \in 1 .. j + 1 - 1 : wire[i] = Transfer!Body(f, k)
    BY DEF LeadsTo
<1>2. Len(wire) \in Nat /\ \A n \in 1 .. Len(wire) - 1 : wire'[n] = wire[n + 1]
    BY Shifted
<1>3. i # 1
    BY <1>1
<1>4. i - 1 \in 1 .. j - 1 /\ i - 1 \in 1 .. Len(wire) - 1
    BY <1>1, <1>2, <1>3
<1>5. wire'[i - 1] = wire[i]
    BY <1>1, <1>2, <1>4
<1> QED BY <1>1, <1>4, <1>5

\* A packet arrives that does not change what was written of f.
LEMMA ShiftStep ==
    ASSUME Transfer!FileAssumption, FileTypes, ListFits, NEW f \in Transfer!Files, FileFits(f),
           wire # <<>>, wire' = Tail(wire),
           written'[f] = written[f], UNCHANGED <<size, linked>>, AddedFiles' = AddedFiles,
           f \in ready' <=> f \in ready,
           f \in writing' => f \in writing \/ wire[1] = Transfer!Meta(f),
           \A p \in Positions : Listed(f, p)' => Listed(f, p),
           Awaited(f)' => \A k \in Int : wire[1] # Transfer!Body(f, k)
    PROVE  FileFits(f)'
<1> DEFINE L == Len(wire)
<1>1. /\ L \in Nat /\ Len(wire') = L - 1 /\ L >= 1
      /\ \A i \in 1 .. L - 1 : wire'[i] = wire[i + 1] /\ i + 1 \in 1 .. L
    BY Shifted
<1>2. -1 \in Positions /\ Len(written[f]) \in Nat /\ size[f] \in Int
    BY DEF Positions, FileTypes, Transfer!FileAssumption
<1>3. Fresh(f) => Fresh(f)'
    <2> SUFFICES ASSUME Fresh(f) PROVE Fresh(f)'
        OBVIOUS
    <2>1. f \notin writing'
        BY <1>1 DEF Fresh, IsAbout
    <2> QED BY <1>1, <2>1 DEF Fresh
<1>4. OnWire(Transfer!Close(f))' => OnWire(Transfer!Close(f))
    BY <1>1 DEF OnWire
<1>5. WaitsAtClient(f)'
    BY <1>2, <1>3, <1>4 DEF FileFits, WaitsAtClient
<1>6. MetaFirst(f)'
    <2> SUFFICES ASSUME NEW i \in 1 .. L - 1, wire'[i] = Transfer!Meta(f)
        PROVE  /\ f \notin writing' /\ f \notin ready' /\ written'[f] = <<>>
               /\ \A j \in 1 .. L - 1 : IsAbout(wire'[j], f) => j >= i
        BY <1>1 DEF MetaFirst
    <2>1. wire[i + 1] = Transfer!Meta(f) /\ i + 1 \in 1 .. L
        BY <1>1
    <2>2. /\ f \notin writing /\ f \notin ready /\ written[f] = <<>>
          /\ \A j \in 1 .. L : IsAbout(wire[j], f) => j >= i + 1
        BY <2>1 DEF FileFits, MetaFirst
    <2>3. wire[1] # Transfer!Meta(f)
        BY <1>1, <2>2 DEF IsAbout
    <2>4. ASSUME NEW j \in 1 .. L - 1, IsAbout(wire'[j], f) PROVE j >= i
        <3>1. IsAbout(wire[j + 1], f) /\ j + 1 \in 1 .. L
            BY <1>1, <2>4
        <3> QED BY <2>2, <3>1
    <2> QED BY <2>2, <2>3, <2>4
<1>7. WrittenInOrder(f)'
    BY <1>1 DEF FileFits, WrittenInOrder, MetaFirst
<1>8. ASSUME Awaited(f)' PROVE Awaited(f)
    BY <1>1, <1>8 DEF Awaited, OnWire
<1>9. ASSUME Awaited(f)', NEW m \in Int, NEW j \in 1 .. L, LeadsTo(f, m, j + 1)
      PROVE  LeadsTo(f, m, j)'
    <2>1. \A k \in Int : wire[1] = Transfer!Body(f, k) => k <= Len(written'[f])
        BY <1>9
    <2> QED BY <1>2, <1>9, <2>1, LeadShifts
<1>10. ASSUME Awaited(f)', NEW j \in 1 .. Len(wire'), NEW k \in 1 .. MaxPieces,
              wire'[j] = Transfer!Body(f, k)
       PROVE  BodyFollows(f, j, k)'
    <2>1. j + 1 \in 1 .. L /\ wire[j + 1] = Transfer!Body(f, k) /\ j \in 1 .. L
        BY <1>1, <1>10
    <2>2. BodyFollows(f, j + 1, k)
        BY <1>8, <1>10, <2>1 DEF FileFits, BodiesFollow
    <2>3. k - 1 \in Int
        BY DEF Transfer!FileAssumption
    <2>4. LeadsTo(f, k - 1, j)'
        BY <1>9, <1>10, <2>1, <2>2, <2>3 DEF BodyFollows
    <2>5. ASSUME NEW i \in 1 .. j - 1, NEW l \in 1 .. MaxPieces, wire'[i] = Transfer!Body(f,
                 l) PROVE l < k
        <3>1. i + 1 \in 1 .. j + 1 - 1 /\ wire[i + 1] = Transfer!Body(f, l)
            BY <1>1, <2>5
        <3> QED BY <2>2, <3>1 DEF BodyFollows
    <2> QED BY <2>2, <2>4, <2>5 DEF BodyFollows
<1>11. ASSUME Awaited(f)', NEW j \in 1 .. Len(wire'), wire'[j] = Transfer!Close(f)
       PROVE  CloseFollows(f, j)'
    <2>1. j + 1 \in 1 .. L /\ wire[j + 1] = Transfer!Close(f) /\ j \in 1 .. L
        BY <1>1, <1>11
    <2>2. CloseFollows(f, j + 1)
        BY <1>8, <1>11, <2>1 DEF FileFits, BodiesFollow
    <2>3. LeadsTo(f, size[f], j)'
        <3>1. PICK m \in Int : m = size[f]
            BY <1>2
        <3>2. LeadsTo(f, m, j)'
            BY <1>9, <1>11, <2>1, <2>2, <3>1 DEF CloseFollows
        <3> QED BY <3>1, <3>2 DEF LeadsTo
    <2>4. ASSUME NEW i \in 1 .. j - 1, NEW l \in 1 .. MaxPieces, wire'[i] = Transfer!Body(f, l)
          PROVE  l <= size[f]
        <3>1. PICK n \in 1 .. j + 1 - 1 : n = i + 1
            OBVIOUS
        <3>2. wire[n] = Transfer!Body(f, l)
            BY <1>1, <2>4, <3>1
        <3> QED BY <2>2, <3>2 DEF CloseFollows
    <2> QED BY <2>2, <2>3, <2>4 DEF CloseFollows
<1>12. ASSUME Awaited(f)', linked', NEW p \in 0 .. MaxPieces, Listed(f, p)'
       PROVE  ClientIsAt(f, p)'
    <2>1. ClientIsAt(f, p) /\ p \in Int
        BY <1>8, <1>12 DEF FileFits, BodiesFollow, Positions, Transfer!FileAssumption
    <2>3. \A i \in 1 .. Len(wire'), k \in 1 .. MaxPieces : wire'[i] = Transfer!Body(f, k) => k <= p
        BY <1>1, <2>1 DEF ClientIsAt
    <2>4. LeadsTo(f, p, Len(wire) + 1)'
        <3>3. L \in 1 .. L
            BY <1>1
        <3>1. PICK j \in 1 .. L : j = L
            BY <3>3, Zenon
        <3>2. LeadsTo(f, p, j)'
            BY <1>9, <1>12, <2>1, <3>1 DEF ClientIsAt
        <3> QED BY <1>1, <3>1, <3>2 DEF LeadsTo
    <2> QED BY <2>1, <2>3, <2>4 DEF ClientIsAt
<1>13. BodiesFollow(f)'
    BY <1>10, <1>11, <1>12 DEF BodiesFollow
<1> QED BY <1>5, <1>6, <1>7, <1>13 DEF FileFits

\* A piece arrives that the server writes.
LEMMA BodyArrives ==
    ASSUME Transfer!FileAssumption, FileTypes, ListFits, NEW f \in Transfer!Files, FileFits(f),
           wire # <<>>, wire' = Tail(wire), NEW k \in 1 .. MaxPieces, wire[1] = Transfer!Body(f, k),
           f \in writing, written'[f] = Append(written[f], k), UNCHANGED <<size, linked, writing, ready>>,
           AddedFiles' = AddedFiles, \A p \in Positions : Listed(f, p)' => Listed(f, p)
    PROVE  FileFits(f)'
<1> DEFINE L == Len(wire)
<1>1. /\ L \in Nat /\ Len(wire') = L - 1 /\ L >= 1
      /\ \A i \in 1 .. L - 1 : wire'[i] = wire[i + 1] /\ i + 1 \in 1 .. L
    BY Shifted
<1>2. -1 \in Positions /\ Len(written[f]) \in Nat /\ size[f] \in Int /\ written[f] \in Seq(Nat)
    BY DEF Positions, FileTypes, Transfer!FileAssumption
<1>3. Len(written'[f]) = Len(written[f]) + 1
      /\ \A i \in 1 .. Len(written[f]) : written'[f][i] = written[f][i]
      /\ written'[f][Len(written[f]) + 1] = k
    BY <1>2, k \in Nat DEF Transfer!FileAssumption
<1>4. k = Len(written[f]) + 1
    <2>1. BodyFollows(f, 1, k)
        BY <1>1 DEF FileFits, BodiesFollow, Awaited
    <2>2. ~(Len(written[f]) + 1 <= k - 1)
        BY <1>2, <2>1 DEF BodyFollows, LeadsTo, Transfer!FileAssumption
    <2> QED BY <1>2, <2>1, <2>2 DEF BodyFollows
<1>5. OnWire(Transfer!Close(f))' => OnWire(Transfer!Close(f))
    BY <1>1 DEF OnWire
<1>6. WaitsAtClient(f)'
    BY <1>2, <1>5 DEF FileFits, WaitsAtClient, Fresh
<1>7. MetaFirst(f)'
    BY <1>1 DEF FileFits, MetaFirst
<1>8. WrittenInOrder(f)'
    <2>1. WrittenInOrder(f)
        BY DEF FileFits
    <2>2. f \notin ready'
        BY <2>1 DEF WrittenInOrder
    <2>3. \A i \in 1 .. Len(written[f]) : written'[f][i] = i
        BY <1>3, <2>1 DEF WrittenInOrder
    <2>4. \A i \in 1 .. Len(written'[f]) : written'[f][i] = i
        BY <1>2, <1>3, <1>4, <2>3
    <2> QED BY <2>2, <2>4 DEF WrittenInOrder
<1>9. ASSUME NEW m \in Int, NEW j \in 1 .. L, LeadsTo(f, m, j + 1)
      PROVE  LeadsTo(f, m, j)'
    <2>1. \A l \in Int : wire[1] = Transfer!Body(f, l) => l <= Len(written'[f])
        <3>1. \A l : wire[1] = Transfer!Body(f, l) => l = k
            BY PacketsDiffer
        <3>2. k <= Len(written'[f])
            BY <1>2, <1>3, <1>4
        <3> QED BY <3>1, <3>2
    <2>2. Len(written'[f]) >= Len(written[f]) /\ Len(written'[f]) \in Nat /\ Len(written[f]) \in Nat
        BY <1>2, <1>3
    <2> QED BY <1>9, <2>1, <2>2, LeadShifts
<1>10. ASSUME NEW j \in 1 .. Len(wire'), NEW l \in 1 .. MaxPieces, wire'[j] = Transfer!Body(f, l)
       PROVE  BodyFollows(f, j, l)'
    <2>1. j + 1 \in 1 .. L /\ wire[j + 1] = Transfer!Body(f, l) /\ j \in 1 .. L
        BY <1>1, <1>10
    <2>2. BodyFollows(f, j + 1, l)
        BY <2>1 DEF FileFits, BodiesFollow, Awaited
    <2>3. l - 1 \in Int
        BY DEF Transfer!FileAssumption
    <2>4. LeadsTo(f, l - 1, j)'
        BY <1>9, <2>1, <2>2, <2>3 DEF BodyFollows
    <2>5. ASSUME NEW i \in 1 .. j - 1, NEW n \in 1 .. MaxPieces, wire'[i] = Transfer!Body(f,
                 n) PROVE n < l
        <3>1. i + 1 \in 1 .. j + 1 - 1 /\ wire[i + 1] = Transfer!Body(f, n)
            BY <1>1, <2>5
        <3> QED BY <2>2, <3>1 DEF BodyFollows
    <2>6. l > Len(written'[f])
        <3>1. 1 \in 1 .. j + 1 - 1
            OBVIOUS
        <3>2. k < l
            BY <2>2, <3>1 DEF BodyFollows
        <3> QED BY <1>2, <1>3, <1>4, <3>2 DEF Transfer!FileAssumption
    <2> QED BY <2>4, <2>5, <2>6 DEF BodyFollows
<1>11. ASSUME NEW j \in 1 .. Len(wire'), wire'[j] = Transfer!Close(f)
       PROVE  CloseFollows(f, j)'
    <2>1. j + 1 \in 1 .. L /\ wire[j + 1] = Transfer!Close(f) /\ j \in 1 .. L
        BY <1>1, <1>11
    <2>2. CloseFollows(f, j + 1)
        BY <2>1 DEF FileFits, BodiesFollow, Awaited
    <2>3. LeadsTo(f, size[f], j)'
        <3>1. PICK m \in Int : m = size[f]
            BY <1>2
        <3>2. LeadsTo(f, m, j)'
            BY <1>9, <2>1, <2>2, <3>1 DEF CloseFollows
        <3> QED BY <3>1, <3>2 DEF LeadsTo
    <2>4. ASSUME NEW i \in 1 .. j - 1, NEW l \in 1 .. MaxPieces, wire'[i] = Transfer!Body(f, l)
          PROVE  l <= size[f]
        <3>1. PICK n \in 1 .. j + 1 - 1 : n = i + 1
            OBVIOUS
        <3>2. wire[n] = Transfer!Body(f, l)
            BY <1>1, <2>4, <3>1
        <3> QED BY <2>2, <3>2 DEF CloseFollows
    <2>5. Len(written'[f]) <= size[f]
        <3>1. 1 \in 1 .. j + 1 - 1
            OBVIOUS
        <3> QED BY <1>3, <1>4, <2>2, <3>1 DEF CloseFollows
    <2> QED BY <2>3, <2>4, <2>5 DEF CloseFollows
<1>12. ASSUME linked', NEW p \in 0 .. MaxPieces, Listed(f, p)'
       PROVE  ClientIsAt(f, p)'
    <2>1. ClientIsAt(f, p) /\ p \in Int
        BY <1>12 DEF FileFits, BodiesFollow, Positions, Transfer!FileAssumption, Awaited
    <2>2. Len(written'[f]) <= p
        BY <1>1, <1>3, <1>4, <2>1 DEF ClientIsAt
    <2>3. \A i \in 1 .. Len(wire'), l \in 1 .. MaxPieces : wire'[i] = Transfer!Body(f, l) => l <= p
        BY <1>1, <2>1 DEF ClientIsAt
    <2>4. LeadsTo(f, p, Len(wire) + 1)'
        <3>3. L \in 1 .. L
            BY <1>1
        <3>1. PICK j \in 1 .. L : j = L
            BY <3>3, Zenon
        <3>2. LeadsTo(f, p, j)'
            BY <1>9, <2>1, <3>1 DEF ClientIsAt
        <3> QED BY <1>1, <3>1, <3>2 DEF LeadsTo
    <2> QED BY <2>2, <2>3, <2>4 DEF ClientIsAt
<1>13. BodiesFollow(f)'
    BY <1>10, <1>11, <1>12 DEF BodiesFollow
<1> QED BY <1>6, <1>7, <1>8, <1>13 DEF FileFits

\* The end of the file arrives that the server has open.
LEMMA CloseArrives ==
    ASSUME Transfer!FileAssumption, FileTypes, ListFits, NEW f \in Transfer!Files, FileFits(f),
           wire # <<>>, wire' = Tail(wire), wire[1] = Transfer!Close(f), f \in writing,
           f \notin writing', UNCHANGED <<size, linked, written>>,
           AddedFiles' = AddedFiles, \A p \in Positions : Listed(f, p)' => Listed(f, p)
    PROVE  FileFits(f)'
<1> DEFINE L == Len(wire)
<1>1. /\ L \in Nat /\ Len(wire') = L - 1 /\ L >= 1
      /\ \A i \in 1 .. L - 1 : wire'[i] = wire[i + 1] /\ i + 1 \in 1 .. L
    BY Shifted
<1>2. -1 \in Positions /\ Len(written[f]) \in Nat /\ size[f] \in Int
    BY DEF Positions, FileTypes, Transfer!FileAssumption
<1>3. size[f] = Len(written[f])
    <2>1. CloseFollows(f, 1)
        BY <1>1 DEF FileFits, BodiesFollow, Awaited
    <2>2. ~(Len(written[f]) + 1 <= size[f])
        BY <1>2, <2>1 DEF CloseFollows, LeadsTo
    <2> QED BY <1>2, <2>1, <2>2 DEF CloseFollows
<1>4. ~(f > AddedFiles) /\ \A p \in Positions : ~Listed(f, p)
    <2>1. OnWire(Transfer!Close(f))
        BY <1>1 DEF OnWire
    <2> QED BY <2>1 DEF FileFits, WaitsAtClient
<1>5. WaitsAtClient(f)'
    BY <1>2, <1>4 DEF WaitsAtClient
<1>6. \A i \in 1 .. L - 1 : wire'[i] # Transfer!Meta(f)
    BY <1>1 DEF FileFits, MetaFirst
<1>7. MetaFirst(f)' /\ BodiesFollow(f)'
    BY <1>1, <1>6 DEF MetaFirst, BodiesFollow, Awaited, OnWire
<1>8. WrittenInOrder(f)'
    BY <1>3 DEF FileFits, WrittenInOrder
<1> QED BY <1>5, <1>7, <1>8 DEF FileFits

-----------------------------------------------------------------------------
\* The client's list: an entry is added, moves on, or is removed.
LEMMA EntryAdded ==
    ASSUME FileTypes, ListFits, NEW e \in Entries, files' = Append(files, e),
           e.kind = "file" => \A p \in Positions : ~Listed(e.id, p)
    PROVE  /\ files' \in Seq(Entries) /\ Len(files') = Len(files) + 1
           /\ \A f \in Nat, p \in Positions : Listed(f, p)' =>
                 Listed(f, p) \/ (e.kind = "file" /\ e.id = f /\ e.pos = p)
           /\ \A i, j \in 1 .. Len(files') :
                 files'[i].kind = "file" /\ files'[j].kind = "file" /\ files'[i].id = files'[j].id
                    => i = j
<1>1. /\ files' \in Seq(Entries) /\ Len(files') = Len(files) + 1 /\ Len(files) \in Nat
      /\ \A i \in 1 .. Len(files) : files'[i] = files[i] /\ files[i].pos \in Positions
      /\ files'[Len(files) + 1] = e
    <2>1. /\ files' \in Seq(Entries) /\ Len(files') = Len(files) + 1 /\ Len(files) \in Nat
          /\ \A i \in 1 .. Len(files) : files'[i] = files[i] /\ files[i] \in Entries
          /\ files'[Len(files) + 1] = e
        BY DEF FileTypes
    <2> QED BY <2>1 DEF Entries
<1>2. \A f \in Nat, p \in Positions : Listed(f, p)' =>
          Listed(f, p) \/ (e.kind = "file" /\ e.id = f /\ e.pos = p)
    BY <1>1 DEF Listed
<1>3. e.kind = "file" => \A i \in 1 .. Len(files) : files[i].kind = "file" => files[i].id # e.id
    <2> SUFFICES ASSUME e.kind = "file", NEW i \in 1 .. Len(files), files[i].kind = "file",
                        files[i].id = e.id
                 PROVE  FALSE
        OBVIOUS
    <2>1. files[i].pos \in Positions /\ Listed(e.id, files[i].pos)
        BY <1>1 DEF Listed
    <2> QED BY <2>1
<1>4. ASSUME NEW i \in 1 .. Len(files'), NEW j \in 1 .. Len(files'),
             files'[i].kind = "file", files'[j].kind = "file", files'[i].id = files'[j].id
      PROVE  i = j
    <2>1. CASE i \in 1 .. Len(files) /\ j \in 1 .. Len(files)
        BY <1>1, <1>4, <2>1 DEF ListFits
    <2>2. CASE i = Len(files) + 1 \/ j = Len(files) + 1
        BY <1>1, <1>3, <1>4, <2>2
    <2> QED BY <1>1, <2>1, <2>2
<1> QED BY <1>1, <1>2, <1>4

LEMMA EntryMoved ==
    ASSUME Transfer!FileAssumption, FileTypes, ListFits, Transfer!Visits("file"), NEW q \in Positions,
           files' = [files EXCEPT ![next].pos = q]
    PROVE  /\ files' \in Seq(Entries) /\ Len(files') = Len(files)
           /\ \A f \in Nat, p \in Positions : Listed(f, p)' =>
                 (f = Transfer!Entry.id /\ p = q) \/ (f # Transfer!Entry.id /\ Listed(f, p))
           /\ \A i, j \in 1 .. Len(files') :
                 files'[i].kind = "file" /\ files'[j].kind = "file" /\ files'[i].id = files'[j].id
                    => i = j
<1>1. next \in 1 .. Len(files) /\ files[next].kind = "file" /\ Transfer!Entry = files[next]
    BY DEF Transfer!Visits, Transfer!Entry, ListFits, FileTypes
<1>2. files[next] \in Entries /\ Len(files) \in Nat
    BY <1>1 DEF FileTypes
<1>3. [files[next] EXCEPT !.pos = q] \in Entries
    BY <1>2 DEF Entries
<1>4. files' \in Seq(Entries) /\ Len(files') = Len(files)
    BY <1>1, <1>2, <1>3 DEF FileTypes
<1>5. \A i \in 1 .. Len(files) : i # next => files'[i] = files[i]
    BY <1>1 DEF FileTypes
<1>6. files'[next].kind = "file" /\ files'[next].id = Transfer!Entry.id /\ files'[next].pos = q
    BY <1>1, <1>2 DEF FileTypes, Entries
<1>7. \A i \in 1 .. Len(files) : files[i].kind = "file" /\ files[i].id = Transfer!Entry.id => i = next
    BY <1>1 DEF ListFits
<1>8. ASSUME NEW f \in Nat, NEW p \in Positions, Listed(f, p)'
      PROVE  (f = Transfer!Entry.id /\ p = q) \/ (f # Transfer!Entry.id /\ Listed(f, p))
    <2>1. PICK i \in 1 .. Len(files) : files'[i].kind = "file" /\ files'[i].id = f /\ files'[i].pos = p
        BY <1>4, <1>8 DEF Listed
    <2>2. CASE i = next
        BY <1>6, <2>1, <2>2
    <2>3. CASE i # next
        BY <1>5, <1>7, <2>1, <2>3 DEF Listed
    <2> QED BY <2>2, <2>3
<1>9. ASSUME NEW i \in 1 .. Len(files'), NEW j \in 1 .. Len(files'),
             files'[i].kind = "file", files'[j].kind = "file", files'[i].id = files'[j].id
      PROVE  i = j
    BY <1>4, <1>5, <1>6, <1>7, <1>9 DEF ListFits
<1> QED BY <1>4, <1>8, <1>9

LEMMA EntryRemoved ==
    ASSUME FileTypes, ListFits, next # 0, files' = Transfer!Removed, next' = Transfer!Fetched(TRUE)
    PROVE  /\ files' \in Seq(Entries) /\ next' \in 0 .. Len(files')
           /\ \A f \in Nat, p \in Positions : Listed(f, p)' =>
                 Listed(f, p) /\ (Transfer!Entry.kind = "file" => f # Transfer!Entry.id)
           /\ \A i, j \in 1 .. Len(files') :
                 files'[i].kind = "file" /\ files'[j].kind = "file" /\ files'[i].id = files'[j].id
                    => i = j
<1> DEFINE L == Len(files)
<1> DEFINE A == SubSeq(files, 1, next - 1)
<1> DEFINE B == SubSeq(files, next + 1, L)
<1>1. next \in 1 .. L /\ L \in Nat
    BY DEF ListFits, FileTypes
<1>2. A \in Seq(Entries) /\ Len(A) = next - 1 /\ \A i \in 1 .. next - 1 : A[i] = files[i]
    BY <1>1 DEF FileTypes
<1>3. B \in Seq(Entries) /\ Len(B) = L - next /\ \A i \in 1 .. L - next : B[i] = files[next + i]
    BY <1>1 DEF FileTypes
<1>4. files' = A \o B
    BY DEF Transfer!Removed, Transfer!Without
<1> HIDE DEF A, B
<1>5. files' \in Seq(Entries) /\ Len(files') = L - 1
    <2>1. A \o B \in Seq(Entries) /\ Len(A \o B) = Len(A) + Len(B)
        BY <1>2, <1>3, ConcatProperties
    <2> QED BY <1>1, <1>2, <1>3, <1>4, <2>1
<1>6. \A i \in 1 .. next - 1 : files'[i] = files[i]
    BY <1>1, <1>2, <1>3, <1>4
<1>7. ASSUME NEW i \in next .. L - 1 PROVE files'[i] = files[i + 1]
    <2>1. i - Len(A) \in 1 .. L - next /\ i > Len(A) /\ i \in 1 .. Len(A) + Len(B)
        BY <1>1, <1>2, <1>3
    <2>2. files'[i] = B[i - Len(A)]
        BY <1>2, <1>3, <1>4, <2>1
    <2> QED BY <1>1, <1>2, <1>3, <2>1, <2>2
<1>8. \A i \in 1 .. L - 1 :
          /\ i < next => files'[i] = files[i] /\ i \in 1 .. L
          /\ i >= next => files'[i] = files[i + 1] /\ i + 1 \in 1 .. L
    BY <1>1, <1>6, <1>7
<1>9. next' \in 0 .. Len(files')
    BY <1>1, <1>5 DEF Transfer!Fetched
<1>10. Transfer!Entry = files[next]
    BY DEF Transfer!Entry
<1>11. ASSUME NEW f \in Nat, NEW p \in Positions, Listed(f, p)'
       PROVE  Listed(f, p) /\ (Transfer!Entry.kind = "file" => f # Transfer!Entry.id)
    <2>1. PICK i \in 1 .. L - 1 : files'[i].kind = "file" /\ files'[i].id = f /\ files'[i].pos = p
        BY <1>5, <1>11 DEF Listed
    <2>2. PICK k \in 1 .. L : k # next /\ files'[i] = files[k]
        <3>1. CASE i < next
            BY <1>1, <1>8, <3>1
        <3>2. CASE i >= next
            BY <1>1, <1>8, <3>2
        <3> QED BY <1>1, <3>1, <3>2
    <2> QED BY <1>1, <1>10, <2>1, <2>2 DEF Listed, ListFits
<1>12. ASSUME NEW i \in 1 .. Len(files'), NEW j \in 1 .. Len(files'),
              files'[i].kind = "file", files'[j].kind = "file", files'[i].id = files'[j].id
       PROVE  i = j
    <2>1. PICK k \in 1 .. L : files'[i] = files[k] /\ k = IF i < next THEN i ELSE i + 1
        BY <1>1, <1>5, <1>8
    <2>2. PICK m \in 1 .. L : files'[j] = files[m] /\ m = IF j < next THEN j ELSE j + 1
        BY <1>1, <1>5, <1>8
    <2>3. k = m
        BY <1>12, <2>1, <2>2 DEF ListFits
    <2> QED BY <1>1, <1>5, <2>1, <2>2, <2>3
<1> QED BY <1>5, <1>9, <1>11, <1>12

-----------------------------------------------------------------------------
LEMMA VisitedIsListed ==
    ASSUME Transfer!FileAssumption, FileTypes, ListFits, Transfer!Visits("file")
    PROVE  /\ Transfer!Entry.id \in Transfer!Files /\ Transfer!Entry.id \in Nat
           /\ Transfer!Entry.pos \in Positions
           /\ Listed(Transfer!Entry.id, Transfer!Entry.pos)
<1>1. next \in 1 .. Len(files) /\ files[next].kind = "file" /\ Transfer!Entry = files[next]
    BY DEF Transfer!Visits, Transfer!Entry, ListFits, FileTypes
<1>2. Transfer!Entry \in Entries
    BY <1>1 DEF FileTypes
<1>3. Transfer!Entry.id \in Nat /\ Transfer!Entry.pos \in Positions
    BY <1>2 DEF Entries
<1>4. Listed(Transfer!Entry.id, Transfer!Entry.pos)
    BY <1>1 DEF Listed
<1> QED BY <1>3, <1>4 DEF ListFits, Transfer!Files, Transfer!FileAssumption

\* A step that leaves the connection, the server and what the client has sent alone.
LEMMA NothingSent ==
    ASSUME FileTypes, wire' = wire
    PROVE  /\ Len(wire') \in Nat
           /\ \A i \in 1 .. Len(wire') : \A j \in 1 .. i : j \in 1 .. Len(wire) /\ wire'[j] = wire[j]
           /\ \A i \in 1 .. Len(wire) : i \in 1 .. Len(wire') /\ wire'[i] = wire[i]
  BY DEF FileTypes

LEMMA InitFits == ASSUME Transfer!FileAssumption, Transfer!Init PROVE FileInv
<1>1. FileTypes
    BY DEF FileTypes, Transfer!Init, Transfer!FileAssumption, Transfer!Files
<1>2. \A f, p : ~Listed(f, p)
    BY DEF Listed, Transfer!Init
<1>3. AddedFiles = 0
    BY DEF AddedFiles, Transfer!Init, Transfer!NoEntry
<1>4. ListFits
    BY <1>2, <1>3 DEF ListFits, Transfer!Init, Transfer!FileAssumption
<1>5. ASSUME NEW f \in Transfer!Files PROVE FileFits(f)
    BY <1>2 DEF Transfer!Init, FileFits, WaitsAtClient, Fresh, OnWire, MetaFirst, BodiesFollow, Awaited,
                WrittenInOrder
<1> QED BY <1>1, <1>4, <1>5 DEF FileInv

\* The main thread adds, or begins a pass: the TCP thread does not notice.
LEMMA MainThreadFits ==
    ASSUME Transfer!FileAssumption, FileInv, Transfer!DropFile \/ Transfer!EndDrop \/ Transfer!PassBegins
    PROVE  FileInv'
<1> USE DEF FileInv
<1>1. UNCHANGED <<files, wire, linked, writing, written, ready, size>>
    BY DEF Transfer!DropFile, Transfer!EndDrop, Transfer!PassBegins
<1>2. \A f, p : Listed(f, p)' <=> Listed(f, p)
    BY <1>1 DEF Listed
<1>3. FileTypes' /\ AddedFiles' = AddedFiles /\ next' \in 0 .. Len(files)
    <2>1. CASE Transfer!DropFile
        <3>1. Len(dropped') = Len(dropped) + 1 /\ dropped' \in Seq(Nat)
              /\ adding' = Transfer!FileEntry(Len(dropped'))
            BY <2>1 DEF Transfer!DropFile, FileTypes
        <3>2. AddedFiles' = AddedFiles
            BY <2>1, <3>1 DEF Transfer!DropFile, AddedFiles, Transfer!NoEntry, Transfer!FileEntry,
               FileTypes
        <3>3. Len(dropped') <= MaxFiles /\ UNCHANGED <<groups, next>>
            BY <2>1, <3>1 DEF Transfer!DropFile, FileTypes, Transfer!FileAssumption
        <3> QED BY <1>1, <3>1, <3>2, <3>3 DEF FileTypes, ListFits
    <2>2. CASE Transfer!EndDrop
        <3>1. adding' = Transfer!Marker(groups + 1) /\ groups' = groups + 1 /\ groups \in Nat
              /\ adding = Transfer!NoEntry
              /\ UNCHANGED <<dropped, next>>
            BY <2>2 DEF Transfer!EndDrop, FileTypes
        <3>2. AddedFiles' = AddedFiles
            BY <3>1 DEF AddedFiles, Transfer!NoEntry, Transfer!Marker
        <3>3. groups' \in Nat /\ \E g \in Nat : adding' = Transfer!Marker(g)
            BY <3>1
        <3> QED BY <1>1, <3>1, <3>2, <3>3 DEF FileTypes, ListFits
    <2>3. CASE Transfer!PassBegins
        BY <1>1, <2>3 DEF Transfer!PassBegins, FileTypes, AddedFiles
    <2> QED BY <2>1, <2>2, <2>3
<1>4. ListFits'
    BY <1>1, <1>2, <1>3 DEF ListFits
<1>5. ASSUME NEW f \in Transfer!Files PROVE FileFits(f)'
    <2>1. FileFits(f)
        OBVIOUS
    <2> QED BY <1>1, <1>2, <1>3, <2>1, NothingSent, ClientStep
<1> QED BY <1>3, <1>4, <1>5

LEMMA AddTailFits ==
    ASSUME Transfer!FileAssumption, FileInv, Transfer!AddTail
    PROVE  FileInv'
<1> USE DEF FileInv
<1>1. UNCHANGED <<next, dropped, wire, linked, writing, written, ready, size, groups>>
      /\ adding # Transfer!NoEntry /\ adding' = Transfer!NoEntry
    BY DEF Transfer!AddTail
<1>2. AddedFiles' = Len(dropped) /\ Len(dropped) \in 0 .. MaxFiles
    BY <1>1 DEF AddedFiles, Transfer!NoEntry, FileTypes
<1>3. (adding.kind = "file" /\ adding.id = Len(dropped) /\ adding.pos = -1
      /\ AddedFiles = Len(dropped) - 1)
      \/ (adding.kind = "marker" /\ AddedFiles = Len(dropped))
    BY <1>1 DEF FileTypes, Transfer!FileEntry, Transfer!Marker, AddedFiles
<1>4. adding \in Entries
    BY <1>1, <1>2 DEF FileTypes, Transfer!FileEntry, Transfer!Marker, Entries, Positions,
       Transfer!FileAssumption
<1>5. adding.kind = "file" => \A p \in Positions : ~Listed(adding.id, p)
    BY <1>2, <1>3 DEF ListFits
<1>6. /\ files' \in Seq(Entries) /\ Len(files') >= Len(files)
      /\ \A f \in Nat, p \in Positions : Listed(f, p)' =>
            Listed(f, p) \/ (adding.kind = "file" /\ adding.id = f /\ adding.pos = p)
      /\ \A i, j \in 1 .. Len(files') :
            files'[i].kind = "file" /\ files'[j].kind = "file" /\ files'[i].id = files'[j].id
                    => i = j
    <2>1. CASE wrecked
        BY <2>1 DEF Transfer!AddTail, FileTypes, ListFits, Listed
    <2>2. CASE ~wrecked
        <3>1. files' = Append(files, adding)
            BY <2>2 DEF Transfer!AddTail
        <3>2. Len(files) \in Nat
            BY DEF FileTypes
        <3>3. /\ files' \in Seq(Entries) /\ Len(files') = Len(files) + 1
              /\ \A f \in Nat, p \in Positions : Listed(f, p)' =>
                    Listed(f, p) \/ (adding.kind = "file" /\ adding.id = f /\ adding.pos = p)
              /\ \A i, j \in 1 .. Len(files') :
                    files'[i].kind = "file" /\ files'[j].kind = "file" /\ files'[i].id = files'[j].id
                        => i = j
            BY <1>4, <1>5, <3>1, EntryAdded
        <3>4. Len(files') >= Len(files)
            BY <3>2, <3>3
        <3> QED BY <3>3, <3>4
    <2> QED BY <2>1, <2>2
<1>7. FileTypes'
    BY <1>1, <1>6 DEF FileTypes
<1>8. ListFits'
    <2>1. next' \in 0 .. Len(files')
        BY <1>1, <1>6, <1>7 DEF ListFits, FileTypes
    <2>2. ASSUME NEW f \in Nat, NEW p \in Positions, Listed(f, p)' PROVE f \in 1 .. AddedFiles'
        BY <1>2, <1>3, <1>6, <2>2 DEF ListFits
    <2> QED BY <1>1, <1>2, <1>6, <2>1, <2>2 DEF ListFits
<1>9. ASSUME NEW f \in Transfer!Files PROVE FileFits(f)'
    <2>1. FileFits(f) /\ f \in Nat /\ -1 \in Positions
          /\ \A p \in 0 .. MaxPieces : p \in Positions /\ p # -1
        BY DEF Transfer!Files, Positions, Transfer!FileAssumption
    <2>2. \A p \in Positions : Listed(f, p)' => Listed(f, p) \/ (p = -1 /\ f > AddedFiles)
        BY <1>2, <1>3, <1>6, <2>1
    <2>3. f > AddedFiles' => f > AddedFiles
        BY <1>2, <1>3, <2>1
    <2> QED BY <1>1, <2>1, <2>2, <2>3, NothingSent, ClientStep
<1> QED BY <1>7, <1>8, <1>9

LEMMA SentFits ==
    ASSUME FileTypes, NEW packet \in Packets, Transfer!SendPacket(packet)
    PROVE  wire' \in Seq(Packets)
<1>1. CASE linked
    BY <1>1 DEF Transfer!SendPacket, FileTypes
<1>2. CASE ~linked
    BY <1>2 DEF Transfer!SendPacket, FileTypes
<1> QED BY <1>1, <1>2

LEMMA VisitMarkerFits ==
    ASSUME Transfer!FileAssumption, FileInv, Transfer!VisitMarker
    PROVE  FileInv'
<1> USE DEF FileInv
<1>1. /\ UNCHANGED <<adding, dropped, groups, linked, writing, written, ready, size>>
      /\ next # 0 /\ files' = Transfer!Removed /\ next' = Transfer!Fetched(TRUE)
      /\ Transfer!SendPacket(Transfer!GroupEnd(Transfer!Entry.id))
    BY DEF Transfer!VisitMarker, Transfer!VisitUnchanged, Transfer!Visits
<1>2. Transfer!GroupEnd(Transfer!Entry.id) \in Packets
    <2>1. next \in 1 .. Len(files) /\ Transfer!Entry = files[next]
        BY <1>1 DEF Transfer!Entry, ListFits, FileTypes
    <2>2. Transfer!Entry \in Entries
        BY <2>1 DEF FileTypes
    <2>3. Transfer!Entry.id \in Nat
        BY <2>2 DEF Entries
    <2> QED BY <2>3 DEF Packets
<1>3. AddedFiles' = AddedFiles
    BY <1>1 DEF AddedFiles
<1>4. FileTypes'
    BY <1>1, <1>2, EntryRemoved, SentFits DEF FileTypes
<1>5. ListFits'
    BY <1>1, <1>3, EntryRemoved DEF ListFits
<1>6. ASSUME NEW f \in Transfer!Files PROVE FileFits(f)'
    <2>1. FileFits(f) /\ f \in Nat /\ -1 \in Positions /\ \A p \in 0 .. MaxPieces : p \in Positions
        BY DEF Transfer!Files, Positions, Transfer!FileAssumption
    <2>2. \A p \in Positions : Listed(f, p)' => Listed(f, p)
        BY <1>1, <2>1, EntryRemoved
    <2>3. ~IsAbout(Transfer!GroupEnd(Transfer!Entry.id), f)
        BY PacketsDiffer DEF IsAbout
    <2> QED BY <1>1, <1>2, <1>3, <2>1, <2>2, <2>3, SentIsOther, ClientStep
<1> QED BY <1>4, <1>5, <1>6

\* A file's entry moves on and sends packet.
LEMMA MoveFits ==
    ASSUME Transfer!FileAssumption, FileInv, Transfer!Visits("file"), NEW packet \in Packets,
           Transfer!SendPacket(packet),
           NEW q \in Positions, files' = [files EXCEPT ![next].pos = q], q = Transfer!Entry.pos + 1,
           next' = Transfer!Fetched(FALSE), Transfer!VisitUnchanged, size' = size,
           IF q = 0 THEN packet = Transfer!Meta(Transfer!Entry.id)
                    ELSE packet = Transfer!Body(Transfer!Entry.id, q)
    PROVE  FileInv'
<1> USE DEF FileInv
<1>1. UNCHANGED <<adding, dropped, groups, linked, writing, written, ready>>
    BY DEF Transfer!VisitUnchanged
<1>2. /\ Transfer!Entry.id \in Transfer!Files /\ Transfer!Entry.id \in Nat
      /\ Transfer!Entry.pos \in Positions
      /\ Listed(Transfer!Entry.id, Transfer!Entry.pos)
    BY VisitedIsListed
<1>3. AddedFiles' = AddedFiles
    BY <1>1 DEF AddedFiles
<1>4. FileTypes'
    BY <1>1, EntryMoved, SentFits DEF FileTypes
<1>5. ListFits'
    <2>1. next' \in 0 .. Len(files')
        BY EntryMoved DEF ListFits, FileTypes, Transfer!Fetched, Transfer!Visits
    <2>2. ASSUME NEW f \in Nat, NEW p \in Positions, Listed(f, p)' PROVE f \in 1 .. AddedFiles
        <3>1. f = Transfer!Entry.id \/ Listed(f, p)
            BY <2>2, EntryMoved
        <3> QED BY <1>2, <3>1 DEF ListFits
    <2> QED BY <1>1, <1>3, <2>1, <2>2, EntryMoved DEF ListFits
<1>6. ASSUME NEW f \in Transfer!Files PROVE FileFits(f)'
    <2>1. FileFits(f) /\ f \in Nat /\ -1 \in Positions /\ \A p \in 0 .. MaxPieces : p \in Positions
        BY DEF Transfer!Files, Positions, Transfer!FileAssumption
    <2>2. \A p \in Positions : Listed(f, p)' =>
              (f = Transfer!Entry.id /\ p = q) \/ (f # Transfer!Entry.id /\ Listed(f, p))
        BY <2>1, EntryMoved
    <2>3. q \in 0 .. MaxPieces
        BY <1>2 DEF Positions, Transfer!FileAssumption
    <2>4. CASE f # Transfer!Entry.id
        <3>1. ~IsAbout(packet, f)
            BY <2>4, PacketsDiffer DEF IsAbout
        <3> QED BY <1>1, <1>3, <2>1, <2>2, <2>4, <3>1, SentIsOther, ClientStep
    <2>5. CASE f = Transfer!Entry.id /\ ~linked
        <3>1. f \in 1 .. AddedFiles /\ AddedFiles \in Nat
            BY <1>2, <2>5 DEF ListFits
        <3>2. ~Listed(f, -1)'
            BY <2>1, <2>2, <2>3, <2>5
        <3>3. \E p \in Positions : Listed(f, p)
            BY <1>2, <2>5
        <3> QED BY <1>1, <1>3, <2>1, <2>5, <3>1, <3>2, <3>3, SentIsOther, ClientStep
    <2>6. CASE f = Transfer!Entry.id /\ linked
        <3>1. wire' = Append(wire, packet)
            BY <2>6 DEF Transfer!SendPacket
        <3>2. CASE q = 0
            <4>1. Listed(f, -1) /\ \A p \in Positions : Listed(f, p)' => p = 0
                BY <1>2, <2>2, <2>6, <3>2 DEF Positions, Transfer!FileAssumption
            <4> QED BY <1>1, <1>3, <2>1, <2>6, <3>1, <3>2, <4>1, MetaSent
        <3>3. CASE q # 0
            <4>1. PICK p \in 0 .. MaxPieces - 1 : p = Transfer!Entry.pos /\ q = p + 1
                BY <1>2, <2>3, <3>3 DEF Positions, Transfer!FileAssumption
            <4>2. Listed(f, p) /\ \A r \in Positions : Listed(f, r)' => r = p + 1
                BY <1>2, <2>2, <2>6, <4>1
            <4>3. wire' = Append(wire, Transfer!Body(f, p + 1))
                BY <2>6, <3>1, <3>3, <4>1
            <4> QED BY <1>1, <1>3, <2>1, <2>6, <4>2, <4>3, BodySent
        <3> QED BY <3>2, <3>3
    <2> QED BY <2>4, <2>5, <2>6
<1> QED BY <1>4, <1>5, <1>6

LEMMA VisitFits ==
    ASSUME Transfer!FileAssumption, FileInv, Transfer!VisitUnopened \/ Transfer!VisitBody
    PROVE  FileInv'
<1>0. FileTypes /\ ListFits
    BY DEF FileInv
<1>1. CASE Transfer!VisitUnopened
    <2>1. /\ Transfer!Visits("file") /\ Transfer!Entry.pos = -1
          /\ next' = Transfer!Fetched(FALSE) /\ Transfer!VisitUnchanged
          /\ files' = [files EXCEPT ![next].pos = 0] /\ size' = size
          /\ Transfer!SendPacket(Transfer!Meta(Transfer!Entry.id))
        BY <1>1 DEF Transfer!VisitUnopened
    <2>2. PICK q \in Positions : q = 0
        BY DEF Positions, Transfer!FileAssumption
    <2>3. Transfer!Meta(Transfer!Entry.id) \in Packets
        BY <1>0, <2>1, VisitedIsListed DEF Packets
    <2>4. files' = [files EXCEPT ![next].pos = q] /\ q = Transfer!Entry.pos + 1
        BY <2>1, <2>2
    <2> QED BY <2>1, <2>2, <2>3, <2>4, MoveFits
<1>2. CASE Transfer!VisitBody
    <2>1. /\ Transfer!Visits("file") /\ Transfer!Entry.pos \in 0 .. MaxPieces - 1
          /\ next' = Transfer!Fetched(FALSE) /\ Transfer!VisitUnchanged
          /\ files' = [files EXCEPT ![next].pos = @ + 1] /\ size' = size
          /\ Transfer!SendPacket(Transfer!Body(Transfer!Entry.id, Transfer!Entry.pos + 1))
        BY <1>2 DEF Transfer!VisitBody
    <2>2. PICK q \in Positions : q = Transfer!Entry.pos + 1
        BY <2>1 DEF Positions, Transfer!FileAssumption
    <2>3. Transfer!Body(Transfer!Entry.id, q) \in Packets /\ q # 0
        BY <1>0, <2>1, <2>2, VisitedIsListed DEF Packets, Transfer!FileAssumption
    <2>4. files' = [files EXCEPT ![next].pos = q]
        BY <2>1, <2>2 DEF Transfer!Entry
    <2> QED BY <2>1, <2>2, <2>3, <2>4, MoveFits
<1> QED BY <1>1, <1>2

LEMMA RemovalFits ==
    ASSUME Transfer!FileAssumption, FileInv, Transfer!OpenFails \/ Transfer!VisitEnd
    PROVE  FileInv'
<1> USE DEF FileInv
<1>1. /\ UNCHANGED <<adding, dropped, groups, linked, writing, written, ready>>
      /\ Transfer!Visits("file") /\ next # 0 /\ files' = Transfer!Removed
      /\ next' = Transfer!Fetched(TRUE)
    BY DEF Transfer!OpenFails, Transfer!VisitEnd, Transfer!VisitUnchanged, Transfer!Visits
<1>2. /\ Transfer!Entry.id \in Transfer!Files /\ Transfer!Entry.id \in Nat
      /\ Transfer!Entry.pos \in Positions
      /\ Listed(Transfer!Entry.id, Transfer!Entry.pos) /\ Transfer!Entry.kind = "file"
    BY <1>1, VisitedIsListed DEF Transfer!Visits
<1>3. AddedFiles' = AddedFiles /\ AddedFiles \in Nat /\ Transfer!Entry.id \in 1 .. AddedFiles
    BY <1>1, <1>2 DEF AddedFiles, ListFits
<1>4. ListFits'
    BY <1>1, <1>3, EntryRemoved DEF ListFits
<1>5. \A f \in Transfer!Files, p \in Positions : Listed(f, p)' => Listed(f, p) /\ f # Transfer!Entry.id
    <2>1. \A f \in Transfer!Files : f \in Nat
        BY DEF Transfer!Files
    <2>2. \A f \in Nat, p \in Positions : Listed(f, p)' =>
              Listed(f, p) /\ (Transfer!Entry.kind = "file" => f # Transfer!Entry.id)
        BY <1>1, EntryRemoved
    <2> QED BY <1>2, <2>1, <2>2
<1>6. \A f \in Transfer!Files : FileFits(f) /\ f \in Nat
    BY DEF Transfer!Files
<1>7. -1 \in Positions /\ \A p \in 0 .. MaxPieces : p \in Positions
    BY DEF Positions, Transfer!FileAssumption
<1>8. CASE Transfer!OpenFails
    <2>1. UNCHANGED <<wire, size>>
        BY <1>8 DEF Transfer!OpenFails
    <2>2. FileTypes'
        BY <1>1, <2>1, EntryRemoved DEF FileTypes
    <2>3. ASSUME NEW f \in Transfer!Files PROVE FileFits(f)'
        BY <1>1, <1>3, <1>5, <1>6, <1>7, <2>1, NothingSent, ClientStep
    <2> QED BY <1>4, <2>2, <2>3
<1>9. CASE Transfer!VisitEnd
    <2>1. Transfer!SendPacket(Transfer!Close(Transfer!Entry.id))
          /\ size' = [size EXCEPT ![Transfer!Entry.id] = Transfer!Entry.pos] /\ Transfer!Entry.pos >= 0
        BY <1>9 DEF Transfer!VisitEnd
    <2>2. Transfer!Close(Transfer!Entry.id) \in Packets
        BY <1>2 DEF Packets
    <2>3. FileTypes'
        <3>1. size' \in [Transfer!Files -> Int]
            BY <1>2, <2>1 DEF FileTypes, Positions, Transfer!FileAssumption
        <3>2. wire' \in Seq(Packets) /\ files' \in Seq(Entries)
            BY <1>1, <2>1, <2>2, EntryRemoved, SentFits
        <3> QED BY <1>1, <3>1, <3>2 DEF FileTypes
    <2>4. ASSUME NEW f \in Transfer!Files PROVE FileFits(f)'
        <3>1. CASE f # Transfer!Entry.id
            <4>1. ~IsAbout(Transfer!Close(Transfer!Entry.id), f) /\ size'[f] = size[f]
                BY <2>1, <3>1, PacketsDiffer DEF IsAbout, FileTypes
            <4> QED BY <1>1, <1>3, <1>5, <1>6, <1>7, <2>1, <2>2, <4>1, SentIsOther, ClientStep
        <3>2. CASE f = Transfer!Entry.id
            <4>1. size[f] = -1 /\ f \notin ready /\ ~OnWire(Transfer!Close(f))
                BY <1>2, <1>6, <3>2 DEF FileFits, WaitsAtClient
            <4>2. \A p \in Positions : ~Listed(f, p)'
                BY <1>5, <3>2
            <4>3. ~(f > AddedFiles') /\ size'[f] = Transfer!Entry.pos
                BY <1>3, <2>1, <3>2 DEF FileTypes
            <4>4. CASE ~linked
                BY <1>1, <1>3, <1>6, <1>7, <2>1, <2>2, <4>1, <4>2, <4>3, <4>4, SentIsOther, ClientStep
            <4>5. CASE linked
                <5>1. wire' = Append(wire, Transfer!Close(f))
                    BY <2>1, <3>2, <4>5 DEF Transfer!SendPacket
                <5>2. PICK p \in 0 .. MaxPieces : p = Transfer!Entry.pos
                    BY <1>2, <2>1 DEF Positions, Transfer!FileAssumption
                <5> QED BY <1>1, <1>2, <1>3, <1>6, <3>2, <4>2, <4>3, <4>5, <5>1, <5>2, CloseSent
            <4> QED BY <4>4, <4>5
        <3> QED BY <3>1, <3>2
    <2> QED BY <1>4, <2>3, <2>4
<1> QED BY <1>8, <1>9

\* The server handles a packet: it leaves the client alone.
LEMMA ServerFits ==
    ASSUME Transfer!FileAssumption, FileInv, Transfer!ServerReceives
    PROVE  FileInv'
<1> USE DEF FileInv
<1>1. /\ UNCHANGED <<files, next, adding, dropped, groups, linked, size>>
      /\ wire # <<>> /\ wire' = Tail(wire) /\ Transfer!Handles(Head(wire))
    BY DEF Transfer!ServerReceives
<1>2. AddedFiles' = AddedFiles /\ \A f, p : Listed(f, p)' <=> Listed(f, p)
    BY <1>1 DEF AddedFiles, Listed
<1>3. ListFits'
    BY <1>1, <1>2 DEF ListFits
<1>4. wire[1] \in Packets /\ Head(wire) = wire[1] /\ wire' \in Seq(Packets)
    BY <1>1, Shifted DEF FileTypes
<1>5. ASSUME writing' \subseteq Transfer!Files, ready' \subseteq Transfer!Files,
             written' \in [Transfer!Files -> Seq(Nat)]
      PROVE  FileTypes'
    BY <1>1, <1>4, <1>5 DEF FileTypes
<1>6. /\ writing \subseteq Transfer!Files /\ ready \subseteq Transfer!Files
      /\ written \in [Transfer!Files -> Seq(Nat)]
      /\ \A f \in Transfer!Files : FileFits(f)
    BY DEF FileTypes
<1>7. ASSUME NEW g \in Transfer!Files, wire[1] = Transfer!Meta(g) PROVE FileInv'
    <2>1. Transfer!OpenForWriting(g)
        BY <1>1, <1>4, <1>7 DEF Transfer!Handles, Transfer!Meta
    <2>2. UNCHANGED <<written, ready>> /\ (writing' = writing \/ writing' = writing \cup {g})
        BY <2>1 DEF Transfer!OpenForWriting
    <2>3. \A f, k : wire[1] # Transfer!Body(f, k)
        BY <1>7, PacketsDiffer
    <2>4. ASSUME NEW f \in Transfer!Files PROVE FileFits(f)'
        BY <1>1, <1>2, <1>6, <1>7, <2>2, <2>3, ShiftStep
    <2> QED BY <1>3, <1>5, <1>6, <2>2, <2>4
<1>8. ASSUME NEW g \in Nat, wire[1] = Transfer!GroupEnd(g) PROVE FileInv'
    <2>1. Transfer!DropAll(g)
        BY <1>1, <1>4, <1>8 DEF Transfer!Handles, Transfer!GroupEnd
    <2>2. UNCHANGED <<written, ready, writing>>
        BY <2>1 DEF Transfer!DropAll
    <2>3. \A f, k : wire[1] # Transfer!Body(f, k)
        BY <1>8, PacketsDiffer
    <2>4. ASSUME NEW f \in Transfer!Files PROVE FileFits(f)'
        BY <1>1, <1>2, <1>6, <2>2, <2>3, ShiftStep
    <2> QED BY <1>3, <1>5, <1>6, <2>2, <2>4
<1>9. ASSUME NEW g \in Transfer!Files, NEW k \in 1 .. MaxPieces, wire[1] = Transfer!Body(g,
             k) PROVE FileInv'
    <2>1. /\ written' = IF g \in writing THEN [written EXCEPT ![g] = Append(@, k)] ELSE written
          /\ UNCHANGED <<ready, writing>>
        BY <1>1, <1>4, <1>9 DEF Transfer!Handles, Transfer!Body, Transfer!WriteChunk, Transfer!IsWriting
    <2>2. k \in Nat
        BY DEF Transfer!FileAssumption
    <2>3. written' \in [Transfer!Files -> Seq(Nat)]
          /\ \A f \in Transfer!Files : f # g => written'[f] = written[f]
        BY <1>6, <2>1, <2>2
    <2>4. ASSUME NEW f \in Transfer!Files PROVE FileFits(f)'
        <3>1. CASE f # g
            <4>1. \A l : wire[1] # Transfer!Body(f, l)
                BY <1>9, <3>1, PacketsDiffer
            <4> QED BY <1>1, <1>2, <1>6, <2>1, <2>3, <3>1, <4>1, ShiftStep
        <3>2. CASE f = g /\ g \in writing
            <4>1. written'[f] = Append(written[f], k)
                BY <1>6, <2>1, <3>2
            <4> QED BY <1>1, <1>2, <1>6, <1>9, <2>1, <3>2, <4>1, BodyArrives
        <3>3. CASE f = g /\ g \notin writing
            <4>1. ~Awaited(f)'
                <5>1. IsAbout(wire[1], f)
                    BY <1>9, <3>3 DEF IsAbout
                <5>2. ASSUME NEW i \in 1 .. Len(wire'), wire'[i] = Transfer!Meta(f) PROVE FALSE
                    <6>1. i + 1 \in 1 .. Len(wire) /\ wire[i + 1] = Transfer!Meta(f)
                          /\ 1 \in 1 .. Len(wire)
                        BY <1>1, <5>2, Shifted
                    <6> QED BY <1>6, <5>1, <6>1 DEF FileFits, MetaFirst
                <5> QED BY <2>1, <3>3, <5>2 DEF Awaited, OnWire
            <4>2. written'[f] = written[f]
                BY <2>1, <3>3
            <4> QED BY <1>1, <1>2, <1>6, <2>1, <4>1, <4>2, ShiftStep
        <3> QED BY <3>1, <3>2, <3>3
    <2> QED BY <1>3, <1>5, <1>6, <2>1, <2>3, <2>4
<1>10. ASSUME NEW g \in Transfer!Files, wire[1] = Transfer!Close(g) PROVE FileInv'
    <2>1. /\ written' = written
          /\ ready' = IF g \in writing THEN ready \cup {g} ELSE ready
          /\ writing' = IF g \in writing THEN writing \ {g} ELSE writing
        BY <1>1, <1>4, <1>10 DEF Transfer!Handles, Transfer!Close, Transfer!WriteChunk, Transfer!IsWriting
    <2>2. \A f, k : wire[1] # Transfer!Body(f, k)
        BY <1>10, PacketsDiffer
    <2>3. ASSUME NEW f \in Transfer!Files PROVE FileFits(f)'
        <3>1. CASE f = g /\ g \in writing
            BY <1>1, <1>2, <1>6, <1>10, <2>1, <3>1, CloseArrives
        <3>2. CASE f # g \/ g \notin writing
            <4>1. (f \in ready' <=> f \in ready) /\ (f \in writing' => f \in writing)
                BY <2>1, <3>2
            <4> QED BY <1>1, <1>2, <1>6, <2>1, <2>2, <4>1, ShiftStep
        <3> QED BY <3>1, <3>2
    <2> QED BY <1>3, <1>5, <1>6, <2>1, <2>3
<1> QED BY <1>4, <1>7, <1>8, <1>9, <1>10 DEF Packets

\* The connection ends and loses what is under way from some packet on; a new one begins
\* with empty lists.
LEMMA DisconnectFits ==
    ASSUME Transfer!FileAssumption, FileInv, Transfer!Disconnect
    PROVE  FileInv'
<1> USE DEF FileInv
<1>1. UNCHANGED <<files, next, adding, dropped, groups, writing, written, ready, size>> /\ ~linked'
    BY DEF Transfer!Disconnect
<1>2. AddedFiles' = AddedFiles /\ \A f, p : Listed(f, p)' <=> Listed(f, p)
    BY <1>1 DEF AddedFiles, Listed
<1>3. PICK n \in 0 .. Len(wire) : wire' = SubSeq(wire, 1, n)
    BY DEF Transfer!Disconnect
<1>4. /\ wire' \in Seq(Packets) /\ Len(wire') = n /\ n \in Nat /\ Len(wire) \in Nat
      /\ \A i \in 1 .. n : i \in 1 .. Len(wire) /\ wire'[i] = wire[i]
    BY <1>3 DEF FileTypes
<1>5. FileTypes' /\ ListFits'
    BY <1>1, <1>2, <1>4 DEF FileTypes, ListFits, Transfer!Disconnect
<1>6. ASSUME NEW f \in Transfer!Files PROVE FileFits(f)'
    <2>1. \A i \in 1 .. Len(wire') : \A j \in 1 .. i : j \in 1 .. Len(wire) /\ wire'[j] = wire[j]
        BY <1>4
    <2>2. FileFits(f) /\ Len(wire') \in Nat
        BY <1>4
    <2> QED BY <1>1, <1>2, <2>1, <2>2, ClientStep
<1> QED BY <1>5, <1>6

LEMMA ReconnectFits ==
    ASSUME Transfer!FileAssumption, FileInv, Transfer!Reconnect
    PROVE  FileInv'
<1> USE DEF FileInv
<1>1. /\ UNCHANGED <<next, adding, dropped, groups, written, ready, size, wire>>
      /\ wire = <<>> /\ next = 0 /\ files' = <<>> /\ writing' = {} /\ linked' = TRUE
    BY DEF Transfer!Reconnect
<1>2. AddedFiles' = AddedFiles /\ \A f, p : ~Listed(f, p)'
    BY <1>1 DEF AddedFiles, Listed
<1>3. FileTypes' /\ ListFits'
    BY <1>1, <1>2 DEF FileTypes, ListFits
<1>4. ASSUME NEW f \in Transfer!Files PROVE FileFits(f)'
    <2>1. Len(wire') = 0 /\ FileFits(f)
        BY <1>1
    <2> QED BY <1>1, <1>2, <2>1 DEF FileFits, WaitsAtClient, Fresh, OnWire, MetaFirst, BodiesFollow,
                                    Awaited, WrittenInOrder
<1> QED BY <1>3, <1>4

LEMMA StutterFits == ASSUME Transfer!FileAssumption, FileInv, UNCHANGED Transfer!vars PROVE FileInv'
<1>1. UNCHANGED <<files, next, adding, dropped, groups, wire, linked, writing, written, ready, size>>
    BY DEF Transfer!vars
<1>2. AddedFiles' = AddedFiles /\ \A f, p : Listed(f, p)' <=> Listed(f, p)
    BY <1>1 DEF AddedFiles, Listed
<1>3. FileTypes' /\ ListFits'
    BY <1>1, <1>2 DEF FileInv, FileTypes, ListFits
<1>4. ASSUME NEW f \in Transfer!Files PROVE FileFits(f)'
    BY <1>1, <1>2, <1>4, NothingSent, ClientStep DEF FileInv
<1> QED BY <1>3, <1>4 DEF FileInv

\* A file that is marked ready was written whole, whatever was dropped, however the packets of
\* several files mix, and wherever the connection ended (file_synchronizer.c:287-600).
THEOREM FilesAreWhole == Transfer!Spec => []FilesArriveWhole
<1>0. Transfer!Init => FileInv
    BY InitFits, ComponentAssumptions
<1>1. FileInv /\ [Transfer!Next]_(Transfer!vars) => FileInv'
    BY MainThreadFits, AddTailFits, VisitMarkerFits, VisitFits, RemovalFits, ServerFits,
       DisconnectFits, ReconnectFits, StutterFits, ComponentAssumptions
    DEF Transfer!Next, Transfer!ClientLoop
<1>2. FileInv => FilesArriveWhole
    <2> SUFFICES ASSUME FileInv, NEW f \in ready PROVE written[f] = [k \in 1 .. size[f] |-> k]
        BY DEF FilesArriveWhole, Transfer!FilesArriveWhole
    <2>1. f \in Transfer!Files /\ written[f] \in Seq(Nat) /\ WrittenInOrder(f)
        BY DEF FileInv, FileTypes, FileFits
    <2>2. /\ Len(written[f]) = size[f] /\ size[f] \in Nat
          /\ \A k \in 1 .. size[f] : written[f][k] = k
        BY <2>1 DEF WrittenInOrder
    <2>3. written[f] = [k \in 1 .. Len(written[f]) |-> written[f][k]]
        BY <2>1
    <2> QED BY <2>2, <2>3
<1> QED BY <1>0, <1>1, <1>2, PTL DEF Transfer!Spec
=============================================================================
