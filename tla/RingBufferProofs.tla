-------------------------- MODULE RingBufferProofs --------------------------
(***************************************************************************)
(* The asserts of the ring buffer never fail, its count of ready frames is *)
(* exact, and it plays frames in order: for rings, frames and streams of   *)
(* every size, in an environment as RingBuffer!Environment describes it.   *)
(***************************************************************************)
EXTENDS RingBuffer, FiniteSetTheorems, TLAPS

-----------------------------------------------------------------------------
(* Slots *)

\* Every frame ID has a slot.
LEMMA SlotOfType ==
    ASSUME NEW id \in Nat
    PROVE  SlotOf(id) \in Slots
  BY SizeAssumption DEF SlotOf, Slots

\* Two frames that share a slot are at least a turn of the ring apart.
LEMMA SlotGap ==
    ASSUME NEW a \in Nat, NEW b \in Nat, a < b, SlotOf(a) = SlotOf(b)
    PROVE  b >= a + Size
<1> DEFINE p == a \div Size
           q == b \div Size
           r == a % Size
<1>1. p \in Int /\ q \in Int /\ r \in Int
  BY SizeAssumption
<1>2. a = Size * p + r
  BY SizeAssumption
<1>3. b = Size * q + r
  BY SizeAssumption DEF SlotOf
<1> HIDE DEF p, q, r
<1>4. q > p
  BY <1>1, <1>2, <1>3, SizeAssumption
<1>5. Size * q >= Size * (p + 1)
  BY <1>1, <1>4, SizeAssumption
<1>6. Size * (p + 1) = Size * p + Size
  BY <1>1, SizeAssumption
<1> QED
  BY <1>1, <1>2, <1>3, <1>5, <1>6, SizeAssumption

\* The ring has Size slots.
LEMMA SlotsFinite == IsFiniteSet(Slots) /\ Cardinality(Slots) = Size
  BY FS_Interval, SizeAssumption DEF Slots

-----------------------------------------------------------------------------
(* Frames *)

\* A frame has at least as many segments as original packets.
LEMMA IndicesType ==
    ASSUME NEW id \in Ids
    PROVE  /\ Indices(id) \subseteq Nat
           /\ IsFiniteSet(Indices(id))
           /\ Original[id] \in Nat \ {0}
           /\ Fec[id] \in Nat
           /\ 0 .. Original[id] - 1 \subseteq Indices(id)
<1>1. Original[id] \in Nat \ {0} /\ Fec[id] \in Nat
  BY FrameAssumption
<1>2. 0 \in Int /\ NumIndices(id) - 1 \in Int
  BY <1>1 DEF NumIndices
<1>3. IsFiniteSet(Indices(id))
  BY <1>2, FS_Interval DEF Indices
<1> QED
  BY <1>1, <1>3 DEF Indices, NumIndices

\* More segments never make a frame less decodable.
LEMMA DecodableGrows ==
    ASSUME NEW id \in Ids, NEW got \in SUBSET Indices(id), NEW more \in SUBSET Indices(id),
           got \subseteq more, Decodable(id, got)
    PROVE  Decodable(id, more)
<1> DEFINE A == {k \in got : <<id, k>> \notin TooLarge}
           B == {k \in more : <<id, k>> \notin TooLarge}
<1>1. IsFiniteSet(B) /\ IsFiniteSet(A)
  BY IndicesType, FS_Subset
<1>2. Cardinality(A) <= Cardinality(B)
  BY <1>1, FS_Subset
<1>3. Cardinality(A) \in Nat /\ Cardinality(B) \in Nat
  BY <1>1, FS_CardinalityType
<1> QED
  BY <1>2, <1>3, IndicesType DEF Decodable

\* What a frame must be like to take a segment: Fresh(id) is, and so is a frame
\* of the buffer.
CanTake(f, id) ==
    /\ f \in FrameData
    /\ f.id = id
    /\ f.got \subseteq Indices(id)
    /\ f.rec => Decodable(id, f.got)
    /\ f.fb <=> HasFramebuffer(f)
    /\ f.buf => id > currently_rendering_id
    /\ ~f.buf => id <= currently_rendering_id \/ f.got = Indices(id)

\* No assert fails on the way of a segment into its frame.
LEMMA DepositPasses ==
    ASSUME NEW id \in Ids, NEW k \in Indices(id), NEW f, CanTake(f, id),
           currently_rendering_id \in Int
    PROVE  ~DepositFails(f, id, k)
<1>1. CASE id <= currently_rendering_id
  <2>1. ~f.buf
    BY <1>1 DEF CanTake, Ids
  <2> QED
    BY <1>1, <2>1 DEF CanTake, DepositFails, HasFramebuffer
<1>2. CASE ~(id <= currently_rendering_id)
  BY <1>2 DEF CanTake, DepositFails
<1> QED
  BY <1>1, <1>2

\* A segment is added to its frame, and frame_buffer is set when that completes it.
LEMMA DepositGood ==
    ASSUME Environment, NEW id \in Ids, NEW k \in Indices(id), NEW f, CanTake(f, id),
           currently_rendering_id \in Int
    PROVE  LET g == Deposit(f, id, k) IN
           /\ CanTake(g, id)
           /\ g.got = f.got \cup {k}
           /\ g.buf = f.buf
           /\ HasFramebuffer(f) => HasFramebuffer(g)
<1> DEFINE g == Deposit(f, id, k)
           marked == [f EXCEPT !.got = @ \cup {k}, !.fb = HasFramebuffer(f)]
           copied == [marked EXCEPT !.rec = @ \/ (Fec[id] > 0 /\ Decodable(id, marked.got))]
<1>0. f \in FrameData /\ f.got \subseteq Indices(id) /\ Indices(id) \subseteq Nat
  BY IndicesType DEF CanTake
<1>1. /\ marked \in FrameData /\ marked.id = id /\ marked.got = f.got \cup {k}
      /\ marked.buf = f.buf /\ marked.rec = f.rec /\ marked.fb = HasFramebuffer(f)
  BY <1>0 DEF FrameData, CanTake, HasFramebuffer
<1>2. f.rec => Decodable(id, f.got \cup {k})
  BY <1>0, DecodableGrows DEF CanTake
<1>3. CASE k \in f.got
  <2>1. g = f
    BY <1>3 DEF Deposit
  <2> QED
    BY <1>3, <2>1
<1>4. CASE k \notin f.got /\ (id <= currently_rendering_id \/ <<id, k>> \in TooLarge)
  <2>1. g = marked
    BY <1>4 DEF Deposit
  <2>2. HasFramebuffer(marked) <=> HasFramebuffer(f)
    <3>1. CASE ~f.buf
      BY <3>1, <1>1 DEF HasFramebuffer
    <3>2. CASE f.buf
      <4>1. <<id, k>> \in TooLarge
        BY <1>4, <3>2 DEF CanTake, Ids
      <4>2. Fec[id] > 0
        BY <4>1, IndicesType DEF Environment
      <4> QED
        BY <4>2, <1>1 DEF HasFramebuffer, CanTake
    <3> QED
      BY <3>1, <3>2, <1>0 DEF FrameData
  <2>3. CanTake(marked, id)
    BY <1>1, <1>2, <1>0, <2>2 DEF CanTake
  <2> QED
    BY <2>1, <2>2, <2>3, <1>1
<1>5. CASE ~(k \in f.got) /\ ~(id <= currently_rendering_id \/ <<id, k>> \in TooLarge)
  <2>1. g = [copied EXCEPT !.fb = HasFramebuffer(copied)]
    BY <1>5 DEF Deposit
  <2>2. /\ copied \in FrameData /\ copied.id = id /\ copied.got = f.got \cup {k}
        /\ copied.buf = f.buf
        /\ copied.rec = (f.rec \/ (Fec[id] > 0 /\ Decodable(id, f.got \cup {k})))
    BY <1>1 DEF FrameData
  <2>3. HasFramebuffer(copied) \in BOOLEAN
    BY <2>2 DEF HasFramebuffer, FrameData
  <2>4. /\ g \in FrameData /\ g.id = id /\ g.got = copied.got /\ g.buf = copied.buf
        /\ g.rec = copied.rec /\ g.fb = HasFramebuffer(copied)
    BY <2>1, <2>2, <2>3 DEF FrameData
  <2>5. HasFramebuffer(g) <=> HasFramebuffer(copied)
    BY <2>2, <2>4 DEF HasFramebuffer
  <2>6. HasFramebuffer(f) => HasFramebuffer(copied)
    BY <2>2, <1>0 DEF HasFramebuffer, CanTake
  <2>7. f.buf
    BY <1>5 DEF CanTake
  <2> QED
    BY <2>2, <2>4, <2>5, <2>6, <2>7, <1>0, <1>2 DEF CanTake
<1> QED
  BY <1>3, <1>4, <1>5

-----------------------------------------------------------------------------
(* Counting ready frames *)

ReadySlots(sl) == {s \in Slots : HasFramebuffer(sl[s])}

\* At most Size frames are ready.
LEMMA ReadySlotsFinite ==
    ASSUME NEW sl
    PROVE  IsFiniteSet(ReadySlots(sl)) /\ Cardinality(ReadySlots(sl)) \in 0 .. Size
<1>1. ReadySlots(sl) \in SUBSET Slots
  BY DEF ReadySlots
<1>2. IsFiniteSet(ReadySlots(sl)) /\ Cardinality(ReadySlots(sl)) <= Size
  BY <1>1, SlotsFinite, FS_Subset
<1> QED
  BY <1>2, FS_CardinalityType, SizeAssumption

\* Overwriting a slot by a ready frame counts one more if it was not ready.
LEMMA CountFilled ==
    ASSUME NEW sl \in [Slots -> FrameData], NEW s \in Slots, NEW g,
           HasFramebuffer(sl[s]) => HasFramebuffer(g)
    PROVE  Cardinality(ReadySlots([sl EXCEPT ![s] = g]))
             = IF HasFramebuffer(g) /\ ~HasFramebuffer(sl[s])
                 THEN Cardinality(ReadySlots(sl)) + 1 ELSE Cardinality(ReadySlots(sl))
<1> DEFINE after == [sl EXCEPT ![s] = g]
<1>1. CASE HasFramebuffer(g)
  <2>1. ReadySlots(after) = ReadySlots(sl) \cup {s}
    BY <1>1 DEF ReadySlots
  <2>2. s \in ReadySlots(sl) <=> HasFramebuffer(sl[s])
    BY DEF ReadySlots
  <2>3. Cardinality(ReadySlots(sl) \cup {s})
          = IF s \in ReadySlots(sl) THEN Cardinality(ReadySlots(sl))
                                   ELSE Cardinality(ReadySlots(sl)) + 1
    BY ReadySlotsFinite, FS_AddElement
  <2>4. Cardinality(ReadySlots(sl)) \in Int
    BY ReadySlotsFinite
  <2>5. CASE HasFramebuffer(sl[s])
    BY <1>1, <2>1, <2>2, <2>3, <2>4, <2>5
  <2>6. CASE ~HasFramebuffer(sl[s])
    BY <1>1, <2>1, <2>2, <2>3, <2>4, <2>6
  <2> QED
    BY <2>5, <2>6
<1>2. CASE ~HasFramebuffer(g)
  <2>1. ReadySlots(after) = ReadySlots(sl)
    BY <1>2 DEF ReadySlots
  <2> QED
    BY <1>2, <2>1, ReadySlotsFinite
<1> QED
  BY <1>1, <1>2

\* Overwriting a slot by a frame that is not ready counts one less if it was.
LEMMA CountEmptied ==
    ASSUME NEW sl \in [Slots -> FrameData], NEW s \in Slots, NEW g, ~HasFramebuffer(g),
           NEW after, after = [sl EXCEPT ![s] = g]
    PROVE  Cardinality(ReadySlots(after))
             = IF HasFramebuffer(sl[s])
                 THEN Cardinality(ReadySlots(sl)) - 1 ELSE Cardinality(ReadySlots(sl))
<1>1. ReadySlots(after) = ReadySlots(sl) \ {s}
  BY DEF ReadySlots
<1>2. s \in ReadySlots(sl) <=> HasFramebuffer(sl[s])
  BY DEF ReadySlots
<1>3. Cardinality(ReadySlots(sl) \ {s})
        = IF s \in ReadySlots(sl) THEN Cardinality(ReadySlots(sl)) - 1
                                 ELSE Cardinality(ReadySlots(sl))
  BY ReadySlotsFinite, FS_RemoveElement
<1>4. Cardinality(ReadySlots(sl)) \in Int
  BY ReadySlotsFinite
<1>5. CASE HasFramebuffer(sl[s])
  BY <1>1, <1>2, <1>3, <1>4, <1>5
<1>6. CASE ~HasFramebuffer(sl[s])
  BY <1>1, <1>2, <1>3, <1>4, <1>6
<1> QED
  BY <1>5, <1>6

\* A released frame keeps its ID and what it received, and is not ready.
LEMMA ReleasedType ==
    ASSUME NEW f \in FrameData
    PROVE  /\ Released(f) \in FrameData
           /\ Released(f).id = f.id /\ Released(f).got = f.got /\ Released(f).rec = f.rec
           /\ Released(f).buf = FALSE /\ Released(f).fb = FALSE
           /\ ~HasFramebuffer(Released(f))
  BY DEF Released, FrameData, HasFramebuffer

\* A slot that was memset to 0 holds nothing.
LEMMA EmptyType ==
    Empty \in FrameData /\ Empty.id = 0 /\ ~Empty.buf /\ ~Empty.fb /\ ~HasFramebuffer(Empty)
  BY DEF Empty, FrameData, HasFramebuffer

\* is_ready_to_render changes nothing where frame_buffer is up to date.
LEMMA RefreshedSame ==
    ASSUME NEW sl \in [Slots -> FrameData], NEW ids,
           \A s \in Slots : sl[s].fb <=> HasFramebuffer(sl[s])
    PROVE  Refreshed(sl, ids) = sl
<1>1. \A s \in Slots : [sl[s] EXCEPT !.fb = HasFramebuffer(sl[s])] = sl[s]
  <2> SUFFICES ASSUME NEW s \in Slots
               PROVE  [sl[s] EXCEPT !.fb = HasFramebuffer(sl[s])] = sl[s]
    OBVIOUS
  <2>1. sl[s] \in FrameData /\ HasFramebuffer(sl[s]) \in BOOLEAN
    BY DEF HasFramebuffer
  <2>2. sl[s].fb = HasFramebuffer(sl[s])
    BY <2>1 DEF FrameData
  <2> QED
    BY <2>1, <2>2 DEF FrameData
<1> QED
  BY <1>1 DEF Refreshed

\* No frame that was passed holds a buffer, so is_ready_to_render's asserts hold.
LEMMA PlayedFramesFreed ==
    ASSUME NEW sl \in [Slots -> FrameData], NEW ids, currently_rendering_id \in Int,
           \A s \in Slots : /\ sl[s].fb <=> HasFramebuffer(sl[s])
                            /\ sl[s].buf => sl[s].id > currently_rendering_id
    PROVE  ~PlayedFrameHasBuffer(sl, ids)
<1>1. \A s \in Slots : sl[s].id \in Int
  BY SizeAssumption DEF FrameData, Ids
<1> QED
  BY <1>1 DEF PlayedFrameHasBuffer, HasFramebuffer

-----------------------------------------------------------------------------
(* ring_buffer_receive_segment *)

\* Putting a segment into a frame that can take it hits no assert, and the count of
\* ready frames stays exact.
LEMMA StoreGood ==
    ASSUME Environment, NEW id \in Ids, NEW k \in Indices(id), NEW f, CanTake(f, id),
           currently_rendering_id \in Int,
           NEW sl \in [Slots -> FrameData], NEW pending \in Int,
           pending = Cardinality(ReadySlots(sl)),
           HasFramebuffer(sl[SlotOf(id)]) <=> HasFramebuffer(f),
           Store(sl, pending, f, id, k)
    PROVE  /\ aborted' = FALSE
           /\ slots' \in [Slots -> FrameData]
           /\ num_pending_ready_frames' \in Int
           /\ num_pending_ready_frames' = Cardinality(ReadySlots(slots'))
           /\ slots' = [sl EXCEPT ![SlotOf(id)] = Deposit(f, id, k)]
<1> DEFINE g == Deposit(f, id, k)
<1>1. SlotOf(id) \in Slots
  BY SlotOfType DEF Ids
<1>2. /\ CanTake(g, id) /\ g.got = f.got \cup {k}
      /\ HasFramebuffer(f) => HasFramebuffer(g)
  BY DepositGood
<1>3. g \in FrameData /\ (g.fb <=> HasFramebuffer(g))
  BY <1>2 DEF CanTake
<1> HIDE DEF g
<1>4. /\ aborted' = DepositFails(f, id, k)
      /\ slots' = [sl EXCEPT ![SlotOf(id)] = g]
      /\ num_pending_ready_frames' =
            pending + IF k \notin f.got /\ g.fb /\ ~HasFramebuffer(f) THEN 1 ELSE 0
  BY DEF Store, g
<1>5. Cardinality(ReadySlots(slots'))
        = IF HasFramebuffer(g) /\ ~HasFramebuffer(sl[SlotOf(id)])
            THEN Cardinality(ReadySlots(sl)) + 1 ELSE Cardinality(ReadySlots(sl))
  <2>1. HasFramebuffer(sl[SlotOf(id)]) => HasFramebuffer(g)
    BY <1>2
  <2>2. Cardinality(ReadySlots([sl EXCEPT ![SlotOf(id)] = g]))
          = IF HasFramebuffer(g) /\ ~HasFramebuffer(sl[SlotOf(id)])
              THEN Cardinality(ReadySlots(sl)) + 1 ELSE Cardinality(ReadySlots(sl))
    BY <1>1, <2>1, CountFilled
  <2> QED
    BY <1>4, <2>2
<1>6. ~DepositFails(f, id, k)
  BY DepositPasses
<1>7. CASE k \in f.got
  <2>1. g = f
    BY <1>7 DEF g, Deposit
  <2> QED
    BY <1>3, <1>4, <1>5, <1>6, <1>7, <2>1, <1>1 DEF DepositFails, g
<1>8. CASE ~(k \in f.got)
  <2>1. CASE HasFramebuffer(g) /\ ~HasFramebuffer(f)
    BY <1>3, <1>4, <1>5, <1>6, <1>8, <2>1, <1>1 DEF DepositFails, g
  <2>2. CASE ~(HasFramebuffer(g) /\ ~HasFramebuffer(f))
    BY <1>3, <1>4, <1>5, <1>6, <1>8, <2>2, <1>1 DEF DepositFails, g
  <2> QED
    BY <2>1, <2>2
<1> QED
  BY <1>7, <1>8

\* A frame of the buffer can take a segment of its own.
LEMMA ResidentCanTake ==
    ASSUME IndInv, NEW id \in Ids, FrameAt(id).id = id
    PROVE  CanTake(FrameAt(id), id)
<1> DEFINE s == SlotOf(id)
<1>1. s \in Slots
  BY SlotOfType DEF Ids
<1>2. slots[s] \in FrameData /\ slots[s].id = id /\ id # 0
  BY <1>1 DEF IndInv, TypeOK, FrameAt, Ids
<1>3. GoodFrame(slots[s], s, currently_rendering_id, last_rendered_id, min_id, max_id, newest)
      /\ Settled(slots[s], currently_rendering_id)
  BY <1>1 DEF IndInv, SlotsInv
<1> QED
  BY <1>2, <1>3 DEF CanTake, GoodFrame, Settled, FrameAt

\* So can a new one.
LEMMA FreshCanTake ==
    ASSUME NEW id \in Ids, id > currently_rendering_id
    PROVE  CanTake(Fresh(id), id) /\ ~HasFramebuffer(Fresh(id))
<1>1. 0 \in 0 .. Original[id] - 1
  BY IndicesType
<1>2. /\ Fresh(id) \in FrameData /\ Fresh(id).id = id /\ Fresh(id).got = {}
      /\ Fresh(id).buf = TRUE /\ Fresh(id).rec = FALSE /\ Fresh(id).fb = FALSE
  BY DEF Fresh, FrameData
<1>3. ~HasFramebuffer(Fresh(id))
  BY <1>1, <1>2 DEF HasFramebuffer
<1> QED
  BY <1>2, <1>3 DEF CanTake

\* A new frame is one that was not played yet, also after an overflow has reset
\* last_rendered_id: segments are never a turn of the ring late.
LEMMA NewFrameIsAhead ==
    ASSUME Environment, IndInv, NEW id \in Ids, id >= newest - MaxDelay,
           id > last_rendered_id
    PROVE  id > currently_rendering_id
  BY SizeAssumption, BoundAssumption DEF Environment, IndInv, TypeOK, CountersInv, Ids

\* More segments never make a frame incomplete.
LEMMA AssembledGrows ==
    ASSUME NEW id \in Ids, NEW got \in SUBSET Indices(id), NEW more \in SUBSET Indices(id),
           got \subseteq more, Assembled(id, got)
    PROVE  Assembled(id, more)
  BY DecodableGrows, IndicesType DEF Assembled

\* A segment of a frame that is in the buffer
LEMMA ReceiveKnownInv ==
    ASSUME Environment, IndInv, NEW id \in Ids, NEW k \in Indices(id), ReceiveKnown(id, k)
    PROVE  IndInv'
<1> DEFINE s == SlotOf(id)
           f == slots[s]
           g == Deposit(f, id, k)
<1>1. /\ UNCHANGED <<currently_rendering_id, newest, recovery, last_rendered_id, min_id, max_id>>
      /\ f.id = id
      /\ Store(slots, num_pending_ready_frames, f, id, k)
  BY DEF ReceiveKnown, Arrives, FrameAt
<1>2. /\ s \in Slots /\ currently_rendering_id \in Int /\ slots \in [Slots -> FrameData]
      /\ num_pending_ready_frames \in Int
      /\ num_pending_ready_frames = Cardinality(ReadySlots(slots))
  BY SlotOfType DEF IndInv, TypeOK, PendingCountExact, ReadySlots, Ids
<1>3. CanTake(f, id)
  BY <1>1, ResidentCanTake DEF FrameAt
<1>4. /\ aborted' = FALSE
      /\ slots' \in [Slots -> FrameData]
      /\ num_pending_ready_frames' \in Int
      /\ num_pending_ready_frames' = Cardinality(ReadySlots(slots'))
      /\ slots' = [slots EXCEPT ![s] = g]
  BY <1>1, <1>2, <1>3, StoreGood
<1>5. CanTake(g, id) /\ g.got = f.got \cup {k} /\ g.buf = f.buf
  BY <1>2, <1>3, DepositGood
<1> HIDE DEF g
<1>6. TypeOK' /\ NoAbort' /\ PendingCountExact'
  BY <1>1, <1>4 DEF IndInv, TypeOK, NoAbort, PendingCountExact, ReadySlots
<1>7. SlotsInv'
  <2> SUFFICES ASSUME NEW t \in Slots
               PROVE  /\ GoodFrame(slots'[t], t, currently_rendering_id, last_rendered_id,
                                   min_id, max_id, newest)
                      /\ Settled(slots'[t], currently_rendering_id)
    BY <1>1 DEF SlotsInv
  <2>1. /\ GoodFrame(slots[t], t, currently_rendering_id, last_rendered_id, min_id, max_id, newest)
        /\ Settled(slots[t], currently_rendering_id)
    BY DEF IndInv, SlotsInv
  <2>2. CASE t # s
    BY <2>1, <2>2, <1>2, <1>4
  <2>3. CASE t = s
    <3>1. slots'[t] = g
      BY <2>3, <1>2, <1>4
    <3>2. g.id = id /\ id # 0 /\ SlotOf(id) = t /\ id <= newest
      BY <2>1, <2>3, <1>1, <1>5 DEF CanTake, GoodFrame, Ids
    <3>3. GoodFrame(g, t, currently_rendering_id, last_rendered_id, min_id, max_id, newest)
      BY <2>1, <2>3, <3>2, <1>1, <1>5 DEF CanTake, GoodFrame
    <3>4. Settled(g, currently_rendering_id)
      BY <3>2, <1>5 DEF CanTake, Settled
    <3> QED
      BY <3>1, <3>3, <3>4
  <2> QED
    BY <2>2, <2>3
<1>8. CountersInv'
  BY <1>1 DEF IndInv, CountersInv
<1>9. PlayedFrameComplete'
  <2> DEFINE cr == currently_rendering_id
  <2> SUFFICES ASSUME cr # -1, slots'[SlotOf(cr)].id = cr
               PROVE  Assembled(cr, slots'[SlotOf(cr)].got)
    BY <1>1 DEF PlayedFrameComplete, FrameAt
  <2>1. cr \in Ids /\ SlotOf(cr) \in Slots
    BY SlotOfType DEF IndInv, CountersInv, Ids
  <2>2. CASE SlotOf(cr) # s
    BY <2>1, <2>2, <1>2, <1>4 DEF IndInv, PlayedFrameComplete, FrameAt
  <2>3. CASE SlotOf(cr) = s
    <3>1. cr = id /\ slots'[SlotOf(cr)].got = f.got \cup {k}
      BY <2>3, <1>2, <1>4, <1>5 DEF CanTake
    <3>2. Assembled(id, f.got)
      BY <2>3, <3>1, <1>1 DEF IndInv, PlayedFrameComplete, FrameAt
    <3> QED
      BY <3>1, <3>2, <1>3, AssembledGrows DEF CanTake
  <2> QED
    BY <2>2, <2>3
<1> QED
  BY <1>6, <1>7, <1>8, <1>9 DEF IndInv

\* Storing the first segment of a new frame, in a buffer `sl` whose frames satisfy
\* the invariant for the new bounds.
LEMMA FirstSegmentInv ==
    ASSUME Environment, IndInv, NEW id \in Ids, NEW k \in Indices(id), id <= newest,
           id > currently_rendering_id,
           NEW sl \in [Slots -> FrameData], NEW pending \in Int,
           pending = Cardinality(ReadySlots(sl)),
           ~HasFramebuffer(sl[SlotOf(id)]),
           \A s \in Slots :
               /\ GoodFrame(sl[s], s, currently_rendering_id, last_rendered_id', min_id', max_id', newest)
               /\ Settled(sl[s], currently_rendering_id)
               /\ sl[s] = slots[s] \/ sl[s] = Empty,
           Store(sl, pending, Fresh(id), id, k),
           UNCHANGED <<currently_rendering_id, newest, recovery>>,
           last_rendered_id' < id, min_id' <= id, id <= max_id',
           min_id' \in Ids, max_id' \in Ids, max_id' <= newest,
           last_rendered_id' \in Int, CountersInv'
    PROVE  IndInv'
<1> DEFINE s == SlotOf(id)
           g == Deposit(Fresh(id), id, k)
<1>1. s \in Slots /\ currently_rendering_id \in Int
  BY SlotOfType DEF IndInv, TypeOK, Ids
<1>2. CanTake(Fresh(id), id) /\ ~HasFramebuffer(Fresh(id))
  BY FreshCanTake
<1>3. /\ aborted' = FALSE
      /\ slots' \in [Slots -> FrameData]
      /\ num_pending_ready_frames' \in Int
      /\ num_pending_ready_frames' = Cardinality(ReadySlots(slots'))
      /\ slots' = [sl EXCEPT ![s] = g]
  BY <1>1, <1>2, StoreGood
<1>4. CanTake(g, id) /\ g.got = {k} /\ g.buf = TRUE
  <2>1. CanTake(g, id) /\ g.got = Fresh(id).got \cup {k} /\ g.buf = Fresh(id).buf
    BY <1>1, <1>2, DepositGood
  <2>2. Fresh(id).got = {} /\ Fresh(id).buf = TRUE
    BY DEF Fresh
  <2> QED
    BY <2>1, <2>2
<1> HIDE DEF g
<1>5. TypeOK' /\ NoAbort' /\ PendingCountExact'
  <2>1. min_id' \in Int /\ max_id' \in Int
    BY SizeAssumption DEF Ids
  <2>2. TypeOK'
    BY <2>1, <1>3 DEF IndInv, TypeOK
  <2> QED
    BY <2>2, <1>3 DEF NoAbort, PendingCountExact, ReadySlots
<1>6. SlotsInv'
  <2> SUFFICES ASSUME NEW t \in Slots
               PROVE  /\ GoodFrame(slots'[t], t, currently_rendering_id, last_rendered_id',
                                   min_id', max_id', newest)
                      /\ Settled(slots'[t], currently_rendering_id)
    BY DEF SlotsInv
  <2>1. CASE t # s
    BY <2>1, <1>1, <1>3
  <2>2. CASE t = s
    <3>1. slots'[t] = g /\ g.id = id /\ id # 0
      BY <2>2, <1>1, <1>3, <1>4 DEF CanTake, Ids
    <3> QED
      BY <2>2, <3>1, <1>4 DEF CanTake, GoodFrame, Settled
  <2> QED
    BY <2>1, <2>2
<1>7. PlayedFrameComplete'
  <2> DEFINE cr == currently_rendering_id
  <2> SUFFICES ASSUME cr # -1, slots'[SlotOf(cr)].id = cr
               PROVE  Assembled(cr, slots'[SlotOf(cr)].got)
    BY DEF PlayedFrameComplete, FrameAt
  <2>1. cr \in Ids /\ SlotOf(cr) \in Slots /\ cr # 0
    BY SlotOfType DEF IndInv, CountersInv, Ids
  <2>2. SlotOf(cr) # s
    BY <2>1, <1>1, <1>3, <1>4 DEF CanTake, Ids
  <2>3. slots'[SlotOf(cr)] = slots[SlotOf(cr)]
    BY <2>1, <2>2, <1>1, <1>3, EmptyType
  <2> QED
    BY <2>3 DEF IndInv, PlayedFrameComplete, FrameAt
<1> QED
  BY <1>5, <1>6, <1>7 DEF IndInv

\* A segment of a frame that is not in the buffer, into a free slot
LEMMA ReceiveNewInv ==
    ASSUME Environment, IndInv, NEW id \in Ids, NEW k \in Indices(id), ReceiveNew(id, k)
    PROVE  IndInv'
<1> DEFINE s == SlotOf(id)
           f == slots[s]
           cleared == [slots EXCEPT ![s] = Released(@)]
           pending == num_pending_ready_frames - IF f.buf /\ f.fb THEN 1 ELSE 0
<1>1. /\ s \in Slots /\ f \in FrameData /\ slots \in [Slots -> FrameData]
      /\ num_pending_ready_frames \in Int
      /\ num_pending_ready_frames = Cardinality(ReadySlots(slots))
      /\ currently_rendering_id \in Int /\ last_rendered_id \in Int /\ newest \in Int
      /\ min_id \in Int /\ max_id \in Int
  BY SlotOfType DEF IndInv, TypeOK, PendingCountExact, ReadySlots, Ids
<1>2. GoodFrame(f, s, currently_rendering_id, last_rendered_id, min_id, max_id, newest)
  BY <1>1 DEF IndInv, SlotsInv
<1>3. /\ UNCHANGED <<currently_rendering_id, newest, recovery, last_rendered_id>>
      /\ id >= newest - MaxDelay /\ id <= newest
      /\ f.id < id /\ ~(f.buf /\ f.id > currently_rendering_id)
  BY <1>1, BoundAssumption DEF ReceiveNew, Arrives, WouldOverflow, FrameAt
<1>4. ~f.buf /\ ~f.fb /\ ~HasFramebuffer(f)
  BY <1>2, <1>3 DEF GoodFrame, HasFramebuffer
<1>5. Released(f) = f
  BY <1>1, <1>4 DEF Released, FrameData
<1>6. cleared = slots /\ pending = num_pending_ready_frames
  BY <1>1, <1>4, <1>5
<1>7. CASE id <= last_rendered_id
  <2>1. /\ slots' = cleared /\ num_pending_ready_frames' = pending
        /\ UNCHANGED <<min_id, max_id, aborted>>
    BY <1>7 DEF ReceiveNew, FrameAt, AlreadySkipped
  <2>2. UNCHANGED vars
    BY <2>1, <1>6, <1>3 DEF vars, bufferVars
  <2> QED
    BY <2>2 DEF vars, bufferVars, IndInv, TypeOK, SlotsInv, CountersInv, PendingCountExact,
                PlayedFrameComplete, NoAbort, FrameAt
<1>8. CASE ~(id <= last_rendered_id)
  <2>1. /\ Store(slots, num_pending_ready_frames, Fresh(id), id, k)
        /\ max_id' = Larger(max_id, id)
        /\ min_id' = IF min_id = -1 THEN id ELSE Smaller(min_id, id)
    BY <1>6, <1>8 DEF ReceiveNew, FrameAt, AlreadySkipped
  <2>2. id > currently_rendering_id
    BY <1>1, <1>3, <1>8, NewFrameIsAhead DEF Ids
  <2>3. /\ min_id' \in Ids /\ max_id' \in Ids /\ max_id' <= newest
        /\ min_id' <= id /\ id <= max_id'
        /\ min_id # -1 => min_id' <= min_id
        /\ max_id <= max_id'
    BY <2>1, <1>1, <1>3 DEF IndInv, CountersInv, Larger, Smaller, Ids
  <2>4. CountersInv'
    BY <2>3, <1>3 DEF IndInv, CountersInv
  <2>5. ASSUME NEW t \in Slots
        PROVE  /\ GoodFrame(slots[t], t, currently_rendering_id, last_rendered_id, min_id',
                            max_id', newest)
               /\ Settled(slots[t], currently_rendering_id)
    <3>1. /\ GoodFrame(slots[t], t, currently_rendering_id, last_rendered_id, min_id, max_id, newest)
          /\ Settled(slots[t], currently_rendering_id)
      BY DEF IndInv, SlotsInv
    <3>2. slots[t].id \in Int /\ min_id' \in Int /\ max_id' \in Int
      BY <1>1, <2>3, SizeAssumption DEF FrameData, Ids
    <3>3. slots[t].buf => min_id # -1
      BY <3>1, <1>1, <3>2 DEF GoodFrame, IndInv, CountersInv, Ids, Empty
    <3> QED
      BY <3>1, <3>2, <3>3, <2>3, <1>1 DEF GoodFrame
  <2> QED
    BY <2>1, <2>2, <2>3, <2>4, <2>5, <1>1, <1>3, <1>4, <1>8, FirstSegmentInv DEF Ids
<1> QED
  BY <1>7, <1>8

\* A segment whose slot is held by a frame still to be played: the buffer is reset.
LEMMA ReceiveOverflowInv ==
    ASSUME Environment, IndInv, NEW id \in Ids, NEW k \in Indices(id), ReceiveOverflow(id, k)
    PROVE  IndInv'
<1> DEFINE s == SlotOf(id)
           f == slots[s]
           none == [t \in Slots |-> Empty]
<1>1. /\ s \in Slots /\ f \in FrameData /\ slots \in [Slots -> FrameData]
      /\ currently_rendering_id \in Int /\ last_rendered_id \in Int /\ newest \in Int
      /\ f.id \in Nat
  BY SlotOfType, SizeAssumption DEF IndInv, TypeOK, FrameData, Ids
<1>2. GoodFrame(f, s, currently_rendering_id, last_rendered_id, min_id, max_id, newest)
  BY <1>1 DEF IndInv, SlotsInv
<1>3. /\ UNCHANGED <<currently_rendering_id, newest, recovery>>
      /\ id >= newest - MaxDelay /\ id <= newest
      /\ f.id < id /\ f.buf /\ f.id > currently_rendering_id
  BY <1>1, BoundAssumption DEF ReceiveOverflow, Arrives, WouldOverflow, FrameAt
<1>4. ~PlayedFrameHasBuffer(slots, {slots[t].id : t \in Slots})
  BY <1>1, PlayedFramesFreed DEF IndInv, SlotsInv, GoodFrame
<1>5. /\ Store(none, 0, Fresh(id), id, k)
      /\ last_rendered_id' = -1 /\ max_id' = id /\ min_id' = id
  BY <1>4 DEF ReceiveOverflow
<1>6. f.id # 0 /\ SlotOf(f.id) = s
  BY <1>2, <1>3, EmptyType DEF GoodFrame
<1>7. newest > currently_rendering_id + Size
  <2>1. id >= f.id + Size
    BY <1>1, <1>3, <1>6, SlotGap DEF Ids
  <2> QED
    BY <2>1, <1>1, <1>3, SizeAssumption DEF Ids
<1>8. CountersInv'
  BY <1>1, <1>3, <1>5, <1>7 DEF IndInv, CountersInv, Ids
<1>9. none \in [Slots -> FrameData] /\ ~HasFramebuffer(none[s])
  BY <1>1, EmptyType
<1>10. Cardinality(ReadySlots(none)) = 0
  <2>1. ReadySlots(none) = {}
    BY EmptyType DEF ReadySlots
  <2> QED
    BY <2>1, FS_EmptySet
<1>11. ASSUME NEW t \in Slots
       PROVE  /\ GoodFrame(none[t], t, currently_rendering_id, last_rendered_id', min_id',
                           max_id', newest)
              /\ Settled(none[t], currently_rendering_id)
              /\ none[t] = Empty
  BY EmptyType DEF GoodFrame, Settled
<1> HIDE DEF none
<1> QED
  BY <1>1, <1>3, <1>5, <1>8, <1>9, <1>10, <1>11, FirstSegmentInv DEF Ids

-----------------------------------------------------------------------------
(* udp_get_packet *)

\* is_ready_to_render, called for any frames, leaves a good buffer as it is.
LEMMA ScannedSame ==
    ASSUME IndInv, NEW ids
    PROVE  Scanned(ids) = [slots |-> slots, pending |-> num_pending_ready_frames,
                           last |-> last_rendered_id]
<1>1. Refreshed(slots, ids) = slots
  BY RefreshedSame DEF IndInv, TypeOK, SlotsInv, GoodFrame
<1> QED
  BY <1>1 DEF Scanned

\* What udp_get_packet may have made of the buffer before it plays the next frame
ReadyToPlay(st) ==
    /\ st.slots \in [Slots -> FrameData]
    /\ st.pending \in Int
    /\ st.pending = Cardinality(ReadySlots(st.slots))
    /\ st.last \in Int /\ st.last >= -1
    /\ \A s \in Slots :
          /\ GoodFrame(st.slots[s], s, currently_rendering_id, st.last, min_id, max_id, newest)
          /\ \/ Settled(st.slots[s], currently_rendering_id)
             \/ Ready(st.slots, st.last + 1) /\ st.slots[s].id <= st.last
          /\ st.slots[s].id = slots[s].id /\ st.slots[s].got = slots[s].got
    /\ st.last >= currently_rendering_id \/ newest > currently_rendering_id + Size
    /\ \/ Ready(st.slots, st.last + 1)
       \/ /\ Type = "video" => st.last \in {-1, currently_rendering_id}
          /\ Type = "gpu" => st.last \in {-1, 0, currently_rendering_id}

\* A frame that is ready was not passed yet.
LEMMA ReadyIsAhead ==
    ASSUME IndInv, NEW st, ReadyToPlay(st), NEW n \in Nat, Ready(st.slots, n)
    PROVE  /\ n \in Ids /\ n <= newest /\ n > currently_rendering_id /\ n > st.last
           /\ SlotOf(n) \in Slots
           /\ st.slots[SlotOf(n)].id = n
           /\ n <= max_id
<1>1. SlotOf(n) \in Slots
  BY SlotOfType
<1>2. st.slots[SlotOf(n)] \in FrameData /\ st.slots[SlotOf(n)].id = n /\ st.slots[SlotOf(n)].buf
  BY <1>1 DEF ReadyToPlay, Ready, HasFramebuffer
<1>3. GoodFrame(st.slots[SlotOf(n)], SlotOf(n), currently_rendering_id, st.last, min_id, max_id, newest)
  BY <1>1 DEF ReadyToPlay
<1>4. n # 0
  BY <1>2, <1>3, EmptyType DEF GoodFrame
<1> QED
  BY <1>1, <1>2, <1>3, <1>4 DEF GoodFrame, FrameData, Ids

\* A ready frame was put together from enough segments.
LEMMA ReadyIsAssembled ==
    ASSUME Environment, IndInv, NEW st, ReadyToPlay(st), NEW n \in Nat, Ready(st.slots, n)
    PROVE  Assembled(n, st.slots[SlotOf(n)].got)
<1> DEFINE f == st.slots[SlotOf(n)]
<1>1. n \in Ids /\ SlotOf(n) \in Slots /\ f.id = n /\ n # 0
  BY ReadyIsAhead DEF Ids
<1>2. HasFramebuffer(f)
  BY DEF Ready
<1>3. f.rec => Decodable(n, f.got)
  BY <1>1 DEF ReadyToPlay, GoodFrame
<1>4. CASE Fec[n] > 0
  BY <1>1, <1>2, <1>3, <1>4 DEF HasFramebuffer, Assembled
<1>5. CASE ~(Fec[n] > 0)
  <2>1. Fec[n] = 0 /\ 0 .. Original[n] - 1 \subseteq Indices(n)
    BY <1>1, <1>5, IndicesType
  <2>2. 0 .. Original[n] - 1 \subseteq f.got
    BY <1>1, <1>2, <1>5 DEF HasFramebuffer
  <2> QED
    BY <2>1, <2>2, <1>1, <1>5 DEF Assembled, Environment
<1> QED
  BY <1>4, <1>5

\* The end of udp_get_packet plays the next frame if it is ready, and keeps the
\* invariant.
LEMMA PlayNextInv ==
    ASSUME Environment, IndInv, NEW st, ReadyToPlay(st), NEW scanned, PlayNext(st, scanned)
    PROVE  /\ IndInv'
           /\ UNCHANGED <<newest, recovery>>
           /\ \/ UNCHANGED currently_rendering_id
              \/ Ready(st.slots, st.last + 1) /\ currently_rendering_id' = st.last + 1
<1> DEFINE n == st.last + 1
           s == SlotOf(n)
<1>1. /\ st.slots \in [Slots -> FrameData] /\ n \in Nat /\ s \in Slots
      /\ currently_rendering_id \in Int /\ newest \in Int /\ st.last \in Int
      /\ min_id \in Int /\ max_id \in Int /\ slots \in [Slots -> FrameData]
      /\ \A t \in Slots : st.slots[t].id \in Int
  BY SlotOfType, SizeAssumption DEF ReadyToPlay, IndInv, TypeOK, FrameData, Ids
<1>2. ~PlayedFrameHasBuffer(slots, scanned) /\ ~PlayedFrameHasBuffer(st.slots, {n})
  BY <1>1, PlayedFramesFreed DEF ReadyToPlay, GoodFrame, IndInv, SlotsInv
<1>3. Refreshed(st.slots, {n}) = st.slots
  BY <1>1, RefreshedSame DEF ReadyToPlay, GoodFrame
<1>4. UNCHANGED <<newest, recovery, min_id, max_id, aborted>>
  BY <1>2 DEF PlayNext
<1>5. CASE Ready(st.slots, n)
  <2>1. /\ slots' = [st.slots EXCEPT ![s] = Released(@)]
        /\ num_pending_ready_frames' = st.pending - 1
        /\ currently_rendering_id' = n
        /\ last_rendered_id' = n
    BY <1>2, <1>3, <1>5 DEF PlayNext
  <2>2. n \in Ids /\ n <= newest /\ n > currently_rendering_id /\ st.slots[s].id = n
    BY <1>1, <1>5, ReadyIsAhead
  <2>3. /\ Released(st.slots[s]) \in FrameData /\ ~HasFramebuffer(Released(st.slots[s]))
        /\ slots'[s] = Released(st.slots[s])
        /\ \A t \in Slots \ {s} : slots'[t] = st.slots[t]
        /\ slots' \in [Slots -> FrameData]
    BY <2>1, <1>1, ReleasedType
  <2>4. TypeOK' /\ NoAbort'
    BY <2>1, <2>2, <2>3, <1>1, <1>4 DEF IndInv, TypeOK, NoAbort, ReadyToPlay
  <2>5. PendingCountExact'
    <3>1. HasFramebuffer(st.slots[s])
      BY <1>5 DEF Ready
    <3>2. Cardinality(ReadySlots(slots')) = Cardinality(ReadySlots(st.slots)) - 1
      BY <3>1, <2>1, <2>3, <1>1, CountEmptied
    <3> QED
      BY <3>2, <2>1 DEF PendingCountExact, ReadySlots, ReadyToPlay
  <2>6. SlotsInv'
    <3> SUFFICES ASSUME NEW t \in Slots
                 PROVE  GoodFrame(slots'[t], t, n, n, min_id, max_id, newest)
                        /\ Settled(slots'[t], n)
      BY <2>1, <1>4 DEF SlotsInv
    <3>1. /\ GoodFrame(st.slots[t], t, currently_rendering_id, st.last, min_id, max_id, newest)
          /\ Settled(st.slots[t], currently_rendering_id) \/ st.slots[t].id <= st.last
          /\ st.slots[t] \in FrameData
      BY <1>1 DEF ReadyToPlay
    <3>2. CASE t = s
      <4> DEFINE r == Released(st.slots[s])
      <4>1. /\ r.id = n /\ r.got = st.slots[s].got /\ r.rec = st.slots[s].rec
            /\ r.buf = FALSE /\ r.fb = FALSE /\ ~HasFramebuffer(r)
        BY <2>2, <1>1, ReleasedType
      <4>2. n # 0 /\ slots'[t] = r
        BY <3>2, <2>2, <2>3 DEF Ids
      <4> HIDE DEF r
      <4>3. GoodFrame(r, t, n, n, min_id, max_id, newest)
        BY <3>1, <3>2, <4>1, <4>2, <2>2 DEF GoodFrame
      <4>4. Settled(r, n)
        BY <4>1, <1>1 DEF Settled
      <4> QED
        BY <4>2, <4>3, <4>4
    <3>3. CASE t # s
      <4>1. slots'[t] = st.slots[t]
        BY <3>3, <2>3
      <4>2. st.slots[t].buf => st.slots[t].id # n
        BY <3>1, <3>3, <2>2 DEF GoodFrame, Ids
      <4> QED
        BY <4>1, <4>2, <3>1, <2>2, <1>1 DEF GoodFrame, Settled
    <3> QED
      BY <3>2, <3>3
  <2>7. CountersInv'
    BY <2>1, <2>2, <1>1, <1>4 DEF IndInv, CountersInv
  <2>8. PlayedFrameComplete'
    <3>1. slots'[s].got = st.slots[s].got
      BY <2>3, <1>1, ReleasedType
    <3>2. Assembled(n, st.slots[s].got)
      BY <1>1, <1>5, ReadyIsAssembled
    <3>3. Assembled(n, slots'[s].got)
      BY <3>1, <3>2
    <3> QED
      BY <3>3, <2>1 DEF PlayedFrameComplete, FrameAt
  <2> QED
    BY <2>1, <2>4, <2>5, <2>6, <2>7, <2>8, <1>4, <1>5 DEF IndInv
<1>6. CASE ~Ready(st.slots, n)
  <2>1. /\ slots' = st.slots
        /\ num_pending_ready_frames' = st.pending
        /\ last_rendered_id' = st.last
        /\ currently_rendering_id' = currently_rendering_id
    BY <1>2, <1>3, <1>6 DEF PlayNext
  <2>2. TypeOK' /\ NoAbort' /\ PendingCountExact'
    BY <2>1, <1>1, <1>4 DEF IndInv, TypeOK, NoAbort, ReadyToPlay, PendingCountExact, ReadySlots
  <2>3. SlotsInv'
    BY <2>1, <1>4, <1>6 DEF SlotsInv, ReadyToPlay
  <2>4. CountersInv'
    BY <2>1, <1>1, <1>4, <1>6 DEF IndInv, CountersInv, ReadyToPlay
  <2>5. PlayedFrameComplete'
    <3> DEFINE cr == currently_rendering_id
    <3> SUFFICES ASSUME cr # -1, slots'[SlotOf(cr)].id = cr
                 PROVE  Assembled(cr, slots'[SlotOf(cr)].got)
      BY <2>1 DEF PlayedFrameComplete, FrameAt
    <3>1. SlotOf(cr) \in Slots
      BY SlotOfType DEF IndInv, CountersInv, Ids
    <3>2. slots'[SlotOf(cr)].id = slots[SlotOf(cr)].id /\ slots'[SlotOf(cr)].got = slots[SlotOf(cr)].got
      BY <3>1, <2>1 DEF ReadyToPlay
    <3> QED
      BY <3>2 DEF IndInv, PlayedFrameComplete, FrameAt
  <2> QED
    BY <2>1, <2>2, <2>3, <2>4, <2>5, <1>4 DEF IndInv
<1> QED
  BY <1>5, <1>6

\* The buffer as it is can be played from.
LEMMA UnchangedReadyToPlay ==
    ASSUME IndInv, NEW ids
    PROVE  ReadyToPlay(Scanned(ids))
<1> DEFINE st == [slots |-> slots, pending |-> num_pending_ready_frames, last |-> last_rendered_id]
<1>1. Scanned(ids) = st
  BY ScannedSame
<1>2. st.slots = slots /\ st.pending = num_pending_ready_frames /\ st.last = last_rendered_id
  OBVIOUS
<1> HIDE DEF st
<1>3. ReadyToPlay(st)
  BY <1>2 DEF ReadyToPlay, IndInv, TypeOK, SlotsInv, CountersInv, PendingCountExact, ReadySlots
<1> QED
  BY <1>1, <1>3

\* reset_stream drops the frames before `id` and nothing else.
LEMMA ResetStreamEffect ==
    ASSUME IndInv, NEW ids, NEW id \in Ids, id > last_rendered_id
    PROVE  LET st == ResetStream(Scanned(ids), id) IN
           /\ st.slots \in [Slots -> FrameData]
           /\ st.pending \in Int
           /\ st.pending = Cardinality(ReadySlots(st.slots))
           /\ st.last = id - 1
           /\ \A s \in Slots :
                 /\ GoodFrame(st.slots[s], s, currently_rendering_id, id - 1, min_id, max_id, newest)
                 /\ st.slots[s].id = slots[s].id /\ st.slots[s].got = slots[s].got
                 /\ st.slots[s] # slots[s] => slots[s].id < id
           /\ Ready(slots, id) => Ready(st.slots, id)
<1> DEFINE here == [slots |-> slots, pending |-> num_pending_ready_frames, last |-> last_rendered_id]
           st == ResetStream(Scanned(ids), id)
           old == {s \in Slots : slots[s].buf /\ slots[s].id < id}
           dropped == {s \in old : slots[s].fb}
           rest == [s \in Slots |-> IF s \in old THEN Released(slots[s]) ELSE slots[s]]
<1>1. /\ slots \in [Slots -> FrameData] /\ num_pending_ready_frames \in Int
      /\ last_rendered_id \in Int /\ id \in Int /\ SlotOf(id) \in Slots
      /\ num_pending_ready_frames = Cardinality(ReadySlots(slots))
      /\ \A s \in Slots : slots[s].id \in Int
  BY SlotOfType, SizeAssumption DEF IndInv, TypeOK, PendingCountExact, ReadySlots, Ids, FrameData
<1>2. /\ here.slots = slots /\ here.pending = num_pending_ready_frames
      /\ here.last = last_rendered_id /\ Scanned(ids) = here
  BY ScannedSame
<1>3. st = [slots |-> rest, pending |-> num_pending_ready_frames - Cardinality(dropped),
            last |-> id - 1]
  <2>1. ~(id <= here.last)
    BY <1>1, <1>2
  <2> HIDE DEF here
  <2> QED
    BY <2>1, <1>2 DEF ResetStream
<1>4. /\ st.slots = rest /\ st.pending = num_pending_ready_frames - Cardinality(dropped)
      /\ st.last = id - 1
  BY <1>3
<1> HIDE DEF st, here
<1>5. \A s \in Slots :
         /\ GoodFrame(slots[s], s, currently_rendering_id, last_rendered_id, min_id, max_id, newest)
         /\ s \notin old => rest[s] = slots[s]
         /\ s \in old => rest[s] = Released(slots[s])
  BY DEF IndInv, SlotsInv
<1>6. rest \in [Slots -> FrameData]
  BY <1>1, ReleasedType
<1>7. Cardinality(ReadySlots(rest)) = num_pending_ready_frames - Cardinality(dropped)
  <2>1. ReadySlots(rest) = ReadySlots(slots) \ dropped
    <3>1. \A s \in Slots : s \in old => ~HasFramebuffer(rest[s])
      BY <1>1, <1>5, ReleasedType
    <3>2. \A s \in Slots : slots[s].fb <=> HasFramebuffer(slots[s])
      BY <1>5 DEF GoodFrame
    <3>3. \A s \in Slots : s \notin old => (HasFramebuffer(rest[s]) <=> HasFramebuffer(slots[s]))
      BY <1>5
    <3> HIDE DEF rest
    <3> QED
      BY <3>1, <3>2, <3>3 DEF ReadySlots
  <2>2. ReadySlots(slots) \cap dropped = dropped
    BY <1>5 DEF ReadySlots, GoodFrame
  <2> HIDE DEF rest, dropped
  <2> QED
    BY <2>1, <2>2, <1>1, ReadySlotsFinite, FS_Difference
<1>8. Cardinality(ReadySlots(rest)) \in Int
  BY ReadySlotsFinite
<1>9. ASSUME NEW s \in Slots
      PROVE  /\ GoodFrame(rest[s], s, currently_rendering_id, id - 1, min_id, max_id, newest)
             /\ rest[s].id = slots[s].id /\ rest[s].got = slots[s].got
             /\ rest[s] # slots[s] => slots[s].id < id
  <2>1. GoodFrame(slots[s], s, currently_rendering_id, last_rendered_id, min_id, max_id, newest)
    BY <1>5
  <2>2. CASE s \notin old
    <3>1. rest[s] = slots[s] /\ (slots[s].buf => slots[s].id > id - 1)
      BY <2>2, <1>1, <1>5
    <3> HIDE DEF rest, old
    <3> QED
      BY <3>1, <2>1 DEF GoodFrame
  <2>3. CASE s \in old
    <3> DEFINE r == Released(slots[s])
    <3>1. /\ r.id = slots[s].id /\ r.got = slots[s].got /\ r.rec = slots[s].rec
          /\ r.buf = FALSE /\ r.fb = FALSE /\ ~HasFramebuffer(r)
      BY <1>1, ReleasedType
    <3>2. rest[s] = r /\ slots[s].id < id /\ slots[s].id # 0
      BY <2>1, <2>3, <1>5, EmptyType DEF GoodFrame
    <3> HIDE DEF r, rest, old
    <3> QED
      BY <3>1, <3>2, <2>1 DEF GoodFrame
  <2> QED
    BY <2>2, <2>3
<1>10. Ready(slots, id) => Ready(rest, id)
  <2>1. slots[SlotOf(id)].id = id => SlotOf(id) \notin old
    BY <1>1
  <2> QED
    BY <2>1, <1>1, <1>5 DEF Ready
<1> HIDE DEF rest, dropped, old
<1> QED
  BY <1>4, <1>6, <1>7, <1>8, <1>9, <1>10 DEF st

\* Skipping to a frame that is ready
LEMMA SkipReadyToPlay ==
    ASSUME IndInv, NEW ids, NEW id \in Ids, id > last_rendered_id, Ready(slots, id)
    PROVE  LET st == ResetStream(Scanned(ids), id) IN
           ReadyToPlay(st) /\ st.last + 1 = id
<1> DEFINE st == ResetStream(Scanned(ids), id)
<1>1. /\ st.slots \in [Slots -> FrameData]
      /\ st.pending \in Int
      /\ st.pending = Cardinality(ReadySlots(st.slots))
      /\ st.last = id - 1
      /\ \A s \in Slots :
            /\ GoodFrame(st.slots[s], s, currently_rendering_id, id - 1, min_id, max_id, newest)
            /\ st.slots[s].id = slots[s].id /\ st.slots[s].got = slots[s].got
            /\ st.slots[s] # slots[s] => slots[s].id < id
      /\ Ready(st.slots, id)
  BY ResetStreamEffect
<1> HIDE DEF st
<1>2. id \in Int /\ st.last + 1 = id /\ id >= 1
  BY <1>1 DEF Ids
<1>3. \A s \in Slots : slots[s].id \in Int /\ Settled(slots[s], currently_rendering_id)
  BY SizeAssumption DEF IndInv, TypeOK, FrameData, Ids, SlotsInv
<1>4. id > currently_rendering_id
  <2>1. SlotOf(id) \in Slots /\ slots[SlotOf(id)].id = id /\ slots[SlotOf(id)].buf
    BY SlotOfType DEF Ready, HasFramebuffer, Ids
  <2> QED
    BY <2>1 DEF IndInv, SlotsInv, GoodFrame
<1>5. st.last >= currently_rendering_id
  BY <1>1, <1>2, <1>4 DEF IndInv, TypeOK
<1>6. \A s \in Slots : \/ Settled(st.slots[s], currently_rendering_id)
                       \/ Ready(st.slots, st.last + 1) /\ st.slots[s].id <= st.last
  BY <1>1, <1>2, <1>3
<1>7. ReadyToPlay(st)
  BY <1>1, <1>2, <1>5, <1>6 DEF ReadyToPlay
<1> QED
  BY <1>2, <1>7 DEF st

\* A step of udp_get_packet keeps the invariant and plays what Playout allows.
MayPlay(id) ==
    id \in Ids /\ id > currently_rendering_id /\ id <= newest /\ Abstract!CanFollow(id)

GoodPlay ==
    /\ IndInv'
    /\ UNCHANGED <<newest, recovery>>
    /\ UNCHANGED currently_rendering_id \/ MayPlay(currently_rendering_id')

\* If the next frame may follow the one being rendered, playing it is what Playout
\* allows.
LEMMA GoodPlayFrom ==
    ASSUME Environment, IndInv, NEW st, ReadyToPlay(st), NEW scanned, PlayNext(st, scanned),
           Ready(st.slots, st.last + 1) => Abstract!CanFollow(st.last + 1)
    PROVE  GoodPlay
<1>1. st.last + 1 \in Nat
  BY DEF ReadyToPlay
<1>2. /\ IndInv'
      /\ UNCHANGED <<newest, recovery>>
      /\ \/ UNCHANGED currently_rendering_id
         \/ Ready(st.slots, st.last + 1) /\ currently_rendering_id' = st.last + 1
  BY PlayNextInv
<1>3. Ready(st.slots, st.last + 1) => MayPlay(st.last + 1)
  BY <1>1, ReadyIsAhead DEF MayPlay
<1> QED
  BY <1>2, <1>3 DEF GoodPlay

\* Video plays the next frame, or skips to a recovery point.
LEMMA GetVideoPacketInv ==
    ASSUME Environment, IndInv, GetVideoPacket
    PROVE  GoodPlay
<1> DEFINE window == Larger(Larger(0, last_rendered_id + 1), SearchFloor) .. max_id
           hits == {i \in window : IsRecoveryPoint(i)}
<1>1. Type = "video"
  BY DEF GetVideoPacket
<1>2. CASE hits = {} /\ PlayNext(Scanned(window), window)
  <2> DEFINE st == Scanned(window)
  <2>1. ReadyToPlay(st)
    BY UnchangedReadyToPlay
  <2>2. st.last = last_rendered_id
    BY DEF Scanned
  <2> HIDE DEF st
  <2>3. ASSUME Ready(st.slots, st.last + 1)
        PROVE  Abstract!CanFollow(st.last + 1)
    <3>1. st.last + 1 \in Nat /\ st.last + 1 \in Ids
      BY <2>1, <2>3, ReadyIsAhead DEF ReadyToPlay
    <3>2. last_rendered_id = currently_rendering_id /\ currently_rendering_id # -1
      BY <3>1, <2>2, <1>1 DEF IndInv, CountersInv, Ids
    <3> QED
      BY <3>2, <2>2, <1>1 DEF Abstract!CanFollow
  <2> QED
    BY <1>2, <2>1, <2>3, GoodPlayFrom DEF st
<1>3. CASE \E i \in hits : PlayNext(ResetStream(Scanned(i .. max_id), i), i .. max_id)
  <2>1. PICK i \in hits : PlayNext(ResetStream(Scanned(i .. max_id), i), i .. max_id)
    BY <1>3
  <2>2. /\ i \in recovery /\ Ready(slots, i) /\ i \in Ids /\ i > last_rendered_id
    <3>1. last_rendered_id \in Int /\ max_id \in Int /\ recovery \subseteq Ids
      BY DEF IndInv, TypeOK
    <3> QED
      BY <3>1, SizeAssumption, BoundAssumption DEF Larger, Ids, IsRecoveryPoint, SearchFloor
  <2> DEFINE st == ResetStream(Scanned(i .. max_id), i)
  <2>3. ReadyToPlay(st) /\ st.last + 1 = i
    BY <2>2, SkipReadyToPlay
  <2>4. Abstract!CanFollow(st.last + 1)
    BY <2>2, <2>3, <1>1 DEF Abstract!CanFollow
  <2> QED
    BY <2>1, <2>3, <2>4, GoodPlayFrom
<1> QED
  BY <1>2, <1>3 DEF GetVideoPacket

\* An audio frame may follow every older one.
LEMMA AudioFollows ==
    ASSUME IndInv, Type = "audio", NEW st, ReadyToPlay(st), Ready(st.slots, st.last + 1)
    PROVE  Abstract!CanFollow(st.last + 1)
<1>1. st.last + 1 \in Nat
  BY DEF ReadyToPlay
<1>2. st.last + 1 > currently_rendering_id
  BY <1>1, ReadyIsAhead
<1> QED
  BY <1>2 DEF Abstract!CanFollow

\* Audio plays the next frame, or skips to the first ready one.
LEMMA GetAudioPacketInv ==
    ASSUME Environment, IndInv, NEW old \in BOOLEAN, GetAudioPacket(old)
    PROVE  GoodPlay
<1> DEFINE next == last_rendered_id + 1
           window == Larger(next + 1, max_id - Size + 1) .. max_id
           ready == {i \in window : Ready(slots, i)}
<1>1. Type = "audio"
  BY DEF GetAudioPacket
<1>2. ASSUME NEW ids, PlayNext(Scanned(ids), ids)
      PROVE  GoodPlay
  BY <1>1, <1>2, UnchangedReadyToPlay, AudioFollows, GoodPlayFrom
<1>3. ASSUME NEW i \in ready, NEW ids, PlayNext(ResetStream(Scanned(ids), i), ids)
      PROVE  GoodPlay
  <2>1. last_rendered_id \in Int /\ max_id \in Int /\ last_rendered_id >= -1
    BY DEF IndInv, TypeOK, CountersInv
  <2>2. i \in Nat /\ i > last_rendered_id /\ Ready(slots, i)
    BY <2>1, SizeAssumption DEF Larger
  <2>3. i \in Ids
    <3>1. ReadyToPlay(Scanned({})) /\ Scanned({}).slots = slots
      BY UnchangedReadyToPlay, ScannedSame
    <3> QED
      BY <3>1, <2>2, ReadyIsAhead
  <2>4. ReadyToPlay(ResetStream(Scanned(ids), i))
    BY <2>2, <2>3, SkipReadyToPlay
  <2> QED
    BY <1>1, <1>3, <2>4, AudioFollows, GoodPlayFrom
<1>4. \/ \E ids : PlayNext(Scanned(ids), ids)
      \/ \E i \in ready : \E ids : PlayNext(ResetStream(Scanned(ids), i), ids)
  BY Zenon DEF GetAudioPacket
<1> QED
  BY <1>2, <1>3, <1>4

\* Audio frames are single segments: a frame that is dropped before it could be
\* played was complete, and no segment of it can arrive that was not there.
LEMMA StartAudioInv ==
    ASSUME Environment, IndInv, StartAudio
    PROVE  GoodPlay
<1> DEFINE id == max_id - InitialFrames + 1
           st == ResetStream(Scanned({}), id)
<1>1. Type = "audio" /\ last_rendered_id = -1
  BY DEF StartAudio
<1>2. CASE ~(max_id > InitialFrames)
  <2>1. PlayNext(Scanned({}), {})
    BY <1>2 DEF StartAudio
  <2> QED
    BY <1>1, <2>1, UnchangedReadyToPlay, AudioFollows, GoodPlayFrom
<1>3. CASE max_id > InitialFrames
  <2>1. PlayNext(st, {})
    BY <1>3 DEF StartAudio
  <2>2. id \in Ids /\ id > last_rendered_id
    <3>1. max_id \in Int /\ max_id <= MaxId /\ MaxId \in Nat
      BY SizeAssumption DEF IndInv, TypeOK, CountersInv, Ids
    <3>2. InitialFrames \in Nat /\ InitialFrames >= 1
      BY BoundAssumption
    <3> QED
      BY <1>1, <1>3, <3>1, <3>2 DEF Ids
  <2>3. /\ st.slots \in [Slots -> FrameData]
        /\ st.pending \in Int
        /\ st.pending = Cardinality(ReadySlots(st.slots))
        /\ st.last = id - 1
        /\ \A s \in Slots :
              /\ GoodFrame(st.slots[s], s, currently_rendering_id, id - 1, min_id, max_id, newest)
              /\ st.slots[s].id = slots[s].id /\ st.slots[s].got = slots[s].got
    BY <2>2, ResetStreamEffect
  <2> HIDE DEF st
  <2>4. ASSUME NEW s \in Slots
        PROVE  Settled(st.slots[s], currently_rendering_id)
    <3> SUFFICES ASSUME st.slots[s].id # 0
                 PROVE  st.slots[s].got = Indices(st.slots[s].id)
      BY DEF Settled
    <3>1. st.slots[s].id \in Ids
      BY <2>3 DEF FrameData
    <3>2. st.slots[s].got # {} /\ st.slots[s].got \subseteq Indices(st.slots[s].id)
      BY <2>3 DEF GoodFrame
    <3>3. Indices(st.slots[s].id) = {0}
      BY <3>1, <1>1 DEF Environment, Indices, NumIndices
    <3> QED
      BY <3>2, <3>3
  <2>5. st.last \in Int /\ st.last >= -1
    BY <2>2, <2>3 DEF Ids
  <2>6. st.last >= currently_rendering_id \/ newest > currently_rendering_id + Size
    BY <1>1, <2>5 DEF IndInv, CountersInv, Ids
  <2>7. ReadyToPlay(st)
    BY <1>1, <2>3, <2>4, <2>5, <2>6 DEF ReadyToPlay
  <2> QED
    BY <1>1, <2>1, <2>7, AudioFollows, GoodPlayFrom
<1> QED
  BY <1>2, <1>3

\* GPU commands are played one after the other, also after an overflow.
LEMMA GetGpuPacketInv ==
    ASSUME Environment, IndInv, GetGpuPacket
    PROVE  GoodPlay
<1> DEFINE st == [Scanned({}) EXCEPT !.last = Larger(@, 0)]
<1>1. Type = "gpu" /\ PlayNext(st, {})
  BY DEF GetGpuPacket
<1>2. /\ st.slots = slots /\ st.pending = num_pending_ready_frames
      /\ st.last = Larger(last_rendered_id, 0)
  BY ScannedSame
<1> HIDE DEF st
<1>3. /\ st.last \in Int /\ st.last >= 0 /\ last_rendered_id \in Int
      /\ last_rendered_id # st.last => last_rendered_id = -1 /\ st.last = 0
  BY <1>2 DEF Larger, IndInv, TypeOK, CountersInv
<1>4. ASSUME NEW s \in Slots
      PROVE  /\ GoodFrame(slots[s], s, currently_rendering_id, st.last, min_id, max_id, newest)
             /\ Settled(slots[s], currently_rendering_id)
  <2>1. /\ GoodFrame(slots[s], s, currently_rendering_id, last_rendered_id, min_id, max_id, newest)
        /\ Settled(slots[s], currently_rendering_id)
    BY DEF IndInv, SlotsInv
  <2>2. slots[s].buf => slots[s].id > 0
    BY <2>1, EmptyType DEF GoodFrame, IndInv, TypeOK, FrameData, Ids
  <2> QED
    BY <2>1, <2>2, <1>3 DEF GoodFrame
<1>5. st.last >= currently_rendering_id \/ newest > currently_rendering_id + Size
  BY <1>3 DEF IndInv, CountersInv, Ids
<1>6. st.last \in {0, currently_rendering_id}
  BY <1>1, <1>3 DEF IndInv, CountersInv, Ids
<1>7. ReadyToPlay(st)
  BY <1>1, <1>2, <1>3, <1>4, <1>5, <1>6
     DEF ReadyToPlay, IndInv, TypeOK, PendingCountExact, ReadySlots
<1>8. ASSUME Ready(st.slots, st.last + 1)
      PROVE  Abstract!CanFollow(st.last + 1)
  <2>1. st.last + 1 > currently_rendering_id
    BY <1>3, <1>7, <1>8, ReadyIsAhead
  <2>2. currently_rendering_id \in {-1} \cup Ids
    BY DEF IndInv, CountersInv
  <2> QED
    BY <1>1, <1>3, <1>6, <2>1, <2>2 DEF Abstract!CanFollow, Ids
<1> QED
  BY <1>1, <1>7, <1>8, GoodPlayFrom

-----------------------------------------------------------------------------
(* The steps that only look at the buffer *)

\* The self check of get_num_pending_ready_frames looks at every ready frame: the
\* frames from the first that is still to be played up to max_id.
LEMMA CountedAreReady ==
    ASSUME IndInv, min_id # -1
    PROVE  LET counted == {i \in Larger(min_id, last_rendered_id + 1) .. max_id : Ready(slots, i)}
           IN  Cardinality(counted) = Cardinality(ReadySlots(slots))
<1> DEFINE first == Larger(min_id, last_rendered_id + 1)
           counted == {i \in first .. max_id : Ready(slots, i)}
           ready == ReadySlots(slots)
           frameIn == [s \in ready |-> slots[s].id]
<1>1. /\ min_id \in Ids /\ max_id \in Ids /\ last_rendered_id \in Int
      /\ slots \in [Slots -> FrameData]
  BY DEF IndInv, TypeOK, CountersInv
<1>2. first \in Nat /\ first >= min_id /\ first > last_rendered_id
  BY <1>1, SizeAssumption DEF Larger, Ids
<1>3. ASSUME NEW s \in ready
      PROVE  slots[s].id \in counted /\ SlotOf(slots[s].id) = s
  <2>1. /\ s \in Slots /\ HasFramebuffer(slots[s]) /\ slots[s].buf /\ slots[s].id \in Nat
    BY <1>1, SizeAssumption DEF ReadySlots, HasFramebuffer, FrameData, Ids
  <2>2. GoodFrame(slots[s], s, currently_rendering_id, last_rendered_id, min_id, max_id, newest)
    BY <2>1 DEF IndInv, SlotsInv
  <2>3. /\ slots[s].id > last_rendered_id /\ min_id <= slots[s].id /\ slots[s].id <= max_id
        /\ SlotOf(slots[s].id) = s
    BY <2>1, <2>2, EmptyType DEF GoodFrame
  <2>4. slots[s].id \in first .. max_id
    BY <1>1, <2>1, <2>3 DEF Larger, Ids
  <2> HIDE DEF first
  <2> QED
    BY <2>1, <2>3, <2>4 DEF Ready
<1>4. ASSUME NEW i \in counted
      PROVE  SlotOf(i) \in ready /\ slots[SlotOf(i)].id = i
  <2>1. i \in Nat /\ Ready(slots, i)
    BY <1>1, <1>2 DEF Ids
  <2> QED
    BY <2>1, SlotOfType DEF Ready, ReadySlots
<1> HIDE DEF first, counted, ready
<1>5. frameIn \in [ready -> counted]
  BY <1>3
<1>6. \A s, t \in ready : frameIn[s] = frameIn[t] => s = t
  BY <1>3
<1>7. \A i \in counted : \E s \in ready : frameIn[s] = i
  BY <1>4
<1>8. ExistsBijection(ready, counted)
  BY <1>5, <1>6, <1>7 DEF ExistsBijection, Bijection, Injection, Surjection, IsInjective
<1>9. IsFiniteSet(ready)
  BY <1>1, ReadySlotsFinite DEF ready
<1>10. Cardinality(counted) = Cardinality(ready)
  BY <1>8, <1>9, FS_Bijection
<1> QED
  BY <1>10 DEF counted, first, ready

\* Without a frame ID in the buffer nothing is pending.
LEMMA NothingPending ==
    ASSUME IndInv, min_id = -1
    PROVE  num_pending_ready_frames = 0
<1>1. max_id = -1 /\ slots \in [Slots -> FrameData]
  BY DEF IndInv, TypeOK, CountersInv, Ids
<1>2. ASSUME NEW s \in Slots
      PROVE  ~HasFramebuffer(slots[s])
  <2>1. slots[s].id \in Nat
    BY <1>1, SizeAssumption DEF FrameData, Ids
  <2> QED
    BY <1>1, <2>1 DEF IndInv, SlotsInv, GoodFrame, HasFramebuffer
<1>3. ReadySlots(slots) = {}
  BY <1>2 DEF ReadySlots
<1> QED
  BY <1>3, FS_EmptySet DEF IndInv, PendingCountExact, ReadySlots

\* The self check passes and changes nothing.
LEMMA GetNumPendingReadyFramesSame ==
    ASSUME IndInv, GetNumPendingReadyFrames
    PROVE  UNCHANGED vars
<1> DEFINE first == Larger(min_id, last_rendered_id + 1)
           counted == {i \in first .. max_id : Ready(slots, i)}
<1>1. /\ ~aborted /\ aborted \in BOOLEAN
      /\ UNCHANGED <<currently_rendering_id, last_rendered_id, min_id, max_id,
                     num_pending_ready_frames, newest, recovery>>
  BY DEF GetNumPendingReadyFrames, IndInv, TypeOK
<1>2. CASE min_id = -1
  BY <1>1, <1>2, NothingPending DEF GetNumPendingReadyFrames, vars, bufferVars
<1>3. CASE min_id # -1
  <2>1. /\ aborted' = \/ PlayedFrameHasBuffer(slots, first .. max_id)
                       \/ Cardinality(counted) # num_pending_ready_frames
                       \/ num_pending_ready_frames \notin 0 .. Size
        /\ slots' = Refreshed(slots, first .. max_id)
    BY <1>3 DEF GetNumPendingReadyFrames
  <2>2. ~PlayedFrameHasBuffer(slots, first .. max_id)
    BY PlayedFramesFreed DEF IndInv, TypeOK, SlotsInv, GoodFrame
  <2>3. Refreshed(slots, first .. max_id) = slots
    BY RefreshedSame DEF IndInv, TypeOK, SlotsInv, GoodFrame
  <2>4. num_pending_ready_frames = Cardinality(ReadySlots(slots))
    BY DEF IndInv, PendingCountExact, ReadySlots
  <2>5. Cardinality(counted) = num_pending_ready_frames
    BY <1>3, <2>4, CountedAreReady
  <2>6. num_pending_ready_frames \in 0 .. Size
    BY <2>4, ReadySlotsFinite, SizeAssumption DEF IndInv, TypeOK
  <2> HIDE DEF first, counted
  <2> QED
    BY <1>1, <2>1, <2>2, <2>3, <2>5, <2>6 DEF vars, bufferVars
<1> QED
  BY <1>2, <1>3

\* Looking for frames to nack changes nothing in the buffer.
LEMMA TryRecoveringSame ==
    ASSUME IndInv, NEW upto \in 0 .. MaxId, TryRecovering(upto)
    PROVE  UNCHANGED vars
<1> DEFINE scanned == (FirstToNack .. upto) \cup {CurrentlyPendingId}
<1>1. ~PlayedFrameHasBuffer(slots, scanned)
  BY PlayedFramesFreed DEF IndInv, TypeOK, SlotsInv, GoodFrame
<1>2. Refreshed(slots, scanned) = slots
  BY RefreshedSame DEF IndInv, TypeOK, SlotsInv, GoodFrame
<1>3. ~aborted /\ aborted \in BOOLEAN
  BY DEF IndInv, TypeOK, NoAbort
<1>4. /\ aborted' = PlayedFrameHasBuffer(slots, scanned)
      /\ slots' = Refreshed(slots, scanned)
      /\ UNCHANGED <<currently_rendering_id, last_rendered_id, min_id, max_id,
                     num_pending_ready_frames, newest, recovery>>
  BY DEF TryRecovering
<1>5. aborted' = aborted
  BY <1>1, <1>3, <1>4 DEF PlayedFrameHasBuffer
<1> QED
  BY <1>2, <1>4, <1>5 DEF vars, bufferVars

\* Sending a frame leaves the client alone.
LEMMA SendFrameInv ==
    ASSUME IndInv, NEW isRecovery \in BOOLEAN, SendFrame(isRecovery)
    PROVE  IndInv'
<1>1. /\ UNCHANGED <<slots, currently_rendering_id, last_rendered_id, min_id, max_id,
                     num_pending_ready_frames, aborted>>
      /\ newest \in 0 .. MaxId /\ newest < MaxId /\ newest' = newest + 1
      /\ recovery \subseteq Ids
      /\ recovery' \in {recovery, recovery \cup {newest'}}
  BY DEF IndInv, TypeOK, SendFrame, bufferVars
<1>2. newest' \in 0 .. MaxId /\ newest' \in Ids
  BY <1>1, SizeAssumption DEF Ids
<1>3. TypeOK'
  BY <1>1, <1>2 DEF IndInv, TypeOK
<1>4. SlotsInv'
  <2> SUFFICES ASSUME NEW s \in Slots
               PROVE  /\ GoodFrame(slots[s], s, currently_rendering_id, last_rendered_id, min_id,
                                   max_id, newest')
                      /\ Settled(slots[s], currently_rendering_id)
    BY <1>1 DEF SlotsInv
  <2>1. slots[s].id \in Nat
    BY SizeAssumption DEF IndInv, TypeOK, FrameData, Ids
  <2>2. /\ GoodFrame(slots[s], s, currently_rendering_id, last_rendered_id, min_id, max_id, newest)
        /\ Settled(slots[s], currently_rendering_id)
    BY DEF IndInv, SlotsInv
  <2> QED
    BY <1>1, <2>1, <2>2, SizeAssumption DEF GoodFrame
<1>5. CountersInv'
  BY <1>1, SizeAssumption DEF IndInv, TypeOK, CountersInv, Ids
<1>6. PendingCountExact' /\ PlayedFrameComplete' /\ NoAbort'
  BY <1>1 DEF IndInv, PendingCountExact, PlayedFrameComplete, FrameAt, NoAbort
<1> QED
  BY <1>3, <1>4, <1>5, <1>6 DEF IndInv

\* The invariant is about vars.
LEMMA UnchangedInv ==
    ASSUME IndInv, UNCHANGED vars
    PROVE  IndInv'
  BY DEF vars, bufferVars, IndInv, TypeOK, SlotsInv, CountersInv, PendingCountExact,
         PlayedFrameComplete, FrameAt, NoAbort

-----------------------------------------------------------------------------
(* The invariant holds, and with it the properties *)

\* The empty buffer of init_ring_buffer is a good one.
LEMMA InitInv == Init => IndInv
<1> SUFFICES ASSUME Init
             PROVE  IndInv
  OBVIOUS
<1>1. TypeOK
  <2>1. slots \in [Slots -> FrameData]
    BY EmptyType DEF Init
  <2>2. newest \in 0 .. MaxId /\ recovery \subseteq Ids
    BY SizeAssumption DEF Init
  <2>3. aborted \in BOOLEAN
    BY DEF Init
  <2> QED
    BY <2>1, <2>2, <2>3 DEF Init, TypeOK
<1>2. SlotsInv
  BY EmptyType DEF Init, SlotsInv, GoodFrame, Settled
<1>3. CountersInv
  BY DEF Init, CountersInv
<1>4. PendingCountExact
  <2>1. {s \in Slots : HasFramebuffer(slots[s])} = {}
    BY EmptyType DEF Init
  <2> QED
    BY <2>1, FS_EmptySet DEF Init, PendingCountExact
<1>5. PlayedFrameComplete /\ NoAbort
  BY DEF Init, PlayedFrameComplete, NoAbort
<1> QED
  BY <1>1, <1>2, <1>3, <1>4, <1>5 DEF IndInv

\* Every step of ring_buffer_receive_segment keeps the invariant and leaves the
\* frame being rendered alone.
LEMMA ReceiveInv ==
    ASSUME Environment, IndInv, Receive
    PROVE  IndInv' /\ UNCHANGED <<currently_rendering_id, newest, recovery>>
<1>1. PICK id \in Ids : \E k \in Indices(id) :
         \/ ReceiveStale(id, k)
         \/ ReceiveKnown(id, k)
         \/ ReceiveNew(id, k)
         \/ ReceiveOverflow(id, k)
  BY DEF Receive
<1>2. PICK k \in Indices(id) :
         \/ ReceiveStale(id, k)
         \/ ReceiveKnown(id, k)
         \/ ReceiveNew(id, k)
         \/ ReceiveOverflow(id, k)
  BY <1>1
<1>3. UNCHANGED <<currently_rendering_id, newest, recovery>>
  BY <1>2 DEF ReceiveStale, ReceiveKnown, ReceiveNew, ReceiveOverflow, Arrives
<1>4. CASE ReceiveStale(id, k)
  BY <1>4, UnchangedInv DEF ReceiveStale, Arrives, vars, bufferVars
<1>5. CASE ReceiveKnown(id, k)
  BY <1>3, <1>5, ReceiveKnownInv
<1>6. CASE ReceiveNew(id, k)
  BY <1>3, <1>6, ReceiveNewInv
<1>7. CASE ReceiveOverflow(id, k)
  BY <1>3, <1>7, ReceiveOverflowInv
<1> QED
  BY <1>2, <1>3, <1>4, <1>5, <1>6, <1>7

\* Every call of udp_get_packet keeps the invariant and plays what Playout allows.
LEMMA GetPacketInv ==
    ASSUME Environment, IndInv, GetPacket
    PROVE  GoodPlay
  BY GetVideoPacketInv, StartAudioInv, GetAudioPacketInv, GetGpuPacketInv DEF GetPacket

\* Every step keeps the invariant.
LEMMA NextInv ==
    ASSUME Environment, IndInv, [Next]_vars
    PROVE  IndInv'
<1>1. CASE \E isRecovery \in BOOLEAN : SendFrame(isRecovery)
  BY <1>1, SendFrameInv
<1>2. CASE Receive
  BY <1>2, ReceiveInv
<1>3. CASE GetPacket
  BY <1>3, GetPacketInv DEF GoodPlay
<1>4. CASE GetNumPendingReadyFrames
  BY <1>4, GetNumPendingReadyFramesSame, UnchangedInv
<1>5. CASE \E upto \in 0 .. MaxId : TryRecovering(upto)
  BY <1>5, TryRecoveringSame, UnchangedInv
<1>6. CASE UNCHANGED vars
  BY <1>6, UnchangedInv
<1> QED
  BY <1>1, <1>2, <1>3, <1>4, <1>5, <1>6 DEF Next

\* The inductive invariant: slots, counters and the count of pending frames fit
\* together after every call of the ring buffer.
THEOREM Invariant ==
    ASSUME Environment
    PROVE  Spec => []IndInv
<1>1. IndInv /\ [Next]_vars => IndInv'
  BY NextInv
<1> QED
  BY <1>1, InitInv, PTL DEF Spec

\* The buffer's fields keep their types: IDs, received indices and flags.
THEOREM TypeCorrect ==
    ASSUME Environment
    PROVE  Spec => []TypeOK
<1>1. IndInv => TypeOK
  BY DEF IndInv
<1> QED
  BY <1>1, Invariant, PTL

\* No FATAL_ASSERT or LOG_FATAL of ringbuffer.c is ever hit: whatever the network
\* loses, duplicates or reorders, as long as nothing is later than a turn of the ring.
THEOREM AssertsHold ==
    ASSUME Environment
    PROVE  Spec => []NoAbort
<1>1. IndInv => NoAbort
  BY DEF IndInv
<1> QED
  BY <1>1, Invariant, PTL

\* num_pending_ready_frames is exact after every call.
THEOREM CountIsExact ==
    ASSUME Environment
    PROVE  Spec => []PendingCountExact
<1>1. IndInv => PendingCountExact
  BY DEF IndInv
<1> QED
  BY <1>1, Invariant, PTL

\* Buffers are held only by frames that can still be played.
THEOREM MemoryIsAhead ==
    ASSUME Environment
    PROVE  Spec => []BuffersAreAhead
<1>1. IndInv => BuffersAreAhead
  <2> SUFFICES ASSUME IndInv, NEW s \in Slots, slots[s].buf
               PROVE  /\ slots[s].id > currently_rendering_id
                      /\ slots[s].id > last_rendered_id
                      /\ SlotOf(slots[s].id) = s
    BY DEF BuffersAreAhead
  <2> QED
    BY EmptyType DEF IndInv, SlotsInv, GoodFrame
<1> QED
  BY <1>1, Invariant, PTL

\* What set_rendering hands over was put together from enough segments.
THEOREM PlayedComplete ==
    ASSUME Environment
    PROVE  Spec => []PlayedFrameComplete
<1>1. IndInv => PlayedFrameComplete
  BY DEF IndInv
<1> QED
  BY <1>1, Invariant, PTL

-----------------------------------------------------------------------------
(* The ring buffer implements Playout *)

\* Every step of the ring buffer is a step of the abstract playout, or one that
\* the renderer does not see.
LEMMA NextPlays ==
    ASSUME Environment, IndInv, [Next]_vars
    PROVE  [Abstract!Next]_<<currently_rendering_id, newest, recovery>>
<1>1. CASE \E isRecovery \in BOOLEAN : SendFrame(isRecovery)
  <2>1. Abstract!Send
    BY <1>1 DEF SendFrame, bufferVars, Abstract!Send
  <2> QED
    BY <2>1 DEF Abstract!Next
<1>2. CASE Receive
  BY <1>2, ReceiveInv
<1>3. CASE GetPacket
  <2>1. /\ UNCHANGED <<newest, recovery>>
        /\ UNCHANGED currently_rendering_id \/ MayPlay(currently_rendering_id')
    BY <1>3, GetPacketInv DEF GoodPlay
  <2>2. ASSUME MayPlay(currently_rendering_id')
        PROVE  Abstract!Play(currently_rendering_id') /\ currently_rendering_id' \in 1 .. MaxId
    BY <2>1, <2>2 DEF MayPlay, Abstract!Play, Ids
  <2> QED
    BY <2>1, <2>2 DEF Abstract!Next
<1>4. CASE GetNumPendingReadyFrames
  BY <1>4, GetNumPendingReadyFramesSame DEF vars, bufferVars
<1>5. CASE \E upto \in 0 .. MaxId : TryRecovering(upto)
  BY <1>5, TryRecoveringSame DEF vars, bufferVars
<1>6. CASE UNCHANGED vars
  BY <1>6 DEF vars, bufferVars
<1> QED
  BY <1>1, <1>2, <1>3, <1>4, <1>5, <1>6 DEF Next

\* The renderer gets the frames in an order in which they can be decoded: the ring
\* buffer with its skips, its resets and its overflows implements Playout.
THEOREM ImplementsPlayout ==
    ASSUME Environment
    PROVE  Spec => PlaysInOrder
<1>1. Init => Abstract!Init
  BY DEF Init, Abstract!Init
<1>2. IndInv /\ [Next]_vars => [Abstract!Next]_<<currently_rendering_id, newest, recovery>>
  BY NextPlays
<1> QED
  BY <1>1, <1>2, Invariant, PTL DEF Spec, PlaysInOrder, Abstract!Spec

=============================================================================
