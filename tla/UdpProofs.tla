------------------------------ MODULE UdpProofs ------------------------------
(***************************************************************************)
(* What the client and the server do over UDP.                             *)
(*                                                                         *)
(* The repair of segments, for every number of them: the client never asks *)
(* for a frame that the server has not begun to send, whatever is lost:    *)
(* the server's FATAL_ASSERT on the ID of a nack holds.                    *)
(*                                                                         *)
(* Their groups: the two index mappings of rs_wrapper.c are inverse to     *)
(* each other, for every number of groups.                                 *)
(*                                                                         *)
(* The congestion control: the server is never told to send faster than it *)
(* may, and rates, maximum and flags stay consistent in one window, for    *)
(* windows and links of every kind, and whatever is measured and lost.     *)
(*                                                                         *)
(* The keyboard: a settled snapshot repairs it, and a mapped combination   *)
(* stands alone, for all keys and systems, whatever is lost and reordered. *)
(***************************************************************************)
EXTENDS MCNackRepair, SegmentGroups, MCCongestionControl, Keyboard, SequenceTheorems, TLAPS

-----------------------------------------------------------------------------
(* Repair *)

\* The pairs of an ID and an index that may be on their way.
Begun == (1 .. newest_frame) \X Int

\* Everything that names a frame names one that was begun.
QueueIsBegun ==
    /\ nack_queue \in Seq(Int \X Int)
    /\ \A i \in 1 .. Len(nack_queue) : nack_queue[i] \in Begun

ClientIsBehind ==
    /\ min_id \in Int /\ max_id \in Int /\ last \in Int
    /\ max_id <= newest_frame
    /\ min_id # -1 => min_id \in 1 .. newest_frame /\ max_id \in 1 .. newest_frame
    /\ last # -1 => last >= 1

RepairInv ==
    /\ newest_frame \in Nat
    /\ index \in 0 .. Segments
    /\ index < Segments => newest_frame >= 1
    /\ segments_net \subseteq Begun
    /\ nacks \subseteq Begun
    /\ QueueIsBegun
    /\ ClientIsBehind
    /\ \A id \in Repair!Ids : got[id] # {} => id \in 1 .. newest_frame
    /\ DOMAIN got = Repair!Ids
    /\ aborted = FALSE

-----------------------------------------------------------------------------
LEMMA SizeIsNat == Repair!QueueSize \in Nat
  BY RepairAssumption DEF Repair!RepairAssumption, Repair!QueueSize

\* What is relayed was asked for.
LEMMA RelayedIsQueued ==
    ASSUME NEW b, QueueIsBegun
    PROVE  Repair!Relayed(b, nack_queue) \subseteq Begun
  BY DEF Repair!Relayed, QueueIsBegun

\* Enqueueing adds nothing of its own.
LEMMA EnqueuedIsBegun ==
    ASSUME QueueIsBegun, NEW items \in Seq(Int \X Int), \A i \in 1 .. Len(items) : items[i] \in Begun
    PROVE  /\ Repair!Enqueued(nack_queue, items) \in Seq(Int \X Int)
           /\ \A i \in 1 .. Len(Repair!Enqueued(nack_queue, items)) :
                 Repair!Enqueued(nack_queue, items)[i] \in Begun
<1> DEFINE both == nack_queue \o items
<1>1. /\ both \in Seq(Int \X Int)
      /\ Len(both) = Len(nack_queue) + Len(items)
      /\ \A i \in 1 .. Len(both) : both[i] \in Begun
  BY ConcatProperties DEF QueueIsBegun
<1> HIDE DEF both
<1>2. CASE Len(both) <= Repair!QueueSize
  BY <1>1, <1>2 DEF Repair!Enqueued, Repair!Upto, both
<1>3. CASE ~(Len(both) <= Repair!QueueSize)
  <2>1. Repair!Enqueued(nack_queue, items) = SubSeq(both, 1, Repair!QueueSize)
    BY <1>3 DEF Repair!Enqueued, Repair!Upto, both
  <2>2. Repair!QueueSize \in Nat /\ Len(both) \in Nat /\ Repair!QueueSize <= Len(both)
    BY <1>1, <1>3, SizeIsNat
  <2>3. \A i \in 1 .. Repair!QueueSize : both[i] \in Int \X Int /\ both[i] \in Begun
    BY <1>1, <2>2
  <2>4. /\ SubSeq(both, 1, Repair!QueueSize) \in Seq(Int \X Int)
        /\ Len(SubSeq(both, 1, Repair!QueueSize)) = Repair!QueueSize
        /\ \A i \in 1 .. Repair!QueueSize : SubSeq(both, 1, Repair!QueueSize)[i] = both[i]
    BY <1>1, <2>2, <2>3
  <2>5. QED
    BY <2>1, <2>2, <2>3, <2>4
<1>4. QED
  BY <1>2, <1>3

\* The frames that try_nacking goes through were begun.
LEMMA AskedIsBegun ==
    ASSUME RepairInv
    PROVE  Repair!Asked \subseteq Begun
<1>1. CASE min_id = -1
  BY <1>1 DEF Repair!Asked
<1>2. CASE min_id # -1
  <2>1. SUFFICES ASSUME NEW id \in Repair!FirstToNack .. max_id, NEW n \in Repair!MissingOf(id)
                 PROVE  n \in Begun
    BY <1>2 DEF Repair!Asked
  <2>2. /\ newest_frame \in Nat /\ min_id \in 1 .. newest_frame /\ max_id \in 1 .. newest_frame
        /\ last \in Int /\ NackBehind \in Nat
        /\ last # -1 => last >= 1
    BY <1>2, RepairAssumption DEF Repair!RepairAssumption, RepairInv, ClientIsBehind
  <2>3. Repair!FirstToNack \in Int /\ Repair!FirstToNack >= 1
    BY <2>2 DEF Repair!FirstToNack, Repair!Larger
  <2>4. id \in 1 .. newest_frame
    BY <2>2, <2>3
  <2>5. n \in {id} \X Int
    BY DEF Repair!MissingOf, Repair!Whole
  <2>6. QED
    BY <2>4, <2>5 DEF Begun
<1>3. QED
  BY <1>1, <1>2

-----------------------------------------------------------------------------
LEMMA RepairInit == Repair!Init => RepairInv
  BY RepairAssumption
     DEF Repair!RepairAssumption, Repair!Init, RepairInv, QueueIsBegun, ClientIsBehind, Begun

\* The server's queue has no nack that fails the assert.
LEMMA NothingAsserts ==
    ASSUME RepairInv, Repair!Asserts(nack_queue)
    PROVE  aborted' = FALSE
<1>1. \A i \in DOMAIN nack_queue : nack_queue[i][1] \in 1 .. newest_frame
  BY DEF RepairInv, QueueIsBegun, Begun
<1>2. ~\E i \in DOMAIN nack_queue : nack_queue[i][1] <= 0
  BY <1>1 DEF RepairInv
<1>3. QED
  BY <1>2, Zenon DEF Repair!Asserts, RepairInv

LEMMA BeginFrameInv == ASSUME RepairInv, Repair!BeginFrame PROVE RepairInv'
<1>1. /\ newest_frame' = newest_frame + 1 /\ newest_frame' \in Nat /\ newest_frame' >= 1
      /\ index' = 0 /\ index' \in 0 .. Segments
  BY RepairAssumption DEF Repair!RepairAssumption, RepairInv, Repair!BeginFrame
<1>2. \A p \in Begun : p \in Begun'
  BY <1>1 DEF RepairInv, Begun
<1>3. segments_net' \subseteq Begun' /\ nacks' \subseteq Begun'
  BY <1>2 DEF RepairInv, Repair!BeginFrame
<1>4. QueueIsBegun'
  BY <1>2 DEF RepairInv, Repair!BeginFrame, QueueIsBegun
<1>5. ClientIsBehind'
  BY <1>1 DEF RepairInv, Repair!BeginFrame, ClientIsBehind
<1>6. \A id \in Repair!Ids : got'[id] # {} => id \in 1 .. newest_frame'
  BY <1>1 DEF RepairInv, Repair!BeginFrame, Repair!Ids
<1>7. QED
  BY <1>1, <1>3, <1>4, <1>5, <1>6 DEF RepairInv, Repair!BeginFrame

LEMMA SendSegmentInv == ASSUME RepairInv, Repair!SendSegment PROVE RepairInv'
<1>1. /\ newest_frame' = newest_frame /\ newest_frame \in Nat /\ newest_frame >= 1
      /\ index' \in 0 .. Segments /\ Begun' = Begun
  BY RepairAssumption DEF Repair!RepairAssumption, RepairInv, Repair!SendSegment, Begun
<1>2. Repair!Relayed(buffer', nack_queue) \subseteq Begun
  BY RelayedIsQueued DEF RepairInv
<1>3. <<newest_frame, index>> \in Begun
  BY <1>1, RepairAssumption DEF Repair!RepairAssumption, RepairInv, Begun
<1>4. segments_net' \subseteq Begun
  BY <1>2, <1>3 DEF RepairInv, Repair!SendSegment
<1>5. QueueIsBegun'
  BY DEF Repair!SendSegment, QueueIsBegun
<1>6. aborted' = FALSE
  BY NothingAsserts DEF Repair!SendSegment
<1>7. ClientIsBehind'
  BY <1>1 DEF RepairInv, Repair!SendSegment, ClientIsBehind
<1>8. QED
  BY <1>1, <1>4, <1>5, <1>6, <1>7 DEF RepairInv, Repair!SendSegment

LEMMA ServeNacksInv == ASSUME RepairInv, Repair!ServeNacks PROVE RepairInv'
<1>1. Begun' = Begun
  BY DEF Repair!ServeNacks, Begun
<1>2. segments_net' \subseteq Begun
  BY RelayedIsQueued DEF RepairInv, Repair!ServeNacks
<1>3. QueueIsBegun'
  BY DEF Repair!ServeNacks, QueueIsBegun
<1>4. aborted' = FALSE
  BY NothingAsserts DEF Repair!ServeNacks
<1>5. ClientIsBehind'
  BY DEF RepairInv, Repair!ServeNacks, ClientIsBehind
<1>6. QED
  BY <1>1, <1>2, <1>3, <1>4, <1>5 DEF RepairInv, Repair!ServeNacks

LEMMA DuplicateInv == ASSUME RepairInv, Repair!Duplicate PROVE RepairInv'
<1>1. Begun' = Begun
  BY DEF Repair!Duplicate, Begun
<1>2. segments_net' \subseteq Begun
  BY RepairAssumption
     DEF Repair!RepairAssumption, RepairInv, Repair!Duplicate, Repair!Indices, Begun
<1>3. QueueIsBegun' /\ ClientIsBehind'
  BY <1>1 DEF RepairInv, Repair!Duplicate, QueueIsBegun, ClientIsBehind
<1>4. QED
  BY <1>1, <1>2, <1>3 DEF RepairInv, Repair!Duplicate

LEMMA HandleNackInv == ASSUME RepairInv, NEW n \in nacks, Repair!HandleNack(n) PROVE RepairInv'
<1>1. Begun' = Begun /\ nacks' \subseteq Begun
  BY DEF Repair!HandleNack, Begun, RepairInv
<1>2. n \in Begun /\ n[1] \in 1 .. newest_frame /\ newest_frame \in Nat /\ n \in Int \X Int
  BY DEF RepairInv, Begun
<1>3. QueueIsBegun'
  <2>1. CASE n[2] # Repair!Whole
    <3>1. <<n>> \in Seq(Int \X Int) /\ \A i \in 1 .. Len(<<n>>) : <<n>>[i] \in Begun
      BY <1>2
    <3>2. nack_queue' = Repair!Enqueued(nack_queue, <<n>>)
      BY <2>1 DEF Repair!HandleNack
    <3>3. QED
      BY <1>1, <3>1, <3>2, EnqueuedIsBegun DEF RepairInv, QueueIsBegun
  <2>2. CASE n[2] = Repair!Whole /\ buffer[Repair!SlotOf(n[1])][0] = n[1]
    <3> DEFINE all == [i \in 1 .. Segments |-> <<n[1], i - 1>>]
    <3>1. all \in Seq(Int \X Int) /\ \A i \in 1 .. Len(all) : all[i] \in Begun
      BY <1>2, RepairAssumption DEF Repair!RepairAssumption, Begun
    <3>2. nack_queue' = Repair!Enqueued(nack_queue, all)
      BY <2>2 DEF Repair!HandleNack
    <3>3. QED
      BY <1>1, <3>1, <3>2, EnqueuedIsBegun DEF RepairInv, QueueIsBegun
  <2>3. CASE n[2] = Repair!Whole /\ buffer[Repair!SlotOf(n[1])][0] # n[1]
    BY <1>1, <2>3 DEF Repair!HandleNack, RepairInv, QueueIsBegun
  <2>4. QED
    BY <2>1, <2>2, <2>3
<1>4. ClientIsBehind'
  BY DEF RepairInv, Repair!HandleNack, ClientIsBehind
<1>5. QED
  BY <1>1, <1>3, <1>4 DEF RepairInv, Repair!HandleNack

LEMMA LossInv ==
    ASSUME RepairInv,
           \/ \E p \in segments_net : Repair!LoseSegment(p)
           \/ \E n \in nacks : Repair!LoseNack(n)
    PROVE  RepairInv'
<1>1. Begun' = Begun /\ segments_net' \subseteq Begun /\ nacks' \subseteq Begun
  BY DEF Repair!LoseSegment, Repair!LoseNack, Begun, RepairInv
<1>2. QueueIsBegun' /\ ClientIsBehind'
  BY <1>1 DEF RepairInv, Repair!LoseSegment, Repair!LoseNack, QueueIsBegun, ClientIsBehind
<1>3. QED
  BY <1>1, <1>2 DEF RepairInv, Repair!LoseSegment, Repair!LoseNack

LEMMA ReceiveSegmentInv ==
    ASSUME RepairInv, NEW p \in segments_net, Repair!ReceiveSegment(p) PROVE RepairInv'
<1>1. Begun' = Begun /\ segments_net' \subseteq Begun /\ nacks' \subseteq Begun
  BY DEF Repair!ReceiveSegment, Begun, RepairInv
<1>2. p[1] \in 1 .. newest_frame /\ newest_frame \in Nat
  BY DEF RepairInv, Begun
<1>3. QueueIsBegun'
  BY <1>1 DEF RepairInv, Repair!ReceiveSegment, QueueIsBegun
<1>4. ClientIsBehind'
  <2>1. CASE p[1] <= last
    BY <2>1 DEF RepairInv, Repair!ReceiveSegment, ClientIsBehind
  <2>2. CASE ~(p[1] <= last)
    BY <1>2, <2>2 DEF RepairInv, Repair!ReceiveSegment, ClientIsBehind, Repair!Larger
  <2>3. QED
    BY <2>1, <2>2
<1>5. DOMAIN got' = Repair!Ids /\ \A id \in Repair!Ids : got'[id] # {} => id \in 1 .. newest_frame
  BY <1>2 DEF RepairInv, Repair!ReceiveSegment
<1>6. QED
  BY <1>1, <1>3, <1>4, <1>5 DEF RepairInv, Repair!ReceiveSegment

LEMMA PlayInv == ASSUME RepairInv, NEW id \in Repair!Ids, Repair!Play(id) PROVE RepairInv'
<1>1. Begun' = Begun
  BY DEF Repair!Play, Begun
<1>2. QueueIsBegun' /\ ClientIsBehind'
  BY <1>1 DEF RepairInv, Repair!Play, QueueIsBegun, ClientIsBehind, Repair!Ids
<1>3. QED
  BY <1>1, <1>2 DEF RepairInv, Repair!Play

LEMMA TryNackingInv == ASSUME RepairInv, Repair!TryNacking PROVE RepairInv'
<1>1. Begun' = Begun
  BY DEF Repair!TryNacking, Begun
<1>2. nacks' \subseteq Begun
  BY AskedIsBegun DEF Repair!TryNacking
<1>3. QueueIsBegun' /\ ClientIsBehind'
  BY <1>1 DEF RepairInv, Repair!TryNacking, QueueIsBegun, ClientIsBehind
<1>4. QED
  BY <1>1, <1>2, <1>3 DEF RepairInv, Repair!TryNacking

LEMMA RepairStep == RepairInv /\ [Repair!Next]_Repair!vars => RepairInv'
<1>1. SUFFICES ASSUME RepairInv, [Repair!Next]_Repair!vars PROVE RepairInv'
  OBVIOUS
<1>2. CASE Repair!Server
  BY <1>1, <1>2, BeginFrameInv, SendSegmentInv, ServeNacksInv, DuplicateInv DEF Repair!Server
<1>3. CASE \E n \in nacks : Repair!HandleNack(n)
  BY <1>1, <1>3, HandleNackInv
<1>4. CASE (\E p \in segments_net : Repair!LoseSegment(p)) \/ (\E n \in nacks : Repair!LoseNack(n))
  BY <1>1, <1>4, LossInv
<1>5. CASE \E p \in segments_net : Repair!ReceiveSegment(p)
  BY <1>1, <1>5, ReceiveSegmentInv
<1>6. CASE \E id \in Repair!Ids : Repair!Play(id)
  BY <1>1, <1>6, PlayInv
<1>7. CASE Repair!TryNacking
  BY <1>1, <1>7, TryNackingInv
<1>8. CASE UNCHANGED Repair!vars
  <2>1. Begun' = Begun
    BY <1>8 DEF Repair!vars, Begun
  <2>2. QueueIsBegun' /\ ClientIsBehind'
    BY <1>1, <1>8, <2>1 DEF RepairInv, Repair!vars, QueueIsBegun, ClientIsBehind
  <2>3. QED
    BY <1>1, <1>8, <2>1, <2>2 DEF RepairInv, Repair!vars
<1>9. QED
  BY <1>1, <1>2, <1>3, <1>4, <1>5, <1>6, <1>7, <1>8 DEF Repair!Next

\* The assert of udp_handle_nack holds, and a nack names a frame that the server
\* has begun to send.
THEOREM NacksNameSentFrames == RepairSpec => []NacksAreAnswerable
<1>1. RepairInv => NacksAreAnswerable
  BY DEF RepairInv, NacksAreAnswerable, Repair!NacksAreAnswerable, Begun
<1>2. QED
  BY <1>1, RepairInit, RepairStep, PTL DEF RepairSpec, Repair!Spec

-----------------------------------------------------------------------------
\* Division with remainder.
LEMMA DivMod ==
    ASSUME NEW a \in Nat, NEW n \in Nat \ {0}
    PROVE  /\ a \div n \in Nat
           /\ a % n \in 0 .. n - 1
           /\ a = (a \div n) * n + (a % n)
  BY SMT

\* Quotient and remainder are the only ones.
LEMMA DivModUnique ==
    ASSUME NEW q \in Nat, NEW n \in Nat \ {0}, NEW c \in 0 .. n - 1
    PROVE  (c + q * n) % n = c /\ (c + q * n) \div n = q
  BY SMT

\* What a group gets of `total` segments: as many as have its number modulo n.
LEMMA PartitionBounds ==
    ASSUME NEW total \in Nat, NEW n \in Nat \ {0}, NEW g \in 0 .. n - 1, NEW q \in Nat
    PROVE  /\ int_partition_helper(total, g, n) \in Nat
           /\ q < int_partition_helper(total, g, n) <=> g + q * n < total
  BY SMT DEF int_partition_helper, int_div_roundup

\* The place that a segment gets in its group.
LEMMA PlaceInGroup ==
    ASSUME NEW total \in Nat, NEW n \in Nat \ {0}, NEW i \in Nat, i < total
    PROVE  i \div n < int_partition_helper(total, i % n, n)
  <1> DEFINE q == i \div n
             g == i % n
  <1>1. q \in Nat /\ g \in 0 .. n - 1 /\ i = q * n + g
    BY DivMod
  <1>2. q < int_partition_helper(total, g, n) <=> g + q * n < total
    BY <1>1, PartitionBounds
  <1> HIDE DEF q, g
  <1>3. g + q * n < total
    BY <1>1, SMT
  <1> QED BY <1>2, <1>3 DEF q, g

\* Rounding up.
LEMMA RoundUpBounds ==
    ASSUME NEW a \in Nat \ {0}, NEW b \in Nat \ {0}
    PROVE  /\ int_div_roundup(a, b) \in Nat \ {0}
           /\ a <= int_div_roundup(a, b) * b
           /\ (int_div_roundup(a, b) - 1) * b < a
  BY SMT DEF int_div_roundup

\* index_sub_to_full undoes index_full_to_sub (rs_wrapper.c:600, :616): what
\* rs_wrapper_decode puts back goes to the place its index named.
THEOREM FullIndexIsRestored ==
    ASSUME NEW r \in Nat, NEW gs \in Nat \ {0}, NEW idx \in Nat
    PROVE  LET s == index_full_to_sub(r, gs, idx)
           IN  /\ s.group_id \in 0 .. gs - 1
               /\ s.sub_index \in Nat
               /\ index_sub_to_full(r, gs, s.group_id, s.sub_index) = idx
  <1>1. CASE idx < r
    <2>1. /\ idx \div gs \in Nat /\ idx % gs \in 0 .. gs - 1
          /\ idx = (idx \div gs) * gs + (idx % gs)
      BY DivMod
    <2>2. idx \div gs < int_partition_helper(r, idx % gs, gs)
      BY <1>1, PlaceInGroup
    <2>3. index_full_to_sub(r, gs, idx)
            = [group_id |-> idx % gs, sub_index |-> idx \div gs]
      BY <1>1 DEF index_full_to_sub
    <2> QED BY <2>1, <2>2, <2>3 DEF index_sub_to_full
  <1>2. CASE ~(idx < r)
    <2> DEFINE d == idx - r
               g == d % gs
               k == int_partition_helper(r, g, gs)
    <2>1. d \in Nat
      BY <1>2
    <2>2. d \div gs \in Nat /\ g \in 0 .. gs - 1 /\ d = (d \div gs) * gs + g
      BY <2>1, DivMod
    <2>3. k \in Nat
      BY <2>2, PartitionBounds
    <2>4. index_full_to_sub(r, gs, idx) = [group_id |-> g, sub_index |-> k + d \div gs]
      BY <1>2 DEF index_full_to_sub
    <2>5. index_sub_to_full(r, gs, g, k + d \div gs) = r + g + (d \div gs) * gs
      <3> HIDE DEF d, g
      <3> QED BY <2>2, <2>3 DEF index_sub_to_full
    <2> HIDE DEF g, k
    <2> QED BY <2>1, <2>2, <2>3, <2>4, <2>5
  <1> QED BY <1>1, <1>2

\* And the other way round: no two places of the groups have the same index, so that
\* decoding writes no segment over another.
THEOREM SubIndexIsRestored ==
    ASSUME NEW r \in Nat, NEW gs \in Nat \ {0}, NEW g \in 0 .. gs - 1, NEW s \in Nat
    PROVE  index_full_to_sub(r, gs, index_sub_to_full(r, gs, g, s))
             = [group_id |-> g, sub_index |-> s]
  <1> DEFINE k == int_partition_helper(r, g, gs)
  <1>1. k \in Nat /\ (s < k <=> g + s * gs < r)
    BY PartitionBounds
  <1>2. CASE s < k
    <2>1. index_sub_to_full(r, gs, g, s) = g + s * gs
      BY <1>2 DEF index_sub_to_full
    <2>2. (g + s * gs) % gs = g /\ (g + s * gs) \div gs = s
      BY DivModUnique
    <2> QED BY <1>1, <1>2, <2>1, <2>2 DEF index_full_to_sub
  <1>3. CASE ~(s < k)
    <2> DEFINE q == s - k
    <2>1. q \in Nat
      BY <1>1, <1>3
    <2>2. index_sub_to_full(r, gs, g, s) = r + g + q * gs
      BY <1>3 DEF index_sub_to_full
    <2>3. (g + q * gs) % gs = g /\ (g + q * gs) \div gs = q
      BY <2>1, DivModUnique
    <2>4. g + q * gs \in Nat
      BY <2>1, SMT
    <2> HIDE DEF q
    <2>5. (r + g + q * gs) - r = g + q * gs /\ ~(r + g + q * gs < r)
      BY <2>1, <2>4
    <2>6. s = k + q
      BY <1>1 DEF q
    <2> QED BY <2>2, <2>3, <2>5, <2>6 DEF index_full_to_sub
  <1> QED BY <1>2, <1>3

\* A segment of the packet has its place within what its group was given (rs_wrapper.c:592).
THEOREM SubIndexFitsGroup ==
    ASSUME NEW r \in Nat, NEW f \in Nat, NEW gs \in Nat \ {0}, NEW idx \in 0 .. r + f - 1
    PROVE  LET s == index_full_to_sub(r, gs, idx)
           IN  s.sub_index < int_partition_helper(r, s.group_id, gs)
                               + int_partition_helper(f, s.group_id, gs)
  <1>1. CASE idx < r
    <2> DEFINE g == idx % gs
    <2>0. idx \in Nat
      OBVIOUS
    <2>1. idx \div gs \in Nat /\ g \in 0 .. gs - 1
      BY <2>0, DivMod
    <2>2. idx \div gs < int_partition_helper(r, g, gs)
      BY <1>1, <2>0, PlaceInGroup
    <2>3. int_partition_helper(f, g, gs) \in Nat /\ int_partition_helper(r, g, gs) \in Nat
      BY <2>1, PartitionBounds
    <2>4. index_full_to_sub(r, gs, idx) = [group_id |-> g, sub_index |-> idx \div gs]
      BY <1>1 DEF index_full_to_sub
    <2> QED BY <2>1, <2>2, <2>3, <2>4
  <1>2. CASE ~(idx < r)
    <2> DEFINE d == idx - r
               g == d % gs
    <2>1. d \in Nat /\ d < f
      BY <1>2
    <2>2. d \div gs \in Nat /\ g \in 0 .. gs - 1 /\ d = (d \div gs) * gs + g
      BY <2>1, DivMod
    <2>3. d \div gs < int_partition_helper(f, g, gs)
      BY <2>1, PlaceInGroup
    <2>4. int_partition_helper(f, g, gs) \in Nat /\ int_partition_helper(r, g, gs) \in Nat
      BY <2>2, PartitionBounds
    <2>5. index_full_to_sub(r, gs, idx)
            = [group_id |-> g, sub_index |-> int_partition_helper(r, g, gs) + d \div gs]
      BY <1>2 DEF index_full_to_sub
    <2> HIDE DEF d, g
    <2> QED BY <2>2, <2>3, <2>4, <2>5
  <1> QED BY <1>1, <1>2

\* fec_encoder_register_buffer (fec.c:166, :170): a packet that needs n segments of at most
\* `payload`, cut evenly, again gives n segments, none of them empty or too long.
THEOREM EvenCutNeedsAll ==
    ASSUME NEW size \in Nat \ {0}, NEW payload \in Nat \ {0}
    PROVE  LET n == int_div_roundup(size, payload)
               e == int_div_roundup(size, n)
           IN  /\ e <= payload
               /\ size <= n * e
               /\ (n - 1) * e < size
  <1> DEFINE n == int_div_roundup(size, payload)
             e == int_div_roundup(size, n)
  <1>1. n \in Nat \ {0} /\ size <= n * payload /\ (n - 1) * payload < size
    BY RoundUpBounds
  <1>2. e \in Nat \ {0} /\ size <= e * n /\ (e - 1) * n < size
    BY <1>1, RoundUpBounds
  <1> HIDE DEF n, e
  <1>3. e <= payload
    BY <1>1, <1>2, SMT
  <1>4. (n - 1) * e <= (n - 1) * payload
    BY <1>1, <1>2, <1>3, SMT
  <1> QED BY <1>1, <1>2, <1>3, <1>4, SMT DEF n, e

-----------------------------------------------------------------------------
(* Congestion control *)

Times == [update : Nat, decrease : Nat, sent : Nat]
Controllers ==
    [initialized : BOOLEAN, increase : Sending!MinIncrease .. Sending!MaxIncrease, burst_mode : BOOLEAN,
     max_available : Nat, last_successful : Nat, state : {"increase", "hold", "decrease"},
     maybe_overuse : BOOLEAN]

Bounded == {"ops", "severe", "resizes", "reconnects", "losses", "faults"}

Types ==
    /\ screen \in Screens /\ ns \in Sending!Settings /\ wcc \in Controllers /\ low \in BOOLEAN
    /\ since \in Times /\ main \in {"idle", "resized", "copying"}
    /\ copied \subseteq {"video", "burst"}
    /\ settings_net \subseteq Sending!Settings /\ srv \in Sending!Settings
    /\ left \in [Bounded -> Int]

\* What the main thread has written while it installs settings, unless severe congestion came
\* in between
CopiesStarting ==
    /\ main = "copying" =>
          /\ "burst" \in copied => ns.burst \in {Sending!STARTING_BITRATE, Sending!MINIMUM_BITRATE}
          /\ "video" \in copied => ns.video \in {Sending!STARTING_BITRATE, Sending!MINIMUM_BITRATE}
    /\ main # "copying" => ns.video = 0 \/ Sending!Near(ns)

\* The bitrates are those of the same window.
SameRates ==
    /\ Sending!STARTING_BITRATE' = Sending!STARTING_BITRATE
    /\ Sending!MINIMUM_BITRATE' = Sending!MINIMUM_BITRATE

\* As long as the main thread has not installed its first settings, no time has passed.
StartsCalm ==
    main # "idle" => ~low /\ (wcc.initialized => since.update = 0 /\ since.decrease = 0)

OneWindow == left.resizes = 0 /\ left.reconnects = 0

RatesInv == Types /\ Sending!MaximumCoversSuccess /\ Sending!CongestionIsProbed

OneWindowInv == Types /\ OneWindow /\ StartsCalm /\ Sending!InsufficientAtMinimum

-----------------------------------------------------------------------------
LEMMA LargerOfTwo ==
    ASSUME NEW a \in Int, NEW b \in Int
    PROVE  Sending!Max({a, b}) = IF a >= b THEN a ELSE b
<1> DEFINE m == IF a >= b THEN a ELSE b
<1>1. m \in {a, b} /\ \A y \in {a, b} : m >= y
  OBVIOUS
<1>2. \A x \in {a, b} : (\A y \in {a, b} : x >= y) => x = m
  OBVIOUS
<1> QED BY <1>1, <1>2 DEF Sending!Max

LEMMA SmallerOfTwo ==
    ASSUME NEW a \in Int, NEW b \in Int
    PROVE  Sending!Min({a, b}) = IF a <= b THEN a ELSE b
<1> DEFINE m == IF a <= b THEN a ELSE b
<1>1. m \in {a, b} /\ \A y \in {a, b} : m <= y
  OBVIOUS
<1>2. \A x \in {a, b} : (\A y \in {a, b} : x <= y) => x = m
  OBVIOUS
<1> QED BY <1>1, <1>2 DEF Sending!Min

LEMMA Bitrates ==
    ASSUME Sending!CongestionControlAssumption, screen \in Screens
    PROVE  /\ Sending!MINIMUM_BITRATE \in Nat /\ Sending!STARTING_BITRATE \in Nat /\ Sending!MAXIMUM_BITRATE \in Nat
           /\ 0 < Sending!MINIMUM_BITRATE /\ Sending!MINIMUM_BITRATE <= Sending!STARTING_BITRATE
           /\ Sending!STARTING_BITRATE < 4 * (Sending!MINIMUM_BITRATE + 1)
           /\ Sending!STARTING_BITRATE <= Sending!MAXIMUM_BITRATE
           /\ Sending!Starting \in Sending!Settings /\ Sending!Near(Sending!Starting)
           /\ Sending!Severe \in Sending!Settings /\ Sending!Near(Sending!Severe)
<1>1. screen \in Nat /\ screen >= 2
  <2>1. Screens \subseteq Nat \ {0, 1}
    BY Zenon DEF Sending!CongestionControlAssumption
  <2> QED BY <2>1
<1>2. /\ Sending!MINIMUM_BITRATE \in Nat /\ Sending!STARTING_BITRATE \in Nat /\ Sending!MAXIMUM_BITRATE \in Nat
      /\ 0 < Sending!MINIMUM_BITRATE /\ Sending!MINIMUM_BITRATE <= Sending!STARTING_BITRATE
      /\ Sending!STARTING_BITRATE < 4 * (Sending!MINIMUM_BITRATE + 1)
      /\ Sending!STARTING_BITRATE <= Sending!MAXIMUM_BITRATE
  BY <1>1 DEF Sending!MINIMUM_BITRATE, Sending!STARTING_BITRATE, Sending!MAXIMUM_BITRATE, Sending!Bitrate
<1> QED BY <1>2 DEF Sending!Starting, Sending!Severe, Sending!Settings, Sending!Near, Sending!BURST_BITRATE_RATIO

\* What a decision for a new rate consists of
Decisions ==
    [rate : Nat, saturate : BOOLEAN, increase : Sending!MinIncrease .. Sending!MaxIncrease,
     last_successful : Nat, max_available : Nat, congestion : BOOLEAN]

LEMMA Waits ==
    ASSUME Sending!CongestionControlAssumption
    PROVE  UpdateWait \in Nat /\ StuckWait \in Nat /\ UpdateWait > 0
<1>1. {SevereWait, UpdateWait, StuckWait} \subseteq Nat /\ SevereWait < UpdateWait
  BY Zenon DEF Sending!CongestionControlAssumption
<1> QED BY <1>1

LEMMA IncreaseIsDecision ==
    ASSUME Types
    PROVE  /\ Sending!Increased \in Decisions
           /\ Sending!Increased.last_successful <= Sending!Increased.max_available
<1> DEFINE i == IF ns.saturate \/ ns.video > wcc.max_available THEN Sending!MaxIncrease ELSE wcc.increase
<1>1. ns.video \in Nat /\ i \in Nat /\ i \in Sending!MinIncrease .. Sending!MaxIncrease
  BY DEF Types, Sending!Settings, Controllers, Sending!MaxIncrease, Sending!MinIncrease
<1>2. ns.video * (200 + i) \in Nat
  BY <1>1
<1> DEFINE p == ns.video * (200 + i)
<1> HIDE DEF p
<1>3. p \div 200 \in Nat
  BY <1>2 DEF p
<1>4. Sending!Increased.rate = p \div 200
  BY DEF Sending!Increased, p
<1>5. /\ Sending!Increased.saturate \in BOOLEAN /\ Sending!Increased.increase = i
      /\ Sending!Increased.last_successful = ns.video /\ Sending!Increased.congestion \in BOOLEAN
      /\ Sending!Increased.max_available \in Nat /\ ns.video <= Sending!Increased.max_available
  BY <1>1 DEF Sending!Increased, Types, Sending!Settings, Controllers
<1>6. Sending!Increased = [rate |-> Sending!Increased.rate, saturate |-> Sending!Increased.saturate,
                   increase |-> Sending!Increased.increase, last_successful |-> Sending!Increased.last_successful,
                   max_available |-> Sending!Increased.max_available, congestion |-> Sending!Increased.congestion]
  BY DEF Sending!Increased
<1> QED BY <1>1, <1>3, <1>4, <1>5, <1>6 DEF Decisions

LEMMA DecreaseIsDecision ==
    ASSUME Sending!CongestionControlAssumption, Types, NEW i \in Sending!Inputs
    PROVE  /\ Sending!Decreased(i) \in Decisions
           /\ Sending!MaximumCoversSuccess => Sending!Decreased(i).last_successful <= Sending!Decreased(i).max_available
<1> DEFINE d == Sending!Decreased(i)
<1>1. /\ ns.video \in Nat /\ i.incoming \in Nat /\ i.loss \in 0 .. 100
      /\ wcc.increase \in Sending!MinIncrease .. Sending!MaxIncrease
      /\ wcc.max_available \in Nat /\ wcc.last_successful \in Nat
      /\ ns.saturate \in BOOLEAN
  BY DEF Types, Sending!Settings, Controllers, Sending!Inputs, Sending!CongestionControlAssumption
<1>2. Sending!LoweredMaximum \in Nat /\ (Sending!MaximumCoversSuccess => wcc.last_successful <= Sending!LoweredMaximum)
  BY <1>1 DEF Sending!LoweredMaximum, Sending!MaximumCoversSuccess
<1>3. Sending!Min({95, 100 - (i.loss \div 2)}) \in Nat
  <2>1. i.loss \div 2 \in 0 .. 50
    BY <1>1
  <2> DEFINE kept == 100 - (i.loss \div 2)
  <2>2. kept \in Nat
    BY <2>1
  <2> HIDE DEF kept
  <2>3. Sending!Min({95, kept}) \in Nat
    BY <2>2, SmallerOfTwo
  <2> QED BY <2>3 DEF kept
<1>4. (i.incoming * 95) \div 100 \in Nat
  BY <1>1
<1>5. (ns.video * Sending!Min({95, 100 - (i.loss \div 2)})) \div 100 \in Nat
  <2> DEFINE m == Sending!Min({95, 100 - (i.loss \div 2)})
             p == ns.video * m
  <2>1. m \in Nat
    BY <1>3
  <2> HIDE DEF m
  <2>2. p \in Nat
    BY <1>1, <2>1
  <2> HIDE DEF p
  <2>3. p \div 100 \in Nat
    BY <2>2
  <2> QED BY <2>3 DEF p, m
<1>6. Sending!Max({wcc.increase \div 2, Sending!MinIncrease}) \in Sending!MinIncrease .. Sending!MaxIncrease
  <2>1. wcc.increase \div 2 \in 0 .. Sending!MaxIncrease
    BY <1>1 DEF Sending!MinIncrease, Sending!MaxIncrease
  <2> QED BY <2>1, LargerOfTwo DEF Sending!MinIncrease, Sending!MaxIncrease
<1>7. d.rate \in Nat
  BY <1>4, <1>5 DEF Sending!Decreased
<1>8. d.increase \in Sending!MinIncrease .. Sending!MaxIncrease
  BY <1>1, <1>6 DEF Sending!Decreased
<1>9. /\ d.max_available = Sending!LoweredMaximum /\ d.last_successful = wcc.last_successful
      /\ d.congestion = TRUE
  BY DEF Sending!Decreased
<1>10. d.saturate \in BOOLEAN
  BY <1>1 DEF Sending!Decreased
<1>11. d = [rate |-> d.rate, max_available |-> d.max_available,
            last_successful |-> d.last_successful, saturate |-> d.saturate,
            increase |-> d.increase, congestion |-> d.congestion]
  BY DEF Sending!Decreased
<1> HIDE DEF d
<1>12. d \in Decisions
  BY <1>1, <1>2, <1>7, <1>8, <1>9, <1>10, <1>11 DEF Decisions
<1>13. Sending!MaximumCoversSuccess => d.last_successful <= d.max_available
  BY <1>2, <1>9
<1> QED BY <1>12, <1>13 DEF d

LEMMA DetectedType ==
    ASSUME Types, NEW i \in Sending!Inputs
    PROVE  /\ Sending!Detected(i) \in Controllers
           /\ Sending!Detected(i).initialized
           /\ Sending!Detected(i).max_available = wcc.max_available
           /\ Sending!Detected(i).last_successful = wcc.last_successful
<1>1. Sending!DelayState(i) \in {"increase", "hold", "decrease"}
  BY DEF Sending!DelayState, Sending!Transition, Sending!Signal, Types, Controllers
<1>2. Sending!Suspect(i) \in BOOLEAN
  BY DEF Sending!Suspect
<1> QED BY <1>1, <1>2 DEF Sending!Detected, Types, Controllers

\* Every new rate gives settings that the server may be given.
LEMMA UpdateFacts ==
    ASSUME Sending!CongestionControlAssumption, Types, NEW i \in Sending!Inputs, NEW n \in Decisions, Sending!Update(n, i)
    PROVE  /\ ns' \in Sending!Settings /\ wcc' \in Controllers /\ low' \in BOOLEAN
           /\ Sending!Near(ns') /\ (ns'.congestion => ns'.saturate)
           /\ wcc'.max_available = n.max_available /\ wcc'.last_successful = n.last_successful
           /\ low' => ns'.video = Sending!MINIMUM_BITRATE
           /\ wcc'.initialized
<1> DEFINE far == n.rate * 100 < n.max_available * 75 \/ n.max_available = 0
           rate == IF n.rate >= Sending!MINIMUM_BITRATE THEN n.rate ELSE Sending!MINIMUM_BITRATE
           burst == rate >= Sending!MAXIMUM_BITRATE
           saturate == (n.saturate \/ far) /\ ~burst
           video == IF rate <= Sending!MAXIMUM_BITRATE THEN rate ELSE Sending!MAXIMUM_BITRATE
           b == IF burst THEN video * Sending!BURST_BITRATE_RATIO ELSE video
           s == [video |-> video, burst |-> b, saturate |-> saturate, congestion |-> n.congestion]
<1>1. /\ Sending!MINIMUM_BITRATE \in Nat /\ Sending!MAXIMUM_BITRATE \in Nat
      /\ 0 < Sending!MINIMUM_BITRATE /\ Sending!MINIMUM_BITRATE <= Sending!MAXIMUM_BITRATE
  BY Bitrates DEF Types
<1>2. /\ n.rate \in Nat /\ n.max_available \in Nat /\ n.last_successful \in Nat
      /\ n.increase \in Sending!MinIncrease .. Sending!MaxIncrease
      /\ n.saturate \in BOOLEAN /\ n.congestion \in BOOLEAN
  BY DEF Decisions
<1>3. Sending!Max({n.rate, Sending!MINIMUM_BITRATE}) = rate /\ rate \in Nat
  BY <1>1, <1>2, LargerOfTwo
<1>4. Sending!Min({rate, Sending!MAXIMUM_BITRATE}) = video /\ video \in Nat
  BY <1>1, <1>3, SmallerOfTwo
<1>5. ns' = Sending!Calmed(s)
  BY <1>3, <1>4, Zenon DEF Sending!Update
<1>6. wcc' = [Sending!Detected(i) EXCEPT
                     !.increase = IF far THEN Sending!MaxIncrease ELSE n.increase,
                     !.burst_mode = burst, !.max_available = n.max_available,
                     !.last_successful = n.last_successful]
  BY <1>3, Zenon DEF Sending!Update
<1>7. low' = Sending!Insufficient(n)
  BY DEF Sending!Update
<1>8. 0 < video /\ b \in Nat /\ 0 < b /\ video < 4 * (b + 1) /\ b < 4 * (video + 1)
  BY <1>1, <1>3, <1>4 DEF Sending!BURST_BITRATE_RATIO
<1>9. low' \in BOOLEAN /\ (low' => video = Sending!MINIMUM_BITRATE)
  <2>1. low' \in BOOLEAN /\ (low' => n.rate < Sending!MINIMUM_BITRATE)
    BY <1>7, Zenon DEF Sending!Insufficient
  <2>2. n.rate < Sending!MINIMUM_BITRATE => video = Sending!MINIMUM_BITRATE
    BY <1>1, <1>2
  <2> QED BY <2>1, <2>2
<1>10. wcc' \in Controllers /\ wcc'.initialized
       /\ wcc'.max_available = n.max_available /\ wcc'.last_successful = n.last_successful
  <2>1. burst \in BOOLEAN
    OBVIOUS
  <2>2. (IF far THEN Sending!MaxIncrease ELSE n.increase) \in Sending!MinIncrease .. Sending!MaxIncrease
    BY <1>2 DEF Sending!MinIncrease, Sending!MaxIncrease
  <2> HIDE DEF burst, far
  <2> QED BY <1>2, <1>6, <2>1, <2>2, DetectedType DEF Controllers
<1>11. saturate \in BOOLEAN
  OBVIOUS
<1> HIDE DEF saturate, video, b
<1>12. /\ ns'.video = video /\ ns'.burst = b /\ ns'.saturate = saturate
       /\ ns'.congestion = (n.congestion /\ saturate)
       /\ ns' \in Sending!Settings
  BY <1>2, <1>4, <1>5, <1>8, <1>11 DEF Sending!Calmed, Sending!Settings
<1> QED BY <1>8, <1>9, <1>10, <1>11, <1>12 DEF Sending!Near, Sending!BURST_BITRATE_RATIO

-----------------------------------------------------------------------------
(* The rates *)

LEMMA TimesFacts ==
    ASSUME Types
    PROVE  /\ Sending!SentOnly \in Times /\ Sending!Restarted \in Times
           /\ Sending!SentOnly.update = since.update /\ Sending!SentOnly.decrease = since.decrease
           /\ [update |-> 0, decrease |-> 0, sent |-> 0] \in Times
           /\ [since EXCEPT !.sent = 0] = Sending!SentOnly
           /\ [since EXCEPT !.update = 0, !.decrease = 0] \in Times
           /\ [since EXCEPT !.update = 0, !.decrease = 0].update = 0
           /\ [since EXCEPT !.update = 0, !.decrease = 0].decrease = 0
  BY DEF Types, Times, Sending!SentOnly, Sending!Restarted

LEMMA SendType ==
    ASSUME Types, NEW s \in Sending!Settings, Sending!Send(s)
    PROVE  settings_net' \subseteq Sending!Settings
  BY DEF Types, Sending!Send

LEMMA SpendFacts ==
    ASSUME Types, NEW what \in Bounded, Sending!Spend(what)
    PROVE  /\ left' \in [Bounded -> Int]
           /\ \A x \in Bounded : x # what /\ x # "faults" => left'[x] = left[x]
<1>1. "faults" \in Bounded /\ left \in [Bounded -> Int]
  BY DEF Bounded, Types
<1>2. left[what] - 1 \in Int /\ left.faults - 1 \in Int
  BY <1>1
<1> DEFINE f == [left EXCEPT ![what] = left[what] - 1]
<1>3. f \in [Bounded -> Int] /\ \A x \in Bounded : x # what => f[x] = left[x]
  BY <1>1, <1>2
<1>4. left' = [f EXCEPT !.faults = left.faults - 1]
  BY DEF Sending!Spend
<1> HIDE DEF f
<1> QED BY <1>1, <1>2, <1>3, <1>4

LEMMA KeepFacts ==
    ASSUME Types, NEW i \in Sending!Inputs, Sending!KeepBandwidth(i)
    PROVE  /\ Sending!MayControl /\ wcc' = Sending!Detected(i) /\ UNCHANGED <<screen, low, main, copied, srv, left>>
           /\ ns' \in Sending!Settings /\ ns'.video = ns.video /\ ns'.burst = ns.burst
           /\ ns'.saturate => ns.saturate
           /\ ns'.congestion => ns'.saturate
           /\ \/ Sending!Send(ns') /\ since' = Sending!SentOnly
              \/ UNCHANGED <<settings_net, since>>
<1>1. /\ Sending!MayControl /\ ns' = Sending!Calmed([ns EXCEPT !.saturate = @ /\ ~Sending!GivesUp])
      /\ wcc' = Sending!Detected(i) /\ UNCHANGED <<screen, low, main, copied, srv, left>>
  BY DEF Sending!KeepBandwidth
<1>2. ns \in Sending!Settings /\ Sending!GivesUp \in BOOLEAN
  BY DEF Sending!GivesUp, Sending!Settings, Types
<1>3. /\ ns' \in Sending!Settings /\ ns'.video = ns.video /\ ns'.burst = ns.burst
      /\ ns'.saturate => ns.saturate
      /\ ns'.congestion => ns'.saturate
  BY <1>1, <1>2 DEF Sending!Calmed, Sending!Settings
<1>4. \/ Sending!Send(ns') /\ since' = Sending!SentOnly
      \/ UNCHANGED <<settings_net, since>>
  <2>1. CASE Sending!GivesUp \/ Sending!Due
    BY <2>1, TimesFacts, Zenon DEF Sending!KeepBandwidth
  <2>2. CASE ~(Sending!GivesUp \/ Sending!Due)
    BY <2>2, Zenon DEF Sending!KeepBandwidth
  <2> QED BY <2>1, <2>2
<1> QED BY <1>1, <1>3, <1>4

LEMMA NewRateFacts ==
    ASSUME Sending!CongestionControlAssumption, Types, NEW i \in Sending!Inputs,
           Sending!IncreaseBandwidth(i) \/ Sending!DecreaseBandwidth(i)
    PROVE  /\ Sending!MayControl /\ ns' \in Sending!Settings /\ Sending!Near(ns') /\ Sending!Send(ns')
           /\ since' \in Times /\ wcc' \in Controllers /\ low' \in BOOLEAN
           /\ ns'.congestion => ns'.saturate
           /\ Sending!MaximumCoversSuccess => wcc'.last_successful <= wcc'.max_available
           /\ low' => ns'.video = Sending!MINIMUM_BITRATE
           /\ since.update >= UpdateWait \/ since.decrease >= UpdateWait
           /\ UNCHANGED <<screen, main, copied, srv>> /\ left' = [left EXCEPT !.ops = @ - 1]
<1>1. CASE Sending!IncreaseBandwidth(i)
  <2>1. /\ Sending!MayControl /\ Sending!Update(Sending!Increased, i) /\ Sending!Send(ns') /\ since' \in Times
        /\ since.update >= UpdateWait
        /\ UNCHANGED <<screen, main, copied, srv>> /\ left' = [left EXCEPT !.ops = @ - 1]
    BY <1>1, TimesFacts DEF Sending!IncreaseBandwidth
  <2>2. Sending!Increased \in Decisions /\ Sending!Increased.last_successful <= Sending!Increased.max_available
    BY IncreaseIsDecision
  <2> QED BY <2>1, <2>2, UpdateFacts
<1>2. CASE Sending!DecreaseBandwidth(i)
  <2>1. /\ Sending!MayControl /\ Sending!Update(Sending!Decreased(i), i) /\ Sending!Send(ns') /\ since' \in Times
        /\ since.decrease >= UpdateWait
        /\ UNCHANGED <<screen, main, copied, srv>> /\ left' = [left EXCEPT !.ops = @ - 1]
    BY <1>2, TimesFacts DEF Sending!DecreaseBandwidth
  <2>2. /\ Sending!Decreased(i) \in Decisions
        /\ Sending!MaximumCoversSuccess => Sending!Decreased(i).last_successful <= Sending!Decreased(i).max_available
    BY DecreaseIsDecision
  <2> QED BY <2>1, <2>2, UpdateFacts
<1> QED BY <1>1, <1>2

LEMMA RatesStep ==
    ASSUME Sending!CongestionControlAssumption, RatesInv, [Sending!Next]_Sending!vars
    PROVE  RatesInv'
<1>0. Types /\ Sending!MaximumCoversSuccess /\ Sending!CongestionIsProbed /\ Sending!Starting \in Sending!Settings
      /\ Sending!Severe \in Sending!Settings
  BY Bitrates DEF RatesInv, Types
<1>1. CASE Sending!FirstGroup
  <2>1. /\ ns' = Sending!Starting /\ Sending!Send(Sending!Starting) /\ since' \in Times
        /\ UNCHANGED <<screen, wcc, low, main, copied, srv, left>>
    BY <1>0, <1>1, TimesFacts DEF Sending!FirstGroup
  <2>2. settings_net' \subseteq Sending!Settings
    BY <1>0, <2>1, SendType
  <2> QED BY <1>0, <2>1, <2>2 DEF RatesInv, Types, Sending!MaximumCoversSuccess,
     Sending!CongestionIsProbed, Sending!Starting
<1>2. CASE Sending!QuietGroup
  <2>1. /\ Sending!Send(ns) /\ since' \in Times
        /\ UNCHANGED <<screen, ns, wcc, low, main, copied, srv, left>>
    BY <1>0, <1>2, TimesFacts DEF Sending!QuietGroup
  <2>2. settings_net' \subseteq Sending!Settings
    BY <1>0, <2>1, SendType DEF Types
  <2> QED BY <1>0, <2>1, <2>2 DEF RatesInv, Types, Sending!MaximumCoversSuccess, Sending!CongestionIsProbed
<1>3. ASSUME NEW i \in Sending!Inputs, Sending!FirstControl(i) PROVE RatesInv'
  <2>1. /\ wcc' = Sending!Detected(i) /\ since' \in Times
        /\ UNCHANGED <<screen, ns, low, main, copied, settings_net, srv, left>>
    BY <1>0, <1>3, TimesFacts DEF Sending!FirstControl
  <2> QED BY <1>0, <2>1, DetectedType DEF RatesInv, Types, Sending!MaximumCoversSuccess,
     Sending!CongestionIsProbed
<1>4. ASSUME NEW i \in Sending!Inputs, Sending!IncreaseBandwidth(i) \/ Sending!DecreaseBandwidth(i) PROVE RatesInv'
  <2>1. /\ ns' \in Sending!Settings /\ Sending!Send(ns') /\ since' \in Times /\ wcc' \in Controllers /\ low' \in BOOLEAN
        /\ ns'.congestion => ns'.saturate
        /\ wcc'.last_successful <= wcc'.max_available
        /\ UNCHANGED <<screen, main, copied, srv>> /\ left' = [left EXCEPT !.ops = @ - 1]
    BY <1>0, <1>4, NewRateFacts
  <2>2. settings_net' \subseteq Sending!Settings
    BY <1>0, <2>1, SendType
  <2> QED BY <1>0, <2>1, <2>2 DEF RatesInv, Types, Sending!MaximumCoversSuccess, Sending!CongestionIsProbed
<1>5. ASSUME NEW i \in Sending!Inputs, Sending!KeepBandwidth(i) PROVE RatesInv'
  <2>1. /\ wcc' = Sending!Detected(i) /\ UNCHANGED <<screen, low, main, copied, srv, left>>
        /\ ns' \in Sending!Settings /\ (ns'.congestion => ns'.saturate)
        /\ (Sending!Send(ns') /\ since' = Sending!SentOnly) \/ UNCHANGED <<settings_net, since>>
    BY <1>0, <1>5, KeepFacts
  <2>2. settings_net' \subseteq Sending!Settings /\ since' \in Times
    BY <1>0, <2>1, SendType, TimesFacts DEF Types
  <2> QED BY <1>0, <2>1, <2>2, DetectedType DEF RatesInv, Types, Sending!MaximumCoversSuccess,
     Sending!CongestionIsProbed
<1>6. CASE Sending!SevereCongestion
  <2>1. /\ ns' = Sending!Severe /\ (\E s \in Sending!SevereSent : Sending!Send(s)) /\ since' \in Times
        /\ left' \in [Bounded -> Int]
        /\ UNCHANGED <<screen, wcc, low, main, copied, srv>>
    BY <1>0, <1>6, TimesFacts, SpendFacts DEF Sending!SevereCongestion, Bounded
  <2>2. settings_net' \subseteq Sending!Settings
    <3>1. Sending!SevereSent \subseteq Sending!Settings
      BY <1>0 DEF Sending!SevereSent, Sending!Settings, Sending!Starting, Sending!Severe
    <3> QED BY <1>0, <2>1, <3>1, SendType
  <2> QED BY <1>0, <2>1, <2>2 DEF RatesInv, Types, Sending!MaximumCoversSuccess,
     Sending!CongestionIsProbed, Sending!Severe
<1>7. ASSUME NEW s \in Screens, Sending!SetDimensions(s) PROVE RatesInv'
  BY <1>0, <1>7, SpendFacts DEF Sending!SetDimensions, Bounded, RatesInv, Types,
     Sending!MaximumCoversSuccess, Sending!CongestionIsProbed
<1>8. CASE Sending!HandleResize
  BY <1>0, <1>8 DEF Sending!HandleResize, RatesInv, Types, Sending!MaximumCoversSuccess,
     Sending!CongestionIsProbed
<1>9. ASSUME NEW part \in {"video", "burst"}, Sending!CopyPart(part) PROVE RatesInv'
  <2>1. ns' \in Sending!Settings /\ (ns'.congestion => ns'.saturate)
    BY <1>0, <1>9 DEF Sending!CopyPart, Types, Sending!Settings, Sending!Starting, Sending!CongestionIsProbed
  <2> QED BY <1>0, <1>9, <2>1 DEF Sending!CopyPart, RatesInv, Types, Sending!MaximumCoversSuccess,
     Sending!CongestionIsProbed
<1>10. CASE Sending!SendResized
  <2>1. /\ Sending!Send(ns) /\ since' \in Times /\ main' = "idle" /\ copied' = {}
        /\ UNCHANGED <<screen, ns, wcc, low, srv, left>>
    BY <1>0, <1>10, TimesFacts DEF Sending!SendResized
  <2>2. settings_net' \subseteq Sending!Settings
    BY <1>0, <2>1, SendType DEF Types
  <2> QED BY <1>0, <2>1, <2>2 DEF RatesInv, Types, Sending!MaximumCoversSuccess, Sending!CongestionIsProbed
<1>11. ASSUME NEW s \in settings_net, Sending!ReceiveSettings(s) \/ Sending!LoseSettings(s) PROVE RatesInv'
  <2>1. left' \in [Bounded -> Int]
    BY <1>0, <1>11, SpendFacts DEF Sending!ReceiveSettings, Sending!LoseSettings, Bounded, Types
  <2>2. settings_net' \subseteq Sending!Settings /\ srv' \in Sending!Settings
    BY <1>0, <1>11 DEF Sending!ReceiveSettings, Sending!LoseSettings, Types
  <2>3. UNCHANGED <<screen, ns, wcc, low, since, main, copied>>
    BY <1>11 DEF Sending!ReceiveSettings, Sending!LoseSettings
  <2> QED BY <1>0, <2>1, <2>2, <2>3 DEF RatesInv, Types, Sending!MaximumCoversSuccess,
     Sending!CongestionIsProbed
<1>12. CASE Sending!ServerStarts
  BY <1>0, <1>12 DEF Sending!ServerStarts, RatesInv, Types, Sending!MaximumCoversSuccess,
     Sending!CongestionIsProbed
<1>13. CASE Sending!Reconnect
  <2>1. Sending!NoSettings \in Sending!Settings /\ ~Sending!NoSettings.congestion /\ [since EXCEPT !.sent = 0] \in Times
    BY <1>0, TimesFacts DEF Sending!NoSettings, Sending!Settings
  <2> QED BY <1>0, <1>13, <2>1, SpendFacts DEF Sending!Reconnect, Bounded, RatesInv, Types,
     Sending!MaximumCoversSuccess, Sending!CongestionIsProbed
<1>14. CASE Sending!Tick
  <2>1. UpdateWait \in Nat /\ StuckWait \in Nat
    BY Waits
  <2>2. since.update \in Nat /\ since.decrease \in Nat /\ since.sent \in Nat
    BY <1>0 DEF Types, Times
  <2>3. since' \in Times
    BY <1>14, <2>1, <2>2, SmallerOfTwo DEF Sending!Tick, Times
  <2> QED BY <1>0, <1>14, <2>3 DEF Sending!Tick, RatesInv, Types, Sending!MaximumCoversSuccess,
     Sending!CongestionIsProbed
<1>15. CASE UNCHANGED Sending!vars
  BY <1>0, <1>15 DEF Sending!vars, RatesInv, Types, Sending!MaximumCoversSuccess, Sending!CongestionIsProbed
<1> QED BY <1>1, <1>2, <1>3, <1>4, <1>5, <1>6, <1>7, <1>8, <1>9, <1>10, <1>11, <1>12, <1>13,
           <1>14, <1>15 DEF Sending!Next, Sending!Group, Sending!MainThread

-----------------------------------------------------------------------------
(* The settings *)

LEMMA SendsNear ==
    ASSUME Sending!ServedRatesAreNear, NEW s, Sending!Near(s), Sending!Send(s)
    PROVE  \A t \in settings_net' : Sending!Near(t)
  BY DEF Sending!ServedRatesAreNear, Sending!Send, Sending!Near

LEMMA SettingsStep ==
    ASSUME Sending!CongestionControlAssumption, Types, CopiesStarting, Sending!ServedRatesAreNear, [Sending!Next]_Sending!vars
    PROVE  CopiesStarting' /\ Sending!ServedRatesAreNear'
<1>0. Sending!Near(Sending!Starting) /\ Sending!Near(Sending!Severe) /\ Sending!Near(srv) /\ \A s \in settings_net : Sending!Near(s)
  BY Bitrates DEF Types, Sending!ServedRatesAreNear, Sending!Near
<1>1. CASE Sending!FirstGroup
  <2>1. ns' = Sending!Starting /\ Sending!Send(Sending!Starting) /\ UNCHANGED <<main, srv>> /\ main # "copying"
    BY <1>1 DEF Sending!FirstGroup
  <2> QED BY <1>0, <2>1, SendsNear DEF CopiesStarting, Sending!ServedRatesAreNear, Sending!Near
<1>2. CASE Sending!QuietGroup
  <2>1. Sending!Send(ns) /\ UNCHANGED <<screen, ns, main, copied, srv>> /\ Sending!Near(ns) /\ main # "copying"
    BY <1>2 DEF Sending!QuietGroup, CopiesStarting
  <2> QED BY <1>0, <2>1, SendsNear DEF CopiesStarting, Sending!ServedRatesAreNear, Sending!Near
<1>3. ASSUME NEW i \in Sending!Inputs, Sending!FirstControl(i) PROVE CopiesStarting' /\ Sending!ServedRatesAreNear'
  <2>1. UNCHANGED <<screen, ns, main, copied, settings_net, srv>>
    BY <1>3 DEF Sending!FirstControl
  <2> QED BY <1>0, <2>1 DEF CopiesStarting, Sending!ServedRatesAreNear, Sending!Near, Sending!STARTING_BITRATE, Sending!MINIMUM_BITRATE
<1>4. ASSUME NEW i \in Sending!Inputs, Sending!IncreaseBandwidth(i) \/ Sending!DecreaseBandwidth(i)
      PROVE CopiesStarting' /\ Sending!ServedRatesAreNear'
  <2>1. Sending!Near(ns') /\ Sending!Send(ns') /\ UNCHANGED <<main, srv>> /\ main # "copying"
    BY <1>4, NewRateFacts DEF Sending!MayControl
  <2> QED BY <1>0, <2>1, SendsNear DEF CopiesStarting, Sending!ServedRatesAreNear, Sending!Near
<1>5. ASSUME NEW i \in Sending!Inputs, Sending!KeepBandwidth(i) PROVE CopiesStarting' /\ Sending!ServedRatesAreNear'
  <2>1. /\ Sending!MayControl /\ UNCHANGED <<main, srv>>
        /\ ns'.video = ns.video /\ ns'.burst = ns.burst /\ (ns'.saturate => ns.saturate)
        /\ Sending!Send(ns') \/ UNCHANGED settings_net
    BY <1>5, KeepFacts
  <2>2. Sending!Near(ns') /\ main # "copying"
    BY <2>1 DEF Sending!MayControl, CopiesStarting, Sending!Near
  <2> QED BY <1>0, <2>1, <2>2, SendsNear DEF CopiesStarting, Sending!ServedRatesAreNear, Sending!Near
<1>6. CASE Sending!SevereCongestion
  <2>1. PICK s \in Sending!SevereSent : Sending!Send(s)
    BY <1>6 DEF Sending!SevereCongestion
  <2>2. Sending!Near(s)
    BY <1>0, <2>1, Bitrates DEF Types, Sending!SevereSent, Sending!Near, Sending!Severe,
       Sending!Starting, Sending!BURST_BITRATE_RATIO
  <2>3. /\ ns' = Sending!Severe /\ UNCHANGED <<screen, main, copied, srv>>
        /\ SameRates
    BY <1>6 DEF Sending!SevereCongestion, SameRates, Sending!STARTING_BITRATE, Sending!MINIMUM_BITRATE
  <2>4. CopiesStarting'
    BY <1>0, <2>3 DEF CopiesStarting, SameRates, Sending!Severe
  <2> QED BY <1>0, <2>1, <2>2, <2>3, <2>4, SendsNear DEF Sending!ServedRatesAreNear
<1>7. ASSUME NEW s \in Screens, Sending!SetDimensions(s) PROVE CopiesStarting' /\ Sending!ServedRatesAreNear'
  BY <1>0, <1>7 DEF Sending!SetDimensions, CopiesStarting, Sending!ServedRatesAreNear, Sending!Near
<1>8. CASE Sending!HandleResize
  BY <1>0, <1>8 DEF Sending!HandleResize, CopiesStarting, Sending!ServedRatesAreNear, Sending!Near
<1>9. ASSUME NEW part \in {"video", "burst"}, Sending!CopyPart(part)
      PROVE  CopiesStarting' /\ Sending!ServedRatesAreNear'
  <2>1. /\ main = "copying" /\ copied' = copied \cup {part}
        /\ ns' = IF part = "burst" THEN [ns EXCEPT !.burst = Sending!Starting.burst]
                 ELSE [Sending!Starting EXCEPT !.burst = ns.burst]
        /\ UNCHANGED <<screen, main, settings_net, srv>> /\ SameRates
    BY <1>9 DEF Sending!CopyPart, SameRates, Sending!STARTING_BITRATE, Sending!MINIMUM_BITRATE
  <2>2. CopiesStarting'
    BY <2>1 DEF CopiesStarting, SameRates, Types, Sending!Settings, Sending!Starting
  <2> QED BY <1>0, <2>1, <2>2 DEF Sending!ServedRatesAreNear, Sending!Near
<1>10. CASE Sending!SendResized
  <2>1. /\ main = "copying" /\ copied = {"video", "burst"}
        /\ Sending!Send(ns) /\ main' = "idle" /\ UNCHANGED <<ns, srv>>
    BY <1>10 DEF Sending!SendResized
  <2>2. Sending!Near(ns)
    BY <2>1, Bitrates DEF CopiesStarting, Sending!Near, Sending!BURST_BITRATE_RATIO, Types
  <2> QED BY <1>0, <2>1, <2>2, SendsNear DEF CopiesStarting, Sending!ServedRatesAreNear, Sending!Near
<1>11. ASSUME NEW s \in settings_net, Sending!ReceiveSettings(s) \/ Sending!LoseSettings(s)
       PROVE  CopiesStarting' /\ Sending!ServedRatesAreNear'
  <2>1. /\ settings_net' = settings_net \ {s} /\ srv' \in {s, srv} /\ UNCHANGED <<screen, ns, main, copied>>
        /\ SameRates
    BY <1>11 DEF Sending!ReceiveSettings, Sending!LoseSettings, SameRates, Sending!STARTING_BITRATE, Sending!MINIMUM_BITRATE
  <2> QED BY <1>0, <2>1 DEF CopiesStarting, SameRates, Sending!ServedRatesAreNear, Sending!Near
<1>12. CASE Sending!ServerStarts
  <2>1. /\ srv' = Sending!Starting /\ UNCHANGED <<screen, ns, main, copied, settings_net>>
        /\ SameRates
    BY <1>12 DEF Sending!ServerStarts, SameRates, Sending!STARTING_BITRATE, Sending!MINIMUM_BITRATE
  <2> QED BY <1>0, <2>1 DEF CopiesStarting, SameRates, Sending!ServedRatesAreNear, Sending!Near
<1>13. CASE Sending!Reconnect
  <2>1. ns'.video = 0 /\ srv' = Sending!Starting /\ settings_net' = {} /\ main' = "resized"
    BY <1>13 DEF Sending!Reconnect, Sending!NoSettings
  <2> QED BY <1>0, <2>1 DEF CopiesStarting, Sending!ServedRatesAreNear, Sending!Near
<1>14. CASE Sending!Tick
  BY <1>0, <1>14 DEF Sending!Tick, CopiesStarting, Sending!ServedRatesAreNear, Sending!Near
<1>15. CASE UNCHANGED Sending!vars
  BY <1>0, <1>15 DEF Sending!vars, CopiesStarting, Sending!ServedRatesAreNear, Sending!Near, Sending!STARTING_BITRATE, Sending!MINIMUM_BITRATE
<1> QED BY <1>1, <1>2, <1>3, <1>4, <1>5, <1>6, <1>7, <1>8, <1>9, <1>10, <1>11, <1>12, <1>13,
           <1>14, <1>15 DEF Sending!Next, Sending!Group, Sending!MainThread

-----------------------------------------------------------------------------
(* One window *)

LEMMA OneWindowStep ==
    ASSUME Sending!CongestionControlAssumption, OneWindowInv, [Sending!Next]_Sending!vars
    PROVE  OneWindow' /\ StartsCalm' /\ Sending!InsufficientAtMinimum'
<1>0. /\ Types /\ left.resizes = 0 /\ left.reconnects = 0
      /\ low => ns.video = Sending!MINIMUM_BITRATE /\ main = "idle"
      /\ main # "idle" /\ wcc.initialized => since.update = 0 /\ since.decrease = 0
      /\ UpdateWait \in Nat /\ UpdateWait > 0 /\ Sending!MINIMUM_BITRATE > 0
  <2> QED BY Waits, Bitrates DEF OneWindowInv, OneWindow, StartsCalm, Sending!InsufficientAtMinimum,
     Types
<1> USE DEF OneWindow, StartsCalm, Sending!InsufficientAtMinimum
<1>1. CASE Sending!FirstGroup
  <2>1. /\ ns.video = 0 /\ UNCHANGED <<screen, wcc, low, main, left>>
        /\ since' = Sending!SentOnly
    BY <1>0, <1>1, TimesFacts DEF Sending!FirstGroup
  <2> QED BY <1>0, <2>1, TimesFacts
<1>2. CASE Sending!QuietGroup
  <2>1. /\ since' = Sending!SentOnly /\ UNCHANGED <<screen, ns, wcc, low, main, left>>
        /\ Sending!MINIMUM_BITRATE' = Sending!MINIMUM_BITRATE
    BY <1>0, <1>2, TimesFacts DEF Sending!QuietGroup, Sending!MINIMUM_BITRATE
  <2> QED BY <1>0, <2>1, TimesFacts
<1>3. ASSUME NEW i \in Sending!Inputs, Sending!FirstControl(i)
      PROVE  OneWindow' /\ StartsCalm' /\ Sending!InsufficientAtMinimum'
  <2>1. /\ since'.update = 0 /\ since'.decrease = 0 /\ UNCHANGED <<screen, ns, low, main, left>>
        /\ Sending!MINIMUM_BITRATE' = Sending!MINIMUM_BITRATE
    BY <1>0, <1>3, TimesFacts DEF Sending!FirstControl, Sending!MINIMUM_BITRATE
  <2> QED BY <1>0, <2>1
<1>4. ASSUME NEW i \in Sending!Inputs, Sending!IncreaseBandwidth(i) \/ Sending!DecreaseBandwidth(i)
      PROVE  OneWindow' /\ StartsCalm' /\ Sending!InsufficientAtMinimum'
  <2>1. /\ Sending!MayControl /\ (low' => ns'.video = Sending!MINIMUM_BITRATE)
        /\ since.update >= UpdateWait \/ since.decrease >= UpdateWait
        /\ UNCHANGED <<screen, main>> /\ left' = [left EXCEPT !.ops = @ - 1]
    BY <1>0, <1>4, NewRateFacts
  <2>2. main = "idle"
    BY <1>0, <2>1 DEF Sending!MayControl
  <2>3. left'.resizes = 0 /\ left'.reconnects = 0 /\ Sending!MINIMUM_BITRATE' = Sending!MINIMUM_BITRATE
    BY <1>0, <2>1 DEF Types, Bounded, Sending!MINIMUM_BITRATE
  <2> QED BY <2>1, <2>2, <2>3
<1>5. ASSUME NEW i \in Sending!Inputs, Sending!KeepBandwidth(i)
      PROVE  OneWindow' /\ StartsCalm' /\ Sending!InsufficientAtMinimum'
  <2>1. /\ Sending!MayControl /\ UNCHANGED <<screen, low, main, left>> /\ ns'.video = ns.video
        /\ since' = Sending!SentOnly \/ UNCHANGED since
        /\ Sending!MINIMUM_BITRATE' = Sending!MINIMUM_BITRATE
    BY <1>0, <1>5, KeepFacts DEF Sending!MINIMUM_BITRATE
  <2> QED BY <1>0, <2>1, TimesFacts DEF Sending!MayControl
<1>6. CASE Sending!SevereCongestion
  <2>1. /\ ns' = Sending!Severe /\ since' = Sending!Restarted /\ Sending!Spend("severe")
        /\ UNCHANGED <<screen, wcc, low, main>> /\ Sending!MINIMUM_BITRATE' = Sending!MINIMUM_BITRATE
    BY <1>6 DEF Sending!SevereCongestion, Sending!MINIMUM_BITRATE
  <2>2. ns'.video = Sending!MINIMUM_BITRATE
    BY <2>1 DEF Sending!Severe
  <2>3. since'.update = 0 /\ since'.decrease = since.decrease
    BY <1>0, <2>1 DEF Sending!Restarted, Types, Times
  <2>4. left'.resizes = 0 /\ left'.reconnects = 0
    BY <1>0, <2>1, SpendFacts DEF Bounded
  <2> QED BY <1>0, <2>1, <2>2, <2>3, <2>4
<1>7. ASSUME NEW s \in Screens, Sending!SetDimensions(s) PROVE FALSE
  BY <1>0, <1>7 DEF Sending!SetDimensions, Sending!Left
<1>8. CASE Sending!HandleResize
  <2>1. /\ main = "resized" /\ UNCHANGED <<screen, ns, wcc, low, since, left>>
        /\ Sending!MINIMUM_BITRATE' = Sending!MINIMUM_BITRATE
    BY <1>8 DEF Sending!HandleResize, Sending!MINIMUM_BITRATE
  <2> QED BY <1>0, <2>1
<1>9. ASSUME NEW part \in {"video", "burst"}, Sending!CopyPart(part)
      PROVE  OneWindow' /\ StartsCalm' /\ Sending!InsufficientAtMinimum'
  <2>1. main = "copying" /\ UNCHANGED <<screen, wcc, low, since, main, left>>
    BY <1>9 DEF Sending!CopyPart
  <2> QED BY <1>0, <2>1
<1>10. CASE Sending!SendResized
  <2>1. main = "copying" /\ main' = "idle" /\ UNCHANGED <<low, left>>
    BY <1>10 DEF Sending!SendResized
  <2> QED BY <1>0, <2>1
<1>11. ASSUME NEW s \in settings_net, Sending!ReceiveSettings(s) \/ Sending!LoseSettings(s)
       PROVE  OneWindow' /\ StartsCalm' /\ Sending!InsufficientAtMinimum'
  <2>1. UNCHANGED <<screen, ns, wcc, low, since, main>> /\ Sending!MINIMUM_BITRATE' = Sending!MINIMUM_BITRATE
    BY <1>11 DEF Sending!ReceiveSettings, Sending!LoseSettings, Sending!MINIMUM_BITRATE
  <2>2. left'.resizes = 0 /\ left'.reconnects = 0
    BY <1>0, <1>11, SpendFacts DEF Sending!ReceiveSettings, Sending!LoseSettings, Bounded
  <2> QED BY <1>0, <2>1, <2>2
<1>12. CASE Sending!ServerStarts
  <2>1. UNCHANGED <<screen, ns, wcc, low, since, main, left>> /\ Sending!MINIMUM_BITRATE' = Sending!MINIMUM_BITRATE
    BY <1>12 DEF Sending!ServerStarts, Sending!MINIMUM_BITRATE
  <2> QED BY <1>0, <2>1
<1>13. CASE Sending!Reconnect
  BY <1>0, <1>13 DEF Sending!Reconnect, Sending!Left
<1>14. CASE Sending!Tick
  <2>1. main = "idle" /\ UNCHANGED <<screen, ns, wcc, low, main, left>>
        /\ Sending!MINIMUM_BITRATE' = Sending!MINIMUM_BITRATE
    BY <1>14 DEF Sending!Tick, Sending!MINIMUM_BITRATE
  <2> QED BY <1>0, <2>1
<1>15. CASE UNCHANGED Sending!vars
  <2>1. UNCHANGED <<screen, ns, wcc, low, since, main, left>> /\ Sending!MINIMUM_BITRATE' = Sending!MINIMUM_BITRATE
    BY <1>15 DEF Sending!vars, Sending!MINIMUM_BITRATE
  <2> QED BY <1>0, <2>1
<1> QED BY <1>1, <1>2, <1>3, <1>4, <1>5, <1>6, <1>7, <1>8, <1>9, <1>10, <1>11, <1>12, <1>13,
           <1>14, <1>15 DEF Sending!Next, Sending!Group, Sending!MainThread

-----------------------------------------------------------------------------
LEMMA InitRates ==
    ASSUME Sending!CongestionControlAssumption, Sending!Init
    PROVE  /\ RatesInv /\ CopiesStarting /\ Sending!ServedRatesAreNear
           /\ MaxResizes = 0 /\ MaxConnections = 0 => OneWindow /\ StartsCalm /\ Sending!InsufficientAtMinimum
<1>1. /\ screen \in Screens /\ Sending!Starting \in Sending!Settings /\ Sending!Near(Sending!Starting) /\ Sending!NoSettings \in Sending!Settings
  BY Bitrates DEF Sending!Init, Sending!NoSettings, Sending!Settings
<1>2. wcc \in Controllers /\ since \in Times
  BY Waits DEF Sending!Init, Controllers, Times, Sending!MaxIncrease, Sending!MinIncrease
<1>3. left \in [Bounded -> Int]
  <2>1. {MaxOps, MaxSevere, MaxResizes, MaxConnections, MaxSettingsLosses, MaxFaults} \subseteq Nat
    BY DEF Sending!CongestionControlAssumption
  <2> QED BY <2>1 DEF Sending!Init, Bounded
<1>4. RatesInv
  <2>1. Types
    BY <1>1, <1>2, <1>3 DEF Sending!Init, Types
  <2>2. Sending!MaximumCoversSuccess /\ Sending!CongestionIsProbed
    BY DEF Sending!Init, Sending!MaximumCoversSuccess, Sending!CongestionIsProbed, Sending!NoSettings
  <2> QED BY <2>1, <2>2 DEF RatesInv
<1>5. CopiesStarting /\ Sending!ServedRatesAreNear
  BY <1>1 DEF Sending!Init, CopiesStarting, Sending!ServedRatesAreNear, Sending!Near, Sending!NoSettings
<1>6. MaxResizes = 0 /\ MaxConnections = 0 => OneWindow /\ StartsCalm /\ Sending!InsufficientAtMinimum
  BY DEF Sending!Init, OneWindow, StartsCalm, Sending!InsufficientAtMinimum
<1> QED BY <1>4, <1>5, <1>6

\* Whatever mixture of settings the client's two threads leave behind, severe congestion
\* signalled while the main thread installs settings included (udp.cpp:683), and however
\* settings packets are lost, overtaken and sent again, none of the server's two rates is zero
\* and they are no more than the factor of the burst mode apart: for any windows, links, losses
\* and any number of them.
THEOREM ServedRatesAreAlwaysNear ==
    Sending!CongestionControlAssumption => (Sending!Spec => []ServedRatesAreNear)
<1> SUFFICES ASSUME Sending!CongestionControlAssumption PROVE Sending!Spec => []ServedRatesAreNear
  OBVIOUS
<1> DEFINE Inv == RatesInv /\ CopiesStarting /\ Sending!ServedRatesAreNear
<1>1. Sending!Init => Inv
  BY InitRates
<1>2. Inv /\ [Sending!Next]_Sending!vars => Inv'
  <2> SUFFICES ASSUME Inv, [Sending!Next]_Sending!vars PROVE Inv'
    OBVIOUS
  <2> QED BY RatesStep, SettingsStep DEF RatesInv
<1>3. Inv => ServedRatesAreNear
  BY DEF ServedRatesAreNear
<1> QED BY <1>1, <1>2, <1>3, PTL DEF Sending!Spec

\* In one window and one connection the controller's maximum covers what succeeded, congestion
\* is marked only while bandwidth is probed, and bandwidth is called insufficient only at the
\* lowest rate (network_algorithm.c:325-439), whatever is measured, lost and signalled.
THEOREM RatesAreAlwaysSound ==
    Sending!CongestionControlAssumption /\ MaxResizes = 0 /\ MaxConnections = 0 =>
        (Sending!Spec => []RatesAreSound)
<1> SUFFICES ASSUME Sending!CongestionControlAssumption, MaxResizes = 0, MaxConnections = 0
             PROVE  Sending!Spec => []RatesAreSound
  OBVIOUS
<1> DEFINE Inv == RatesInv /\ OneWindow /\ StartsCalm /\ Sending!InsufficientAtMinimum
<1>1. Sending!Init => Inv
  BY InitRates
<1>2. Inv /\ [Sending!Next]_Sending!vars => Inv'
  <2> SUFFICES ASSUME Inv, [Sending!Next]_Sending!vars PROVE Inv'
    OBVIOUS
  <2> QED BY RatesStep, OneWindowStep DEF RatesInv, OneWindowInv
<1>3. Inv => RatesAreSound
  BY DEF RatesInv, RatesAreSound
<1> QED BY <1>1, <1>2, <1>3, PTL DEF Sending!Spec

-----------------------------------------------------------------------------
(* The keyboard *)

RightKeys == {FK_RGUI, FK_RCTRL, FK_RALT, FK_RSHIFT}
Oses == {"apple", "linux"}

Device ==
    [keyboard_state : SUBSET AllKeys, caps_lock : BOOLEAN, holding_keymap : BOOLEAN,
     currently_pressed : SUBSET AllKeys, new_key_combination : SUBSET AllKeys]

\* A Mac's right modifiers are never pressed, and only a Mac's combinations are mapped.
DeviceFits(s, system) ==
    /\ s \in Device
    /\ system = "apple" => s.keyboard_state \cap RightKeys = {}
    /\ s.holding_keymap =>
          /\ system = "apple"
          /\ <<s.currently_pressed, s.new_key_combination>> \in keyboard_mappings

\* Nothing but the device changes from s to t.
OnlyTheDevice(s, t) ==
    /\ t \in Device
    /\ t.holding_keymap = s.holding_keymap /\ t.currently_pressed = s.currently_pressed
    /\ t.new_key_combination = s.new_key_combination

\* But for the keys apart, the device shows the combination alone.
Alone(s, apart) ==
    s.holding_keymap => s.keyboard_state \ apart = s.new_key_combination \ apart

\* The keys that count as pressed.
Looks(s) == IF s.holding_keymap THEN s.currently_pressed ELSE s.keyboard_state

\* Whether a client that holds the keys `held` wants k to be down.
Wanted(system, held, k) == \E o \in held : Mapped(system, o) = k

Follows(s, system, held) ==
    \A k \in AllKeys \ {FK_CAPSLOCK} : k \in Looks(s) <=> Wanted(system, held, k)

-----------------------------------------------------------------------------
LEMMA AllKeysAre ==
    AllKeys = {FK_H, FK_Y, FK_BACKSPACE, FK_TAB, FK_CAPSLOCK, FK_DELETE, FK_RIGHT, FK_LEFT,
               FK_LCTRL, FK_LSHIFT, FK_LALT, FK_LGUI, FK_RCTRL, FK_RSHIFT, FK_RALT, FK_RGUI}
<1>1. DOMAIN KeyOrder = 1 .. 16
  BY DEF KeyOrder
<1>2. AllKeys = {KeyOrder[i] : i \in 1 .. 16}
  BY <1>1 DEF AllKeys
<1>3. 1 .. 16 = {1, 2, 3, 4, 5, 6, 7, 8, 9, 10, 11, 12, 13, 14, 15, 16}
  OBVIOUS
<1>4. /\ KeyOrder[1] = FK_H /\ KeyOrder[2] = FK_Y /\ KeyOrder[3] = FK_BACKSPACE
      /\ KeyOrder[4] = FK_TAB /\ KeyOrder[5] = FK_CAPSLOCK /\ KeyOrder[6] = FK_DELETE
      /\ KeyOrder[7] = FK_RIGHT /\ KeyOrder[8] = FK_LEFT /\ KeyOrder[9] = FK_LCTRL
      /\ KeyOrder[10] = FK_LSHIFT /\ KeyOrder[11] = FK_LALT /\ KeyOrder[12] = FK_LGUI
      /\ KeyOrder[13] = FK_RCTRL /\ KeyOrder[14] = FK_RSHIFT /\ KeyOrder[15] = FK_RALT
      /\ KeyOrder[16] = FK_RGUI
  BY DEF KeyOrder
<1> QED BY <1>2, <1>3, <1>4

\* Keys have different codes.
LEMMA KeysDiffer ==
    /\ FK_CAPSLOCK \notin RightKeys /\ FK_LCTRL \notin RightKeys /\ FK_CAPSLOCK # FK_LCTRL
    /\ RightKeys \subseteq AllKeys /\ FK_CAPSLOCK \in AllKeys /\ FK_LCTRL \in AllKeys
    /\ AllKeys \subseteq Int
<1> USE DEF FK_H, FK_Y, FK_BACKSPACE, FK_TAB, FK_CAPSLOCK, FK_DELETE, FK_RIGHT, FK_LEFT, FK_LCTRL,
        FK_LSHIFT, FK_LALT, FK_LGUI, FK_RCTRL, FK_RSHIFT, FK_RALT, FK_RGUI
<1> QED BY AllKeysAre DEF RightKeys

\* Keys are mapped to keys that are not a Mac's right modifiers, and caps lock to itself.
LEMMA MappedFacts ==
    ASSUME NEW system \in Oses, NEW o \in AllKeys
    PROVE  /\ Mapped(system, o) \in AllKeys
           /\ Mapped(system, o) = FK_CAPSLOCK <=> o = FK_CAPSLOCK
           /\ system = "apple" => Mapped(system, o) \notin RightKeys /\ Mapped(system, o) = modmap(o)
           /\ system = "apple" /\ o \notin RightKeys => Mapped(system, o) = o
           /\ system # "apple" => Mapped(system, o) = o
<1> USE DEF FK_H, FK_Y, FK_BACKSPACE, FK_TAB, FK_CAPSLOCK, FK_DELETE, FK_RIGHT, FK_LEFT, FK_LCTRL,
        FK_LSHIFT, FK_LALT, FK_LGUI, FK_RCTRL, FK_RSHIFT, FK_RALT, FK_RGUI
<1> QED BY AllKeysAre DEF Mapped, modmap, RightKeys, Oses

\* A combination and what replaces it consist of keys that are mapped to themselves; one of
\* the two has the control key.
LEMMA MappingFacts ==
    ASSUME NEW m \in keyboard_mappings
    PROVE  /\ m = <<m[1], m[2]>>
           /\ m[1] \subseteq AllKeys /\ m[2] \subseteq AllKeys
           /\ FK_CAPSLOCK \notin m[1] /\ FK_CAPSLOCK \notin m[2]
           /\ m[1] \cap RightKeys = {} /\ m[2] \cap RightKeys = {}
           /\ FK_LCTRL \in m[1] \cup m[2]
<1> USE DEF FK_H, FK_Y, FK_BACKSPACE, FK_TAB, FK_CAPSLOCK, FK_DELETE, FK_RIGHT, FK_LEFT, FK_LCTRL,
        FK_LSHIFT, FK_LALT, FK_LGUI, FK_RCTRL, FK_RSHIFT, FK_RALT, FK_RGUI
<1> QED BY AllKeysAre DEF keyboard_mappings, RightKeys

LEMMA LooksFacts ==
    ASSUME NEW system \in Oses, NEW s, DeviceFits(s, system)
    PROVE  /\ s.keyboard_state \subseteq AllKeys /\ Looks(s) \subseteq AllKeys
           /\ system = "apple" => Looks(s) \cap RightKeys = {}
           /\ s.holding_keymap => FK_CAPSLOCK \notin s.currently_pressed
           /\ s.holding_keymap => s.new_key_combination \subseteq AllKeys
           /\ s.holding_keymap => FK_CAPSLOCK \notin s.new_key_combination
           /\ s.holding_keymap => s.currently_pressed \cap RightKeys = {}
           /\ s.holding_keymap => FK_LCTRL \in s.currently_pressed \cup s.new_key_combination
<1>1. CASE s.holding_keymap
  <2> DEFINE m == <<s.currently_pressed, s.new_key_combination>>
  <2>1. m \in keyboard_mappings
    BY <1>1 DEF DeviceFits
  <2>2. m[1] = s.currently_pressed /\ m[2] = s.new_key_combination
    OBVIOUS
  <2> HIDE DEF m
  <2>3. /\ s.currently_pressed \subseteq AllKeys /\ s.new_key_combination \subseteq AllKeys
        /\ FK_CAPSLOCK \notin s.currently_pressed /\ FK_CAPSLOCK \notin s.new_key_combination
        /\ s.currently_pressed \cap RightKeys = {}
        /\ FK_LCTRL \in s.currently_pressed \cup s.new_key_combination
    BY <2>1, <2>2, MappingFacts
  <2> QED BY <1>1, <2>3 DEF DeviceFits, Device, Looks
<1>2. CASE ~s.holding_keymap
  BY <1>2 DEF DeviceFits, Device, Looks
<1> QED BY <1>1, <1>2

\* A key of the device goes down.
LEMMA EmitPress ==
    ASSUME NEW s \in Device, NEW k \in AllKeys, NEW t, t = EmitKeyEvent(s, k, TRUE)
    PROVE  /\ OnlyTheDevice(s, t) /\ t.keyboard_state = s.keyboard_state \cup {k}
           /\ k = FK_CAPSLOCK => (t.caps_lock <=> ~s.caps_lock)
<1> DEFINE set == s.keyboard_state \cup {k}
           lock == (s.caps_lock # (k = FK_CAPSLOCK))
<1>1. t = [s EXCEPT !.keyboard_state = set, !.caps_lock = lock]
  BY DEF EmitKeyEvent
<1>2. set \in SUBSET AllKeys
  BY DEF Device
<1>3. lock \in BOOLEAN
  BY Zenon
<1>4. k = FK_CAPSLOCK => (lock <=> ~s.caps_lock)
  <2> s.caps_lock \in BOOLEAN
    BY DEF Device
  <2> QED OBVIOUS
<1> HIDE DEF lock
<1>5. OnlyTheDevice(s, t) /\ t.keyboard_state = set
  BY <1>1, <1>2, <1>3 DEF Device, OnlyTheDevice
<1>6. t.caps_lock = lock
  BY <1>1, <1>3 DEF Device
<1> QED BY <1>4, <1>5, <1>6

\* A key of the device goes up.
LEMMA EmitRelease ==
    ASSUME NEW s \in Device, NEW k \in AllKeys, NEW t, t = EmitKeyEvent(s, k, FALSE)
    PROVE  /\ OnlyTheDevice(s, t) /\ t.keyboard_state = s.keyboard_state \ {k}
           /\ t.caps_lock <=> s.caps_lock
<1> DEFINE set == s.keyboard_state \ {k}
           lock == (s.caps_lock # FALSE)
<1>1. t = [s EXCEPT !.keyboard_state = set, !.caps_lock = lock]
  BY DEF EmitKeyEvent
<1>2. set \in SUBSET AllKeys
  BY DEF Device
<1>3. lock \in BOOLEAN
  BY Zenon
<1>4. lock <=> s.caps_lock
  <2> s.caps_lock \in BOOLEAN
    BY DEF Device
  <2> QED OBVIOUS
<1> HIDE DEF lock
<1>5. OnlyTheDevice(s, t) /\ t.keyboard_state = set
  BY <1>1, <1>2, <1>3 DEF Device, OnlyTheDevice
<1>6. t.caps_lock = lock
  BY <1>1, <1>3 DEF Device
<1> QED BY <1>4, <1>5, <1>6

\* One key of the device changes, without a keymap, or one of the keys apart.
LEMMA OneKeyFits ==
    ASSUME NEW system \in Oses, NEW s, DeviceFits(s, system), NEW apart, Alone(s, apart),
           NEW k \in AllKeys,
           \/ ~s.holding_keymap
           \/ k \in apart,
           system = "apple" => k \notin RightKeys,
           NEW t, OnlyTheDevice(s, t), t.keyboard_state \ {k} = s.keyboard_state \ {k}
    PROVE  /\ DeviceFits(t, system) /\ Alone(t, apart)
           /\ \A x \in AllKeys \ {k} : x \in Looks(t) <=> x \in Looks(s)
<1>1. DeviceFits(t, system)
  BY DEF DeviceFits, OnlyTheDevice
<1>2. Alone(t, apart)
  <2>1. CASE ~s.holding_keymap
    BY <2>1 DEF Alone, OnlyTheDevice
  <2>2. CASE k \in apart
    <3>1. t.keyboard_state \ apart = s.keyboard_state \ apart
      BY <2>2
    <3> QED BY <3>1 DEF Alone, OnlyTheDevice
  <2> QED BY <2>1, <2>2
<1> QED BY <1>1, <1>2 DEF Looks, OnlyTheDevice

\* A keymap is given up: the device shows again what was pressed.
LEMMA DisengagedFacts ==
    ASSUME NEW s, DeviceFits(s, "apple"), s.holding_keymap,
           NEW apart \in SUBSET {FK_CAPSLOCK, FK_LCTRL}, Alone(s, apart),
           NEW k, NEW pressed \in BOOLEAN
    PROVE  LET t == Disengaged(s, k, pressed) IN
           /\ DeviceFits(t, "apple") /\ ~t.holding_keymap
           /\ \A x \in AllKeys \ {FK_CAPSLOCK, k} : x \in t.keyboard_state <=> x \in s.currently_pressed
           /\ FK_CAPSLOCK \in t.keyboard_state <=> FK_CAPSLOCK \in s.keyboard_state
<1> DEFINE kept == IF pressed THEN s.currently_pressed ELSE s.currently_pressed \ {k}
           set == (s.keyboard_state \ s.new_key_combination) \cup kept
           t == [s EXCEPT !.keyboard_state = set, !.holding_keymap = FALSE,
                          !.currently_pressed = {}, !.new_key_combination = {}]
<1>1. Disengaged(s, k, pressed) = t
  BY DEF Disengaged
<1>2. s \in Device /\ "apple" \in Oses
  BY DEF DeviceFits, Oses
<1>3. /\ s.keyboard_state \subseteq AllKeys /\ s.currently_pressed \subseteq AllKeys
      /\ s.keyboard_state \cap RightKeys = {} /\ s.currently_pressed \cap RightKeys = {}
      /\ FK_CAPSLOCK \notin s.currently_pressed /\ FK_CAPSLOCK \notin s.new_key_combination
      /\ FK_LCTRL \in s.currently_pressed \cup s.new_key_combination
  BY <1>2, LooksFacts DEF DeviceFits, Device
<1>4. kept \subseteq s.currently_pressed /\ s.currently_pressed \subseteq kept \cup {k}
  OBVIOUS
<1>5. set \in SUBSET AllKeys /\ set \cap RightKeys = {}
  BY <1>3, <1>4
<1>6. s.keyboard_state \ apart = s.new_key_combination \ apart
  BY DEF Alone
<1>7. \A x \in AllKeys \ {FK_CAPSLOCK, k} : x \in set <=> x \in s.currently_pressed
  BY <1>3, <1>4, <1>6
<1>8. FK_CAPSLOCK \in set <=> FK_CAPSLOCK \in s.keyboard_state
  BY <1>3, <1>4
<1> HIDE DEF set, kept
<1>9. t \in Device /\ t.keyboard_state = set /\ t.holding_keymap = FALSE
  BY <1>2, <1>5 DEF Device
<1> HIDE DEF t
<1>10. DeviceFits(t, "apple") /\ ~t.holding_keymap
  BY <1>5, <1>9 DEF DeviceFits
<1> QED BY <1>1, <1>7, <1>8, <1>9, <1>10

\* A key is pressed by itself, or engages a keymap, behind which it counts as pressed.
LEMMA PressMappedFacts ==
    ASSUME NEW s, DeviceFits(s, "apple"), ~s.holding_keymap, NEW apart,
           NEW k \in AllKeys \ RightKeys, k # FK_CAPSLOCK,
           NEW t, t = PressMapped(s, k)
    PROVE  /\ DeviceFits(t, "apple") /\ Alone(t, apart)
           /\ Looks(t) = s.keyboard_state \cup {k}
           /\ FK_CAPSLOCK \in t.keyboard_state <=> FK_CAPSLOCK \in s.keyboard_state
<1> DEFINE held == s.keyboard_state \cup {k}
           new == {m \in keyboard_mappings : m[1] = held}
<1>0. "apple" \in Oses /\ s \in Device /\ k \in AllKeys /\ k \notin RightKeys
  BY DEF Oses, DeviceFits
<1>1. CASE new = {}
  <2>1. t = EmitKeyEvent(s, k, TRUE)
    BY <1>1 DEF PressMapped
  <2>2. OnlyTheDevice(s, t) /\ t.keyboard_state = held
    BY <1>0, <2>1, EmitPress
  <2>3. Alone(s, apart) /\ t.keyboard_state \ {k} = s.keyboard_state \ {k}
    BY <2>2 DEF Alone
  <2>4. DeviceFits(t, "apple") /\ Alone(t, apart)
    BY <1>0, <2>2, <2>3, OneKeyFits
  <2>5. ~t.holding_keymap
    BY <2>2 DEF OnlyTheDevice
  <2> QED BY <2>2, <2>4, <2>5 DEF Looks
<1>2. CASE new # {}
  <2> DEFINE m == CHOOSE m \in new : TRUE
             u == [s EXCEPT !.keyboard_state = m[2], !.holding_keymap = TRUE,
                            !.currently_pressed = held, !.new_key_combination = m[2]]
  <2>1. m \in new
    BY <1>2
  <2>2. t = u
    BY <1>2 DEF PressMapped
  <2> HIDE DEF m
  <2>3. m \in keyboard_mappings /\ m[1] = held
    BY <2>1
  <2>4. /\ m = <<m[1], m[2]>> /\ m[2] \subseteq AllKeys /\ m[2] \cap RightKeys = {}
        /\ held \subseteq AllKeys /\ FK_CAPSLOCK \notin held /\ FK_CAPSLOCK \notin m[2]
    BY <2>3, MappingFacts
  <2>5. /\ u \in Device /\ u.keyboard_state = m[2] /\ u.holding_keymap = TRUE
        /\ u.currently_pressed = held /\ u.new_key_combination = m[2]
    BY <1>0, <2>4 DEF Device
  <2> HIDE DEF u
  <2>6. <<u.currently_pressed, u.new_key_combination>> \in keyboard_mappings
    BY <2>3, <2>4, <2>5
  <2>7. DeviceFits(u, "apple") /\ Alone(u, apart)
    BY <2>4, <2>5, <2>6 DEF DeviceFits, Alone
  <2> QED BY <2>2, <2>4, <2>5, <2>7 DEF Looks
<1> QED BY <1>1, <1>2

\* A client's key is pressed: it counts as pressed, and no other key is touched.
LEMMA EmitMappedPress ==
    ASSUME NEW system \in Oses, NEW s, DeviceFits(s, system),
           NEW apart \in SUBSET {FK_CAPSLOCK, FK_LCTRL}, FK_CAPSLOCK \in apart, Alone(s, apart),
           NEW code \in AllKeys,
           NEW t, t = EmitMappedKeyEvent(s, system, code, TRUE)
    PROVE  /\ DeviceFits(t, system) /\ Alone(t, apart)
           /\ \A x \in AllKeys \ {FK_CAPSLOCK, Mapped(system, code)} : x \in Looks(t) <=> x \in Looks(s)
           /\ code # FK_CAPSLOCK =>
                 /\ Mapped(system, code) \in Looks(t)
                 /\ FK_CAPSLOCK \in t.keyboard_state <=> FK_CAPSLOCK \in s.keyboard_state
           /\ code = FK_CAPSLOCK => OnlyTheDevice(s, t) /\ FK_CAPSLOCK \in t.keyboard_state
<1> DEFINE k == Mapped(system, code)
<1>0. s \in Device /\ FK_CAPSLOCK \in AllKeys
  BY KeysDiffer DEF DeviceFits
<1>1. /\ k \in AllKeys /\ (k = FK_CAPSLOCK <=> code = FK_CAPSLOCK)
      /\ system = "apple" => k \notin RightKeys /\ k = modmap(code)
      /\ system # "apple" => k = code
  BY MappedFacts
<1> HIDE DEF k
<1>2. CASE code = FK_CAPSLOCK \/ system # "apple"
  <2>1. t = EmitKeyEvent(s, code, TRUE)
    BY <1>2 DEF EmitMappedKeyEvent
  <2>2. k = code
    BY <1>1, <1>2
  <2>3. OnlyTheDevice(s, t) /\ t.keyboard_state = s.keyboard_state \cup {k}
    BY <1>0, <2>1, <2>2, EmitPress
  <2>4. /\ ~s.holding_keymap \/ k \in apart
        /\ k \in AllKeys /\ (system = "apple" => k \notin RightKeys)
    BY <1>1, <1>2, <2>2 DEF DeviceFits
  <2>5. t.keyboard_state \ {k} = s.keyboard_state \ {k}
    BY <2>3
  <2>6. /\ DeviceFits(t, system) /\ Alone(t, apart)
        /\ \A x \in AllKeys \ {k} : x \in Looks(t) <=> x \in Looks(s)
    <3>1. OnlyTheDevice(s, t)
      BY <2>3
    <3> QED BY <2>4, <2>5, <3>1, OneKeyFits
  <2>7. code # FK_CAPSLOCK => k \in Looks(t)
    <3> HAVE code # FK_CAPSLOCK
    <3>1. ~t.holding_keymap
      BY <1>2, <2>6 DEF DeviceFits
    <3> QED BY <2>3, <3>1 DEF Looks
  <2>8. code # FK_CAPSLOCK => (FK_CAPSLOCK \in t.keyboard_state <=> FK_CAPSLOCK \in s.keyboard_state)
    BY <2>2, <2>3
  <2> QED BY <2>2, <2>3, <2>6, <2>7, <2>8 DEF k
<1>3. CASE code # FK_CAPSLOCK /\ system = "apple" /\ s.holding_keymap /\ k \in s.currently_pressed
  <2>1. (k \in s.currently_pressed) = TRUE
    BY <1>3
  <2>2. t = s
    BY <1>1, <1>3, <2>1 DEF EmitMappedKeyEvent
  <2> QED BY <1>3, <2>2 DEF Looks, k
<1>4. CASE code # FK_CAPSLOCK /\ system = "apple" /\ s.holding_keymap /\ k \notin s.currently_pressed
  <2> DEFINE u == Disengaged(s, k, TRUE)
  <2>1. (k \in s.currently_pressed) # TRUE
    BY <1>4
  <2>2. t = PressMapped(u, k)
    BY <1>1, <1>4, <2>1 DEF EmitMappedKeyEvent
  <2>3. /\ DeviceFits(u, "apple") /\ ~u.holding_keymap
        /\ \A x \in AllKeys \ {FK_CAPSLOCK, k} : x \in u.keyboard_state <=> x \in s.currently_pressed
        /\ FK_CAPSLOCK \in u.keyboard_state <=> FK_CAPSLOCK \in s.keyboard_state
    BY <1>4, DisengagedFacts
  <2> HIDE DEF u
  <2>4. /\ DeviceFits(t, "apple") /\ Alone(t, apart)
        /\ Looks(t) = u.keyboard_state \cup {k}
        /\ FK_CAPSLOCK \in t.keyboard_state <=> FK_CAPSLOCK \in u.keyboard_state
    BY <1>1, <1>4, <2>2, <2>3, PressMappedFacts
  <2> QED BY <1>4, <2>3, <2>4 DEF Looks, k
<1>5. CASE code # FK_CAPSLOCK /\ system = "apple" /\ ~s.holding_keymap
  <2>1. t = PressMapped(s, k)
    BY <1>1, <1>5 DEF EmitMappedKeyEvent
  <2>2. /\ DeviceFits(t, "apple") /\ Alone(t, apart)
        /\ Looks(t) = s.keyboard_state \cup {k}
        /\ FK_CAPSLOCK \in t.keyboard_state <=> FK_CAPSLOCK \in s.keyboard_state
    BY <1>1, <1>5, <2>1, PressMappedFacts
  <2> QED BY <1>5, <2>2 DEF Looks, k
<1> QED BY <1>2, <1>3, <1>4, <1>5

\* A client's key is released: it counts as released, and no other key is touched.
LEMMA EmitMappedRelease ==
    ASSUME NEW system \in Oses, NEW s, DeviceFits(s, system),
           NEW apart \in SUBSET {FK_CAPSLOCK, FK_LCTRL}, FK_CAPSLOCK \in apart, Alone(s, apart),
           NEW code \in AllKeys,
           NEW t, t = EmitMappedKeyEvent(s, system, code, FALSE)
    PROVE  /\ DeviceFits(t, system) /\ Alone(t, apart)
           /\ \A x \in AllKeys \ {FK_CAPSLOCK, Mapped(system, code)} : x \in Looks(t) <=> x \in Looks(s)
           /\ code # FK_CAPSLOCK =>
                 /\ Mapped(system, code) \notin Looks(t)
                 /\ FK_CAPSLOCK \in t.keyboard_state <=> FK_CAPSLOCK \in s.keyboard_state
           /\ code = FK_CAPSLOCK => OnlyTheDevice(s, t) /\ FK_CAPSLOCK \notin t.keyboard_state
<1> DEFINE k == Mapped(system, code)
<1>0. s \in Device /\ FK_CAPSLOCK \in AllKeys
  BY KeysDiffer DEF DeviceFits
<1>1. /\ k \in AllKeys /\ (k = FK_CAPSLOCK <=> code = FK_CAPSLOCK)
      /\ system = "apple" => k \notin RightKeys /\ k = modmap(code)
      /\ system # "apple" => k = code
  BY MappedFacts
<1> HIDE DEF k
<1>2. CASE code = FK_CAPSLOCK \/ system # "apple"
  <2>1. t = EmitKeyEvent(s, code, FALSE)
    BY <1>2 DEF EmitMappedKeyEvent
  <2>2. k = code
    BY <1>1, <1>2
  <2>3. OnlyTheDevice(s, t) /\ t.keyboard_state = s.keyboard_state \ {k}
    BY <1>0, <2>1, <2>2, EmitRelease
  <2>4. /\ ~s.holding_keymap \/ k \in apart
        /\ k \in AllKeys /\ (system = "apple" => k \notin RightKeys)
    BY <1>1, <1>2, <2>2 DEF DeviceFits
  <2>5. t.keyboard_state \ {k} = s.keyboard_state \ {k}
    BY <2>3
  <2>6. /\ DeviceFits(t, system) /\ Alone(t, apart)
        /\ \A x \in AllKeys \ {k} : x \in Looks(t) <=> x \in Looks(s)
    <3>1. OnlyTheDevice(s, t)
      BY <2>3
    <3> QED BY <2>4, <2>5, <3>1, OneKeyFits
  <2>7. code # FK_CAPSLOCK => k \notin Looks(t)
    <3> HAVE code # FK_CAPSLOCK
    <3>1. ~t.holding_keymap
      BY <1>2, <2>6 DEF DeviceFits
    <3> QED BY <2>3, <3>1 DEF Looks
  <2>8. code # FK_CAPSLOCK => (FK_CAPSLOCK \in t.keyboard_state <=> FK_CAPSLOCK \in s.keyboard_state)
    BY <2>2, <2>3
  <2> QED BY <2>2, <2>3, <2>6, <2>7, <2>8 DEF k
<1>3. CASE code # FK_CAPSLOCK /\ system = "apple" /\ s.holding_keymap /\ k \notin s.currently_pressed
  <2>1. (k \in s.currently_pressed) = FALSE
    BY <1>3
  <2>2. t = s
    BY <1>1, <1>3, <2>1 DEF EmitMappedKeyEvent
  <2> QED BY <1>3, <2>2 DEF Looks, k
<1>4. CASE code # FK_CAPSLOCK /\ system = "apple" /\ s.holding_keymap /\ k \in s.currently_pressed
  <2> DEFINE u == Disengaged(s, k, FALSE)
  <2>1. (k \in s.currently_pressed) # FALSE
    BY <1>4
  <2>2. t = EmitKeyEvent(u, k, FALSE)
    BY <1>1, <1>4, <2>1 DEF EmitMappedKeyEvent
  <2>3. /\ DeviceFits(u, "apple") /\ ~u.holding_keymap
        /\ \A x \in AllKeys \ {FK_CAPSLOCK, k} : x \in u.keyboard_state <=> x \in s.currently_pressed
        /\ FK_CAPSLOCK \in u.keyboard_state <=> FK_CAPSLOCK \in s.keyboard_state
    BY <1>4, DisengagedFacts
  <2> HIDE DEF u
  <2>4. u \in Device
    BY <2>3 DEF DeviceFits
  <2>5. OnlyTheDevice(u, t) /\ t.keyboard_state = u.keyboard_state \ {k}
    BY <1>1, <2>4, <2>2, EmitRelease
  <2>6. t.keyboard_state \ {k} = u.keyboard_state \ {k} /\ Alone(u, apart)
    BY <2>3, <2>5 DEF Alone
  <2>7. ~t.holding_keymap
    BY <2>3, <2>5 DEF OnlyTheDevice
  <2>8. /\ DeviceFits(t, "apple") /\ Alone(t, apart)
        /\ Looks(t) = u.keyboard_state \ {k}
        /\ FK_CAPSLOCK \in t.keyboard_state <=> FK_CAPSLOCK \in u.keyboard_state
    BY <1>1, <1>4, <2>3, <2>5, <2>6, <2>7, OneKeyFits DEF Looks
  <2> QED BY <1>4, <2>3, <2>8 DEF Looks, k
<1>5. CASE code # FK_CAPSLOCK /\ system = "apple" /\ ~s.holding_keymap
  <2>1. t = EmitKeyEvent(s, k, FALSE)
    BY <1>1, <1>5 DEF EmitMappedKeyEvent
  <2>2. OnlyTheDevice(s, t) /\ t.keyboard_state = s.keyboard_state \ {k}
    BY <1>1, <1>0, <2>1, EmitRelease
  <2>3. t.keyboard_state \ {k} = s.keyboard_state \ {k} /\ Alone(s, apart)
    BY <1>5, <2>2 DEF Alone
  <2>4. ~t.holding_keymap
    BY <1>5, <2>2 DEF OnlyTheDevice
  <2>5. /\ DeviceFits(t, "apple") /\ Alone(t, apart)
        /\ Looks(t) = s.keyboard_state \ {k}
        /\ FK_CAPSLOCK \in t.keyboard_state <=> FK_CAPSLOCK \in s.keyboard_state
    BY <1>1, <1>5, <2>2, <2>3, <2>4, OneKeyFits DEF Looks
  <2> QED BY <1>5, <2>5 DEF Looks, k
<1> QED BY <1>2, <1>3, <1>4, <1>5

\* Of the keys that are mapped to one, there is a last one.
LEMMA LastOriginIsOne ==
    ASSUME NEW system \in Oses, NEW k, NEW origins, origins = {o \in AllKeys : Mapped(system, o) = k},
           origins # {}
    PROVE  Max(origins) \in origins
<1>1. \A x, y, z \in AllKeys :
          Mapped(system, x) = Mapped(system, y) /\ Mapped(system, y) = Mapped(system, z)
          => x = y \/ y = z \/ x = z
  BY AllKeysAre DEF Mapped, modmap, FK_H, FK_Y, FK_BACKSPACE, FK_TAB, FK_CAPSLOCK, FK_DELETE, FK_RIGHT,
     FK_LEFT, FK_LCTRL, FK_LSHIFT, FK_LALT, FK_LGUI, FK_RCTRL, FK_RSHIFT, FK_RALT, FK_RGUI
<1>2. origins \subseteq Int
  BY KeysDiffer
<1>3. PICK x \in origins : TRUE
  OBVIOUS
<1>4. \E y \in origins : \A z \in origins : y >= z
  <2>1. CASE \A z \in origins : x >= z
    BY <1>3, <2>1
  <2>2. CASE \E y \in origins : ~(x >= y)
    <3>1. PICK y \in origins : ~(x >= y)
      BY <2>2
    <3>2. ASSUME NEW z \in origins PROVE y >= z
      <4>1. x = y \/ y = z \/ x = z
        BY <1>1, <1>3, <3>1
      <4> QED BY <1>2, <1>3, <3>1, <4>1
    <3> QED BY <3>2
  <2> QED BY <2>1, <2>2
<1> QED BY <1>4 DEF Max

\* One key is brought to what the client has.
LEMMA SyncKeyFacts ==
    ASSUME NEW system \in Oses, NEW s, DeviceFits(s, system),
           NEW apart \in SUBSET {FK_CAPSLOCK, FK_LCTRL}, FK_CAPSLOCK \in apart, Alone(s, apart),
           NEW state, state.keys \subseteq AllKeys, NEW k \in AllKeys,
           NEW t, t = SyncKey(s, system, state, k)
    PROVE  /\ DeviceFits(t, system) /\ Alone(t, apart)
           /\ \A x \in AllKeys \ {FK_CAPSLOCK, k} : x \in Looks(t) <=> x \in Looks(s)
           /\ k # FK_CAPSLOCK =>
                 /\ FK_CAPSLOCK \in t.keyboard_state <=> FK_CAPSLOCK \in s.keyboard_state
                 /\ ~(k = FK_LCTRL /\ state.pinch) =>
                       (k \in Looks(t) <=> Wanted(system, state.keys, k))
                 /\ (k \in Looks(s) <=> Wanted(system, state.keys, k)) => t = s
           /\ k = FK_CAPSLOCK =>
                 /\ t.holding_keymap = s.holding_keymap
                 /\ ~s.holding_keymap =>
                       (FK_CAPSLOCK \in t.keyboard_state <=> FK_CAPSLOCK \in state.keys)
<1> DEFINE origins == {o \in AllKeys : Mapped(system, o) = k}
           down == origins \cap state.keys # {}
           code == Max(origins)
<1>1. down <=> Wanted(system, state.keys, k)
  BY DEF Wanted
<1>2. IsPressed(s, k) <=> k \in Looks(s)
  BY DEF IsPressed, Looks
<1>3. origins = {} => k \notin Looks(s) /\ ~Wanted(system, state.keys, k) /\ k # FK_CAPSLOCK
  <2> HAVE origins = {}
  <2>1. Mapped(system, k) # k
    OBVIOUS
  <2>2. system = "apple" /\ k \in RightKeys
    BY <2>1, MappedFacts
  <2>3. k \notin Looks(s)
    BY <2>2, LooksFacts
  <2> QED BY <1>1, <2>2, <2>3, KeysDiffer
<1>4. origins # {} => code \in AllKeys /\ Mapped(system, code) = k /\ (code = FK_CAPSLOCK <=> k = FK_CAPSLOCK)
  <2> HAVE origins # {}
  <2>1. code \in origins
    BY LastOriginIsOne
  <2>2. code \in AllKeys /\ Mapped(system, code) = k
    BY <2>1
  <2> QED BY <2>2, MappedFacts
<1>5. k = FK_CAPSLOCK => (down <=> FK_CAPSLOCK \in state.keys)
  <2> HAVE k = FK_CAPSLOCK
  <2>1. \A o \in AllKeys : Mapped(system, o) = k <=> o = FK_CAPSLOCK
    BY MappedFacts
  <2>2. origins = {FK_CAPSLOCK}
    BY <2>1, KeysDiffer
  <2> QED BY <2>2
<1>6. k = FK_CAPSLOCK /\ ~s.holding_keymap => (IsPressed(s, k) <=> FK_CAPSLOCK \in s.keyboard_state)
  BY DEF IsPressed
<1>7. CASE origins = {} \/ (k = FK_LCTRL /\ state.pinch) \/ (down <=> IsPressed(s, k))
  <2>1. t = s
    BY <1>7 DEF SyncKey, IsPressed
  <2>2. k # FK_CAPSLOCK /\ ~(k = FK_LCTRL /\ state.pinch) =>
            (k \in Looks(t) <=> Wanted(system, state.keys, k))
    BY <1>1, <1>2, <1>3, <1>7, <2>1
  <2>3. k = FK_CAPSLOCK /\ ~s.holding_keymap =>
            (FK_CAPSLOCK \in t.keyboard_state <=> FK_CAPSLOCK \in state.keys)
    BY <1>3, <1>5, <1>6, <1>7, <2>1, KeysDiffer
  <2> QED BY <2>1, <2>2, <2>3
<1>8. CASE origins # {} /\ ~(k = FK_LCTRL /\ state.pinch) /\ down /\ ~IsPressed(s, k)
  <2>0. code \in AllKeys /\ Mapped(system, code) = k
    BY <1>4, <1>8
  <2>1. t = EmitMappedKeyEvent(s, system, code, TRUE)
    BY <1>8 DEF SyncKey
  <2> HIDE DEF origins, down, code
  <2>2. /\ DeviceFits(t, system) /\ Alone(t, apart)
        /\ \A x \in AllKeys \ {FK_CAPSLOCK, k} : x \in Looks(t) <=> x \in Looks(s)
        /\ code # FK_CAPSLOCK =>
                 /\ k \in Looks(t)
                 /\ FK_CAPSLOCK \in t.keyboard_state <=> FK_CAPSLOCK \in s.keyboard_state
        /\ code = FK_CAPSLOCK => OnlyTheDevice(s, t) /\ FK_CAPSLOCK \in t.keyboard_state
    BY <2>0, <2>1, EmitMappedPress
  <2> QED BY <1>1, <1>2, <1>4, <1>5, <1>8, <2>2 DEF OnlyTheDevice
<1>9. CASE origins # {} /\ ~(k = FK_LCTRL /\ state.pinch) /\ ~down /\ IsPressed(s, k)
  <2>0. code \in AllKeys /\ Mapped(system, code) = k
    BY <1>4, <1>9
  <2>1. t = EmitMappedKeyEvent(s, system, code, FALSE)
    BY <1>9 DEF SyncKey
  <2> HIDE DEF origins, down, code
  <2>2. /\ DeviceFits(t, system) /\ Alone(t, apart)
        /\ \A x \in AllKeys \ {FK_CAPSLOCK, k} : x \in Looks(t) <=> x \in Looks(s)
        /\ code # FK_CAPSLOCK =>
                 /\ k \notin Looks(t)
                 /\ FK_CAPSLOCK \in t.keyboard_state <=> FK_CAPSLOCK \in s.keyboard_state
        /\ code = FK_CAPSLOCK => OnlyTheDevice(s, t) /\ FK_CAPSLOCK \notin t.keyboard_state
    BY <2>0, <2>1, EmitMappedRelease
  <2> QED BY <1>1, <1>2, <1>4, <1>5, <1>9, <2>2 DEF OnlyTheDevice
<1> QED BY <1>7, <1>8, <1>9

\* The loop over the keys, as the states it goes through.
LEMMA SyncLoopFacts ==
    ASSUME NEW system, NEW s, NEW state
    PROVE  \E after :
              /\ after[0] = s
              /\ \A i \in 1 .. 16 : after[i] = SyncKey(after[i - 1], system, state, KeyOrder[i])
              /\ UpdateMappedKeyboardState(s, system, state) = SyncCaps(after[16], state)
<1> DEFINE v1 == SyncKey(s, system, state, KeyOrder[1])
           v2 == SyncKey(v1, system, state, KeyOrder[2])
           v3 == SyncKey(v2, system, state, KeyOrder[3])
           v4 == SyncKey(v3, system, state, KeyOrder[4])
           v5 == SyncKey(v4, system, state, KeyOrder[5])
           v6 == SyncKey(v5, system, state, KeyOrder[6])
           v7 == SyncKey(v6, system, state, KeyOrder[7])
           v8 == SyncKey(v7, system, state, KeyOrder[8])
           v9 == SyncKey(v8, system, state, KeyOrder[9])
           v10 == SyncKey(v9, system, state, KeyOrder[10])
           v11 == SyncKey(v10, system, state, KeyOrder[11])
           v12 == SyncKey(v11, system, state, KeyOrder[12])
           v13 == SyncKey(v12, system, state, KeyOrder[13])
           v14 == SyncKey(v13, system, state, KeyOrder[14])
           v15 == SyncKey(v14, system, state, KeyOrder[15])
           v16 == SyncKey(v15, system, state, KeyOrder[16])
           v == <<v1, v2, v3, v4, v5, v6, v7, v8, 
                  v9, v10, v11, v12, v13, v14, v15, v16>>
           steps == [i \in 0 .. Len(KeyOrder) |-> IF i = 0 THEN s ELSE v[i]]
           after[i \in 0 .. Len(KeyOrder)] ==
               IF i = 0 THEN s ELSE SyncKey(after[i - 1], system, state, KeyOrder[i])
<1>1. Len(KeyOrder) = 16
  BY DEF KeyOrder
<1>2. UpdateMappedKeyboardState(s, system, state) = SyncCaps(after[16], state)
  BY <1>1 DEF UpdateMappedKeyboardState
<1>3. \A i \in 1 .. 16 : v[i] = SyncKey(IF i = 1 THEN s ELSE v[i - 1], system, state, KeyOrder[i])
  <2>1. v[1] = SyncKey(s, system, state, KeyOrder[1])
    OBVIOUS
  <2>2. v[2] = SyncKey(v[1], system, state, KeyOrder[2])
    OBVIOUS
  <2>3. v[3] = SyncKey(v[2], system, state, KeyOrder[3])
    OBVIOUS
  <2>4. v[4] = SyncKey(v[3], system, state, KeyOrder[4])
    OBVIOUS
  <2>5. v[5] = SyncKey(v[4], system, state, KeyOrder[5])
    OBVIOUS
  <2>6. v[6] = SyncKey(v[5], system, state, KeyOrder[6])
    OBVIOUS
  <2>7. v[7] = SyncKey(v[6], system, state, KeyOrder[7])
    OBVIOUS
  <2>8. v[8] = SyncKey(v[7], system, state, KeyOrder[8])
    OBVIOUS
  <2>9. v[9] = SyncKey(v[8], system, state, KeyOrder[9])
    OBVIOUS
  <2>10. v[10] = SyncKey(v[9], system, state, KeyOrder[10])
    OBVIOUS
  <2>11. v[11] = SyncKey(v[10], system, state, KeyOrder[11])
    OBVIOUS
  <2>12. v[12] = SyncKey(v[11], system, state, KeyOrder[12])
    OBVIOUS
  <2>13. v[13] = SyncKey(v[12], system, state, KeyOrder[13])
    OBVIOUS
  <2>14. v[14] = SyncKey(v[13], system, state, KeyOrder[14])
    OBVIOUS
  <2>15. v[15] = SyncKey(v[14], system, state, KeyOrder[15])
    OBVIOUS
  <2>16. v[16] = SyncKey(v[15], system, state, KeyOrder[16])
    OBVIOUS
  <2> HIDE DEF v
  <2> QED BY <2>1, <2>2, <2>3, <2>4, <2>5, <2>6, <2>7, <2>8, <2>9, <2>10, <2>11, <2>12, <2>13, <2>14, <2>15, <2>16
<1> HIDE DEF v
<1>4. steps = [i \in 0 .. Len(KeyOrder) |->
                  IF i = 0 THEN s ELSE SyncKey(steps[i - 1], system, state, KeyOrder[i])]
  <2>1. ASSUME NEW i \in 1 .. 16
        PROVE  steps[i] = SyncKey(steps[i - 1], system, state, KeyOrder[i])
    <3>1. steps[i] = v[i] /\ i - 1 \in 0 .. 16 /\ steps[i - 1] = IF i = 1 THEN s ELSE v[i - 1]
      BY <1>1
    <3> QED BY <1>3, <3>1
  <2> QED BY <1>1, <2>1
<1> HIDE DEF steps
<1>5. after = [i \in 0 .. Len(KeyOrder) |->
                  IF i = 0 THEN s ELSE SyncKey(after[i - 1], system, state, KeyOrder[i])]
  BY <1>4, Zenon
<1> HIDE DEF after
<1>6. after[0] = s /\ \A i \in 1 .. 16 : after[i] = SyncKey(after[i - 1], system, state, KeyOrder[i])
  BY <1>1, <1>5
<1> QED BY <1>2, <1>6

\* Caps lock is brought to what the client has.
LEMMA SyncCapsFacts ==
    ASSUME NEW system \in Oses, NEW s, DeviceFits(s, system),
           NEW apart, FK_CAPSLOCK \in apart, Alone(s, apart),
           NEW state, state.caps \in BOOLEAN,
           NEW t, t = SyncCaps(s, state)
    PROVE  /\ DeviceFits(t, system) /\ Alone(t, apart)
           /\ t.holding_keymap = s.holding_keymap
           /\ \A x \in AllKeys \ {FK_CAPSLOCK} : x \in Looks(t) <=> x \in Looks(s)
           /\ t.caps_lock <=> state.caps
           /\ (FK_CAPSLOCK \in s.keyboard_state <=> FK_CAPSLOCK \in state.keys) =>
                 (FK_CAPSLOCK \in t.keyboard_state <=> FK_CAPSLOCK \in state.keys)
<1>1. s \in Device /\ s.caps_lock \in BOOLEAN /\ FK_CAPSLOCK \in AllKeys /\ FK_CAPSLOCK \notin RightKeys
  BY KeysDiffer DEF DeviceFits, Device
<1>2. CASE s.caps_lock <=> state.caps
  <2>1. s.caps_lock = state.caps
    BY <1>1, <1>2
  <2>2. t = s
    BY <2>1 DEF SyncCaps
  <2> QED BY <1>2, <2>2
<1>3. CASE s.caps_lock <=> ~state.caps
  <2>1. s.caps_lock # state.caps
    BY <1>1, <1>3
  <2>2. \E u :
           /\ OnlyTheDevice(u, t) /\ OnlyTheDevice(s, u)
           /\ u.keyboard_state \ {FK_CAPSLOCK} = s.keyboard_state \ {FK_CAPSLOCK}
           /\ t.keyboard_state \ {FK_CAPSLOCK} = u.keyboard_state \ {FK_CAPSLOCK}
           /\ t.caps_lock <=> ~s.caps_lock
           /\ FK_CAPSLOCK \in t.keyboard_state <=> FK_CAPSLOCK \in state.keys
    <3>1. CASE FK_CAPSLOCK \in state.keys
      <4> DEFINE u == EmitKeyEvent(s, FK_CAPSLOCK, FALSE)
      <4>1. t = EmitKeyEvent(u, FK_CAPSLOCK, TRUE)
        BY <2>1, <3>1 DEF SyncCaps
      <4>2. /\ OnlyTheDevice(s, u) /\ u.keyboard_state = s.keyboard_state \ {FK_CAPSLOCK}
            /\ u.caps_lock <=> s.caps_lock
        BY <1>1, EmitRelease
      <4> HIDE DEF u
      <4>3. u \in Device
        BY <4>2 DEF OnlyTheDevice
      <4>4. /\ OnlyTheDevice(u, t) /\ t.keyboard_state = u.keyboard_state \cup {FK_CAPSLOCK}
            /\ t.caps_lock <=> ~u.caps_lock
        BY <1>1, <4>1, <4>3, EmitPress
      <4>5. /\ u.keyboard_state \ {FK_CAPSLOCK} = s.keyboard_state \ {FK_CAPSLOCK}
            /\ t.keyboard_state \ {FK_CAPSLOCK} = u.keyboard_state \ {FK_CAPSLOCK}
        BY <4>2, <4>4
      <4> QED BY <3>1, <4>2, <4>4, <4>5
    <3>2. CASE FK_CAPSLOCK \notin state.keys
      <4> DEFINE u == EmitKeyEvent(s, FK_CAPSLOCK, TRUE)
      <4>1. t = EmitKeyEvent(u, FK_CAPSLOCK, FALSE)
        BY <2>1, <3>2 DEF SyncCaps
      <4>2. /\ OnlyTheDevice(s, u) /\ u.keyboard_state = s.keyboard_state \cup {FK_CAPSLOCK}
            /\ u.caps_lock <=> ~s.caps_lock
        BY <1>1, EmitPress
      <4> HIDE DEF u
      <4>3. u \in Device
        BY <4>2 DEF OnlyTheDevice
      <4>4. /\ OnlyTheDevice(u, t) /\ t.keyboard_state = u.keyboard_state \ {FK_CAPSLOCK}
            /\ t.caps_lock <=> u.caps_lock
        BY <1>1, <4>1, <4>3, EmitRelease
      <4>5. /\ u.keyboard_state \ {FK_CAPSLOCK} = s.keyboard_state \ {FK_CAPSLOCK}
            /\ t.keyboard_state \ {FK_CAPSLOCK} = u.keyboard_state \ {FK_CAPSLOCK}
        BY <4>2, <4>4
      <4> QED BY <3>2, <4>2, <4>4, <4>5
    <3> QED BY <3>1, <3>2
  <2>3. OnlyTheDevice(s, t) /\ t.keyboard_state \ {FK_CAPSLOCK} = s.keyboard_state \ {FK_CAPSLOCK}
    BY <2>2 DEF OnlyTheDevice
  <2>4. /\ DeviceFits(t, system) /\ Alone(t, apart)
        /\ \A x \in AllKeys \ {FK_CAPSLOCK} : x \in Looks(t) <=> x \in Looks(s)
    BY <1>1, <2>3, OneKeyFits
  <2> QED BY <1>3, <2>2, <2>3, <2>4 DEF OnlyTheDevice
<1> QED BY <1>1, <1>2, <1>3

\* A snapshot brings the keys to what the client has.  Caps lock's own key follows if the
\* others did before, unless a keymap is held.
LEMMA SnapshotFacts ==
    ASSUME NEW system \in Oses, NEW s, DeviceFits(s, system),
           NEW apart \in SUBSET {FK_CAPSLOCK, FK_LCTRL}, FK_CAPSLOCK \in apart, Alone(s, apart),
           NEW state, state.keys \subseteq AllKeys, state.caps \in BOOLEAN,
           NEW t, t = UpdateMappedKeyboardState(s, system, state)
    PROVE  /\ DeviceFits(t, system) /\ Alone(t, apart)
           /\ t.caps_lock <=> state.caps
           /\ ~state.pinch => Follows(t, system, state.keys)
           /\ ~state.pinch /\ Follows(s, system, state.keys) /\ ~t.holding_keymap =>
                 (FK_CAPSLOCK \in t.keyboard_state <=> FK_CAPSLOCK \in state.keys)
<1>1. PICK after :
         /\ after[0] = s
         /\ \A i \in 1 .. 16 : after[i] = SyncKey(after[i - 1], system, state, KeyOrder[i])
         /\ t = SyncCaps(after[16], state)
  BY SyncLoopFacts
<1>2. /\ \A i \in 1 .. 16 : KeyOrder[i] \in AllKeys
      /\ \A k \in AllKeys : \E i \in 1 .. 16 : KeyOrder[i] = k
      /\ KeyOrder[5] = FK_CAPSLOCK
      /\ \A i \in 1 .. 16 : KeyOrder[i] = FK_CAPSLOCK => i = 5
  <2>1. DOMAIN KeyOrder = 1 .. 16
    BY DEF KeyOrder
  <2>2. KeyOrder[5] = FK_CAPSLOCK /\ \A i \in 1 .. 16 : KeyOrder[i] = FK_CAPSLOCK => i = 5
    BY DEF KeyOrder, FK_H, FK_Y, FK_BACKSPACE, FK_TAB, FK_CAPSLOCK, FK_DELETE, FK_RIGHT,
     FK_LEFT, FK_LCTRL, FK_LSHIFT, FK_LALT, FK_LGUI, FK_RCTRL, FK_RSHIFT, FK_RALT, FK_RGUI
  <2> QED BY <2>1, <2>2 DEF AllKeys
<1>3. ASSUME NEW i \in 1 .. 16, DeviceFits(after[i - 1], system), Alone(after[i - 1], apart)
      PROVE  LET u == after[i]  k == KeyOrder[i] IN
             /\ DeviceFits(u, system) /\ Alone(u, apart)
             /\ \A x \in AllKeys \ {FK_CAPSLOCK, k} : x \in Looks(u) <=> x \in Looks(after[i - 1])
             /\ k # FK_CAPSLOCK =>
                   /\ FK_CAPSLOCK \in u.keyboard_state <=> FK_CAPSLOCK \in after[i - 1].keyboard_state
                   /\ ~state.pinch => (k \in Looks(u) <=> Wanted(system, state.keys, k))
                   /\ (k \in Looks(after[i - 1]) <=> Wanted(system, state.keys, k)) => u = after[i - 1]
             /\ k = FK_CAPSLOCK =>
                   /\ u.holding_keymap = after[i - 1].holding_keymap
                   /\ ~after[i - 1].holding_keymap =>
                         (FK_CAPSLOCK \in u.keyboard_state <=> FK_CAPSLOCK \in state.keys)
  <2>1. after[i] = SyncKey(after[i - 1], system, state, KeyOrder[i]) /\ KeyOrder[i] \in AllKeys
    BY <1>1, <1>2
  <2> QED BY <1>3, <2>1, SyncKeyFacts
<1> DEFINE good == {i \in 0 .. 16 :
               /\ DeviceFits(after[i], system) /\ Alone(after[i], apart)
               /\ ~state.pinch => \A j \in 1 .. i : KeyOrder[j] # FK_CAPSLOCK =>
                     (KeyOrder[j] \in Looks(after[i]) <=> Wanted(system, state.keys, KeyOrder[j]))}
<1>4. 0 \in good
  BY <1>1
<1>5. ASSUME NEW i \in 0 .. 15, i \in good PROVE i + 1 \in good
  <2>1. i + 1 \in 1 .. 16 /\ (i + 1) - 1 = i /\ DeviceFits(after[i], system) /\ Alone(after[i], apart)
    BY <1>5
  <2>2. LET u == after[i + 1]  k == KeyOrder[i + 1] IN
        /\ DeviceFits(u, system) /\ Alone(u, apart)
        /\ \A x \in AllKeys \ {FK_CAPSLOCK, k} : x \in Looks(u) <=> x \in Looks(after[i])
        /\ k # FK_CAPSLOCK /\ ~state.pinch => (k \in Looks(u) <=> Wanted(system, state.keys, k))
    BY <1>3, <2>1
  <2>3. ASSUME ~state.pinch, NEW j \in 1 .. i + 1, KeyOrder[j] # FK_CAPSLOCK
        PROVE  KeyOrder[j] \in Looks(after[i + 1]) <=> Wanted(system, state.keys, KeyOrder[j])
    <3>1. CASE KeyOrder[j] = KeyOrder[i + 1]
      BY <2>2, <2>3, <3>1
    <3>2. CASE KeyOrder[j] # KeyOrder[i + 1]
      <4>1. j \in 1 .. i /\ j \in 1 .. 16
        BY <3>2
      <4>2. KeyOrder[j] \in Looks(after[i]) <=> Wanted(system, state.keys, KeyOrder[j])
        BY <1>5, <2>3, <4>1
      <4> QED BY <1>2, <2>2, <2>3, <3>2, <4>1, <4>2
    <3> QED BY <3>1, <3>2
  <2> QED BY <2>1, <2>2, <2>3
<1>6. 16 \in good
  <2> HIDE DEF good
  <2> QED BY <1>4, <1>5
<1>7. DeviceFits(after[16], system) /\ Alone(after[16], apart)
  BY <1>6
<1>8. ~state.pinch => Follows(after[16], system, state.keys)
  BY <1>2, <1>6 DEF Follows
<1> DEFINE still == {i \in good :
               /\ after[i].holding_keymap = s.holding_keymap
               /\ \A x \in AllKeys \ {FK_CAPSLOCK} : x \in Looks(after[i]) <=> x \in Looks(s)
               /\ i >= 5 /\ ~s.holding_keymap =>
                     (FK_CAPSLOCK \in after[i].keyboard_state <=> FK_CAPSLOCK \in state.keys)}
<1>9. Follows(s, system, state.keys) => 16 \in still
  <2> HAVE Follows(s, system, state.keys)
  <2>1. 0 \in still
    BY <1>1, <1>4
  <2>2. ASSUME NEW i \in 0 .. 15, i \in still PROVE i + 1 \in still
    <3>1. i \in good /\ i + 1 \in good
      BY <1>5, <2>2
    <3>2. i + 1 \in 1 .. 16 /\ (i + 1) - 1 = i /\ DeviceFits(after[i], system) /\ Alone(after[i], apart)
      BY <3>1
    <3> HIDE DEF good
    <3> DEFINE u == after[i + 1]
               k == KeyOrder[i + 1]
    <3>3. /\ \A x \in AllKeys \ {FK_CAPSLOCK, k} : x \in Looks(u) <=> x \in Looks(after[i])
          /\ k # FK_CAPSLOCK /\ (k \in Looks(after[i]) <=> Wanted(system, state.keys, k)) => u = after[i]
          /\ k = FK_CAPSLOCK =>
                /\ u.holding_keymap = after[i].holding_keymap
                /\ ~after[i].holding_keymap =>
                      (FK_CAPSLOCK \in u.keyboard_state <=> FK_CAPSLOCK \in state.keys)
      BY <1>3, <3>2
    <3>4. k \in AllKeys /\ (k = FK_CAPSLOCK <=> i + 1 = 5)
      BY <1>2, <3>2
    <3>5. CASE k = FK_CAPSLOCK
      BY <2>2, <3>1, <3>3, <3>4, <3>5
    <3>6. CASE k # FK_CAPSLOCK
      <4>1. k \in Looks(after[i]) <=> Wanted(system, state.keys, k)
        BY <2>2, <3>4, <3>6 DEF Follows
      <4>2. u = after[i] /\ (i + 1 >= 5 => i >= 5)
        BY <3>3, <3>4, <3>6, <4>1
      <4> QED BY <2>2, <3>1, <4>2
    <3> QED BY <3>5, <3>6
  <2> HIDE DEF still
  <2> QED BY <2>1, <2>2
<1>10. /\ DeviceFits(t, system) /\ Alone(t, apart)
       /\ t.holding_keymap = after[16].holding_keymap
       /\ \A x \in AllKeys \ {FK_CAPSLOCK} : x \in Looks(t) <=> x \in Looks(after[16])
       /\ t.caps_lock <=> state.caps
       /\ (FK_CAPSLOCK \in after[16].keyboard_state <=> FK_CAPSLOCK \in state.keys) =>
              (FK_CAPSLOCK \in t.keyboard_state <=> FK_CAPSLOCK \in state.keys)
  BY <1>1, <1>7, SyncCapsFacts
<1>11. ~state.pinch => Follows(t, system, state.keys)
  BY <1>8, <1>10 DEF Follows
<1>12. Follows(s, system, state.keys) /\ ~t.holding_keymap =>
          (FK_CAPSLOCK \in t.keyboard_state <=> FK_CAPSLOCK \in state.keys)
  BY <1>9, <1>10
<1> QED BY <1>10, <1>11, <1>12

-----------------------------------------------------------------------------
Counts == [events : Nat, pinches : Nat, races : Nat, connects : Nat]

KeysTyped == InputTypeOK /\ events \in Seq(Event) /\ count \in Counts

Apart == {FK_CAPSLOCK} \cup (IF count.pinches = 0 THEN {} ELSE {FK_LCTRL})

\* A keymap stands alone on a device that fits the client.
DeviceInv == DeviceFits(input, input_os_type) /\ Alone(input, Apart)

\* Without a pinch there is no gesture.
GesturesCounted ==
    count.pinches = 0 =>
        /\ \A i \in 1 .. Len(events) : events[i].kind # "gesture"
        /\ \A m \in net : m.body.kind # "gesture"

Settling == [kind |-> "state", keys |-> keys, caps |-> caps, pinch |-> FALSE]

\* Nothing but snapshots of the present keyboard follows the settled one.
SnapshotsSettle ==
    /\ \A m \in net : m.id <= newest
    /\ settled # 0 =>
          /\ events = <<>> /\ ~active_pinch /\ settled <= newest
          /\ \A m \in net : m.id >= settled => m.body = Settling
    /\ repaired # 0 => settled # 0 /\ last_input_fcmsg_id >= settled

\* What one settled snapshot repairs, and what the second one does.
ClientFollowed ==
    /\ repaired # 0 => (input.caps_lock <=> caps) /\ Follows(input, input_os_type, keys)
    /\ repaired = 2 /\ ~input.holding_keymap =>
          (FK_CAPSLOCK \in input.keyboard_state <=> FK_CAPSLOCK \in keys)

KeyboardInv == KeysTyped /\ DeviceInv /\ GesturesCounted /\ SnapshotsSettle /\ ClientFollowed

\* The device is not touched, and no snapshot has settled.
LEMMA UntouchedStep ==
    ASSUME KeyboardInv, KeysTyped', GesturesCounted', input' = input, input_os_type' = input_os_type,
           count'.pinches >= count.pinches, settled' = 0, repaired' = 0,
           \A m \in net' : m.id <= newest'
    PROVE  KeyboardInv'
<1>1. Alone(input, Apart)'
  <2>1. Apart \subseteq Apart'
    BY DEF KeyboardInv, KeysTyped, Counts, Apart
  <2> QED BY <2>1 DEF KeyboardInv, DeviceInv, Alone
<1>2. DeviceInv'
  BY <1>1 DEF KeyboardInv, DeviceInv
<1>3. SnapshotsSettle' /\ ClientFollowed'
  BY DEF SnapshotsSettle, ClientFollowed
<1> QED BY <1>2, <1>3 DEF KeyboardInv

\* The user has done something.
LEMMA OccursStep ==
    ASSUME KeyboardAssumption, KeyboardInv, NEW e \in Event, Occurs(e), keys' \in SUBSET Keys, caps' \in BOOLEAN,
           count' \in Counts, count'.pinches >= count.pinches,
           e.kind = "gesture" => count'.pinches # 0
    PROVE  KeyboardInv'
<1>1. /\ events \in Seq(Event) /\ count \in Counts /\ InputTypeOK
      /\ events' = Append(events, e) /\ settled' = 0 /\ repaired' = 0 /\ net' = net
      /\ input' = input /\ input_os_type' = input_os_type /\ newest' = newest
      /\ UNCHANGED <<active_pinch, wcmsg_id, other, last_input_fcmsg_id>>
  BY DEF KeyboardInv, KeysTyped, Occurs
<1>2. /\ events' \in Seq(Event) /\ Len(events') = Len(events) + 1 /\ Len(events) \in Nat
      /\ \A i \in 1 .. Len(events) : events'[i] = events[i]
      /\ events'[Len(events) + 1] = e
  BY <1>1
<1>3. KeysTyped'
  <2>1. 0 \in 0 .. MaxMessage
    BY DEF KeyboardAssumption
  <2>2. \A i \in DOMAIN events' : events'[i] \in Event
    BY <1>2
  <2> QED BY <1>1, <1>2, <2>1, <2>2 DEF KeysTyped, InputTypeOK
<1>4. GesturesCounted'
  <2> SUFFICES ASSUME count'.pinches = 0
               PROVE  /\ \A i \in 1 .. Len(events') : events'[i].kind # "gesture"
                      /\ \A m \in net' : m.body.kind # "gesture"
    BY DEF GesturesCounted
  <2>1. count.pinches = 0
    BY <1>1 DEF Counts
  <2>2. /\ \A i \in 1 .. Len(events) : events[i].kind # "gesture"
        /\ \A m \in net : m.body.kind # "gesture"
    BY <2>1 DEF KeyboardInv, GesturesCounted
  <2>3. e.kind # "gesture"
    OBVIOUS
  <2>4. ASSUME NEW i \in 1 .. Len(events') PROVE events'[i].kind # "gesture"
    <3>1. i \in 1 .. Len(events) \/ i = Len(events) + 1
      BY <1>2
    <3> QED BY <1>2, <2>2, <2>3, <3>1
  <2> QED BY <1>1, <2>2, <2>4
<1>5. \A m \in net' : m.id <= newest'
  BY <1>1 DEF KeyboardInv, SnapshotsSettle
<1> QED BY <1>1, <1>3, <1>4, <1>5, UntouchedStep

LEMMA PressKeyStep == ASSUME KeyboardAssumption, KeyboardInv, NEW k \in Keys, PressKey(k) PROVE KeyboardInv'
<1> DEFINE e == [kind |-> "key", key |-> k, pressed |-> TRUE]
<1>1. e \in Event /\ e.kind # "gesture"
  BY DEF Event
<1>2. keys \subseteq Keys /\ count \in Counts
  BY DEF KeyboardInv, KeysTyped, InputTypeOK
<1>3. Occurs(e) /\ keys' \in SUBSET Keys /\ count' = [count EXCEPT !.events = @ + 1]
  BY <1>2 DEF PressKey
<1>4. caps' \in BOOLEAN
  BY Zenon DEF PressKey
<1>5. count' \in Counts /\ count'.pinches >= count.pinches
  BY <1>2, <1>3 DEF Counts
<1> HIDE DEF e
<1> QED BY <1>1, <1>3, <1>4, <1>5, OccursStep

LEMMA ReleaseKeyStep == ASSUME KeyboardAssumption, KeyboardInv, NEW k \in Keys, ReleaseKey(k) PROVE KeyboardInv'
<1> DEFINE e == [kind |-> "key", key |-> k, pressed |-> FALSE]
<1>1. e \in Event /\ e.kind # "gesture"
  BY DEF Event
<1>2. keys \subseteq Keys /\ count \in Counts /\ caps \in BOOLEAN
  BY DEF KeyboardInv, KeysTyped, InputTypeOK
<1>3. Occurs(e) /\ keys' \in SUBSET Keys /\ count' = [count EXCEPT !.events = @ + 1] /\ caps' \in BOOLEAN
  BY <1>2 DEF ReleaseKey
<1>4. count' \in Counts /\ count'.pinches >= count.pinches
  BY <1>2, <1>3 DEF Counts
<1> HIDE DEF e
<1> QED BY <1>1, <1>3, <1>4, OccursStep

LEMMA PinchStep == ASSUME KeyboardAssumption, KeyboardInv, NEW lifted \in BOOLEAN, Pinch(lifted) PROVE KeyboardInv'
<1> DEFINE e == [kind |-> "gesture", active |-> FALSE, cancel |-> lifted]
<1>1. e \in Event
  BY DEF Event
<1>2. keys \subseteq Keys /\ count \in Counts /\ caps \in BOOLEAN
  BY DEF KeyboardInv, KeysTyped, InputTypeOK
<1>3. /\ Occurs(e) /\ keys' \in SUBSET Keys /\ caps' \in BOOLEAN
      /\ count' = [count EXCEPT !.events = @ + 1, !.pinches = @ + 1]
  BY <1>2 DEF Pinch
<1>4. count' \in Counts /\ count'.pinches = count.pinches + 1 /\ count.pinches \in Nat
  <2> DEFINE c == [count EXCEPT !.events = @ + 1]
  <2>1. c \in Counts /\ c.pinches = count.pinches /\ count.pinches \in Nat
    BY <1>2 DEF Counts
  <2>2. count' = [c EXCEPT !.pinches = @ + 1]
    BY <1>3, <2>1
  <2> HIDE DEF c
  <2> QED BY <2>1, <2>2 DEF Counts
<1> HIDE DEF e
<1> QED BY <1>1, <1>3, <1>4, OccursStep

\* What a message is sent under, and what it does to the messages under way.
LEMMA SendWcmsgFacts ==
    ASSUME KeyboardAssumption, KeyboardInv, NEW body \in Event \cup Snapshot, SendWcmsg(body)
    PROVE  /\ wcmsg_id \in 0 .. MaxMessage /\ newest \in 0 .. MaxMessage /\ MaxMessage \in Nat
           /\ wcmsg_id' \in 0 .. MaxMessage /\ other' \in -1 .. MaxMessage /\ newest' \in 0 .. MaxMessage
           /\ newest' >= newest /\ newest' >= wcmsg_id
           /\ \A m \in net' : m.id \in 0 .. MaxMessage /\ m.body \in Event \cup Snapshot
           /\ \A m \in net' : m.id <= newest'
           /\ \A m \in net' : m \in net \/ (m.id = wcmsg_id /\ m.body = body)
<1>1. /\ wcmsg_id \in 0 .. MaxMessage /\ newest \in 0 .. MaxMessage /\ other \in -1 .. MaxMessage /\ MaxMessage \in Nat
      /\ \A m \in net : m.id \in 0 .. MaxMessage /\ m.body \in Event \cup Snapshot
      /\ \A m \in net : m.id <= newest
  BY DEF KeyboardAssumption, KeyboardInv, KeysTyped, InputTypeOK, SnapshotsSettle
<1>2. /\ newest' \in 0 .. MaxMessage /\ newest' >= newest /\ newest' >= wcmsg_id
      /\ wcmsg_id' \in 0 .. MaxMessage /\ other' \in -1 .. MaxMessage
  BY <1>1 DEF SendWcmsg
<1>3. \A m \in net' : m \in net \/ (m.id = wcmsg_id /\ m.body = body)
  BY DEF SendWcmsg
<1> QED BY <1>1, <1>2, <1>3

LEMMA HandleFrontendEventStep == ASSUME KeyboardAssumption, KeyboardInv, HandleFrontendEvent PROVE KeyboardInv'
<1> DEFINE e == Head(events)
           body == Sent(e)
<1>1. /\ events \in Seq(Event) /\ events # <<>> /\ count \in Counts /\ InputTypeOK
      /\ active_pinch \in BOOLEAN
  BY DEF KeyboardInv, KeysTyped, InputTypeOK, HandleFrontendEvent
<1>2. e \in Event /\ e = events[1] /\ 1 \in 1 .. Len(events)
  BY <1>1
<1>3. /\ events' \in Seq(Event) /\ \A i \in 1 .. Len(events') : events'[i] = events[i + 1] /\ i + 1 \in 1 .. Len(events)
      /\ SendWcmsg(body)
      /\ active_pinch' = IF e.kind = "key" THEN active_pinch ELSE ~e.cancel
      /\ UNCHANGED <<keys, caps, input, input_os_type, last_input_fcmsg_id, settled, repaired, count>>
  BY <1>1 DEF HandleFrontendEvent
<1> HIDE DEF e
<1>4. body \in Event /\ (e.kind # "gesture" => body.kind # "gesture")
  <2>1. CASE e \in [kind : {"key"}, key : Keys, pressed : BOOLEAN]
    BY <2>1 DEF Sent, Event
  <2>2. CASE e \in [kind : {"gesture"}, active : BOOLEAN, cancel : BOOLEAN]
    <3> DEFINE c == (e.cancel /\ active_pinch)
    <3>1. c \in BOOLEAN /\ e.kind = "gesture"
      BY <2>2
    <3> HIDE DEF c
    <3>2. [e EXCEPT !.active = active_pinch, !.cancel = c] \in [kind : {"gesture"}, active : BOOLEAN, cancel : BOOLEAN]
      BY <1>1, <2>2, <3>1
    <3>3. body = [e EXCEPT !.active = active_pinch, !.cancel = c]
      BY <3>1 DEF Sent, c
    <3> QED BY <3>1, <3>2, <3>3 DEF Event
  <2> QED BY <1>2, <2>1, <2>2 DEF Event
<1>5. active_pinch' \in BOOLEAN
  <2>1. CASE e.kind = "key"
    BY <1>1, <1>3, <2>1
  <2>2. CASE e.kind # "key"
    BY <1>3, <2>2
  <2> QED BY <2>1, <2>2
<1> HIDE DEF body
<1>6. /\ wcmsg_id' \in 0 .. MaxMessage /\ other' \in -1 .. MaxMessage /\ newest' \in 0 .. MaxMessage
      /\ \A m \in net' : m.id \in 0 .. MaxMessage /\ m.body \in Event \cup Snapshot
      /\ \A m \in net' : m.id <= newest'
      /\ \A m \in net' : m \in net \/ (m.id = wcmsg_id /\ m.body = body)
  BY <1>3, <1>4, SendWcmsgFacts
<1>7. KeysTyped'
  <2>1. \A i \in DOMAIN events' : events'[i] \in Event
    BY <1>3
  <2> QED BY <1>1, <1>3, <1>5, <1>6, <2>1 DEF KeysTyped, InputTypeOK
<1>8. settled = 0 /\ repaired = 0
  BY <1>1 DEF KeyboardInv, SnapshotsSettle
<1>9. GesturesCounted'
  <2> SUFFICES ASSUME count'.pinches = 0
               PROVE  /\ \A i \in 1 .. Len(events') : events'[i].kind # "gesture"
                      /\ \A m \in net' : m.body.kind # "gesture"
    BY DEF GesturesCounted
  <2>1. /\ \A i \in 1 .. Len(events) : events[i].kind # "gesture"
        /\ \A m \in net : m.body.kind # "gesture"
    BY <1>3 DEF KeyboardInv, GesturesCounted
  <2>2. body.kind # "gesture"
    BY <1>2, <1>4, <2>1
  <2> QED BY <1>3, <1>6, <2>1, <2>2
<1>10. count'.pinches >= count.pinches
  BY <1>1, <1>3 DEF Counts
<1> QED BY <1>3, <1>6, <1>7, <1>8, <1>9, <1>10, UntouchedStep

LEMMA SyncKeyboardStateStep == ASSUME KeyboardAssumption, KeyboardInv, SyncKeyboardState PROVE KeyboardInv'
<1> DEFINE body == [kind |-> "state", keys |-> keys, caps |-> caps, pinch |-> active_pinch]
<1>1. /\ InputTypeOK /\ keys \subseteq Keys /\ caps \in BOOLEAN /\ active_pinch \in BOOLEAN
      /\ settled \in 0 .. MaxMessage
  BY DEF KeyboardInv, KeysTyped, InputTypeOK
<1>2. body \in Snapshot /\ body.kind # "gesture"
  BY <1>1 DEF Snapshot
<1>3. ~active_pinch => body = Settling
  <2> HAVE ~active_pinch
  <2>1. active_pinch = FALSE
    BY <1>1
  <2> QED BY <2>1 DEF Settling
<1>4. /\ SendWcmsg(body)
      /\ settled' = IF settled = 0 /\ events = <<>> /\ ~active_pinch /\ wcmsg_id > newest
                    THEN wcmsg_id ELSE settled
      /\ UNCHANGED <<client, input, input_os_type, last_input_fcmsg_id, repaired, count>>
  BY DEF SyncKeyboardState
<1> HIDE DEF body
<1>5. /\ wcmsg_id \in 0 .. MaxMessage /\ newest \in 0 .. MaxMessage
      /\ wcmsg_id' \in 0 .. MaxMessage /\ other' \in -1 .. MaxMessage /\ newest' \in 0 .. MaxMessage
      /\ newest' >= newest /\ newest' >= wcmsg_id
      /\ \A m \in net' : m.id \in 0 .. MaxMessage /\ m.body \in Event \cup Snapshot
      /\ \A m \in net' : m.id <= newest'
      /\ \A m \in net' : m \in net \/ (m.id = wcmsg_id /\ m.body = body)
  BY <1>2, <1>4, SendWcmsgFacts
<1>6. KeysTyped'
  <2>1. settled' \in 0 .. MaxMessage
    BY <1>1, <1>4, <1>5
  <2> QED BY <1>4, <1>5, <2>1 DEF KeyboardInv, KeysTyped, InputTypeOK, client
<1>7. DeviceInv' /\ Settling' = Settling
  BY <1>4 DEF KeyboardInv, DeviceInv, Apart, Settling, client
<1>8. GesturesCounted'
  BY <1>2, <1>4, <1>5 DEF KeyboardInv, GesturesCounted, client
<1>9. SnapshotsSettle'
  <2> USE DEF KeyboardInv, SnapshotsSettle
  <2>1. CASE settled = 0 /\ events = <<>> /\ ~active_pinch /\ wcmsg_id > newest
    <3>1. settled' = wcmsg_id /\ repaired' = 0 /\ events' = <<>> /\ ~active_pinch'
      BY <1>4, <2>1 DEF client
    <3>2. ASSUME NEW m \in net', m.id >= settled' PROVE m.body = Settling'
      <4>1. m \notin net
        BY <1>5, <2>1, <3>1, <3>2
      <4> QED BY <1>3, <1>5, <1>7, <2>1, <4>1
    <3> QED BY <1>5, <3>1, <3>2
  <2>2. CASE settled # 0
    <3>1. settled' = settled /\ events' = <<>> /\ ~active_pinch' /\ settled' <= newest'
      BY <1>1, <1>4, <1>5, <2>2 DEF client
    <3>2. \A m \in net' : m.id >= settled' => m.body = Settling'
      BY <1>3, <1>5, <1>7, <2>2, <3>1
    <3>3. repaired' # 0 => settled' # 0 /\ last_input_fcmsg_id' >= settled'
      BY <1>4, <3>1
    <3> QED BY <1>5, <3>1, <3>2, <3>3
  <2>3. CASE settled = 0 /\ ~(events = <<>> /\ ~active_pinch /\ wcmsg_id > newest)
    <3>1. settled' = 0 /\ repaired' = 0
      BY <1>4, <2>3
    <3> QED BY <1>5, <3>1
  <2> QED BY <2>1, <2>2, <2>3
<1>10. ClientFollowed'
  BY <1>4 DEF KeyboardInv, ClientFollowed, client
<1> QED BY <1>6, <1>7, <1>8, <1>9, <1>10 DEF KeyboardInv

LEMMA OtherReadsStep == ASSUME KeyboardInv, OtherReads PROVE KeyboardInv'
<1>1. /\ count \in Counts /\ count' = [count EXCEPT !.races = @ + 1] /\ other' = wcmsg_id
      /\ wcmsg_id \in 0 .. MaxMessage
      /\ UNCHANGED <<keys, caps, active_pinch, events, wcmsg_id, net, input, input_os_type,
                     last_input_fcmsg_id, newest, settled, repaired>>
  BY DEF KeyboardInv, KeysTyped, InputTypeOK, OtherReads, client
<1>2. count' \in Counts /\ count'.pinches = count.pinches /\ other' \in -1 .. MaxMessage
  BY <1>1 DEF Counts
<1>3. KeysTyped'
  BY <1>1, <1>2 DEF KeyboardInv, KeysTyped, InputTypeOK
<1>4. DeviceInv' /\ GesturesCounted'
  BY <1>1, <1>2 DEF KeyboardInv, DeviceInv, Apart, GesturesCounted
<1>5. SnapshotsSettle' /\ ClientFollowed'
  BY <1>1 DEF KeyboardInv, SnapshotsSettle, ClientFollowed, Settling
<1> QED BY <1>3, <1>4, <1>5 DEF KeyboardInv

LEMMA OtherWritesStep == ASSUME KeyboardAssumption, KeyboardInv, OtherWrites PROVE KeyboardInv'
<1>1. /\ wcmsg_id' \in {n \in {other + 1, wcmsg_id} : n <= MaxMessage} /\ other' = -1
      /\ wcmsg_id \in 0 .. MaxMessage /\ other \in -1 .. MaxMessage /\ MaxMessage \in Nat
      /\ UNCHANGED <<keys, caps, active_pinch, events, net, input, input_os_type,
                     last_input_fcmsg_id, newest, settled, repaired, count>>
  BY DEF KeyboardAssumption, KeyboardInv, KeysTyped, InputTypeOK, OtherWrites, client
<1>2. wcmsg_id' \in 0 .. MaxMessage /\ other' \in -1 .. MaxMessage
  BY <1>1
<1>3. KeysTyped'
  BY <1>1, <1>2 DEF KeyboardInv, KeysTyped, InputTypeOK
<1>4. DeviceInv' /\ GesturesCounted'
  BY <1>1 DEF KeyboardInv, DeviceInv, Apart, GesturesCounted
<1>5. SnapshotsSettle' /\ ClientFollowed'
  BY <1>1 DEF KeyboardInv, SnapshotsSettle, ClientFollowed, Settling
<1> QED BY <1>3, <1>4, <1>5 DEF KeyboardInv

LEMMA ConnectClientStep == ASSUME KeyboardAssumption, KeyboardInv, ConnectClient PROVE KeyboardInv'
<1>1. /\ count \in Counts /\ events \in Seq(Event) /\ InputTypeOK
      /\ count' = [count EXCEPT !.connects = @ + 1]
      /\ net' = {} /\ last_input_fcmsg_id' = 0 /\ newest' = 0 /\ settled' = 0 /\ repaired' = 0
      /\ \/ UNCHANGED <<wcmsg_id, other, active_pinch, events>>
         \/ wcmsg_id' = 0 /\ other' = -1 /\ active_pinch' = FALSE /\ events' = <<>>
      /\ UNCHANGED <<keys, caps, input, input_os_type>>
  BY DEF KeyboardInv, KeysTyped, ConnectClient
<1>2. count' \in Counts /\ count'.pinches = count.pinches /\ count'.pinches >= count.pinches
  BY <1>1 DEF Counts
<1>3. events' \in Seq(Event) /\ \A i \in DOMAIN events' : events'[i] \in Event
  <2>1. CASE events' = events
    BY <1>1, <2>1
  <2>2. CASE events' = <<>>
    BY <2>2
  <2> QED BY <1>1, <2>1, <2>2
<1>4. 0 \in 0 .. MaxMessage /\ -1 \in -1 .. MaxMessage
  BY DEF KeyboardAssumption
<1>5. KeysTyped'
  <2>1. wcmsg_id' \in 0 .. MaxMessage /\ other' \in -1 .. MaxMessage /\ active_pinch' \in BOOLEAN
    BY <1>1, <1>4 DEF InputTypeOK
  <2> QED BY <1>1, <1>2, <1>3, <1>4, <2>1 DEF KeysTyped, InputTypeOK
<1>6. GesturesCounted'
  <2>1. \A i \in 1 .. Len(events') : events' = events
    BY <1>1
  <2> QED BY <1>1, <1>2, <2>1 DEF KeyboardInv, GesturesCounted
<1>7. \A m \in net' : m.id <= newest'
  BY <1>1
<1> QED BY <1>1, <1>2, <1>5, <1>6, <1>7, UntouchedStep

\* What one message does to the device.
LEMMA AppliedFits ==
    ASSUME KeyboardAssumption, KeyboardInv, NEW body \in Event \cup Snapshot, body.kind = "gesture" => count.pinches # 0,
           NEW t, t = Applied(body)
    PROVE  DeviceFits(t, input_os_type) /\ Alone(t, Apart)
<1>1. /\ input_os_type \in Oses /\ Keys \subseteq AllKeys
      /\ DeviceFits(input, input_os_type) /\ Alone(input, Apart)
      /\ Apart \in SUBSET {FK_CAPSLOCK, FK_LCTRL} /\ FK_CAPSLOCK \in Apart
      /\ input \in Device
  BY DEF KeyboardAssumption, KeyboardInv, KeysTyped, InputTypeOK, DeviceInv, DeviceFits, Apart, Oses
<1>2. CASE body \in [kind : {"key"}, key : Keys, pressed : BOOLEAN]
  <2>1. body.kind = "key" /\ body.key \in AllKeys
    BY <1>1, <1>2
  <2>2. t = EmitMappedKeyEvent(input, input_os_type, body.key, body.pressed)
    BY <2>1 DEF Applied
  <2>3. CASE body.pressed = TRUE
    <3>1. t = EmitMappedKeyEvent(input, input_os_type, body.key, TRUE)
      BY <2>2, <2>3
    <3> QED BY <1>1, <2>1, <3>1, EmitMappedPress
  <2>4. CASE body.pressed = FALSE
    <3>1. t = EmitMappedKeyEvent(input, input_os_type, body.key, FALSE)
      BY <2>2, <2>4
    <3> QED BY <1>1, <2>1, <3>1, EmitMappedRelease
  <2> QED BY <1>2, <2>3, <2>4
<1>3. CASE body \in [kind : {"gesture"}, active : BOOLEAN, cancel : BOOLEAN]
  <2>1. body.kind = "gesture" /\ FK_LCTRL \in Apart
    BY <1>3 DEF Apart
  <2>2. t = EmitMultigestureEvent(input, body)
    BY <2>1 DEF Applied
  <2>3. FK_LCTRL \in AllKeys /\ FK_LCTRL \notin RightKeys
    BY KeysDiffer
  <2>4. CASE t = input
    BY <1>1, <2>4
  <2>5. CASE t = EmitKeyEvent(input, FK_LCTRL, TRUE)
    <3>1. OnlyTheDevice(input, t) /\ t.keyboard_state = input.keyboard_state \cup {FK_LCTRL}
      BY <1>1, <2>3, <2>5, EmitPress
    <3>2. t.keyboard_state \ {FK_LCTRL} = input.keyboard_state \ {FK_LCTRL}
      BY <3>1
    <3> QED BY <1>1, <2>1, <2>3, <3>1, <3>2, OneKeyFits
  <2>6. CASE t = EmitKeyEvent(input, FK_LCTRL, FALSE)
    <3>1. OnlyTheDevice(input, t) /\ t.keyboard_state = input.keyboard_state \ {FK_LCTRL}
      BY <1>1, <2>3, <2>6, EmitRelease
    <3>2. t.keyboard_state \ {FK_LCTRL} = input.keyboard_state \ {FK_LCTRL}
      BY <3>1
    <3> QED BY <1>1, <2>1, <2>3, <3>1, <3>2, OneKeyFits
  <2> QED BY <2>2, <2>4, <2>5, <2>6 DEF EmitMultigestureEvent
<1>4. CASE body \in Snapshot
  <2>1. body.kind = "state" /\ body.keys \subseteq AllKeys /\ body.caps \in BOOLEAN
    BY <1>1, <1>4 DEF Snapshot
  <2>2. t = UpdateMappedKeyboardState(input, input_os_type, body)
    BY <2>1 DEF Applied
  <2> QED BY <1>1, <2>1, <2>2, SnapshotFacts
<1> QED BY <1>2, <1>3, <1>4 DEF Event

LEMMA HandleMessageStep == ASSUME KeyboardAssumption, KeyboardInv, NEW m \in net, HandleMessage(m) PROVE KeyboardInv'
<1>1. /\ InputTypeOK /\ m.id \in 0 .. MaxMessage /\ m.body \in Event \cup Snapshot
      /\ last_input_fcmsg_id \in 0 .. MaxMessage /\ settled \in 0 .. MaxMessage /\ newest \in 0 .. MaxMessage
      /\ repaired \in 0 .. 2 /\ count \in Counts /\ MaxMessage \in Nat
      /\ keys \subseteq Keys /\ caps \in BOOLEAN /\ input_os_type \in Oses /\ Keys \subseteq AllKeys
  BY DEF KeyboardAssumption, KeyboardInv, KeysTyped, InputTypeOK, Oses
<1>2. /\ m.id > last_input_fcmsg_id
      /\ net' = {n \in net : IsNewer(n, m.id)} /\ last_input_fcmsg_id' = m.id
      /\ input' = Applied(m.body)
      /\ repaired' = IF m.body.kind = "state" /\ settled # 0 /\ m.id >= settled /\ repaired < 2
                     THEN repaired + 1 ELSE repaired
      /\ UNCHANGED <<client, wcmsg_id, other, input_os_type, newest, settled, count>>
  BY DEF HandleMessage, IsNewer
<1>3. net' \subseteq net /\ Apart' = Apart /\ Settling' = Settling
  BY <1>2 DEF Apart, Settling, client
<1>4. DeviceInv'
  <2>1. m.body.kind = "gesture" => count.pinches # 0
    BY DEF KeyboardInv, GesturesCounted
  <2>2. DeviceFits(input', input_os_type) /\ Alone(input', Apart)
    BY <1>1, <1>2, <2>1, AppliedFits
  <2> QED BY <1>2, <1>3, <2>2 DEF DeviceInv
<1>5. KeysTyped'
  <2>1. repaired' \in 0 .. 2
    BY <1>1, <1>2
  <2>2. input' \in Device
    BY <1>4 DEF DeviceInv, DeviceFits
  <2>3. /\ input'.keyboard_state \subseteq AllKeys /\ input'.caps_lock \in BOOLEAN
        /\ input'.holding_keymap \in BOOLEAN
        /\ input'.currently_pressed \subseteq AllKeys /\ input'.new_key_combination \subseteq AllKeys
    BY <2>2 DEF Device
  <2> QED BY <1>1, <1>2, <1>3, <2>1, <2>3 DEF KeyboardInv, KeysTyped, InputTypeOK, client
<1>6. GesturesCounted'
  BY <1>2, <1>3 DEF KeyboardInv, GesturesCounted, client
<1>7. SnapshotsSettle'
  <2> USE DEF KeyboardInv, SnapshotsSettle
  <2>1. \A n \in net' : n.id <= newest'
    BY <1>2, <1>3
  <2>2. settled' # 0 =>
            /\ events' = <<>> /\ ~active_pinch' /\ settled' <= newest'
            /\ \A n \in net' : n.id >= settled' => n.body = Settling'
    BY <1>2, <1>3 DEF client
  <2>3. repaired' # 0 => settled' # 0 /\ last_input_fcmsg_id' >= settled'
    BY <1>1, <1>2
  <2> QED BY <2>1, <2>2, <2>3
<1>8. ClientFollowed'
  <2>1. CASE repaired' = 0
    BY <2>1 DEF ClientFollowed
  <2>2. CASE repaired' # 0
    <3>1. settled # 0 /\ m.id >= settled
      BY <1>1, <1>2, <2>2 DEF KeyboardInv, SnapshotsSettle
    <3>2. m.body = Settling
      BY <3>1 DEF KeyboardInv, SnapshotsSettle
    <3> DEFINE body == Settling
    <3>3. body.kind = "state" /\ body.keys = keys /\ body.caps = caps /\ body.pinch = FALSE
      BY DEF Settling
    <3> HIDE DEF body
    <3>4. input' = UpdateMappedKeyboardState(input, input_os_type, body)
      BY <1>2, <3>2, <3>3 DEF Applied, body
    <3>5. /\ DeviceFits(input, input_os_type) /\ Alone(input, Apart)
          /\ Apart \in SUBSET {FK_CAPSLOCK, FK_LCTRL} /\ FK_CAPSLOCK \in Apart
          /\ body.keys \subseteq AllKeys /\ body.caps \in BOOLEAN
      BY <1>1, <3>3 DEF KeyboardInv, DeviceInv, Apart
    <3>6. /\ input'.caps_lock <=> body.caps
          /\ ~body.pinch => Follows(input', input_os_type, body.keys)
          /\ ~body.pinch /\ Follows(input, input_os_type, body.keys) /\ ~input'.holding_keymap =>
                (FK_CAPSLOCK \in input'.keyboard_state <=> FK_CAPSLOCK \in body.keys)
      BY <1>1, <3>4, <3>5, SnapshotFacts
    <3>7. repaired' = 2 => repaired # 0
      BY <1>1, <1>2
    <3>8. repaired # 0 => Follows(input, input_os_type, keys)
      BY DEF KeyboardInv, ClientFollowed
    <3> QED BY <1>2, <3>3, <3>6, <3>7, <3>8 DEF ClientFollowed, client
  <2> QED BY <2>1, <2>2
<1> QED BY <1>4, <1>5, <1>6, <1>7, <1>8 DEF KeyboardInv

LEMMA KeyboardInit == ASSUME KeyboardAssumption, InputInit PROVE KeyboardInv
<1>1. input \in Device /\ input.keyboard_state = {} /\ input.holding_keymap = FALSE
  BY DEF InputInit, Device
<1>2. DeviceInv
  BY <1>1 DEF DeviceInv, DeviceFits, Alone
<1>3. count \in Counts /\ events = <<>> /\ events \in Seq(Event) /\ DOMAIN events = {} /\ Len(events) = 0
  BY DEF InputInit, Counts
<1>4. 0 \in 0 .. MaxMessage /\ -1 \in -1 .. MaxMessage
  BY DEF KeyboardAssumption
<1>5. KeysTyped
  <2>1. /\ keys \subseteq Keys /\ caps \in BOOLEAN /\ active_pinch \in BOOLEAN /\ net = {}
        /\ wcmsg_id \in 0 .. MaxMessage /\ other \in -1 .. MaxMessage /\ input_os_type \in OsTypes
        /\ {last_input_fcmsg_id, newest, settled} \subseteq 0 .. MaxMessage /\ repaired \in 0 .. 2
    <3>1. /\ keys = {} /\ caps = FALSE /\ active_pinch = FALSE /\ net = {} /\ wcmsg_id = 0
          /\ other = -1 /\ input_os_type \in OsTypes
          /\ last_input_fcmsg_id = 0 /\ newest = 0 /\ settled = 0 /\ repaired = 0
      BY DEF InputInit
    <3>2. 0 \in 0 .. 2
      OBVIOUS
    <3> QED BY <1>4, <3>1, <3>2
  <2>2. /\ input.keyboard_state \subseteq AllKeys /\ input.caps_lock \in BOOLEAN
        /\ input.holding_keymap \in BOOLEAN
        /\ input.currently_pressed \subseteq AllKeys /\ input.new_key_combination \subseteq AllKeys
    BY <1>1 DEF Device
  <2> QED BY <1>3, <2>1, <2>2 DEF KeysTyped, InputTypeOK
<1>6. GesturesCounted /\ SnapshotsSettle /\ ClientFollowed
  BY <1>3 DEF InputInit, GesturesCounted, SnapshotsSettle, ClientFollowed
<1> QED BY <1>2, <1>5, <1>6 DEF KeyboardInv

\* The invariant behind what the keyboard promises.
LEMMA KeyboardInvariant == ASSUME KeyboardAssumption PROVE InputSpec => []KeyboardInv
<1>1. InputInit => KeyboardInv
  BY KeyboardInit
<1>2. KeyboardInv /\ [InputNext]_inputVars => KeyboardInv'
  <2> SUFFICES ASSUME KeyboardInv, [InputNext]_inputVars PROVE KeyboardInv'
    OBVIOUS
  <2>1. CASE InputNext
    BY <2>1, PressKeyStep, ReleaseKeyStep, PinchStep, HandleFrontendEventStep,
       SyncKeyboardStateStep, OtherReadsStep, OtherWritesStep, HandleMessageStep,
       ConnectClientStep DEF InputNext
  <2>2. CASE UNCHANGED inputVars
    BY <2>2 DEF inputVars, KeyboardInv, KeysTyped, InputTypeOK, DeviceInv, Apart, GesturesCounted,
       SnapshotsSettle, Settling, ClientFollowed
  <2> QED BY <2>1, <2>2
<1> QED BY <1>1, <1>2, PTL DEF InputSpec

\* What the server's device shows after a settled snapshot is the client's keyboard, and a
\* mapped combination stands alone (keyboard_mapping.cpp:156-346), for every set of keys,
\* system, queue and number of messages.
THEOREM KeyboardAlwaysFollows == ASSUME KeyboardAssumption PROVE InputSpec => []KeyboardFollows
<1>1. KeyboardInv => SettledIsSynced
  <2> SUFFICES ASSUME KeyboardInv, repaired > 0 PROVE SettledIsSynced!2
    BY DEF SettledIsSynced
  <2>1. /\ input.caps_lock \in BOOLEAN /\ caps \in BOOLEAN /\ repaired \in 0 .. 2
        /\ input_os_type \in Oses /\ keys \subseteq AllKeys
    BY DEF KeyboardAssumption, KeyboardInv, KeysTyped, InputTypeOK, Oses
  <2>2. input.caps_lock = caps
    BY <2>1 DEF KeyboardInv, ClientFollowed
  <2>3. ASSUME NEW k \in AllKeys \ (IF repaired = 1 \/ input.holding_keymap THEN {FK_CAPSLOCK} ELSE {})
        PROVE  IsPressed(input, k) <=> \E o \in keys : Mapped(input_os_type, o) = k
    <3>1. CASE k # FK_CAPSLOCK
      BY <2>1, <3>1 DEF KeyboardInv, ClientFollowed, Follows, Looks, IsPressed, Wanted
    <3>2. CASE k = FK_CAPSLOCK
      <4>1. repaired = 2 /\ ~input.holding_keymap
        BY <2>1, <2>3, <3>2
      <4>2. FK_CAPSLOCK \in input.keyboard_state <=> FK_CAPSLOCK \in keys
        BY <4>1 DEF KeyboardInv, ClientFollowed
      <4>3. \A o \in keys : Mapped(input_os_type, o) = FK_CAPSLOCK <=> o = FK_CAPSLOCK
        BY <2>1, MappedFacts
      <4> QED BY <3>2, <4>1, <4>2, <4>3 DEF IsPressed
    <3> QED BY <3>1, <3>2
  <2>4. \A k \in AllKeys : IsPressed(input, k) \in BOOLEAN
    <3>1. CASE input.holding_keymap
      BY <3>1 DEF IsPressed
    <3>2. CASE ~input.holding_keymap
      BY <3>2 DEF IsPressed
    <3> QED BY <3>1, <3>2
  <2> QED BY <2>2, <2>3, <2>4
<1>2. KeyboardInv => KeymapStandsAlone
  BY DEF KeyboardInv, DeviceInv, Alone, Apart, KeymapStandsAlone
<1>3. KeyboardInv => KeyboardFollows
  BY <1>1, <1>2 DEF KeyboardFollows
<1> QED BY <1>3, KeyboardInvariant, PTL

=============================================================================
