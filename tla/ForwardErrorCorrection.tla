------------------------- MODULE ForwardErrorCorrection -------------------------
(***************************************************************************)
(* whist/fec/fec.c and rs_wrapper.c: a packet is cut into segments, these   *)
(* and the redundant ones are dealt out to groups no larger than the        *)
(* erasure code can take, and the receiver puts the packet together from    *)
(* any segments that are enough for every group.                            *)
(*                                                                         *)
(* A buffer of the decoder is the memory it is in and the segment it holds. *)
(* The erasure code itself (cm256) is external: k blocks of a group of k    *)
(* are enough.  Indices, groups and array positions start at 0 as in the    *)
(* code.                                                                   *)
(***************************************************************************)
EXTENDS SegmentGroups, FiniteSets, FiniteSetsExt

CONSTANTS
    PacketSizes,    \* sizes of the packets that are sent
    MaxPayload,     \* what a segment can hold besides its header
    Ratios,         \* fec_packet_ratio, in percent
    RS_FIELD_SIZE,
    max_group_size, max_group_overhead,
    BlockLength     \* MAX_PACKET_SEGMENT_SIZE in overhead_of_group

\* What the constants have to be; the module that instantiates this one assumes it.
FECAssumption ==
    /\ PacketSizes \subseteq Nat
    /\ MaxPayload \in Nat \ {0}
    /\ Ratios \subseteq 1 .. 99
    /\ {RS_FIELD_SIZE, max_group_size, max_group_overhead, BlockLength} \subseteq Nat \ {0}

FEC_HEADER_SIZE == 2

-----------------------------------------------------------------------------
(* How a packet is cut, and how many redundant segments it gets. *)

fec_encoder_get_num_real_buffers(size) ==
    IF size = 0 THEN 1 ELSE int_div_roundup(size, MaxPayload)

get_num_fec_packets(num_real, q) == int_div_roundup(num_real * q, 100 - q)

\* fec_encoder_register_buffer: segment i when the packet is cut evenly.
SegmentSize(size, i) ==
    LET expected == int_div_roundup(size, fec_encoder_get_num_real_buffers(size))
        left     == size - i * expected
    IN  Max({0, Min({left, expected})})

-----------------------------------------------------------------------------
(* The groups. *)

\* overhead_of_group for cm256, without the division.
WithinOverhead(k, m) ==
    k * k + k * m * BlockLength <= max_group_overhead * (k + m) * BlockLength

\* Faulty: the sizes of the groups are rounded down.
RoundedDown(r, f) ==
    LET fits(i) == /\ r \div i + f \div i <= max_group_size
                   /\ WithinOverhead(r \div i, f \div i)
        tried   == {i \in 1 .. r - 1 : fits(i)}
    IN  IF tried = {} THEN r ELSE Min(tried)

\* rs_wrapper_create: the fewest groups within the limits, or one per segment.
NumGroups(r, f) ==
    LET k(i)    == int_div_roundup(r, i)
        m(i)    == int_div_roundup(f, i)
        tried   == {i \in 1 .. r - 1 :
                      k(i) + m(i) <= max_group_size /\ WithinOverhead(k(i), m(i))}
    IN  IF tried = {} THEN r ELSE Min(tried)

-----------------------------------------------------------------------------
VARIABLES
    size,                \* of the packet
    real, fec, groups,   \* num_real_buffers, num_fec_buffers, num_groups
    buffer_sizes,        \* by index, -1 for those that have not come
    num_buffers_registered,  \* by group
    num_pending_groups,
    buffers,             \* by position: what it holds and where that is
    recovery_performed,
    decoded,             \* the segments written out, as a function; NoPacket before
    aborted              \* a FATAL_ASSERT has failed

vars == <<size, real, fec, groups, buffer_sizes, num_buffers_registered, num_pending_groups,
          buffers, recovery_performed, decoded, aborted>>

NoPacket == [i \in {} |-> 0]
Nothing == [mem |-> 0, holds |-> 0]

Indices == 0 .. real + fec - 1
Accepted(sizes) == {i \in Indices : sizes[i] # -1}
GroupReal(g) == int_partition_helper(real, g, groups)
GroupFec(g) == int_partition_helper(fec, g, groups)
Sub(i) == index_full_to_sub(real, groups, i)

TypeOK ==
    /\ size \in PacketSizes /\ real \in Nat \ {0} /\ fec \in Nat \ {0} /\ groups \in 1 .. real
    /\ buffer_sizes \in [Indices -> Nat \cup {-1}]
    /\ num_buffers_registered \in [0 .. groups - 1 -> Nat]
    /\ num_pending_groups \in 0 .. groups
    /\ buffers \in [Indices -> [mem : Nat, holds : Nat]]
    /\ recovery_performed \in BOOLEAN /\ aborted \in BOOLEAN

\* Encoding asserts that the packet was cut into as many segments as were counted, and
\* rs_encode_or_dup asserts the bounds of the erasure code for each group.
EncodeAborts ==
    \/ size > 0 /\ \E i \in 0 .. real - 1 : SegmentSize(size, i) = 0
    \/ \E g \in 0 .. groups - 1 :
         LET k == GroupReal(g)
             n == k + GroupFec(g)
         IN  k >= RS_FIELD_SIZE \/ (k # 1 /\ n > RS_FIELD_SIZE)

Init ==
    /\ size \in PacketSizes
    /\ real = fec_encoder_get_num_real_buffers(size)
    /\ \E q \in Ratios : fec = get_num_fec_packets(real, q)
    /\ groups = NumGroups(real, fec)
    /\ buffer_sizes = [i \in Indices |-> -1]
    /\ num_buffers_registered = [g \in 0 .. groups - 1 |-> 0]
    /\ num_pending_groups = groups
    /\ buffers = [i \in Indices |-> Nothing]
    /\ recovery_performed = FALSE
    /\ decoded = NoPacket
    /\ aborted = EncodeAborts

-----------------------------------------------------------------------------
(* The receiver. *)

\* Faulty: a redundant segment is as long as its own payload.
OwnLength(i) == FEC_HEADER_SIZE + (IF i < real THEN SegmentSize(size, i) ELSE 0)

\* fec_get_encoded_buffers: the redundant ones are as long as the longest.
EncodedSize(i) ==
    FEC_HEADER_SIZE
      + (IF i < real THEN SegmentSize(size, i)
         ELSE Max({SegmentSize(size, j) : j \in 0 .. real - 1}))

\* The offset of the accepted segment i among those accepted.
Offset(acc, i) == Cardinality({j \in acc : j < i})

\* The segments of group g that its decoding uses: as many as it has real ones.
Used(acc, g) ==
    LET mine == {i \in acc : Sub(i).group_id = g}
    IN  {i \in mine : Cardinality({j \in mine : j < i}) < GroupReal(g)}

\* cm256_decode: each redundant block of the group gets one of the segments that are
\* missing.  The result is its place within the group.  A group of one segment has copies
\* of it only.
Recovered(used, i) ==
    LET k       == GroupReal(Sub(i).group_id)
        subs    == {Sub(j).sub_index : j \in used}
        missing == (0 .. k - 1) \ subs
        rank    == Cardinality({s \in subs : k <= s /\ s < Sub(i).sub_index})
    IN  IF Sub(i).sub_index < k THEN Sub(i).sub_index
        ELSE CHOOSE x \in missing : Cardinality({y \in missing : y < x}) = rank

\* The array when each accepted segment i has gone to place[i].
Arranged(acc, used, place) ==
    [p \in Indices |->
       LET here == {i \in acc : place[i] = p}
       IN  IF here = {} THEN Nothing
           ELSE LET i == Max(here)
                IN  [mem   |-> Offset(acc, i) + 1,
                     holds |-> IF i \in used /\ Sub(i).sub_index >= GroupReal(Sub(i).group_id)
                               THEN p ELSE i]]

UsedSegments(acc) == UNION {Used(acc, g) : g \in 0 .. groups - 1}

\* Faulty: the segments that were not needed are not counted.
SamePlace(unused, i) == real

UnusedPlace(unused, i) == real + Cardinality({j \in unused : j < i})

\* rs_wrapper_decode: each segment of a group goes to its place in the packet, and those
\* that were not needed go behind them.
DecodedBuffers(acc) ==
    LET used == UsedSegments(acc)
        place == [i \in acc |->
                    LET g == Sub(i).group_id
                    IN  IF i \in used
                        THEN index_sub_to_full(real, groups, g, Recovered(Used(acc, g), i))
                        ELSE UnusedPlace(acc \ used, i)]
    IN  Arranged(acc, used, place)

\* cm256_decode fails for a group of several segments without redundancy, and
\* rs_wrapper_decode asserts that every group has enough.
DecodeAborts(acc) ==
    \E g \in 0 .. groups - 1 :
        \/ GroupReal(g) # 1 /\ GroupFec(g) = 0
        \/ Cardinality(Used(acc, g)) # GroupReal(g)

\* Faulty: the group waits for one more.
OneTooMany(n, k) == n = k + 1

Completes(n, k) == n = k

\* receive_segment for a segment it has not had: fec_decoder_register_buffer and
\* fec_get_decoded_buffer, until the packet was decoded.
Receive(i) ==
    /\ ~aborted /\ decoded = NoPacket
    /\ buffer_sizes[i] = -1
    /\ LET g     == Sub(i).group_id
           sizes == [buffer_sizes EXCEPT ![i] = EncodedSize(i)]
           acc   == Accepted(sizes)
           held  == [buffers EXCEPT ![i] = [mem |-> 0, holds |-> i]]
           count == num_buffers_registered[g] + 1
           pend  == num_pending_groups - (IF Completes(count, GroupReal(g)) THEN 1 ELSE 0)
           need  == {j \in acc : j < real} # 0 .. real - 1
           fails == pend < 0 \/ (pend = 0 /\ need /\ DecodeAborts(acc))
           done  == IF need THEN DecodedBuffers(acc) ELSE held
       IN  /\ buffer_sizes' = sizes
           /\ num_buffers_registered' = [num_buffers_registered EXCEPT ![g] = count]
           /\ num_pending_groups' = pend
           /\ aborted' = fails
           /\ IF pend = 0 /\ ~fails
              THEN /\ recovery_performed' = need
                   /\ buffers' = done
                   /\ decoded' = [j \in 0 .. real - 1 |-> done[j].holds]
              ELSE /\ buffers' = held
                   /\ UNCHANGED <<recovery_performed, decoded>>
    /\ UNCHANGED <<size, real, fec, groups>>

\* Any segments may be lost, and they come in any order.
Next == \E i \in Indices : Receive(i)

Spec == Init /\ [][Next]_vars
-----------------------------------------------------------------------------
(* Properties. *)

\* Encoding and decoding assert the bounds of the erasure code (rs_wrapper.c:480, :495,
\* :560) and that every group has enough (:385); num_pending_groups never falls below 0.
\* The packets have at least one redundant segment for every group.
NoAbort == ~aborted

\* Which segments come, and in which order, the packet is decoded at once when every group
\* has as many as it has real ones (rs_wrapper.c:433), and not before.
DecodedWhenPossible ==
    (decoded # NoPacket) <=>
        \A g \in 0 .. groups - 1 :
            Cardinality({i \in Accepted(buffer_sizes) : Sub(i).group_id = g}) >= GroupReal(g)

\* What is written out is the packet: the segments in their order, whatever went through
\* which group, with the sizes that add up to the packet's (fec.c:353).
PacketIsWhole ==
    decoded # NoPacket =>
        /\ decoded = [i \in 0 .. real - 1 |-> i]
        /\ MapThenSumSet(LAMBDA i : SegmentSize(size, i), 0 .. real - 1) = size

\* After a recovery the decoder's array holds every block that was allocated for it, once
\* (rs_wrapper.c:369, :406): destroy_fec_decoder frees each of them and none twice.
BlocksAreKept ==
    recovery_performed =>
        \A m \in 1 .. Cardinality(Accepted(buffer_sizes)) :
            Cardinality({p \in Indices : buffers[p].mem = m}) = 1

\* The blocks are decoded with the length they were encoded with (fec.c:196, :297), though
\* the decoder knows only the longest segment that has come.
LengthAgrees ==
    recovery_performed =>
        Max({buffer_sizes[i] : i \in Indices}) =
            FEC_HEADER_SIZE + Max({SegmentSize(size, i) : i \in 0 .. real - 1})

\* All of this together: no assert of the erasure code fails, and a packet is decoded once every
\* group of it has enough, whole and in order, without losing a block (rs_wrapper.c:329-577).
DecodingIsSound ==
    NoAbort /\ DecodedWhenPossible /\ PacketIsWhole /\ BlocksAreKept /\ LengthAgrees
=============================================================================
