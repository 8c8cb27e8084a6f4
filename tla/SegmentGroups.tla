----------------------------- MODULE SegmentGroups -----------------------------
(***************************************************************************)
(* whist/fec/rs_wrapper.c: how the r real and the f redundant segments of a *)
(* packet are dealt out to gs groups.  Segments, groups and the places      *)
(* within a group are counted from 0; in a group the real ones come first.  *)
(***************************************************************************)
EXTENDS Integers

int_div_roundup(a, b) == (a + b - 1) \div b

int_partition_helper(total, group_id, group_num) ==
    IF group_id >= total THEN 0 ELSE int_div_roundup(total - group_id, group_num)

\* Faulty: the redundant segments of a group are counted from 0, too.
NoOffset(r, gs, index) ==
    IF index < r
    THEN [group_id |-> index % gs, sub_index |-> index \div gs]
    ELSE [group_id |-> (index - r) % gs, sub_index |-> (index - r) \div gs]

index_full_to_sub(r, gs, index) ==
    IF index < r
    THEN [group_id |-> index % gs, sub_index |-> index \div gs]
    ELSE LET g == (index - r) % gs
         IN  [group_id  |-> g,
              sub_index |-> int_partition_helper(r, g, gs) + (index - r) \div gs]

index_sub_to_full(r, gs, g, sub_index) ==
    LET k == int_partition_helper(r, g, gs)
    IN  IF sub_index < k THEN g + sub_index * gs
                         ELSE r + g + (sub_index - k) * gs

=============================================================================
