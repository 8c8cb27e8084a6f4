---------------------------- MODULE MCNackRepair -----------------------------
(***************************************************************************)
(* The repair of lost segments, by names that do not clash with those of   *)
(* other things that go over UDP.                                          *)
(***************************************************************************)
CONSTANTS MaxFrame, Segments, Buffers, MaxNacks, NackBehind, Unordered, Recovery, MaxLosses

VARIABLES
    newest_frame, index, buffer, nack_queue, segments_net, nacks, got, min_id, max_id, whole,
    last, losses, aborted

Repair == INSTANCE NackRepair WITH
    MaxId <- MaxFrame, newest <- newest_frame, net <- segments_net

ASSUME RepairAssumption == Repair!RepairAssumption

RepairSpec == Repair!Spec
-----------------------------------------------------------------------------
\* No nack makes the server abort: the client only ever asks for frames whose IDs the server
\* has used (udp.cpp:1206).
NacksAreAnswerable == Repair!NacksAreAnswerable

\* Repair catches up: time and again nothing is owed (ringbuffer.c:589).
RepairCompletes == Repair!RepairCompletes
=============================================================================
