------------------------------ MODULE MCFrames ------------------------------
(***************************************************************************)
(* What makes a frame that was sent one that can be decoded: the long-term *)
(* references of the video stream, and the forward error correction of its *)
(* segments; and what goes the other way, the events of the keyboard.      *)
(* They have no state in common: component says which of them a behaviour  *)
(* is about, and the states of the run are those of the three, added up.   *)
(***************************************************************************)
EXTENDS VideoStream, Keyboard

CONSTANTS
    PacketSizes, MaxPayload, Ratios, RS_FIELD_SIZE, max_group_size,
    max_group_overhead, BlockLength

VARIABLES
    component,
    size, real, fec, groups, buffer_sizes, num_buffers_registered, num_pending_groups, buffers,
    recovery_performed, decoded, aborted

Packet == INSTANCE ForwardErrorCorrection

ASSUME ComponentAssumptions == Packet!FECAssumption /\ KeyboardAssumption

packetVars == <<size, real, fec, groups, buffer_sizes, num_buffers_registered,
                num_pending_groups, buffers, recovery_performed, decoded, aborted>>
mcVars == <<component, vars, packetVars, inputVars>>

MCInit ==
    /\ component \in {"stream", "packet", "keyboard"}
    /\ Init /\ Packet!Init /\ InputInit
    \* one packet, and one system, is enough for a behaviour about something else
    /\ component # "packet" =>
           /\ size = CHOOSE s \in PacketSizes : \A t \in PacketSizes : s <= t
           /\ fec = Packet!get_num_fec_packets(real, CHOOSE q \in Ratios : TRUE)
    /\ component # "keyboard" => input_os_type = CHOOSE os \in OsTypes : TRUE

MCNext ==
    \/ component = "stream" /\ Next
       /\ UNCHANGED <<component, packetVars, inputVars>>
    \/ component = "packet" /\ Packet!Next
       /\ UNCHANGED <<component, vars, inputVars>>
    \/ component = "keyboard" /\ InputNext
       /\ UNCHANGED <<component, vars, packetVars>>

MCSpec == MCInit /\ [][MCNext]_mcVars
-----------------------------------------------------------------------------
\* No assert of the erasure code fails; a packet is decoded once every group of it has
\* enough, whole and in order, with blocks as long as they were encoded, and every block is
\* freed once (rs_wrapper.c:329-577, fec.c:280).
DecodingIsSound == Packet!DecodingIsSound
=============================================================================
