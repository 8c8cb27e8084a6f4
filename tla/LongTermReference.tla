-------------------------- MODULE LongTermReference --------------------------
(***************************************************************************)
(* The server's decision logic for long-term references                    *)
(* (protocol/whist/video/ltr.c), as operators on its LTRState.             *)
(*                                                                         *)
(* Two slots of the codec hold long-term references.  Once the client has  *)
(* acknowledged one of them, a broken stream is repaired by a frame that   *)
(* refers to it; without one, only an I-frame helps.                       *)
(*                                                                         *)
(* Frames leave the in-flight list when they are acked or nacked, so that  *)
(* the list is a set here, ordered by frame_counter.  The pending list is  *)
(* empty between calls, and the done list is only logged.                  *)
(***************************************************************************)
EXTENDS Integers, FiniteSets

CONSTANTS
    NewIntraDelay,  \* LTR_NEW_INTRA_FRAME_DELAY
    MaxInflight     \* LTR_MAX_INFLIGHT_FRAMES

ASSUME LtrAssumption == NewIntraDelay \in Nat \ {0} /\ MaxInflight \in Nat \ {0}

FrameTypes == {"INTRA", "NORMAL", "CREATE", "REFER"}

\* LTRFrame.  `ref` is reference_frame_counter, 0 for an intra frame.
LtrFrame == [id : Nat, counter : Nat, type : FrameTypes, index : {0, 1}, ref : Nat]

LtrState ==
    [frame_counter : Nat, intra_frame_needed : BOOLEAN, last_frame_is_bad : BOOLEAN,
     refer_outstanding : BOOLEAN, create_outstanding : BOOLEAN,
     have_good : BOOLEAN, good_index : {0, 1}, good_counter : Nat,
     intra_counter : Nat, refer_counter : Nat, create_counter : Nat,
     inflight : SUBSET LtrFrame]

LtrCreate ==
    [frame_counter |-> 0, intra_frame_needed |-> FALSE, last_frame_is_bad |-> FALSE,
     refer_outstanding |-> FALSE, create_outstanding |-> FALSE,
     have_good |-> FALSE, good_index |-> 0, good_counter |-> 0,
     intra_counter |-> 0, refer_counter |-> 0, create_counter |-> 0,
     inflight |-> {}]

IsRecoveryType(type) == type \in {"INTRA", "REFER"}

-----------------------------------------------------------------------------
(* ltr_get_next_action *)

\* Only the newest frames are kept in flight.
ClearOldFrames(frames) ==
    {f \in frames : Cardinality({g \in frames : g.counter > f.counter}) < MaxInflight}

NeedsIntra(ltr) ==
    \/ ltr.frame_counter = 0
    \/ ltr.intra_frame_needed
    \/ ~ltr.have_good /\ ltr.frame_counter + 1 - ltr.intra_counter >= NewIntraDelay
    \/ ltr.last_frame_is_bad /\ ~ltr.have_good

NextType(ltr) ==
    IF NeedsIntra(ltr) THEN "INTRA"
    ELSE IF ltr.last_frame_is_bad THEN "REFER"
    ELSE IF ltr.have_good /\ ~ltr.refer_outstanding /\ ~ltr.create_outstanding THEN "CREATE"
    ELSE "NORMAL"

\* Mutation: the slot of the good reference is overwritten
OverwritesGood(ltr, type) == IF type \in {"REFER", "CREATE"} THEN ltr.good_index ELSE 0

\* The slot for a new long-term frame is the one without the good frame.
SlotFor(ltr, type) ==
    IF type = "REFER" THEN ltr.good_index
    ELSE IF type = "CREATE" THEN 1 - ltr.good_index
    ELSE 0

NextFrame(ltr, id) ==
    LET type == NextType(ltr)
    IN  [id |-> id, counter |-> ltr.frame_counter + 1, type |-> type,
         index |-> SlotFor(ltr, type),
         ref |-> CASE type = "INTRA" -> 0
                   [] type = "REFER" -> ltr.good_counter
                   [] OTHER          -> ltr.frame_counter]

\* f is the NextFrame of ltr.
GetNextAction(ltr, f) ==
    [ltr EXCEPT
        !.frame_counter = f.counter,
        !.inflight = ClearOldFrames(@) \cup {f},
        !.intra_frame_needed = FALSE,
        !.last_frame_is_bad = FALSE,
        !.refer_outstanding = f.type = "REFER" \/ (@ /\ f.type # "INTRA"),
        !.create_outstanding = f.type = "CREATE" \/ (@ /\ ~IsRecoveryType(f.type)),
        !.have_good = @ /\ f.type # "INTRA",
        !.intra_counter = IF f.type = "INTRA" THEN f.counter ELSE @,
        !.refer_counter = IF f.type = "REFER" THEN f.counter ELSE @,
        !.create_counter = IF f.type = "CREATE" THEN f.counter ELSE @]

-----------------------------------------------------------------------------
(* ltr_mark_frame_received *)

\* With a frame, a closed set of frames holds the frame that it refers to.
IsClosed(C, frames) == \A f \in C, g \in frames : g.counter = f.ref => g \in C

\* The frame, and all its references that are still in flight
AckedWith(f, frames) ==
    {g \in frames : \A C \in SUBSET frames : f \in C /\ IsClosed(C, frames) => g \in C}

\* Mutation: a reference from before the last I-frame is taken for a good one
TakesOldReference(ltr, g) ==
    \/ g.type = "INTRA"
    \/ g.type = "CREATE" /\ g.counter = ltr.create_counter

\* Acking g makes it the good long-term reference.
BecomesGood(ltr, g) ==
    /\ g.counter >= ltr.intra_counter
    /\ \/ g.type = "INTRA"
       \/ g.type = "CREATE" /\ g.counter = ltr.create_counter

\* The acked frames are no longer in flight.
DropAcked(ltr, acked) ==
    [ltr EXCEPT
        !.inflight = @ \ acked,
        !.refer_outstanding =
            @ /\ ~\E g \in acked : /\ g.type = "REFER"
                                   /\ g.counter = ltr.refer_counter
                                   /\ g.counter >= ltr.intra_counter]

\* The recursion acks references last, so that the oldest one counts.
TakeGood(ltr, good) ==
    LET first == CHOOSE g \in good : \A h \in good : g.counter <= h.counter
    IN  [ltr EXCEPT !.have_good = TRUE,
                    !.good_index = first.index,
                    !.good_counter = first.counter,
                    !.create_outstanding = @ /\ \A g \in good : g.type # "CREATE"]

AckFrame(ltr, f) ==
    LET acked == AckedWith(f, ltr.inflight)
        good == {g \in acked : BecomesGood(ltr, g)}
    IN  IF good = {} THEN DropAcked(ltr, acked) ELSE TakeGood(DropAcked(ltr, acked), good)

MarkFrameReceived(ltr, id) ==
    IF \E f \in ltr.inflight : f.id = id
      THEN AckFrame(ltr, CHOOSE f \in ltr.inflight : f.id = id)
      ELSE ltr

-----------------------------------------------------------------------------
(* ltr_mark_stream_broken *)

\* Nobody refers to the newest frame, so that nacking it nacks nothing else.
NackFrame(ltr, f) ==
    LET current == f.counter >= ltr.intra_counter
    IN  [ltr EXCEPT
            !.inflight = @ \ {f},
            !.last_frame_is_bad = @ \/ ltr.frame_counter = f.counter,
            !.refer_outstanding = @ /\ ~(current /\ f.type = "REFER"),
            !.create_outstanding = @ /\ ~(current /\ f.type = "CREATE")]

MarkStreamBroken(ltr) ==
    IF ltr.inflight = {}
      THEN [ltr EXCEPT !.intra_frame_needed = TRUE]
      ELSE NackFrame(ltr, CHOOSE f \in ltr.inflight : \A g \in ltr.inflight : g.counter <= f.counter)

ForceIntra(ltr) == [ltr EXCEPT !.intra_frame_needed = TRUE]
=============================================================================
