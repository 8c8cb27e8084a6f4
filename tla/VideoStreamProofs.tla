-------------------------- MODULE VideoStreamProofs --------------------------
(***************************************************************************)
(* Whatever the client may play next it can decode, and the reference that *)
(* the server relies on is in both codecs: for streams of every length,    *)
(* any losses, and any number of restarts and reconnections, as long as no *)
(* frame of an old client is sent to a new one.                            *)
(***************************************************************************)
EXTENDS VideoStream, TLAPS

Made == 1 .. Len(frames)
IsReal(i) == frames[i].type # "EMPTY"

\* The frame has been sent to this client or will be, and has not been passed.
Awaited(i) ==
    /\ i \in Made /\ i > playing
    /\ i \in sent \/ \E k \in 1 .. Len(queue) : queue[k] = i

Types ==
    /\ ltr \in LtrState
    /\ needs_restart \in BOOLEAN
    /\ encoder \in Codec /\ decoder \in Codec
    /\ frames \in Seq(StreamFrame)
    /\ queue \in Seq(Nat) /\ \A k \in 1 .. Len(queue) : queue[k] \in Made
    /\ sent \subseteq Made
    /\ playing = -1 \/ playing \in Made
    /\ \A id \in acks : id \in Made /\ id <= playing

\* Frames are counted, but for the empty ones, and coded against the frame before or against
\* nothing; for those that refer to a long-term reference see RefersAreHeld.
FramesAgree ==
    /\ \A i \in Made : IsReal(i) => frames[i].counter >= 1
    /\ \A i, j \in Made : i < j /\ IsReal(i) /\ IsReal(j) => frames[i].counter < frames[j].counter
    /\ \A i, j \in Made :
          i < j /\ IsReal(i) /\ IsReal(j) /\ (\A k \in i + 1 .. j - 1 : ~IsReal(k)) =>
              frames[j].counter = frames[i].counter + 1
    /\ \A i \in Made :
          /\ frames[i].type = "INTRA" => frames[i].index = 0 /\ frames[i].needs = 0
          /\ frames[i].type \in {"NORMAL", "CREATE"} => frames[i].needs = frames[i].counter - 1

\* The counters of l go with the frames that were made.
CountersAgree(l) ==
    /\ encoder.last = l.frame_counter
    /\ l.intra_counter <= l.frame_counter /\ l.create_counter <= l.frame_counter
    /\ l.have_good => l.good_counter <= l.frame_counter
    /\ \A i \in Made : IsReal(i) => frames[i].counter <= l.frame_counter
    /\ \A i \in Made :
          IsReal(i) /\ (\A k \in i + 1 .. Len(frames) : ~IsReal(k)) =>
              frames[i].counter = l.frame_counter
    /\ \A i \in Made :
          /\ frames[i].type = "INTRA" => frames[i].counter <= l.intra_counter
          /\ frames[i].type = "CREATE" => frames[i].counter <= l.create_counter

\* What l knows of the frames in flight is so.
InflightAgrees(l) ==
    /\ \A g \in l.inflight :
          /\ g.id \in Made
          /\ g.type = frames[g.id].type
          /\ g.counter = frames[g.id].counter
          /\ g.index = frames[g.id].index
          /\ g.ref < g.counter
          /\ g.type = "INTRA" => g.ref = 0
          /\ g.type \in {"NORMAL", "CREATE"} => g.ref = g.counter - 1
          /\ g.type = "REFER" => \A h \in l.inflight : h.counter # g.ref
    /\ \A g, h \in l.inflight : g.counter = h.counter => g = h
    /\ l.have_good => \A g \in l.inflight : g.counter # l.good_counter

\* A frame that becomes the good reference when it is acked is in the codecs that have had it.
\* While the newest intra frame is in flight there is no other reference.
CandidatesAreHeld(l) ==
    \A g \in l.inflight :
        /\ g.type = "INTRA" /\ g.counter >= l.intra_counter =>
              ~l.have_good /\ l.create_counter < g.counter
        /\ BecomesGood(l, g) => encoder.slots[g.index] = g.counter
        /\ BecomesGood(l, g) /\ g.id \in acks => decoder.slots[g.index] = g.counter

\* When the client has played a frame, it has played the one that it refers to.
AcksAreClosed(l) ==
    \A g, h \in l.inflight : g.id \in acks /\ h.counter = g.ref => h.id \in acks

Agrees(l) == CountersAgree(l) /\ InflightAgrees(l) /\ CandidatesAreHeld(l) /\ AcksAreClosed(l)

\* The good reference is held, and nothing on its way to the client overwrites it.
GoodIsHeld(l) ==
    l.have_good =>
        /\ encoder.slots[l.good_index] = l.good_counter
        /\ decoder.slots[l.good_index] = l.good_counter
        /\ \A i \in Made : Awaited(i) =>
              /\ frames[i].type # "INTRA"
              /\ frames[i].type = "CREATE" => frames[i].index # l.good_index

\* A frame on its way that refers to a long-term reference finds it, also when the client
\* plays frames before it.
RefersAreHeld ==
    \A i \in Made : Awaited(i) /\ frames[i].type = "REFER" =>
        /\ decoder.slots[frames[i].index] = frames[i].needs
        /\ \A j \in Made : Awaited(j) /\ j < i =>
              /\ frames[j].type # "INTRA"
              /\ frames[j].type = "CREATE" => frames[j].index # frames[i].index

\* The decoder's last frame is the last that was played, apart from empty ones.
LastIsPlayed ==
    playing # -1 =>
        \E k \in acks : /\ k \in Made /\ k <= playing
                        /\ IsReal(k)
                        /\ frames[k].counter = decoder.last
                        /\ \A j \in k + 1 .. playing : ~IsReal(j)

\* The ack is this client's, or the stream starts anew before it matters.
AckIsTrue == needs_restart \/ frame_ack = 0 \/ frame_ack \in acks

IInv ==
    /\ Types
    /\ FramesAgree
    /\ Agrees(ltr)
    /\ ~needs_restart => GoodIsHeld(ltr)
    /\ RefersAreHeld
    /\ LastIsPlayed
    /\ AckIsTrue

\* The fields of the frames.
LEMMA MadeFrames ==
    ASSUME Types
    PROVE  /\ Len(frames) \in Nat
           /\ \A i \in Made : /\ i \in Nat
                              /\ frames[i].type \in FrameTypes \cup {"EMPTY"}
                              /\ frames[i].index \in {0, 1}
                              /\ frames[i].counter \in Nat /\ frames[i].needs \in Nat
  <1>1. ASSUME NEW f \in StreamFrame
        PROVE  /\ f.type \in FrameTypes \cup {"EMPTY"} /\ f.index \in {0, 1}
               /\ f.counter \in Nat /\ f.needs \in Nat
    BY DEF StreamFrame
  <1>2. Len(frames) \in Nat /\ \A i \in Made : i \in Nat /\ frames[i] \in StreamFrame
    BY DEF Types, Made
  <1> QED BY <1>1, <1>2

-----------------------------------------------------------------------------
(* ltr.c *)

\* The frame that ltr_get_next_action picks.
LEMMA NextFrameFields ==
    ASSUME NEW l \in LtrState, NEW id \in Nat
    PROVE  LET f == NextFrame(l, id) IN
           /\ f \in LtrFrame
           /\ f.id = id /\ f.counter = l.frame_counter + 1
           /\ f.type = "INTRA" => f.index = 0 /\ f.ref = 0
           /\ f.type = "REFER" => l.have_good /\ f.index = l.good_index /\ f.ref = l.good_counter
           /\ f.type = "CREATE" => l.have_good /\ f.index = 1 - l.good_index
           /\ f.type \in {"NORMAL", "CREATE"} => f.ref = f.counter - 1
           /\ l.intra_frame_needed => f.type = "INTRA"
  <1> DEFINE type == NextType(l)
  <1>1. /\ l.frame_counter \in Nat /\ l.good_counter \in Nat /\ l.good_index \in {0, 1}
        /\ l.have_good \in BOOLEAN /\ l.last_frame_is_bad \in BOOLEAN
        /\ l.refer_outstanding \in BOOLEAN /\ l.create_outstanding \in BOOLEAN
        /\ l.intra_frame_needed \in BOOLEAN
    BY DEF LtrState
  <1>2. type \in FrameTypes
    BY DEF NextType, FrameTypes
  <1>3. type \in {"REFER", "CREATE"} => l.have_good
    BY <1>1 DEF NextType, NeedsIntra
  <1>4. l.intra_frame_needed => type = "INTRA"
    BY DEF NextType, NeedsIntra
  <1> HIDE DEF type
  <1>5. /\ type = "REFER" => SlotFor(l, type) = l.good_index
        /\ type = "CREATE" => SlotFor(l, type) = 1 - l.good_index
        /\ type \in {"INTRA", "NORMAL"} => SlotFor(l, type) = 0
    BY DEF SlotFor
  <1>6. SlotFor(l, type) \in {0, 1}
    BY <1>1, <1>2, <1>5 DEF FrameTypes
  <1> DEFINE ref == CASE type = "INTRA" -> 0
                      [] type = "REFER" -> l.good_counter
                      [] OTHER          -> l.frame_counter
  <1>7. /\ type = "INTRA" => ref = 0
        /\ type = "REFER" => ref = l.good_counter
        /\ type \in {"NORMAL", "CREATE"} => ref = l.frame_counter
    OBVIOUS
  <1>8. ref \in Nat
    BY <1>1, <1>2, <1>7 DEF FrameTypes
  <1>9. NextFrame(l, id) = [id |-> id, counter |-> l.frame_counter + 1, type |-> type,
                            index |-> SlotFor(l, type), ref |-> ref]
    BY Zenon DEF NextFrame, type
  <1> HIDE DEF ref
  <1> QED BY <1>1, <1>2, <1>3, <1>4, <1>5, <1>6, <1>7, <1>8, <1>9 DEF LtrFrame

\* What ltr_get_next_action leaves behind.
LEMMA NextActionFields ==
    ASSUME NEW l \in LtrState, NEW f \in LtrFrame
    PROVE  LET n == GetNextAction(l, f) IN
           /\ n \in LtrState
           /\ n.frame_counter = f.counter
           /\ n.have_good = (l.have_good /\ f.type # "INTRA")
           /\ n.good_index = l.good_index /\ n.good_counter = l.good_counter
           /\ n.intra_counter = IF f.type = "INTRA" THEN f.counter ELSE l.intra_counter
           /\ n.create_counter = IF f.type = "CREATE" THEN f.counter ELSE l.create_counter
           /\ f \in n.inflight
           /\ \A g \in n.inflight : g = f \/ g \in l.inflight
  <1> DEFINE kept == ClearOldFrames(l.inflight)
  <1>1. kept \subseteq l.inflight
    BY DEF ClearOldFrames
  <1>2. l.inflight \subseteq LtrFrame
    BY DEF LtrState
  <1> HIDE DEF kept
  <1>3. kept \cup {f} \in SUBSET LtrFrame
    BY <1>1, <1>2
  <1> DEFINE refer == f.type = "REFER" \/ (l.refer_outstanding /\ f.type # "INTRA")
             create == f.type = "CREATE" \/ (l.create_outstanding /\ ~IsRecoveryType(f.type))
             good == l.have_good /\ f.type # "INTRA"
             intraAt == IF f.type = "INTRA" THEN f.counter ELSE l.intra_counter
             referAt == IF f.type = "REFER" THEN f.counter ELSE l.refer_counter
             createAt == IF f.type = "CREATE" THEN f.counter ELSE l.create_counter
             n == GetNextAction(l, f)
  <1>4. n = [l EXCEPT
        !.frame_counter = f.counter,
        !.inflight = kept \cup {f},
        !.intra_frame_needed = FALSE,
        !.last_frame_is_bad = FALSE,
        !.refer_outstanding = refer,
        !.create_outstanding = create,
        !.have_good = good,
        !.intra_counter = intraAt,
        !.refer_counter = referAt,
        !.create_counter = createAt]
    BY Zenon DEF GetNextAction, kept
  <1>5. /\ f.counter \in Nat /\ refer \in BOOLEAN /\ create \in BOOLEAN /\ good \in BOOLEAN
        /\ intraAt \in Nat /\ referAt \in Nat /\ createAt \in Nat
    BY DEF LtrFrame, LtrState
  <1> HIDE DEF n, refer, create, good, intraAt, referAt, createAt
  <1>a. l = [frame_counter |-> l.frame_counter, intra_frame_needed |-> l.intra_frame_needed,
             last_frame_is_bad |-> l.last_frame_is_bad,
             refer_outstanding |-> l.refer_outstanding,
             create_outstanding |-> l.create_outstanding,
             have_good |-> l.have_good, good_index |-> l.good_index,
             good_counter |-> l.good_counter, intra_counter |-> l.intra_counter,
             refer_counter |-> l.refer_counter, create_counter |-> l.create_counter,
             inflight |-> l.inflight]
    BY DEF LtrState
  <1>b. n = [frame_counter |-> f.counter, intra_frame_needed |-> FALSE,
             last_frame_is_bad |-> FALSE,
             refer_outstanding |-> refer,
             create_outstanding |-> create,
             have_good |-> good, good_index |-> l.good_index,
             good_counter |-> l.good_counter, intra_counter |-> intraAt,
             refer_counter |-> referAt, create_counter |-> createAt,
             inflight |-> kept \cup {f}]
    BY <1>4, <1>a
  <1>c. l.good_index \in {0, 1} /\ l.good_counter \in Nat
    BY DEF LtrState
  <1>6. n \in LtrState
    BY <1>3, <1>b, <1>c, <1>5 DEF LtrState
  <1>7. /\ n.frame_counter = f.counter
        /\ n.have_good = good
        /\ n.good_index = l.good_index /\ n.good_counter = l.good_counter
        /\ n.intra_counter = intraAt
        /\ n.create_counter = createAt
        /\ n.inflight = kept \cup {f}
    BY <1>4 DEF LtrState
  <1> QED BY <1>1, <1>6, <1>7 DEF n, good, intraAt, createAt

\* The fields of an LTRState.
LEMMA LtrFields ==
    ASSUME NEW l \in LtrState
    PROVE  /\ l = [frame_counter |-> l.frame_counter, intra_frame_needed |-> l.intra_frame_needed,
                   last_frame_is_bad |-> l.last_frame_is_bad,
                   refer_outstanding |-> l.refer_outstanding,
                   create_outstanding |-> l.create_outstanding,
                   have_good |-> l.have_good, good_index |-> l.good_index,
                   good_counter |-> l.good_counter, intra_counter |-> l.intra_counter,
                   refer_counter |-> l.refer_counter, create_counter |-> l.create_counter,
                   inflight |-> l.inflight]
           /\ l.frame_counter \in Nat /\ l.intra_frame_needed \in BOOLEAN
           /\ l.last_frame_is_bad \in BOOLEAN /\ l.refer_outstanding \in BOOLEAN
           /\ l.create_outstanding \in BOOLEAN /\ l.have_good \in BOOLEAN
           /\ l.good_index \in {0, 1} /\ l.good_counter \in Nat
           /\ l.intra_counter \in Nat /\ l.refer_counter \in Nat /\ l.create_counter \in Nat
           /\ l.inflight \subseteq LtrFrame
  BY DEF LtrState

LEMMA DropAckedFields ==
    ASSUME NEW l \in LtrState, NEW acked
    PROVE  LET n == DropAcked(l, acked) IN
           /\ n \in LtrState
           /\ n.inflight = l.inflight \ acked
           /\ n.frame_counter = l.frame_counter
           /\ n.have_good = l.have_good
           /\ n.good_index = l.good_index /\ n.good_counter = l.good_counter
           /\ n.intra_counter = l.intra_counter /\ n.create_counter = l.create_counter
  <1> DEFINE refer == l.refer_outstanding /\ ~\E g \in acked : /\ g.type = "REFER"
                                                              /\ g.counter = l.refer_counter
                                                              /\ g.counter >= l.intra_counter
             left == l.inflight \ acked
             n == DropAcked(l, acked)
  <1>1. n = [l EXCEPT !.inflight = left, !.refer_outstanding = refer]
    BY Zenon DEF DropAcked
  <1>2. refer \in BOOLEAN /\ left \subseteq LtrFrame
    BY LtrFields
  <1> HIDE DEF n, refer, left
  <1>a. l = [frame_counter |-> l.frame_counter, intra_frame_needed |-> l.intra_frame_needed,
             last_frame_is_bad |-> l.last_frame_is_bad,
             refer_outstanding |-> l.refer_outstanding,
             create_outstanding |-> l.create_outstanding,
             have_good |-> l.have_good, good_index |-> l.good_index,
             good_counter |-> l.good_counter, intra_counter |-> l.intra_counter,
             refer_counter |-> l.refer_counter, create_counter |-> l.create_counter,
             inflight |-> l.inflight]
    BY DEF LtrState
  <1>3. n = [frame_counter |-> l.frame_counter, intra_frame_needed |-> l.intra_frame_needed,
             last_frame_is_bad |-> l.last_frame_is_bad,
             refer_outstanding |-> refer,
             create_outstanding |-> l.create_outstanding,
             have_good |-> l.have_good, good_index |-> l.good_index,
             good_counter |-> l.good_counter, intra_counter |-> l.intra_counter,
             refer_counter |-> l.refer_counter, create_counter |-> l.create_counter,
             inflight |-> left]
    BY <1>1, <1>a
  <1>4. n \in LtrState
    BY <1>2, <1>3, LtrFields DEF LtrState
  <1> QED BY <1>3, <1>4 DEF n, left

LEMMA TakeGoodFields ==
    ASSUME NEW l \in LtrState, NEW g \in LtrFrame
    PROVE  LET n == TakeGood(l, {g}) IN
           /\ n \in LtrState
           /\ n.inflight = l.inflight
           /\ n.frame_counter = l.frame_counter
           /\ n.have_good = TRUE
           /\ n.good_index = g.index /\ n.good_counter = g.counter
           /\ n.intra_counter = l.intra_counter /\ n.create_counter = l.create_counter
  <1> DEFINE good == {g}
             first == CHOOSE f \in good : \A h \in good : f.counter <= h.counter
             create == l.create_outstanding /\ \A h \in good : h.type # "CREATE"
             n == TakeGood(l, good)
  <1>1. n = [l EXCEPT !.have_good = TRUE, !.good_index = first.index,
                      !.good_counter = first.counter, !.create_outstanding = create]
    BY Zenon DEF TakeGood
  <1>2. first = g
    <2>1. g.counter <= g.counter
      BY DEF LtrFrame
    <2>2. g \in good /\ \A h \in good : g.counter <= h.counter
      BY <2>1
    <2> QED BY <2>2
  <1>3. create \in BOOLEAN /\ g.index \in {0, 1} /\ g.counter \in Nat
    BY LtrFields DEF LtrFrame
  <1> HIDE DEF n, first, create, good
  <1>a. l = [frame_counter |-> l.frame_counter, intra_frame_needed |-> l.intra_frame_needed,
             last_frame_is_bad |-> l.last_frame_is_bad,
             refer_outstanding |-> l.refer_outstanding,
             create_outstanding |-> l.create_outstanding,
             have_good |-> l.have_good, good_index |-> l.good_index,
             good_counter |-> l.good_counter, intra_counter |-> l.intra_counter,
             refer_counter |-> l.refer_counter, create_counter |-> l.create_counter,
             inflight |-> l.inflight]
    BY DEF LtrState
  <1>4. n = [frame_counter |-> l.frame_counter, intra_frame_needed |-> l.intra_frame_needed,
             last_frame_is_bad |-> l.last_frame_is_bad,
             refer_outstanding |-> l.refer_outstanding,
             create_outstanding |-> create,
             have_good |-> TRUE, good_index |-> g.index,
             good_counter |-> g.counter, intra_counter |-> l.intra_counter,
             refer_counter |-> l.refer_counter, create_counter |-> l.create_counter,
             inflight |-> l.inflight]
    BY <1>1, <1>2, <1>a
  <1>5. n \in LtrState
    BY <1>3, <1>4, LtrFields DEF LtrState
  <1> QED BY <1>4, <1>5 DEF n, good

\* At most one frame in flight can become the good reference.
LEMMA OneCandidate ==
    ASSUME NEW l \in LtrState, CountersAgree(l), InflightAgrees(l), CandidatesAreHeld(l),
           NEW g \in l.inflight, NEW h \in l.inflight, BecomesGood(l, g), BecomesGood(l, h)
    PROVE  g = h
  <1>1. /\ g.counter \in Nat /\ h.counter \in Nat
        /\ l.intra_counter \in Nat /\ l.create_counter \in Nat
    BY DEF LtrState, LtrFrame
  <1>2. \A x \in l.inflight : x.type = "INTRA" => x.counter <= l.intra_counter
    BY DEF CountersAgree, InflightAgrees
  <1>3. g.counter = h.counter
    <2>1. CASE g.type = "INTRA" /\ h.type = "INTRA"
      BY <1>1, <1>2, <2>1 DEF BecomesGood
    <2>2. CASE g.type = "CREATE" /\ h.type = "CREATE"
      BY <2>2 DEF BecomesGood
    <2>3. CASE g.type = "INTRA" /\ h.type = "CREATE"
      BY <1>1, <1>2, <2>3 DEF BecomesGood, CandidatesAreHeld
    <2>4. CASE g.type = "CREATE" /\ h.type = "INTRA"
      BY <1>1, <1>2, <2>4 DEF BecomesGood, CandidatesAreHeld
    <2> QED BY <2>1, <2>2, <2>3, <2>4 DEF BecomesGood
  <1> QED BY <1>3 DEF InflightAgrees

\* What ltr_mark_frame_received leaves behind.
LEMMA AckFields ==
    ASSUME NEW l \in LtrState, CountersAgree(l), InflightAgrees(l), CandidatesAreHeld(l),
           NEW f \in l.inflight
    PROVE  LET n == AckFrame(l, f)
               acked == AckedWith(f, l.inflight)
           IN  /\ n \in LtrState
               /\ n.inflight = l.inflight \ acked
               /\ n.frame_counter = l.frame_counter
               /\ n.intra_counter = l.intra_counter /\ n.create_counter = l.create_counter
               /\ \/ /\ n.have_good = l.have_good
                     /\ n.good_index = l.good_index /\ n.good_counter = l.good_counter
                     /\ \A g \in acked : ~BecomesGood(l, g)
                  \/ \E g \in acked : /\ BecomesGood(l, g)
                                      /\ n.have_good = TRUE
                                      /\ n.good_index = g.index /\ n.good_counter = g.counter
  <1> DEFINE acked == AckedWith(f, l.inflight)
             good == {g \in acked : BecomesGood(l, g)}
             rest == DropAcked(l, acked)
             n == AckFrame(l, f)
  <1>1. acked \subseteq l.inflight
    BY DEF AckedWith
  <1>2. n = IF good = {} THEN rest ELSE TakeGood(rest, good)
    BY Zenon DEF AckFrame
  <1>3. /\ rest \in LtrState
        /\ rest.inflight = l.inflight \ acked
        /\ rest.frame_counter = l.frame_counter
        /\ rest.have_good = l.have_good
        /\ rest.good_index = l.good_index /\ rest.good_counter = l.good_counter
        /\ rest.intra_counter = l.intra_counter /\ rest.create_counter = l.create_counter
    BY DropAckedFields, Zenon
  <1>4. ASSUME NEW g \in good PROVE good = {g} /\ g \in LtrFrame
    BY <1>1, OneCandidate, LtrFields
  <1> HIDE DEF acked, rest, n
  <1>5. CASE good = {}
    BY <1>2, <1>3, <1>5 DEF n, acked
  <1>6. ASSUME NEW g \in good
        PROVE  /\ n \in LtrState
               /\ n.inflight = rest.inflight
               /\ n.frame_counter = rest.frame_counter
               /\ n.have_good = TRUE
               /\ n.good_index = g.index /\ n.good_counter = g.counter
               /\ n.intra_counter = rest.intra_counter /\ n.create_counter = rest.create_counter
    <2> HIDE DEF good
    <2>1. n = TakeGood(rest, good)
      BY <1>2, <1>6
    <2>2. good = {g} /\ g \in LtrFrame /\ rest \in LtrState
      BY <1>3, <1>4, <1>6
    <2> DEFINE m == TakeGood(rest, {g})
    <2>3. /\ m \in LtrState
          /\ m.inflight = rest.inflight
          /\ m.frame_counter = rest.frame_counter
          /\ m.have_good = TRUE
          /\ m.good_index = g.index /\ m.good_counter = g.counter
          /\ m.intra_counter = rest.intra_counter /\ m.create_counter = rest.create_counter
      BY <2>2, TakeGoodFields, Zenon
    <2> QED BY <2>1, <2>2, <2>3, Zenon
  <1> QED BY <1>3, <1>5, <1>6 DEF n, acked
\* Acking takes along whatever the acked frames refer to, and no more than has to.
LEMMA AckedWithIsClosed ==
    ASSUME NEW fr, NEW f \in fr, NEW C \in SUBSET fr, f \in C, IsClosed(C, fr)
    PROVE  AckedWith(f, fr) \subseteq C /\ f \in AckedWith(f, fr)
  BY DEF AckedWith

\* A server that forgets frames in flight and changes none of its counters still agrees.
LEMMA Forgetting ==
    ASSUME NEW l \in LtrState, NEW n \in LtrState, Agrees(l),
           n.inflight \subseteq l.inflight,
           n.frame_counter = l.frame_counter,
           n.intra_counter = l.intra_counter, n.create_counter = l.create_counter,
           n.have_good = l.have_good, n.good_index = l.good_index,
           n.good_counter = l.good_counter
    PROVE  Agrees(n) /\ (GoodIsHeld(l) => GoodIsHeld(n))
  <1>1. CountersAgree(n)
    BY DEF Agrees, CountersAgree
  <1>2. InflightAgrees(n)
    BY DEF Agrees, InflightAgrees
  <1>3. CandidatesAreHeld(n)
    BY DEF Agrees, CandidatesAreHeld, BecomesGood
  <1>4. AcksAreClosed(n)
    BY DEF Agrees, AcksAreClosed
  <1>5. GoodIsHeld(l) => GoodIsHeld(n)
    BY DEF GoodIsHeld
  <1> QED BY <1>1, <1>2, <1>3, <1>4, <1>5 DEF Agrees

\* Acking a frame keeps what the server knows right; acking one that the client has played makes
\* a reference good only if it is.
LEMMA AckFrameKeeps ==
    ASSUME Types, FramesAgree, NEW l \in LtrState, Agrees(l), NEW f \in l.inflight
    PROVE  /\ AckFrame(l, f) \in LtrState
           /\ Agrees(AckFrame(l, f))
           /\ f.id \in acks /\ GoodIsHeld(l) => GoodIsHeld(AckFrame(l, f))
  <1> DEFINE n == AckFrame(l, f)
             acked == AckedWith(f, l.inflight)
             Same == /\ n.have_good = l.have_good
                     /\ n.good_index = l.good_index /\ n.good_counter = l.good_counter
             Took(g) == /\ BecomesGood(l, g)
                        /\ n.have_good = TRUE
                        /\ n.good_index = g.index /\ n.good_counter = g.counter
  <1>1. CountersAgree(l) /\ InflightAgrees(l) /\ CandidatesAreHeld(l) /\ AcksAreClosed(l)
    BY DEF Agrees
  <1>2. /\ n \in LtrState
        /\ n.inflight = l.inflight \ acked
        /\ n.frame_counter = l.frame_counter
        /\ n.intra_counter = l.intra_counter /\ n.create_counter = l.create_counter
        /\ Same \/ \E g \in acked : Took(g)
    BY <1>1, AckFields, Zenon
  <1>3. acked \subseteq l.inflight
    BY DEF AckedWith
  <1>4. l.inflight \subseteq LtrFrame
    BY LtrFields
  <1>5. f.id \in acks => \A g \in acked : g.id \in acks
    <2> DEFINE C == {g \in l.inflight : g.id \in acks}
    <2>1. SUFFICES ASSUME f.id \in acks PROVE acked \subseteq C
      OBVIOUS
    <2>2. f \in C /\ C \in SUBSET l.inflight
      BY <2>1
    <2>3. IsClosed(C, l.inflight)
      BY <1>1 DEF AcksAreClosed, IsClosed
    <2> HIDE DEF C
    <2> QED BY <2>2, <2>3, AckedWithIsClosed
  <1>6. CASE Same
    <2>1. Agrees(n) /\ (GoodIsHeld(l) => GoodIsHeld(n))
      <3> HIDE DEF n, acked
      <3>1. n.inflight \subseteq l.inflight
        BY <1>2
      <3> QED BY <1>2, <1>6, <3>1, Forgetting
    <2> QED BY <1>2, <2>1
  <1>7. ASSUME NEW g \in acked, Took(g)
        PROVE  Agrees(n) /\ (f.id \in acks => GoodIsHeld(n))
    <2> HIDE DEF n, acked
    <2>1. /\ g \in l.inflight /\ g \in LtrFrame
          /\ BecomesGood(l, g)
          /\ n.have_good = TRUE /\ n.good_index = g.index /\ n.good_counter = g.counter
      BY <1>3, <1>4, <1>7
    <2>2. /\ g.id \in Made /\ g.type = frames[g.id].type /\ g.counter = frames[g.id].counter
          /\ g.type \in {"INTRA", "CREATE"} /\ IsReal(g.id)
          /\ g.counter >= l.intra_counter
          /\ g.type = "CREATE" => g.counter = l.create_counter
          /\ g.type = "INTRA" => l.create_counter < g.counter
          /\ g.counter \in Nat /\ l.intra_counter \in Nat /\ l.create_counter \in Nat
      <3>1. g.id \in Made /\ g.type = frames[g.id].type /\ g.counter = frames[g.id].counter
        BY <1>1, <2>1 DEF InflightAgrees
      <3>2. /\ g.type \in {"INTRA", "CREATE"} /\ g.counter >= l.intra_counter
            /\ g.type = "CREATE" => g.counter = l.create_counter
        BY <2>1 DEF BecomesGood
      <3>3. g.type = "INTRA" => l.create_counter < g.counter
        BY <1>1, <2>1, <3>2 DEF CandidatesAreHeld
      <3>4. g.counter \in Nat /\ l.intra_counter \in Nat /\ l.create_counter \in Nat
        BY <2>1, LtrFields DEF LtrFrame
      <3> QED BY <3>1, <3>2, <3>3, <3>4 DEF IsReal
    <2>3. CountersAgree(n)
      <3>1. g.counter <= l.frame_counter
        BY <1>1, <2>2 DEF CountersAgree
      <3> QED BY <1>1, <1>2, <2>1, <3>1 DEF CountersAgree
    <2>4. InflightAgrees(n)
      <3>1. \A h \in n.inflight : h.counter # n.good_counter
        BY <1>1, <1>2, <1>7, <2>1 DEF InflightAgrees
      <3> QED BY <1>1, <1>2, <3>1 DEF InflightAgrees
    <2>5. CandidatesAreHeld(n)
      <3>1. \A h \in n.inflight : ~(h.type = "INTRA" /\ h.counter >= n.intra_counter)
        <4>1. SUFFICES ASSUME NEW h \in n.inflight, h.type = "INTRA", h.counter >= n.intra_counter
                       PROVE  FALSE
          OBVIOUS
        <4>2. h \in l.inflight /\ h \notin acked /\ BecomesGood(l, h)
          BY <1>2, <4>1 DEF BecomesGood
        <4>3. g = h
          BY <1>1, <2>1, <4>2, OneCandidate
        <4> QED BY <1>7, <4>2, <4>3
      <3>2. \A h \in n.inflight : h \in l.inflight /\ (BecomesGood(n, h) => BecomesGood(l, h))
        BY <1>2 DEF BecomesGood
      <3> QED BY <1>1, <3>1, <3>2 DEF CandidatesAreHeld
    <2>6. AcksAreClosed(n)
      BY <1>1, <1>2 DEF AcksAreClosed
    <2>7. ASSUME f.id \in acks PROVE GoodIsHeld(n)
      <3>1. g.id \in acks
        BY <1>5, <1>7, <2>7
      <3>2. encoder.slots[g.index] = g.counter /\ decoder.slots[g.index] = g.counter
        BY <1>1, <2>1, <3>1 DEF CandidatesAreHeld
      <3>3. ASSUME NEW i \in Made, Awaited(i)
            PROVE  frames[i].type \notin {"INTRA", "CREATE"}
        <4>1. SUFFICES ASSUME frames[i].type \in {"INTRA", "CREATE"} PROVE FALSE
          OBVIOUS
        <4>2. g.id < i
          BY <3>1, <3>3 DEF Types, Awaited, Made
        <4>3. frames[g.id].counter < frames[i].counter
          BY <2>2, <4>1, <4>2 DEF FramesAgree, IsReal
        <4>4. /\ frames[i].type = "INTRA" => frames[i].counter <= l.intra_counter
              /\ frames[i].type = "CREATE" => frames[i].counter <= l.create_counter
          BY <1>1 DEF CountersAgree
        <4>5. frames[i].counter \in Nat
          BY MadeFrames
        <4> QED BY <2>2, <4>1, <4>3, <4>4, <4>5
      <3> QED BY <2>1, <3>2, <3>3 DEF GoodIsHeld
    <2> QED BY <2>3, <2>4, <2>5, <2>6, <2>7 DEF Agrees
  <1> QED BY <1>2, <1>6, <1>7
\* What the video thread knows after it has taken in an ack.
LEMMA AckedAgrees ==
    ASSUME IInv
    PROVE  /\ Acked \in LtrState
           /\ Agrees(Acked)
           /\ ~needs_restart => GoodIsHeld(Acked)
  <1> USE DEF IInv
  <1>1. ltr \in LtrState
    BY DEF Types
  <1>2. CASE frame_ack = 0 \/ ~\E f \in ltr.inflight : f.id = frame_ack
    <2>1. Acked = ltr
      BY <1>2 DEF Acked, MarkFrameReceived
    <2> QED BY <1>1, <2>1
  <1>3. CASE frame_ack # 0 /\ \E f \in ltr.inflight : f.id = frame_ack
    <2> DEFINE f == CHOOSE f \in ltr.inflight : f.id = frame_ack
    <2>1. f \in ltr.inflight /\ f.id = frame_ack
      BY <1>3
    <2>2. Acked = AckFrame(ltr, f)
      BY <1>3, Zenon DEF Acked, MarkFrameReceived
    <2> HIDE DEF f
    <2>3. ~needs_restart => f.id \in acks
      BY <1>3, <2>1 DEF AckIsTrue
    <2>4. /\ AckFrame(ltr, f) \in LtrState
          /\ Agrees(AckFrame(ltr, f))
          /\ f.id \in acks /\ GoodIsHeld(ltr) => GoodIsHeld(AckFrame(ltr, f))
      BY <1>1, <2>1, AckFrameKeeps
    <2> QED BY <2>2, <2>3, <2>4
  <1> QED BY <1>2, <1>3

\* ltr_force_intra sets a flag.
LEMMA ForceIntraFields ==
    ASSUME NEW l \in LtrState
    PROVE  LET n == ForceIntra(l) IN
           /\ n \in LtrState /\ n.intra_frame_needed
           /\ n.inflight = l.inflight /\ n.frame_counter = l.frame_counter
           /\ n.intra_counter = l.intra_counter /\ n.create_counter = l.create_counter
           /\ n.have_good = l.have_good /\ n.good_index = l.good_index
           /\ n.good_counter = l.good_counter
  <1>1. ForceIntra(l) = [l EXCEPT !.intra_frame_needed = TRUE]
    BY DEF ForceIntra
  <1> QED BY <1>1 DEF LtrState

\* ltr_mark_stream_broken forgets at most a frame in flight.
LEMMA MarkStreamBrokenFields ==
    ASSUME NEW l \in LtrState
    PROVE  LET n == MarkStreamBroken(l) IN
           /\ n \in LtrState
           /\ n.inflight \subseteq l.inflight /\ n.frame_counter = l.frame_counter
           /\ n.intra_counter = l.intra_counter /\ n.create_counter = l.create_counter
           /\ n.have_good = l.have_good /\ n.good_index = l.good_index
           /\ n.good_counter = l.good_counter
  <1> DEFINE n == MarkStreamBroken(l)
  <1>1. CASE l.inflight = {}
    <2>1. n = ForceIntra(l)
      BY <1>1, Zenon DEF MarkStreamBroken, ForceIntra
    <2> QED BY <2>1, ForceIntraFields
  <1>2. CASE l.inflight # {}
    <2> DEFINE f == CHOOSE f \in l.inflight : \A g \in l.inflight : g.counter <= f.counter
               current == f.counter >= l.intra_counter
               left == l.inflight \ {f}
               bad == l.last_frame_is_bad \/ l.frame_counter = f.counter
               refer == l.refer_outstanding /\ ~(current /\ f.type = "REFER")
               create == l.create_outstanding /\ ~(current /\ f.type = "CREATE")
    <2>1. n = NackFrame(l, f)
      BY <1>2, Zenon DEF MarkStreamBroken
    <2>2. NackFrame(l, f) = [l EXCEPT !.inflight = left, !.last_frame_is_bad = bad,
                                      !.refer_outstanding = refer, !.create_outstanding = create]
      BY Zenon DEF NackFrame
    <2>3. /\ left \subseteq l.inflight /\ left \subseteq LtrFrame
          /\ bad \in BOOLEAN /\ refer \in BOOLEAN /\ create \in BOOLEAN
      BY LtrFields
    <2> HIDE DEF n, f, current, left, bad, refer, create
    <2>4. l = [frame_counter |-> l.frame_counter, intra_frame_needed |-> l.intra_frame_needed,
               last_frame_is_bad |-> l.last_frame_is_bad,
               refer_outstanding |-> l.refer_outstanding,
               create_outstanding |-> l.create_outstanding,
               have_good |-> l.have_good, good_index |-> l.good_index,
               good_counter |-> l.good_counter, intra_counter |-> l.intra_counter,
               refer_counter |-> l.refer_counter, create_counter |-> l.create_counter,
               inflight |-> l.inflight]
      BY DEF LtrState
    <2>5. n = [frame_counter |-> l.frame_counter, intra_frame_needed |-> l.intra_frame_needed,
               last_frame_is_bad |-> bad,
               refer_outstanding |-> refer,
               create_outstanding |-> create,
               have_good |-> l.have_good, good_index |-> l.good_index,
               good_counter |-> l.good_counter, intra_counter |-> l.intra_counter,
               refer_counter |-> l.refer_counter, create_counter |-> l.create_counter,
               inflight |-> left]
      BY <2>1, <2>2, <2>4
    <2>6. n \in LtrState
      BY <2>3, <2>5, LtrFields DEF LtrState
    <2> QED BY <2>3, <2>5, <2>6 DEF n
  <1> QED BY <1>1, <1>2

\* What the video thread knows when it picks the type of the next frame.
LEMMA PreparedAgrees ==
    ASSUME IInv
    PROVE  /\ Prepared \in LtrState
           /\ Agrees(Prepared)
           /\ ~needs_restart => GoodIsHeld(Prepared)
           /\ needs_restart => Prepared.intra_frame_needed
  <1> DEFINE l == Acked
  <1>1. l \in LtrState /\ Agrees(l) /\ (~needs_restart => GoodIsHeld(l))
    BY AckedAgrees
  <1>2. /\ needs_restart => Prepared = ForceIntra(l)
        /\ ~needs_restart => Prepared \in {l, MarkStreamBroken(l)}
    BY DEF Prepared
  <1> HIDE DEF l
  <1>3. CASE needs_restart
    <2> DEFINE n == ForceIntra(l)
    <2>1. /\ n \in LtrState /\ n.intra_frame_needed
          /\ n.inflight = l.inflight /\ n.frame_counter = l.frame_counter
          /\ n.intra_counter = l.intra_counter /\ n.create_counter = l.create_counter
          /\ n.have_good = l.have_good /\ n.good_index = l.good_index
          /\ n.good_counter = l.good_counter
      BY <1>1, ForceIntraFields, Zenon
    <2> HIDE DEF n
    <2>2. n.inflight \subseteq l.inflight
      BY <2>1
    <2>3. Agrees(n)
      BY <1>1, <2>1, <2>2, Forgetting
    <2> QED BY <1>2, <1>3, <2>1, <2>3 DEF n
  <1>4. CASE ~needs_restart /\ Prepared = MarkStreamBroken(l)
    <2> DEFINE n == MarkStreamBroken(l)
    <2>1. /\ n \in LtrState
          /\ n.inflight \subseteq l.inflight /\ n.frame_counter = l.frame_counter
          /\ n.intra_counter = l.intra_counter /\ n.create_counter = l.create_counter
          /\ n.have_good = l.have_good /\ n.good_index = l.good_index
          /\ n.good_counter = l.good_counter
      BY <1>1, MarkStreamBrokenFields, Zenon
    <2> HIDE DEF n
    <2>2. Agrees(n) /\ (GoodIsHeld(l) => GoodIsHeld(n))
      BY <1>1, <2>1, Forgetting
    <2> QED BY <1>1, <1>4, <2>1, <2>2 DEF n
  <1> QED BY <1>1, <1>2, <1>3, <1>4

-----------------------------------------------------------------------------
(* The codecs *)

LEMMA CodecFields ==
    ASSUME NEW c \in Codec, NEW f, f.index \in {0, 1}, f.counter \in Nat
    PROVE  LET n == CodecAfter(c, f) IN
           /\ n \in Codec /\ n.last = f.counter
           /\ f.type = "INTRA" => n.slots[0] = f.counter
           /\ f.type = "CREATE" => /\ n.slots[f.index] = f.counter
                                   /\ \A i \in {0, 1} : i # f.index => n.slots[i] = c.slots[i]
           /\ f.type \notin {"INTRA", "CREATE"} => n.slots = c.slots
           /\ Reference(c, f) \in Nat
  <1> DEFINE n == CodecAfter(c, f)
  <1>1. c.last \in Nat /\ c.slots \in [{0, 1} -> Nat]
    BY DEF Codec
  <1>2. /\ n.last = f.counter
        /\ f.type = "INTRA" => n.slots = [i \in {0, 1} |-> IF i = 0 THEN f.counter ELSE 0]
        /\ f.type = "CREATE" => n.slots = [c.slots EXCEPT ![f.index] = f.counter]
        /\ f.type \notin {"INTRA", "CREATE"} => n.slots = c.slots
        /\ n = [last |-> n.last, slots |-> n.slots]
    BY DEF CodecAfter
  <1>3. Reference(c, f) \in Nat
    BY <1>1 DEF Reference
  <1> HIDE DEF n
  <1>4. n.slots \in [{0, 1} -> Nat]
    BY <1>1, <1>2
  <1>5. n \in Codec
    BY <1>2, <1>4 DEF Codec
  <1> QED BY <1>1, <1>2, <1>3, <1>5 DEF n
-----------------------------------------------------------------------------
(* The client *)

\* What udp_get_packet may hand over.
LEMMA PlayableFrames ==
    ASSUME IInv, NEW id, Playable(id)
    PROVE  /\ id \in Made /\ id > playing /\ Awaited(id)
           /\ \/ frames[id].type \in {"INTRA", "REFER"}
              \/ playing # -1 /\ id = playing + 1
  <1>1. Channel!CanFollow(id) => id \in Recovery \/ (playing # -1 /\ id = playing + 1)
    BY DEF Channel!CanFollow
  <1>2. id \in Made /\ id > playing /\ Awaited(id)
    BY DEF Playable, IInv, Types, Awaited
  <1> QED BY <1>1, <1>2 DEF Playable, Recovery, IsRecoveryType

\* A frame that is not a recovery point follows the frame that it was coded against.
LEMMA FollowsItsReference ==
    ASSUME IInv, NEW id, Playable(id), frames[id].type \in {"NORMAL", "CREATE"}
    PROVE  \E k \in acks : /\ k \in Made /\ k < id
                           /\ IsReal(k)
                           /\ frames[k].counter = decoder.last
                           /\ frames[k].counter = frames[id].counter - 1
                           /\ frames[id].needs = decoder.last
  <1> USE DEF IInv
  <1>1. id \in Made /\ playing # -1 /\ id = playing + 1 /\ IsReal(id)
    BY PlayableFrames DEF IsReal
  <1>2. PICK k \in acks : /\ k \in Made /\ k <= playing
                          /\ IsReal(k)
                          /\ frames[k].counter = decoder.last
                          /\ \A j \in k + 1 .. playing : ~IsReal(j)
    BY <1>1 DEF LastIsPlayed
  <1>3. k \in Nat /\ playing \in Int /\ k < id /\ k + 1 .. id - 1 = k + 1 .. playing
    BY <1>1, <1>2 DEF Types, Made
  <1>4. frames[id].counter = frames[k].counter + 1
    BY <1>1, <1>2, <1>3 DEF FramesAgree
  <1>5. frames[id].needs = frames[id].counter - 1
    BY <1>1 DEF FramesAgree
  <1>6. frames[k].counter \in Nat
    BY <1>2, MadeFrames
  <1> QED BY <1>2, <1>3, <1>4, <1>5, <1>6

LEMMA PlayableCanBeDecoded ==
    ASSUME IInv, NEW id, Playable(id)
    PROVE  CanDecode(id)
  <1> USE DEF IInv
  <1>1. id \in Made /\ Awaited(id) /\ frames[id].type \in FrameTypes \cup {"EMPTY"}
    BY PlayableFrames, MadeFrames
  <1>2. CASE frames[id].type = "EMPTY"
    BY <1>2 DEF CanDecode
  <1>3. CASE frames[id].type = "INTRA"
    BY <1>1, <1>3 DEF CanDecode, Reference, FramesAgree
  <1>4. CASE frames[id].type = "REFER"
    BY <1>1, <1>4 DEF CanDecode, Reference, RefersAreHeld
  <1>5. CASE frames[id].type \in {"NORMAL", "CREATE"}
    BY <1>5, FollowsItsReference DEF CanDecode, Reference
  <1> QED BY <1>1, <1>2, <1>3, <1>4, <1>5 DEF FrameTypes

\* render_video
LEMMA RenderFramePreserves ==
    ASSUME IInv, NEW id, RenderFrame(id)
    PROVE  IInv'
  <1> USE DEF IInv
  <1>1. /\ Playable(id) /\ CanDecode(id)
        /\ id \in Made /\ id > playing /\ Awaited(id)
        /\ frames[id].index \in {0, 1} /\ frames[id].counter \in Nat
        /\ frames[id].type \in FrameTypes \cup {"EMPTY"}
    BY PlayableFrames, PlayableCanBeDecoded, MadeFrames DEF RenderFrame
  <1>2. /\ playing' = id
        /\ UNCHANGED <<ltr, needs_restart, encoder, frames, queue, frame_ack, sent>>
    BY DEF RenderFrame, serverVars
  <1>3. playing \in Int /\ id \in Nat /\ playing >= -1 /\ id >= 1
    BY <1>1 DEF Types, Made
  <1>4. /\ Made' = Made
        /\ \A i \in Made : Awaited(i)' => Awaited(i) /\ i > id
        /\ \A i : IsReal(i)' = IsReal(i)
    BY <1>1, <1>2, <1>3 DEF Made, Awaited, IsReal
  <1>5. FramesAgree' /\ CountersAgree(ltr)' /\ InflightAgrees(ltr)'
    BY <1>2 DEF Agrees, FramesAgree, CountersAgree, InflightAgrees, Made, IsReal
  <1>6. /\ (ltr \in LtrState /\ needs_restart \in BOOLEAN /\ encoder \in Codec)'
        /\ (frames \in Seq(StreamFrame) /\ queue \in Seq(Nat))'
        /\ (\A k \in 1 .. Len(queue) : queue[k] \in Made)'
        /\ (sent \subseteq Made /\ playing \in Made)'
    BY <1>1, <1>2, <1>3, <1>4 DEF Types
  <1>7. \A i \in acks : /\ i \in Made' /\ i \in Made
                        /\ i <= playing' /\ i <= playing /\ i <= id
    BY <1>1, <1>2, <1>3, <1>4 DEF Types, Made
  <1>8. CASE frames[id].type = "EMPTY"
    <2>1. UNCHANGED <<acks, decoder>>
      BY <1>8 DEF RenderFrame
    <2>2. Types'
      <3>1. acks' = acks /\ decoder' \in Codec
        BY <2>1 DEF Types
      <3> QED BY <1>6, <1>7, <3>1 DEF Types
    <2>3. CandidatesAreHeld(ltr)' /\ AcksAreClosed(ltr)'
      BY <1>2, <2>1 DEF Agrees, CandidatesAreHeld, AcksAreClosed, BecomesGood
    <2>4. (~needs_restart => GoodIsHeld(ltr))'
      BY <1>2, <1>4, <2>1 DEF GoodIsHeld
    <2>5. RefersAreHeld'
      BY <1>2, <1>4, <2>1 DEF RefersAreHeld
    <2>6. LastIsPlayed'
      <3>1. playing # -1 /\ id = playing + 1
        BY <1>1, <1>8, PlayableFrames
      <3>2. ~IsReal(id)
        BY <1>8 DEF IsReal
      <3>3. PICK k \in acks : /\ k \in Made /\ k <= playing
                              /\ IsReal(k)
                              /\ frames[k].counter = decoder.last
                              /\ \A j \in k + 1 .. playing : ~IsReal(j)
        BY <3>1 DEF LastIsPlayed
      <3>4. k \in Nat /\ \A j \in k + 1 .. id : ~IsReal(j)
        BY <1>3, <3>1, <3>2, <3>3 DEF Made
      <3> QED BY <1>2, <1>3, <1>4, <2>1, <3>1, <3>3, <3>4 DEF LastIsPlayed
    <2>7. AckIsTrue'
      BY <1>2, <2>1 DEF AckIsTrue
    <2> QED BY <1>5, <2>2, <2>3, <2>4, <2>5, <2>6, <2>7 DEF Agrees
  <1>9. CASE frames[id].type # "EMPTY"
    <2> DEFINE f == frames[id]
    <2>1. acks' = acks \cup {id} /\ decoder' = CodecAfter(decoder, f)
      BY <1>1, <1>9 DEF RenderFrame
    <2>2. /\ decoder' \in Codec /\ decoder'.last = f.counter
          /\ f.type = "INTRA" => decoder'.slots[0] = f.counter
          /\ f.type = "CREATE" =>
                /\ decoder'.slots[f.index] = f.counter
                /\ \A i \in {0, 1} : i # f.index => decoder'.slots[i] = decoder.slots[i]
          /\ f.type \notin {"INTRA", "CREATE"} => decoder'.slots = decoder.slots
      <3> DEFINE n == CodecAfter(decoder, f)
      <3>1. decoder \in Codec
        BY DEF Types
      <3>2. /\ n \in Codec /\ n.last = f.counter
            /\ f.type = "INTRA" => n.slots[0] = f.counter
            /\ f.type = "CREATE" =>
                  /\ n.slots[f.index] = f.counter
                  /\ \A i \in {0, 1} : i # f.index => n.slots[i] = decoder.slots[i]
            /\ f.type \notin {"INTRA", "CREATE"} => n.slots = decoder.slots
        BY <1>1, <3>1, CodecFields
      <3> HIDE DEF n
      <3>3. decoder' = n
        BY <2>1 DEF n
      <3> QED BY <3>2, <3>3
    <2> HIDE DEF f
    <2>3. Types'
      <3>1. \A i \in acks' : i \in Made /\ i <= id
        BY <1>1, <1>3, <1>7, <2>1
      <3> QED BY <1>2, <1>4, <1>6, <2>2, <3>1 DEF Types
    <2>4. \A g \in ltr.inflight :
              /\ g.id \in Made /\ g.id \in Nat /\ g.counter \in Nat /\ g.index \in {0, 1}
              /\ g.type = frames[g.id].type /\ g.counter = frames[g.id].counter
              /\ g.index = frames[g.id].index
              /\ g.type \in FrameTypes
      <3>1. \A g \in ltr.inflight : g \in LtrFrame
        BY DEF Types, LtrState
      <3>2. \A g \in ltr.inflight : g.counter \in Nat /\ g.index \in {0, 1} /\ g.type \in FrameTypes
        BY <3>1 DEF LtrFrame
      <3> QED BY <3>2 DEF Agrees, InflightAgrees, Made
    <2>5. CandidatesAreHeld(ltr)'
      <3>1. ASSUME NEW g \in ltr.inflight, BecomesGood(ltr, g), g.id \in acks'
            PROVE  decoder'.slots[g.index] = g.counter
        <4>1. g.type \in {"INTRA", "CREATE"}
          BY <3>1 DEF BecomesGood
        <4>2. CASE g.id = id
          <5>1. g.type = f.type /\ g.counter = f.counter /\ g.index = f.index
            BY <2>4, <4>2 DEF f
          <5>2. f.type = "INTRA" => f.index = 0
            BY <1>1 DEF f, FramesAgree
          <5> QED BY <2>2, <4>1, <5>1, <5>2
        <4>3. CASE g.id # id
          <5>1. g.id \in acks /\ g.id < id
            BY <1>3, <2>1, <2>4, <3>1, <4>3, <1>1 DEF Types
          <5>2. decoder.slots[g.index] = g.counter
            BY <3>1, <5>1 DEF Agrees, CandidatesAreHeld
          <5>3. IsReal(g.id) /\ IsReal(id)
            BY <1>9, <2>4, <4>1 DEF IsReal
          <5>4. g.counter < f.counter
            BY <1>1, <2>4, <5>1, <5>3 DEF f, FramesAgree
          <5>5. f.type \notin {"INTRA", "CREATE"}
            <6>1. /\ f.type = "INTRA" => f.counter <= ltr.intra_counter
                  /\ f.type = "CREATE" => f.counter <= ltr.create_counter
              BY <1>1 DEF Agrees, CountersAgree, f
            <6>2. /\ g.counter >= ltr.intra_counter
                  /\ g.type = "CREATE" => g.counter = ltr.create_counter
              BY <3>1 DEF BecomesGood
            <6>3. g.type = "INTRA" => ltr.create_counter < g.counter
              BY <3>1, <6>2 DEF Agrees, CandidatesAreHeld
            <6>4. ltr.intra_counter \in Nat /\ ltr.create_counter \in Nat /\ f.counter \in Nat
              BY <1>1 DEF Types, LtrState, f
            <6> QED BY <2>4, <4>1, <5>4, <6>1, <6>2, <6>3, <6>4
          <5> QED BY <2>2, <5>2, <5>5
        <4> QED BY <4>2, <4>3
      <3>2. \A g : BecomesGood(ltr, g)' = BecomesGood(ltr, g)
        BY <1>2 DEF BecomesGood
      <3> QED BY <1>2, <3>1, <3>2 DEF Agrees, CandidatesAreHeld
    <2>6. AcksAreClosed(ltr)'
      <3>1. SUFFICES ASSUME NEW g \in ltr.inflight, NEW h \in ltr.inflight,
                            g.id \in acks', h.counter = g.ref
                     PROVE  h.id \in acks'
        BY <1>2 DEF AcksAreClosed
      <3>2. CASE g.id \in acks
        BY <2>1, <3>1, <3>2 DEF Agrees, AcksAreClosed
      <3>3. CASE g.id = id
        <4>1. /\ g.type = f.type /\ g.counter = f.counter
              /\ h.counter = frames[h.id].counter /\ h.counter >= 1 /\ IsReal(h.id)
          BY <2>4, <3>3 DEF f, FramesAgree, IsReal, FrameTypes
        <4>2. g.type \in {"NORMAL", "CREATE"} /\ h.counter = g.counter - 1
          <5>1. /\ g.type = "INTRA" => g.ref = 0
                /\ g.type \in {"NORMAL", "CREATE"} => g.ref = g.counter - 1
                /\ g.type = "REFER" => h.counter # g.ref
            BY DEF Agrees, InflightAgrees
          <5>2. g.type \in {"INTRA", "NORMAL", "CREATE", "REFER"} /\ h.counter # 0
            BY <2>4, <4>1 DEF FrameTypes
          <5> QED BY <3>1, <5>1, <5>2
        <4>3. PICK k \in acks : k \in Made /\ IsReal(k) /\ frames[k].counter = f.counter - 1
          BY <1>1, <4>1, <4>2, FollowsItsReference DEF f
        <4>4. k = h.id
          <5>1. k \in Nat /\ h.id \in Nat /\ h.id \in Made
                /\ frames[k].counter \in Nat /\ frames[k].counter = frames[h.id].counter
            BY <2>4, <4>1, <4>2, <4>3, MadeFrames
          <5> QED BY <4>1, <4>3, <5>1 DEF FramesAgree
        <4> QED BY <2>1, <4>3, <4>4
      <3> QED BY <2>1, <3>1, <3>2, <3>3
    <2>7. (~needs_restart => GoodIsHeld(ltr))'
      <3>1. SUFFICES ASSUME ~needs_restart, ltr.have_good
                     PROVE  /\ encoder.slots[ltr.good_index] = ltr.good_counter
                            /\ decoder'.slots[ltr.good_index] = ltr.good_counter
                            /\ \A i \in Made : Awaited(i)' =>
                                  /\ frames[i].type # "INTRA"
                                  /\ frames[i].type = "CREATE" => frames[i].index # ltr.good_index
        BY <1>2, <1>4 DEF GoodIsHeld
      <3>2. /\ encoder.slots[ltr.good_index] = ltr.good_counter
            /\ decoder.slots[ltr.good_index] = ltr.good_counter
            /\ \A i \in Made : Awaited(i) =>
                  /\ frames[i].type # "INTRA"
                  /\ frames[i].type = "CREATE" => frames[i].index # ltr.good_index
        BY <3>1 DEF GoodIsHeld
      <3>3. ltr.good_index \in {0, 1}
        BY DEF Types, LtrState
      <3> QED BY <1>1, <1>4, <2>2, <3>2, <3>3 DEF f
    <2>8. RefersAreHeld'
      <3>1. ASSUME NEW i \in Made, Awaited(i)', frames[i].type = "REFER"
            PROVE  decoder'.slots[frames[i].index] = frames[i].needs
        <4>1. Awaited(i) /\ id < i
          BY <1>3, <1>4, <3>1
        <4>2. /\ decoder.slots[frames[i].index] = frames[i].needs
              /\ f.type # "INTRA"
              /\ f.type = "CREATE" => f.index # frames[i].index
          BY <1>1, <3>1, <4>1 DEF RefersAreHeld, f
        <4>3. frames[i].index \in {0, 1}
          BY MadeFrames
        <4> QED BY <2>2, <4>2, <4>3
      <3> QED BY <1>2, <1>4, <3>1 DEF RefersAreHeld
    <2>9. LastIsPlayed'
      <3>1. id \in acks' /\ IsReal(id) /\ \A j \in id + 1 .. id : ~IsReal(j)
        BY <1>3, <1>9, <2>1 DEF IsReal
      <3> QED BY <1>1, <1>2, <1>3, <1>4, <2>2, <3>1 DEF LastIsPlayed, f
    <2>10. AckIsTrue'
      BY <1>2, <2>1 DEF AckIsTrue
    <2> QED BY <1>5, <2>3, <2>5, <2>6, <2>7, <2>8, <2>9, <2>10 DEF Agrees
  <1> QED BY <1>8, <1>9
-----------------------------------------------------------------------------
(* The server *)

\* Steps that make no frame, and after which no further frame is on its way.
LEMMA NothingNew ==
    ASSUME IInv,
           UNCHANGED <<encoder, frames, playing, acks, decoder>>,
           ltr' \in LtrState, Agrees(ltr'), ~needs_restart' => GoodIsHeld(ltr'),
           needs_restart' \in BOOLEAN,
           queue' \in Seq(Nat), \A k \in 1 .. Len(queue') : queue'[k] \in Made,
           sent' \subseteq Made,
           \A i \in Made : Awaited(i)' => Awaited(i),
           AckIsTrue'
    PROVE  IInv'
  <1> USE DEF IInv
  <1>1. Made' = Made /\ \A i : IsReal(i)' = IsReal(i)
    BY DEF Made, IsReal
  <1>2. Types'
    BY <1>1 DEF Types
  <1>3. FramesAgree'
    BY <1>1 DEF FramesAgree
  <1>4. Agrees(ltr)'
    <2>1. CountersAgree(ltr)'
      BY <1>1 DEF Agrees, CountersAgree
    <2>2. InflightAgrees(ltr)'
      BY <1>1 DEF Agrees, InflightAgrees
    <2>3. CandidatesAreHeld(ltr)'
      BY DEF Agrees, CandidatesAreHeld, BecomesGood
    <2>4. AcksAreClosed(ltr)'
      BY DEF Agrees, AcksAreClosed
    <2> QED BY <2>1, <2>2, <2>3, <2>4 DEF Agrees
  <1>5. (~needs_restart => GoodIsHeld(ltr))'
    BY <1>1 DEF GoodIsHeld
  <1>6. RefersAreHeld'
    BY <1>1 DEF RefersAreHeld
  <1>7. LastIsPlayed'
    BY <1>1 DEF LastIsPlayed
  <1> QED BY <1>2, <1>3, <1>4, <1>5, <1>6, <1>7

\* multithreaded_send_video without a frame
LEMMA PollPreserves ==
    ASSUME IInv, Poll
    PROVE  IInv'
  <1>1. /\ UNCHANGED <<encoder, frames, playing, acks, decoder, needs_restart, queue, sent>>
        /\ ltr' = Acked /\ frame_ack' = 0
    BY DEF Poll, clientVars, TakeMessages
  <1>2. ltr' \in LtrState /\ Agrees(ltr') /\ (~needs_restart' => GoodIsHeld(ltr'))
    BY <1>1, AckedAgrees
  <1>3. /\ needs_restart' \in BOOLEAN /\ queue' \in Seq(Nat)
        /\ \A k \in 1 .. Len(queue') : queue'[k] \in Made
        /\ sent' \subseteq Made
    BY <1>1 DEF IInv, Types
  <1>4. \A i \in Made : Awaited(i)' => Awaited(i)
    BY <1>1 DEF Awaited, Made
  <1>5. AckIsTrue'
    BY <1>1 DEF AckIsTrue
  <1> QED BY <1>1, <1>2, <1>3, <1>4, <1>5, NothingNew

\* A new start is asked for.
LEMMA RestartPreserves ==
    ASSUME IInv, Restart
    PROVE  IInv'
  <1>1. /\ UNCHANGED <<ltr, encoder, frames, playing, acks, decoder, queue, sent, frame_ack>>
        /\ needs_restart' = TRUE
    BY DEF Restart, clientVars
  <1>2. /\ ltr' \in LtrState /\ Agrees(ltr') /\ (~needs_restart' => GoodIsHeld(ltr'))
        /\ needs_restart' \in BOOLEAN /\ queue' \in Seq(Nat)
        /\ \A k \in 1 .. Len(queue') : queue'[k] \in Made
        /\ sent' \subseteq Made
    BY <1>1 DEF IInv, Types
  <1>3. \A i \in Made : Awaited(i)' => Awaited(i)
    BY <1>1 DEF Awaited, Made
  <1>4. AckIsTrue'
    BY <1>1 DEF AckIsTrue
  <1> QED BY <1>1, <1>2, <1>3, <1>4, NothingNew

\* multithreaded_send_video_packets
LEMMA SendFramePreserves ==
    ASSUME IInv, SendFrame
    PROVE  IInv'
  <1>1. /\ UNCHANGED <<ltr, needs_restart, encoder, frames, playing, acks, decoder, frame_ack>>
        /\ queue # <<>> /\ queue' = Tail(queue) /\ sent' = sent \cup {Head(queue)}
    BY DEF SendFrame, serverVars, clientVars
  <1>2. queue \in Seq(Nat) /\ \A k \in 1 .. Len(queue) : queue[k] \in Made
    BY DEF IInv, Types
  <1>3. /\ queue' \in Seq(Nat) /\ Head(queue) = queue[1] /\ 1 \in 1 .. Len(queue)
        /\ \A k \in 1 .. Len(queue') : k + 1 \in 1 .. Len(queue) /\ queue'[k] = queue[k + 1]
    BY <1>1, <1>2
  <1>4. /\ ltr' \in LtrState /\ Agrees(ltr') /\ (~needs_restart' => GoodIsHeld(ltr'))
        /\ needs_restart' \in BOOLEAN
        /\ \A k \in 1 .. Len(queue') : queue'[k] \in Made
        /\ sent' \subseteq Made
    BY <1>1, <1>2, <1>3 DEF IInv, Types
  <1>5. \A i \in Made : Awaited(i)' => Awaited(i)
    BY <1>1, <1>3 DEF Awaited, Made
  <1>6. AckIsTrue'
    BY <1>1 DEF AckIsTrue, IInv
  <1> QED BY <1>1, <1>3, <1>4, <1>5, <1>6, NothingNew

\* handle_frame_ack_message and udp_handle_stream_reset
LEMMA MessagesPreserve ==
    ASSUME IInv, NEW id, ReceiveFrameAck(id) \/ ReceiveStreamReset(id)
    PROVE  IInv'
  <1>1. /\ UNCHANGED <<ltr, needs_restart, encoder, frames, playing, acks, decoder, queue, sent>>
        /\ frame_ack' = frame_ack \/ frame_ack' \in acks
    BY DEF ReceiveFrameAck, ReceiveStreamReset, serverVars, clientVars
  <1>2. /\ ltr' \in LtrState /\ Agrees(ltr') /\ (~needs_restart' => GoodIsHeld(ltr'))
        /\ needs_restart' \in BOOLEAN /\ queue' \in Seq(Nat)
        /\ \A k \in 1 .. Len(queue') : queue'[k] \in Made
        /\ sent' \subseteq Made
    BY <1>1 DEF IInv, Types
  <1>3. \A i \in Made : Awaited(i)' => Awaited(i)
    BY <1>1 DEF Awaited, Made
  <1>4. AckIsTrue'
    BY <1>1 DEF AckIsTrue, IInv
  <1> QED BY <1>1, <1>2, <1>3, <1>4, NothingNew

\* A new client has received nothing, and nothing is on its way to it.
LEMMA ConnectPreserves ==
    ASSUME IInv, Connect, ~SlowSender
    PROVE  IInv'
  <1> USE DEF IInv
  <1>1. /\ UNCHANGED <<ltr, encoder, frames>>
        /\ needs_restart' = TRUE /\ queue' = <<>> /\ sent' = {} /\ playing' = -1 /\ acks' = {}
        /\ decoder' = NoReferences
    BY DEF Connect
  <1>2. Made' = Made /\ \A i : IsReal(i)' = IsReal(i) /\ ~Awaited(i)'
    BY <1>1 DEF Made, IsReal, Awaited
  <1>3. Types'
    <2>1. NoReferences \in Codec
      BY DEF NoReferences, Codec
    <2> QED BY <1>1, <1>2, <2>1 DEF Types
  <1>4. FramesAgree'
    BY <1>1, <1>2 DEF FramesAgree
  <1>5. Agrees(ltr)'
    <2>1. CountersAgree(ltr)'
      BY <1>1, <1>2 DEF Agrees, CountersAgree
    <2>2. InflightAgrees(ltr)'
      BY <1>1, <1>2 DEF Agrees, InflightAgrees
    <2>3. CandidatesAreHeld(ltr)'
      BY <1>1 DEF Agrees, CandidatesAreHeld, BecomesGood
    <2>4. AcksAreClosed(ltr)'
      BY <1>1 DEF Agrees, AcksAreClosed
    <2> QED BY <2>1, <2>2, <2>3, <2>4 DEF Agrees
  <1>6. RefersAreHeld' /\ LastIsPlayed' /\ AckIsTrue'
    BY <1>1, <1>2 DEF RefersAreHeld, LastIsPlayed, AckIsTrue
  <1> QED BY <1>1, <1>3, <1>4, <1>5, <1>6
\* A frame is made, and queued or not.
LEMMA OneMoreFrame ==
    ASSUME Types, NEW f \in StreamFrame, frames' = Append(frames, f),
           NEW id \in Nat, id = Len(frames) + 1,
           queue' = queue \/ queue' = Append(queue, id),
           UNCHANGED <<sent, playing>>
    PROVE  /\ id \notin Made
           /\ frames' \in Seq(StreamFrame) /\ Len(frames') = id
           /\ Made' = Made \cup {id} /\ \A i \in Made : i \in Nat /\ i < id
           /\ frames'[id] = f /\ \A i \in Made : frames'[i] = frames[i]
           /\ \A i \in Made : IsReal(i)' = IsReal(i) /\ (Awaited(i)' => Awaited(i))
           /\ IsReal(id)' = (f.type # "EMPTY")
           /\ queue' \in Seq(Nat) /\ \A k \in 1 .. Len(queue') : queue'[k] \in Made'
           /\ sent' \subseteq Made'
           /\ \A i \in acks : i \in Made'
  <1>1. /\ id \notin Made
        /\ frames' \in Seq(StreamFrame) /\ Len(frames') = id
        /\ frames'[id] = f /\ \A i \in Made : frames'[i] = frames[i]
    BY DEF Types, Made
  <1>2. Made' = Made \cup {id} /\ \A i \in Made : i \in Nat /\ i < id
    BY <1>1 DEF Made, Types
  <1>3. \A i \in Made : IsReal(i)' = IsReal(i)
    BY <1>1 DEF IsReal
  <1>4. IsReal(id)' = (f.type # "EMPTY")
    BY <1>1 DEF IsReal
  <1>5. /\ queue' \in Seq(Nat)
        /\ \A k \in 1 .. Len(queue') : \/ k \in 1 .. Len(queue) /\ queue'[k] = queue[k]
                                       \/ queue'[k] = id
    <2>1. queue \in Seq(Nat)
      BY DEF Types
    <2>2. CASE queue' = queue
      BY <2>1, <2>2
    <2>3. CASE queue' = Append(queue, id)
      BY <1>1, <2>1, <2>3
    <2> QED BY <2>2, <2>3
  <1>6. \A k \in 1 .. Len(queue') : queue'[k] \in Made'
    BY <1>2, <1>5 DEF Types
  <1>7. \A i \in Made : Awaited(i)' => Awaited(i)
    BY <1>1, <1>2, <1>5 DEF Awaited
  <1>8. sent' \subseteq Made' /\ \A i \in acks : i \in Made'
    BY <1>2 DEF Types
  <1> QED BY <1>1, <1>2, <1>3, <1>4, <1>5, <1>6, <1>7, <1>8

\* send_empty_frame
LEMMA SendEmptyFramePreserves ==
    ASSUME IInv, SendEmptyFrame
    PROVE  IInv'
  <1> USE DEF IInv
  <1> DEFINE a == Acked
  <1> PICK id \in Nat : id = Len(frames) + 1
    BY MadeFrames
  <1>1. /\ UNCHANGED <<encoder, sent, playing, acks, decoder, needs_restart>> /\ ~needs_restart
        /\ ltr' = a /\ frame_ack' = 0
        /\ frames' = Append(frames, EmptyFrame)
        /\ queue' = Append(queue, Len(frames'))
    BY DEF SendEmptyFrame, TakeMessages, clientVars
  <1>2. EmptyFrame \in StreamFrame /\ EmptyFrame.type = "EMPTY"
    BY DEF EmptyFrame, StreamFrame, FrameTypes
  <1>3. Len(frames') = id
    BY <1>1, <1>2 DEF Types
  <1>4. /\ id \notin Made
        /\ frames' \in Seq(StreamFrame) /\ Len(frames') = id
        /\ Made' = Made \cup {id} /\ \A i \in Made : i \in Nat /\ i < id
        /\ frames'[id] = EmptyFrame /\ \A i \in Made : frames'[i] = frames[i]
        /\ \A i \in Made : IsReal(i)' = IsReal(i) /\ (Awaited(i)' => Awaited(i))
        /\ ~IsReal(id)'
        /\ queue' \in Seq(Nat) /\ \A k \in 1 .. Len(queue') : queue'[k] \in Made'
        /\ sent' \subseteq Made'
        /\ \A i \in acks : i \in Made'
    BY <1>1, <1>2, <1>3, OneMoreFrame
  <1>5. a \in LtrState /\ Agrees(a) /\ GoodIsHeld(a)
    BY <1>1, AckedAgrees
  <1> HIDE DEF a
  <1>6. frames'[id].type = "EMPTY"
    BY <1>2, <1>4
  <1>7. Types'
    BY <1>1, <1>4, <1>5 DEF Types
  <1>8. FramesAgree'
    <2>1. \A i \in Made' : IsReal(i)' => i \in Made /\ IsReal(i)
      BY <1>4
    <2>2. ASSUME NEW i \in Made, NEW j \in Made, i < j, IsReal(i), IsReal(j),
                 \A k \in i + 1 .. j - 1 : ~IsReal(k)'
          PROVE  frames[j].counter = frames[i].counter + 1
      <3>1. \A k \in i + 1 .. j - 1 : k \in Made
        BY <1>4 DEF Made
      <3> QED BY <1>4, <2>2, <3>1 DEF FramesAgree
    <2>3. \A i \in Made' : /\ frames'[i].type = "INTRA" => frames'[i].index = 0 /\ frames'[i].needs = 0
                           /\ frames'[i].type \in {"NORMAL", "CREATE"} =>
                                  frames'[i].needs = frames'[i].counter - 1
      BY <1>4, <1>6 DEF FramesAgree
    <2>4. \A i \in Made' : IsReal(i)' => frames'[i].counter >= 1
      BY <1>4, <2>1 DEF FramesAgree
    <2>5. \A i, j \in Made' : i < j /\ IsReal(i)' /\ IsReal(j)' =>
              frames'[i].counter < frames'[j].counter
      BY <1>4, <2>1 DEF FramesAgree
    <2>6. \A i, j \in Made' :
              i < j /\ IsReal(i)' /\ IsReal(j)' /\ (\A k \in i + 1 .. j - 1 : ~IsReal(k)') =>
                  frames'[j].counter = frames'[i].counter + 1
      BY <1>4, <2>1, <2>2
    <2> QED BY <2>3, <2>4, <2>5, <2>6 DEF FramesAgree
  <1>9. CountersAgree(ltr)'
    <2>1. ASSUME NEW i \in Made, IsReal(i), \A k \in i + 1 .. id : ~IsReal(k)'
          PROVE  frames[i].counter = a.frame_counter
      <3>1. \A k \in i + 1 .. Len(frames) : k \in Made /\ k \in i + 1 .. id
        BY <1>4 DEF Made, Types
      <3> QED BY <1>4, <1>5, <2>1, <3>1 DEF Agrees, CountersAgree
    <2> QED BY <1>1, <1>4, <1>5, <1>6, <2>1, ZenonT(30) DEF Agrees, CountersAgree
  <1>10. InflightAgrees(ltr)' /\ CandidatesAreHeld(ltr)' /\ AcksAreClosed(ltr)'
    <2>1. InflightAgrees(ltr)'
      <3>1. ASSUME NEW g \in a.inflight
            PROVE  /\ g.id \in Made' /\ g.type = frames'[g.id].type
                   /\ g.counter = frames'[g.id].counter /\ g.index = frames'[g.id].index
        BY <1>4, <1>5 DEF Agrees, InflightAgrees
      <3> QED BY <1>1, <1>5, <3>1 DEF Agrees, InflightAgrees
    <2>2. CandidatesAreHeld(ltr)'
      BY <1>1, <1>5 DEF Agrees, CandidatesAreHeld, BecomesGood
    <2>3. AcksAreClosed(ltr)'
      BY <1>1, <1>5 DEF Agrees, AcksAreClosed
    <2> QED BY <2>1, <2>2, <2>3
  <1>11. (~needs_restart => GoodIsHeld(ltr))'
    BY <1>1, <1>4, <1>5, <1>6, ZenonT(30) DEF GoodIsHeld
  <1>12. RefersAreHeld'
    <2>1. \A i \in Made' : frames'[i].type = "REFER" => i \in Made /\ frames[i].type = "REFER"
      BY <1>4, <1>6
    <2>2. ASSUME NEW i \in Made, Awaited(i)', frames'[i].type = "REFER"
          PROVE  /\ decoder.slots[frames'[i].index] = frames'[i].needs
                 /\ \A j \in Made' : Awaited(j)' /\ j < i =>
                       /\ frames'[j].type # "INTRA"
                       /\ frames'[j].type = "CREATE" => frames'[j].index # frames'[i].index
      <3>1. Awaited(i) /\ frames'[i] = frames[i]
        BY <1>4, <2>2
      <3>2. \A j \in Made' :
               j < i => j \in Made /\ frames'[j] = frames[j] /\ (Awaited(j)' => Awaited(j))
        BY <1>4
      <3>3. /\ decoder.slots[frames[i].index] = frames[i].needs
            /\ \A j \in Made : Awaited(j) /\ j < i =>
                  /\ frames[j].type # "INTRA"
                  /\ frames[j].type = "CREATE" => frames[j].index # frames[i].index
        BY <2>2, <3>1 DEF RefersAreHeld
      <3> QED BY <3>1, <3>2, <3>3
    <2> QED BY <1>1, <2>1, <2>2 DEF RefersAreHeld
  <1>13. LastIsPlayed'
    <2>1. SUFFICES ASSUME playing # -1
                   PROVE  \E k \in acks : /\ k \in Made' /\ k <= playing
                                          /\ IsReal(k)'
                                          /\ frames'[k].counter = decoder.last
                                          /\ \A j \in k + 1 .. playing : ~IsReal(j)'
      BY <1>1 DEF LastIsPlayed
    <2>2. PICK k \in acks : /\ k \in Made /\ k <= playing
                            /\ IsReal(k)
                            /\ frames[k].counter = decoder.last
                            /\ \A j \in k + 1 .. playing : ~IsReal(j)
      BY <2>1 DEF LastIsPlayed
    <2>3. \A j \in k + 1 .. playing : ~IsReal(j)'
      <3>1. playing \in Made /\ k \in Nat
        BY <1>4, <2>1, <2>2 DEF Types
      <3> QED BY <1>4, <2>2, <3>1 DEF Made
    <2> QED BY <1>4, <2>2, <2>3
  <1>14. AckIsTrue'
    BY <1>1 DEF AckIsTrue
  <1> QED BY <1>7, <1>8, <1>9, <1>10, <1>11, <1>12, <1>13, <1>14 DEF Agrees
\* multithreaded_send_video with a frame
LEMMA EncodeFramePreserves ==
    ASSUME IInv, NEW fits \in BOOLEAN, EncodeFrame(fits)
    PROVE  IInv'
  <1> USE DEF IInv
  <1> PICK id \in Nat : id = Len(frames) + 1
    BY MadeFrames
  <1>l. PICK l : l = Prepared
    OBVIOUS
  <1> DEFINE f == NextFrame(l, id)
             n == GetNextAction(l, f)
  <1>r. PICK needs : needs = Reference(encoder, f)
    OBVIOUS
  <1> DEFINE r == [type |-> f.type, index |-> f.index, counter |-> f.counter, needs |-> needs]
  <1>1. /\ UNCHANGED <<sent, playing, acks, decoder>>
        /\ needs_restart' = FALSE /\ frame_ack' = 0
        /\ ltr' = n
        /\ frames' = Append(frames, r)
        /\ encoder' = CodecAfter(encoder, f)
        /\ queue' = queue \/ queue' = Append(queue, id)
    BY <1>l, <1>r DEF EncodeFrame, TakeMessages, clientVars
  <1>2. /\ l \in LtrState
        /\ CountersAgree(l) /\ InflightAgrees(l) /\ CandidatesAreHeld(l) /\ AcksAreClosed(l)
        /\ ~needs_restart => GoodIsHeld(l)
        /\ needs_restart => l.intra_frame_needed
    BY <1>l, PreparedAgrees DEF Agrees
  <1>3. /\ f \in LtrFrame
        /\ f.id = id /\ f.counter = l.frame_counter + 1
        /\ f.type = "INTRA" => f.index = 0 /\ f.ref = 0
        /\ f.type = "REFER" => l.have_good /\ f.index = l.good_index /\ f.ref = l.good_counter
        /\ f.type = "CREATE" => l.have_good /\ f.index = 1 - l.good_index
        /\ f.type \in {"NORMAL", "CREATE"} => f.ref = f.counter - 1
        /\ l.intra_frame_needed => f.type = "INTRA"
    BY <1>2, NextFrameFields
  <1> HIDE DEF f
  <1>4. /\ n \in LtrState
        /\ n.frame_counter = f.counter
        /\ n.have_good = (l.have_good /\ f.type # "INTRA")
        /\ n.good_index = l.good_index /\ n.good_counter = l.good_counter
        /\ n.intra_counter = IF f.type = "INTRA" THEN f.counter ELSE l.intra_counter
        /\ n.create_counter = IF f.type = "CREATE" THEN f.counter ELSE l.create_counter
        /\ f \in n.inflight
        /\ \A g \in n.inflight : g = f \/ g \in l.inflight
    BY <1>2, <1>3, NextActionFields, Zenon
  <1> HIDE DEF n
  <1>5. /\ f.index \in {0, 1} /\ f.counter \in Nat /\ f.type \in FrameTypes
        /\ l.frame_counter \in Nat /\ l.intra_counter \in Nat /\ l.create_counter \in Nat
        /\ l.good_counter \in Nat /\ l.good_index \in {0, 1} /\ f.ref \in Nat
        /\ l.have_good \in BOOLEAN
    BY <1>2, <1>3, LtrFields DEF LtrFrame
  <1>6. /\ encoder' \in Codec /\ encoder'.last = f.counter
        /\ f.type = "INTRA" => encoder'.slots[0] = f.counter
        /\ f.type = "CREATE" =>
              /\ encoder'.slots[f.index] = f.counter
              /\ \A i \in {0, 1} : i # f.index => encoder'.slots[i] = encoder.slots[i]
        /\ f.type \notin {"INTRA", "CREATE"} => encoder'.slots = encoder.slots
        /\ needs \in Nat
    <2> DEFINE c == CodecAfter(encoder, f)
    <2>1. encoder \in Codec
      BY DEF Types
    <2>2. /\ c \in Codec /\ c.last = f.counter
          /\ f.type = "INTRA" => c.slots[0] = f.counter
          /\ f.type = "CREATE" =>
                /\ c.slots[f.index] = f.counter
                /\ \A i \in {0, 1} : i # f.index => c.slots[i] = encoder.slots[i]
          /\ f.type \notin {"INTRA", "CREATE"} => c.slots = encoder.slots
          /\ needs \in Nat
      BY <1>5, <1>r, <2>1, CodecFields
    <2> HIDE DEF c
    <2>3. encoder' = c
      BY <1>1 DEF c
    <2> QED BY <2>2, <2>3
  <1>7. /\ f.type = "INTRA" => needs = 0
        /\ f.type = "REFER" => needs = encoder.slots[f.index]
        /\ f.type \in {"NORMAL", "CREATE"} => needs = f.counter - 1
    BY <1>2, <1>3, <1>5, <1>r DEF Reference, CountersAgree
  <1>8. /\ r \in StreamFrame
        /\ r.type = f.type /\ r.index = f.index /\ r.counter = f.counter /\ r.needs = needs
    BY <1>5, <1>6 DEF StreamFrame
  <1> HIDE DEF r
  <1>9. /\ id \notin Made
        /\ frames' \in Seq(StreamFrame) /\ Len(frames') = id
        /\ Made' = Made \cup {id} /\ \A i \in Made : i \in Nat /\ i < id
        /\ frames'[id] = r /\ \A i \in Made : frames'[i] = frames[i]
        /\ \A i \in Made : IsReal(i)' = IsReal(i) /\ (Awaited(i)' => Awaited(i))
        /\ IsReal(id)' = (r.type # "EMPTY")
        /\ queue' \in Seq(Nat) /\ \A k \in 1 .. Len(queue') : queue'[k] \in Made'
        /\ sent' \subseteq Made'
        /\ \A i \in acks : i \in Made'
    <2>1. Types /\ UNCHANGED <<sent, playing>>
      BY <1>1
    <2> QED BY <1>1, <1>8, <2>1, OneMoreFrame, ZenonT(30)
  <1>10. IsReal(id)'
    BY <1>5, <1>8, <1>9 DEF FrameTypes
  <1>11. Types'
    BY <1>1, <1>4, <1>6, <1>9 DEF Types
  <1>12. \A i \in Made : IsReal(i) => frames[i].counter \in Nat /\ frames[i].counter < f.counter
    BY <1>2, <1>3, <1>5, MadeFrames DEF CountersAgree
  <1>13. \A g \in l.inflight :
            /\ g.id \in Made /\ g.counter \in Nat /\ g.counter < f.counter
            /\ g.ref < f.counter /\ g.ref \in Nat /\ g.type \in FrameTypes
            /\ g.index \in {0, 1}
    <2>1. ASSUME NEW g \in l.inflight
          PROVE  /\ g.id \in Made /\ g.counter \in Nat /\ g.counter < f.counter
                 /\ g.ref < f.counter /\ g.ref \in Nat /\ g.type \in FrameTypes
                 /\ g.index \in {0, 1}
      <3>1. g.counter \in Nat /\ g.type \in FrameTypes /\ g.ref \in Nat /\ g.index \in {0, 1}
        BY <1>2, LtrFields DEF LtrFrame
      <3>2. /\ g.id \in Made /\ g.type = frames[g.id].type /\ g.counter = frames[g.id].counter
            /\ g.ref < g.counter
        BY <1>2 DEF InflightAgrees
      <3>3. g.counter < f.counter
        BY <1>12, <3>1, <3>2 DEF IsReal, FrameTypes
      <3> QED BY <1>5, <3>1, <3>2, <3>3
    <2> QED BY <2>1
  <1>14. FramesAgree'
    <2>1. \A i \in Made' : IsReal(i)' => frames'[i].counter >= 1
      BY <1>3, <1>5, <1>8, <1>9 DEF FramesAgree
    <2>2. \A i, j \in Made' : i < j /\ IsReal(i)' /\ IsReal(j)' =>
              frames'[i].counter < frames'[j].counter
      BY <1>8, <1>9, <1>12, SMTT(20) DEF FramesAgree
    <2>3. ASSUME NEW i \in Made', NEW j \in Made', i < j, IsReal(i)', IsReal(j)',
                 \A k \in i + 1 .. j - 1 : ~IsReal(k)'
          PROVE  frames'[j].counter = frames'[i].counter + 1
      <3>1. i \in Made /\ IsReal(i) /\ i \in Nat /\ j \in Nat /\ frames'[i] = frames[i]
        BY <1>9, <2>3
      <3>2. \A k \in i + 1 .. j - 1 : k \in Made /\ ~IsReal(k)
        <4>1. \A k \in i + 1 .. j - 1 : k \in Made
          BY <1>9, <3>1 DEF Made
        <4> QED BY <1>9, <2>3, <4>1
      <3>3. CASE j \in Made
        BY <1>9, <2>3, <3>1, <3>2, <3>3 DEF FramesAgree
      <3>4. CASE j = id
        <4>1. frames[i].counter = l.frame_counter
          BY <1>2, <3>1, <3>2, <3>4 DEF CountersAgree
        <4> QED BY <1>3, <1>5, <1>8, <1>9, <3>1, <3>4, <4>1
      <3> QED BY <1>9, <3>3, <3>4
    <2>4. \A i \in Made' : /\ frames'[i].type = "INTRA" => frames'[i].index = 0 /\ frames'[i].needs = 0
                           /\ frames'[i].type \in {"NORMAL", "CREATE"} =>
                                  frames'[i].needs = frames'[i].counter - 1
      BY <1>3, <1>7, <1>8, <1>9 DEF FramesAgree
    <2> QED BY <2>1, <2>2, <2>3, <2>4 DEF FramesAgree
  <1>15. CountersAgree(ltr)'
    <2>1. /\ encoder'.last = n.frame_counter
          /\ n.intra_counter <= n.frame_counter /\ n.create_counter <= n.frame_counter
          /\ n.have_good => n.good_counter <= n.frame_counter
      BY <1>2, <1>3, <1>4, <1>5, <1>6 DEF CountersAgree
    <2>2. \A i \in Made' : IsReal(i)' => frames'[i].counter <= n.frame_counter
      <3>1. \A i \in Made : IsReal(i)' => frames'[i].counter < n.frame_counter
                                         /\ frames'[i].counter \in Nat
        BY <1>4, <1>9, <1>12
      <3>2. frames'[id].counter = n.frame_counter /\ n.frame_counter \in Nat
        BY <1>4, <1>5, <1>8, <1>9
      <3> QED BY <1>9, <3>1, <3>2
    <2>3. \A i \in Made' : IsReal(i)' /\ (\A k \in i + 1 .. id : ~IsReal(k)') =>
              frames'[i].counter = n.frame_counter
      <3>1. \A i \in Made : id \in i + 1 .. id
        BY <1>9
      <3> QED BY <1>4, <1>8, <1>9, <1>10, <3>1
    <2>4. \A i \in Made' : /\ frames'[i].type = "INTRA" => frames'[i].counter <= n.intra_counter
                           /\ frames'[i].type = "CREATE" => frames'[i].counter <= n.create_counter
      <3>1. \A i \in Made : /\ frames[i].type = "INTRA" => frames[i].counter <= l.intra_counter
                            /\ frames[i].type = "CREATE" => frames[i].counter <= l.create_counter
                            /\ frames[i].counter \in Nat
        BY <1>2, MadeFrames DEF CountersAgree
      <3>2. l.intra_counter <= n.intra_counter /\ l.create_counter <= n.create_counter
        BY <1>2, <1>3, <1>4, <1>5 DEF CountersAgree
      <3>3. n.intra_counter \in Nat /\ n.create_counter \in Nat
        BY <1>4, <1>5
      <3>4. \A i \in Made : /\ frames'[i].type = "INTRA" => frames'[i].counter <= n.intra_counter
                            /\ frames'[i].type = "CREATE" => frames'[i].counter <= n.create_counter
        <4>1. ASSUME NEW i \in Made
              PROVE  /\ frames[i].type = "INTRA" => frames[i].counter <= n.intra_counter
                     /\ frames[i].type = "CREATE" => frames[i].counter <= n.create_counter
          BY <1>5, <3>1, <3>2, <3>3
        <4> QED BY <1>9, <4>1
      <3>5. /\ frames'[id].type = "INTRA" => frames'[id].counter <= n.intra_counter
            /\ frames'[id].type = "CREATE" => frames'[id].counter <= n.create_counter
        BY <1>4, <1>5, <1>8, <1>9
      <3> QED BY <1>9, <3>4, <3>5
    <2> QED BY <1>1, <1>9, <2>1, <2>2, <2>3, <2>4 DEF CountersAgree
  <1>16. InflightAgrees(ltr)'
    <2>1. ASSUME NEW g \in n.inflight
          PROVE  /\ g.id \in Made' /\ g.type = frames'[g.id].type
                 /\ g.counter = frames'[g.id].counter /\ g.index = frames'[g.id].index
                 /\ g.ref < g.counter
                 /\ g.type = "INTRA" => g.ref = 0
                 /\ g.type \in {"NORMAL", "CREATE"} => g.ref = g.counter - 1
      <3>1. CASE g = f
        <4>1. f.ref < f.counter
          BY <1>2, <1>3, <1>5 DEF CountersAgree, FrameTypes
        <4> QED BY <1>3, <1>8, <1>9, <3>1, <4>1
      <3>2. CASE g \in l.inflight
        BY <1>2, <1>9, <3>2 DEF InflightAgrees
      <3> QED BY <1>4, <3>1, <3>2
    <2>2. ASSUME NEW g \in n.inflight, NEW h \in n.inflight
          PROVE  /\ g.type = "REFER" => h.counter # g.ref
                 /\ g.counter = h.counter => g = h
                 /\ n.have_good => g.counter # n.good_counter
      <3>1. CASE g = f
        <4>1. n.have_good => f.counter # n.good_counter
          BY <1>2, <1>3, <1>4, <1>5 DEF CountersAgree
        <4>2. h = f \/ (h \in l.inflight /\ h.counter # f.counter)
          BY <1>4, <1>13, <1>5
        <4>3. f.type = "REFER" => h.counter # f.ref
          <5>1. f.type = "REFER" => /\ \A x \in l.inflight : x.counter # f.ref
                                    /\ f.counter # f.ref
            BY <1>2, <1>3, <1>5 DEF InflightAgrees, CountersAgree
          <5> QED BY <1>4, <5>1
        <4> QED BY <3>1, <4>1, <4>2, <4>3
      <3>2. CASE g \in l.inflight /\ h = f
        BY <1>2, <1>4, <1>5, <1>13, <3>2 DEF InflightAgrees
      <3>3. CASE g \in l.inflight /\ h \in l.inflight
        BY <1>2, <1>4, <3>3 DEF InflightAgrees
      <3> QED BY <1>4, <3>1, <3>2, <3>3
    <2> QED BY <1>1, <2>1, <2>2 DEF InflightAgrees
  <1>17. CandidatesAreHeld(ltr)'
    <2>1. ASSUME NEW g \in n.inflight
          PROVE  /\ g.type = "INTRA" /\ g.counter >= n.intra_counter =>
                       ~n.have_good /\ n.create_counter < g.counter
                 /\ BecomesGood(n, g) => encoder'.slots[g.index] = g.counter
                 /\ BecomesGood(n, g) /\ g.id \in acks => decoder.slots[g.index] = g.counter
      <3>1. CASE g = f
        <4>1. f.id \notin acks
          BY <1>3, <1>9 DEF Types
        <4>2. f.type = "INTRA" => ~n.have_good /\ n.create_counter < f.counter
          <5>1. l.create_counter < f.counter
            BY <1>2, <1>3, <1>5 DEF CountersAgree
          <5> QED BY <1>4, <5>1
        <4>3. f.type \in {"INTRA", "CREATE"} => encoder'.slots[f.index] = f.counter
          BY <1>3, <1>6
        <4> QED BY <3>1, <4>1, <4>2, <4>3 DEF BecomesGood
      <3>2. CASE g \in l.inflight
        <4>1. g.counter \in Nat /\ g.counter < f.counter /\ g.index \in {0, 1}
          BY <1>13, <3>2
        <4>2. g.counter >= n.intra_counter => f.type # "INTRA" /\ n.intra_counter = l.intra_counter
          BY <1>4, <1>5, <4>1
        <4>3. g.type = "INTRA" /\ g.counter >= n.intra_counter =>
                 ~l.have_good /\ l.create_counter < g.counter
          BY <1>2, <3>2, <4>2 DEF CandidatesAreHeld
        <4>4. g.type = "INTRA" /\ g.counter >= n.intra_counter =>
                 f.type # "CREATE" /\ ~n.have_good /\ n.create_counter < g.counter
          BY <1>3, <1>4, <4>3
        <4>5. BecomesGood(n, g) => BecomesGood(l, g) /\ f.type \notin {"INTRA", "CREATE"}
          BY <1>4, <1>5, <4>1, <4>2, <4>4 DEF BecomesGood
        <4> QED BY <1>2, <1>6, <3>2, <4>4, <4>5 DEF CandidatesAreHeld
      <3> QED BY <1>4, <3>1, <3>2
    <2>2. \A g : BecomesGood(ltr, g)' = BecomesGood(n, g)
      BY <1>1 DEF BecomesGood
    <2> QED BY <1>1, <2>1, <2>2 DEF CandidatesAreHeld
  <1>18. AcksAreClosed(ltr)'
    <2>1. ASSUME NEW g \in n.inflight, NEW h \in n.inflight, g.id \in acks, h.counter = g.ref
          PROVE  h.id \in acks
      <3>1. f.id \notin acks
        BY <1>3, <1>9 DEF Types
      <3>2. g \in l.inflight /\ h \in l.inflight
        BY <1>4, <1>5, <1>13, <2>1, <3>1
      <3> QED BY <1>2, <2>1, <3>2 DEF AcksAreClosed
    <2> QED BY <1>1, <2>1 DEF AcksAreClosed
  <1>19. l.have_good /\ f.type # "INTRA" =>
            /\ encoder.slots[l.good_index] = l.good_counter
            /\ decoder.slots[l.good_index] = l.good_counter
            /\ \A i \in Made : Awaited(i) =>
                  /\ frames[i].type # "INTRA"
                  /\ frames[i].type = "CREATE" => frames[i].index # l.good_index
    BY <1>2, <1>3 DEF GoodIsHeld, Types
  <1>20. (~needs_restart => GoodIsHeld(ltr))'
    <2>1. n.have_good => encoder'.slots[l.good_index] = encoder.slots[l.good_index]
      <3>1. f.type = "CREATE" => l.good_index # f.index
        BY <1>3, <1>5
      <3>2. CASE f.type = "CREATE"
        BY <1>5, <1>6, <3>1, <3>2
      <3>3. CASE f.type \notin {"INTRA", "CREATE"}
        BY <1>6, <3>3
      <3> QED BY <1>4, <3>2, <3>3
    <2>2. n.have_good => \A i \in Made' : Awaited(i)' =>
              /\ frames'[i].type # "INTRA"
              /\ frames'[i].type = "CREATE" => frames'[i].index # l.good_index
      <3>1. n.have_good => \A i \in Made : Awaited(i)' =>
                /\ frames'[i].type # "INTRA"
                /\ frames'[i].type = "CREATE" => frames'[i].index # l.good_index
        BY <1>4, <1>9, <1>19
      <3>2. n.have_good => /\ frames'[id].type # "INTRA"
                           /\ frames'[id].type = "CREATE" => frames'[id].index # l.good_index
        <4>1. f.type = "CREATE" => f.index # l.good_index
          BY <1>3, <1>5
        <4> QED BY <1>4, <1>8, <1>9, <4>1
      <3> QED BY <1>9, <3>1, <3>2
    <2> QED BY <1>1, <1>4, <1>19, <2>1, <2>2 DEF GoodIsHeld
  <1>21. RefersAreHeld'
    <2>1. ASSUME NEW i \in Made, Awaited(i)', frames'[i].type = "REFER"
          PROVE  /\ decoder.slots[frames'[i].index] = frames'[i].needs
                 /\ \A j \in Made' : Awaited(j)' /\ j < i =>
                       /\ frames'[j].type # "INTRA"
                       /\ frames'[j].type = "CREATE" => frames'[j].index # frames'[i].index
      <3>1. Awaited(i) /\ frames'[i] = frames[i]
        BY <1>9, <2>1
      <3>2. \A j \in Made' :
               j < i => j \in Made /\ frames'[j] = frames[j] /\ (Awaited(j)' => Awaited(j))
        BY <1>9
      <3>3. /\ decoder.slots[frames[i].index] = frames[i].needs
            /\ \A j \in Made : Awaited(j) /\ j < i =>
                  /\ frames[j].type # "INTRA"
                  /\ frames[j].type = "CREATE" => frames[j].index # frames[i].index
        BY <2>1, <3>1 DEF RefersAreHeld
      <3> QED BY <3>1, <3>2, <3>3
    <2>2. ASSUME f.type = "REFER"
          PROVE  /\ decoder.slots[f.index] = needs
                 /\ \A j \in Made' : Awaited(j)' /\ j < id =>
                       /\ frames'[j].type # "INTRA"
                       /\ frames'[j].type = "CREATE" => frames'[j].index # f.index
      <3>1. \A j \in Made' :
               j < id => j \in Made /\ frames'[j] = frames[j] /\ (Awaited(j)' => Awaited(j))
        BY <1>9
      <3> QED BY <1>3, <1>7, <1>19, <2>2, <3>1
    <2>3. ASSUME NEW i \in Made', Awaited(i)', frames'[i].type = "REFER"
          PROVE  /\ decoder.slots[frames'[i].index] = frames'[i].needs
                 /\ \A j \in Made' : Awaited(j)' /\ j < i =>
                       /\ frames'[j].type # "INTRA"
                       /\ frames'[j].type = "CREATE" => frames'[j].index # frames'[i].index
      <3>1. CASE i \in Made
        BY <2>1, <2>3, <3>1
      <3>2. CASE i = id
        <4>1. f.type = "REFER" /\ frames'[i].index = f.index /\ frames'[i].needs = needs
          BY <1>8, <1>9, <2>3, <3>2
        <4> QED BY <2>2, <3>2, <4>1
      <3> QED BY <1>9, <3>1, <3>2
    <2> QED BY <1>1, <2>3 DEF RefersAreHeld
  <1>22. LastIsPlayed'
    <2>1. SUFFICES ASSUME playing # -1
                   PROVE  \E k \in acks : /\ k \in Made' /\ k <= playing
                                          /\ IsReal(k)'
                                          /\ frames'[k].counter = decoder.last
                                          /\ \A j \in k + 1 .. playing : ~IsReal(j)'
      BY <1>1 DEF LastIsPlayed
    <2>2. PICK k \in acks : /\ k \in Made /\ k <= playing
                            /\ IsReal(k)
                            /\ frames[k].counter = decoder.last
                            /\ \A j \in k + 1 .. playing : ~IsReal(j)
      BY <2>1 DEF LastIsPlayed
    <2>3. \A j \in k + 1 .. playing : ~IsReal(j)'
      <3>1. playing \in Made /\ k \in Nat
        BY <1>9, <2>1, <2>2 DEF Types
      <3>2. \A j \in k + 1 .. playing : j \in Made
        BY <3>1 DEF Made
      <3>3. \A j \in Made : IsReal(j)' = IsReal(j)
        BY <1>9
      <3> QED BY <2>2, <3>2, <3>3
    <2> QED BY <1>9, <2>2, <2>3
  <1>23. AckIsTrue'
    BY <1>1 DEF AckIsTrue
  <1> QED BY <1>11, <1>14, <1>15, <1>16, <1>17, <1>18, <1>20, <1>21, <1>22, <1>23 DEF Agrees
-----------------------------------------------------------------------------
(* The invariant *)

LEMMA InitInvariant == Init => IInv
  <1> SUFFICES ASSUME Init PROVE IInv
    OBVIOUS
  <1> USE DEF Init
  <1>1. Made = {} /\ \A i : ~Awaited(i)
    BY DEF Made, Awaited
  <1>2. Types
    <2>1. LtrCreate \in LtrState
      BY DEF LtrCreate, LtrState
    <2>2. NoReferences \in Codec
      BY DEF NoReferences, Codec
    <2> QED BY <1>1, <2>1, <2>2 DEF Types
  <1>3. FramesAgree
    BY <1>1 DEF FramesAgree
  <1>4. Agrees(ltr)
    <2>1. /\ ltr.frame_counter = 0 /\ ltr.intra_counter = 0 /\ ltr.create_counter = 0
          /\ ltr.inflight = {} /\ ~ltr.have_good /\ encoder.last = 0
      BY DEF LtrCreate, NoReferences
    <2>2. CountersAgree(ltr)
      BY <1>1, <2>1 DEF CountersAgree
    <2>3. InflightAgrees(ltr) /\ CandidatesAreHeld(ltr) /\ AcksAreClosed(ltr)
      BY <2>1 DEF InflightAgrees, CandidatesAreHeld, AcksAreClosed
    <2> QED BY <2>2, <2>3 DEF Agrees
  <1>5. RefersAreHeld /\ LastIsPlayed /\ AckIsTrue
    BY <1>1 DEF RefersAreHeld, LastIsPlayed, AckIsTrue
  <1> QED BY <1>2, <1>3, <1>4, <1>5 DEF IInv

LEMMA StutterPreserves ==
    ASSUME IInv, UNCHANGED vars
    PROVE  IInv'
  <1>1. /\ UNCHANGED <<ltr, needs_restart, encoder, frames, playing, acks, decoder, queue, sent>>
        /\ frame_ack' = frame_ack
    BY DEF vars, serverVars, clientVars
  <1>2. /\ ltr' \in LtrState /\ Agrees(ltr') /\ (~needs_restart' => GoodIsHeld(ltr'))
        /\ needs_restart' \in BOOLEAN /\ queue' \in Seq(Nat)
        /\ \A k \in 1 .. Len(queue') : queue'[k] \in Made
        /\ sent' \subseteq Made
    BY <1>1 DEF IInv, Types
  <1>3. \A i \in Made : Awaited(i)' => Awaited(i)
    BY <1>1 DEF Awaited, Made
  <1>4. AckIsTrue'
    BY <1>1 DEF AckIsTrue, IInv
  <1> QED BY <1>1, <1>2, <1>3, <1>4, NothingNew

\* The invariant holds of streams in which no frame of an old client is sent to a new one.
LEMMA Invariance ==
    ASSUME ~SlowSender
    PROVE  Spec => []IInv
  <1>1. IInv /\ [Next]_vars => IInv'
    <2> SUFFICES ASSUME IInv, [Next]_vars PROVE IInv'
      OBVIOUS
    <2>1. CASE Poll
      BY <2>1, PollPreserves
    <2>2. CASE SendEmptyFrame
      BY <2>2, SendEmptyFramePreserves
    <2>3. ASSUME NEW fits \in BOOLEAN, EncodeFrame(fits) PROVE IInv'
      BY <2>3, EncodeFramePreserves
    <2>4. CASE Restart
      BY <2>4, RestartPreserves
    <2>5. CASE SendFrame
      BY <2>5, SendFramePreserves
    <2>6. ASSUME NEW id \in 1 .. MaxId, RenderFrame(id) PROVE IInv'
      BY <2>6, RenderFramePreserves
    <2>7. ASSUME NEW id \in 1 .. MaxId, ReceiveFrameAck(id) \/ ReceiveStreamReset(id) PROVE IInv'
      BY <2>7, MessagesPreserve
    <2>8. CASE Connect
      BY <2>8, ConnectPreserves
    <2>9. CASE UNCHANGED vars
      BY <2>9, StutterPreserves
    <2> QED BY <2>1, <2>2, <2>3, <2>4, <2>5, <2>6, <2>7, <2>8, <2>9 DEF Next
  <1> QED BY <1>1, InitInvariant, PTL DEF Spec

\* Whatever was lost, skipped, dropped or repaired, each frame that udp_get_packet may hand over
\* next finds in the decoder the frame that it was coded against; if no frame of an old client
\* is sent to a new one.
THEOREM EverythingPlayableIsDecodable ==
    ASSUME ~SlowSender
    PROVE  Spec => []PlayableIsDecodable
  <1>1. IInv => PlayableIsDecodable
    BY PlayableCanBeDecoded DEF PlayableIsDecodable
  <1> QED BY <1>1, Invariance, PTL

\* The frame that the LTRState holds for a good long-term reference is in both codecs, in the slot
\* that it names, from each I-frame to the next restart.
THEOREM GoodReferenceIsAlwaysHeld ==
    ASSUME ~SlowSender
    PROVE  Spec => []GoodReferenceIsHeld
  <1>1. IInv => GoodReferenceIsHeld
    BY DEF IInv, GoodIsHeld, GoodReferenceIsHeld
  <1> QED BY <1>1, Invariance, PTL
=============================================================================
