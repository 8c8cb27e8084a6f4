--------------------------- MODULE ClipboardProofs ---------------------------
(***************************************************************************)
(* The pointers of current_clipboard_activity are live, what is set on a   *)
(* clipboard is a whole copy, and copies are set in their order: for any   *)
(* number of threads, chunks, copies and reconnections.                    *)
(***************************************************************************)
EXTENDS ClipboardSync, SequenceTheorems, TLAPS

ThreadIds == Threads \cup {0}
Places == {"free", "get", "read", "got", "wait", "set", "unset", "done"}
Kinds == {"NONE", "PUSH", "PULL"}
Thread == [pc : Places, kind : Kinds, complete : BOOLEAN, aborting : BOOLEAN, buffer : Seq(Pieces)]
Activity == [thread : ThreadIds, type : Kinds, published : BOOLEAN, start_done : BOOLEAN, pulled : Nat]
ChunkRecord == [type : ChunkTypes, data : Seq(Pieces)]

Types ==
    /\ os \in [Peers -> 0 .. MaxCopies]
    /\ copies \in 0 .. MaxCopies
    /\ act \in [Peers -> Activity]
    /\ thr \in [Peers -> [Threads -> Thread]]
    /\ setting \in [Peers -> BOOLEAN]
    /\ queued \in [Peers -> ThreadIds]
    /\ newest \in [Peers -> ThreadIds]
    /\ wire \in [Peers -> Seq(ChunkRecord)]

\* The head of one copy's data, and the whole of it.
IsHead(b) == Len(b) <= Chunks /\ \A i \in 1 .. Len(b) : b[i] = <<b[1][1], i>>
IsWhole(b) == IsHead(b) /\ (Len(b) = 0 \/ Len(b) = Chunks)

-----------------------------------------------------------------------------
(* Of each peer *)

\* current_clipboard_activity and the thread that it points to
ActiveIsLive(p) ==
    IF act[p].thread = 0
    THEN act[p].type = "NONE" /\ ~act[p].published /\ ~act[p].start_done
    ELSE LET t == thr[p][act[p].thread]
         IN  /\ t.pc \in {"get", "read", "got", "wait"}
             /\ ~t.complete /\ ~t.aborting
             /\ t.kind = act[p].type
             /\ act[p].published => t.pc = "wait"
             /\ act[p].start_done => act[p].published /\ act[p].type = "PULL"
             /\ act[p].type = "PUSH" => act[p].published /\ IsHead(t.buffer)

\* How much of the buffer was sent
PulledIsThere(p) ==
    /\ act[p].start_done =>
           LET b == thr[p][act[p].thread].buffer
           IN  act[p].pulled <= Len(b) /\ (Len(b) # 0 => act[p].pulled >= 1)
    /\ ~act[p].start_done => act[p].pulled = 0

\* A pull that has not published its buffer is active or was given up.
LateOnesAreGivenUp(p) == \A t \in Threads :
    thr[p][t].pc \in {"get", "read", "got"} =>
        /\ thr[p][t].kind = "PULL"
        /\ thr[p][t].complete \/ thr[p][t].aborting \/ act[p].thread = t

BuffersAreWhole(p) == \A t \in Threads :
    /\ thr[p][t].kind = "PULL" /\ thr[p][t].pc \in {"read", "got", "wait"} => IsWhole(thr[p][t].buffer)
    /\ thr[p][t].kind = "PUSH" /\ thr[p][t].complete => IsWhole(thr[p][t].buffer)

InSet(p, t) == thr[p][t].pc \in {"set", "unset"}

SettersTakeTurns(p) ==
    /\ queued[p] # 0 =>
           LET t == thr[p][queued[p]]
           IN  t.kind = "PUSH" /\ t.pc = "wait" /\ t.complete /\ newest[p] = queued[p]
    /\ \A t \in Threads : InSet(p, t) => setting[p] /\ thr[p][t].complete
    /\ \A t, u \in Threads : InSet(p, t) /\ InSet(p, u) => t = u

PeerIsSound(p) ==
    /\ ActiveIsLive(p) /\ PulledIsThere(p) /\ LateOnesAreGivenUp(p)
    /\ BuffersAreWhole(p) /\ SettersTakeTurns(p)

-----------------------------------------------------------------------------
(* Between the peers *)

\* The chunk continues the data whose last piece, if any, is d.
Follows(d, chunk) ==
    /\ chunk.type = "MIDDLE" =>
           /\ Len(d) = 1 /\ Len(chunk.data) = 1
           /\ chunk.data[1] = <<d[1][1], d[1][2] + 1>>
    /\ chunk.type = "FINAL" => Len(d) = 0 \/ d[1][2] = Chunks

\* What p holds of the push under way, and what p has sent of its pull: the last piece.
Ending(b, n) == IF n = 0 THEN <<>> ELSE <<b[n]>>
Held(p) == LET b == thr[p][act[p].thread].buffer IN Ending(b, Len(b))
LastSent(p) == Ending(thr[p][act[p].thread].buffer, act[p].pulled)

ChunkFits(chunk) ==
    /\ Len(chunk.data) <= 1
    /\ chunk.type = "START" /\ Len(chunk.data) = 1 => chunk.data[1][2] = 1

\* One chunk follows the other on the wire.
InSequence(w) == \A i \in 1 .. Len(w) :
    /\ ChunkFits(w[i])
    /\ i > 1 /\ w[i].type # "START" => w[i - 1].type # "FINAL" /\ Follows(w[i - 1].data, w[i])

WireFits(p) ==
    /\ InSequence(wire[p])
    /\ Len(wire[p]) > 0 /\ wire[p][1].type # "START" /\ act[p].type = "PUSH" =>
           Follows(Held(p), wire[p][1])
    /\ act[Other(p)].start_done =>
           IF Len(wire[p]) > 0
           THEN LET last == wire[p][Len(wire[p])]
                IN  last.type # "FINAL" /\ last.data = LastSent(Other(p))
           ELSE act[p].type = "PUSH" => Held(p) = LastSent(Other(p))

\* Without a connection nothing is under way, and the client has no transfer.
NothingUnlinked ==
    ~linked => /\ act["client"] = Idle
               /\ \A p \in Peers : wire[p] = <<>>

IInv ==
    /\ Types
    /\ \A p \in Peers : PeerIsSound(p) /\ WireFits(p)
    /\ NothingUnlinked
-----------------------------------------------------------------------------
LEMMA OtherPeer ==
    ASSUME NEW p \in Peers
    PROVE  /\ Other(p) \in Peers /\ Other(p) # p /\ Other(Other(p)) = p
           /\ \A r \in Peers : r # p => r = Other(p)
  BY DEF Peers, Other

\* The table of threads F is that of p after finish_active_transfer.
IsFinished(p, complete, F) ==
    /\ F \in [Threads -> Thread]
    /\ \A t \in Threads :
         /\ thr[p][t].pc = "done" => F[t] = Unused
         /\ thr[p][t].pc # "done" =>
              /\ F[t].pc = thr[p][t].pc
              /\ F[t].kind = thr[p][t].kind
              /\ F[t].buffer = thr[p][t].buffer
              /\ F[t].complete <=> thr[p][t].complete \/ (complete /\ t = act[p].thread)
              /\ F[t].aborting <=> thr[p][t].aborting \/ (~complete /\ t = act[p].thread)

LEMMA UnusedThread == Unused \in Thread
  BY DEF Unused, Thread, Places, Kinds

LEMMA Finished ==
    ASSUME Types, NEW p \in Peers, NEW complete \in BOOLEAN
    PROVE  IsFinished(p, complete, FinishActive(p, complete))
  <1> DEFINE M == Marked(p, complete)
  <1>1. thr[p] \in [Threads -> Thread]
    BY DEF Types
  <1>2. \A t \in Threads :
          /\ M[t] \in Thread
          /\ M[t].pc = thr[p][t].pc
          /\ M[t].kind = thr[p][t].kind
          /\ M[t].buffer = thr[p][t].buffer
          /\ M[t].complete <=> thr[p][t].complete \/ (complete /\ t = act[p].thread)
          /\ M[t].aborting <=> thr[p][t].aborting \/ (~complete /\ t = act[p].thread)
    <2> TAKE t \in Threads
    <2>1. M[t] = IF t # act[p].thread THEN thr[p][t]
                 ELSE IF complete THEN [thr[p][t] EXCEPT !.complete = TRUE]
                 ELSE [thr[p][t] EXCEPT !.aborting = TRUE]
      BY DEF Marked
    <2>2. thr[p][t] \in Thread
      BY <1>1
    <2> QED BY <2>1, <2>2 DEF Thread
  <1> HIDE DEF M
  <1>3. FinishActive(p, complete) = [t \in Threads |-> IF M[t].pc = "done" THEN Unused ELSE M[t]]
    BY DEF FinishActive, Joined, M
  <1> QED BY <1>2, <1>3, UnusedThread DEF IsFinished

LEMMA OthersAreSound ==
    ASSUME NEW r \in Peers, PeerIsSound(r), thr'[r] = thr[r], act'[r] = act[r],
           setting'[r] = setting[r], queued'[r] = queued[r], newest'[r] = newest[r]
    PROVE  PeerIsSound(r)'
  BY DEF PeerIsSound, ActiveIsLive, PulledIsThere, LateOnesAreGivenUp, BuffersAreWhole,
         SettersTakeTurns, InSet

\* A new transfer leaves p sound, with nothing sent and data as the buffer of a push.
LEMMA Started ==
    ASSUME Types, NEW p \in Peers, PeerIsSound(p),
           NEW type \in {"PUSH", "PULL"}, NEW data \in Seq(Pieces), IsHead(data),
           Start(p, type, data), UNCHANGED <<setting, queued, newest>>
    PROVE  /\ thr' \in [Peers -> [Threads -> Thread]] /\ act' \in [Peers -> Activity]
           /\ PeerIsSound(p)'
           /\ act'[p].type = type /\ ~act'[p].start_done
           /\ thr'[p][act'[p].thread].buffer = data
           /\ \A r \in Peers : r # p => thr'[r] = thr[r] /\ act'[r] = act[r]
  <1> DEFINE F == FinishActive(p, FALSE)
  <1>1. IsFinished(p, FALSE, F)
    BY Finished
  <1>2. PICK t \in Threads :
            /\ F[t].pc = "free"
            /\ thr' = [thr EXCEPT ![p] = [F EXCEPT ![t] = [NewThread(type) EXCEPT !.buffer = data]]]
            /\ act' = [act EXCEPT ![p] = Transfer(t, type)]
    BY DEF Start
  <1> HIDE DEF F
  <1> DEFINE N == [NewThread(type) EXCEPT !.buffer = data]
             A == Transfer(t, type)
  <1>3. /\ N \in Thread
        /\ N.pc = IF type = "PUSH" THEN "wait" ELSE "get"
        /\ N.kind = type /\ ~N.complete /\ ~N.aborting /\ N.buffer = data
    BY DEF NewThread, Unused, Thread, Places, Kinds
  <1>4. /\ A \in Activity /\ A.thread = t /\ A.type = type /\ (A.published <=> type = "PUSH")
        /\ ~A.start_done /\ A.pulled = 0
    BY DEF Transfer, Idle, Activity, ThreadIds, Kinds
  <1> HIDE DEF N, A
  <1>5. t # 0 /\ 0 \notin Threads
    BY ClipboardAssumption
  <1>6. /\ F \in [Threads -> Thread]
        /\ thr'[p] = [F EXCEPT ![t] = N] /\ act'[p] = A
        /\ \A r \in Peers : r # p => thr'[r] = thr[r] /\ act'[r] = act[r]
    BY <1>1, <1>2 DEF IsFinished, Types, N, A
  <1>7. thr' \in [Peers -> [Threads -> Thread]] /\ act' \in [Peers -> Activity]
    BY <1>2, <1>3, <1>4, <1>6 DEF Types, N, A
  <1>8. thr'[p][t] = N /\ \A u \in Threads : u # t => thr'[p][u] = F[u]
    BY <1>6
  <1>9. \A u \in Threads : u # t =>
            \/ thr'[p][u] = Unused
            \/ /\ thr[p][u].pc # "done"
               /\ thr'[p][u].pc = thr[p][u].pc
               /\ thr'[p][u].kind = thr[p][u].kind
               /\ thr'[p][u].buffer = thr[p][u].buffer
               /\ thr'[p][u].complete <=> thr[p][u].complete
               /\ thr'[p][u].aborting <=> thr[p][u].aborting \/ u = act[p].thread
    BY <1>1, <1>8 DEF IsFinished
  <1>10. Unused.pc = "free" /\ Unused.kind = "NONE" /\ ~Unused.complete
    BY DEF Unused
  <1>11. thr[p][t].pc = "free" \/ thr[p][t].pc = "done"
    BY <1>1, <1>2 DEF IsFinished
  <1>12. ActiveIsLive(p)' /\ PulledIsThere(p)'
    BY <1>3, <1>4, <1>5, <1>6, <1>8 DEF ActiveIsLive, PulledIsThere
  <1>13. LateOnesAreGivenUp(p)'
    BY <1>3, <1>4, <1>6, <1>8, <1>9, <1>10 DEF PeerIsSound, LateOnesAreGivenUp
  <1>14. BuffersAreWhole(p)'
    BY <1>3, <1>8, <1>9, <1>10 DEF PeerIsSound, BuffersAreWhole
  <1>15. SettersTakeTurns(p)'
    <2>1. \A u \in Threads : InSet(p, u)' => InSet(p, u) /\ u # t /\ (thr'[p][u].complete <=> thr[p][u].complete)
      BY <1>3, <1>8, <1>9, <1>10 DEF InSet
    <2>2. queued'[p] = queued[p] /\ newest'[p] = newest[p] /\ setting'[p] = setting[p]
      OBVIOUS
    <2>3. queued[p] # 0 => queued[p] \in Threads /\ queued[p] # t /\ thr'[p][queued[p]] # Unused
      <3> SUFFICES ASSUME queued[p] # 0 PROVE queued[p] \in Threads /\ queued[p] # t /\ thr'[p][queued[p]] # Unused
        OBVIOUS
      <3>1. queued[p] \in Threads
        BY DEF Types, ThreadIds
      <3>2. thr[p][queued[p]].pc = "wait"
        BY DEF PeerIsSound, SettersTakeTurns
      <3>3. queued[p] # t
        BY <3>2, <1>11
      <3>4. thr'[p][queued[p]].pc = "wait"
        BY <3>1, <3>2, <3>3, <1>1, <1>8 DEF IsFinished
      <3> QED BY <3>1, <3>3, <3>4, <1>10
    <2> QED BY <2>1, <2>2, <2>3, <1>9 DEF PeerIsSound, SettersTakeTurns
  <1> QED BY <1>3, <1>4, <1>6, <1>7, <1>8, <1>12, <1>13, <1>14, <1>15 DEF PeerIsSound

\* A transfer that ends leaves p sound; if it is a push that is complete, its thread is next.
LEMMA Ended ==
    ASSUME Types, NEW p \in Peers, PeerIsSound(p), NEW complete \in BOOLEAN,
           thr' = [thr EXCEPT ![p] = FinishActive(p, complete)],
           act' = [act EXCEPT ![p] = Idle],
           setting'[p] = setting[p],
           complete /\ act[p].type = "PUSH" =>
               IsWhole(thr[p][act[p].thread].buffer)
               /\ queued'[p] = act[p].thread /\ newest'[p] = act[p].thread,
           ~(complete /\ act[p].type = "PUSH") =>
               queued'[p] = queued[p] /\ newest'[p] = newest[p]
    PROVE  /\ thr' \in [Peers -> [Threads -> Thread]] /\ act' \in [Peers -> Activity]
           /\ PeerIsSound(p)'
           /\ act'[p].type = "NONE" /\ ~act'[p].start_done
           /\ \A r \in Peers : r # p => thr'[r] = thr[r] /\ act'[r] = act[r]
  <1> DEFINE F == FinishActive(p, complete)
  <1>1. IsFinished(p, complete, F)
    BY Finished
  <1>2. /\ thr'[p] = F /\ act'[p] = Idle /\ F \in [Threads -> Thread]
        /\ \A r \in Peers : r # p => thr'[r] = thr[r] /\ act'[r] = act[r]
    BY <1>1 DEF IsFinished, Types
  <1> HIDE DEF F
  <1>3. /\ Idle \in Activity /\ Idle.thread = 0 /\ Idle.type = "NONE" /\ ~Idle.published
        /\ ~Idle.start_done /\ Idle.pulled = 0
    BY DEF Idle, Activity, ThreadIds, Kinds
  <1>4. thr' \in [Peers -> [Threads -> Thread]] /\ act' \in [Peers -> Activity]
    BY <1>1, <1>2, <1>3 DEF Types, F, IsFinished
  <1>5. \A u \in Threads :
            \/ thr'[p][u] = Unused
            \/ /\ thr[p][u].pc # "done"
               /\ thr'[p][u].pc = thr[p][u].pc
               /\ thr'[p][u].kind = thr[p][u].kind
               /\ thr'[p][u].buffer = thr[p][u].buffer
               /\ thr'[p][u].complete <=> thr[p][u].complete \/ (complete /\ u = act[p].thread)
               /\ thr'[p][u].aborting <=> thr[p][u].aborting \/ (~complete /\ u = act[p].thread)
    BY <1>1, <1>2 DEF IsFinished
  <1>6. Unused.pc = "free" /\ Unused.kind = "NONE" /\ ~Unused.complete
    BY DEF Unused
  <1>7. \A u \in Threads : thr[p][u].pc = "wait" => thr'[p][u].pc = "wait"
    BY <1>1, <1>2 DEF IsFinished
  <1>8. ActiveIsLive(p)' /\ PulledIsThere(p)'
    BY <1>2, <1>3 DEF ActiveIsLive, PulledIsThere
  <1>9. LateOnesAreGivenUp(p)'
    BY <1>2, <1>3, <1>5, <1>6 DEF PeerIsSound, LateOnesAreGivenUp
  <1>10. BuffersAreWhole(p)'
    <2>1. \A u \in Threads : complete /\ u = act[p].thread /\ thr[p][u].kind = "PUSH" =>
              IsWhole(thr[p][u].buffer)
      BY <1>3, ClipboardAssumption DEF PeerIsSound, ActiveIsLive
    <2> QED BY <1>5, <1>6, <2>1 DEF PeerIsSound, BuffersAreWhole
  <1>11. SettersTakeTurns(p)'
    <2>1. \A u \in Threads : InSet(p, u)' => InSet(p, u) /\ (thr[p][u].complete => thr'[p][u].complete)
      BY <1>5, <1>6 DEF InSet
    <2>2. CASE complete /\ act[p].type = "PUSH"
      <3>1. act[p].thread # 0 /\ act[p].thread \in Threads
        BY <2>2 DEF PeerIsSound, ActiveIsLive, Types, Activity, ThreadIds
      <3>2. thr[p][act[p].thread].pc = "wait" /\ thr[p][act[p].thread].kind = "PUSH"
        BY <2>2, <3>1 DEF PeerIsSound, ActiveIsLive
      <3>3. thr'[p][act[p].thread].pc = "wait"
        BY <1>7, <3>1, <3>2
      <3>4. thr'[p][act[p].thread].kind = "PUSH" /\ thr'[p][act[p].thread].complete
        BY <2>2, <1>5, <1>6, <3>1, <3>2, <3>3
      <3> QED BY <2>1, <2>2, <3>3, <3>4 DEF PeerIsSound, SettersTakeTurns
    <2>3. CASE ~(complete /\ act[p].type = "PUSH")
      <3>1. queued[p] # 0 => queued[p] \in Threads /\ thr'[p][queued[p]].pc = "wait"
        BY <1>7 DEF PeerIsSound, SettersTakeTurns, Types, ThreadIds
      <3> QED BY <2>1, <2>3, <1>5, <1>6, <3>1 DEF PeerIsSound, SettersTakeTurns
    <2> QED BY <2>2, <2>3
  <1> QED BY <1>2, <1>3, <1>4, <1>8, <1>9, <1>10, <1>11 DEF PeerIsSound

-----------------------------------------------------------------------------
(* The wire *)

LEMMA WireKept ==
    ASSUME NEW p \in Peers, WireFits(p), wire'[p] = wire[p],
           act'[p].type = "PUSH" => act[p].type = "PUSH" /\ Held(p)' = Held(p),
           act'[Other(p)].start_done =>
               act[Other(p)].start_done /\ LastSent(Other(p))' = LastSent(Other(p))
    PROVE  WireFits(p)'
  BY DEF WireFits

LEMMA TailFacts ==
    ASSUME NEW w \in Seq(ChunkRecord), w # <<>>
    PROVE  /\ Tail(w) \in Seq(ChunkRecord) /\ Len(Tail(w)) = Len(w) - 1 /\ Len(w) \in Nat \ {0}
           /\ \A i \in 1 .. Len(Tail(w)) : Tail(w)[i] = w[i + 1]
           /\ Head(w) = w[1] /\ w[1] \in ChunkRecord
  OBVIOUS

LEMMA TailInSequence ==
    ASSUME NEW w \in Seq(ChunkRecord), w # <<>>, InSequence(w)
    PROVE  InSequence(Tail(w))
  <1> DEFINE v == Tail(w)
  <1>1. /\ Len(v) = Len(w) - 1 /\ Len(w) \in Nat \ {0}
        /\ \A i \in 1 .. Len(v) : v[i] = w[i + 1]
    BY TailFacts
  <1> HIDE DEF v
  <1>2. ASSUME NEW i \in 1 .. Len(v)
        PROVE  /\ ChunkFits(v[i])
               /\ i > 1 /\ v[i].type # "START" => v[i - 1].type # "FINAL" /\ Follows(v[i - 1].data, v[i])
    <2>1. v[i] = w[i + 1] /\ i + 1 \in 1 .. Len(w) /\ i + 1 > 1 /\ (i + 1) - 1 = i
      BY <1>1
    <2>2. i > 1 => v[i - 1] = w[i]
      <3>1. i > 1 => i - 1 \in 1 .. Len(v) /\ (i - 1) + 1 = i
        BY <1>1
      <3> QED BY <3>1, <1>1
    <2> QED BY <2>1, <2>2 DEF InSequence
  <1> QED BY <1>2 DEF InSequence, v

LEMMA AppendInSequence ==
    ASSUME NEW w \in Seq(ChunkRecord), NEW m \in ChunkRecord, InSequence(w), ChunkFits(m),
           Len(w) > 0 /\ m.type # "START" =>
               w[Len(w)].type # "FINAL" /\ Follows(w[Len(w)].data, m)
    PROVE  /\ InSequence(Append(w, m))
           /\ Append(w, m) \in Seq(ChunkRecord) /\ Len(Append(w, m)) = Len(w) + 1
           /\ Append(w, m)[Len(w) + 1] = m
           /\ Len(w) > 0 => Append(w, m)[1] = w[1]
  <1> DEFINE v == Append(w, m)
  <1>1. /\ v \in Seq(ChunkRecord) /\ Len(v) = Len(w) + 1 /\ Len(w) \in Nat
        /\ v[Len(w) + 1] = m
        /\ \A i \in 1 .. Len(w) : v[i] = w[i]
    OBVIOUS
  <1> HIDE DEF v
  <1>2. ASSUME NEW i \in 1 .. Len(v)
        PROVE  /\ ChunkFits(v[i])
               /\ i > 1 /\ v[i].type # "START" => v[i - 1].type # "FINAL" /\ Follows(v[i - 1].data, v[i])
    <2>1. CASE i = Len(w) + 1
      <3>1. v[i] = m /\ i - 1 = Len(w)
        BY <1>1, <2>1
      <3>2. i > 1 => v[i - 1] = w[Len(w)]
        BY <1>1, <2>1, <3>1
      <3> QED BY <1>1, <3>1, <3>2
    <2>2. CASE i # Len(w) + 1
      <3>1. i \in 1 .. Len(w) /\ v[i] = w[i]
        BY <1>1, <2>2
      <3>2. i > 1 => v[i - 1] = w[i - 1]
        BY <1>1, <3>1
      <3> QED BY <3>1, <3>2 DEF InSequence
    <2> QED BY <2>1, <2>2
  <1>3. InSequence(v)
    BY <1>2 DEF InSequence
  <1> QED BY <1>1, <1>3 DEF v

LEMMA Singleton ==
    ASSUME NEW S, NEW s \in Seq(S), Len(s) = 1
    PROVE  s = <<s[1]>> /\ s[1] \in S
  <1> DEFINE t == <<s[1]>>
  <1>1. s[1] \in S
    BY ElementOfSeq
  <1>2. t \in Seq(S) /\ Len(t) = 1 /\ t[1] = s[1]
    BY <1>1
  <1> HIDE DEF t
  <1>3. s = t
    BY <1>2, SeqEqual
  <1> QED BY <1>1, <1>3 DEF t

\* A push is continued by what its sender sent next.
LEMMA PieceExtends ==
    ASSUME NEW b \in Seq(Pieces), IsHead(b), NEW m \in ChunkRecord,
           m.type = "MIDDLE", Follows(Ending(b, Len(b)), m)
    PROVE  /\ b \o m.data \in Seq(Pieces) /\ IsHead(b \o m.data)
           /\ Ending(b \o m.data, Len(b \o m.data)) = m.data
  <1>1. /\ Len(b) \in Nat /\ Len(b) # 0 /\ Len(m.data) = 1 /\ m.data \in Seq(Pieces)
        /\ m.data[1] = <<b[Len(b)][1], b[Len(b)][2] + 1>>
    BY DEF Follows, Ending, ChunkRecord
  <1> DEFINE n == Len(b)
             c == b \o m.data
  <1>2. /\ c \in Seq(Pieces) /\ Len(c) = n + 1
        /\ \A i \in 1 .. n : c[i] = b[i]
        /\ c[n + 1] = m.data[1]
    BY <1>1, ConcatProperties, SMTT(20)
  <1>3. m.data = <<m.data[1]>> /\ m.data[1] \in Pieces
    BY <1>1, Singleton
  <1>4. b[n] = <<b[1][1], n>>
    BY <1>1 DEF IsHead
  <1>5. m.data[1] = <<b[1][1], n + 1>>
    BY <1>1, <1>4
  <1>6. m.data[1] \in Pieces
    BY <1>3
  <1>7. n + 1 <= Chunks
    BY <1>5, <1>6 DEF Pieces
  <1>8. c[1] = b[1]
    BY <1>1, <1>2
  <1> HIDE DEF c
  <1>9. IsHead(c)
    <2>1. Len(c) <= Chunks
      BY <1>2, <1>7
    <2>2. ASSUME NEW i \in 1 .. Len(c) PROVE c[i] = <<c[1][1], i>>
      <3>1. CASE i = n + 1
        BY <3>1, <1>2, <1>5, <1>8
      <3>2. CASE i # n + 1
        BY <3>2, <1>1, <1>2, <1>8 DEF IsHead
      <3> QED BY <3>1, <3>2
    <2> QED BY <2>1, <2>2 DEF IsHead
  <1>10. Ending(c, Len(c)) = m.data
    <2>1. Len(c) # 0 /\ c[Len(c)] = m.data[1]
      BY <1>1, <1>2
    <2>2. Ending(c, Len(c)) = <<m.data[1]>>
      BY <2>1 DEF Ending
    <2> QED BY <2>2, <1>3
  <1> QED BY <1>2, <1>9, <1>10 DEF c

\* A first chunk is the head of a copy.
LEMMA FirstPiece ==
    ASSUME NEW m \in ChunkRecord, m.type = "START", ChunkFits(m)
    PROVE  m.data \in Seq(Pieces) /\ IsHead(m.data) /\ Ending(m.data, Len(m.data)) = m.data
  <1>1. m.data \in Seq(Pieces) /\ Len(m.data) \in Nat /\ Len(m.data) <= 1
    BY DEF ChunkRecord, ChunkFits
  <1>2. CASE Len(m.data) = 0
    <2>1. m.data = <<>>
      BY <1>1, <1>2
    <2> QED BY <1>1, <1>2, <2>1, ClipboardAssumption DEF IsHead, Ending
  <1>3. CASE Len(m.data) = 1
    <2>1. m.data = <<m.data[1]>> /\ m.data[1] \in Pieces /\ m.data[1][2] = 1
      BY <1>1, <1>3, Singleton DEF ChunkFits
    <2>2. m.data[1] = <<m.data[1][1], 1>>
      BY <2>1 DEF Pieces
    <2>3. IsHead(m.data)
      BY <1>3, <2>2, ClipboardAssumption DEF IsHead
    <2>4. Ending(m.data, Len(m.data)) = <<m.data[1]>>
      BY <1>3 DEF Ending
    <2>5. Ending(m.data, Len(m.data)) = m.data
      BY <2>1, <2>4
    <2> QED BY <1>1, <2>3, <2>5
  <1>4. \A n \in Nat : n <= 1 => n = 0 \/ n = 1
    OBVIOUS
  <1>5. Len(m.data) = 0 \/ Len(m.data) = 1
    BY <1>1, <1>4, Zenon
  <1> QED BY <1>2, <1>3, <1>5

\* What a last chunk completes is whole.
LEMMA LastPiece ==
    ASSUME NEW b \in Seq(Pieces), IsHead(b), NEW m, m.type = "FINAL",
           Follows(Ending(b, Len(b)), m)
    PROVE  IsWhole(b)
  <1>1. Len(b) \in Nat
    OBVIOUS
  <1>2. CASE Len(b) = 0
    BY <1>2 DEF IsWhole
  <1>3. CASE Len(b) # 0
    <2>1. Len(Ending(b, Len(b))) = 1 /\ Ending(b, Len(b))[1] = b[Len(b)]
      BY <1>3 DEF Ending
    <2>2. b[Len(b)][2] = Chunks
      BY <2>1 DEF Follows
    <2>3. b[Len(b)] = <<b[1][1], Len(b)>>
      BY <1>1, <1>3 DEF IsHead
    <2> QED BY <2>2, <2>3 DEF IsWhole
  <1> QED BY <1>2, <1>3

-----------------------------------------------------------------------------
(* push_clipboard_chunk *)

\* What the head of the wire, once it is off, leaves of WireFits.
LEMMA HeadIsOff ==
    ASSUME NEW p \in Peers, wire[p] \in Seq(ChunkRecord), wire[p] # <<>>, WireFits(p),
           wire'[p] = Tail(wire[p]),
           act'[Other(p)].start_done =>
               act[Other(p)].start_done /\ LastSent(Other(p))' = LastSent(Other(p)),
           act'[p].type = "PUSH" => wire[p][1].type # "FINAL" /\ Held(p)' = wire[p][1].data
    PROVE  WireFits(p)'
  <1> DEFINE w == wire[p]
             v == wire'[p]
  <1>1. /\ Len(v) = Len(w) - 1 /\ Len(w) \in Nat \ {0}
        /\ \A i \in 1 .. Len(v) : v[i] = w[i + 1]
    BY TailFacts
  <1>2. InSequence(v)
    BY TailInSequence DEF WireFits
  <1>3. ASSUME Len(v) > 0, v[1].type # "START", act'[p].type = "PUSH"
        PROVE  Follows(Held(p)', v[1])
    <2>1. v[1] = w[2] /\ 2 \in 1 .. Len(w) /\ 2 - 1 = 1 /\ 2 > 1
      BY <1>1, <1>3
    <2>2. Follows(w[1].data, w[2])
      BY <2>1, <1>3 DEF WireFits, InSequence
    <2> QED BY <2>1, <2>2, <1>3
  <1>4. ASSUME act'[Other(p)].start_done, Len(v) > 0
        PROVE  v[Len(v)].type # "FINAL" /\ v[Len(v)].data = LastSent(Other(p))'
    <2>1. v[Len(v)] = w[Len(w)] /\ Len(w) > 0
      BY <1>1, <1>4
    <2> QED BY <2>1, <1>4 DEF WireFits
  <1>5. ASSUME act'[Other(p)].start_done, ~(Len(v) > 0), act'[p].type = "PUSH"
        PROVE  Held(p)' = LastSent(Other(p))'
    <2>1. ~(Len(v) > 0)
      BY <1>5
    <2>2. \A n \in Nat \ {0} : ~(n - 1 > 0) => n = 1
      OBVIOUS
    <2>3. Len(w) = 1
      BY <1>1, <2>1, <2>2, Zenon
    <2>4. w[1].type # "FINAL" /\ w[1].data = LastSent(Other(p))
      BY <2>3, <1>5 DEF WireFits
    <2> QED BY <2>4, <1>5
  <1>6. /\ InSequence(wire[p])'
        /\ (Len(wire[p]) > 0 /\ wire[p][1].type # "START" /\ act[p].type = "PUSH" =>
               Follows(Held(p), wire[p][1]))'
        /\ (act[Other(p)].start_done =>
               IF Len(wire[p]) > 0
               THEN LET last == wire[p][Len(wire[p])]
                    IN  last.type # "FINAL" /\ last.data = LastSent(Other(p))
               ELSE act[p].type = "PUSH" => Held(p) = LastSent(Other(p)))'
    BY <1>2, <1>3, <1>4, <1>5 DEF InSequence, ChunkFits
  <1> QED BY <1>6 DEF WireFits

\* Nothing that is of another peer has changed.
LEMMA OtherEnd ==
    ASSUME NEW p \in Peers, IInv,
           \A r \in Peers : r # p => thr'[r] = thr[r] /\ act'[r] = act[r] /\ queued'[r] = queued[r]
                                     /\ newest'[r] = newest[r] /\ setting'[r] = setting[r]
    PROVE  /\ PeerIsSound(Other(p))'
           /\ Held(Other(p))' = Held(Other(p)) /\ LastSent(Other(p))' = LastSent(Other(p))
           /\ act'[Other(p)] = act[Other(p)] /\ thr'[Other(p)] = thr[Other(p)]
  BY OtherPeer, OthersAreSound DEF IInv, Held, LastSent

LEMMA BothPeers ==
    ASSUME NEW p \in Peers, PeerIsSound(p)', PeerIsSound(Other(p))', WireFits(p)', WireFits(Other(p))'
    PROVE  (\A r \in Peers : PeerIsSound(r) /\ WireFits(r))'
  BY OtherPeer

LEMMA ActiveFacts ==
    ASSUME Types, NEW p \in Peers, PeerIsSound(p)
    PROVE  /\ \A type \in {"PUSH", "PULL"} : IsActive(p, type) => act[p].type = type
           /\ act[p].type = "PUSH" => IsActive(p, "PUSH")
           /\ act[p].type # "NONE" => /\ act[p].thread \in Threads
                                      /\ thr[p][act[p].thread] \in Thread
                                      /\ thr[p][act[p].thread].buffer \in Seq(Pieces)
  BY DEF Types, PeerIsSound, ActiveIsLive, IsActive, Activity, ThreadIds, Thread, Kinds

LEMMA NothingChanges ==
    ASSUME IInv, os' \in [Peers -> 0 .. MaxCopies], copies' \in 0 .. MaxCopies,
           UNCHANGED <<thr, act, wire, setting, queued, newest, linked>>
    PROVE  IInv'
  <1>1. Types' /\ NothingUnlinked'
    BY DEF IInv, Types, NothingUnlinked
  <1>2. ASSUME NEW r \in Peers PROVE PeerIsSound(r)' /\ WireFits(r)'
    <2>1. PeerIsSound(r) /\ WireFits(r)
      BY DEF IInv
    <2>2. Held(r)' = Held(r) /\ LastSent(Other(r))' = LastSent(Other(r))
      BY DEF Held, LastSent
    <2> QED BY <2>1, <2>2, OthersAreSound, WireKept
  <1> QED BY <1>1, <1>2 DEF IInv

LEMMA ReceivePreserves ==
    ASSUME IInv, NEW p \in Peers, Receive(p)
    PROVE  IInv'
  <1> DEFINE q == Other(p)
             m == wire[p][1]
  <1>1. /\ q \in Peers /\ q # p /\ Other(q) = p
        /\ \A r \in Peers : r # p => r = q
    BY OtherPeer
  <1>2. /\ linked /\ wire[p] # <<>> /\ wire' = [wire EXCEPT ![p] = Tail(@)]
        /\ UNCHANGED <<os, setting, linked, copies>>
        /\ wire \in [Peers -> Seq(ChunkRecord)]
        /\ Types /\ PeerIsSound(p) /\ PeerIsSound(q) /\ WireFits(p) /\ WireFits(q)
    BY <1>1 DEF Receive, IInv, Types
  <1>3. /\ wire[p] \in Seq(ChunkRecord) /\ wire'[p] = Tail(wire[p]) /\ wire'[q] = wire[q]
        /\ wire' \in [Peers -> Seq(ChunkRecord)]
        /\ Head(wire[p]) = m /\ m \in ChunkRecord
    BY <1>1, <1>2, TailFacts
  <1>4. ChunkFits(m)
    BY <1>2, <1>3, TailFacts DEF WireFits, InSequence
  <1>5. PushChunk(p, m)
    BY <1>3 DEF Receive
  <1> HIDE DEF m
  <1>6. SUFFICES /\ thr' \in [Peers -> [Threads -> Thread]] /\ act' \in [Peers -> Activity]
                 /\ queued' \in [Peers -> ThreadIds] /\ newest' \in [Peers -> ThreadIds]
                 /\ PeerIsSound(p)' /\ PeerIsSound(q)' /\ WireFits(p)' /\ WireFits(q)'
    BY <1>2, <1>3, BothPeers DEF IInv, Types, NothingUnlinked
  <1>7. ASSUME UNCHANGED <<thr, act, queued, newest>>, act[p].type # "PUSH"
        PROVE  PeerIsSound(p)' /\ PeerIsSound(q)' /\ WireFits(p)' /\ WireFits(q)'
    <2>1. PeerIsSound(p)' /\ PeerIsSound(q)'
      BY <1>1, <1>2, <1>7, OthersAreSound
    <2>2. LastSent(p)' = LastSent(p) /\ Held(q)' = Held(q) /\ LastSent(q)' = LastSent(q)
      BY <1>7 DEF LastSent, Held
    <2>3. WireFits(q)'
      BY <1>1, <1>2, <1>3, <1>7, <2>2, WireKept
    <2>4. WireFits(p)'
      BY <1>1, <1>2, <1>3, <1>7, <2>2, HeadIsOff
    <2> QED BY <2>1, <2>3, <2>4
  <1>8. CASE m.type = "START"
    <2>1. Start(p, "PUSH", m.data) /\ UNCHANGED <<queued, newest>>
      BY <1>5, <1>8 DEF PushChunk, PushStart
    <2>2. m.data \in Seq(Pieces) /\ IsHead(m.data) /\ Ending(m.data, Len(m.data)) = m.data
      BY <1>3, <1>4, <1>8, FirstPiece
    <2>3. /\ thr' \in [Peers -> [Threads -> Thread]] /\ act' \in [Peers -> Activity]
          /\ PeerIsSound(p)'
          /\ ~act'[p].start_done
          /\ thr'[p][act'[p].thread].buffer = m.data
          /\ \A r \in Peers : r # p => thr'[r] = thr[r] /\ act'[r] = act[r]
      BY <1>2, <2>1, <2>2, Started
    <2>4. /\ PeerIsSound(q)' /\ Held(q)' = Held(q) /\ LastSent(q)' = LastSent(q)
          /\ act'[q] = act[q]
      BY <1>2, <2>1, <2>3, OtherEnd
    <2>5. Held(p)' = m.data
      BY <2>2, <2>3 DEF Held
    <2>6. WireFits(p)'
      BY <1>1, <1>2, <1>3, <1>8, <2>4, <2>5, HeadIsOff DEF m
    <2>7. WireFits(q)'
      BY <1>1, <1>2, <1>3, <2>3, <2>4, WireKept
    <2> QED BY <1>2, <2>1, <2>3, <2>4, <2>6, <2>7 DEF Types
  <1>9. CASE m.type = "MIDDLE"
    <2>1. PushMiddle(p, m)
      BY <1>5, <1>9 DEF PushChunk
    <2>2. CASE ~IsActive(p, "PUSH")
      <3>1. UNCHANGED <<thr, act, queued, newest>> /\ act[p].type # "PUSH"
        BY <1>2, <2>1, <2>2, ActiveFacts DEF PushMiddle
      <3> QED BY <1>2, <1>7, <3>1 DEF Types
    <2>3. CASE IsActive(p, "PUSH")
      <3> DEFINE a == act[p].thread
                 b == thr[p][a].buffer
                 N == [thr[p][a] EXCEPT !.buffer = b \o m.data]
      <3>1. /\ act[p].type = "PUSH" /\ a \in Threads /\ thr[p][a] \in Thread /\ b \in Seq(Pieces)
        BY <1>2, <2>3, ActiveFacts
      <3>2. thr' = [thr EXCEPT ![p] = [thr[p] EXCEPT ![a].buffer = @ \o m.data]]
            /\ UNCHANGED <<act, queued, newest>>
        BY <2>1, <2>3 DEF PushMiddle, Appended
      <3>3. IsHead(b) /\ ~act[p].start_done /\ ~thr[p][a].complete /\ thr[p][a].pc = "wait"
            /\ thr[p][a].kind = "PUSH"
        BY <1>2, <3>1 DEF PeerIsSound, ActiveIsLive, IsActive, Types, Activity, ThreadIds, Thread
      <3>4. Follows(Ending(b, Len(b)), m)
        BY <1>2, <1>3, <1>9, <3>1, TailFacts DEF WireFits, Held, m
      <3>5. /\ b \o m.data \in Seq(Pieces) /\ IsHead(b \o m.data)
            /\ Ending(b \o m.data, Len(b \o m.data)) = m.data
        BY <1>3, <1>9, <3>1, <3>3, <3>4, PieceExtends
      <3>6. /\ N \in Thread /\ N.pc = thr[p][a].pc /\ N.kind = thr[p][a].kind
            /\ N.complete = thr[p][a].complete /\ N.aborting = thr[p][a].aborting
            /\ N.buffer = b \o m.data
        BY <3>1, <3>5 DEF Thread
      <3>7. /\ thr' \in [Peers -> [Threads -> Thread]]
            /\ thr'[p] = [thr[p] EXCEPT ![a] = N]
            /\ thr'[p][a] = N
            /\ \A u \in Threads : u # a => thr'[p][u] = thr[p][u]
            /\ \A r \in Peers : r # p => thr'[r] = thr[r]
        BY <1>2, <3>1, <3>2, <3>6 DEF Types
      <3> HIDE DEF N
      <3>8. PeerIsSound(p)'
        <4>1. ActiveIsLive(p)' /\ PulledIsThere(p)'
          BY <1>2, <3>1, <3>2, <3>3, <3>5, <3>6, <3>7, ZenonT(30) DEF PeerIsSound, ActiveIsLive, PulledIsThere
        <4>2. LateOnesAreGivenUp(p)'
          BY <1>2, <3>2, <3>6, <3>7, ZenonT(30) DEF PeerIsSound, LateOnesAreGivenUp
        <4>3. BuffersAreWhole(p)'
          BY <1>2, <3>3, <3>6, <3>7 DEF PeerIsSound, BuffersAreWhole
        <4>4. SettersTakeTurns(p)'
          <5>1. \A u \in Threads : /\ thr'[p][u].pc = thr[p][u].pc
                                   /\ thr'[p][u].kind = thr[p][u].kind
                                   /\ thr'[p][u].complete = thr[p][u].complete
            BY <3>6, <3>7
          <5>2. queued[p] \in ThreadIds
            BY <1>2 DEF Types
          <5>3. \A u \in Threads : InSet(p, u)' <=> InSet(p, u)
            BY <5>1 DEF InSet
          <5>4. ASSUME queued'[p] # 0
                PROVE  LET u == thr'[p][queued'[p]]
                       IN  u.kind = "PUSH" /\ u.pc = "wait" /\ u.complete /\ newest'[p] = queued'[p]
            <6>1. queued[p] \in Threads /\ queued'[p] = queued[p] /\ newest'[p] = newest[p]
              BY <3>2, <5>2, <5>4 DEF ThreadIds
            <6> QED BY <1>2, <5>1, <5>4, <6>1 DEF PeerIsSound, SettersTakeTurns
          <5>5. \A u \in Threads : InSet(p, u)' => setting'[p] /\ thr'[p][u].complete
            BY <1>2, <3>2, <5>1, <5>3 DEF PeerIsSound, SettersTakeTurns
          <5>6. \A u, v \in Threads : InSet(p, u)' /\ InSet(p, v)' => u = v
            BY <1>2, <5>3 DEF PeerIsSound, SettersTakeTurns
          <5> QED BY <5>4, <5>5, <5>6 DEF SettersTakeTurns
        <4> QED BY <4>1, <4>2, <4>3, <4>4 DEF PeerIsSound
      <3>9. /\ PeerIsSound(q)' /\ Held(q)' = Held(q) /\ LastSent(q)' = LastSent(q)
            /\ act'[q] = act[q]
        BY <1>2, <3>2, <3>7, OtherEnd
      <3>10. Held(p)' = m.data
        BY <3>2, <3>5, <3>6, <3>7 DEF Held
      <3>11. WireFits(p)'
        BY <1>1, <1>2, <1>3, <1>9, <3>9, <3>10, HeadIsOff DEF m
      <3>12. WireFits(q)'
        BY <1>1, <1>2, <1>3, <3>2, <3>3, <3>9, WireKept
      <3> QED BY <1>2, <3>2, <3>7, <3>8, <3>9, <3>11, <3>12 DEF Types
    <2> QED BY <2>2, <2>3
  <1>10. CASE m.type = "FINAL"
    <2>1. PushFinal(p, m)
      BY <1>5, <1>10 DEF PushChunk
    <2>2. CASE ~IsActive(p, "PUSH")
      <3>1. UNCHANGED <<thr, act, queued, newest>> /\ act[p].type # "PUSH"
        BY <1>2, <2>1, <2>2, ActiveFacts DEF PushFinal
      <3> QED BY <1>2, <1>7, <3>1 DEF Types
    <2>3. CASE IsActive(p, "PUSH")
      <3> DEFINE a == act[p].thread
                 b == thr[p][a].buffer
      <3>1. /\ act[p].type = "PUSH" /\ a \in Threads /\ thr[p][a] \in Thread /\ b \in Seq(Pieces)
        BY <1>2, <2>3, ActiveFacts
      <3>2. /\ thr' = [thr EXCEPT ![p] = FinishActive(p, TRUE)]
            /\ act' = [act EXCEPT ![p] = Idle]
            /\ queued' = [queued EXCEPT ![p] = a] /\ newest' = [newest EXCEPT ![p] = a]
        BY <2>1, <2>3 DEF PushFinal
      <3>3. IsHead(b)
        BY <1>2, <3>1 DEF PeerIsSound, ActiveIsLive, IsActive, Types, Activity, ThreadIds, Thread
      <3>4. Follows(Ending(b, Len(b)), m)
        BY <1>2, <1>3, <1>10, <3>1, TailFacts DEF WireFits, Held, m
      <3>5. IsWhole(b)
        BY <1>10, <3>1, <3>3, <3>4, LastPiece
      <3>6. /\ queued'[p] = a /\ newest'[p] = a
            /\ \A r \in Peers : r # p => queued'[r] = queued[r] /\ newest'[r] = newest[r]
            /\ queued' \in [Peers -> ThreadIds] /\ newest' \in [Peers -> ThreadIds]
        BY <1>2, <3>1, <3>2 DEF Types, ThreadIds
      <3>7. /\ thr' \in [Peers -> [Threads -> Thread]] /\ act' \in [Peers -> Activity]
            /\ PeerIsSound(p)'
            /\ act'[p].type = "NONE" /\ ~act'[p].start_done
            /\ \A r \in Peers : r # p => thr'[r] = thr[r] /\ act'[r] = act[r]
        BY <1>2, <3>1, <3>2, <3>5, <3>6, Ended
      <3>8. /\ PeerIsSound(q)' /\ Held(q)' = Held(q) /\ LastSent(q)' = LastSent(q)
            /\ act'[q] = act[q]
        BY <1>2, <3>6, <3>7, OtherEnd
      <3>9. WireFits(p)'
        BY <1>1, <1>2, <1>3, <3>7, <3>8, HeadIsOff
      <3>10. WireFits(q)'
        BY <1>1, <1>2, <1>3, <3>7, <3>8, WireKept
      <3> QED BY <3>6, <3>7, <3>8, <3>9, <3>10
    <2> QED BY <2>2, <2>3
  <1> QED BY <1>3, <1>8, <1>9, <1>10 DEF ChunkRecord, ChunkTypes

-----------------------------------------------------------------------------
(* pull_clipboard_chunk *)

LEMMA PullStartPreserves ==
    ASSUME IInv, NEW p \in Peers, Pull(p), PullStart(p)
    PROVE  IInv'
  <1> DEFINE q == Other(p)
  <1>1. /\ q \in Peers /\ q # p /\ Other(q) = p
        /\ \A r \in Peers : r # p => r = q
    BY OtherPeer
  <1>2. /\ Start(p, "PULL", <<>>) /\ UNCHANGED <<os, copies, wire, setting, queued, newest, linked>>
        /\ Types /\ PeerIsSound(p) /\ PeerIsSound(q) /\ WireFits(p) /\ WireFits(q)
        /\ linked \/ p = "server"
    BY <1>1 DEF Pull, PullStart, IInv
  <1>3. <<>> \in Seq(Pieces) /\ IsHead(<<>>)
    BY ClipboardAssumption DEF IsHead
  <1>4. /\ thr' \in [Peers -> [Threads -> Thread]] /\ act' \in [Peers -> Activity]
        /\ PeerIsSound(p)'
        /\ act'[p].type = "PULL" /\ ~act'[p].start_done
        /\ \A r \in Peers : r # p => thr'[r] = thr[r] /\ act'[r] = act[r]
    BY <1>2, <1>3, Started
  <1>5. /\ PeerIsSound(q)' /\ Held(q)' = Held(q) /\ LastSent(q)' = LastSent(q)
        /\ act'[q] = act[q]
    BY <1>2, <1>4, OtherEnd
  <1>6. WireFits(p)' /\ WireFits(q)'
    BY <1>1, <1>2, <1>4, <1>5, WireKept
  <1>7. NothingUnlinked'
    BY <1>1, <1>2, <1>4, OtherPeer DEF NothingUnlinked, IInv, Peers
  <1> QED BY <1>2, <1>4, <1>5, <1>6, <1>7, BothPeers DEF IInv, Types

\* What a pull sends next follows what it has sent.
LEMMA ChunkFollows ==
    ASSUME Types, NEW p \in Peers, PeerIsSound(p), IsActive(p, "PULL")
    PROVE  /\ Chunk(p) \in ChunkRecord /\ ChunkFits(Chunk(p))
           /\ Chunk(p).type = "START" <=> ~act[p].start_done
           /\ act[p].start_done => Follows(LastSent(p), Chunk(p))
           /\ Chunk(p).type # "FINAL" =>
                /\ act[p].pulled + Len(Chunk(p).data) <= Len(Pulled(p))
                /\ Len(Pulled(p)) # 0 => act[p].pulled + Len(Chunk(p).data) >= 1
                /\ Ending(Pulled(p), act[p].pulled + Len(Chunk(p).data)) = Chunk(p).data
  <1> DEFINE b == Pulled(p)
             k == act[p].pulled
             c == Chunk(p)
             d == c.data
  <1>1. /\ act[p].type = "PULL" /\ act[p].thread \in Threads /\ b \in Seq(Pieces)
        /\ Len(b) \in Nat /\ k \in Nat
    BY ActiveFacts DEF Pulled, Types, Activity
  <1>2. thr[p][act[p].thread].kind = "PULL" /\ thr[p][act[p].thread].pc = "wait"
    BY <1>1 DEF PeerIsSound, ActiveIsLive, IsActive
  <1>3. IsWhole(b)
    BY <1>1, <1>2 DEF PeerIsSound, BuffersAreWhole, Pulled
  <1>4. /\ act[p].start_done => k <= Len(b) /\ (Len(b) # 0 => k >= 1)
        /\ ~act[p].start_done => k = 0
    BY DEF PeerIsSound, PulledIsThere, Pulled
  <1>5. /\ c.type = ChunkType(p)
        /\ d = IF k < Len(b) THEN <<b[k + 1]>> ELSE <<>>
        /\ c = [type |-> ChunkType(p), data |-> d]
    BY DEF Chunk
  <1>6. /\ ~act[p].start_done => ChunkType(p) = "START"
        /\ act[p].start_done /\ k = Len(b) => ChunkType(p) = "FINAL"
        /\ act[p].start_done /\ k # Len(b) => ChunkType(p) = "MIDDLE"
    BY DEF ChunkType, Pulled
  <1>7. LastSent(p) = Ending(b, k)
    BY DEF LastSent, Pulled
  <1> SUFFICES /\ d \in Seq(Pieces) /\ Len(d) <= 1
               /\ ~act[p].start_done /\ Len(d) = 1 => d[1][2] = 1
               /\ act[p].start_done => Follows(LastSent(p), c)
               /\ ~(act[p].start_done /\ k = Len(b)) =>
                    /\ k + Len(d) <= Len(b)
                    /\ Len(b) # 0 => k + Len(d) >= 1
                    /\ Ending(b, k + Len(d)) = d
    <2> HIDE DEF b, d, k, c
    <2>1. /\ ChunkType(p) \in ChunkTypes
          /\ ChunkType(p) = "START" <=> ~act[p].start_done
          /\ ChunkType(p) # "FINAL" => ~(act[p].start_done /\ k = Len(b))
      BY <1>6 DEF ChunkTypes
    <2>2. d \in Seq(Pieces) => c \in ChunkRecord
      BY <1>5, <2>1 DEF ChunkRecord
    <2>3. c.type = ChunkType(p)
      BY <1>5
    <2>4. Len(d) <= 1 /\ (~act[p].start_done /\ Len(d) = 1 => d[1][2] = 1) => ChunkFits(c)
      BY <2>1, <2>3 DEF ChunkFits, d
    <2> QED BY <2>1, <2>2, <2>3, <2>4 DEF b, d, k, c
  <1> HIDE DEF b, d, k, c
  <1>8. CASE k < Len(b)
    <2>1. b[k + 1] \in Pieces /\ b[k + 1] = <<b[1][1], k + 1>>
      BY <1>1, <1>3, <1>8 DEF IsWhole, IsHead
    <2>2. d = <<b[k + 1]>> /\ d \in Seq(Pieces) /\ Len(d) = 1 /\ d[1] = <<b[1][1], k + 1>>
      BY <1>5, <1>8, <2>1
    <2>3. k + Len(d) = k + 1 /\ k + 1 <= Len(b) /\ k + 1 >= 1 /\ Ending(b, k + 1) = d
      BY <1>1, <1>8, <2>2 DEF Ending
    <2>4. ~act[p].start_done => d[1][2] = 1
      BY <1>4, <2>2
    <2>5. ASSUME act[p].start_done PROVE Follows(LastSent(p), c)
      <3>1. k >= 1 /\ k # 0
        BY <1>1, <1>4, <1>8, <2>5
      <3>2. b[k] = <<b[1][1], k>>
        BY <1>1, <1>3, <1>8, <3>1 DEF IsWhole, IsHead
      <3>3. Len(Ending(b, k)) = 1 /\ Ending(b, k)[1] = <<b[1][1], k>>
        BY <3>1, <3>2 DEF Ending
      <3>4. c.type = "MIDDLE"
        BY <1>1, <1>5, <1>6, <1>8, <2>5
      <3> QED BY <1>7, <2>2, <3>3, <3>4 DEF Follows, d
    <2> QED BY <2>2, <2>3, <2>4, <2>5
  <1>9. CASE ~(k < Len(b))
    <2>1. d = <<>> /\ d \in Seq(Pieces) /\ Len(d) = 0
      BY <1>5, <1>9
    <2>2. ASSUME ~act[p].start_done
          PROVE  k + Len(d) <= Len(b) /\ Len(b) = 0 /\ Ending(b, k + Len(d)) = d
      <3>1. k = 0 /\ Len(b) = 0
        BY <1>1, <1>4, <1>9, <2>2
      <3>2. k + Len(d) = 0
        BY <2>1, <3>1
      <3> QED BY <2>1, <3>1, <3>2 DEF Ending
    <2>3. ASSUME act[p].start_done PROVE k = Len(b) /\ Follows(LastSent(p), c)
      <3>1. k = Len(b)
        BY <1>1, <1>4, <1>9, <2>3
      <3>2. c.type = "FINAL"
        BY <1>5, <1>6, <2>3, <3>1
      <3>3. Len(Ending(b, k)) = 0 \/ Ending(b, k)[1][2] = Chunks
        <4>1. CASE k = 0
          BY <4>1 DEF Ending
        <4>2. CASE k # 0
          <5>1. b[k] = <<b[1][1], k>> /\ k = Chunks
            BY <1>1, <1>3, <3>1, <4>2 DEF IsWhole, IsHead
          <5> QED BY <5>1, <4>2 DEF Ending
        <4> QED BY <4>1, <4>2
      <3> QED BY <1>7, <3>1, <3>2, <3>3 DEF Follows
    <2> QED BY <2>1, <2>2, <2>3
  <1> QED BY <1>8, <1>9

\* A chunk that follows what was sent is put on the wire, or thrown away without a connection.
LEMMA ChunkIsSent ==
    ASSUME IInv, NEW p \in Peers, linked \/ p = "server", IsActive(p, "PULL"),
           wire' = IF linked THEN [wire EXCEPT ![Other(p)] = Append(@, Chunk(p))] ELSE wire,
           act'[Other(p)] = act[Other(p)], Held(Other(p))' = Held(Other(p)),
           act'[p].start_done => Chunk(p).type # "FINAL" /\ Chunk(p).data = LastSent(p)'
    PROVE  /\ wire' \in [Peers -> Seq(ChunkRecord)]
           /\ wire'[p] = wire[p]
           /\ ~linked => UNCHANGED wire
           /\ WireFits(Other(p))'
  <1> DEFINE q == Other(p)
             w == wire[q]
             c == Chunk(p)
  <1>1. /\ q \in Peers /\ q # p /\ Other(q) = p
        /\ Types /\ PeerIsSound(p) /\ WireFits(q) /\ w \in Seq(ChunkRecord) /\ Len(w) \in Nat
        /\ wire \in [Peers -> Seq(ChunkRecord)]
    BY OtherPeer DEF IInv, Types
  <1>2. /\ c \in ChunkRecord /\ ChunkFits(c)
        /\ c.type = "START" <=> ~act[p].start_done
        /\ act[p].start_done => Follows(LastSent(p), c)
    BY <1>1, ChunkFollows
  <1>3. CASE ~linked
    <2>1. act["client"] = Idle /\ wire["client"] = <<>> /\ p = "server" /\ q = "client"
      BY <1>3 DEF IInv, NothingUnlinked, Peers, Other
    <2>2. UNCHANGED wire /\ act'[q].type = "NONE" /\ Len(wire'[q]) = 0
      BY <1>3, <2>1 DEF Idle
    <2>3. WireFits(q)'
      BY <1>1, <2>2 DEF WireFits, InSequence
    <2> QED BY <1>1, <2>2, <2>3
  <1>4. CASE linked
    <2> HIDE DEF c
    <2>1. wire' = [wire EXCEPT ![q] = Append(w, c)]
      BY <1>4 DEF c
    <2>2. wire'[q] = Append(w, c) /\ wire'[p] = wire[p]
      BY <1>1, <2>1
    <2>3. Len(w) > 0 /\ act[p].start_done => w[Len(w)].type # "FINAL" /\ w[Len(w)].data = LastSent(p)
      BY <1>1 DEF WireFits
    <2>4. /\ InSequence(Append(w, c))
          /\ Append(w, c) \in Seq(ChunkRecord) /\ Len(Append(w, c)) = Len(w) + 1
          /\ Append(w, c)[Len(w) + 1] = c
          /\ Len(w) > 0 => Append(w, c)[1] = w[1]
      BY <1>1, <1>2, <2>3, AppendInSequence DEF WireFits
    <2> DEFINE v == Append(w, c)
    <2> HIDE DEF v
    <2>5. ASSUME v[1].type # "START", act[q].type = "PUSH"
          PROVE  Follows(Held(q), v[1])
      <3>1. CASE Len(w) > 0
        BY <1>1, <2>4, <2>5, <3>1 DEF WireFits, v
      <3>2. CASE ~(Len(w) > 0)
        <4>1. \A n \in Nat : ~(n > 0) => n + 1 = 1
          OBVIOUS
        <4>2. v[1] = c
          BY <1>1, <2>4, <3>2, <4>1 DEF v
        <4>3. Held(q) = LastSent(p)
          BY <1>1, <1>2, <2>5, <3>2, <4>2 DEF WireFits
        <4> QED BY <1>2, <2>5, <4>2, <4>3
      <3> QED BY <3>1, <3>2
    <2>6. InSequence(v) /\ Len(v) > 0 /\ v[Len(v)] = c
      BY <1>1, <2>4 DEF v
    <2>7. wire'[q] = v /\ v = wire'[q] /\ InSequence(wire'[q])
      BY <2>2, <2>6 DEF v
    <2>8. WireFits(q)'
      <3>1. InSequence(wire[q])'
        BY <2>7 DEF InSequence, ChunkFits
      <3>2. (Len(wire[q]) > 0 /\ wire[q][1].type # "START" /\ act[q].type = "PUSH" =>
               Follows(Held(q), wire[q][1]))'
        BY <2>5, <2>7
      <3>3. (act[p].start_done => /\ Len(wire[q]) > 0
                                  /\ wire[q][Len(wire[q])].type # "FINAL"
                                  /\ wire[q][Len(wire[q])].data = LastSent(p))'
        BY <2>6, <2>7 DEF c
      <3> QED BY <1>1, <3>1, <3>2, <3>3 DEF WireFits
    <2>9. wire' \in [Peers -> Seq(ChunkRecord)]
      BY <1>1, <2>1, <2>4
    <2> QED BY <1>4, <2>2, <2>8, <2>9
  <1> QED BY <1>3, <1>4

LEMMA PullChunkPreserves ==
    ASSUME IInv, NEW p \in Peers, Pull(p), PullChunk(p)
    PROVE  IInv'
  <1> DEFINE q == Other(p)
             c == Chunk(p)
  <1>1. /\ q \in Peers /\ q # p /\ Other(q) = p
        /\ \A r \in Peers : r # p => r = q
    BY OtherPeer
  <1>2. /\ UNCHANGED <<os, copies, setting, queued, newest, linked>>
        /\ IsActive(p, "PULL")
        /\ wire' = IF linked THEN [wire EXCEPT ![q] = Append(@, c)] ELSE wire
        /\ Types /\ PeerIsSound(p) /\ PeerIsSound(q) /\ WireFits(p) /\ WireFits(q)
        /\ linked \/ p = "server"
    BY <1>1 DEF Pull, PullChunk, IInv
  <1>3. act[p].type = "PULL" /\ act[p].thread \in Threads
    BY <1>2, ActiveFacts
  <1>4. ASSUME thr' \in [Peers -> [Threads -> Thread]], act' \in [Peers -> Activity],
               PeerIsSound(p)', act'[p].type # "PUSH",
               \A r \in Peers : r # p => thr'[r] = thr[r] /\ act'[r] = act[r],
               act'[p].start_done => c.type # "FINAL" /\ c.data = LastSent(p)'
        PROVE  IInv'
    <2>1. /\ PeerIsSound(q)' /\ Held(q)' = Held(q) /\ LastSent(q)' = LastSent(q)
          /\ act'[q] = act[q]
      BY <1>2, <1>4, OtherEnd
    <2>2. /\ wire' \in [Peers -> Seq(ChunkRecord)] /\ wire'[p] = wire[p]
          /\ ~linked => UNCHANGED wire
          /\ WireFits(q)'
      BY <1>2, <1>4, <2>1, ChunkIsSent
    <2>3. WireFits(p)'
      BY <1>2, <1>4, <2>1, <2>2, WireKept
    <2>4. NothingUnlinked'
      BY <1>1, <1>2, <1>4, <2>2 DEF NothingUnlinked, IInv, Peers
    <2> QED BY <1>2, <1>4, <2>1, <2>2, <2>3, <2>4, BothPeers DEF IInv, Types
  <1>5. CASE c.type = "FINAL"
    <2>1. /\ act' = [act EXCEPT ![p] = Idle]
          /\ thr' = [thr EXCEPT ![p] = FinishActive(p, TRUE)]
      BY <1>5 DEF PullChunk
    <2>2. /\ thr' \in [Peers -> [Threads -> Thread]] /\ act' \in [Peers -> Activity]
          /\ PeerIsSound(p)'
          /\ act'[p].type = "NONE" /\ ~act'[p].start_done
          /\ \A r \in Peers : r # p => thr'[r] = thr[r] /\ act'[r] = act[r]
      BY <1>2, <1>3, <2>1, Ended
    <2> QED BY <1>4, <2>2
  <1>6. CASE c.type # "FINAL"
    <2> DEFINE n == act[p].pulled + Len(c.data)
               A == [act[p] EXCEPT !.start_done = TRUE, !.pulled = n]
    <2>1. /\ act' = [act EXCEPT ![p] = A]
          /\ UNCHANGED thr
      BY <1>6 DEF PullChunk
    <2>2. /\ c \in ChunkRecord /\ n <= Len(Pulled(p)) /\ (Len(Pulled(p)) # 0 => n >= 1)
          /\ Ending(Pulled(p), n) = c.data
      BY <1>2, <1>6, ChunkFollows
    <2>3. act[p] \in Activity /\ act[p].pulled \in Nat /\ n \in Nat
      BY <1>2, <2>2 DEF Types, Activity, ChunkRecord
    <2>4. /\ A \in Activity /\ A.thread = act[p].thread /\ A.type = "PULL"
          /\ A.published = act[p].published /\ A.start_done /\ A.pulled = n
      BY <1>3, <2>3 DEF Activity
    <2> HIDE DEF A, n, c
    <2>5. act'[p] = A /\ act' \in [Peers -> Activity]
          /\ \A r \in Peers : r # p => thr'[r] = thr[r] /\ act'[r] = act[r]
      BY <1>2, <2>1, <2>4 DEF Types
    <2>6. act[p].published
      BY <1>2 DEF IsActive
    <2>7. ActiveIsLive(p)' /\ PulledIsThere(p)'
      BY <1>2, <1>3, <2>1, <2>2, <2>4, <2>5, <2>6, ZenonT(30) DEF PeerIsSound, ActiveIsLive, PulledIsThere, Pulled
    <2>8. LateOnesAreGivenUp(p)' /\ BuffersAreWhole(p)' /\ SettersTakeTurns(p)'
      BY <1>2, <2>1, <2>4, <2>5 DEF PeerIsSound, LateOnesAreGivenUp, BuffersAreWhole, SettersTakeTurns, InSet
    <2>9. LastSent(p)' = c.data
      BY <2>1, <2>2, <2>4, <2>5 DEF LastSent, Pulled
    <2> QED BY <1>2, <1>4, <1>6, <2>1, <2>4, <2>5, <2>7, <2>8, <2>9 DEF PeerIsSound, Types, c
  <1> QED BY <1>5, <1>6

LEMMA PullPreserves ==
    ASSUME IInv, NEW p \in Peers, Pull(p)
    PROVE  IInv'
  <1>1. CASE PullStart(p)
    BY <1>1, PullStartPreserves
  <1>2. CASE PullChunk(p)
    BY <1>2, PullChunkPreserves
  <1>3. CASE PullNothing(p)
    <2>1. UNCHANGED <<os, copies, thr, act, wire, setting, queued, newest, linked>>
      BY <1>3 DEF Pull, PullNothing
    <2> QED BY <2>1, NothingChanges DEF IInv, Types
  <1> QED BY <1>1, <1>2, <1>3 DEF Pull

-----------------------------------------------------------------------------
(* The threads of the transfers *)

\* Thread t of p becomes N; of what the other end relies on nothing changes.
LEMMA ThreadMoves ==
    ASSUME IInv, NEW p \in Peers, NEW t \in Threads, NEW N \in Thread,
           thr' = [thr EXCEPT ![p][t] = N],
           act' \in [Peers -> Activity],
           \A r \in Peers : /\ r # p => act'[r] = act[r]
                            /\ act'[r].thread = act[r].thread /\ act'[r].type = act[r].type
                            /\ act'[r].start_done = act[r].start_done
                            /\ act'[r].pulled = act[r].pulled,
           ~linked => act'["client"] = act["client"],
           \/ N.buffer = thr[p][t].buffer
           \/ act[p].thread = t => act[p].type # "PUSH" /\ ~act[p].start_done,
           os' \in [Peers -> 0 .. MaxCopies],
           setting' \in [Peers -> BOOLEAN], queued' \in [Peers -> ThreadIds],
           \A r \in Peers : r # p => setting'[r] = setting[r] /\ queued'[r] = queued[r],
           UNCHANGED <<copies, wire, linked, newest>>,
           PeerIsSound(p)'
    PROVE  IInv'
  <1> DEFINE q == Other(p)
  <1>1. /\ q \in Peers /\ q # p /\ Other(q) = p
        /\ \A r \in Peers : r # p => r = q
    BY OtherPeer
  <1>2. /\ Types /\ PeerIsSound(p) /\ WireFits(p) /\ WireFits(q)
    BY <1>1 DEF IInv
  <1>3. /\ thr' \in [Peers -> [Threads -> Thread]] /\ thr'[p][t] = N
        /\ \A u \in Threads : u # t => thr'[p][u] = thr[p][u]
        /\ \A r \in Peers : r # p => thr'[r] = thr[r]
    BY <1>2 DEF Types
  <1>4. Types'
    BY <1>2, <1>3 DEF Types
  <1>5. NothingUnlinked'
    BY DEF IInv, NothingUnlinked
  <1>6. PeerIsSound(q)' /\ Held(q)' = Held(q) /\ LastSent(q)' = LastSent(q)
    BY <1>3, OtherEnd
  <1>7. act[p].type # "NONE" => act[p].thread \in Threads
    BY <1>2, ActiveFacts
  <1>8. act[p].type = "PUSH" => Held(p)' = Held(p)
    <2>1. act[p].type = "PUSH" => thr'[p][act[p].thread].buffer = thr[p][act[p].thread].buffer
      BY <1>3, <1>7
    <2> QED BY <2>1 DEF Held
  <1>9. act[p].start_done => LastSent(p)' = LastSent(p)
    <2>1. act[p].start_done => act[p].type # "NONE"
      BY <1>2 DEF PeerIsSound, ActiveIsLive
    <2>2. act[p].start_done => thr'[p][act[p].thread].buffer = thr[p][act[p].thread].buffer
      BY <1>3, <1>7, <2>1
    <2> QED BY <2>2 DEF LastSent
  <1>10. WireFits(p)' /\ WireFits(q)'
    BY <1>1, <1>2, <1>6, <1>8, <1>9, WireKept
  <1> QED BY <1>4, <1>5, <1>6, <1>10, BothPeers DEF IInv

\* What get_os_clipboard reads is whole.
LEMMA DataIsWhole ==
    ASSUME NEW c \in 0 .. MaxCopies
    PROVE  Data(c) \in Seq(Pieces) /\ IsWhole(Data(c))
  <1> DEFINE n == IF c = 0 THEN 0 ELSE Chunks
  <1>1. /\ n \in Nat /\ n <= Chunks /\ (n = 0 \/ n = Chunks)
        /\ \A i \in 1 .. n : <<c, i>> \in Pieces
    BY ClipboardAssumption DEF Pieces
  <1>2. Data(c) = [i \in 1 .. n |-> <<c, i>>]
    BY DEF Data
  <1> HIDE DEF n
  <1>3. Data(c) \in Seq(Pieces) /\ Len(Data(c)) = n /\ \A i \in 1 .. n : Data(c)[i] = <<c, i>>
    BY <1>1, <1>2
  <1>4. \A i \in 1 .. n : Data(c)[i] = <<Data(c)[1][1], i>>
    <2> TAKE i \in 1 .. n
    <2>1. 1 \in 1 .. n
      BY <1>1
    <2>2. Data(c)[1] = <<c, 1>> /\ Data(c)[i] = <<c, i>>
      BY <1>3, <2>1
    <2> QED BY <2>2
  <1> QED BY <1>1, <1>3, <1>4 DEF IsWhole, IsHead

\* The fields of a thread that goes on.
LEMMA ThreadFields ==
    ASSUME Types, NEW p \in Peers, NEW t \in Threads, NEW N \in Thread,
           thr' = [thr EXCEPT ![p][t] = N]
    PROVE  thr'[p][t] = N /\ \A u \in Threads : u # t => thr'[p][u] = thr[p][u]
  BY DEF Types

LEMMA GetBeginsPreserves ==
    ASSUME IInv, NEW p \in Peers, NEW t \in Threads, GetBegins(p, t)
    PROVE  IInv'
  <1> DEFINE N == [thr[p][t] EXCEPT !.pc = "read", !.buffer = Data(os[p])]
  <1>1. Types /\ PeerIsSound(p) /\ thr[p][t] \in Thread /\ os[p] \in 0 .. MaxCopies
    BY DEF IInv, Types
  <1>2. /\ thr[p][t].pc = "get" /\ thr' = [thr EXCEPT ![p][t] = N]
        /\ UNCHANGED <<os, act, setting, queued, wire, linked, copies, newest>>
    BY <1>1 DEF GetBegins, Types
  <1>3. Data(os[p]) \in Seq(Pieces) /\ IsWhole(Data(os[p]))
    BY <1>1, DataIsWhole
  <1>4. /\ N \in Thread /\ N.pc = "read" /\ N.kind = thr[p][t].kind /\ N.buffer = Data(os[p])
        /\ N.complete = thr[p][t].complete /\ N.aborting = thr[p][t].aborting
    BY <1>1, <1>3 DEF Thread, Places
  <1> HIDE DEF N
  <1>5. thr'[p][t] = N /\ \A u \in Threads : u # t => thr'[p][u] = thr[p][u]
    BY <1>1, <1>2, <1>4, ThreadFields
  <1>6. thr[p][t].kind = "PULL"
    BY <1>1, <1>2 DEF PeerIsSound, LateOnesAreGivenUp
  <1>7. act[p].thread = t => act[p].type # "PUSH" /\ ~act[p].start_done /\ ~act[p].published
    BY <1>1, <1>2, <1>6, ClipboardAssumption DEF PeerIsSound, ActiveIsLive
  <1>8. PeerIsSound(p)'
    <2>1. ActiveIsLive(p)' /\ PulledIsThere(p)'
      <3>1. act[p].thread \in ThreadIds
        BY <1>1 DEF Types, Activity
      <3> QED BY <1>1, <1>2, <1>4, <1>5, <1>7, <3>1 DEF PeerIsSound, ActiveIsLive, PulledIsThere, ThreadIds
    <2>2. LateOnesAreGivenUp(p)'
      BY <1>1, <1>2, <1>4, <1>5 DEF PeerIsSound, LateOnesAreGivenUp
    <2>3. BuffersAreWhole(p)'
      BY <1>1, <1>3, <1>4, <1>5, <1>6 DEF PeerIsSound, BuffersAreWhole
    <2>4. SettersTakeTurns(p)'
      <3>1. queued[p] \in ThreadIds
        BY <1>1 DEF Types
      <3> QED BY <1>1, <1>2, <1>4, <1>5, <3>1 DEF PeerIsSound, SettersTakeTurns, InSet, ThreadIds
    <2> QED BY <2>1, <2>2, <2>3, <2>4 DEF PeerIsSound
  <1> QED BY <1>1, <1>2, <1>4, <1>7, <1>8, ThreadMoves DEF Types

\* A thread goes on with its data, to a place that fits what is known of it.
LEMMA PlaceChanges ==
    ASSUME IInv, NEW p \in Peers, NEW t \in Threads, NEW N \in Thread,
           thr' = [thr EXCEPT ![p][t] = N],
           N.kind = thr[p][t].kind, N.buffer = thr[p][t].buffer,
           N.complete = thr[p][t].complete, thr[p][t].aborting => N.aborting,
           act[p].thread = t =>
               /\ N.pc \in {"get", "read", "got", "wait"} /\ ~N.aborting
               /\ thr[p][t].pc = "wait" => N.pc = "wait",
           N.pc \in {"get", "read", "got"} => thr[p][t].pc \in {"get", "read", "got"},
           N.pc \in {"read", "got", "wait"} => thr[p][t].pc \in {"read", "got", "wait"},
           queued'[p] # 0 => queued'[p] = queued[p] /\ (queued'[p] = t => N.pc = "wait"),
           N.pc \in {"set", "unset"} =>
               setting'[p] /\ N.complete /\ (InSet(p, t) \/ ~setting[p]),
           setting[p] /\ ~InSet(p, t) => setting'[p],
           os' \in [Peers -> 0 .. MaxCopies],
           setting' \in [Peers -> BOOLEAN], queued' \in [Peers -> ThreadIds],
           \A r \in Peers : r # p => setting'[r] = setting[r] /\ queued'[r] = queued[r],
           UNCHANGED <<act, copies, wire, linked, newest>>
    PROVE  IInv'
  <1>1. Types /\ PeerIsSound(p) /\ thr[p][t] \in Thread /\ act[p].thread \in ThreadIds
        /\ queued[p] \in ThreadIds
    BY DEF IInv, Types, Activity
  <1>2. thr'[p][t] = N /\ \A u \in Threads : u # t => thr'[p][u] = thr[p][u]
    BY <1>1, ThreadFields
  <1>3. ActiveIsLive(p)' /\ PulledIsThere(p)'
    <2>1. CASE act[p].thread = t
      BY <1>1, <1>2, <2>1 DEF PeerIsSound, ActiveIsLive, PulledIsThere
    <2>2. CASE act[p].thread # t
      <3>1. ActiveIsLive(p)'
        BY <1>1, <1>2, <2>2 DEF PeerIsSound, ActiveIsLive, ThreadIds
      <3>2. PulledIsThere(p)'
        BY <1>1, <1>2, <2>2 DEF PeerIsSound, PulledIsThere, ThreadIds
      <3> QED BY <3>1, <3>2
    <2> QED BY <2>1, <2>2
  <1>4. LateOnesAreGivenUp(p)'
    BY <1>1, <1>2 DEF PeerIsSound, LateOnesAreGivenUp
  <1>5. BuffersAreWhole(p)'
    BY <1>1, <1>2 DEF PeerIsSound, BuffersAreWhole
  <1>6. SettersTakeTurns(p)'
    <2>1. queued'[p] # 0 =>
             LET u == thr'[p][queued'[p]]
             IN  u.kind = "PUSH" /\ u.pc = "wait" /\ u.complete /\ newest'[p] = queued'[p]
      BY <1>1, <1>2 DEF PeerIsSound, SettersTakeTurns, ThreadIds
    <2>2. \A u \in Threads : u # t => (InSet(p, u)' <=> InSet(p, u))
                                      /\ thr'[p][u].complete = thr[p][u].complete
      BY <1>2 DEF InSet
    <2>3. InSet(p, t)' => N.pc \in {"set", "unset"}
      BY <1>2 DEF InSet
    <2>4. \A u \in Threads : InSet(p, u) => setting[p] /\ thr[p][u].complete
      BY <1>1 DEF PeerIsSound, SettersTakeTurns
    <2>5. \A u, v \in Threads : InSet(p, u) /\ InSet(p, v) => u = v
      BY <1>1 DEF PeerIsSound, SettersTakeTurns
    <2>6. \A u \in Threads : InSet(p, u)' => setting'[p] /\ thr'[p][u].complete
      BY <1>2, <2>2, <2>3, <2>4, <2>5
    <2>7. \A u, v \in Threads : InSet(p, u)' /\ InSet(p, v)' => u = v
      BY <2>2, <2>3, <2>4, <2>5
    <2> QED BY <2>1, <2>6, <2>7 DEF SettersTakeTurns
  <1>7. PeerIsSound(p)'
    BY <1>3, <1>4, <1>5, <1>6 DEF PeerIsSound
  <1>8. act' \in [Peers -> Activity]
    BY <1>1 DEF Types
  <1> QED BY <1>7, <1>8, ThreadMoves

LEMMA GetEndsPreserves ==
    ASSUME IInv, NEW p \in Peers, NEW t \in Threads, GetEnds(p, t)
    PROVE  IInv'
  <1> DEFINE N == [thr[p][t] EXCEPT !.pc = "got"]
  <1>1. Types /\ PeerIsSound(p) /\ thr[p][t] \in Thread
    BY DEF IInv, Types
  <1>2. /\ thr[p][t].pc = "read" /\ thr' = [thr EXCEPT ![p][t] = N]
        /\ UNCHANGED <<os, act, setting, queued, wire, linked, copies, newest>>
    BY <1>1 DEF GetEnds, Types
  <1>3. /\ N \in Thread /\ N.pc = "got" /\ N.kind = thr[p][t].kind /\ N.buffer = thr[p][t].buffer
        /\ N.complete = thr[p][t].complete /\ N.aborting = thr[p][t].aborting
    BY <1>1 DEF Thread, Places
  <1> HIDE DEF N
  <1>4. act[p].thread = t => ~N.aborting
    BY <1>1, <1>3, ClipboardAssumption DEF PeerIsSound, ActiveIsLive
  <1>5. queued[p] # t
    BY <1>1, <1>2, ClipboardAssumption DEF PeerIsSound, SettersTakeTurns
  <1> QED BY <1>1, <1>2, <1>3, <1>4, <1>5, PlaceChanges DEF Types

LEMMA PublishPreserves ==
    ASSUME IInv, NEW p \in Peers, NEW t \in Threads, Publish(p, t)
    PROVE  IInv'
  <1> DEFINE N == [thr[p][t] EXCEPT !.pc = "wait"]
             A == [act[p] EXCEPT !.published = TRUE]
  <1>1. Types /\ PeerIsSound(p) /\ thr[p][t] \in Thread /\ act[p] \in Activity
    BY DEF IInv, Types
  <1>2. /\ thr[p][t].pc = "got" /\ ~thr[p][t].complete /\ ~thr[p][t].aborting
        /\ thr' = [thr EXCEPT ![p][t] = N]
        /\ act' = [act EXCEPT ![p] = A]
        /\ UNCHANGED <<os, setting, queued, wire, linked, copies, newest>>
    BY <1>1 DEF Publish, Types
  <1>3. /\ N \in Thread /\ N.pc = "wait" /\ N.kind = thr[p][t].kind /\ N.buffer = thr[p][t].buffer
        /\ N.complete = thr[p][t].complete /\ N.aborting = thr[p][t].aborting
    BY <1>1 DEF Thread, Places
  <1>4. /\ A \in Activity /\ A.thread = act[p].thread /\ A.type = act[p].type /\ A.published
        /\ A.start_done = act[p].start_done /\ A.pulled = act[p].pulled
    BY <1>1 DEF Activity
  <1> HIDE DEF N, A
  <1>5. thr'[p][t] = N /\ \A u \in Threads : u # t => thr'[p][u] = thr[p][u]
    BY <1>1, <1>2, <1>3, ThreadFields
  <1>6. thr[p][t].kind = "PULL" /\ act[p].thread = t /\ t # 0
    BY <1>1, <1>2, ClipboardAssumption DEF PeerIsSound, LateOnesAreGivenUp
  <1>7. act'[p] = A /\ act' \in [Peers -> Activity] /\ \A r \in Peers : r # p => act'[r] = act[r]
    BY <1>1, <1>2, <1>4 DEF Types
  <1>8. ActiveIsLive(p)' /\ PulledIsThere(p)'
    BY <1>1, <1>2, <1>3, <1>4, <1>5, <1>6, <1>7 DEF PeerIsSound, ActiveIsLive, PulledIsThere
  <1>9. LateOnesAreGivenUp(p)'
    BY <1>1, <1>3, <1>4, <1>5, <1>7 DEF PeerIsSound, LateOnesAreGivenUp
  <1>10. BuffersAreWhole(p)'
    BY <1>1, <1>2, <1>3, <1>5 DEF PeerIsSound, BuffersAreWhole
  <1>11. SettersTakeTurns(p)'
    <2>1. queued[p] \in ThreadIds
      BY <1>1 DEF Types
    <2> QED BY <1>1, <1>2, <1>3, <1>5, <2>1 DEF PeerIsSound, SettersTakeTurns, InSet, ThreadIds
  <1>12. ~linked => act'["client"] = act["client"]
    <2>1. ~linked => p # "client"
      BY <1>6 DEF IInv, NothingUnlinked, Idle
    <2> QED BY <2>1, <1>7 DEF Peers
  <1> QED BY <1>1, <1>2, <1>3, <1>4, <1>7, <1>8, <1>9, <1>10, <1>11, <1>12, ThreadMoves
          DEF PeerIsSound, Types

LEMMA PullThreadEndsPreserves ==
    ASSUME IInv, NEW p \in Peers, NEW t \in Threads, PullThreadEnds(p, t)
    PROVE  IInv'
  <1> DEFINE N == [thr[p][t] EXCEPT !.pc = "done"]
  <1>1. Types /\ PeerIsSound(p) /\ thr[p][t] \in Thread
    BY DEF IInv, Types
  <1>2. /\ thr[p][t].kind = "PULL" /\ (thr[p][t].complete \/ thr[p][t].aborting)
        /\ thr' = [thr EXCEPT ![p][t] = N]
        /\ UNCHANGED <<os, act, setting, queued, wire, linked, copies, newest>>
    BY <1>1 DEF PullThreadEnds, Types
  <1>3. /\ N \in Thread /\ N.pc = "done" /\ N.kind = thr[p][t].kind /\ N.buffer = thr[p][t].buffer
        /\ N.complete = thr[p][t].complete /\ N.aborting = thr[p][t].aborting
    BY <1>1 DEF Thread, Places
  <1> HIDE DEF N
  <1>4. act[p].thread # t
    BY <1>1, <1>2, ClipboardAssumption DEF PeerIsSound, ActiveIsLive
  <1>5. queued[p] # t
    BY <1>1, <1>2, ClipboardAssumption DEF PeerIsSound, SettersTakeTurns
  <1> QED BY <1>1, <1>2, <1>3, <1>4, <1>5, PlaceChanges DEF Types

LEMMA TakesTurnPreserves ==
    ASSUME IInv, NEW p \in Peers, NEW t \in Threads, TakesTurn(p, t)
    PROVE  IInv'
  <1> DEFINE N == [thr[p][t] EXCEPT !.pc = "set"]
  <1>1. Types /\ PeerIsSound(p) /\ thr[p][t] \in Thread
    BY DEF IInv, Types
  <1>2. /\ thr[p][t].complete /\ ~setting[p]
        /\ thr' = [thr EXCEPT ![p][t] = N]
        /\ setting' = [setting EXCEPT ![p] = TRUE] /\ queued' = [queued EXCEPT ![p] = 0]
        /\ UNCHANGED <<os, act, wire, linked, copies, newest>>
    BY <1>1 DEF TakesTurn, MaySet, Types
  <1>3. /\ N \in Thread /\ N.pc = "set" /\ N.kind = thr[p][t].kind /\ N.buffer = thr[p][t].buffer
        /\ N.complete = thr[p][t].complete /\ N.aborting = thr[p][t].aborting
    BY <1>1 DEF Thread, Places
  <1> HIDE DEF N
  <1>4. act[p].thread # t
    BY <1>1, <1>2, ClipboardAssumption DEF PeerIsSound, ActiveIsLive
  <1>5. /\ setting'[p] /\ queued'[p] = 0
        /\ setting' \in [Peers -> BOOLEAN] /\ queued' \in [Peers -> ThreadIds]
        /\ \A r \in Peers : r # p => setting'[r] = setting[r] /\ queued'[r] = queued[r]
    BY <1>1, <1>2 DEF Types, ThreadIds
  <1> QED BY <1>1, <1>2, <1>3, <1>4, <1>5, PlaceChanges DEF Types

LEMMA QuitsPreserves ==
    ASSUME IInv, NEW p \in Peers, NEW t \in Threads, Quits(p, t)
    PROVE  IInv'
  <1> DEFINE N == [thr[p][t] EXCEPT !.aborting = TRUE, !.pc = "done"]
  <1>1. Types /\ PeerIsSound(p) /\ thr[p][t] \in Thread
    BY DEF IInv, Types
  <1>2. /\ MustQuit(p, t)
        /\ thr' = [thr EXCEPT ![p][t] = N]
        /\ UNCHANGED <<os, act, setting, queued, wire, linked, copies, newest>>
    BY <1>1 DEF Quits, Types
  <1>3. /\ N \in Thread /\ N.pc = "done" /\ N.kind = thr[p][t].kind /\ N.buffer = thr[p][t].buffer
        /\ N.complete = thr[p][t].complete /\ N.aborting
    BY <1>1 DEF Thread, Places
  <1> HIDE DEF N
  <1>4. act[p].thread # t
    BY <1>1, <1>2, ClipboardAssumption DEF PeerIsSound, ActiveIsLive, MustQuit
  <1>5. queued[p] # t
    BY <1>1, <1>2, ClipboardAssumption DEF PeerIsSound, SettersTakeTurns, MustQuit
  <1> QED BY <1>1, <1>2, <1>3, <1>4, <1>5, PlaceChanges DEF Types

LEMMA SetOsPreserves ==
    ASSUME IInv, NEW p \in Peers, NEW t \in Threads, SetOs(p, t)
    PROVE  IInv'
  <1> DEFINE N == [thr[p][t] EXCEPT !.pc = "unset"]
             b == thr[p][t].buffer
  <1>1. Types /\ PeerIsSound(p) /\ thr[p][t] \in Thread /\ b \in Seq(Pieces)
    BY DEF IInv, Types, Thread
  <1>2. /\ thr[p][t].pc = "set" /\ thr' = [thr EXCEPT ![p][t] = N]
        /\ os' = os \/ (b # <<>> /\ os' = [os EXCEPT ![p] = b[1][1]])
        /\ UNCHANGED <<act, setting, queued, wire, linked, copies, newest>>
    BY <1>1 DEF SetOs, Types
  <1>3. /\ N \in Thread /\ N.pc = "unset" /\ N.kind = thr[p][t].kind /\ N.buffer = b
        /\ N.complete = thr[p][t].complete /\ N.aborting = thr[p][t].aborting
    BY <1>1 DEF Thread, Places
  <1> HIDE DEF N
  <1>4. act[p].thread # t
    BY <1>1, <1>2, ClipboardAssumption DEF PeerIsSound, ActiveIsLive
  <1>5. queued[p] # t
    BY <1>1, <1>2, ClipboardAssumption DEF PeerIsSound, SettersTakeTurns
  <1>6. InSet(p, t) /\ setting[p] /\ thr[p][t].complete
    BY <1>1, <1>2 DEF PeerIsSound, SettersTakeTurns, InSet
  <1>7. os' \in [Peers -> 0 .. MaxCopies]
    <2>1. b # <<>> => b[1] \in Pieces
      BY <1>1
    <2>2. b # <<>> => b[1][1] \in 0 .. MaxCopies
      BY <2>1, ClipboardAssumption DEF Pieces
    <2> HIDE DEF b
    <2> QED BY <1>1, <1>2, <2>2 DEF Types
  <1> QED BY <1>1, <1>2, <1>3, <1>4, <1>5, <1>6, <1>7, PlaceChanges DEF Types

LEMMA SetEndsPreserves ==
    ASSUME IInv, NEW p \in Peers, NEW t \in Threads, SetEnds(p, t)
    PROVE  IInv'
  <1> DEFINE N == [thr[p][t] EXCEPT !.pc = "done"]
  <1>1. Types /\ PeerIsSound(p) /\ thr[p][t] \in Thread
    BY DEF IInv, Types
  <1>2. /\ thr[p][t].pc = "unset" /\ thr' = [thr EXCEPT ![p][t] = N]
        /\ setting' = [setting EXCEPT ![p] = FALSE]
        /\ UNCHANGED <<os, act, queued, wire, linked, copies, newest>>
    BY <1>1 DEF SetEnds, Types
  <1>3. /\ N \in Thread /\ N.pc = "done" /\ N.kind = thr[p][t].kind /\ N.buffer = thr[p][t].buffer
        /\ N.complete = thr[p][t].complete /\ N.aborting = thr[p][t].aborting
    BY <1>1 DEF Thread, Places
  <1> HIDE DEF N
  <1>4. act[p].thread # t
    BY <1>1, <1>2, ClipboardAssumption DEF PeerIsSound, ActiveIsLive
  <1>5. queued[p] # t
    BY <1>1, <1>2, ClipboardAssumption DEF PeerIsSound, SettersTakeTurns
  <1>6. InSet(p, t)
    BY <1>2 DEF InSet
  <1>7. setting' \in [Peers -> BOOLEAN] /\ \A r \in Peers : r # p => setting'[r] = setting[r]
    BY <1>1, <1>2 DEF Types
  <1> QED BY <1>1, <1>2, <1>3, <1>4, <1>5, <1>6, <1>7, PlaceChanges DEF Types

-----------------------------------------------------------------------------
(* Users, and the connection *)

LEMMA UserCopiesPreserves ==
    ASSUME IInv, NEW p \in Peers, NEW c \in 0 .. MaxCopies, UserCopies(p, c)
    PROVE  IInv'
  <1>1. /\ copies < MaxCopies /\ copies' = copies + 1 /\ os' = [os EXCEPT ![p] = c]
        /\ UNCHANGED <<thr, act, wire, setting, queued, newest, linked>>
    BY DEF UserCopies
  <1>2. copies' \in 0 .. MaxCopies /\ os' \in [Peers -> 0 .. MaxCopies]
    BY <1>1, ClipboardAssumption DEF IInv, Types
  <1> QED BY <1>1, <1>2, NothingChanges

LEMMA DisconnectPreserves ==
    ASSUME IInv, Disconnect
    PROVE  IInv'
  <1> DEFINE p == "client"
             q == Other(p)
  <1>1. /\ p \in Peers /\ q \in Peers /\ q # p /\ Other(q) = p
        /\ \A r \in Peers : r # p => r = q
    BY OtherPeer DEF Peers
  <1>2. Types /\ PeerIsSound(p)
    BY <1>1 DEF IInv
  <1>3. /\ thr' = [thr EXCEPT ![p] = FinishActive(p, FALSE)]
        /\ act' = [act EXCEPT ![p] = Idle]
        /\ wire' = [r \in Peers |-> <<>>]
        /\ UNCHANGED <<os, copies, setting, queued, newest>>
    BY DEF Disconnect
  <1> HIDE DEF p
  <1>4. /\ thr' \in [Peers -> [Threads -> Thread]] /\ act' \in [Peers -> Activity]
        /\ PeerIsSound(p)'
        /\ act'[p].type = "NONE" /\ ~act'[p].start_done
        /\ \A r \in Peers : r # p => thr'[r] = thr[r] /\ act'[r] = act[r]
    BY <1>1, <1>2, <1>3, Ended
  <1>5. PeerIsSound(q)'
    BY <1>1, <1>3, <1>4, OtherEnd
  <1>6. wire' \in [Peers -> Seq(ChunkRecord)] /\ \A r \in Peers : wire'[r] = <<>>
    BY <1>3
  <1>7. \A r \in Peers : InSequence(wire'[r]) /\ Len(wire'[r]) = 0
    BY <1>6 DEF InSequence
  <1>8. WireFits(p)' /\ WireFits(q)'
    <2>1. InSequence(wire[p])' /\ InSequence(wire[q])'
      BY <1>1, <1>7 DEF InSequence, ChunkFits
    <2> HIDE DEF q
    <2>2. act'[p].type = "NONE" /\ ~act'[p].start_done /\ Len(wire'[p]) = 0 /\ Len(wire'[q]) = 0
      BY <1>1, <1>4, <1>7
    <2>3. WireFits(p)'
      BY <2>1, <2>2 DEF WireFits
    <2>4. WireFits(q)'
      BY <1>1, <2>1, <2>2 DEF WireFits
    <2> QED BY <2>3, <2>4
  <1>9. act'[p] = Idle
    BY <1>1, <1>2, <1>3 DEF Types
  <1> QED BY <1>1, <1>2, <1>3, <1>4, <1>5, <1>6, <1>8, <1>9, BothPeers DEF IInv, Types, NothingUnlinked, p

LEMMA ReconnectPreserves ==
    ASSUME IInv, Reconnect
    PROVE  IInv'
  <1> DEFINE p == "client"
             q == Other(p)
  <1>1. /\ p \in Peers /\ q \in Peers /\ q # p /\ Other(q) = p
        /\ \A r \in Peers : r # p => r = q
    BY OtherPeer DEF Peers
  <1>2. Types /\ act[p] = Idle /\ \A r \in Peers : wire[r] = <<>>
    BY DEF IInv, NothingUnlinked, Reconnect
  <1>3. /\ \A t \in Threads : thr[p][t].pc \in {"free", "done"}
        /\ linked' /\ thr' = [thr EXCEPT ![p] = Joined(@)]
        /\ setting' = [setting EXCEPT ![p] = FALSE] /\ queued' = [queued EXCEPT ![p] = 0]
        /\ UNCHANGED <<os, copies, act, wire, newest>>
    BY DEF Reconnect
  <1> HIDE DEF p
  <1>4. Joined(thr[p]) = [t \in Threads |-> IF thr[p][t].pc = "done" THEN Unused ELSE thr[p][t]]
    BY DEF Joined
  <1>5. /\ thr' \in [Peers -> [Threads -> Thread]]
        /\ \A t \in Threads : thr'[p][t].pc = "free" /\ thr'[p][t] \in {Unused, thr[p][t]}
        /\ \A r \in Peers : r # p => thr'[r] = thr[r]
    <2>1. \A t \in Threads : /\ Joined(thr[p])[t] \in Thread
                             /\ Joined(thr[p])[t].pc = "free"
                             /\ Joined(thr[p])[t] \in {Unused, thr[p][t]}
      BY <1>1, <1>2, <1>3, <1>4, UnusedThread DEF Types, Unused
    <2>2. Joined(thr[p]) \in [Threads -> Thread]
      BY <1>4, <2>1
    <2> HIDE DEF q
    <2> QED BY <1>1, <1>2, <1>3, <2>1, <2>2 DEF Types
  <1>6. /\ setting' \in [Peers -> BOOLEAN] /\ queued' \in [Peers -> ThreadIds] /\ queued'[p] = 0
        /\ \A r \in Peers : r # p => setting'[r] = setting[r] /\ queued'[r] = queued[r]
    BY <1>1, <1>2, <1>3 DEF Types, ThreadIds
  <1>7. PeerIsSound(q)' /\ Held(q)' = Held(q) /\ LastSent(q)' = LastSent(q)
    BY <1>1, <1>3, <1>5, <1>6, OtherEnd
  <1>8. /\ act'[p].thread = 0 /\ act'[p].type = "NONE" /\ ~act'[p].published
        /\ ~act'[p].start_done /\ act'[p].pulled = 0
    BY <1>2, <1>3 DEF Idle
  <1>9. PeerIsSound(p)'
    <2>1. ActiveIsLive(p)' /\ PulledIsThere(p)' /\ LateOnesAreGivenUp(p)'
      BY <1>5, <1>8 DEF ActiveIsLive, PulledIsThere, LateOnesAreGivenUp
    <2>2. Unused.kind = "NONE"
      BY DEF Unused
    <2>3. PeerIsSound(p)
      BY <1>1 DEF IInv
    <2>4. BuffersAreWhole(p)'
      BY <1>5, <2>2, <2>3 DEF PeerIsSound, BuffersAreWhole
    <2>5. SettersTakeTurns(p)'
      BY <1>5, <1>6 DEF SettersTakeTurns, InSet
    <2> QED BY <2>1, <2>4, <2>5 DEF PeerIsSound
  <1>10. WireFits(p)' /\ WireFits(q)'
    BY <1>1, <1>3, <1>7, <1>8, WireKept DEF IInv
  <1> QED BY <1>1, <1>2, <1>3, <1>5, <1>6, <1>7, <1>9, <1>10, BothPeers DEF IInv, Types, NothingUnlinked

-----------------------------------------------------------------------------
LEMMA InitIsSound == Init => IInv
  <1> SUFFICES ASSUME Init PROVE IInv
    OBVIOUS
  <1>1. /\ Idle \in Activity /\ Idle.thread = 0 /\ Idle.type = "NONE" /\ ~Idle.published
        /\ ~Idle.start_done /\ Idle.pulled = 0
    BY DEF Idle, Activity, ThreadIds, Kinds
  <1>2. Unused.pc = "free" /\ Unused.kind = "NONE"
    BY DEF Unused
  <1>3. Types
    BY <1>1, UnusedThread, ClipboardAssumption DEF Init, Types, ThreadIds
  <1>4. ASSUME NEW p \in Peers PROVE PeerIsSound(p) /\ WireFits(p)
    <2>1. /\ act[p] = Idle /\ act[Other(p)] = Idle /\ wire[p] = <<>> /\ queued[p] = 0
          /\ \A t \in Threads : thr[p][t] = Unused
      BY OtherPeer DEF Init
    <2>2. PeerIsSound(p)
      BY <1>1, <1>2, <2>1 DEF PeerIsSound, ActiveIsLive, PulledIsThere, LateOnesAreGivenUp,
                              BuffersAreWhole, SettersTakeTurns, InSet
    <2>3. Len(wire[p]) = 0
      BY <2>1
    <2>4. InSequence(wire[p])
      BY <2>3 DEF InSequence
    <2> QED BY <1>1, <2>1, <2>2, <2>3, <2>4 DEF WireFits
  <1>5. NothingUnlinked
    BY DEF Init, NothingUnlinked
  <1> QED BY <1>3, <1>4, <1>5 DEF IInv

LEMMA StepsPreserve == IInv /\ [Next]_vars => IInv'
  <1> SUFFICES ASSUME IInv, [Next]_vars PROVE IInv'
    OBVIOUS
  <1>1. ASSUME NEW p \in Peers, TcpLoop(p) PROVE IInv'
    BY <1>1, ReceivePreserves, PullPreserves DEF TcpLoop
  <1>2. ASSUME NEW p \in Peers, NEW t \in Threads, ThreadSteps(p, t) PROVE IInv'
    BY <1>2, GetBeginsPreserves, GetEndsPreserves, PublishPreserves, PullThreadEndsPreserves,
       TakesTurnPreserves, QuitsPreserves, SetOsPreserves, SetEndsPreserves DEF ThreadSteps
  <1>3. ASSUME NEW p \in Peers, NEW c \in 0 .. MaxCopies, UserCopies(p, c) PROVE IInv'
    BY <1>3, UserCopiesPreserves
  <1>4. CASE Disconnect
    BY <1>4, DisconnectPreserves
  <1>5. CASE Reconnect
    BY <1>5, ReconnectPreserves
  <1>6. CASE UNCHANGED vars
    BY <1>6, NothingChanges DEF vars, IInv, Types
  <1> QED BY <1>1, <1>2, <1>3, <1>4, <1>5, <1>6 DEF Next

LEMMA AlwaysSound == Spec => []IInv
  <1> QED BY InitIsSound, StepsPreserve, PTL DEF Spec

-----------------------------------------------------------------------------
\* The pointers of current_clipboard_activity lead to the stack of a thread that has neither
\* ended nor been told to, also when a thread that was given up comes late
\* (clipboard_synchronizer.c:231-317, 452-502).
THEOREM PointersAreAlwaysLive == Spec => []PointersAreLive
  <1>1. IInv => PointersAreLive
    BY DEF IInv, PeerIsSound, ActiveIsLive, PointersAreLive, Given
  <1> QED BY <1>1, AlwaysSound, PTL

\* Pieces 1, 2, ... of one copy up to the last are the data of that copy.
LEMMA WholeIsContent ==
    ASSUME NEW b \in Seq(Pieces), IsWhole(b)
    PROVE  b \in Contents
  <1>1. Len(b) \in Nat
    OBVIOUS
  <1>2. CASE Len(b) = 0
    <2>1. \A i \in 1 .. Len(b) : b[i] = Data(0)[i]
      BY <1>2
    <2>2. Data(0) = [i \in 1 .. 0 |-> <<0, i>>]
      BY DEF Data
    <2>3. Data(0) = <<>> /\ b = <<>>
      BY <1>2, <2>2
    <2>4. 0 \in 0 .. MaxCopies
      BY ClipboardAssumption
    <2> QED BY <2>3, <2>4 DEF Contents
  <1>3. CASE Len(b) # 0
    <2> DEFINE c == b[1][1]
               d == [i \in 1 .. Chunks |-> <<c, i>>]
    <2>1. Len(b) = Chunks /\ \A i \in 1 .. Len(b) : b[i] = <<c, i>>
      BY <1>3 DEF IsWhole, IsHead
    <2>2. c \in 1 .. MaxCopies
      <3>1. b[1] \in Pieces
        BY <1>1, <1>3
      <3> QED BY <3>1 DEF Pieces
    <2> HIDE DEF c
    <2>3. \A i \in 1 .. Chunks : <<c, i>> \in Pieces
      BY <2>2 DEF Pieces
    <2>4. d \in Seq(Pieces) /\ Len(d) = Chunks
      BY <2>3, ClipboardAssumption
    <2>5. b = d
      BY <2>1, <2>4, SeqEqual
    <2>6. d = Data(c)
      BY <2>2 DEF Data
    <2>7. c \in 0 .. MaxCopies
      BY <2>2, ClipboardAssumption
    <2> QED BY <2>5, <2>6, <2>7 DEF Contents
  <1> QED BY <1>2, <1>3

\* What is to be put on a clipboard is the whole of one copy, and the threads that put it there
\* wait for their turn, one of them at a time (clipboard_synchronizer.c:319-380, 452-502).
THEOREM SettersAreAlwaysSafe == Spec => []SettersAreSafe
  <1>1. IInv => SettersAreSafe
    <2> SUFFICES ASSUME IInv PROVE SettersAreSafe
      OBVIOUS
    <2>1. ASSUME NEW p \in Peers, NEW t \in Threads, thr[p][t].kind = "PUSH", thr[p][t].complete
          PROVE  thr[p][t].buffer \in Contents
      <3>1. IsWhole(thr[p][t].buffer)
        BY <2>1 DEF IInv, PeerIsSound, BuffersAreWhole
      <3>2. thr[p][t].buffer \in Seq(Pieces)
        BY DEF IInv, Types, Thread
      <3> QED BY <3>1, <3>2, WholeIsContent
    <2>2. QueuedSetterWaits
      BY DEF IInv, PeerIsSound, SettersTakeTurns, InSet, QueuedSetterWaits
    <2> QED BY <2>1, <2>2 DEF SettersAreSafe, WholeCopiesAreSet
  <1> QED BY <1>1, AlwaysSound, PTL

-----------------------------------------------------------------------------
\* No step but TakesTurn lets a thread begin to write.
LEMMA BeginsToWrite ==
    ASSUME IInv, [Next]_vars, NEW p \in Peers, NEW t \in Threads,
           thr[p][t].pc # "set", thr'[p][t].pc = "set"
    PROVE  TakesTurn(p, t)
  <1> USE DEF Types
  <1>1. Types
    BY DEF IInv
  <1>2. thr'[p] # thr[p]
    OBVIOUS
  <1>3. ASSUME NEW r \in Peers, NEW complete \in BOOLEAN, NEW F, r = p,
               F = FinishActive(r, complete)
        PROVE  F \in [Threads -> Thread] /\ F[t].pc # "set"
    <2>1. IsFinished(r, complete, F)
      BY <1>1, <1>3, Finished
    <2> QED BY <1>3, <2>1 DEF IsFinished, Unused
  <1>4. ASSUME NEW r \in Peers, NEW type, NEW data, Start(r, type, data)
        PROVE  FALSE
    <2> DEFINE F == FinishActive(r, FALSE)
    <2>1. PICK u \in Threads :
              thr' = [thr EXCEPT ![r] = [F EXCEPT ![u] = [NewThread(type) EXCEPT !.buffer = data]]]
      BY <1>4 DEF Start
    <2>2. r = p /\ thr'[p] = [F EXCEPT ![u] = [NewThread(type) EXCEPT !.buffer = data]]
      BY <1>1, <1>2, <2>1
    <2>3. [NewThread(type) EXCEPT !.buffer = data].pc # "set"
      BY DEF NewThread, Unused
    <2>4. F \in [Threads -> Thread] /\ F[t].pc # "set"
      BY <1>3, <2>2
    <2> HIDE DEF F
    <2> QED BY <2>2, <2>3, <2>4
  <1>5. ASSUME NEW r \in Peers, NEW complete \in BOOLEAN,
               thr' = [thr EXCEPT ![r] = FinishActive(r, complete)]
        PROVE  FALSE
    <2>1. r = p /\ thr'[p] = FinishActive(r, complete)
      BY <1>1, <1>2, <1>5
    <2> QED BY <1>3, <2>1
  <1>6. ASSUME NEW r \in Peers, Receive(r) PROVE FALSE
    <2>1. ASSUME NEW m, PushMiddle(r, m) PROVE FALSE
      <3> DEFINE a == act[r].thread
                 N == [thr[r][a] EXCEPT !.buffer = @ \o m.data]
      <3>1. thr' = [thr EXCEPT ![r] = [thr[r] EXCEPT ![a] = N]]
        BY <1>2, <2>1 DEF PushMiddle, Appended
      <3>2. r = p /\ thr'[p] = [thr[p] EXCEPT ![a] = N] /\ thr[p] \in [Threads -> Thread]
        BY <1>1, <1>2, <3>1
      <3>3. thr[p][t] \in Thread
        BY <3>2
      <3>4. a = t => N.pc = thr[p][t].pc
        BY <3>2, <3>3 DEF Thread
      <3> HIDE DEF N
      <3>5. thr'[p][t] = IF a = t THEN N ELSE thr[p][t]
        BY <3>2
      <3> QED BY <3>4, <3>5
    <2>2. ASSUME NEW m, PushStart(r, m) PROVE FALSE
      BY <2>2, <1>4 DEF PushStart
    <2>3. ASSUME NEW m, PushFinal(r, m) PROVE FALSE
      BY <2>3, <1>2, <1>5 DEF PushFinal
    <2> QED BY <1>6, <2>1, <2>2, <2>3 DEF Receive, PushChunk
  <1>7. ASSUME NEW r \in Peers, Pull(r) PROVE FALSE
    <2>1. CASE PullStart(r)
      BY <2>1, <1>4 DEF PullStart
    <2>2. CASE PullChunk(r)
      BY <2>2, <1>2, <1>5 DEF PullChunk
    <2>3. CASE PullNothing(r)
      BY <2>3, <1>2 DEF PullNothing
    <2> QED BY <1>7, <2>1, <2>2, <2>3 DEF Pull
  <1>8. ASSUME NEW r \in Peers, NEW u \in Threads, ThreadSteps(r, u)
        PROVE  TakesTurn(p, t)
    <2>1. thr[r][u] \in Thread /\ thr \in [Peers -> [Threads -> Thread]]
      BY <1>1
    <2>2. CASE GetBegins(r, u)
      BY <1>2, <2>1, <2>2 DEF GetBegins, Thread
    <2>3. CASE GetEnds(r, u)
      BY <1>2, <2>1, <2>3 DEF GetEnds, Thread
    <2>4. CASE Publish(r, u)
      BY <1>2, <2>1, <2>4 DEF Publish, Thread
    <2>5. CASE PullThreadEnds(r, u)
      BY <1>2, <2>1, <2>5 DEF PullThreadEnds, Thread
    <2>6. CASE TakesTurn(r, u)
      <3>1. r = p /\ u = t
        BY <1>2, <2>1, <2>6 DEF TakesTurn, Thread
      <3> QED BY <2>6, <3>1
    <2>7. CASE Quits(r, u)
      BY <1>2, <2>1, <2>7 DEF Quits, Thread
    <2>8. CASE SetOs(r, u)
      BY <1>2, <2>1, <2>8 DEF SetOs, Thread
    <2>9. CASE SetEnds(r, u)
      BY <1>2, <2>1, <2>9 DEF SetEnds, Thread
    <2> QED BY <1>8, <2>2, <2>3, <2>4, <2>5, <2>6, <2>7, <2>8, <2>9 DEF ThreadSteps
  <1>9. CASE Reconnect
    <2>1. thr' = [thr EXCEPT !["client"] = Joined(@)]
      BY <1>9 DEF Reconnect
    <2>2. p = "client" /\ thr'[p] = Joined(thr[p])
      BY <1>1, <1>2, <2>1
    <2>3. Joined(thr[p])[t] = IF thr[p][t].pc = "done" THEN Unused ELSE thr[p][t]
      BY DEF Joined
    <2> QED BY <2>2, <2>3 DEF Unused
  <1>10. CASE Disconnect
    BY <1>5, <1>10 DEF Disconnect, Peers
  <1>11. ASSUME NEW r \in Peers, NEW c, UserCopies(r, c) PROVE FALSE
    BY <1>2, <1>11 DEF UserCopies
  <1>12. CASE UNCHANGED vars
    BY <1>2, <1>12 DEF vars
  <1> QED BY <1>6, <1>7, <1>8, <1>9, <1>10, <1>11, <1>12 DEF Next, TcpLoop

\* A thread that begins to write the clipboard is that of the latest push that was complete, so
\* copies are written in the order in which they came (clipboard_synchronizer.c:319-380).
THEOREM CopiesAreSetInOrder == Spec => NewestPushSets
  <1>1. IInv /\ [Next]_vars =>
            [\A p \in Peers, t \in Threads :
                thr[p][t].pc # "set" /\ thr'[p][t].pc = "set" => newest[p] = t]_vars
    <2> SUFFICES ASSUME IInv, [Next]_vars, NEW p \in Peers, NEW t \in Threads,
                        thr[p][t].pc # "set", thr'[p][t].pc = "set"
                 PROVE  newest[p] = t
      OBVIOUS
    <2>1. TakesTurn(p, t)
      BY BeginsToWrite
    <2>2. queued[p] = t /\ t # 0
      BY <2>1, ClipboardAssumption DEF TakesTurn, MaySet
    <2> QED BY <2>2 DEF IInv, PeerIsSound, SettersTakeTurns
  <1> QED BY <1>1, AlwaysSound, PTL DEF Spec, NewestPushSets
=============================================================================
