------------------------- MODULE TCPConnectionProofs -------------------------
(***************************************************************************)
(* The ring of whist/utils/queue.c is a sequence: enqueueing appends,      *)
(* dequeueing takes the head, for queues of every size and items of every  *)
(* kind.  With queues of every size at its ends, and sockets that take any *)
(* number of packets, the TCP connection strands no packet and is a        *)
(* channel.                                                                *)
(***************************************************************************)
EXTENDS TCPConnection, SequenceTheorems, FiniteSetTheorems, TLAPS

\* Place, of a queue with max items that begins at read.
At(read, i, max) == IF read + i - 1 < max THEN read + i - 1 ELSE read + i - 1 - max

\* What increment_idx makes of an index.
After(idx, max) == IF idx + 1 = max THEN 0 ELSE idx + 1

LEMMA NextPlace ==
    ASSUME NEW max \in Nat \ {0}, NEW read \in 0 .. max - 1, NEW n \in 0 .. max - 1
    PROVE  At(read, n + 2, max) = After(At(read, n + 1, max), max)
  BY DEF At, After

LEMMA ShiftedPlace ==
    ASSUME NEW max \in Nat \ {0}, NEW read \in 0 .. max - 1, NEW i \in 1 .. max
    PROVE  At(After(read, max), i, max) = At(read, i + 1, max)
  BY DEF At, After

LEMMA QueueFields ==
    ASSUME NEW S, NEW q, IsQueue(q, S)
    PROVE  /\ q.max_items \in Nat \ {0}
           /\ q.num_items \in 0 .. q.max_items
           /\ q.read_idx \in 0 .. q.max_items - 1
           /\ q.write_idx = Place(q, q.num_items + 1)
           /\ q.data \in [0 .. q.max_items - 1 -> S]
  BY DEF IsQueue

\* Every item of the queue has a place in the array.
LEMMA PlaceIsInArray ==
    ASSUME NEW S, NEW q, IsQueue(q, S), NEW i \in 1 .. q.max_items
    PROVE  Place(q, i) \in 0 .. q.max_items - 1
  BY QueueFields DEF Place

\* Two items have two places.
LEMMA PlacesDiffer ==
    ASSUME NEW S, NEW q, IsQueue(q, S),
           NEW i \in 1 .. q.max_items, NEW j \in 1 .. q.max_items, i # j
    PROVE  Place(q, i) # Place(q, j)
  BY QueueFields DEF Place

LEMMA ItemsAreSequence ==
    ASSUME NEW S, NEW q, IsQueue(q, S)
    PROVE  /\ Items(q) \in Seq(S)
           /\ Len(Items(q)) = q.num_items
           /\ \A i \in 1 .. q.num_items : Items(q)[i] = q.data[Place(q, i)]
<1>1. q.num_items \in Nat /\ q.num_items <= q.max_items /\ q.max_items \in Nat
  BY QueueFields
<1>2. \A i \in 1 .. q.num_items : q.data[Place(q, i)] \in S
  <2>1. SUFFICES ASSUME NEW i \in 1 .. q.num_items PROVE q.data[Place(q, i)] \in S
    OBVIOUS
  <2>2. Place(q, i) \in 0 .. q.max_items - 1
    BY <1>1, PlaceIsInArray
  <2>3. QED
    BY <2>2, QueueFields
<1>3. QED
  BY <1>1, <1>2 DEF Items

\* A created queue is one without items.
THEOREM CreatedIsEmpty ==
    ASSUME NEW S, NEW nothing \in S, NEW n \in Nat \ {0}
    PROVE  IsQueue(Create(n, nothing), S) /\ Items(Create(n, nothing)) = <<>> /\ IsEmpty(Create(n, nothing))
  BY DEF IsQueue, Create, Items, Place, IsEmpty

\* enqueue_item, which is called when there is room, appends the item, wherever
\* in the array the queue lies.
THEOREM EnqueueAppends ==
    ASSUME NEW S, NEW q, IsQueue(q, S), ~IsFull(q), NEW item \in S
    PROVE  /\ IsQueue(EnqueueItem(q, item), S)
           /\ Items(EnqueueItem(q, item)) = Append(Items(q), item)
<1> DEFINE r == EnqueueItem(q, item)
<1>1. /\ q.max_items \in Nat \ {0} /\ q.num_items \in 0 .. q.max_items - 1
      /\ q.read_idx \in 0 .. q.max_items - 1 /\ q.data \in [0 .. q.max_items - 1 -> S]
      /\ q.write_idx = Place(q, q.num_items + 1)
      /\ q.write_idx \in 0 .. q.max_items - 1
  BY QueueFields, PlaceIsInArray DEF IsFull
<1>2. /\ r.read_idx = q.read_idx /\ r.max_items = q.max_items /\ r.num_items = q.num_items + 1
      /\ r.data = [q.data EXCEPT ![q.write_idx] = item]
      /\ r.write_idx = After(q.write_idx, q.max_items)
  BY DEF EnqueueItem, IsQueue, IncrementIdx, After
<1>3. r.write_idx = Place(r, r.num_items + 1)
  <2>1. q.num_items + 1 + 1 = q.num_items + 2
    BY <1>1
  <2>2. Place(r, r.num_items + 1) = At(q.read_idx, q.num_items + 2, q.max_items)
    BY <1>2, <2>1 DEF Place, At
  <2>3. q.write_idx = At(q.read_idx, q.num_items + 1, q.max_items)
    BY <1>1 DEF Place, At
  <2>4. QED
    BY <1>1, <1>2, <2>2, <2>3, NextPlace
<1>4. r \in [read_idx : Nat, write_idx : Nat, num_items : Nat, max_items : Nat \ {0},
              data : [0 .. q.max_items - 1 -> S]]
  <2>1. PICK Data : Data = [0 .. q.max_items - 1 -> S]
    OBVIOUS
  <2>2. q \in [read_idx : Nat, write_idx : Nat, num_items : Nat, max_items : Nat \ {0}, data : Data]
    BY <2>1 DEF IsQueue
  <2>3. /\ q.num_items + 1 \in Nat /\ IncrementIdx(q, q.write_idx) \in Nat
        /\ [q.data EXCEPT ![q.write_idx] = item] \in Data
    BY <1>1, <2>1 DEF IncrementIdx
  <2>4. r \in [read_idx : Nat, write_idx : Nat, num_items : Nat, max_items : Nat \ {0}, data : Data]
    BY <2>2, <2>3 DEF EnqueueItem
  <2>5. QED
    BY <2>1, <2>4
<1>5. IsQueue(r, S)
  BY <1>1, <1>2, <1>3, <1>4 DEF IsQueue
<1>6. \A i \in 1 .. q.num_items + 1 : Place(r, i) = Place(q, i)
  BY <1>2 DEF Place
<1>7. \A i \in 1 .. q.num_items : r.data[Place(r, i)] = q.data[Place(q, i)]
  <2>1. SUFFICES ASSUME NEW i \in 1 .. q.num_items PROVE r.data[Place(r, i)] = q.data[Place(q, i)]
    OBVIOUS
  <2>2. i \in 1 .. q.max_items /\ q.num_items + 1 \in 1 .. q.max_items /\ i # q.num_items + 1
    BY <1>1
  <2>3. Place(q, i) \in 0 .. q.max_items - 1 /\ Place(q, i) # q.write_idx
    BY <1>1, <2>2, PlaceIsInArray, PlacesDiffer
  <2>4. QED
    BY <1>1, <1>2, <1>6, <2>3
<1>8. r.data[Place(r, q.num_items + 1)] = item
  BY <1>1, <1>2, <1>6
<1>9. Items(r) = Append(Items(q), item)
  <2>1. Items(r) \in Seq(S) /\ Len(Items(r)) = q.num_items + 1
        /\ \A i \in 1 .. q.num_items + 1 : Items(r)[i] = r.data[Place(r, i)]
    BY <1>2, <1>5, ItemsAreSequence, ZenonT(30)
  <2>2. Items(q) \in Seq(S) /\ Len(Items(q)) = q.num_items
        /\ \A i \in 1 .. q.num_items : Items(q)[i] = q.data[Place(q, i)]
    BY ItemsAreSequence
  <2>3. /\ Append(Items(q), item) \in Seq(S)
        /\ Len(Append(Items(q), item)) = q.num_items + 1
        /\ \A i \in 1 .. q.num_items : Append(Items(q), item)[i] = Items(q)[i]
        /\ Append(Items(q), item)[q.num_items + 1] = item
    BY <2>2, AppendProperties
  <2>4. \A i \in 1 .. q.num_items + 1 : i = q.num_items + 1 \/ i \in 1 .. q.num_items
    BY <1>1
  <2>5. \A i \in 1 .. q.num_items + 1 : Items(r)[i] = Append(Items(q), item)[i]
    BY <1>7, <1>8, <2>1, <2>2, <2>3, <2>4
  <2>6. QED
    BY <2>1, <2>3, <2>5, SeqEqual
<1>10. QED
  BY <1>5, <1>9

\* dequeue_item, which is called when there is an item, takes the first one and
\* leaves the others in their order.
THEOREM DequeueTakesFirst ==
    ASSUME NEW S, NEW q, IsQueue(q, S), ~IsEmpty(q)
    PROVE  /\ IsQueue(DequeueItem(q), S)
           /\ NextItem(q) = Head(Items(q))
           /\ Items(DequeueItem(q)) = Tail(Items(q))
<1> DEFINE r == DequeueItem(q)
<1>1. /\ q.max_items \in Nat \ {0} /\ q.num_items \in 1 .. q.max_items
      /\ q.read_idx \in 0 .. q.max_items - 1 /\ q.data \in [0 .. q.max_items - 1 -> S]
      /\ q.write_idx = Place(q, q.num_items + 1)
  BY QueueFields DEF IsEmpty
<1>2. /\ r.write_idx = q.write_idx /\ r.max_items = q.max_items /\ r.num_items = q.num_items - 1
      /\ r.data = q.data
      /\ r.read_idx = After(q.read_idx, q.max_items)
  BY DEF DequeueItem, IsQueue, IncrementIdx, After
<1>3. r.read_idx \in 0 .. q.max_items - 1
  BY <1>1, <1>2 DEF After
<1>4. r \in [read_idx : Nat, write_idx : Nat, num_items : Nat, max_items : Nat \ {0},
              data : [0 .. q.max_items - 1 -> S]]
  <2>1. PICK Data : Data = [0 .. q.max_items - 1 -> S]
    OBVIOUS
  <2>2. q \in [read_idx : Nat, write_idx : Nat, num_items : Nat, max_items : Nat \ {0}, data : Data]
    BY <2>1 DEF IsQueue
  <2>3. q.num_items - 1 \in Nat /\ IncrementIdx(q, q.read_idx) \in Nat
    BY <1>1 DEF IncrementIdx
  <2>4. r \in [read_idx : Nat, write_idx : Nat, num_items : Nat, max_items : Nat \ {0}, data : Data]
    BY <2>2, <2>3 DEF DequeueItem
  <2>5. QED
    BY <2>1, <2>4
<1>5. \A i \in 1 .. q.num_items : Place(r, i) = Place(q, i + 1)
  <2>1. SUFFICES ASSUME NEW i \in 1 .. q.num_items PROVE Place(r, i) = Place(q, i + 1)
    OBVIOUS
  <2>2. i \in 1 .. q.max_items
    BY <1>1
  <2>3. Place(r, i) = At(After(q.read_idx, q.max_items), i, q.max_items)
    BY <1>2 DEF Place, At
  <2>4. Place(q, i + 1) = At(q.read_idx, i + 1, q.max_items)
    BY DEF Place, At
  <2>5. QED
    BY <1>1, <2>2, <2>3, <2>4, ShiftedPlace
<1>6. r.write_idx = Place(r, r.num_items + 1)
  BY <1>1, <1>2, <1>5
<1>7. IsQueue(r, S)
  BY <1>1, <1>2, <1>6, <1>3, <1>4 DEF IsQueue
<1>8. Items(q) \in Seq(S) /\ Len(Items(q)) = q.num_items
      /\ \A i \in 1 .. q.num_items : Items(q)[i] = q.data[Place(q, i)]
  BY ItemsAreSequence
<1>9. NextItem(q) = Head(Items(q))
  <2>1. Place(q, 1) = q.read_idx
    BY <1>1 DEF Place
  <2>2. QED
    BY <1>1, <1>8, <2>1 DEF NextItem
<1>10. Items(r) \in Seq(S) /\ Len(Items(r)) = q.num_items - 1
      /\ \A i \in 1 .. q.num_items - 1 : Items(r)[i] = r.data[Place(r, i)]
  BY <1>2, <1>7, ItemsAreSequence
<1>11. Items(r) = Tail(Items(q))
  <2>1. SUFFICES ASSUME NEW i \in 1 .. q.num_items - 1
                 PROVE  Items(r)[i] = Tail(Items(q))[i]
    <3>1. Tail(Items(q)) \in Seq(S) /\ Len(Tail(Items(q))) = q.num_items - 1
      BY <1>1, <1>8
    <3>2. QED
      BY <1>10, <3>1, SeqEqual
  <2>2. i \in 1 .. q.num_items /\ i + 1 \in 1 .. q.num_items
    BY <1>1
  <2>3. Items(r)[i] = Items(q)[i + 1]
    BY <1>2, <1>5, <1>8, <1>10, <2>2
  <2>4. Tail(Items(q))[i] = Items(q)[i + 1]
    BY <1>1, <1>8, <2>2
  <2>5. QED
    BY <2>3, <2>4
<1>12. QED
  BY <1>7, <1>9, <1>11

LEMMA QueueSizes ==
    ASSUME NEW S, NEW q, IsQueue(q, S), NEW item
    PROVE  /\ EnqueueItem(q, item).max_items = q.max_items
           /\ EnqueueItem(q, item).num_items = q.num_items + 1
           /\ DequeueItem(q).max_items = q.max_items
           /\ DequeueItem(q).num_items = q.num_items - 1
           /\ q.num_items \in Nat
  BY DEF IsQueue, EnqueueItem, DequeueItem
-----------------------------------------------------------------------------
\* Nothing but packets is queued, held or given to the send thread.
PacketsAreReal == \A e \in Ends :
    /\ Items(queue[e]) \in Seq(Packets)
    /\ hand[e] \in Packets <=> sender[e] = "send"
    /\ \A t \in Senders : out[e][t].at = "enqueue" => out[e][t].packet \in Packets

\* An end closes once its threads have stopped sending.
ClosesInOrder == \A e \in Ends :
    /\ ~open[e] => ~run[e]
    /\ ~run[e] => at[e] = "parked"
    /\ at[e] = "parked" => stopping[e] /\ IsFree(e, "tcp")
    /\ stopping[e] => IsFree(e, "main")

IInv == TypeOK /\ PacketsAreReal /\ ClosesInOrder /\ NoPacketStranded

LEMMA PacketFacts ==
    /\ NoPacket \notin Packets
    /\ \A n \in 1 .. MaxPings : Ping(n) \in Packets /\ Pong(n) \in Packets
    /\ \A e \in Ends : \A n \in 1 .. Most(e) : Payload(n) \in Packets
    /\ \A p \in Packets : p.type \in {"ping", "pong"} => p.id \in 1 .. MaxPings
  <1>1. NoPacket \notin Packets
    BY DEF NoPacket, Packets, Payloads, Ping, Pong, Payload
  <1>2. \A n \in 1 .. MaxPings : Ping(n) \in Packets /\ Pong(n) \in Packets
    BY DEF Packets
  <1>3. \A e \in Ends : \A n \in 1 .. Most(e) : Payload(n) \in Packets
    BY DEF Packets, Payloads, Most
  <1>4. \A p \in Packets : p.type \in {"ping", "pong"} => p.id \in 1 .. MaxPings
    BY DEF Packets, Payloads, Ping, Pong, Payload
  <1> QED BY <1>1, <1>2, <1>3, <1>4

\* Whether a thread still has to post
Posting(thread) == IF thread.at = "post" THEN 1 ELSE 0

\* Unposted, without Cardinality
LEMMA UnpostedSum ==
    ASSUME NEW f
    PROVE  Cardinality({t \in Senders : f[t].at = "post"}) = Posting(f["tcp"]) + Posting(f["main"])
  <1> DEFINE T == {t \in Senders : f[t].at = "post"}
  <1>1. CASE f["tcp"].at = "post" /\ f["main"].at = "post"
    <2>1. T = {"tcp"} \cup {"main"} /\ "main" \notin {"tcp"}
      BY <1>1 DEF Senders
    <2>2. IsFiniteSet({"tcp"}) /\ Cardinality({"tcp"}) = 1
      BY FS_Singleton
    <2>3. Cardinality({"tcp"} \cup {"main"}) = 1 + 1
      BY <2>1, <2>2, FS_AddElement
    <2> QED BY <1>1, <2>1, <2>3 DEF Posting
  <1>2. CASE f["tcp"].at = "post" /\ f["main"].at # "post"
    <2>1. T = {"tcp"}
      BY <1>2 DEF Senders
    <2>2. Cardinality(T) = 1
      BY <2>1, FS_Singleton
    <2> QED BY <1>2, <2>2 DEF Posting
  <1>3. CASE f["tcp"].at # "post" /\ f["main"].at = "post"
    <2>1. T = {"main"}
      BY <1>3 DEF Senders
    <2>2. Cardinality(T) = 1
      BY <2>1, FS_Singleton
    <2> QED BY <1>3, <2>2 DEF Posting
  <1>4. CASE f["tcp"].at # "post" /\ f["main"].at # "post"
    <2>1. T = {}
      BY <1>4 DEF Senders
    <2>2. Cardinality(T) = 0
      BY <2>1, FS_EmptySet
    <2> QED BY <1>4, <2>2 DEF Posting
  <1> QED BY <1>1, <1>2, <1>3, <1>4

LEMMA InitIsGood == Init => IInv
  <1> SUFFICES ASSUME Init PROVE IInv
    OBVIOUS
  <1>1. \A e \in Ends : /\ IsQueue(queue[e], Packets \cup {NoPacket})
                        /\ queue[e].max_items = QueueSize /\ queue[e].num_items = 0
                        /\ Items(queue[e]) = <<>>
    BY CreatedIsEmpty, TcpAssumption DEF Init, Create
  <1>2. out = [e \in Ends |-> [t \in Senders |-> Idle]] /\ hand = [e \in Ends |-> NoPacket]
    BY DEF Init
  <1>3. \A e \in Ends : \A t \in Senders : out[e][t].at = "idle" /\ out[e][t].packet = NoPacket
    BY <1>2 DEF Idle
  <1>4. TypeOK
    <2>1. Idle \in [packet : Packets \cup {NoPacket}, at : {"idle", "enqueue", "post"}]
      BY DEF Idle
    <2>2. out \in [Ends -> [Senders -> [packet : Packets \cup {NoPacket}, at : {"idle", "enqueue", "post"}]]]
      BY <1>2, <2>1
    <2>3. at \in [Ends -> {"update", "recv", "parked"}] /\ net \in [Ends -> Seq(Packets)]
      BY DEF Init, LoopTop
    <2>4. DOMAIN queue = Ends /\ ping \in 0 .. MaxPings /\ pong \in 0 .. MaxPings
      BY TcpAssumption DEF Init
    <2> QED BY <1>1, <1>2, <2>2, <2>3, <2>4 DEF Init, TypeOK
  <1>5. PacketsAreReal
    <2>1. \A e \in Ends : hand[e] \notin Packets /\ sender[e] = "wait"
      BY <1>2, PacketFacts DEF Init
    <2>2. <<>> \in Seq(Packets)
      BY EmptySeq
    <2> QED BY <1>1, <1>3, <2>1, <2>2 DEF PacketsAreReal
  <1>6. ClosesInOrder
    BY DEF Init, ClosesInOrder, LoopTop
  <1>7. NoPacketStranded
    <2>1. \A e \in Ends : Unposted(e) = Posting(out[e]["tcp"]) + Posting(out[e]["main"])
      BY UnpostedSum DEF Unposted
    <2>2. \A e \in Ends : Unposted(e) = 0
      BY <1>3, <2>1 DEF Posting, Senders
    <2> QED BY <1>1, <2>2 DEF Init, NoPacketStranded
  <1> QED BY <1>4, <1>5, <1>6, <1>7 DEF IInv

-----------------------------------------------------------------------------
OutRecord == [packet : Packets \cup {NoPacket}, at : {"idle", "enqueue", "post"}]

\* Where the threads are after one of them got on.
LEMMA OutStep ==
    ASSUME TypeOK, NEW e \in Ends, NEW t \in Senders, NEW r \in OutRecord, out' = [out EXCEPT ![e][t] = r]
    PROVE  /\ out' \in [Ends -> [Senders -> OutRecord]]
           /\ out'[e][t] = r
           /\ \A u \in Senders \ {t} : out'[e][u] = out[e][u]
           /\ \A d \in Ends \ {e} : out'[d] = out[d]
  <1>1. out \in [Ends -> [Senders -> OutRecord]]
    BY DEF TypeOK, OutRecord
  <1> QED BY <1>1

\* Neither a packet nor a post moves.
LEMMA NothingMoves ==
    ASSUME IInv, UNCHANGED <<queue, sem, sender, hand, run, out>>
    PROVE  PacketsAreReal' /\ NoPacketStranded'
  BY DEF IInv, PacketsAreReal, NoPacketStranded, Unposted

\* No end comes nearer to being closed.
LEMMA NobodyCloses ==
    ASSUME IInv, UNCHANGED <<open, run, at, stopping, out>>
    PROVE  ClosesInOrder'
  BY DEF IInv, ClosesInOrder, IsFree

\* The TCP thread goes on to another place in its loop.
LEMMA NobodyParks ==
    ASSUME IInv, NEW e \in Ends, NEW place \in {"update", "recv"}, at[e] # "parked",
           at' = [at EXCEPT ![e] = place], UNCHANGED <<open, run, stopping, out>>
    PROVE  ClosesInOrder'
  BY DEF IInv, ClosesInOrder, IsFree, TypeOK

LEMMA SenderSleeps ==
    ASSUME IInv, NEW e \in Ends, PingTimesOut \/ NoPing \/ GetPong(e) \/ GetPayload(e)
                                  \/ GetEndOfFile(e) \/ GetNothing(e)
    PROVE  IInv'
  <1>1. UNCHANGED <<queue, sem, sender, hand, run, out>>
    BY DEF PingTimesOut, NoPing, GetPong, GetPayload, GetEndOfFile, GetNothing
  <1>2. PacketsAreReal' /\ NoPacketStranded'
    BY <1>1, NothingMoves
  <1>3. \A d \in Ends : LoopTop(d) \in {"update", "recv"}
    BY DEF LoopTop
  <1>4. CASE PingTimesOut
    <2>1. ClosesInOrder'
      BY <1>4, NobodyCloses DEF PingTimesOut
    <2>2. TypeOK'
      BY <1>4 DEF IInv, TypeOK, PingTimesOut
    <2> QED BY <1>2, <2>1, <2>2 DEF IInv
  <1>5. CASE NoPing
    <2>1. ClosesInOrder'
      BY <1>5, NobodyParks DEF NoPing, ThreadAt, Goes, Ends
    <2>2. TypeOK'
      BY <1>5 DEF IInv, TypeOK, NoPing, Goes
    <2> QED BY <1>2, <2>1, <2>2 DEF IInv
  <1>6. CASE GetPong(e) \/ GetPayload(e)
    <2>1. ClosesInOrder'
      BY <1>3, <1>6, NobodyParks DEF GetPong, GetPayload, Arrived, Receiving, ThreadAt, Goes
    <2>2. net[e] \in Seq(Packets) /\ net[e] # <<>> /\ net' = [net EXCEPT ![e] = Tail(net[e])]
      BY <1>6 DEF IInv, TypeOK, GetPong, GetPayload, Arrived, Taken
    <2>3. Head(net[e]) \in Packets /\ Tail(net[e]) \in Seq(Packets)
      BY <2>2, HeadTailProperties
    <2>4. net' \in [Ends -> Seq(Packets)]
      BY <2>2, <2>3 DEF IInv, TypeOK
    <2>5. pong' \in 0 .. MaxPings
      BY <1>6, <2>3, PacketFacts DEF IInv, TypeOK, GetPong, GetPayload, Arrived
    <2>6. at' \in [Ends -> {"update", "recv", "parked"}]
      BY <1>3, <1>6 DEF IInv, TypeOK, GetPong, GetPayload, Goes
    <2>7. TypeOK'
      BY <1>6, <2>4, <2>5, <2>6 DEF IInv, TypeOK, GetPong, GetPayload
    <2> QED BY <1>2, <2>1, <2>7 DEF IInv
  <1>7. CASE GetEndOfFile(e) \/ GetNothing(e)
    <2>1. ClosesInOrder'
      BY <1>3, <1>7, NobodyParks DEF GetEndOfFile, GetNothing, Receiving, ThreadAt, Goes
    <2>2. at' \in [Ends -> {"update", "recv", "parked"}]
      BY <1>3, <1>7 DEF IInv, TypeOK, GetEndOfFile, GetNothing, Goes
    <2>3. TypeOK'
      BY <1>7, <2>2 DEF IInv, TypeOK, GetEndOfFile, GetNothing
    <2> QED BY <1>2, <2>1, <2>3 DEF IInv
  <1> QED BY <1>4, <1>5, <1>6, <1>7

\* A thread calls tcp_send_constructed_packet: the main thread until it takes the connection
\* down, the TCP thread until it is parked.
LEMMA SendBegins ==
    ASSUME IInv, NEW e \in Ends, NEW t \in Senders, NEW packet \in Packets, IsFree(e, t),
           out' = Sending(e, t, packet),
           UNCHANGED <<queue, sem, sender, hand, run, open, stopping>>,
           t = "main" => ~stopping[e], t = "tcp" => at[e] # "parked",
           NEW place \in {"update", "recv", "parked"}, at' = [at EXCEPT ![e] = place],
           place = "parked" => at[e] = "parked"
    PROVE  /\ out' \in [Ends -> [Senders -> OutRecord]]
           /\ PacketsAreReal' /\ NoPacketStranded' /\ ClosesInOrder'
  <1> DEFINE r == [packet |-> packet, at |-> "enqueue"]
  <1>1. r \in OutRecord /\ out' = [out EXCEPT ![e][t] = r]
    BY DEF OutRecord, Sending
  <1>2. /\ out' \in [Ends -> [Senders -> OutRecord]]
        /\ out'[e][t] = r
        /\ \A u \in Senders \ {t} : out'[e][u] = out[e][u]
        /\ \A d \in Ends \ {e} : out'[d] = out[d]
    BY <1>1, OutStep DEF IInv
  <1>3. out'[e][t].at = "enqueue" /\ out'[e][t].packet = packet /\ out[e][t].at = "idle"
    BY <1>2 DEF IsFree
  <1>4. PacketsAreReal'
    <2>1. ASSUME NEW d \in Ends, NEW u \in Senders, out'[d][u].at = "enqueue"
          PROVE  out'[d][u].packet \in Packets
      <3>1. CASE d = e /\ u = t
        BY <1>3, <3>1
      <3>2. CASE ~(d = e /\ u = t)
        BY <1>2, <2>1, <3>2, SMTT(20) DEF IInv, PacketsAreReal
      <3> QED BY <3>1, <3>2
    <2> QED BY <2>1 DEF IInv, PacketsAreReal
  <1>5. \A d \in Ends : \A u \in Senders : Posting(out'[d][u]) = Posting(out[d][u])
    BY <1>2, <1>3 DEF Posting
  <1>6. \A d \in Ends : Unposted(d)' = Unposted(d)
    <2>1. \A d \in Ends : /\ Unposted(d) = Posting(out[d]["tcp"]) + Posting(out[d]["main"])
                          /\ Unposted(d)' = Posting(out'[d]["tcp"]) + Posting(out'[d]["main"])
      BY UnpostedSum DEF Unposted
    <2> QED BY <1>5, <2>1 DEF Senders
  <1>7. NoPacketStranded'
    BY <1>6 DEF IInv, NoPacketStranded
  <1>8. ClosesInOrder'
    BY <1>2, <1>3 DEF IInv, ClosesInOrder, IsFree, Senders, TypeOK
  <1> QED BY <1>2, <1>4, <1>7, <1>8

LEMMA BeginningIsGood ==
    ASSUME IInv, NEW e \in Ends, SendPing \/ GetPing(e) \/ MainSends(e) \/ Works(e)
    PROVE  IInv'
  <1>0. \A d \in Ends : LoopTop(d) \in {"update", "recv"}
    BY DEF LoopTop
  <1>1. CASE SendPing
    <2>1. ping + 1 \in 1 .. MaxPings
      BY <1>1, TcpAssumption DEF SendPing, IInv, TypeOK
    <2>2. PICK place \in {"update", "recv"} : at' = [at EXCEPT !["client"] = place]
      BY <1>1 DEF SendPing, Goes
    <2>3. /\ "client" \in Ends /\ "tcp" \in Senders /\ Ping(ping + 1) \in Packets
          /\ IsFree("client", "tcp") /\ at["client"] # "parked"
          /\ out' = Sending("client", "tcp", Ping(ping + 1))
          /\ UNCHANGED <<queue, sem, sender, hand, run, open, stopping>>
      BY <1>1, <2>1, PacketFacts DEF SendPing, ThreadAt, Ends, Senders
    <2>4. /\ out' \in [Ends -> [Senders -> OutRecord]]
          /\ PacketsAreReal' /\ NoPacketStranded' /\ ClosesInOrder'
      BY <2>2, <2>3, SendBegins
    <2>5. at' \in [Ends -> {"update", "recv", "parked"}]
      BY <2>2 DEF IInv, TypeOK
    <2>6. ping' \in 0 .. MaxPings
      BY <1>1, <2>1 DEF SendPing
    <2>7. TypeOK'
      BY <1>1, <2>4, <2>5, <2>6 DEF IInv, TypeOK, SendPing, OutRecord
    <2> QED BY <2>4, <2>7 DEF IInv
  <1>2. CASE GetPing(e)
    <2>1. net[e] \in Seq(Packets) /\ net[e] # <<>> /\ net' = [net EXCEPT ![e] = Tail(net[e])]
      BY <1>2 DEF IInv, TypeOK, GetPing, Arrived, Taken
    <2>2. Head(net[e]) \in Packets /\ Tail(net[e]) \in Seq(Packets)
      BY <2>1, HeadTailProperties
    <2>3. net' \in [Ends -> Seq(Packets)]
      BY <2>1, <2>2 DEF IInv, TypeOK
    <2>4. Pong(Head(net[e]).id) \in Packets
      BY <1>2, <2>2, PacketFacts DEF GetPing, Arrived
    <2>5. /\ "tcp" \in Senders /\ IsFree(e, "tcp") /\ at[e] # "parked"
          /\ out' = Sending(e, "tcp", Pong(Head(net[e]).id))
          /\ UNCHANGED <<queue, sem, sender, hand, run, open, stopping>>
          /\ at' = [at EXCEPT ![e] = LoopTop(e)]
      BY <1>2 DEF GetPing, Arrived, Receiving, ThreadAt, Goes, Senders
    <2>6. /\ out' \in [Ends -> [Senders -> OutRecord]]
          /\ PacketsAreReal' /\ NoPacketStranded' /\ ClosesInOrder'
      BY <1>0, <2>4, <2>5, SendBegins
    <2>7. at' \in [Ends -> {"update", "recv", "parked"}]
      BY <1>0, <2>5 DEF IInv, TypeOK
    <2>8. TypeOK'
      BY <1>2, <2>3, <2>6, <2>7 DEF IInv, TypeOK, GetPing, OutRecord
    <2> QED BY <2>6, <2>8 DEF IInv
  <1>3. ASSUME NEW t \in Senders, UserSends(e, t), UNCHANGED at,
               t = "main" => ~stopping[e], t = "tcp" => at[e] # "parked"
        PROVE  IInv'
    <2>0. UNCHANGED <<queue, sem, sender, hand, run, open, net, stopping, lost, ping, pong>>
      BY <1>3 DEF UserSends
    <2>1. given' \in [Ends -> Nat] /\ given[e] + 1 \in 1 .. Most(e)
      BY <1>3, TcpAssumption DEF UserSends, IInv, TypeOK, Most
    <2>2. CASE lost[e]
      <3>1. UNCHANGED out
        BY <1>3, <2>2 DEF UserSends
      <3>2. PacketsAreReal' /\ NoPacketStranded' /\ ClosesInOrder'
        BY <1>3, <2>0, <3>1, NothingMoves, NobodyCloses
      <3>3. TypeOK'
        BY <1>3, <2>0, <2>1, <3>1 DEF IInv, TypeOK
      <3> QED BY <3>2, <3>3 DEF IInv
    <2>3. CASE ~lost[e]
      <3>1. out' = Sending(e, t, Payload(given[e] + 1)) /\ IsFree(e, t)
        BY <1>3, <2>3 DEF UserSends
      <3>2. Payload(given[e] + 1) \in Packets
        BY <2>1, PacketFacts
      <3>3. at[e] \in {"update", "recv", "parked"} /\ at' = [at EXCEPT ![e] = at[e]]
        BY <1>3 DEF IInv, TypeOK
      <3>4. /\ out' \in [Ends -> [Senders -> OutRecord]]
            /\ PacketsAreReal' /\ NoPacketStranded' /\ ClosesInOrder'
        BY <1>3, <2>0, <3>1, <3>2, <3>3, SendBegins
      <3>5. TypeOK'
        BY <1>3, <2>0, <2>1, <3>4 DEF IInv, TypeOK, OutRecord
      <3> QED BY <3>4, <3>5 DEF IInv
    <2> QED BY <2>2, <2>3
  <1>4. CASE MainSends(e)
    BY <1>3, <1>4 DEF MainSends, Senders
  <1>5. CASE Works(e)
    BY <1>0, <1>3, <1>5 DEF Works, ThreadAt, Senders
  <1> QED BY <1>1, <1>2, <1>4, <1>5

\* enqueue_item, and then the post of the semaphore.
LEMMA ProducerIsGood ==
    ASSUME IInv, NEW e \in Ends, NEW t \in Senders, Enqueue(e, t) \/ Post(e, t)
    PROVE  IInv'
  <1>0. /\ \A d \in Ends : /\ IsQueue(queue[d], Packets \cup {NoPacket})
                          /\ Items(queue[d]) \in Seq(Packets)
                          /\ sem[d] \in Nat
        /\ out \in [Ends -> [Senders -> OutRecord]]
        /\ UNCHANGED <<sender, hand, run, lost, open, net, ping, pong, at, stopping, given>>
    BY DEF IInv, TypeOK, PacketsAreReal, OutRecord, Enqueue, Post
  <1>1. \A d \in Ends : /\ Unposted(d) = Posting(out[d]["tcp"]) + Posting(out[d]["main"])
                        /\ Unposted(d)' = Posting(out'[d]["tcp"]) + Posting(out'[d]["main"])
    BY UnpostedSum DEF Unposted
  <1>2. PICK r \in OutRecord :
          /\ out' = [out EXCEPT ![e][t] = r]
          /\ r.at # "enqueue"
          /\ Enqueue(e, t) => r.at = "post"
          /\ Post(e, t) => r.at = "idle"
    <2>1. CASE Enqueue(e, t)
      <3>1. out[e][t] \in OutRecord
        BY <1>0
      <3>2. /\ [out[e][t] EXCEPT !.at = "post"] \in OutRecord
            /\ [out[e][t] EXCEPT !.at = "post"].at = "post"
        BY <3>1 DEF OutRecord
      <3>3. out' = [out EXCEPT ![e][t] = [out[e][t] EXCEPT !.at = "post"]] /\ ~Post(e, t)
        BY <2>1 DEF Enqueue, Post
      <3> QED BY <3>2, <3>3
    <2>2. CASE Post(e, t)
      <3>1. Idle \in OutRecord /\ Idle.at = "idle"
        BY DEF Idle, OutRecord
      <3> QED BY <2>2, <3>1 DEF Post, Enqueue
    <2> QED BY <2>1, <2>2
  <1>3. /\ out' \in [Ends -> [Senders -> OutRecord]]
        /\ out'[e][t] = r
        /\ \A u \in Senders \ {t} : out'[e][u] = out[e][u]
        /\ \A d \in Ends \ {e} : out'[d] = out[d]
    BY <1>2, OutStep DEF IInv
  <1>4. ClosesInOrder'
    BY <1>0, <1>2, <1>3 DEF IInv, ClosesInOrder, IsFree, Enqueue, Post, Senders
  <1>5. \A d \in Ends : \A u \in Senders : out'[d][u].at = "enqueue" => out'[d][u].packet \in Packets
    BY <1>2, <1>3 DEF IInv, PacketsAreReal
  <1>6. CASE Enqueue(e, t)
    <2>1. /\ ~IsFull(queue[e]) /\ out[e][t].packet \in Packets
          /\ queue' = [queue EXCEPT ![e] = EnqueueItem(queue[e], out[e][t].packet)]
          /\ sem' = sem /\ out[e][t].at = "enqueue"
      BY <1>6 DEF Enqueue, IInv, PacketsAreReal
    <2> DEFINE q == EnqueueItem(queue[e], out[e][t].packet)
    <2>2. /\ IsQueue(q, Packets \cup {NoPacket}) /\ Items(q) = Append(Items(queue[e]), out[e][t].packet)
      <3>1. out[e][t].packet \in Packets \cup {NoPacket} /\ IsQueue(queue[e], Packets \cup {NoPacket})
        BY <1>0, <2>1
      <3> QED BY <2>1, <3>1, EnqueueAppends
    <2>3. q.max_items = queue[e].max_items /\ q.num_items = queue[e].num_items + 1 /\ queue[e].num_items \in Nat
      BY <1>0, QueueSizes
    <2>4. Items(q) \in Seq(Packets)
      BY <1>0, <2>1, <2>2, AppendProperties
    <2> HIDE DEF q
    <2>5. DOMAIN queue' = Ends /\ queue'[e] = q /\ \A d \in Ends \ {e} : queue'[d] = queue[d]
      BY <2>1 DEF IInv, TypeOK, q
    <2>6. TypeOK'
      <3>1. \A d \in Ends : IsQueue(queue'[d], Packets \cup {NoPacket}) /\ queue'[d].max_items = QueueSize
        BY <2>2, <2>3, <2>5 DEF IInv, TypeOK
      <3> QED BY <1>0, <1>3, <2>1, <2>5, <3>1 DEF IInv, TypeOK, OutRecord
    <2>7. PacketsAreReal'
      BY <1>0, <1>5, <2>4, <2>5 DEF IInv, PacketsAreReal
    <2>8. NoPacketStranded'
      <3>1. Unposted(e)' = Unposted(e) + 1 /\ Unposted(e) \in Nat
        BY <1>1, <1>2, <1>3, <1>6, <2>1 DEF Posting, Senders
      <3>2. \A d \in Ends \ {e} : Unposted(d)' = Unposted(d)
        BY <1>1, <1>3
      <3>3. run'[e] => sem'[e] + Unposted(e)' + (IF sender'[e] = "dequeue" THEN 1 ELSE 0) >= queue'[e].num_items
        BY <1>0, <2>1, <2>3, <2>5, <3>1 DEF IInv, NoPacketStranded
      <3>4. \A d \in Ends \ {e} :
              run'[d] => sem'[d] + Unposted(d)' + (IF sender'[d] = "dequeue" THEN 1 ELSE 0) >= queue'[d].num_items
        BY <1>0, <2>1, <2>5, <3>2 DEF IInv, NoPacketStranded
      <3> QED BY <3>3, <3>4 DEF NoPacketStranded
    <2> QED BY <1>4, <2>6, <2>7, <2>8 DEF IInv
  <1>7. CASE Post(e, t)
    <2>1. /\ queue' = queue /\ sem' = [sem EXCEPT ![e] = sem[e] + 1] /\ out[e][t].at = "post"
      BY <1>7 DEF Post
    <2>2. TypeOK'
      <3>1. sem' \in [Ends -> Nat]
        BY <1>0, <2>1 DEF IInv, TypeOK
      <3> QED BY <1>0, <1>3, <2>1, <3>1 DEF IInv, TypeOK, OutRecord
    <2>3. PacketsAreReal'
      BY <1>0, <1>5, <2>1 DEF IInv, PacketsAreReal
    <2>4. NoPacketStranded'
      <3>1. Unposted(e)' + 1 = Unposted(e) /\ Unposted(e)' \in Nat
        BY <1>1, <1>2, <1>3, <1>7, <2>1 DEF Posting, Senders
      <3>2. \A d \in Ends \ {e} : Unposted(d)' = Unposted(d)
        BY <1>1, <1>3
      <3>3. sem'[e] = sem[e] + 1 /\ \A d \in Ends \ {e} : sem'[d] = sem[d]
        BY <2>1 DEF IInv, TypeOK
      <3>4. queue[e].num_items \in Nat
        BY <1>0, QueueSizes
      <3>5. run'[e] => sem'[e] + Unposted(e)' + (IF sender'[e] = "dequeue" THEN 1 ELSE 0) >= queue'[e].num_items
        BY <1>0, <2>1, <3>1, <3>3, <3>4 DEF IInv, NoPacketStranded
      <3>6. \A d \in Ends \ {e} :
              run'[d] => sem'[d] + Unposted(d)' + (IF sender'[d] = "dequeue" THEN 1 ELSE 0) >= queue'[d].num_items
        BY <1>0, <2>1, <3>2, <3>3 DEF IInv, NoPacketStranded
      <3> QED BY <3>5, <3>6 DEF NoPacketStranded
    <2> QED BY <1>4, <2>2, <2>3, <2>4 DEF IInv
  <1> QED BY <1>6, <1>7

LEMMA PeerFacts == \A e \in Ends : Peer(e) \in Ends /\ Peer(e) # e /\ Peer(Peer(e)) = e
                                  /\ \A d \in Ends : d = e \/ d = Peer(e)
  BY DEF Ends, Peer

\* multithreaded_tcp_send
LEMMA SendThreadIsGood ==
    ASSUME IInv, NEW e \in Ends, SendThread(e)
    PROVE  IInv'
  <1>0. UNCHANGED <<run, open, out, ping, pong, at, stopping, given>>
    BY DEF SendThread, Wakes, Dequeue, Sends, SendFails
  <1>1. ClosesInOrder' /\ \A d \in Ends : Unposted(d)' = Unposted(d)
    BY <1>0, NobodyCloses DEF Unposted
  <1>2. /\ \A d \in Ends : /\ IsQueue(queue[d], Packets \cup {NoPacket})
                          /\ Items(queue[d]) \in Seq(Packets)
                          /\ sem[d] \in Nat /\ queue[d].num_items \in Nat
                          /\ Unposted(d) \in Nat
    <2>1. \A d \in Ends : Unposted(d) = Posting(out[d]["tcp"]) + Posting(out[d]["main"])
      BY UnpostedSum DEF Unposted
    <2>2. \A d \in Ends : Unposted(d) \in Nat
      BY <2>1 DEF Posting
    <2>3. \A d \in Ends : IsQueue(queue[d], Packets \cup {NoPacket})
      BY DEF IInv, TypeOK
    <2>4. \A d \in Ends : queue[d].num_items \in Nat
      BY <2>3 DEF IsQueue
    <2> QED BY <2>2, <2>3, <2>4 DEF IInv, TypeOK, PacketsAreReal
  <1>3. sender \in [Ends -> {"wait", "dequeue", "send", "ended"}]
        /\ hand \in [Ends -> Packets \cup {NoPacket}] /\ sem \in [Ends -> Nat]
        /\ \A d \in Ends : hand[d] \in Packets <=> sender[d] = "send"
    BY DEF IInv, TypeOK, PacketsAreReal
  <1>4. CASE Wakes(e)
    <2>1. PICK place \in {"ended", "dequeue"} :
            /\ sender' = [sender EXCEPT ![e] = place] /\ (run[e] => place = "dequeue")
            /\ sender[e] = "wait" /\ sem[e] > 0 /\ sem' = [sem EXCEPT ![e] = sem[e] - 1]
            /\ UNCHANGED <<queue, hand, lost, net>>
      BY <1>4 DEF Wakes
    <2>2. /\ sender'[e] = place /\ sem'[e] = sem[e] - 1 /\ sem'[e] \in Nat
          /\ \A d \in Ends \ {e} : sender'[d] = sender[d] /\ sem'[d] = sem[d]
          /\ sender' \in [Ends -> {"wait", "dequeue", "send", "ended"}] /\ sem' \in [Ends -> Nat]
      BY <1>2, <1>3, <2>1
    <2>3. TypeOK'
      BY <1>0, <2>1, <2>2 DEF IInv, TypeOK
    <2>4. PacketsAreReal'
      BY <1>0, <1>3, <2>1, <2>2 DEF IInv, PacketsAreReal
    <2>5. NoPacketStranded'
      BY <1>0, <1>1, <1>2, <2>1, <2>2 DEF IInv, NoPacketStranded
    <2> QED BY <1>1, <2>3, <2>4, <2>5 DEF IInv
  <1>5. CASE Dequeue(e) /\ IsEmpty(queue[e])
    <2>1. /\ sender' = [sender EXCEPT ![e] = "wait"] /\ sender[e] = "dequeue"
          /\ UNCHANGED <<queue, sem, hand, lost, net>>
          /\ queue[e].num_items = 0
      BY <1>2, <1>5 DEF Dequeue, IsEmpty
    <2>2. /\ sender'[e] = "wait" /\ \A d \in Ends \ {e} : sender'[d] = sender[d]
          /\ sender' \in [Ends -> {"wait", "dequeue", "send", "ended"}]
      BY <1>3, <2>1
    <2>3. TypeOK'
      BY <1>0, <2>1, <2>2 DEF IInv, TypeOK
    <2>4. PacketsAreReal'
      BY <1>0, <1>3, <2>1, <2>2 DEF IInv, PacketsAreReal
    <2>5. NoPacketStranded'
      BY <1>0, <1>1, <1>2, <2>1, <2>2 DEF IInv, NoPacketStranded
    <2> QED BY <1>1, <2>3, <2>4, <2>5 DEF IInv
  <1>6. CASE Dequeue(e) /\ ~IsEmpty(queue[e])
    <2> DEFINE q == DequeueItem(queue[e])
    <2>1. /\ sender' = [sender EXCEPT ![e] = "send"] /\ sender[e] = "dequeue"
          /\ hand' = [hand EXCEPT ![e] = NextItem(queue[e])]
          /\ queue' = [queue EXCEPT ![e] = q]
          /\ UNCHANGED <<sem, lost, net>> /\ ~IsEmpty(queue[e])
      BY <1>6 DEF Dequeue
    <2>2. /\ IsQueue(q, Packets \cup {NoPacket}) /\ NextItem(queue[e]) = Head(Items(queue[e]))
          /\ Items(q) = Tail(Items(queue[e]))
      BY <1>2, <2>1, DequeueTakesFirst
    <2>3. q.max_items = queue[e].max_items /\ q.num_items = queue[e].num_items - 1
      BY <1>2, QueueSizes
    <2>4. Items(queue[e]) # <<>>
      <3>1. Len(Items(queue[e])) = queue[e].num_items
        BY <1>2, ItemsAreSequence
      <3> QED BY <1>2, <2>1, <3>1, EmptySeq DEF IsEmpty
    <2>5. NextItem(queue[e]) \in Packets /\ Items(q) \in Seq(Packets)
      BY <1>2, <2>2, <2>4, HeadTailProperties
    <2> HIDE DEF q
    <2>6. /\ DOMAIN queue' = Ends /\ queue'[e] = q /\ \A d \in Ends \ {e} : queue'[d] = queue[d]
          /\ sender'[e] = "send" /\ hand'[e] = NextItem(queue[e])
          /\ \A d \in Ends \ {e} : sender'[d] = sender[d] /\ hand'[d] = hand[d]
          /\ sender' \in [Ends -> {"wait", "dequeue", "send", "ended"}]
          /\ hand' \in [Ends -> Packets \cup {NoPacket}]
      BY <1>3, <2>1, <2>5 DEF IInv, TypeOK
    <2>7. TypeOK'
      <3>1. \A d \in Ends : IsQueue(queue'[d], Packets \cup {NoPacket}) /\ queue'[d].max_items = QueueSize
        BY <2>2, <2>3, <2>6 DEF IInv, TypeOK
      <3> QED BY <1>0, <2>1, <2>6, <3>1 DEF IInv, TypeOK
    <2>8. PacketsAreReal'
      <3>1. \A d \in Ends : Items(queue[d])' \in Seq(Packets)
        BY <1>2, <2>5, <2>6, Zenon
      <3>2. \A d \in Ends : hand'[d] \in Packets <=> sender'[d] = "send"
        BY <1>3, <2>5, <2>6
      <3> QED BY <1>0, <3>1, <3>2 DEF IInv, PacketsAreReal
    <2>9. NoPacketStranded'
      BY <1>0, <1>1, <1>2, <2>1, <2>3, <2>6 DEF IInv, NoPacketStranded
    <2> QED BY <1>1, <2>7, <2>8, <2>9 DEF IInv
  <1>7. CASE Sends(e) \/ SendFails(e)
    <2>1. /\ sender' = [sender EXCEPT ![e] = "wait"] /\ sender[e] = "send"
          /\ hand' = [hand EXCEPT ![e] = NoPacket]
          /\ UNCHANGED <<queue, sem>>
      BY <1>7 DEF Sends, SendFails
    <2>2. /\ sender'[e] = "wait" /\ hand'[e] = NoPacket
          /\ \A d \in Ends \ {e} : sender'[d] = sender[d] /\ hand'[d] = hand[d]
          /\ sender' \in [Ends -> {"wait", "dequeue", "send", "ended"}]
          /\ hand' \in [Ends -> Packets \cup {NoPacket}]
      BY <1>3, <2>1
    <2>3. lost' \in [Ends -> BOOLEAN]
      BY <1>7 DEF Sends, SendFails, IInv, TypeOK
    <2>4. net' \in [Ends -> Seq(Packets)]
      <3>1. CASE Sends(e)
        <4>1. net[Peer(e)] \in Seq(Packets) /\ hand[e] \in Packets
          BY <1>3, <2>1, PeerFacts DEF IInv, TypeOK
        <4>2. Append(net[Peer(e)], hand[e]) \in Seq(Packets)
          BY <4>1, AppendProperties
        <4> QED BY <3>1, <4>2 DEF Sends, IInv, TypeOK
      <3>2. CASE SendFails(e)
        BY <3>2 DEF SendFails, IInv, TypeOK
      <3> QED BY <1>7, <3>1, <3>2
    <2>5. TypeOK'
      BY <1>0, <2>1, <2>2, <2>3, <2>4 DEF IInv, TypeOK
    <2>6. PacketsAreReal'
      BY <1>0, <1>3, <2>1, <2>2, PacketFacts DEF IInv, PacketsAreReal
    <2>7. NoPacketStranded'
      BY <1>0, <1>1, <1>2, <2>1, <2>2 DEF IInv, NoPacketStranded
    <2> QED BY <1>1, <2>5, <2>6, <2>7 DEF IInv
  <1> QED BY <1>4, <1>5, <1>6, <1>7 DEF SendThread

\* The connection is closed at an end, and made anew.
LEMMA ClosingIsGood ==
    ASSUME IInv, NEW e \in Ends, Stop(e) \/ Parks(e) \/ Destroy(e)
    PROVE  IInv'
  <1>1. CASE Stop(e)
    <2>1. PacketsAreReal' /\ NoPacketStranded'
      BY <1>1, NothingMoves DEF Stop
    <2>2. TypeOK'
      BY <1>1 DEF Stop, IInv, TypeOK
    <2>3. ClosesInOrder'
      BY <1>1 DEF Stop, IInv, TypeOK, ClosesInOrder, IsFree
    <2> QED BY <2>1, <2>2, <2>3 DEF IInv
  <1>2. CASE Parks(e)
    <2>1. PacketsAreReal' /\ NoPacketStranded'
      BY <1>2, NothingMoves DEF Parks
    <2>2. at' \in [Ends -> {"update", "recv", "parked"}]
      BY <1>2 DEF Parks, Goes, IInv, TypeOK
    <2>3. TypeOK'
      BY <1>2, <2>2 DEF Parks, IInv, TypeOK
    <2>4. ClosesInOrder'
      BY <1>2 DEF Parks, Goes, ThreadAt, IInv, TypeOK, ClosesInOrder, IsFree
    <2> QED BY <2>1, <2>3, <2>4 DEF IInv
  <1>3. CASE DestroyBegins(e)
    <2>1. /\ run' = [run EXCEPT ![e] = FALSE] /\ sem' = [sem EXCEPT ![e] = sem[e] + 1] /\ at[e] = "parked"
          /\ UNCHANGED <<queue, sender, hand, lost, open, net, out, ping, pong, at, stopping, given>>
      BY <1>3 DEF DestroyBegins
    <2>2. /\ run' \in [Ends -> BOOLEAN] /\ sem' \in [Ends -> Nat]
          /\ ~run'[e] /\ \A d \in Ends \ {e} : run'[d] = run[d] /\ sem'[d] = sem[d]
      BY <2>1 DEF IInv, TypeOK
    <2>3. TypeOK'
      BY <2>1, <2>2 DEF IInv, TypeOK
    <2>4. PacketsAreReal'
      BY <2>1 DEF IInv, PacketsAreReal
    <2>5. ClosesInOrder'
      BY <2>1, <2>2 DEF IInv, ClosesInOrder, IsFree
    <2>6. NoPacketStranded'
      BY <2>1, <2>2 DEF IInv, NoPacketStranded, Unposted
    <2> QED BY <2>3, <2>4, <2>5, <2>6 DEF IInv
  <1>4. CASE DestroyEnds(e)
    <2> DEFINE q == Create(QueueSize, NoPacket)
    <2>1. /\ ~run[e] /\ open' = [open EXCEPT ![e] = FALSE] /\ sem' = [sem EXCEPT ![e] = 0]
          /\ net' = [net EXCEPT ![e] = <<>>] /\ queue' = [queue EXCEPT ![e] = q]
          /\ UNCHANGED <<sender, hand, run, lost, out, ping, pong, at, stopping, given>>
      BY <1>4 DEF DestroyEnds
    <2>2. /\ IsQueue(q, Packets \cup {NoPacket}) /\ Items(q) = <<>> /\ q.max_items = QueueSize
      BY CreatedIsEmpty, TcpAssumption DEF Create
    <2> HIDE DEF q
    <2>3. <<>> \in Seq(Packets)
      BY EmptySeq
    <2>4. /\ DOMAIN queue' = Ends /\ queue'[e] = q
          /\ \A d \in Ends \ {e} : queue'[d] = queue[d] /\ sem'[d] = sem[d] /\ open'[d] = open[d]
          /\ open' \in [Ends -> BOOLEAN] /\ sem' \in [Ends -> Nat] /\ net' \in [Ends -> Seq(Packets)]
      BY <2>1, <2>3 DEF IInv, TypeOK
    <2>5. TypeOK'
      <3>1. \A d \in Ends : IsQueue(queue'[d], Packets \cup {NoPacket}) /\ queue'[d].max_items = QueueSize
        BY <2>2, <2>4 DEF IInv, TypeOK
      <3> QED BY <2>1, <2>4, <3>1 DEF IInv, TypeOK
    <2>6. PacketsAreReal'
      <3>1. \A d \in Ends : Items(queue[d])' \in Seq(Packets)
        <4>1. \A d \in Ends : Items(queue[d]) \in Seq(Packets)
          BY DEF IInv, PacketsAreReal
        <4> QED BY <2>2, <2>3, <2>4, <4>1, Zenon
      <3> QED BY <2>1, <3>1 DEF IInv, PacketsAreReal
    <2>7. ClosesInOrder'
      BY <2>1, <2>4 DEF IInv, ClosesInOrder, IsFree
    <2>8. NoPacketStranded'
      BY <2>1, <2>4 DEF IInv, NoPacketStranded, Unposted
    <2> QED BY <2>5, <2>6, <2>7, <2>8 DEF IInv
  <1> QED BY <1>1, <1>2, <1>3, <1>4 DEF Destroy

LEMMA RecreatedIsGood == Init' => IInv'
  BY InitIsGood, PTL

LEMMA NextIsGood == IInv /\ [Next]_vars => IInv'
  <1> SUFFICES ASSUME IInv, [Next]_vars PROVE IInv'
    OBVIOUS
  <1>1. CASE UNCHANGED vars
    <2>1. PacketsAreReal' /\ NoPacketStranded' /\ ClosesInOrder'
      BY <1>1, NothingMoves, NobodyCloses DEF vars
    <2>2. TypeOK'
      BY <1>1 DEF vars, IInv, TypeOK
    <2> QED BY <2>1, <2>2 DEF IInv
  <1>2. CASE Recreate
    BY <1>2, RecreatedIsGood DEF Recreate, Init
  <1>3. CASE Pings
    BY <1>3, BeginningIsGood, SenderSleeps DEF Pings, Ends
  <1>4. ASSUME NEW e \in Ends,
               \/ SendThread(e)
               \/ \E t \in Senders : Producer(e, t)
               \/ MainSends(e) \/ Receives(e) \/ Works(e)
               \/ Stop(e) \/ Parks(e) \/ Destroy(e)
        PROVE  IInv'
    BY <1>4, SendThreadIsGood, ProducerIsGood, BeginningIsGood, SenderSleeps, ClosingIsGood
    DEF Producer, Receives
  <1> QED BY <1>1, <1>2, <1>3, <1>4 DEF Next

LEMMA Invariant == Spec => []IInv
  BY InitIsGood, NextIsGood, PTL DEF Spec

\* The types of the connection, with queues of every size.
THEOREM TypeCorrect == Spec => []TypeOK
  <1>1. IInv => TypeOK
    BY DEF IInv
  <1> QED BY <1>1, Invariant, PTL

\* No packet is left behind in a send queue while multithreaded_tcp_send sleeps (tcp.c): every
\* packet has a post of the semaphore, given or still to come, for queues of every size and any
\* number of packets.
THEOREM NobodyIsStranded == Spec => []NoPacketStranded
  <1>1. IInv => NoPacketStranded
    BY DEF IInv
  <1> QED BY <1>1, Invariant, PTL
-----------------------------------------------------------------------------
\* What the send thread of an end holds
Held(e) == IF hand[e] = NoPacket THEN <<>> ELSE <<hand[e]>>

LEMMA SamePeer == \A e \in Ends : Chan!Peer(e) = Peer(e)
  BY DEF Chan!Peer, Ends, Peer

\* The parts of what is under way to an end.
LEMMA UnderwayParts ==
    ASSUME IInv, NEW e \in Ends
    PROVE  /\ net[e] \in Seq(Packets) /\ Held(Peer(e)) \in Seq(Packets)
           /\ Items(queue[Peer(e)]) \in Seq(Packets)
           /\ open[e] => Underway(e) = (net[e] \o Held(Peer(e))) \o Items(queue[Peer(e)])
           /\ ~open[e] => Underway(e) = <<>>
           /\ Underway(e) \in Seq(Packets)
  <1>1. /\ net[e] \in Seq(Packets) /\ Items(queue[Peer(e)]) \in Seq(Packets)
        /\ hand[Peer(e)] \in Packets \cup {NoPacket}
    BY PeerFacts DEF IInv, TypeOK, PacketsAreReal
  <1>2. Held(Peer(e)) \in Seq(Packets)
    BY <1>1 DEF Held
  <1>3. /\ open[e] => Underway(e) = (net[e] \o Held(Peer(e))) \o Items(queue[Peer(e)])
        /\ ~open[e] => Underway(e) = <<>>
    BY DEF Underway, Held
  <1>4. (net[e] \o Held(Peer(e))) \o Items(queue[Peer(e)]) \in Seq(Packets)
    BY <1>1, <1>2, ConcatProperties
  <1> QED BY <1>1, <1>2, <1>3, <1>4, EmptySeq

LEMMA UnderwayPartsNext ==
    ASSUME IInv', NEW e \in Ends
    PROVE  /\ net'[e] \in Seq(Packets) /\ Held(Peer(e))' \in Seq(Packets)
           /\ Items(queue'[Peer(e)]) \in Seq(Packets)
           /\ open'[e] => Underway(e)' = (net'[e] \o Held(Peer(e))') \o Items(queue'[Peer(e)])
           /\ ~open'[e] => Underway(e)' = <<>>
           /\ Underway(e)' \in Seq(Packets)
  <1>1. /\ net'[e] \in Seq(Packets) /\ Items(queue'[Peer(e)]) \in Seq(Packets)
        /\ hand'[Peer(e)] \in Packets \cup {NoPacket}
    BY PeerFacts DEF IInv, TypeOK, PacketsAreReal
  <1>2. Held(Peer(e))' \in Seq(Packets)
    BY <1>1 DEF Held
  <1>3. /\ open'[e] => Underway(e)' = (net'[e] \o Held(Peer(e))') \o Items(queue'[Peer(e)])
        /\ ~open'[e] => Underway(e)' = <<>>
    BY DEF Underway, Held
  <1>4. (net'[e] \o Held(Peer(e))') \o Items(queue'[Peer(e)]) \in Seq(Packets)
    BY <1>1, <1>2, ConcatProperties
  <1> QED BY <1>1, <1>2, <1>3, <1>4, EmptySeq

\* Steps that leave alone what is under way.
LEMMA NothingUnderway ==
    ASSUME UNCHANGED <<queue, hand, net, open>>
    PROVE  UNCHANGED Chan!chanVars
  BY DEF Chan!chanVars, Underway

\* Queueing a packet is sending it.
LEMMA EnqueueSends ==
    ASSUME IInv, IInv', NEW e \in Ends, NEW t \in Senders, Enqueue(e, t)
    PROVE  Chan!Next
  <1> DEFINE packet == out[e][t].packet
  <1>1. /\ packet \in Packets /\ ~IsFull(queue[e])
        /\ queue' = [queue EXCEPT ![e] = EnqueueItem(queue[e], packet)]
        /\ UNCHANGED <<hand, net, open>>
        /\ open[e]
    BY DEF Enqueue, IInv, PacketsAreReal, ClosesInOrder, IsFree, Senders, TypeOK
  <1>2. Items(queue'[e]) = Append(Items(queue[e]), packet)
    <2>1. IsQueue(queue[e], Packets \cup {NoPacket}) /\ DOMAIN queue = Ends
      BY DEF IInv, TypeOK
    <2>2. Items(EnqueueItem(queue[e], packet)) = Append(Items(queue[e]), packet)
      BY <1>1, <2>1, EnqueueAppends
    <2> QED BY <1>1, <2>1, <2>2
  <1> DEFINE d == Peer(e)
  <1>3. d \in Ends /\ Peer(d) = e /\ d # e /\ \A x \in Ends : x = e \/ x = d
    BY PeerFacts
  <1> HIDE DEF d, packet
  <1>4. Underway(e)' = Underway(e)
    <2>1. queue'[d] = queue[d]
      BY <1>1, <1>3 DEF IInv, TypeOK
    <2>2. Underway(e) = (net[e] \o Held(d)) \o Items(queue[d])
      BY <1>1, UnderwayParts DEF d
    <2>3. Underway(e)' = (net'[e] \o Held(d)') \o Items(queue'[d])
      BY <1>1, UnderwayPartsNext DEF d
    <2>4. net'[e] = net[e] /\ Held(d)' = Held(d)
      BY <1>1 DEF Held
    <2> QED BY <2>1, <2>2, <2>3, <2>4
  <1>5. CASE open[d]
    <2>1. /\ Underway(d) = (net[d] \o Held(e)) \o Items(queue[e])
          /\ net[d] \in Seq(Packets) /\ Held(e) \in Seq(Packets) /\ Items(queue[e]) \in Seq(Packets)
      BY <1>3, <1>5, UnderwayParts
    <2>2. Underway(d)' = (net'[d] \o Held(e)') \o Items(queue'[e])
      BY <1>1, <1>3, <1>5, UnderwayPartsNext
    <2>3. net'[d] = net[d] /\ Held(e)' = Held(e)
      BY <1>1 DEF Held
    <2>4. Underway(d)' = Append(Underway(d), packet)
      <3> DEFINE s == net[d] \o Held(e)
      <3>1. s \in Seq(Packets)
        BY <2>1, ConcatProperties
      <3> HIDE DEF s
      <3>2. s \o Append(Items(queue[e]), packet) = Append(s \o Items(queue[e]), packet)
        BY <1>1, <2>1, <3>1
      <3> QED BY <1>2, <2>1, <2>2, <2>3, <3>2 DEF s
    <2>5. [x \in Ends |-> Underway(x)']
              = [[x \in Ends |-> Underway(x)] EXCEPT ![d] = Append(Underway(d), packet)]
      BY <1>3, <1>4, <2>4
    <2>6. Chan!Send(e, packet)
      BY <1>1, <1>3, <1>5, <2>5, SamePeer DEF Chan!Send, d
    <2> QED BY <1>1, <2>6 DEF Chan!Next
  <1>6. CASE ~open[d]
    <2>1. Underway(d)' = Underway(d)
      BY <1>1, <1>6 DEF Underway
    <2>2. [x \in Ends |-> Underway(x)'] = [x \in Ends |-> Underway(x)]
      BY <1>3, <1>4, <2>1
    <2>3. Chan!Send(e, packet)
      BY <1>1, <1>3, <1>6, <2>2, SamePeer DEF Chan!Send, d
    <2> QED BY <1>1, <2>3 DEF Chan!Next
  <1> QED BY <1>5, <1>6

\* The send thread moves packets that are under way.
LEMMA SendThreadMovesOn ==
    ASSUME IInv, IInv', NEW e \in Ends, SendThread(e)
    PROVE  UNCHANGED Chan!chanVars
  <1> DEFINE d == Peer(e)
  <1>1. d \in Ends /\ Peer(d) = e /\ d # e /\ \A x \in Ends : x = e \/ x = d
    BY PeerFacts
  <1>2. UNCHANGED open
    BY DEF SendThread, Wakes, Dequeue, Sends, SendFails
  <1>3. CASE UNCHANGED <<queue, hand, net>>
    BY <1>2, <1>3, NothingUnderway
  <1>4. /\ hand \in [Ends -> Packets \cup {NoPacket}] /\ net \in [Ends -> Seq(Packets)]
        /\ DOMAIN queue = Ends /\ IsQueue(queue[e], Packets \cup {NoPacket})
        /\ hand[e] \in Packets <=> sender[e] = "send"
    BY DEF IInv, TypeOK, PacketsAreReal
  <1> HIDE DEF d
  <1>5. ASSUME UNCHANGED net[e], UNCHANGED queue[d], UNCHANGED hand[d],
               open[d] => Underway(d)' = Underway(d)
        PROVE  UNCHANGED Chan!chanVars
    <2>1. Underway(e)' = Underway(e)
      <3>1. CASE open[e]
        <4>1. Underway(e) = (net[e] \o Held(d)) \o Items(queue[d])
          BY <3>1, UnderwayParts DEF d
        <4>2. Underway(e)' = (net'[e] \o Held(d)') \o Items(queue'[d])
          BY <1>2, <3>1, UnderwayPartsNext DEF d
        <4>3. Held(d)' = Held(d)
          BY <1>5 DEF Held
        <4> QED BY <1>5, <4>1, <4>2, <4>3
      <3>2. CASE ~open[e]
        BY <1>2, <3>2 DEF Underway
      <3> QED BY <3>1, <3>2
    <2>2. Underway(d)' = Underway(d)
      <3>1. CASE ~open[d]
        BY <1>2, <3>1 DEF Underway
      <3> QED BY <1>5, <3>1
    <2>3. [x \in Ends |-> Underway(x)'] = [x \in Ends |-> Underway(x)]
      BY <1>1, <2>1, <2>2
    <2> QED BY <1>2, <2>3 DEF Chan!chanVars
  <1>6. ASSUME open[d]
        PROVE  /\ Underway(d) = (net[d] \o Held(e)) \o Items(queue[e])
               /\ Underway(d)' = (net'[d] \o Held(e)') \o Items(queue'[e])
               /\ net[d] \in Seq(Packets) /\ Held(e) \in Seq(Packets) /\ Items(queue[e]) \in Seq(Packets)
    BY <1>1, <1>2, <1>6, UnderwayParts, UnderwayPartsNext
  <1>7. CASE Dequeue(e) /\ ~IsEmpty(queue[e])
    <2>1. /\ hand' = [hand EXCEPT ![e] = NextItem(queue[e])]
          /\ queue' = [queue EXCEPT ![e] = DequeueItem(queue[e])]
          /\ net' = net /\ sender[e] = "dequeue"
      BY <1>7 DEF Dequeue
    <2>2. /\ NextItem(queue[e]) = Head(Items(queue[e]))
          /\ Items(DequeueItem(queue[e])) = Tail(Items(queue[e]))
      BY <1>4, <1>7, DequeueTakesFirst
    <2>3. Items(queue[e]) \in Seq(Packets) /\ Items(queue[e]) # <<>>
      <3>1. Len(Items(queue[e])) = queue[e].num_items
        BY <1>4, ItemsAreSequence
      <3>2. queue[e].num_items \in Nat /\ queue[e].num_items # 0
        BY <1>4, <1>7 DEF IsQueue, IsEmpty
      <3> QED BY <3>1, <3>2, EmptySeq DEF IInv, PacketsAreReal
    <2>4. Head(Items(queue[e])) \in Packets /\ Tail(Items(queue[e])) \in Seq(Packets)
      BY <2>3, HeadTailProperties
    <2>5. Held(e) = <<>> /\ Held(e)' = <<Head(Items(queue[e]))>>
      BY <1>4, <2>1, <2>2, <2>4, PacketFacts DEF Held
    <2>6. queue'[d] = queue[d] /\ hand'[d] = hand[d] /\ queue'[e] = DequeueItem(queue[e])
      BY <1>1, <1>4, <2>1
    <2>7. ASSUME open[d] PROVE Underway(d)' = Underway(d)
      <3> DEFINE s == Items(queue[e])
      <3>1. Underway(d) = (net[d] \o <<>>) \o s /\ net[d] \in Seq(Packets)
        BY <1>6, <2>5, <2>7
      <3>2. Underway(d)' = (net[d] \o <<Head(s)>>) \o Tail(s)
        BY <1>6, <2>1, <2>2, <2>5, <2>6, <2>7
      <3> HIDE DEF s
      <3>3. s \in Seq(Packets) /\ s # <<>> /\ Head(s) \in Packets /\ Tail(s) \in Seq(Packets)
            /\ <<Head(s)>> \in Seq(Packets)
        BY <2>3, <2>4 DEF s
      <3>4. s = <<Head(s)>> \o Tail(s)
        BY <3>3
      <3>5. (net[d] \o <<Head(s)>>) \o Tail(s) = net[d] \o (<<Head(s)>> \o Tail(s))
        BY <3>1, <3>3, ConcatAssociative
      <3>6. net[d] \o <<>> = net[d]
        BY <3>1, ConcatEmptySeq
      <3> QED BY <3>1, <3>2, <3>4, <3>5, <3>6
    <2> QED BY <1>5, <2>1, <2>6, <2>7
  <1>8. CASE Sends(e)
    <2>1. /\ sender[e] = "send" /\ hand' = [hand EXCEPT ![e] = NoPacket]
          /\ net' = [net EXCEPT ![d] = Append(net[d], hand[e])] /\ queue' = queue
      BY <1>8 DEF Sends, d
    <2>2. /\ hand[e] \in Packets /\ hand[e] # NoPacket /\ hand'[e] = NoPacket
          /\ hand'[d] = hand[d] /\ net'[e] = net[e] /\ net'[d] = Append(net[d], hand[e])
      BY <1>1, <1>4, <2>1, PacketFacts
    <2>3. Held(e) = <<hand[e]>> /\ Held(e)' = <<>>
      BY <2>2 DEF Held
    <2>4. ASSUME open[d] PROVE Underway(d)' = Underway(d)
      <3>1. net[d] \in Seq(Packets)
        BY <1>6, <2>4
      <3>2. Append(net[d], hand[e]) = net[d] \o <<hand[e]>> /\ Append(net[d], hand[e]) \in Seq(Packets)
        BY <2>2, <3>1, AppendIsConcat, AppendProperties, ZenonT(30)
      <3>3. Append(net[d], hand[e]) \o <<>> = Append(net[d], hand[e])
        BY <3>2, ConcatEmptySeq
      <3> QED BY <1>6, <2>1, <2>2, <2>3, <2>4, <3>2, <3>3
    <2> QED BY <1>5, <2>1, <2>2, <2>4
  <1>9. CASE SendFails(e)
    <2>1. /\ ~open[d] /\ hand' = [hand EXCEPT ![e] = NoPacket] /\ UNCHANGED <<queue, net>>
      BY <1>9 DEF SendFails, d
    <2>2. hand'[d] = hand[d]
      BY <1>1, <1>4, <2>1
    <2> QED BY <1>5, <2>1, <2>2
  <1> QED BY <1>3, <1>7, <1>8, <1>9 DEF SendThread, Wakes, Dequeue

LEMMA TailOfConcat ==
    ASSUME NEW S, NEW s \in Seq(S), NEW r \in Seq(S), s # <<>>
    PROVE  s \o r # <<>> /\ Tail(s \o r) = Tail(s) \o r
  <1>1. /\ Len(s) \in Nat \ {0} /\ Len(r) \in Nat
        /\ s \o r \in Seq(S) /\ Len(s \o r) = Len(s) + Len(r)
        /\ \A i \in 1 .. Len(s) + Len(r) : (s \o r)[i] = IF i <= Len(s) THEN s[i] ELSE r[i - Len(s)]
    BY EmptySeq, LenProperties, ConcatProperties
  <1>2. s \o r # <<>>
    BY <1>1, EmptySeq
  <1>3. /\ Tail(s) \in Seq(S) /\ Len(Tail(s)) = Len(s) - 1
        /\ \A i \in 1 .. Len(s) - 1 : Tail(s)[i] = s[i + 1]
    BY HeadTailProperties
  <1>4. /\ Tail(s \o r) \in Seq(S) /\ Len(Tail(s \o r)) = Len(s) + Len(r) - 1
        /\ \A i \in 1 .. Len(s) + Len(r) - 1 : Tail(s \o r)[i] = (s \o r)[i + 1]
    BY <1>1, <1>2, HeadTailProperties
  <1>5. /\ Tail(s) \o r \in Seq(S) /\ Len(Tail(s) \o r) = Len(s) - 1 + Len(r)
        /\ \A i \in 1 .. Len(s) - 1 + Len(r) :
              (Tail(s) \o r)[i] = IF i <= Len(s) - 1 THEN Tail(s)[i] ELSE r[i - (Len(s) - 1)]
    BY <1>3, ConcatProperties
  <1>6. ASSUME NEW i \in 1 .. Len(s) + Len(r) - 1
        PROVE  Tail(s \o r)[i] = (Tail(s) \o r)[i]
    <2>1. Tail(s \o r)[i] = IF i + 1 <= Len(s) THEN s[i + 1] ELSE r[i + 1 - Len(s)]
      BY <1>1, <1>4
    <2>2. (Tail(s) \o r)[i] = IF i <= Len(s) - 1 THEN Tail(s)[i] ELSE r[i - (Len(s) - 1)]
      BY <1>1, <1>5
    <2>3. i + 1 - Len(s) = i - (Len(s) - 1)
      BY <1>1
    <2> QED BY <1>1, <1>3, <2>1, <2>2, <2>3
  <1>7. Len(s) + Len(r) - 1 = Len(s) - 1 + Len(r)
    BY <1>1
  <1>8. Len(Tail(s \o r)) = Len(Tail(s) \o r)
    BY <1>4, <1>5, <1>7
  <1>9. \A i \in 1 .. Len(Tail(s \o r)) : Tail(s \o r)[i] = (Tail(s) \o r)[i]
    BY <1>4, <1>6
  <1> QED BY <1>2, <1>4, <1>5, <1>8, <1>9, SeqEqual

\* A packet that recv(2) finds is the first of those under way.
LEMMA ArrivalReceives ==
    ASSUME IInv, IInv', NEW e \in Ends, GetPing(e) \/ GetPong(e) \/ GetPayload(e)
    PROVE  Chan!Next
  <1> DEFINE d == Peer(e)
  <1>1. d \in Ends /\ Peer(d) = e /\ d # e /\ \A x \in Ends : x = e \/ x = d
    BY PeerFacts
  <1> HIDE DEF d
  <1>2. /\ net[e] # <<>> /\ net' = [net EXCEPT ![e] = Tail(net[e])]
        /\ UNCHANGED <<queue, hand, open>> /\ open[e]
    BY DEF GetPing, GetPong, GetPayload, Arrived, Taken, Receiving, ThreadAt, IInv, ClosesInOrder
  <1>3. net'[e] = Tail(net[e]) /\ net'[d] = net[d]
    BY <1>1, <1>2 DEF IInv, TypeOK
  <1>4. Underway(d)' = Underway(d)
    <2>1. CASE open[d]
      <3>1. Underway(d) = (net[d] \o Held(e)) \o Items(queue[e])
        BY <1>1, <2>1, UnderwayParts
      <3>2. Underway(d)' = (net'[d] \o Held(e)') \o Items(queue'[e])
        BY <1>1, <1>2, <2>1, UnderwayPartsNext
      <3>3. Held(e)' = Held(e) /\ queue' = queue
        BY <1>2 DEF Held
      <3> QED BY <1>3, <3>1, <3>2, <3>3
    <2>2. CASE ~open[d]
      BY <1>2, <2>2 DEF Underway
    <2> QED BY <2>1, <2>2
  <1>5. Underway(e) # <<>> /\ Underway(e)' = Tail(Underway(e))
    <2>1. /\ Underway(e) = (net[e] \o Held(d)) \o Items(queue[d])
          /\ net[e] \in Seq(Packets) /\ Held(d) \in Seq(Packets) /\ Items(queue[d]) \in Seq(Packets)
      BY <1>2, UnderwayParts DEF d
    <2>2. Underway(e)' = (net'[e] \o Held(d)') \o Items(queue'[d])
      BY <1>2, UnderwayPartsNext DEF d
    <2>3. Held(d)' = Held(d) /\ queue' = queue
      BY <1>2 DEF Held
    <2> DEFINE r == Held(d) \o Items(queue[d])
    <2>4. r \in Seq(Packets) /\ Tail(net[e]) \in Seq(Packets)
      BY <1>2, <2>1, ConcatProperties, HeadTailProperties
    <2>5. /\ Underway(e) = net[e] \o r
          /\ Underway(e)' = Tail(net[e]) \o r
      <3>1. Underway(e)' = (Tail(net[e]) \o Held(d)) \o Items(queue[d])
        BY <1>3, <2>2, <2>3
      <3>2. ASSUME NEW s \in Seq(Packets)
            PROVE  (s \o Held(d)) \o Items(queue[d]) = s \o r
        <4>1. \A h, i \in Seq(Packets) : (s \o h) \o i = s \o (h \o i)
          BY ConcatAssociative
        <4> QED BY <2>1, <4>1, Zenon
      <3>3. /\ (Tail(net[e]) \o Held(d)) \o Items(queue[d]) = Tail(net[e]) \o r
            /\ (net[e] \o Held(d)) \o Items(queue[d]) = net[e] \o r
        BY <2>1, <2>4, <3>2, Zenon
      <3> QED BY <2>1, <3>1, <3>3
    <2> HIDE DEF r
    <2>6. net[e] \o r # <<>> /\ Tail(net[e] \o r) = Tail(net[e]) \o r
      BY <1>2, <2>1, <2>4, TailOfConcat
    <2> QED BY <2>5, <2>6
  <1>6. [x \in Ends |-> Underway(x)'] = [[x \in Ends |-> Underway(x)] EXCEPT ![e] = Tail(Underway(e))]
    BY <1>1, <1>4, <1>5
  <1>7. Chan!Receive(e)
    BY <1>2, <1>5, <1>6 DEF Chan!Receive
  <1> QED BY <1>7 DEF Chan!Next

\* Closing drops what the end has not read, and what its send thread has not sent.
LEMMA DestroyCloses ==
    ASSUME IInv, IInv', NEW e \in Ends, DestroyEnds(e)
    PROVE  Chan!Next
  <1> DEFINE d == Peer(e)
  <1>1. d \in Ends /\ Peer(d) = e /\ d # e /\ \A x \in Ends : x = e \/ x = d
    BY PeerFacts
  <1> HIDE DEF d
  <1>2. /\ open[e] /\ open' = [open EXCEPT ![e] = FALSE] /\ sender[e] = "ended"
        /\ queue' = [queue EXCEPT ![e] = Create(QueueSize, NoPacket)]
        /\ net' = [net EXCEPT ![e] = <<>>] /\ hand' = hand
    BY DEF DestroyEnds
  <1>3. /\ ~open'[e] /\ open'[d] = open[d] /\ net'[d] = net[d]
        /\ queue'[e] = Create(QueueSize, NoPacket) /\ hand[e] = NoPacket
    BY <1>1, <1>2 DEF IInv, TypeOK, PacketsAreReal
  <1>4. Underway(e)' = <<>>
    BY <1>3, UnderwayPartsNext
  <1>5. PICK n \in 0 .. Len(Underway(d)) : Underway(d)' = SubSeq(Underway(d), 1, n)
    <2>1. CASE open[d]
      <3>1. /\ Underway(d) = (net[d] \o Held(e)) \o Items(queue[e])
            /\ net[d] \in Seq(Packets) /\ Items(queue[e]) \in Seq(Packets)
        BY <1>1, <2>1, UnderwayParts
      <3>2. Underway(d)' = (net'[d] \o Held(e)') \o Items(queue'[e])
        BY <1>1, <1>3, <2>1, UnderwayPartsNext
      <3>3. Held(e) = <<>> /\ Held(e)' = <<>>
        BY <1>2, <1>3 DEF Held
      <3>4. Items(queue'[e]) = <<>>
        BY <1>3, CreatedIsEmpty, TcpAssumption
      <3>5. /\ Underway(d) = net[d] \o Items(queue[e])
            /\ Underway(d)' = net[d]
        BY <1>3, <3>1, <3>2, <3>3, <3>4, ConcatEmptySeq
      <3> DEFINE s == Items(queue[e])
      <3> HIDE DEF s
      <3>6. /\ s \in Seq(Packets) /\ Underway(d) = net[d] \o s
        BY <3>1, <3>5 DEF s
      <3>7. /\ Len(net[d]) \in 0 .. Len(net[d] \o s)
            /\ SubSeq(net[d] \o s, 1, Len(net[d])) = net[d]
        BY <3>1, <3>6
      <3> QED BY <3>5, <3>6, <3>7
    <2>2. CASE ~open[d]
      <3>1. Underway(d) = <<>> /\ Underway(d)' = <<>>
        BY <1>1, <1>3, <2>2, UnderwayParts, UnderwayPartsNext
      <3>2. SubSeq(<<>>, 1, 0) = <<>> /\ Len(<<>>) = 0
        OBVIOUS
      <3>3. 0 \in 0 .. Len(Underway(d)) /\ Underway(d)' = SubSeq(Underway(d), 1, 0)
        BY <3>1, <3>2
      <3> QED BY <3>3
    <2> QED BY <2>1, <2>2
  <1> DEFINE P == [x \in Ends |-> Underway(x)]
  <1>6. [x \in Ends |-> Underway(x)'] = [P EXCEPT ![e] = <<>>, ![d] = SubSeq(P[d], 1, n)]
    BY <1>1, <1>4, <1>5
  <1>7. n \in 0 .. Len(P[d])
    BY <1>1, <1>5
  <1>8. Chan!Close(e)
    BY <1>1, <1>2, <1>6, <1>7, SamePeer DEF Chan!Close, d
  <1> QED BY <1>8 DEF Chan!Next

LEMMA NextRefines == IInv /\ IInv' /\ [Next]_vars => [Chan!Next]_(Chan!chanVars)
  <1> SUFFICES ASSUME IInv, IInv', [Next]_vars PROVE Chan!Next \/ UNCHANGED Chan!chanVars
    OBVIOUS
  <1>1. CASE UNCHANGED vars \/ Pings
    BY <1>1, NothingUnderway DEF vars, Pings, SendPing, PingTimesOut, NoPing
  <1>2. CASE Recreate
    <2>1. /\ \A e \in Ends : ~open[e]
          /\ open' = [e \in Ends |-> TRUE] /\ net' = [e \in Ends |-> <<>>]
          /\ hand' = [e \in Ends |-> NoPacket]
          /\ queue' = [e \in Ends |-> Create(QueueSize, NoPacket)]
      BY <1>2 DEF Recreate
    <2>2. \A e \in Ends : Items(queue'[e]) = <<>> /\ Held(e)' = <<>> /\ net'[e] = <<>> /\ open'[e]
      BY <2>1, CreatedIsEmpty, TcpAssumption DEF Held
    <2>3. \A e \in Ends : Underway(e)' = <<>>
      <3> SUFFICES ASSUME NEW e \in Ends PROVE Underway(e)' = <<>>
        OBVIOUS
      <3>1. Underway(e)' = (<<>> \o <<>>) \o <<>>
        <4>1. Peer(e) \in Ends
          BY PeerFacts
        <4>2. Items(queue'[Peer(e)]) = <<>> /\ Held(Peer(e))' = <<>>
          BY <2>1, <2>2, <4>1 DEF Held
        <4>3. open'[e] /\ net'[e] = <<>>
          BY <2>2
        <4>4. Underway(e)' = (net'[e] \o Held(Peer(e))') \o Items(queue'[Peer(e)])
          BY <4>3, UnderwayPartsNext
        <4> QED BY <4>2, <4>3, <4>4
      <3> QED BY <3>1
    <2>4. Chan!Reopen
      BY <2>1, <2>3 DEF Chan!Reopen
    <2> QED BY <2>4 DEF Chan!Next
  <1>3. ASSUME NEW e \in Ends, SendThread(e) PROVE UNCHANGED Chan!chanVars
    BY <1>3, SendThreadMovesOn
  <1>4. ASSUME NEW e \in Ends, NEW t \in Senders, Producer(e, t)
        PROVE  Chan!Next \/ UNCHANGED Chan!chanVars
    BY <1>4, EnqueueSends, NothingUnderway DEF Producer, Post
  <1>5. ASSUME NEW e \in Ends, Receives(e) PROVE Chan!Next \/ UNCHANGED Chan!chanVars
    BY <1>5, ArrivalReceives, NothingUnderway DEF Receives, GetEndOfFile, GetNothing
  <1>6. ASSUME NEW e \in Ends, MainSends(e) \/ Works(e) \/ Stop(e) \/ Parks(e) \/ DestroyBegins(e)
        PROVE  UNCHANGED Chan!chanVars
    BY <1>6, NothingUnderway DEF MainSends, Works, UserSends, Stop, Parks, DestroyBegins
  <1>7. ASSUME NEW e \in Ends, DestroyEnds(e) PROVE Chan!Next
    BY <1>7, DestroyCloses
  <1> QED BY <1>1, <1>2, <1>3, <1>4, <1>5, <1>6, <1>7 DEF Next, Destroy

LEMMA InitRefines == IInv /\ Init => Chan!Init
  <1> SUFFICES ASSUME IInv, Init PROVE Chan!Init
    OBVIOUS
  <1>1. \A e \in Ends : Items(queue[e]) = <<>> /\ Held(e) = <<>> /\ net[e] = <<>> /\ open[e]
    BY CreatedIsEmpty, TcpAssumption DEF Init, Held
  <1>2. \A e \in Ends : Underway(e) = <<>>
    <2> SUFFICES ASSUME NEW e \in Ends PROVE Underway(e) = <<>>
      OBVIOUS
    <2>1. Underway(e) = (<<>> \o <<>>) \o <<>>
      <3>1. Peer(e) \in Ends
        BY PeerFacts
      <3>2. Items(queue[Peer(e)]) = <<>> /\ Held(Peer(e)) = <<>> /\ open[e] /\ net[e] = <<>>
        BY <1>1, <3>1
      <3>3. Underway(e) = (net[e] \o Held(Peer(e))) \o Items(queue[Peer(e)])
        BY <3>2, UnderwayParts
      <3> QED BY <3>2, <3>3
    <2> QED BY <2>1
  <1> QED BY <1>2 DEF Init, Chan!Init

\* The connection implements the channel of module Channel: a packet that is queued (tcp.c,
\* tcp_send_constructed_packet) arrives once and in order, and closing loses only what was
\* not read and the rear of what was sent, for queues and sockets of every size.
THEOREM IsAChannel == Spec => ChannelSpec
  <1>1. Spec => Chan!Init
    BY InitIsGood, InitRefines DEF Spec
  <1> QED BY <1>1, Invariant, NextRefines, PTL DEF Spec, ChannelSpec, Chan!Spec
=============================================================================
