---------------------------- MODULE TCPConnection ----------------------------
(***************************************************************************)
(* The TCP connection of client and server (whist/network/tcp.c): at each  *)
(* end a bounded queue of packets, a send thread that is woken through a   *)
(* semaphore, the pings of the client, and the way a connection is closed  *)
(* and made anew.                                                          *)
(*                                                                         *)
(* At each end two threads send: the TCP thread, which also receives, and  *)
(* the main thread.  tcp_send_constructed_packet blocks without a time     *)
(* limit while the queue is full, and posts the semaphore in a step of its *)
(* own; send(2) blocks while the socket's buffers are full (the sockets    *)
(* are set to blocking by set_timeout).                                    *)
(*                                                                         *)
(* Time is left out: a time-out may fire whenever what it waits for has    *)
(* not happened.                                                           *)
(***************************************************************************)
EXTENDS FifoQueue, FiniteSets

CONSTANTS
    QueueSize,     \* TCP_SEND_QUEUE_SIZE
    NetSize,       \* packets that fit into the buffers of the sockets and the network
    MaxPings,      \* bound: pings per connection
    ClientSends,   \* bound: packets of the client's users per connection
    ServerSends    \* bound: packets of the server's users per connection

ASSUME TcpAssumption ==
    /\ QueueSize \in Nat \ {0}
    /\ NetSize \in Nat \ {0}
    /\ MaxPings \in Nat /\ ClientSends \in Nat /\ ServerSends \in Nat

Ends == {"client", "server"}
Peer(e) == IF e = "client" THEN "server" ELSE "client"
Senders == {"tcp", "main"}
Most(e) == IF e = "client" THEN ClientSends ELSE ServerSends

NoPacket == [type |-> "none", id |-> 0]
Ping(n) == [type |-> "ping", id |-> n]
Pong(n) == [type |-> "pong", id |-> n]
Payload(n) == [type |-> "payload", id |-> n]
Payloads == {Payload(n) : n \in 1 .. ClientSends} \cup {Payload(n) : n \in 1 .. ServerSends}
Packets == Payloads \cup {Ping(n) : n \in 1 .. MaxPings} \cup {Pong(n) : n \in 1 .. MaxPings}

VARIABLES
    queue,      \* per end: send_queue
    sem,        \* per end: send_semaphore
    sender,     \* per end: where the send thread is
    hand,       \* per end: the packet that the send thread holds
    run,        \* per end: run_sender
    lost,       \* per end: connection_lost
    open,       \* per end: the socket is open
    net,        \* per end: packets on their way to it
    out,        \* per end and thread: the packet it is sending, and how far it got
    ping,       \* last_ping_id of the client, 0 for none
    pong,       \* last_pong_id of the client, 0 for none
    at,         \* per end: where the TCP thread is
    stopping,   \* per end: the TCP thread is told to stop
    given       \* per end: packets its users have sent in this connection

vars == <<queue, sem, sender, hand, run, lost, open, net, out, ping, pong,
          at, stopping, given>>

Idle == [packet |-> NoPacket, at |-> "idle"]
LoopTop(e) == IF e = "client" THEN "update" ELSE "recv"

Init ==
    /\ queue = [e \in Ends |-> Create(QueueSize, NoPacket)]
    /\ sem = [e \in Ends |-> 0]
    /\ sender = [e \in Ends |-> "wait"]
    /\ hand = [e \in Ends |-> NoPacket]
    /\ run = [e \in Ends |-> TRUE]
    /\ lost = [e \in Ends |-> FALSE]
    /\ open = [e \in Ends |-> TRUE]
    /\ net = [e \in Ends |-> <<>>]
    /\ out = [e \in Ends |-> [t \in Senders |-> Idle]]
    /\ ping = 0
    /\ pong = 0
    /\ at = [e \in Ends |-> LoopTop(e)]
    /\ stopping = [e \in Ends |-> FALSE]
    /\ given = [e \in Ends |-> 0]

-----------------------------------------------------------------------------
(***************************************************************************)
(* Sending.                                                                *)
(***************************************************************************)
\* The thread has nothing left to send.
IsFree(e, t) == out[e][t].at = "idle"

\* tcp_send_constructed_packet is called with the packet.
Sending(e, t, packet) == [out EXCEPT ![e][t] = [packet |-> packet, at |-> "enqueue"]]

Enqueue(e, t) ==
    /\ out[e][t].at = "enqueue"
    /\ ~IsFull(queue[e])
    /\ queue' = [queue EXCEPT ![e] = EnqueueItem(@, out[e][t].packet)]
    /\ out' = [out EXCEPT ![e][t].at = "post"]
    /\ UNCHANGED <<sem, sender, hand, run, lost, open, net, ping, pong, at, stopping, given>>

Post(e, t) ==
    /\ out[e][t].at = "post"
    /\ sem' = [sem EXCEPT ![e] = @ + 1]
    /\ out' = [out EXCEPT ![e][t] = Idle]
    /\ UNCHANGED <<queue, sender, hand, run, lost, open, net, ping, pong, at, stopping, given>>

\* tcp_send_packet with the next packet of a user; over a lost connection it is
\* dropped.
UserSends(e, t) ==
    /\ IsFree(e, t)
    /\ given[e] < Most(e)
    /\ given' = [given EXCEPT ![e] = @ + 1]
    /\ out' = IF lost[e] THEN out ELSE Sending(e, t, Payload(given[e] + 1))
    /\ UNCHANGED <<queue, sem, sender, hand, run, lost, open, net, ping, pong, stopping>>

\* The main thread sends until it takes the connection down.
MainSends(e) == ~stopping[e] /\ UserSends(e, "main") /\ UNCHANGED at

-----------------------------------------------------------------------------
(***************************************************************************)
(* multithreaded_tcp_send.                                                 *)
(***************************************************************************)
\* Faulty: over a lost connection the packet's post is taken and not given back.
WakesOnce(e) ==
    /\ sender[e] = "wait"
    /\ sem[e] > 0
    /\ sem' = [sem EXCEPT ![e] = @ - 1]
    /\ sender' = [sender EXCEPT ![e] = IF ~run[e] THEN "ended" ELSE IF lost[e] THEN "wait" ELSE "dequeue"]
    /\ UNCHANGED <<queue, hand, run, lost, open, net, out, ping, pong, at, stopping, given>>

\* The semaphore was posted.  With the connection lost the thread posts it once
\* more and waits again, for at most three seconds, which its own post ends.
Wakes(e) ==
    /\ sender[e] = "wait"
    /\ sem[e] > 0
    /\ sem' = [sem EXCEPT ![e] = @ - 1]
    /\ sender' = [sender EXCEPT ![e] = IF ~run[e] THEN "ended" ELSE "dequeue"]
    /\ UNCHANGED <<queue, hand, run, lost, open, net, out, ping, pong, at, stopping, given>>

Dequeue(e) ==
    /\ sender[e] = "dequeue"
    /\ IF IsEmpty(queue[e])
       THEN /\ sender' = [sender EXCEPT ![e] = "wait"]
            /\ UNCHANGED <<queue, hand>>
       ELSE /\ hand' = [hand EXCEPT ![e] = NextItem(queue[e])]
            /\ queue' = [queue EXCEPT ![e] = DequeueItem(@)]
            /\ sender' = [sender EXCEPT ![e] = "send"]
    /\ UNCHANGED <<sem, run, lost, open, net, out, ping, pong, at, stopping, given>>

\* send(2) takes the packet once there is room for it.
Sends(e) ==
    /\ sender[e] = "send"
    /\ open[Peer(e)]
    /\ Len(net[Peer(e)]) < NetSize
    /\ net' = [net EXCEPT ![Peer(e)] = Append(@, hand[e])]
    /\ hand' = [hand EXCEPT ![e] = NoPacket]
    /\ sender' = [sender EXCEPT ![e] = "wait"]
    /\ UNCHANGED <<queue, sem, run, lost, open, out, ping, pong, at, stopping, given>>

\* send(2) fails: the peer has closed its socket, and ECONNRESET is noted, while
\* any other error only drops the packet.
SendFails(e) ==
    /\ sender[e] = "send"
    /\ ~open[Peer(e)]
    /\ \E reset \in BOOLEAN : lost' = [lost EXCEPT ![e] = @ \/ reset]
    /\ hand' = [hand EXCEPT ![e] = NoPacket]
    /\ sender' = [sender EXCEPT ![e] = "wait"]
    /\ UNCHANGED <<queue, sem, run, open, net, out, ping, pong, at, stopping, given>>

-----------------------------------------------------------------------------
(***************************************************************************)
(* The loop of a TCP thread: tcp_update with the client's pings, then      *)
(* tcp_get_packet, then what the thread itself has to send.  The thread    *)
(* goes on once its packet is queued.                                      *)
(***************************************************************************)
ThreadAt(e, pc) == at[e] = pc /\ IsFree(e, "tcp")
Goes(e, pc) == at' = [at EXCEPT ![e] = pc]

\* The client's ping: the first one, or the next one once the last was answered.
\* A lost connection keeps the loop at its top.
SendPing ==
    /\ ThreadAt("client", "update") /\ ~stopping["client"]
    /\ ping < MaxPings
    /\ ping = pong
    /\ out' = Sending("client", "tcp", Ping(ping + 1))
    /\ ping' = ping + 1
    /\ Goes("client", IF lost["client"] THEN "update" ELSE "recv")
    /\ UNCHANGED <<queue, sem, sender, hand, run, lost, open, net, pong, stopping, given>>

\* The last ping has not been answered for TCP_PING_MAX_WAIT_SEC.
PingTimesOut ==
    /\ ThreadAt("client", "update") /\ ~stopping["client"]
    /\ ping # pong
    /\ lost' = [lost EXCEPT !["client"] = TRUE]
    /\ UNCHANGED <<queue, sem, sender, hand, run, open, net, out, ping, pong, at, stopping, given>>

NoPing ==
    /\ ThreadAt("client", "update") /\ ~stopping["client"]
    /\ ~lost["client"]
    /\ Goes("client", "recv")
    /\ UNCHANGED <<queue, sem, sender, hand, run, lost, open, net, out, ping, pong, stopping, given>>

\* tcp_get_packet: recv(2) finds a packet of the given type.
Receiving(e) == ThreadAt(e, "recv") /\ (e = "server" => ~stopping[e])
Arrived(e, type) == Receiving(e) /\ ~lost[e] /\ net[e] # <<>> /\ Head(net[e]).type = type
Taken(e) == [net EXCEPT ![e] = Tail(@)]

\* tcp_handle_message: a ping is answered, a pong is noted.
GetPing(e) ==
    /\ Arrived(e, "ping")
    /\ net' = Taken(e)
    /\ out' = Sending(e, "tcp", Pong(Head(net[e]).id))
    /\ Goes(e, LoopTop(e))
    /\ UNCHANGED <<queue, sem, sender, hand, run, lost, open, ping, pong, stopping, given>>

GetPong(e) ==
    /\ Arrived(e, "pong")
    /\ net' = Taken(e)
    /\ pong' = IF Head(net[e]).id > pong THEN Head(net[e]).id ELSE pong
    /\ Goes(e, LoopTop(e))
    /\ UNCHANGED <<queue, sem, sender, hand, run, lost, open, out, ping, stopping, given>>

\* A packet for the user of the connection.
GetPayload(e) ==
    /\ Arrived(e, "payload")
    /\ net' = Taken(e)
    /\ Goes(e, LoopTop(e))
    /\ UNCHANGED <<queue, sem, sender, hand, run, lost, open, out, ping, pong, stopping, given>>

\* recv(2) returns 0 after the last packet of a peer that has closed its socket.
GetEndOfFile(e) ==
    /\ Receiving(e)
    /\ ~lost[e]
    /\ net[e] = <<>>
    /\ ~open[Peer(e)]
    /\ lost' = [lost EXCEPT ![e] = TRUE]
    /\ Goes(e, LoopTop(e))
    /\ UNCHANGED <<queue, sem, sender, hand, run, open, net, out, ping, pong, stopping, given>>

\* recv(2) times out.
GetNothing(e) ==
    /\ Receiving(e)
    /\ lost[e] \/ (net[e] = <<>> /\ open[Peer(e)])
    /\ Goes(e, LoopTop(e))
    /\ UNCHANGED <<queue, sem, sender, hand, run, lost, open, net, out, ping, pong, stopping, given>>

\* A pass ends with chunks of files or of the clipboard that are sent.
Works(e) == ThreadAt(e, LoopTop(e)) /\ UserSends(e, "tcp") /\ UNCHANGED at

-----------------------------------------------------------------------------
(***************************************************************************)
(* The main thread ends the connection, because it was lost or for reasons *)
(* of its own: it stops the TCP thread, which finds that at the top of its *)
(* loop, and calls tcp_destroy_socket_context.                             *)
(***************************************************************************)
Stop(e) ==
    /\ ~stopping[e]
    /\ IsFree(e, "main")
    /\ stopping' = [stopping EXCEPT ![e] = TRUE]
    /\ UNCHANGED <<queue, sem, sender, hand, run, lost, open, net, out, ping, pong, at, given>>

Parks(e) ==
    /\ ThreadAt(e, LoopTop(e))
    /\ stopping[e]
    /\ Goes(e, "parked")
    /\ UNCHANGED <<queue, sem, sender, hand, run, lost, open, net, out, ping, pong, stopping, given>>

\* Faulty: the send thread is not woken.
DestroysQuietly(e) ==
    /\ at[e] = "parked" /\ run[e]
    /\ run' = [run EXCEPT ![e] = FALSE]
    /\ UNCHANGED <<queue, sem, sender, hand, lost, open, net, out, ping, pong, at, stopping, given>>

DestroyBegins(e) ==
    /\ at[e] = "parked" /\ run[e]
    /\ run' = [run EXCEPT ![e] = FALSE]
    /\ sem' = [sem EXCEPT ![e] = @ + 1]
    /\ UNCHANGED <<queue, sender, hand, lost, open, net, out, ping, pong, at, stopping, given>>

\* The send thread is joined.  What is still queued is dropped.
DestroyEnds(e) ==
    /\ ~run[e] /\ open[e]
    /\ sender[e] = "ended"
    /\ open' = [open EXCEPT ![e] = FALSE]
    /\ queue' = [queue EXCEPT ![e] = Create(QueueSize, NoPacket)]
    /\ sem' = [sem EXCEPT ![e] = 0]
    /\ net' = [net EXCEPT ![e] = <<>>]
    /\ UNCHANGED <<sender, hand, run, lost, out, ping, pong, at, stopping, given>>

\* Both ends are closed: create_tcp_socket_context starts anew.
Recreate ==
    /\ \A e \in Ends : ~open[e]
    /\ queue' = [e \in Ends |-> Create(QueueSize, NoPacket)]
    /\ sem' = [e \in Ends |-> 0]
    /\ sender' = [e \in Ends |-> "wait"]
    /\ hand' = [e \in Ends |-> NoPacket]
    /\ run' = [e \in Ends |-> TRUE]
    /\ lost' = [e \in Ends |-> FALSE]
    /\ open' = [e \in Ends |-> TRUE]
    /\ net' = [e \in Ends |-> <<>>]
    /\ out' = [e \in Ends |-> [t \in Senders |-> Idle]]
    /\ ping' = 0
    /\ pong' = 0
    /\ at' = [e \in Ends |-> LoopTop(e)]
    /\ stopping' = [e \in Ends |-> FALSE]
    /\ given' = [e \in Ends |-> 0]

-----------------------------------------------------------------------------
SendThread(e) == Wakes(e) \/ Dequeue(e) \/ Sends(e) \/ SendFails(e)
Producer(e, t) == Enqueue(e, t) \/ Post(e, t)
Receives(e) == GetPing(e) \/ GetPong(e) \/ GetPayload(e) \/ GetEndOfFile(e) \/ GetNothing(e)
Pings == SendPing \/ PingTimesOut \/ NoPing
Destroy(e) == DestroyBegins(e) \/ DestroyEnds(e)

Next ==
    \/ Pings
    \/ \E e \in Ends :
        \/ SendThread(e)
        \/ \E t \in Senders : Producer(e, t)
        \/ MainSends(e) \/ Receives(e) \/ Works(e)
        \/ Stop(e) \/ Parks(e) \/ Destroy(e)
    \/ Recreate

\* The threads run; that a connection ends is only certain once it is lost.
Fairness ==
    /\ WF_vars(Pings)
    /\ \A e \in Ends :
        /\ WF_vars(SendThread(e))
        /\ \A t \in Senders : WF_vars(Producer(e, t))
        /\ WF_vars(Receives(e))
        /\ WF_vars(lost[e] /\ Stop(e))
        /\ WF_vars(Parks(e))
        /\ WF_vars(Destroy(e))

Spec == Init /\ [][Next]_vars /\ Fairness

-----------------------------------------------------------------------------
TypeOK ==
    /\ DOMAIN queue = Ends
    /\ \A e \in Ends : IsQueue(queue[e], Packets \cup {NoPacket}) /\ queue[e].max_items = QueueSize
    /\ sem \in [Ends -> Nat]
    /\ sender \in [Ends -> {"wait", "dequeue", "send", "ended"}]
    /\ hand \in [Ends -> Packets \cup {NoPacket}]
    /\ run \in [Ends -> BOOLEAN]
    /\ lost \in [Ends -> BOOLEAN]
    /\ open \in [Ends -> BOOLEAN]
    /\ net \in [Ends -> Seq(Packets)]
    /\ out \in [Ends -> [Senders -> [packet : Packets \cup {NoPacket}, at : {"idle", "enqueue", "post"}]]]
    /\ ping \in 0 .. MaxPings
    /\ pong \in 0 .. MaxPings
    /\ at \in [Ends -> {"update", "recv", "parked"}]
    /\ stopping \in [Ends -> BOOLEAN]
    /\ given \in [Ends -> Nat]

\* Packets whose post is still to come.
Unposted(e) == Cardinality({t \in Senders : out[e][t].at = "post"})

\* No packet is left behind in the queue while the send thread sleeps: each one
\* has its post, given or still to come, also after the thread met a lost
\* connection and after it found the queue empty.
NoPacketStranded == \A e \in Ends :
    run[e] => sem[e] + Unposted(e) + (IF sender[e] = "dequeue" THEN 1 ELSE 0) >= queue[e].num_items

\* A connection that is being closed, at either end, is closed: no thread is left
\* waiting, neither for room in a queue nor for a post, nor in send(2).
ClosingEnds == \A e \in Ends : stopping[e] ~> ~open[e]

\* The refinement: what is queued, held by the send thread, and on the network.
Underway(e) ==
    IF open[e]
    THEN net[e] \o (IF hand[Peer(e)] = NoPacket THEN <<>> ELSE <<hand[Peer(e)]>>) \o Items(queue[Peer(e)])
    ELSE <<>>

\* Queue, send thread, sockets and the two steps of closing are together the channel
\* that clipboard, files and the connection's own pings rely on.
Chan == INSTANCE Channel WITH
            Packets <- Packets,
            pipe <- [e \in Ends |-> Underway(e)],
            up <- open

ChannelSpec == Chan!Spec
=============================================================================
