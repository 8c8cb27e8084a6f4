------------------------------- MODULE Session --------------------------------
(***************************************************************************)
(* How a session comes about, is lost and comes back:                      *)
(*                                                                         *)
(*   client/whist_client.cpp, client/network.cpp   attempts and retries    *)
(*   server/main.c, server/network.c               the server's main loop  *)
(*   whist/network/udp.cpp   attempt, confirmation and the pings           *)
(*   whist/network/tcp.c, network.c   connect, accept and key handshake    *)
(*                                                                         *)
(* A tick is 500 ms.  Packets take less than one, so that what a side can  *)
(* do it does before the next tick, in any order with what the other side  *)
(* does.  During an outage nothing gets through; what UDP has on the wire  *)
(* is lost, what TCP has is sent again.  An outage of no tick at all is a  *)
(* burst of lost packets.                                                  *)
(***************************************************************************)
EXTENDS Integers

CONSTANTS
    UdpWait, TcpWait,              \* the client's UDP_ and TCP_CONNECTION_WAIT
    ServerUdpWait, ServerTcpWait,  \* the server's
    ReplyWait, InitWait,           \* the two TCP_CONNECTION_WAITs, taken for seconds
    RetryPause,                    \* the pause between two attempts
    MaxAttempts,                   \* MAX_INIT_CONNECTION_ATTEMPTS
    PongWait,                      \* UDP_PONG_TIMEOUT_SEC
    PingWait,                      \* TCP_PING_MAX_WAIT_SEC, which only the client heeds
    TimeToExit,                    \* begin_time_to_exit, or -1
    MaxOutages, OutageTicks        \* bounds: outages, and their ticks together

Sockets == 1 .. 4   \* names for the client's sockets; 0 for none

\* What the constants have to be; the module that instantiates this one assumes it.
SessionAssumption ==
    /\ {UdpWait, TcpWait, ServerUdpWait, ServerTcpWait, ReplyWait, InitWait, RetryPause, PongWait, PingWait} \subseteq Nat \ {0}
    /\ {MaxAttempts, MaxOutages, OutageTicks} \subseteq Nat
    /\ TimeToExit \in Nat \cup {-1}

VARIABLES
    client,     \* where it is (at), ticks spent there (t), attempts that failed (tries),
                \* its sockets (sock), ticks since the last pong (pong)
    server,     \* the same, the client sockets it is connected to over UDP (peer) and
                \* TCP (conn), and the ticks since it began to look for a client (idle)
    wire,       \* attempts and confirmations by socket, an init reply that is under way
    outage,     \* whether there is one (now), the ticks of all (t) and how many began (n)
    exiting,    \* client_exiting
    overslept   \* the client has waited for an init reply to the end of ReplyWait

vars == <<client, server, wire, outage, exiting, overslept>>

Init ==
    /\ client = [at |-> "idle", t |-> 0, tries |-> 0, sock |-> 0, pong |-> 0]
    /\ server = [at |-> "udp", t |-> 0, peer |-> 0, conn |-> 0, pong |-> 0, idle |-> 0]
    /\ wire = [attempt |-> 0, confirm |-> 0, reply |-> 0]
    /\ outage = [now |-> FALSE, t |-> 0, n |-> 0]
    /\ exiting = FALSE
    /\ overslept = FALSE

Works == ~outage.now

\* The two ends of one TCP connection.
Linked == client.sock # 0 /\ client.sock = server.conn

ClientGoes(at) == client' = [client EXCEPT !.at = at, !.t = 0, !.pong = 0]
ServerGoes(at) == server' = [server EXCEPT !.at = at, !.t = 0, !.pong = 0]

-----------------------------------------------------------------------------
(***************************************************************************)
(* The client: whist_client_main, initialize_connection, connect_to_server *)
(***************************************************************************)
FreshSocket == CHOOSE s \in Sockets : s \notin {server.peer, server.conn, wire.attempt, wire.confirm, wire.reply}

\* Both contexts are destroyed, and the next attempt waits.
AttemptFails == client' = [client EXCEPT !.at = "pause", !.t = 0, !.tries = @ + 1, !.sock = 0]

StartAttempt ==
    /\ client.at = "idle"
    /\ client.tries < MaxAttempts /\ ~exiting
    /\ client' = [client EXCEPT !.at = "udp", !.t = 0, !.sock = FreshSocket]
    /\ wire' = [wire EXCEPT !.attempt = IF Works THEN FreshSocket ELSE 0]
    /\ UNCHANGED <<server, exiting, overslept>>

GiveUp ==
    /\ client.at = "idle"
    /\ client.tries = MaxAttempts \/ exiting
    /\ ClientGoes("gone")
    /\ UNCHANGED <<server, wire, exiting, overslept>>

GetConfirmation ==
    /\ client.at = "udp" /\ wire.confirm = client.sock
    /\ ClientGoes("tcp")
    /\ wire' = [wire EXCEPT !.confirm = 0]
    /\ UNCHANGED <<server, exiting, overslept>>

\* A refused connection is tried again until TcpWait is over; here both ends see
\* the connection, connect() and select() return.
Connect ==
    /\ client.at = "tcp" /\ server.at = "tcp" /\ Works
    /\ ClientGoes("key")
    /\ server' = [server EXCEPT !.at = "key", !.t = 0, !.conn = client.sock]
    /\ UNCHANGED <<wire, exiting, overslept>>

\* handshake_private_key, after which CMESSAGE_INIT is sent.
ClientKey ==
    /\ client.at = "key" /\ Linked /\ Works
    /\ ClientGoes("init")
    /\ UNCHANGED <<server, wire, exiting, overslept>>

GetReply ==
    /\ client.at = "init" /\ wire.reply = client.sock /\ Works
    /\ ClientGoes("up")
    /\ wire' = [wire EXCEPT !.reply = 0]
    /\ UNCHANGED <<server, exiting, overslept>>

\* No pong comes before the reply: the server reads the ping after CMESSAGE_INIT.  Once
\* tcp_update misses it, or recv tells of the end, connection_lost is set for good.
LosesHearing ==
    /\ client.at = "init"
    /\ client.t >= PingWait \/ (Works /\ ~Linked /\ wire.reply # client.sock)
    /\ client' = [client EXCEPT !.at = "deaf"]
    /\ UNCHANGED <<server, wire, exiting, overslept>>

ClientTimesOut ==
    /\ \/ client.at = "udp" /\ client.t = UdpWait
       \/ client.at = "tcp" /\ client.t = TcpWait
       \/ client.at = "key" /\ (client.t = TcpWait \/ (Works /\ ~Linked))
    /\ AttemptFails
    /\ UNCHANGED <<server, wire, exiting, overslept>>

\* The loop does not look at what socket_update returns, and goes on when the reply is lost.
ReplyTimesOut ==
    /\ client.at = "deaf" /\ client.t = ReplyWait
    /\ AttemptFails
    /\ overslept' = TRUE
    /\ UNCHANGED <<server, wire, exiting>>

PauseEnds ==
    /\ client.at = "pause" /\ client.t = RetryPause
    /\ ClientGoes("idle")
    /\ UNCHANGED <<server, wire, exiting, overslept>>

\* udp_update_ping of the UDP thread or tcp_update of the TCP thread clears connected.
ClientLoses ==
    /\ client.at = "up"
    /\ client.pong = PongWait \/ (Works /\ ~Linked)
    /\ ClientGoes("closing")
    /\ UNCHANGED <<server, wire, exiting, overslept>>

\* run_main_loop ends, and QUIT is sent over UDP.
ClientQuits ==
    /\ client.at = "up" /\ exiting
    /\ ClientGoes("closing")
    /\ IF Works /\ server.at = "up" /\ server.peer = client.sock THEN ServerGoes("closing") ELSE UNCHANGED server
    /\ UNCHANGED <<wire, exiting, overslept>>

\* The next round of the main loop calls initialize_connection anew.
NextRound == [at |-> "idle", t |-> 0, tries |-> 0, sock |-> 0, pong |-> 0]

\* post_connection_cleanup.
ClientCloses ==
    /\ client.at = "closing"
    /\ client' = NextRound
    /\ UNCHANGED <<server, wire, exiting, overslept>>

-----------------------------------------------------------------------------
(***************************************************************************)
(* The server: main, connect_client, client_connect_socket.                *)
(***************************************************************************)
\* What is in the send buffer when the socket is closed may still arrive.
DropsReply == \E r \in {0, wire.reply} : wire' = [wire EXCEPT !.reply = r]

\* The main loop begins anew, unless it has looked for a client for too long.
LooksAgain(idle) ==
    server' = [at |-> IF TimeToExit # -1 /\ idle > TimeToExit THEN "gone" ELSE "udp",
               t |-> 0, peer |-> 0, conn |-> 0, pong |-> 0, idle |-> idle]

TakeAttempt ==
    /\ server.at = "udp" /\ wire.attempt # 0
    /\ server' = [server EXCEPT !.at = "tcp", !.t = 0, !.peer = wire.attempt]
    /\ wire' = [wire EXCEPT !.attempt = 0, !.confirm = wire.attempt]
    /\ UNCHANGED <<client, exiting, overslept>>

ServerKey ==
    /\ server.at = "key" /\ Linked /\ Works
    /\ ServerGoes("init")
    /\ UNCHANGED <<client, wire, exiting, overslept>>

\* The reply is sent and the client activated.
GetInit ==
    /\ server.at = "init" /\ client.at \in {"init", "deaf"} /\ Linked /\ Works
    /\ ServerGoes("up")
    /\ wire' = [wire EXCEPT !.reply = server.conn]
    /\ UNCHANGED <<client, exiting, overslept>>

\* Faulty: as at the client, a lost connection does not end the wait.
WaitsOnTheDead ==
    \/ server.at = "udp" /\ server.t = ServerUdpWait
    \/ server.at = "tcp" /\ server.t = ServerTcpWait
    \/ server.at = "key" /\ (server.t = ServerTcpWait \/ (Works /\ ~Linked))

\* It sends no pings: the wait for CMESSAGE_INIT ends when the client's socket is closed.
HandshakeFails ==
    \/ server.at = "udp" /\ server.t = ServerUdpWait
    \/ server.at = "tcp" /\ server.t = ServerTcpWait
    \/ server.at = "key" /\ (server.t = ServerTcpWait \/ (Works /\ ~Linked))
    \/ server.at = "init" /\ (server.t = InitWait \/ (Works /\ ~Linked))

ServerTimesOut ==
    /\ HandshakeFails
    /\ LooksAgain(server.idle)
    /\ UNCHANGED <<client, wire, exiting, overslept>>

\* start_deactivating_client.
ServerLoses ==
    /\ server.at = "up"
    /\ server.pong = PongWait \/ (Works /\ ~Linked)
    /\ ServerGoes("closing")
    /\ UNCHANGED <<client, wire, exiting, overslept>>

\* deactivate_client; connection_attempt_timer starts again.
ServerCloses ==
    /\ server.at = "closing"
    /\ LooksAgain(0)
    /\ DropsReply
    /\ UNCHANGED <<client, exiting, overslept>>

-----------------------------------------------------------------------------
ClientStep ==
    \/ StartAttempt \/ GiveUp \/ GetConfirmation \/ Connect \/ ClientKey \/ GetReply
    \/ LosesHearing \/ ClientTimesOut \/ ReplyTimesOut \/ PauseEnds \/ ClientLoses \/ ClientQuits

ServerStep == TakeAttempt \/ ServerKey \/ GetInit \/ ServerTimesOut \/ ServerLoses

\* Joining threads and waiting for client locks takes up to a tick.
Close == ClientCloses \/ ServerCloses

UserExits ==
    /\ client.at # "gone" /\ ~exiting
    /\ exiting' = TRUE
    /\ UNCHANGED <<client, server, wire, outage, overslept>>

OutageBegins ==
    /\ Works /\ outage.n < MaxOutages
    /\ outage' = [outage EXCEPT !.now = TRUE, !.n = @ + 1]
    /\ wire' = [wire EXCEPT !.attempt = 0, !.confirm = 0]
    /\ UNCHANGED <<client, server, exiting, overslept>>

\* The client repeats its attempts every 5 ms.
Attempting == IF client.at = "udp" THEN client.sock ELSE 0

OutageEnds ==
    /\ outage.now
    /\ outage' = [outage EXCEPT !.now = FALSE]
    /\ wire' = [wire EXCEPT !.attempt = Attempting]
    /\ UNCHANGED <<client, server, exiting, overslept>>

Pongs == Works /\ client.at = "up" /\ server.at = "up" /\ server.peer = client.sock

\* Faulty: a pong does not restart last_pong_timer.
CountsOn(pong) == pong + 1

Waited(pong) == IF Pongs THEN 0 ELSE pong + 1

Tick ==
    /\ ~ENABLED (ClientStep \/ ServerStep)
    /\ client.at = "closing" => client.t < 1
    /\ server.at = "closing" => server.t < 1
    /\ outage.now => outage.t < OutageTicks
    /\ client' = [client EXCEPT !.t = IF client.at \in {"up", "gone"} THEN 0 ELSE @ + 1,
                                !.pong = IF client.at = "up" THEN Waited(@) ELSE 0]
    /\ server' = [server EXCEPT !.t = IF server.at \in {"up", "gone"} THEN 0 ELSE @ + 1,
                                !.pong = IF server.at = "up" THEN Waited(@) ELSE 0,
                                !.idle = IF server.at \in {"up", "gone"} \/ @ > TimeToExit THEN @ ELSE @ + 1]
    /\ wire' = [wire EXCEPT !.attempt = IF Works THEN Attempting ELSE 0, !.confirm = 0]
    /\ outage' = [outage EXCEPT !.t = IF outage.now THEN @ + 1 ELSE @]
    /\ UNCHANGED <<exiting, overslept>>

Next ==
    \/ (ClientStep \/ ServerStep \/ Close) /\ UNCHANGED outage
    \/ UserExits \/ OutageBegins \/ OutageEnds \/ Tick

Spec == Init /\ [][Next]_vars /\ WF_vars(Next)

-----------------------------------------------------------------------------
\* Client and server are up and joined by both of their connections.
Together == client.at = "up" /\ server.at = "up" /\ Linked /\ server.peer = client.sock

\* MaxAttempts attempts outlast an outage and the time for which the server holds on to a
\* dead session or a failed handshake.  (But see ReplyTimesOut: the server may have exited
\* when the client is back.)
Survives == client.at = "gone" => exiting \/ overslept
==============================================================================
