------------------------------ MODULE Throttler ------------------------------
(***************************************************************************)
(* whist/network/throttle.c: the senders of one UDP connection share a     *)
(* bucket of coins, one coin per byte.  A sender draws a ticket, waits for *)
(* its turn, waits until the bucket holds enough, takes its coins and      *)
(* passes the turn on.  Another thread changes the bitrate meanwhile,      *)
(* without a lock.                                                         *)
(*                                                                         *)
(* coin_bucket is a size_t: Width is the number of its values, so that a   *)
(* difference below zero wraps around.  The two timers are one flag,       *)
(* expired: the bucket was filled more than coin_bucket_ms ago.            *)
(* Destruction is left to the callers: a connection is destroyed when no   *)
(* thread holds a client lock (ClientLock), so that no sender is inside.   *)
(***************************************************************************)
EXTENDS Integers, FiniteSets

CONSTANTS
    Threads,     \* the threads that send
    Sizes,       \* the sizes of their packets
    PacketMax,   \* udp_packet_max_size()
    Buckets,     \* the values of coin_bucket_max, one for each bitrate
    Starting,    \* the one for STARTING_THROTTLER_BITRATE
    Width,       \* the number of values of a size_t
    MaxTickets,  \* bound on the packets sent
    MaxChanges   \* bound on the changes of the bitrate

\* What the constants have to be; the module that instantiates this one assumes it.
ThrottlerAssumption ==
    /\ PacketMax \in Nat \ {0}
    /\ Sizes \subseteq 1 .. PacketMax
    /\ Starting \in Buckets /\ Buckets \subseteq Nat \ {0}
    /\ Width \in Nat \ {0}
    /\ \A b \in Buckets : b + PacketMax < Width
    /\ MaxTickets \in Nat /\ MaxChanges \in Nat

VARIABLES
    next_queue_id, current_queue_id,
    coin_bucket, coin_bucket_max,
    expired,   \* coin_bucket_last_fill is more than coin_bucket_ms ago
    pc,        \* where each thread is in network_throttler_wait_byte_allocation
    queue_id,  \* its ticket
    bytes,     \* the size of its packet
    setter,    \* where the thread that sets the bitrate is
    changes,   \* how often it has done so
    spent,     \* coins taken since the bucket was filled
    disturbed  \* the bitrate was changed since then

vars == <<next_queue_id, current_queue_id, coin_bucket, coin_bucket_max, expired,
          pc, queue_id, bytes, setter, changes, spent, disturbed>>

Places == {"idle", "queue", "asleep", "bucket", "take", "pass"}

TypeOK ==
    /\ next_queue_id \in 0 .. MaxTickets
    /\ current_queue_id \in 0 .. MaxTickets
    /\ coin_bucket \in 0 .. Width - 1
    /\ coin_bucket_max \in Buckets
    /\ expired \in BOOLEAN
    /\ pc \in [Threads -> Places]
    /\ queue_id \in [Threads -> 0 .. MaxTickets]
    /\ bytes \in [Threads -> Sizes \cup {0}]
    /\ setter \in [at : {"idle", "read", "wrote"}, max : Buckets, read : 0 .. Width - 1]
    /\ changes \in 0 .. MaxChanges
    /\ spent \in Nat
    /\ disturbed \in BOOLEAN

Init ==
    /\ next_queue_id = 0 /\ current_queue_id = 0
    /\ coin_bucket = Starting /\ coin_bucket_max = Starting
    /\ expired = FALSE
    /\ pc = [t \in Threads |-> "idle"]
    /\ queue_id = [t \in Threads |-> 0]
    /\ bytes = [t \in Threads |-> 0]
    /\ setter = [at |-> "idle", max |-> Starting, read |-> 0]
    /\ changes = 0
    /\ spent = 0
    /\ disturbed = FALSE

-----------------------------------------------------------------------------
(* Sending. *)

\* A thread calls, with a bitrate above zero, and draws its ticket.
DrawTicket(t) ==
    /\ pc[t] = "idle"
    /\ next_queue_id < MaxTickets
    /\ \E n \in Sizes : bytes' = [bytes EXCEPT ![t] = n]
    /\ queue_id' = [queue_id EXCEPT ![t] = next_queue_id]
    /\ next_queue_id' = next_queue_id + 1
    /\ pc' = [pc EXCEPT ![t] = "queue"]
    /\ UNCHANGED <<current_queue_id, coin_bucket, coin_bucket_max, expired,
                   setter, changes, spent, disturbed>>

\* Faulty: the comparison is off by one.
AllowsTheNext(t) == queue_id[t] > current_queue_id + 1

MustWait(t) == queue_id[t] > current_queue_id

\* Under queue_lock: the thread goes on, or sleeps on the condition.
AwaitTurn(t) ==
    /\ pc[t] = "queue"
    /\ pc' = [pc EXCEPT ![t] = IF MustWait(t) THEN "asleep" ELSE "bucket"]
    /\ UNCHANGED <<next_queue_id, current_queue_id, coin_bucket, coin_bucket_max, expired,
                   queue_id, bytes, setter, changes, spent, disturbed>>

\* Faulty: what is left is always kept.
KeepsAll == (coin_bucket + coin_bucket_max) % Width

\* What a new bucket holds: what is left of a nearly empty one is kept.
Filled ==
    IF coin_bucket < PacketMax THEN (coin_bucket + coin_bucket_max) % Width
                               ELSE coin_bucket_max

\* One turn of the loop: the bucket is filled if it is time, otherwise the thread may have
\* slept; the loop ends when there is enough.
Look(t) ==
    /\ pc[t] = "bucket"
    /\ expired \/ bytes[t] <= coin_bucket
    /\ coin_bucket' = IF expired THEN Filled ELSE coin_bucket
    /\ spent' = IF expired THEN 0 ELSE spent
    /\ disturbed' = (disturbed /\ ~expired)
    /\ expired' = FALSE
    /\ pc' = [pc EXCEPT ![t] = IF bytes[t] <= coin_bucket' THEN "take" ELSE "bucket"]
    /\ UNCHANGED <<next_queue_id, current_queue_id, coin_bucket_max, queue_id, bytes,
                   setter, changes>>

\* The coins are taken, also if the other thread has taken them away since.
Take(t) ==
    /\ pc[t] = "take"
    /\ coin_bucket' = (coin_bucket - bytes[t]) % Width
    /\ spent' = spent + bytes[t]
    /\ pc' = [pc EXCEPT ![t] = "pass"]
    /\ UNCHANGED <<next_queue_id, current_queue_id, coin_bucket_max, expired, queue_id, bytes,
                   setter, changes, disturbed>>

\* Faulty: a signal instead of a broadcast.
WakesOne ==
    LET sleepers == {u \in Threads : pc[u] = "asleep"}
    IN  IF sleepers = {} THEN pc ELSE [pc EXCEPT ![CHOOSE u \in sleepers : TRUE] = "queue"]

Woken == [u \in Threads |-> IF pc[u] = "asleep" THEN "queue" ELSE pc[u]]

\* Under queue_lock: the turn goes to the next ticket, and all that sleep look again.
PassTurn(t) ==
    /\ pc[t] = "pass"
    /\ current_queue_id' = current_queue_id + 1
    /\ pc' = [Woken EXCEPT ![t] = "idle"]
    /\ bytes' = [bytes EXCEPT ![t] = 0]
    /\ queue_id' = [queue_id EXCEPT ![t] = 0]
    /\ UNCHANGED <<next_queue_id, coin_bucket, coin_bucket_max, expired,
                   setter, changes, spent, disturbed>>

\* coin_bucket_ms pass.
Expire ==
    /\ ~expired
    /\ expired' = TRUE
    /\ UNCHANGED <<next_queue_id, current_queue_id, coin_bucket, coin_bucket_max, pc, queue_id,
                   bytes, setter, changes, spent, disturbed>>

-----------------------------------------------------------------------------
(* network_throttler_set_burst_bitrate, by a thread that takes no lock: it *)
(* reads the bucket, writes it, and then writes the maximum.               *)

SetReads ==
    /\ setter.at = "idle"
    /\ changes < MaxChanges
    /\ changes' = changes + 1
    /\ \E m \in Buckets : setter' = [at |-> "read", max |-> m, read |-> coin_bucket]
    /\ UNCHANGED <<next_queue_id, current_queue_id, coin_bucket, coin_bucket_max, expired, pc,
                   queue_id, bytes, spent, disturbed>>

\* Faulty: the difference keeps its sign.
AdjustedBySign == setter.read + setter.max - coin_bucket_max

\* The difference is taken without a sign, and its max with 0 changes nothing.
Adjusted == (setter.read + setter.max - coin_bucket_max) % Width

\* The write of the other thread may come right after this one and hide it.
SetWritesBucket ==
    /\ setter.at = "read"
    /\ coin_bucket' \in {Adjusted} \cup (IF \E t \in Threads : pc[t] \in {"bucket", "take"}
                                         THEN {coin_bucket} ELSE {})
    /\ setter' = [setter EXCEPT !.at = "wrote"]
    /\ UNCHANGED <<next_queue_id, current_queue_id, coin_bucket_max, expired, pc, queue_id, bytes,
                   changes, spent, disturbed>>

SetWritesMax ==
    /\ setter.at = "wrote"
    /\ coin_bucket_max' = setter.max
    /\ disturbed' = TRUE
    /\ setter' = [setter EXCEPT !.at = "idle", !.read = 0]
    /\ UNCHANGED <<next_queue_id, current_queue_id, coin_bucket, expired, pc, queue_id, bytes,
                   changes, spent>>

Send(t) == AwaitTurn(t) \/ Look(t) \/ Take(t) \/ PassTurn(t)

Next ==
    \/ \E t \in Threads : DrawTicket(t) \/ Send(t)
    \/ Expire
    \/ SetReads \/ SetWritesBucket \/ SetWritesMax

\* A thread that has called goes on, and time passes.
Fairness == (\A t \in Threads : WF_vars(Send(t))) /\ WF_vars(Expire)

Spec == Init /\ [][Next]_vars /\ Fairness
-----------------------------------------------------------------------------
(* Properties. *)

Served(t) == pc[t] \in {"bucket", "take", "pass"}

\* The bucket is used without a lock (throttle.c:142-157): it has one user at a time, and
\* that is the thread whose ticket is the next (the comment in throttle.c:135).
OneAtTheBucket ==
    \A t \in Threads : Served(t) =>
        /\ queue_id[t] = current_queue_id
        /\ \A u \in Threads : Served(u) => u = t

\* Once the bucket was filled after the last change of the bitrate, what one burst may
\* send is bounded by the bucket and less than one packet, although a change may have
\* wrapped the bucket around (throttle.c:108) or lost a subtraction.
BurstIsBounded ==
    ~disturbed /\ setter.at = "idle" => spent + coin_bucket < coin_bucket_max + PacketMax

\* One thread at a time uses the bucket, in the order of the tickets, and what it lets through
\* between two fillings is bounded (throttle.c:108, 130 and 157).
ThrottlingIsSound == OneAtTheBucket /\ BurstIsBounded

\* A thread that has drawn its ticket sends (throttle.c:128-165): no wake-up is lost, and
\* the bucket gets full enough, also for a bitrate that gives less than a packet at a time.
EveryTicketIsServed ==
    \A t \in Threads : pc[t] \in {"queue", "asleep", "bucket"} ~> pc[t] = "idle"

=============================================================================
