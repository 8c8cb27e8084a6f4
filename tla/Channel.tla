------------------------------- MODULE Channel -------------------------------
(***************************************************************************)
(* What the users of the TCP connection rely on: a packet that is accepted *)
(* arrives, once and in the order in which the packets were accepted; what *)
(* is under way when an end closes may be lost, but only from the rear.    *)
(***************************************************************************)
EXTENDS Integers, Sequences

CONSTANTS Ends, Packets

VARIABLES
    pipe,   \* per end: accepted packets on their way to it
    up      \* per end: whether it is open

chanVars == <<pipe, up>>

Peer(e) == CHOOSE p \in Ends : p # e

Init ==
    /\ pipe = [e \in Ends |-> <<>>]
    /\ up = [e \in Ends |-> TRUE]

\* A packet sent to an end that has closed disappears.
Send(e, packet) ==
    /\ up[e]
    /\ pipe' = IF up[Peer(e)] THEN [pipe EXCEPT ![Peer(e)] = Append(@, packet)] ELSE pipe
    /\ UNCHANGED up

Receive(e) ==
    /\ up[e]
    /\ pipe[e] # <<>>
    /\ pipe' = [pipe EXCEPT ![e] = Tail(@)]
    /\ UNCHANGED up

\* An end closes: what it has not read is lost, and a rear part of what it has sent.
Close(e) ==
    /\ up[e]
    /\ up' = [up EXCEPT ![e] = FALSE]
    /\ \E n \in 0 .. Len(pipe[Peer(e)]) :
          pipe' = [pipe EXCEPT ![e] = <<>>, ![Peer(e)] = SubSeq(@, 1, n)]

Reopen ==
    /\ \A e \in Ends : ~up[e]
    /\ up' = [e \in Ends |-> TRUE]
    /\ pipe' = [e \in Ends |-> <<>>]

Next ==
    \/ \E e \in Ends : Receive(e) \/ Close(e) \/ \E packet \in Packets : Send(e, packet)
    \/ Reopen

Spec == Init /\ [][Next]_chanVars
=============================================================================
