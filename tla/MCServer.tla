------------------------------ MODULE MCServer ------------------------------
(***************************************************************************)
(* One instance each of the two sides of a client's stay at the server:    *)
(* the client lock, with the threads that share the client, and the        *)
(* session, with its handshakes, timeouts and retries.  They are modelled  *)
(* at different scales and have no state in common: component says which   *)
(* of them a behaviour is about, and the states of the run are those of    *)
(* the two, added up.                                                      *)
(***************************************************************************)
EXTENDS ClientLock, Integers

CONSTANTS
    UdpWait, TcpWait, ServerUdpWait, ServerTcpWait, ReplyWait, InitWait, RetryPause,
    MaxAttempts, PongWait, PingWait, TimeToExit, MaxOutages, OutageTicks

VARIABLES component, client, server, wire, outage, user_exits, overslept

Connection == INSTANCE Session WITH exiting <- user_exits

ASSUME ComponentAssumptions == ClientAssumption /\ Connection!SessionAssumption

sessionVars == <<client, server, wire, outage, user_exits, overslept>>
mcVars == <<component, vars, sessionVars>>

MCInit == component \in {"client", "session"} /\ Init /\ Connection!Init

MCNext ==
    \/ component = "client" /\ Next
       /\ UNCHANGED <<component, sessionVars>>
    \/ component = "session" /\ Connection!Next
       /\ UNCHANGED <<component, vars>>
    \* Only the session may stop: client or server are gone.
    \/ component = "session" /\ UNCHANGED mcVars

\* The fairness of each component, for the behaviours that are about it
MCFairness ==
    /\ \A t \in Threads : WF_vars(component = "client" /\ InRWLock(t))
    /\ \A t \in Lockers \cup Triers :
           /\ WF_vars(component = "client" /\ Lock(t))
           /\ WF_vars(component = "client" /\ Granted(t))
    /\ \A t \in Lockers : WF_vars(component = "client" /\ Renew(t))
    /\ \A t \in Visitors : WF_vars(component = "client" /\ VisitDone(t))
    /\ WF_vars(component = "client" /\ VideoStep)
    /\ WF_vars(component = "client" /\ SendStep)
    /\ WF_vars(component = "client" /\ MainStep)
    /\ SF_vars(component = "client" /\ StartDeactivating)
    /\ WF_sessionVars(component = "session" /\ Connection!Next)

MCSpec == MCInit /\ [][MCNext]_mcVars /\ MCFairness
-----------------------------------------------------------------------------
\* A client that is marked is deactivated, and a server told to exit ends (client.c:141,
\* main.c:628), whatever the other threads are doing and wait for.
ShutdownEnds == DeactivationEnds /\ ExitEnds

\* After the last outage there is a session again, for good: none of them ends the client
\* (whist_client.cpp:189, client/network.cpp:60-140).
SessionIsKept ==
    <>[](component = "session" =>
             Connection!Together \/ (client.at = "gone" /\ Connection!Survives))
=============================================================================
