----------------------------- MODULE MCThreads ------------------------------
(***************************************************************************)
(* One instance each of two things that threads share: the readers-writer  *)
(* lock, and the network settings that the congestion control of the UDP   *)
(* thread and the main thread of the client write (module                  *)
(* MCCongestionControl).  They have no state in common: component says     *)
(* which of them a behaviour is about, and the states of the run are those *)
(* of the two, added up.                                                   *)
(***************************************************************************)
EXTENDS RWLock, MCCongestionControl

ASSUME ComponentAssumptions == CongestionAssumptions

mcVars == <<component, vars, settingsVars>>

MCInit ==
    /\ Init
    /\ \/ CongestionInit
       \* one window is enough for a behaviour about something else
       \/ component = "rwlock" /\ Sending!Init
          /\ screen = CHOOSE s \in Screens : TRUE

MCNext ==
    \/ component = "rwlock" /\ Next /\ UNCHANGED <<component, settingsVars>>
    \/ CongestionNext /\ UNCHANGED <<component, vars>>
    \* Only the lock must never stop: the number of new rates is bounded.
    \/ component # "rwlock" /\ UNCHANGED mcVars

\* The fairness of the lock, for the behaviours that are about it
RWLockFairness ==
    \A t \in Threads :
        /\ WF_vars(component = "rwlock" /\ Continue(t))
        /\ WF_vars(component = "rwlock" /\ ReadUnlock(t))
        /\ WF_vars(component = "rwlock" /\ WriteUnlock(t))

MCSpec == MCInit /\ [][MCNext]_mcVars /\ RWLockFairness /\ CongestionFairness
=============================================================================
