----------------------------- MODULE MCTransfer -----------------------------
(***************************************************************************)
(* Three things that are sent: the cursor images that video frames carry,  *)
(* the files that are transferred over TCP, and the packets that pass the  *)
(* throttler on their way to UDP.  They have no state in common: component *)
(* says which of them a behaviour is about, and the states of the run are  *)
(* those of the three, added up.                                           *)
(***************************************************************************)
EXTENDS CursorCache

CONSTANTS
    Window, MaxFiles, MaxPieces, MaxReconnects,                                \* FileTransfer
    Threads, Sizes, PacketMax, Buckets, Starting, Width, MaxTickets, MaxChanges  \* Throttler

VARIABLES
    component,
    files, wrecked, next, adding, dropped, groups, wire, linked, writing, uris, written, ready,
    size, unread, unwritten, drops, reconnects, first,
    next_queue_id, current_queue_id, coin_bucket, coin_bucket_max, expired, pc, queue_id, bytes,
    setter, changes, spent, disturbed

Transfer == INSTANCE FileTransfer
Throttle == INSTANCE Throttler

ASSUME ComponentAssumptions == Transfer!FileAssumption /\ Throttle!ThrottlerAssumption

fileVars == <<files, wrecked, next, adding, dropped, groups, wire, linked, writing, uris,
              written, ready, size, unread, unwritten, drops, reconnects, first>>
throttlerVars == <<next_queue_id, current_queue_id, coin_bucket, coin_bucket_max, expired, pc,
                   queue_id, bytes, setter, changes, spent, disturbed>>
mcVars == <<component, vars, fileVars, throttlerVars>>

MCInit ==
    /\ component \in {"cursor", "files", "throttler"}
    /\ Init /\ Transfer!Init /\ Throttle!Init

MCNext ==
    \/ component = "cursor" /\ Next
       /\ UNCHANGED <<component, fileVars, throttlerVars>>
    \/ component = "files" /\ Transfer!Next
       /\ UNCHANGED <<component, vars, throttlerVars>>
    \/ component = "throttler" /\ Throttle!Next
       /\ UNCHANGED <<component, vars, fileVars>>

\* The fairness of each component, for the behaviours that are about it
MCFairness ==
    /\ WF_fileVars(component = "files" /\ Transfer!AddTail)
    /\ WF_fileVars(component = "files" /\ Transfer!ClientLoop)
    /\ WF_fileVars(component = "files" /\ Transfer!ServerReceives)
    /\ \A t \in Threads : WF_throttlerVars(component = "throttler" /\ Throttle!Send(t))
    /\ WF_throttlerVars(component = "throttler" /\ Throttle!Expire)

MCSpec == MCInit /\ [][MCNext]_mcVars /\ MCFairness
-----------------------------------------------------------------------------
\* A file that is marked ready was written whole: every chunk that the client read, once and
\* in order, across markers, failures to open and disconnections
\* (file_synchronizer.c:287-600).
FilesArriveWhole == Transfer!FilesArriveWhole

\* Drops end well: a group is handed over with all of its files, and no file is forgotten
\* (file_synchronizer.c:287-600).
DropsSettle == Transfer!DropsSettle

\* One thread at a time uses the bucket, in the order of the tickets, and what it lets through
\* between two fillings is bounded (throttle.c:108, 130 and 157).
ThrottlingIsSound == Throttle!ThrottlingIsSound

\* Every sender that drew a ticket gets its coins (throttle.c:128-165).
EveryTicketIsServed == Throttle!EveryTicketIsServed
=============================================================================
