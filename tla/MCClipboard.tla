----------------------------- MODULE MCClipboard -----------------------------
(***************************************************************************)
(* The threads of the clipboard and those that use the logger.  They have  *)
(* no state in common: component says which of them a behaviour is about,  *)
(* and the states of the run are those of the two, added up.               *)
(***************************************************************************)
EXTENDS ClipboardSync, MCLogger

VARIABLE component

ASSUME ComponentAssumptions == Log!LoggerAssumption

loggerVars == <<logger_freelist, logger_queue, buf, logger_thread_active, writer, logger,
                flusher, log_main, printed, unflushed, log_queued, lost, outstanding>>
mcVars == <<component, vars, loggerVars>>

MCInit ==
    /\ component \in {"clipboard", "logger"}
    /\ Init /\ Log!Init

MCNext ==
    \/ component = "clipboard" /\ Next /\ UNCHANGED <<component, loggerVars>>
    \/ component = "logger" /\ Log!Next /\ UNCHANGED <<component, vars>>
    \* Only the logger may stop: nothing more is logged.
    \/ component = "logger" /\ UNCHANGED mcVars

\* The fairness of each component, for the behaviours that are about it
ClipboardFairness ==
    /\ \A p \in Peers : /\ WF_vars(component = "clipboard" /\ Pull(p))
                         /\ SF_vars(component = "clipboard" /\ Receive(p))
    /\ \A p \in Peers, t \in Threads : WF_vars(component = "clipboard" /\ ThreadSteps(p, t))
    /\ WF_vars(component = "clipboard" /\ Reconnect)

LoggerFairness ==
    /\ \A w \in Loggers : WF_loggerVars(component = "logger" /\ Log!AddTail(w))
    /\ WF_loggerVars(component = "logger" /\ Log!LoggerThread)
    /\ WF_loggerVars(component = "logger" /\ Log!CrashHandler)
    /\ WF_loggerVars(component = "logger" /\ Log!Destroy)

MCSpec == MCInit /\ [][MCNext]_mcVars /\ ClipboardFairness /\ LoggerFairness
=============================================================================
