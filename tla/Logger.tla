-------------------------------- MODULE Logger --------------------------------
(***************************************************************************)
(* whist/logging/logging.c: threads put their lines into a fixed set of    *)
(* items that go around between a free list and a queue; the logger thread *)
(* prints them; when no item is free a writer takes the oldest one from    *)
(* the queue and notes the overflow; a crash handler flushes the queue,    *)
(* after a second without the logger thread; and the logger is destroyed.  *)
(*                                                                         *)
(* A step is a critical section of logger_queue_mutex or what is done      *)
(* between two.  A line is a thread and a number.  The order of the free   *)
(* list is left out.  The logger is destroyed when the writers have ended  *)
(* and no crash is being handled, as the programs' main functions do.      *)
(***************************************************************************)
EXTENDS Integers, FiniteSets, Sequences

CONSTANTS
    Writers,   \* the threads that log
    MaxLines,  \* how many lines each of them logs
    Items      \* the items of logger_queue_items

\* What the constants have to be; the module that instantiates this one assumes it.
LoggerAssumption ==
    /\ MaxLines \in Nat /\ IsFiniteSet(Items) /\ Cardinality(Items) > 1
    /\ <<>> \notin Items

None == <<>>

VARIABLES
    logger_freelist, logger_queue,
    buf,                   \* the line in each item, and whether it notes an overflow
    logger_thread_active,
    writer,                \* each thread: where it is, its line number, its item
    logger,                \* the logger thread: where it is, its item, whether it will flush
    flusher,               \* the crash handler in flush_logs
    main,                  \* the thread that destroys the logger
    printed,               \* lines put out, by whom, with their place in the queue
    unflushed,             \* some of them are still in the buffer of stdout
    queued,                \* the lines, in the order in which they were queued
    lost,                  \* lines overwritten by others
    outstanding            \* the lines in the queue when the crash handler began

vars == <<logger_freelist, logger_queue, buf, logger_thread_active, writer, logger, flusher,
          main, printed, unflushed, queued, lost, outstanding>>

Lines == Writers \X (1 .. MaxLines)
Content == [line : Lines, overflow : BOOLEAN]

TypeOK ==
    /\ logger_freelist \subseteq Items
    /\ logger_queue \in Seq(Items)
    /\ buf \in [Items -> Content \cup {None}]
    /\ logger_thread_active \in BOOLEAN
    /\ writer \in [Writers -> [at : {"idle", "write"}, n : 0 .. MaxLines,
                               item : Items \cup {None}, overflow : BOOLEAN]]
    /\ logger \in [at : {"look", "asleep", "print", "return", "ended"},
                   item : Items \cup {None}, flush : BOOLEAN]
    /\ flusher \in {"idle", "poll", "drain", "done"}
    /\ main \in {"run", "join", "flush", "destroyed"}
    /\ unflushed \in BOOLEAN
    /\ lost \subseteq Lines /\ outstanding \subseteq Lines

Init ==
    /\ logger_freelist = Items /\ logger_queue = <<>>
    /\ buf = [i \in Items |-> None]
    /\ logger_thread_active = TRUE
    /\ writer = [w \in Writers |-> [at |-> "idle", n |-> 0, item |-> None, overflow |-> FALSE]]
    /\ logger = [at |-> "look", item |-> None, flush |-> FALSE]
    /\ flusher = "idle" /\ main = "run"
    /\ printed = <<>> /\ unflushed = FALSE
    /\ queued = <<>> /\ lost = {} /\ outstanding = {}

\* flush_logs holds the mutex while it empties the queue.
MutexFree == flusher # "drain"

-----------------------------------------------------------------------------
(* logger_queue_line. *)

\* A thread logs a line and there is a free item.
TakeFree(w) ==
    /\ writer[w].at = "idle" /\ writer[w].n < MaxLines
    /\ MutexFree
    /\ \E i \in logger_freelist :
           /\ logger_freelist' = logger_freelist \ {i}
           /\ writer' = [writer EXCEPT ![w] = [at |-> "write", n |-> @.n + 1, item |-> i,
                                               overflow |-> FALSE]]
    /\ UNCHANGED <<logger_queue, buf, logger_thread_active, logger, flusher, main, printed,
                   unflushed, queued, lost, outstanding>>

\* There is none: the item of the oldest queued line is taken, and the line is lost.
Steal(w) ==
    /\ writer[w].at = "idle" /\ writer[w].n < MaxLines
    /\ MutexFree
    /\ logger_freelist = {} /\ logger_queue # <<>>
    /\ logger_queue' = Tail(logger_queue)
    /\ lost' = lost \cup {buf[Head(logger_queue)].line}
    /\ writer' = [writer EXCEPT ![w] = [at |-> "write", n |-> @.n + 1,
                                        item |-> Head(logger_queue), overflow |-> TRUE]]
    /\ UNCHANGED <<logger_freelist, buf, logger_thread_active, logger, flusher, main, printed,
                   unflushed, queued, outstanding>>

\* All items are in someone's hands: the line goes straight to stdout.
GiveUp(w) ==
    /\ writer[w].at = "idle" /\ writer[w].n < MaxLines
    /\ MutexFree
    /\ logger_freelist = {} /\ logger_queue = <<>>
    /\ unflushed' = TRUE
    /\ writer' = [writer EXCEPT ![w].n = @ + 1]
    /\ UNCHANGED <<logger_freelist, logger_queue, buf, logger_thread_active, logger, flusher,
                   main, printed, queued, lost, outstanding>>

\* Faulty: the overflow is not noted.
DropsTheNote(w) == [line |-> <<w, writer[w].n>>, overflow |-> FALSE]

Written(w) == [line |-> <<w, writer[w].n>>, overflow |-> writer[w].overflow]

Wake == IF logger.at = "asleep" THEN [logger EXCEPT !.at = "look"] ELSE logger

\* Faulty: the item goes to the head, as in the free list.
AddsAtHead(i) == <<i>> \o logger_queue

Queued(i) == Append(logger_queue, i)

\* The line is written into the item without the mutex, and queued under it.
AddTail(w) ==
    /\ writer[w].at = "write"
    /\ MutexFree
    /\ buf' = [buf EXCEPT ![writer[w].item] = Written(w)]
    /\ logger_queue' = Queued(writer[w].item)
    /\ queued' = Append(queued, <<w, writer[w].n>>)
    /\ writer' = [writer EXCEPT ![w] = [at |-> "idle", n |-> @.n, item |-> None, overflow |-> FALSE]]
    /\ logger' = Wake
    /\ UNCHANGED <<logger_freelist, logger_thread_active, flusher, main, printed, unflushed,
                   lost, outstanding>>

-----------------------------------------------------------------------------
(* logger_thread_function. *)

\* Under the mutex: the thread sleeps, ends, or takes the first item.
LoggerLooks ==
    /\ logger.at = "look"
    /\ MutexFree
    /\ IF ~logger_thread_active
       THEN /\ logger' = [logger EXCEPT !.at = "ended"]
            /\ logger_queue' = logger_queue
       ELSE IF logger_queue = <<>>
       THEN /\ logger' = [logger EXCEPT !.at = "asleep"]
            /\ logger_queue' = logger_queue
       ELSE /\ logger' = [at |-> "print", item |-> Head(logger_queue),
                          flush |-> Len(logger_queue) <= 1]
            /\ logger_queue' = Tail(logger_queue)
    /\ UNCHANGED <<logger_freelist, buf, logger_thread_active, writer, flusher, main, printed,
                   unflushed, queued, lost, outstanding>>

Output(i, by) == [line |-> buf[i].line, overflow |-> buf[i].overflow, by |-> by]

\* Faulty: the flush is left to the line after the last.
NeverFlushes == TRUE

\* Whether the line stays in the buffer of stdout, since another one follows at once.
StaysBuffered == ~logger.flush

LoggerPrints ==
    /\ logger.at = "print"
    /\ printed' = Append(printed, Output(logger.item, "logger"))
    /\ unflushed' = StaysBuffered
    /\ logger' = [logger EXCEPT !.at = "return"]
    /\ UNCHANGED <<logger_freelist, logger_queue, buf, logger_thread_active, writer, flusher,
                   main, queued, lost, outstanding>>

LoggerReturnsItem ==
    /\ logger.at = "return"
    /\ MutexFree
    /\ logger_freelist' = logger_freelist \cup {logger.item}
    /\ logger' = [at |-> "look", item |-> None, flush |-> FALSE]
    /\ UNCHANGED <<logger_queue, buf, logger_thread_active, writer, flusher, main, printed,
                   unflushed, queued, lost, outstanding>>

-----------------------------------------------------------------------------
(* flush_logs in the crash handler, while the logger thread runs. *)

CrashHandlerBegins ==
    /\ flusher = "idle" /\ main = "run"
    /\ flusher' = "poll"
    /\ outstanding' = {buf[logger_queue[i]].line : i \in DOMAIN logger_queue}
    /\ UNCHANGED <<logger_freelist, logger_queue, buf, logger_thread_active, writer, logger,
                   main, printed, unflushed, queued, lost>>

\* It is done when it sees the queue empty.
FlusherSeesEmpty ==
    /\ flusher = "poll" /\ logger_queue = <<>>
    /\ flusher' = "done"
    /\ UNCHANGED <<logger_freelist, logger_queue, buf, logger_thread_active, writer, logger,
                   main, printed, unflushed, queued, lost, outstanding>>

\* Faulty: it gives up.
GivesUp ==
    /\ flusher = "poll" /\ logger_queue # <<>>
    /\ flusher' = "done"
    /\ UNCHANGED <<logger_freelist, logger_queue, buf, logger_thread_active, writer, logger,
                   main, printed, unflushed, queued, lost, outstanding>>

\* It has waited for a second: it takes the mutex.
FlusherTimesOut ==
    /\ flusher = "poll" /\ logger_queue # <<>>
    /\ flusher' = "drain"
    /\ UNCHANGED <<logger_freelist, logger_queue, buf, logger_thread_active, writer, logger,
                   main, printed, unflushed, queued, lost, outstanding>>

\* Faulty: the item is not given back.
KeepsItem(i) == logger_freelist

Freed(i) == logger_freelist \cup {i}

\* One turn of the loop that prints what is queued.
PrintHead(by) ==
    /\ logger_queue # <<>>
    /\ printed' = Append(printed, Output(Head(logger_queue), by))
    /\ unflushed' = TRUE
    /\ logger_queue' = Tail(logger_queue)
    /\ logger_freelist' = Freed(Head(logger_queue))
    /\ UNCHANGED <<buf, logger_thread_active, writer, logger, flusher, main, queued, lost,
                   outstanding>>

FlusherEnds ==
    /\ flusher = "drain" /\ logger_queue = <<>>
    /\ unflushed' = FALSE
    /\ flusher' = "done"
    /\ UNCHANGED <<logger_freelist, logger_queue, buf, logger_thread_active, writer, logger,
                   main, printed, queued, lost, outstanding>>

-----------------------------------------------------------------------------
(* destroy_logger. *)

Deactivate ==
    /\ main = "run" /\ flusher \in {"idle", "done"}
    /\ \A w \in Writers : writer[w].at = "idle" /\ writer[w].n = MaxLines
    /\ logger_thread_active' = FALSE
    /\ logger' = Wake
    /\ main' = "join"
    /\ UNCHANGED <<logger_freelist, logger_queue, buf, writer, flusher, printed, unflushed,
                   queued, lost, outstanding>>

Join ==
    /\ main = "join" /\ logger.at = "ended"
    /\ main' = "flush"
    /\ UNCHANGED <<logger_freelist, logger_queue, buf, logger_thread_active, writer, logger,
                   flusher, printed, unflushed, queued, lost, outstanding>>

MainFlushed ==
    /\ main = "flush" /\ logger_queue = <<>>
    /\ unflushed' = FALSE
    /\ main' = "destroyed"
    /\ UNCHANGED <<logger_freelist, logger_queue, buf, logger_thread_active, writer, logger,
                   flusher, printed, queued, lost, outstanding>>

-----------------------------------------------------------------------------
Log(w) == TakeFree(w) \/ Steal(w) \/ GiveUp(w)
LoggerThread == LoggerLooks \/ LoggerPrints \/ LoggerReturnsItem
FlusherDrains == flusher = "drain" /\ PrintHead("flusher")
CrashHandler == FlusherSeesEmpty \/ FlusherTimesOut \/ FlusherDrains \/ FlusherEnds
MainDrains == main = "flush" /\ PrintHead("main")
Destroy == Join \/ MainDrains \/ MainFlushed

Next ==
    \/ \E w \in Writers : Log(w) \/ AddTail(w)
    \/ LoggerThread
    \/ CrashHandlerBegins \/ CrashHandler
    \/ Deactivate \/ Destroy

\* Threads inside go on; whether more is logged, and whether the logger is destroyed, is open.
Fairness ==
    /\ \A w \in Writers : WF_vars(AddTail(w))
    /\ WF_vars(LoggerThread) /\ WF_vars(CrashHandler) /\ WF_vars(Destroy)

Spec == Init /\ [][Next]_vars /\ Fairness
-----------------------------------------------------------------------------
(* Properties. *)

Held == {writer[w].item : w \in Writers} \cup {logger.item}
InQueue == {logger_queue[i] : i \in DOMAIN logger_queue}

\* No item is lost or in two places (the lists of logging.c:80 and 89, the hands of writers,
\* of the logger thread, of flush_logs): otherwise two threads write one buffer, or the debug
\* check of destroy_logger (logging.c:377) fails.
ItemsAreConserved ==
    /\ \A i \in Items : i \in logger_freelist \cup InQueue \cup Held
    /\ logger_freelist \cap InQueue = {} /\ (logger_freelist \cup InQueue) \cap Held = {}
    /\ \A v, w \in Writers : writer[v].item = writer[w].item /\ v # w => writer[v].item = None
    /\ \A w \in Writers : writer[w].item = logger.item => logger.item = None
    /\ \A i, j \in DOMAIN logger_queue : logger_queue[i] = logger_queue[j] => i = j

\* A reader of the log can tell that lines are missing (logging.c:260): if some were
\* overwritten, a line that was not has the note or will get it.
LossIsNoted ==
    lost # {} =>
        \/ \E i \in DOMAIN printed : printed[i].overflow
        \/ \E i \in InQueue : buf[i].overflow
        \/ \E w \in Writers : writer[w].overflow
        \/ logger.at = "print" /\ buf[logger.item].overflow

Position(line) == CHOOSE p \in DOMAIN queued : queued[p] = line

\* Lines come out in the order in which they were queued.  Only flush_logs after its second
\* can overtake the logger thread (logging.c:176), and then by the one line it has in hand.
PrintedInOrder ==
    LET late == {j \in DOMAIN printed : \E i \in 1 .. j - 1 :
                     Position(printed[i].line) > Position(printed[j].line)}
    IN  /\ \A j, k \in late : j = k
        /\ \A j \in late : printed[j].by = "logger" /\ \E i \in 1 .. j - 1 : printed[i].by = "flusher"

\* When flush_logs returns to the crash handler (logging.c:192), of the lines that were
\* queued before it was called at most the one in the hands of the logger thread is not out.
FlushLeavesAtMostOne ==
    flusher = "done" =>
        \A l \in outstanding \ lost :
            \/ \E i \in DOMAIN printed : printed[i].line = l
            \/ logger.at = "print" /\ buf[logger.item].line = l

\* No item of the logger is lost or in two places, lines come out in order but for the one
\* that flush_logs may overtake, and a reader can tell when lines are missing
\* (logging.c:176-310).
LinesAreKept == ItemsAreConserved /\ LossIsNoted /\ PrintedInOrder /\ FlushLeavesAtMostOne

\* What is queued is printed or overwritten, and the buffer of stdout is flushed: the logger
\* thread sleeps through no line, and that it skips the flush when a line follows
\* (logging.c:177) does no harm when a writer takes that line away.  When flush_logs does,
\* after its second, the line that the logger thread has in hand may stay in the buffer.
EverythingIsFlushed ==
    logger_queue # <<>> \/ unflushed ~>
        /\ logger_queue = <<>>
        /\ ~unflushed \/ \E i \in DOMAIN printed : printed[i].by = "flusher"

=============================================================================
