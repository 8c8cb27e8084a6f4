------------------------------ MODULE MCLogger -------------------------------
(***************************************************************************)
(* The logger, by names that do not clash with those of other components.  *)
(***************************************************************************)
CONSTANTS Loggers, MaxLines, Items

VARIABLES
    logger_freelist, logger_queue, buf, logger_thread_active, writer, logger, flusher,
    log_main, printed, unflushed, log_queued, lost, outstanding

Log == INSTANCE Logger WITH Writers <- Loggers, main <- log_main, queued <- log_queued
-----------------------------------------------------------------------------
\* No item of the logger is lost or in two places, lines come out in order but for the one
\* that flush_logs may overtake, and a reader can tell when lines are missing
\* (logging.c:176-310).
LinesAreKept == Log!LinesAreKept

\* What is queued gets printed or overwritten, and flushed (logging.c:177).
EverythingIsFlushed == Log!EverythingIsFlushed
=============================================================================
