---------------------------- MODULE AsyncLogger ----------------------------
(***************************************************************************)
(* One Logger with its AsyncLogger (src/shero/base/Log.cc): threads call   *)
(* Logger::log, which hands one message to AsyncLogger::push; the logger   *)
(* thread (mainLoop) takes the messages from m_queue and writes them to    *)
(* the log file, which it replaces when the date changes or it is full;    *)
(* ~Logger stops the thread and joins it.  Who calls, and whether the      *)
(* Logger is still there, is the matter of the module Logging.             *)
(*                                                                         *)
(* A message is a model value of size one, logged once.  A critical        *)
(* section of m_mutex is one step; pthread_cond_wait is a location from    *)
(* which a signal takes the thread.  The mode is FILE.  Log files start    *)
(* empty.  Bound: dates go up to MaxDate.                                  *)
(***************************************************************************)
EXTENDS Naturals, Sequences, SequencesExt

CONSTANTS
    Messages,
    Threads,         \* the threads that log
    MaxSize,         \* m_maxSize
    MaxDate

ASSUME SizesAssumption == MaxSize \in Nat /\ MaxDate \in Nat

VARIABLES
    queue,       \* m_queue
    stop,        \* m_stop
    lpc,         \* the logger thread: wait (in pthread_cond_wait), test (at
                 \*   the condition), tested (found nothing to do, not waiting
                 \*   yet), write, exited
    msg,         \* the messages it has taken and not written
    tpc,         \* the logging threads: idle, or signal (pushed, not signalled)
    spc,         \* the thread in ~Logger: out, signal, join, again (in the
                 \*   second join), done
    file,        \* m_file: open, date (m_date), no (m_no), size, reopen
                 \*   (m_reopen)
    date,        \* today
    h            \* history: pushed and written messages in order, before (the
                 \*   messages pushed when stop() was called), missed (the
                 \*   signal of stop() came before the wait)

vars == <<queue, stop, lpc, msg, tpc, spc, file, date, h>>

\* After the constructor: the thread has cleared m_stop and posted m_sem.
Init ==
    /\ queue = <<>> /\ stop = FALSE /\ msg = <<>>
    /\ lpc = "test" /\ tpc = [t \in Threads |-> "idle"] /\ spc = "out"
    /\ file = [open |-> FALSE, date |-> 0, no |-> 0, size |-> 0,
               reopen |-> TRUE]
    /\ date = 1
    /\ h = [pushed |-> <<>>, written |-> <<>>, before |-> {},
          missed |-> FALSE]

-----------------------------------------------------------------------------
(* Logging threads.                                                        *)

\* pthread_cond_signal: wakes the logger thread if it waits.
Signal == lpc' = IF lpc = "wait" THEN "test" ELSE lpc

\* Logger::log, then the push of AsyncLogger::push under m_mutex, which the
\* logger thread keeps from its test until it waits.
Push(t, m) ==
    /\ tpc[t] = "idle" /\ lpc # "tested"
    /\ m \notin ToSet(h.pushed)
    /\ queue' = Append(queue, m)
    /\ h' = [h EXCEPT !.pushed = Append(@, m)]
    /\ tpc' = [tpc EXCEPT ![t] = "signal"]
    /\ UNCHANGED <<stop, lpc, msg, spc, file, date>>

\* Variant: push does not signal.
PushSignal_None(t) ==
    /\ tpc[t] = "signal"
    /\ tpc' = [tpc EXCEPT ![t] = "idle"]
    /\ UNCHANGED <<queue, stop, lpc, msg, spc, file, date, h>>

\* The signal of push, after the unlock.
PushSignal(t) ==
    /\ tpc[t] = "signal"
    /\ Signal
    /\ tpc' = [tpc EXCEPT ![t] = "idle"]
    /\ UNCHANGED <<queue, stop, msg, spc, file, date, h>>

-----------------------------------------------------------------------------
(* ~Logger: stop().                                                        *)

Stop ==
    /\ spc = "out"
    /\ stop' = TRUE
    /\ spc' = "signal"
    /\ h' = [h EXCEPT !.before = ToSet(h.pushed)]
    /\ UNCHANGED <<queue, lpc, msg, tpc, file, date>>

\* Variant: stop() does not signal.
StopSignal_None ==
    /\ spc = "signal"
    /\ spc' = "join"
    /\ UNCHANGED <<queue, stop, lpc, msg, tpc, file, date, h>>

\* The signal of stop(), which takes no mutex.
StopSignal ==
    /\ spc = "signal"
    /\ Signal
    /\ h' = [h EXCEPT !.missed = lpc = "tested"]
    /\ spc' = "join"
    /\ UNCHANGED <<queue, stop, msg, tpc, file, date>>

\* pthread_join returns.
Join ==
    /\ spc = "join" /\ lpc = "exited"
    /\ spc' = "again"
    /\ UNCHANGED <<queue, stop, lpc, msg, tpc, file, date, h>>

\* ~AsyncLogger calls stop(), and so joins the thread once more.
JoinAgain ==
    /\ spc = "again"
    /\ spc' = "done"
    /\ UNCHANGED <<queue, stop, lpc, msg, tpc, file, date, h>>

-----------------------------------------------------------------------------
(* mainLoop.                                                               *)

\* The condition of the inner while, under m_mutex: nothing to do.
TestWaits ==
    /\ lpc = "test" /\ queue = <<>> /\ ~stop
    /\ lpc' = "tested"
    /\ UNCHANGED <<queue, stop, msg, tpc, spc, file, date, h>>

\* pthread_cond_wait.  The mutex is held from the test until here, so no
\* push comes between; stop() takes no mutex, and its signal can.
Wait ==
    /\ lpc = "tested"
    /\ lpc' = "wait"
    /\ UNCHANGED <<queue, stop, msg, tpc, spc, file, date, h>>

\* pthread_cond_wait may also return without a signal.
SpuriousWakeup ==
    /\ lpc = "wait"
    /\ lpc' = "test"
    /\ UNCHANGED <<queue, stop, msg, tpc, spc, file, date, h>>

\* Variant: the queue is not drained before the thread leaves.
mustExit_AtOnce == stop

mustExit == stop /\ queue = <<>>

\* Stopped with an empty queue: the file is closed and the thread ends.
TestExits ==
    /\ lpc = "test" /\ mustExit
    /\ lpc' = "exited"
    /\ file' = [file EXCEPT !.open = FALSE]
    /\ UNCHANGED <<queue, stop, msg, tpc, spc, date, h>>

\* The front of the queue is taken.
Take ==
    /\ lpc = "test" /\ queue # <<>> /\ ~mustExit
    /\ msg' = <<Head(queue)>>
    /\ queue' = Tail(queue)
    /\ lpc' = "write"
    /\ UNCHANGED <<stop, tpc, spc, file, date, h>>

\* The file of today: the first of a new date, or the one in use.
dated == IF date = file.date THEN file
         ELSE [file EXCEPT !.no = 0, !.date = date, !.reopen = TRUE,
                           !.open = FALSE]

opened(f) == IF f.reopen \/ ~f.open
             THEN [f EXCEPT !.open = TRUE, !.reopen = FALSE, !.size = 0]
             ELSE f

\* A full file is followed by the next number.
rotated(f) == IF f.size > MaxSize THEN [f EXCEPT !.no = @ + 1, !.size = 0]
              ELSE f

Write ==
    /\ lpc = "write"
    /\ LET f == rotated(opened(dated))
       IN  file' = [f EXCEPT !.size = @ + Len(msg)]
    /\ h' = [h EXCEPT !.written = @ \o msg]
    /\ msg' = <<>>
    /\ lpc' = "test"
    /\ UNCHANGED <<queue, stop, tpc, spc, date>>

Midnight ==
    /\ date < MaxDate
    /\ date' = date + 1
    /\ UNCHANGED <<queue, stop, lpc, msg, tpc, spc, file, h>>

-----------------------------------------------------------------------------
LoggerThread == TestWaits \/ Wait \/ TestExits \/ Take \/ Write

=============================================================================
