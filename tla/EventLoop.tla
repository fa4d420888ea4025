----------------------------- MODULE EventLoop -----------------------------
(***************************************************************************)
(* One EventLoop (src/shero/net/EventLoop.cc): the loop thread, the other  *)
(* threads that call queueInLoop, runInLoop and quit on it, the functor    *)
(* queue behind m_mutex, and the eventfd that gets the loop out of         *)
(* epoll_wait.                                                             *)
(*                                                                         *)
(* Abstractions.  A functor is a member of Functors, queued at most once   *)
(* (two submissions of one closure are two functors).  Of the eventfd      *)
(* counter only "readable or not" is kept: a write makes it readable and a *)
(* read empties it.  All channels other than the wakeup channel are the    *)
(* one channel IO, whose handler is any code that calls into the loop.  A  *)
(* critical section of m_mutex is one step.  epoll_wait's timeout of       *)
(* m_pollTimeMs (100 s) is a step that may happen and that nothing may     *)
(* rely on.                                                                *)
(***************************************************************************)
EXTENDS Naturals, Sequences, Functions

CONSTANTS
    Functors,     \* the closures that may be queued
    Threads       \* the threads other than the loop's own

Wakeup == "wakeup"
IO == "io"

VARIABLES
    looping,      \* m_looping
    calling,      \* m_callingpendingFunctors
    pending,      \* m_pendingFunctors
    functors,     \* the local vector of doPendingFunctors, what is left of it
    readable,     \* the eventfd m_wakeupFd holds a non-zero count
    active,       \* m_activeChannels not handled yet
    lpc,          \* where the loop thread is
    tpc,          \* where each other thread is: idle, or about to wakeup()
    ran,          \* history: the functors started, in order
    early         \* history: functors the loop thread queued outside loop()

vars == <<looping, calling, pending, functors, readable, active, lpc, tpc,
          ran, early>>

(***************************************************************************)
(* Loop thread locations:                                                  *)
(*   out    not in loop()              top    at the while test            *)
(*   poll   in epoll_wait              handle running active channels      *)
(*   begin  entering doPendingFunctors swap   m_mutex held for the swap    *)
(*   run    between two functors       body   inside a functor             *)
(*   push   between the push and the wakeup of its own queueInLoop         *)
(***************************************************************************)
LoopPcs == {"out", "top", "poll", "handle", "begin", "swap", "run", "body",
            "push"}

Queued == Range(ran) \cup Range(functors) \cup Range(pending)

\* m_callingpendingFunctors is set exactly inside doPendingFunctors, and the
\* vectors of one phase of the loop are empty in the other phases.
PhasesOK ==
    /\ calling <=> lpc \in {"swap", "run", "body", "push"}
    /\ functors # <<>> => lpc \in {"run", "body", "push"}
    /\ active # {} => lpc = "handle"

TypeOK ==
    /\ looping \in BOOLEAN
    /\ calling \in BOOLEAN
    /\ pending \in Seq(Functors)
    /\ functors \in Seq(Functors)
    /\ readable \in BOOLEAN
    /\ active \subseteq {Wakeup, IO}
    /\ lpc \in LoopPcs
    /\ tpc \in [Threads -> {"idle", "wakeup"}]
    /\ ran \in Seq(Functors)
    /\ early \subseteq Functors
    /\ PhasesOK

Init ==
    /\ looping = FALSE
    /\ calling = FALSE
    /\ pending = <<>>
    /\ functors = <<>>
    /\ readable = FALSE
    /\ active = {}
    /\ lpc = "out"
    /\ tpc = [t \in Threads |-> "idle"]
    /\ ran = <<>>
    /\ early = {}

-----------------------------------------------------------------------------
(* Threads other than the loop's.                                          *)

\* Variant: the test of queueInLoop without !isInLoopThread().
QueueInLoop_FlagOnly(t, f) ==
    /\ tpc[t] = "idle"
    /\ f \notin Queued
    /\ pending' = Append(pending, f)
    /\ tpc' = [tpc EXCEPT ![t] = IF calling THEN "wakeup" ELSE "idle"]
    /\ UNCHANGED <<looping, calling, functors, readable, active, lpc, ran,
                   early>>

\* queueInLoop (and runInLoop, which falls through to it off the loop
\* thread): the push under m_mutex; the wakeup is a step of its own.
QueueInLoop(t, f) ==
    /\ tpc[t] = "idle"
    /\ f \notin Queued
    /\ pending' = Append(pending, f)
    /\ tpc' = [tpc EXCEPT ![t] = "wakeup"]
    /\ UNCHANGED <<looping, calling, functors, readable, active, lpc, ran,
                   early>>

\* Variant: quit() without its wakeup.
Quit_Silent(t) ==
    /\ tpc[t] = "idle"
    /\ looping' = FALSE
    /\ UNCHANGED <<calling, pending, functors, readable, active, lpc, tpc,
                   ran, early>>

\* quit() from another thread.
Quit(t) ==
    /\ tpc[t] = "idle"
    /\ looping' = FALSE
    /\ tpc' = [tpc EXCEPT ![t] = "wakeup"]
    /\ UNCHANGED <<calling, pending, functors, readable, active, lpc, ran,
                   early>>

\* wakeup(): the write to the eventfd.
WakeupFromThread(t) ==
    /\ tpc[t] = "wakeup"
    /\ readable' = TRUE
    /\ tpc' = [tpc EXCEPT ![t] = "idle"]
    /\ UNCHANGED <<looping, calling, pending, functors, active, lpc, ran,
                   early>>

-----------------------------------------------------------------------------
(* The loop thread in loop().                                              *)

Loop ==
    /\ lpc = "out"
    /\ looping' = TRUE
    /\ lpc' = "top"
    /\ UNCHANGED <<calling, pending, functors, readable, active, tpc, ran,
                   early>>

\* while(m_looping)
LoopTest ==
    /\ lpc = "top"
    /\ lpc' = IF looping THEN "poll" ELSE "out"
    /\ UNCHANGED <<looping, calling, pending, functors, readable, active,
                   tpc, ran, early>>

\* epoll_wait returns the channels A: the wakeup channel only when the
\* eventfd is readable.  When more channels are ready than the event array
\* holds, the wakeup channel may be missing from A although it is ready.
PollReturns(A) ==
    /\ lpc = "poll"
    /\ Wakeup \in A => readable
    /\ active' = A
    /\ lpc' = "handle"
    /\ UNCHANGED <<looping, calling, pending, functors, readable, tpc, ran,
                   early>>

\* handleRead(): the read of the eventfd.
HandleRead ==
    /\ lpc = "handle"
    /\ Wakeup \in active
    /\ readable' = FALSE
    /\ active' = active \ {Wakeup}
    /\ UNCHANGED <<looping, calling, pending, functors, lpc, tpc, ran, early>>

\* The handler of another channel returns.
HandleIO ==
    /\ lpc = "handle"
    /\ IO \in active
    /\ active' = active \ {IO}
    /\ UNCHANGED <<looping, calling, pending, functors, readable, lpc, tpc,
                   ran, early>>

EventsHandled ==
    /\ lpc = "handle"
    /\ active = {}
    /\ lpc' = "begin"
    /\ UNCHANGED <<looping, calling, pending, functors, readable, active,
                   tpc, ran, early>>

-----------------------------------------------------------------------------
(* doPendingFunctors.                                                      *)

BeginPending ==
    /\ lpc = "begin"
    /\ calling' = TRUE
    /\ lpc' = "swap"
    /\ UNCHANGED <<looping, pending, functors, readable, active, tpc, ran,
                   early>>

\* Variant: m_pendingFunctors is copied instead of swapped out.
SwapPending_Copy ==
    /\ lpc = "swap"
    /\ functors' = pending
    /\ lpc' = "run"
    /\ UNCHANGED <<looping, calling, pending, readable, active, tpc, ran,
                   early>>

SwapPending ==
    /\ lpc = "swap"
    /\ functors' = pending
    /\ pending' = <<>>
    /\ lpc' = "run"
    /\ UNCHANGED <<looping, calling, readable, active, tpc, ran, early>>

RunFunctor ==
    /\ lpc = "run"
    /\ functors # <<>>
    /\ ran' = Append(ran, Head(functors))
    /\ functors' = Tail(functors)
    /\ lpc' = "body"
    /\ UNCHANGED <<looping, calling, pending, readable, active, tpc, early>>

FunctorReturns ==
    /\ lpc = "body"
    /\ lpc' = "run"
    /\ UNCHANGED <<looping, calling, pending, functors, readable, active,
                   tpc, ran, early>>

EndPending ==
    /\ lpc = "run"
    /\ functors = <<>>
    /\ calling' = FALSE
    /\ lpc' = "top"
    /\ UNCHANGED <<looping, pending, functors, readable, active, tpc, ran,
                   early>>

-----------------------------------------------------------------------------
(* Calls into the loop from its own thread: inside a functor (lpc = body), *)
(* inside an event handler (lpc = handle), or outside loop() (lpc = out).  *)

\* Variant: the test of queueInLoop without m_callingpendingFunctors.
MustWakeup_Never == FALSE

\* The test of queueInLoop after the push, on the loop's own thread.
MustWakeup == calling

InCallback == lpc = "body" \/ (lpc = "handle" /\ IO \in active)

SelfQueue(f) ==
    /\ InCallback \/ lpc = "out"
    /\ f \notin Queued
    /\ pending' = Append(pending, f)
    /\ lpc' = IF MustWakeup THEN "push" ELSE lpc
    /\ early' = IF lpc = "out" THEN early \cup {f} ELSE early
    /\ UNCHANGED <<looping, calling, functors, readable, active, tpc, ran>>

SelfWakeup ==
    /\ lpc = "push"
    /\ readable' = TRUE
    /\ lpc' = "body"
    /\ UNCHANGED <<looping, calling, pending, functors, active, tpc, ran,
                   early>>

\* quit() on the loop's own thread writes no wakeup.
SelfQuit ==
    /\ InCallback
    /\ looping' = FALSE
    /\ UNCHANGED <<calling, pending, functors, readable, active, lpc, tpc,
                   ran, early>>

-----------------------------------------------------------------------------
\* A return of epoll_wait because a channel is ready (not the timeout).
PollEvent == \E A \in SUBSET {Wakeup, IO} : A # {} /\ PollReturns(A)

\* The steps the loop thread takes on its own, once it is in loop().
LoopThread ==
    \/ LoopTest \/ HandleRead \/ HandleIO \/ EventsHandled
    \/ BeginPending \/ SwapPending \/ RunFunctor \/ FunctorReturns
    \/ EndPending \/ SelfWakeup

Next ==
    \/ Loop
    \/ LoopThread
    \/ PollEvent
    \/ PollReturns({})
    \/ SelfQuit
    \/ \E f \in Functors : SelfQueue(f)
    \/ \E t \in Threads : Quit(t) \/ WakeupFromThread(t)
    \/ \E t \in Threads, f \in Functors : QueueInLoop(t, f)

Spec == Init /\ [][Next]_vars

(***************************************************************************)
(* Fairness.  A thread the operating system schedules finishes what it has *)
(* begun: the loop thread its straight-line code (handlers and functors    *)
(* return), another thread the wakeup after its push.  epoll_wait returns  *)
(* while the eventfd is readable.  No fairness on the timeout, on calling  *)
(* loop(), or on the arrival of I/O.                                       *)
(***************************************************************************)
PollWakeup == readable /\ PollEvent

FairSpec ==
    /\ Spec
    /\ WF_vars(LoopThread)
    /\ WF_vars(PollWakeup)
    /\ \A t \in Threads : WF_vars(WakeupFromThread(t))

-----------------------------------------------------------------------------
(* Properties.                                                             *)

\* A wakeup write is still to come from another thread.
WakeupComing == \E t \in Threads : tpc[t] = "wakeup"

\* The functors that a wakeup must announce: all of the queue, except those
\* the loop thread itself queued before loop(), which queueInLoop announces
\* to nobody.
Announced == Range(pending) \ early

\* queueInLoop and doPendingFunctors never lose a wakeup: while the loop
\* thread is in epoll_wait with an announced functor in m_pendingFunctors,
\* the eventfd is readable or the thread that pushed is about to write it.
NoLostWakeup ==
    lpc = "poll" /\ Announced # {} => readable \/ WakeupComing

\* quit() is not lost once loop() has set m_looping: the loop thread never
\* sits in epoll_wait with m_looping false, the eventfd empty and no write
\* coming.
NoLostQuit ==
    lpc = "poll" /\ ~looping => readable \/ WakeupComing

\* The loop implements a serial executor: functors start in the order they
\* were queued, each once, whatever the swap of doPendingFunctors, the
\* queueing from inside functors and the two threads' steps do.
Executor == INSTANCE FunctorExecutor WITH
                queue <- functors \o pending, ran <- ran
ImplementsExecutor == Executor!Spec

\* An announced functor of a loop that keeps looping is started, without the
\* 100 s timeout of epoll_wait having to help.
FunctorsRun ==
    \A f \in Functors :
        (looping /\ f \in Announced) ~> (f \in Range(ran) \/ ~looping)
=============================================================================
