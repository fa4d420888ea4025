------------------------ MODULE EventLoopThreadPool ------------------------
(***************************************************************************)
(* EventLoopThreadPool with its EventLoopThreads and Threads               *)
(* (src/shero/net/EventLoopThreadPool.cc, EventLoopThread.cc,              *)
(* src/shero/base/Thread.cc).  The thread of the base loop, the owner,     *)
(* starts NumThreads threads one after the other, each with an EventLoop   *)
(* on its stack, waits for each loop, hands the loops out in turn, and at  *)
(* last destroys the pool: quit and join, thread by thread.                *)
(*                                                                         *)
(* Of a loop only m_looping and the pending wakeup are kept (the module    *)
(* EventLoop has the rest): loop() is left when m_looping is found false   *)
(* after a round.  A critical section of m_mutex is one step, except the   *)
(* last one of threadFunc, which the destructor can meet.                  *)
(* Bound, for TLC: GetNextLoop is called MaxConns times at most.           *)
(***************************************************************************)
EXTENDS Naturals

CONSTANTS
    NumThreads,      \* m_numThreads
    MaxConns,
    LoopsEntered,    \* the pool goes only after all threads entered loop()
    LoopQuits        \* user code on a sub loop's thread may call quit()

ASSUME NumAssumption == NumThreads \in Nat /\ MaxConns \in Nat
ASSUME FlagsAssumption == LoopsEntered \in BOOLEAN /\ LoopQuits \in BOOLEAN

Indices == 0..(NumThreads - 1)

VARIABLES
    opc,         \* the owner: new, start (startLoop of cur), created (in
                 \*   sem_wait), lock, wait (in pthread_cond_wait), started;
                 \*   destroy (~EventLoopThread of cur), quit, wakeup, join,
                 \*   mutex, thread (their members), gone
    cur,         \* the EventLoopThread the owner is at
    thr,         \* of each thread: pc, loop (m_loop # nullptr), looping and
                 \*   readable (of its EventLoop), start (m_start), sem (posted)
    next,        \* m_next
    given,       \* how often GetNextLoop returned each loop
    fate         \* running, or what went wrong

vars == <<opc, cur, thr, next, given, fate>>

(***************************************************************************)
(* Thread locations: none; init (created); publish (EventLoop built, m_cb  *)
(* run); enter (before loop()); loop; leave; clear (m_mutex held); exit;   *)
(* dead.                                                                   *)
(***************************************************************************)

Init ==
    /\ opc = "new" /\ cur = 0
    /\ thr = [i \in Indices |-> [pc |-> "none", loop |-> FALSE,
                                 looping |-> FALSE, readable |-> FALSE,
                                 start |-> FALSE, sem |-> FALSE]]
    /\ next = 0
    /\ given = [i \in Indices |-> 0]
    /\ fate = "running"

Running == fate = "running"

\* The EventLoop object on the thread's stack.
LoopExists(i) ==
    thr[i].pc \in {"publish", "enter", "loop", "leave", "clear", "exit"}

-----------------------------------------------------------------------------
(* The owner starts the pool.                                              *)

PoolStart ==
    /\ opc = "new"
    /\ opc' = IF NumThreads = 0 THEN "started" ELSE "start"
    /\ UNCHANGED <<cur, thr, next, given, fate>>

\* startLoop, Thread::start: pthread_create.
StartLoop ==
    /\ opc = "start"
    /\ thr' = [thr EXCEPT ![cur].pc = "init"]
    /\ opc' = "created"
    /\ UNCHANGED <<cur, next, given, fate>>

\* sem_wait returns.
Created ==
    /\ opc = "created" /\ thr[cur].sem
    /\ thr' = [thr EXCEPT ![cur].sem = FALSE]
    /\ opc' = "lock"
    /\ UNCHANGED <<cur, next, given, fate>>

\* The next thread to start, or the pool is up.
Started ==
    IF cur + 1 < NumThreads
    THEN opc' = "start" /\ cur' = cur + 1
    ELSE opc' = "started" /\ cur' = 0

\* The while test of startLoop under m_mutex: wait, or return m_loop.
AwaitLoop ==
    /\ opc = "lock" /\ thr[cur].pc # "clear"
    /\ IF thr[cur].loop THEN Started ELSE opc' = "wait" /\ UNCHANGED cur
    /\ UNCHANGED <<thr, next, given, fate>>

-----------------------------------------------------------------------------
(* The pool is up.                                                         *)

\* Variant: the index wraps one too early.
wrapped_Early(n) == IF n + 1 >= NumThreads THEN 0 ELSE n

\* m_next after an increment.
wrapped(n) == IF n >= NumThreads THEN 0 ELSE n

\* GetNextLoop; without threads it is always the base loop.
GetNextLoop ==
    /\ opc = "started" /\ NumThreads > 0
    /\ given[next] < MaxConns
    /\ given' = [given EXCEPT ![next] = @ + 1]
    /\ next' = wrapped(next + 1)
    /\ UNCHANGED <<opc, cur, thr, fate>>

-----------------------------------------------------------------------------
(* The pool goes: ~EventLoopThread for each of m_threads.                  *)

PoolDestroy ==
    /\ opc = "started"
    /\ LoopsEntered => \A i \in Indices : thr[i].pc # "enter"
    /\ opc' = IF NumThreads = 0 THEN "gone" ELSE "destroy"
    /\ UNCHANGED <<cur, thr, next, given, fate>>

\* m_loop is read without the mutex.
Destroy ==
    /\ opc = "destroy"
    /\ opc' = IF thr[cur].loop THEN "quit" ELSE "mutex"
    /\ UNCHANGED <<cur, thr, next, given, fate>>

\* m_loop->quit(): m_looping = false.
DestroyQuit ==
    /\ opc = "quit"
    /\ IF LoopExists(cur)
       THEN /\ thr' = [thr EXCEPT ![cur].looping = FALSE]
            /\ opc' = "wakeup"
            /\ UNCHANGED fate
       ELSE fate' = "use after free" /\ UNCHANGED <<thr, opc>>
    /\ UNCHANGED <<cur, next, given>>

\* ... and its wakeup().
DestroyWakeup ==
    /\ opc = "wakeup"
    /\ IF LoopExists(cur)
       THEN /\ thr' = [thr EXCEPT ![cur].readable = TRUE]
            /\ opc' = "join"
            /\ UNCHANGED fate
       ELSE fate' = "use after free" /\ UNCHANGED <<thr, opc>>
    /\ UNCHANGED <<cur, next, given>>

\* Variant: join() does not wait for the thread.
Join_Skipped == TRUE

\* Thread::join returns.
Join == thr[cur].start => thr[cur].pc = "dead"

DestroyJoin ==
    /\ opc = "join" /\ Join
    /\ thr' = [thr EXCEPT ![cur].start = FALSE]
    /\ opc' = "mutex"
    /\ UNCHANGED <<cur, next, given, fate>>

\* ~MutexLock asserts that nobody holds m_mutex.
DestroyMutex ==
    /\ opc = "mutex"
    /\ IF thr[cur].pc = "clear"
       THEN fate' = "mutex assert" /\ UNCHANGED opc
       ELSE opc' = "thread" /\ UNCHANGED fate
    /\ UNCHANGED <<cur, thr, next, given>>

\* ~Thread joins, unless that was done.
DestroyThread ==
    /\ opc = "thread" /\ Join
    /\ thr' = [thr EXCEPT ![cur].start = FALSE]
    /\ IF cur + 1 < NumThreads
       THEN opc' = "destroy" /\ cur' = cur + 1
       ELSE opc' = "gone" /\ UNCHANGED cur
    /\ UNCHANGED <<next, given, fate>>
-----------------------------------------------------------------------------
(* Thread i: Thread::run and EventLoopThread::threadFunc.                  *)

\* Only thread i moves, from pc to its new record.
Moves(i, pc, r) ==
    /\ thr[i].pc = pc
    /\ thr' = [thr EXCEPT ![i] = r]
    /\ UNCHANGED <<cur, next, given, fate>>

\* m_start and sem_post; then the EventLoop is built and m_cb runs.
Run(i) ==
    /\ Moves(i, "init", [thr[i] EXCEPT !.pc = "publish", !.start = TRUE,
                                       !.sem = TRUE])
    /\ UNCHANGED opc

\* Variant: the waiting owner is not signalled.
Publish_NoSignal(i) ==
    /\ Moves(i, "publish", [thr[i] EXCEPT !.pc = "enter", !.loop = TRUE])
    /\ UNCHANGED opc

\* Under m_mutex: m_loop = &loop, and the signal to startLoop.
Publish(i) ==
    /\ Moves(i, "publish", [thr[i] EXCEPT !.pc = "enter", !.loop = TRUE])
    /\ opc' = IF opc = "wait" /\ cur = i THEN "lock" ELSE opc

\* loop(): m_looping = true.
EnterLoop(i) ==
    /\ Moves(i, "enter", [thr[i] EXCEPT !.pc = "loop", !.looping = TRUE])
    /\ UNCHANGED opc

\* One round of loop() after a wakeup, and the while test.
Round(i) ==
    /\ thr[i].readable
    /\ Moves(i, "loop", [thr[i] EXCEPT !.readable = FALSE,
                             !.pc = IF thr[i].looping
                                    THEN "loop" ELSE "leave"])
    /\ UNCHANGED opc

\* The while test after a round that something else than a wakeup began: an
\* event of another channel, or the timeout of epoll_wait.
OtherRound(i) ==
    /\ ~thr[i].looping
    /\ Moves(i, "loop", [thr[i] EXCEPT !.pc = "leave"])
    /\ UNCHANGED opc

\* User code on the loop calls quit(): the round it is in is the last one.
\* User code gets to the loop by way of GetNextLoop.
QuitFromLoop(i) ==
    /\ LoopQuits /\ given[i] > 0
    /\ Moves(i, "loop", [thr[i] EXCEPT !.pc = "leave", !.looping = FALSE])
    /\ UNCHANGED opc

\* threadFunc takes m_mutex again and clears m_loop.
Clear(i) ==
    /\ Moves(i, "leave", [thr[i] EXCEPT !.pc = "clear", !.loop = FALSE])
    /\ UNCHANGED opc

Unlock(i) ==
    /\ Moves(i, "clear", [thr[i] EXCEPT !.pc = "exit"])
    /\ UNCHANGED opc

\* ~EventLoop, and the thread ends.
Exit(i) ==
    /\ Moves(i, "exit", [thr[i] EXCEPT !.pc = "dead"])
    /\ UNCHANGED opc

-----------------------------------------------------------------------------
Owner ==
    Running /\ (\/ StartLoop \/ Created \/ AwaitLoop
                \/ Destroy \/ DestroyQuit \/ DestroyWakeup \/ DestroyJoin
                \/ DestroyMutex \/ DestroyThread)

LoopThread(i) ==
    Running /\ (\/ Run(i) \/ Publish(i) \/ EnterLoop(i) \/ Round(i)
                \/ Clear(i) \/ Unlock(i) \/ Exit(i))

Next ==
    \/ Owner
    \/ \E i \in Indices : LoopThread(i)
    \/ Running /\ (PoolStart \/ GetNextLoop \/ PoolDestroy)
    \/ \E i \in Indices : Running /\ (OtherRound(i) \/ QuitFromLoop(i))

Spec == Init /\ [][Next]_vars

-----------------------------------------------------------------------------
(* Properties.                                                             *)

\* GetNextLoop spreads connections evenly, however many there are: no loop
\* was handed out more than once more often than another.
RoundRobin == \A i, j \in Indices : given[i] <= given[j] + 1

\* An EventLoopThread is destroyed only after its thread has ended: threadFunc
\* never touches m_mutex or m_loop of an object that is gone.
JoinedBeforeGone ==
    \A i \in Indices :
        opc = "gone" \/ (opc \in {"destroy", "quit", "wakeup", "join", "mutex",
                                  "thread"} /\ i < cur)
        => thr[i].pc = "dead"

\* start() returns: the signal of threadFunc is not lost.  So does the
\* destructor of the pool: every quit() ends its loop.
CallsReturn ==
    /\ (opc = "start") ~> (opc = "started")
    /\ (opc = "destroy") ~> (opc = "gone" \/ ~Running)
=============================================================================
