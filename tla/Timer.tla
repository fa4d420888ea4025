------------------------------- MODULE Timer -------------------------------
(***************************************************************************)
(* Timer (src/shero/base/Timer.cc): the ordered set of timers behind       *)
(* m_mutex, the timerfd armed for the first of them, and onTimer on the    *)
(* loop's thread, while user code on that and other threads adds, cancels  *)
(* and resets timers.                                                      *)
(*                                                                         *)
(* A TimerEvent is a number, which is also its address: m_timers is        *)
(* ordered by arrival time and then by address.  The clock of GetCurrentMS *)
(* and that of the timerfd are one clock.  A critical section is one step, *)
(* together with the reading of the clock before it; resetArriveTime has   *)
(* three: the clock read, the set purged, the timerfd set.  The read of    *)
(* one byte from a timerfd fails with EINVAL: it does not drain it.        *)
(* Bounds, for TLC: MaxTime ends the clock, each timer is made once.       *)
(***************************************************************************)
EXTENDS Naturals, Sequences, SequencesExt

CONSTANTS
    Timers,        \* the TimerEvents: numbers, for their order in memory
    Threads,       \* user threads other than the loop's
    Intervals,     \* the intervals user code asks for
    Starts,        \* the values of startNow passed to resetInterval
    MaxTime

ASSUME TimersAssumption == Timers \subseteq Nat /\ IsFiniteSet(Timers)
ASSUME TimesAssumption == Intervals \subseteq Nat /\ MaxTime \in Nat
ASSUME StartsAssumption == Starts \subseteq BOOLEAN

Loop == "loop"

VARIABLES
    now,           \* the clock
    timers,        \* m_timers
    ev,            \* of each TimerEvent: arrive, interval, recycle
    made,          \* the TimerEvents that exist
    fd,            \* the timerfd: when it expires (0: disarmed), has expired
    channel,       \* m_channel: new, listening (to READ), removed
    th,            \* of each thread: where it is in a call of the Timer, the
                   \*   clock it read, diff, the rest of a resetInterval;
                   \*   dead: the process followed a null pointer
    phase,         \* onTimer: poll (not in it), add, call
    recy,          \* recyTimer, what is left to add
    ready,         \* readyTimer, what is left to call
    cancelled,     \* history: timers that a delTimer took out
    slipped        \* history, of the resetArriveTime calls: one "missed" (it
                   \*   erased overdue timers or set the timerfd to 0), two
                   \*   made an "overlap", or one was "late" (the clock went
                   \*   on between its reading and timerfd_settime)

history == <<cancelled, slipped>>
vars == <<now, timers, ev, made, fd, channel, th, phase, recy, ready,
          history>>

Idle == [pc |-> "idle", now |-> 0, diff |-> 0, again |-> {}]

Init ==
    /\ now = 1 /\ timers = {} /\ made = {} /\ cancelled = {}
    /\ ev = [i \in Timers |-> [arrive |-> 0, interval |-> 0,
                               recycle |-> FALSE]]
    /\ fd = [at |-> 0, ready |-> FALSE]
    /\ channel = "new"
    /\ th = [t \in Threads \cup {Loop} |-> Idle]
    /\ phase = "poll" /\ recy = <<>> /\ ready = <<>>
    /\ slipped = {}

onTimer == <<phase, recy, ready>>

\* Comparator.
Before(i, j) == \/ ev[i].arrive < ev[j].arrive
                \/ ev[i].arrive = ev[j].arrive /\ i < j
First(S) == CHOOSE i \in S : \A j \in S \ {i} : Before(i, j)
Ordered(S) == {s \in SetToSeqs(S) :
                  \A k, l \in DOMAIN s : k < l => Before(s[k], s[l])}

\* Thread t goes on with resetArriveTime, or is done with the call; then a
\* resetInterval it is in has its part a left to do.
Resets(t, a) == th' = [th EXCEPT ![t] = [Idle EXCEPT !.pc = "reset",
                                                     !.again = a]]
Returns(t, a) == th' = [th EXCEPT ![t] =
                           IF a = {} THEN Idle
                           ELSE [Idle EXCEPT !.pc = "again", !.again = a]]

\* User code runs on the thread, and is in no call of the Timer.
MayCall(t) ==
    /\ th[t].pc = "idle"
    /\ t = Loop => phase = "poll" \/ (phase = "call" /\ ready # <<>>)

-----------------------------------------------------------------------------
(* addTimer, delTimer and resetInterval, on thread t.                      *)

\* Variant: only a timer added to the empty set arms the timerfd.
mustReset_WhenEmpty(i) == timers = {}

\* Variant: the timerfd is armed by onTimer alone.
mustReset_Never(i) == FALSE

\* The test of addTimer: i becomes the first.
mustReset(i) == timers = {} \/ ev'[i].arrive < ev[First(timers)].arrive

\* addTimer of the event that is ev'[i], up to the unlock.
Insert(t, i) ==
    /\ timers' = timers \cup {i}
    /\ cancelled' = cancelled \ {i}
    /\ IF mustReset(i) THEN Resets(t, {}) ELSE Returns(t, {})

\* addTimer(interval, cb, recycle).
AddTimer(t, i, n, r) ==
    /\ MayCall(t) /\ i \notin made
    /\ now + n <= MaxTime
    /\ made' = made \cup {i}
    /\ ev' = [ev EXCEPT ![i] = [arrive |-> now + n, interval |-> n,
                                recycle |-> r]]
    /\ Insert(t, i)
    /\ UNCHANGED <<now, fd, channel, onTimer, slipped>>

\* delTimer up to the unlock.  The erased node still holds its pointer when
\* it is read.  When the set has become empty, *begin() reads the node count
\* of the set, 0, as a pointer.
Erase(t, i, a) ==
    LET rest == timers \ {i}
        first == i \in timers /\ i = First(timers)
    IN  /\ timers' = rest
        /\ cancelled' = cancelled \cup (timers \cap {i})
        /\ IF first /\ rest = {}
           THEN th' = [u \in DOMAIN th |-> [Idle EXCEPT !.pc = "dead"]]
           ELSE IF first /\ ev[i].arrive < ev[First(rest)].arrive
           THEN Resets(t, a) ELSE Returns(t, a)

\* TimerEvent::cancel.
Cancel(t, i) ==
    /\ MayCall(t) /\ i \in made
    /\ Erase(t, i, {})
    /\ UNCHANGED <<now, ev, made, fd, channel, onTimer, slipped>>

\* TimerEvent::resetInterval, on the loop's thread: the cancel ...
ResetInterval(i, n, startNow) ==
    /\ MayCall(Loop) /\ i \in made
    /\ ~(n = ev[i].interval /\ ~startNow)
    /\ now + n <= MaxTime
    /\ Erase(Loop, i, {[i |-> i, n |-> n, startNow |-> startNow]})
    /\ UNCHANGED <<now, ev, made, fd, channel, onTimer, slipped>>

startTime(a) ==
    IF a.startNow THEN now ELSE ev[a.i].arrive - ev[a.i].interval

\* ... and the new arrival time, and addTimer.
ResetAdd ==
    /\ th[Loop].pc = "again"
    /\ \E a \in th[Loop].again :
          /\ ev' = [ev EXCEPT ![a.i].interval = a.n,
                              ![a.i].arrive = a.n + startTime(a)]
          /\ Insert(Loop, a.i)
    /\ UNCHANGED <<now, made, fd, channel, onTimer, slipped>>

-----------------------------------------------------------------------------
(* resetArriveTime, on thread t.                                           *)

\* The first critical section, and the clock.
ReadClock(t) ==
    /\ th[t].pc = "reset"
    /\ IF timers = {} THEN Returns(t, th[t].again)
       ELSE th' = [th EXCEPT ![t].pc = "purge", ![t].now = now]
    /\ slipped' = slipped \cup
          {"overlap" : u \in {v \in DOMAIN th \ {t} :
                                 th[v].pc \in {"purge", "settime"}}}
    /\ UNCHANGED <<now, timers, ev, made, fd, channel, onTimer, cancelled>>

\* What the second one does not erase.
NotOverdue(t) == {i \in timers : ev[i].arrive >= th[t].now}

\* The second critical section erases what is overdue, and computes diff.
Purge(t) ==
    LET left == NotOverdue(t)
    IN  /\ th[t].pc = "purge"
        /\ timers' = left
        /\ IF left = {} THEN Returns(t, th[t].again)
           ELSE th' = [th EXCEPT ![t].pc = "settime",
                          ![t].diff = ev[First(left)].arrive - th[t].now]
        /\ slipped' = slipped \cup
              {"missed" : i \in {j \in timers : ev[j].arrive <= th[t].now}}
        /\ UNCHANGED <<now, ev, made, fd, channel, onTimer, cancelled>>

\* timerfd_settime: relative, and a value of 0 disarms.
SetTime(t) ==
    /\ th[t].pc = "settime"
    /\ fd' = [at |-> IF th[t].diff = 0 THEN 0 ELSE now + th[t].diff,
              ready |-> FALSE]
    /\ Returns(t, th[t].again)
    /\ slipped' = slipped \cup {"late" : n \in {now} \ {th[t].now}}
    /\ UNCHANGED <<now, timers, ev, made, channel, onTimer, cancelled>>

-----------------------------------------------------------------------------
(* The loop's thread.                                                      *)

TimerCreated ==
    /\ channel = "new" /\ th[Loop].pc = "idle"
    /\ channel' = "listening"
    /\ UNCHANGED <<now, timers, ev, made, fd, th, onTimer, history>>

Due == {i \in timers : ev[i].arrive <= now}

\* onTimer: the critical section that takes out what is due.
Collect ==
    /\ channel = "listening" /\ fd.ready
    /\ phase = "poll" /\ th[Loop].pc = "idle"
    /\ phase' = "add"
    /\ ready' \in Ordered(Due)
    /\ recy' \in Ordered({i \in Due : ev[i].recycle})
    /\ ev' = [i \in Timers |->
                 IF i \in Due /\ ev[i].recycle
                 THEN [ev[i] EXCEPT !.arrive = now + ev[i].interval]
                 ELSE ev[i]]
    /\ timers' = timers \ Due
    /\ UNCHANGED <<now, made, fd, channel, th, history>>

\* addTimer(i, false) for each recycled timer.
AddAgain ==
    /\ phase = "add" /\ th[Loop].pc = "idle" /\ recy # <<>>
    /\ timers' = timers \cup {Head(recy)}
    /\ recy' = Tail(recy)
    /\ UNCHANGED <<now, ev, made, fd, channel, th, phase, ready, history>>

\* onTimer calls resetArriveTime, and goes on to the callbacks.
Rearm ==
    /\ phase = "add" /\ th[Loop].pc = "idle" /\ recy = <<>>
    /\ phase' = "call"
    /\ Resets(Loop, {})
    /\ UNCHANGED <<now, timers, ev, made, fd, channel, recy, ready, history>>

\* The callback of the first of readyTimer returns.
CallbackReturns ==
    /\ phase = "call" /\ th[Loop].pc = "idle" /\ ready # <<>>
    /\ ready' = Tail(ready)
    /\ UNCHANGED <<now, timers, ev, made, fd, channel, th, phase, recy,
                   history>>

OnTimerReturns ==
    /\ phase = "call" /\ th[Loop].pc = "idle" /\ ready = <<>>
    /\ phase' = "poll"
    /\ UNCHANGED <<now, timers, ev, made, fd, channel, th, recy, ready,
                   history>>

\* The owner calls timerDestroyed.
TimerDestroyed ==
    /\ channel = "listening" /\ MayCall(Loop)
    /\ channel' = "removed"
    /\ UNCHANGED <<now, timers, ev, made, fd, th, onTimer, history>>

-----------------------------------------------------------------------------
\* A millisecond passes; the timerfd expires, once.
Tick ==
    /\ now < MaxTime
    /\ now' = now + 1
    /\ fd' = IF fd.at # 0 /\ fd.at <= now' THEN [at |-> 0, ready |-> TRUE]
             ELSE fd
    /\ UNCHANGED <<timers, ev, made, channel, th, onTimer, history>>

ThreadGoesOn(t) == ReadClock(t) \/ Purge(t) \/ SetTime(t)

LoopGoesOn ==
    \/ TimerCreated \/ Collect \/ AddAgain \/ Rearm \/ OnTimerReturns
    \/ ResetAdd \/ ThreadGoesOn(Loop)

UserCalls(t) ==
    \E i \in Timers :
        \/ \E n \in Intervals, r \in BOOLEAN : AddTimer(t, i, n, r)
        \/ Cancel(t, i)

Next ==
    \/ Tick
    \/ LoopGoesOn
    \/ CallbackReturns
    \/ TimerDestroyed
    \/ \E t \in Threads : ThreadGoesOn(t)
    \/ \E t \in Threads \cup {Loop} : UserCalls(t)
    \/ \E i \in Timers, n \in Intervals, s \in Starts : ResetInterval(i, n, s)

Spec == Init /\ [][Next]_vars

\* Fairness: each thread finishes its call, the loop handles the timerfd,
\* callbacks return whatever they call, and time goes on.
FairSpec ==
    /\ Spec
    /\ WF_vars(LoopGoesOn) /\ SF_vars(CallbackReturns)
    /\ \A t \in Threads : WF_vars(ThreadGoesOn(t))
    /\ WF_vars(Tick)

-----------------------------------------------------------------------------
(* Properties.                                                             *)

\* While there are timers the timerfd has expired, or is armed for the first
\* of them or before, or somebody is about to arm it: but for the three ways
\* of slipping, no interleaving of addTimer, delTimer, resetInterval, onTimer
\* and the clock leaves a timer that the loop will wake up too late for.
ArmedInTime ==
    timers # {} /\ phase # "add" /\ slipped = {} =>
        \/ \E t \in DOMAIN th : th[t].pc # "idle"
        \/ fd.ready
        \/ fd.at # 0 /\ fd.at <= ev[First(timers)].arrive

\* The callback of i is being called.
Called(i) == phase = "call" /\ ready # <<>> /\ Head(ready) = i

\* A timer in m_timers is called in the end, unless it is cancelled, the
\* Timer is taken off the loop, or resetArriveTime missed or overlapped (or
\* its time, or the timerfd's, is not reached in this instance); one that is
\* only late does not matter.
TimersRun ==
    \A i \in Timers :
        (i \in timers) ~> (\/ Called(i) \/ i \in cancelled
                          \/ channel = "removed" \/ slipped \ {"late"} # {}
                          \/ th[Loop].pc = "dead"
                          \/ fd.at > MaxTime \/ ev[i].arrive > MaxTime)
=============================================================================
