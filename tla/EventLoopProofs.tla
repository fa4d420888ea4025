-------------------------- MODULE EventLoopProofs --------------------------
(***************************************************************************)
(* Proofs about EventLoop, for every set of functors and of threads, and   *)
(* about its EPollPoller, for every set of channels and every MaxEvents.   *)
(***************************************************************************)
EXTENDS EventLoop, EPollPoller, SequenceTheorems, TLAPS

-----------------------------------------------------------------------------
(* Facts about sequences.                                                  *)

\* The elements of a sequence with one more at its end.
LEMMA RangeOfAppend ==
    ASSUME NEW S, NEW s \in Seq(S), NEW x \in S
    PROVE  Range(Append(s, x)) = Range(s) \cup {x}
<1>1. Append(s, x) \in Seq(S) /\ Len(Append(s, x)) = Len(s) + 1
    OBVIOUS
<1>2. DOMAIN s = 1..Len(s) /\ DOMAIN Append(s, x) = 1..(Len(s) + 1)
    BY <1>1
<1>3. \A i \in DOMAIN s : Append(s, x)[i] = s[i]
    BY <1>2
<1>4. Append(s, x)[Len(s) + 1] = x
    OBVIOUS
<1>5. Len(s) \in Nat
    OBVIOUS
<1>6. ASSUME NEW y \in Range(Append(s, x)) PROVE y \in Range(s) \cup {x}
    BY <1>2, <1>3, <1>4, <1>5, <1>6 DEF Range
<1>7. ASSUME NEW y \in Range(s) \cup {x} PROVE y \in Range(Append(s, x))
    BY <1>2, <1>3, <1>4, <1>5, <1>7 DEF Range
<1> QED BY <1>6, <1>7

\* The elements of a concatenation.
LEMMA RangeOfConcat ==
    ASSUME NEW S, NEW s \in Seq(S), NEW u \in Seq(S)
    PROVE  Range(s \o u) = Range(s) \cup Range(u)
<1>1. /\ s \o u \in Seq(S)
      /\ Len(s \o u) = Len(s) + Len(u)
      /\ Len(s) \in Nat /\ Len(u) \in Nat
    OBVIOUS
<1>2. /\ DOMAIN s = 1..Len(s)
      /\ DOMAIN u = 1..Len(u)
      /\ DOMAIN (s \o u) = 1..(Len(s) + Len(u))
    BY <1>1
<1>3. \A i \in 1..Len(s) : (s \o u)[i] = s[i]
    BY <1>1
<1>4. \A i \in 1..Len(u) : (s \o u)[i + Len(s)] = u[i]
    BY <1>1
<1>5. ASSUME NEW y \in Range(s \o u) PROVE y \in Range(s) \cup Range(u)
    <2>1. PICK i \in 1..(Len(s) + Len(u)) : y = (s \o u)[i]
        BY <1>2, <1>5 DEF Range
    <2>2. CASE i <= Len(s)
        BY <2>1, <2>2, <1>1, <1>2, <1>3 DEF Range
    <2>3. CASE i > Len(s)
        <3>1. i - Len(s) \in 1..Len(u) /\ (i - Len(s)) + Len(s) = i
            BY <2>1, <2>3, <1>1
        <3>2. y = u[i - Len(s)]
            BY <3>1, <2>1, <1>4
        <3> QED BY <3>1, <3>2, <1>2 DEF Range
    <2> QED BY <2>1, <2>2, <2>3, <1>1
<1>6. ASSUME NEW y \in Range(s) PROVE y \in Range(s \o u)
    BY <1>1, <1>2, <1>3, <1>6 DEF Range
<1>7. ASSUME NEW y \in Range(u) PROVE y \in Range(s \o u)
    <2>1. PICK i \in 1..Len(u) : y = u[i]
        BY <1>2, <1>7 DEF Range
    <2>2. i + Len(s) \in 1..(Len(s) + Len(u)) /\ y = (s \o u)[i + Len(s)]
        BY <2>1, <1>1, <1>4
    <2> QED BY <2>2, <1>2 DEF Range
<1> QED BY <1>5, <1>6, <1>7

\* The queue the executor sees grows at its end, and shrinks at its head.
LEMMA QueueGrows ==
    ASSUME NEW S, NEW s \in Seq(S), NEW u \in Seq(S), NEW x \in S
    PROVE  s \o Append(u, x) = Append(s \o u, x)
    OBVIOUS

\* Taking the first functor leaves the others in their order.
LEMMA QueueShrinks ==
    ASSUME NEW S, NEW s \in Seq(S), NEW u \in Seq(S), s # <<>>
    PROVE  /\ s \o u # <<>>
           /\ Head(s \o u) = Head(s)
           /\ Tail(s \o u) = Tail(s) \o u
<1>1. Len(s) \in Nat \ {0} /\ Len(u) \in Nat
    BY EmptySeq
<1>2. /\ s \o u \in Seq(S)
      /\ Len(s \o u) = Len(s) + Len(u)
    BY <1>1
<1>3. s \o u # <<>> /\ Head(s \o u) = Head(s)
    BY <1>1, <1>2
<1>4. Tail(s) \in Seq(S) /\ Len(Tail(s)) = Len(s) - 1
    BY <1>1, HeadTailProperties
<1>5. Tail(s \o u) \in Seq(S) /\ Len(Tail(s \o u)) = Len(s) + Len(u) - 1
    BY <1>1, <1>2, <1>3, HeadTailProperties
<1>6. ASSUME NEW i \in 1..(Len(s) + Len(u) - 1)
      PROVE  Tail(s \o u)[i] = (Tail(s) \o u)[i]
    BY <1>1, <1>2, <1>3, <1>4, HeadTailProperties
<1> QED BY <1>1, <1>3, <1>4, <1>5, <1>6, SeqEqual

-----------------------------------------------------------------------------
(* Type correctness.                                                       *)

\* Every reachable state of the loop is well typed, and the flag and the
\* vectors of doPendingFunctors and of loop() are at rest outside their phase.
THEOREM TypeCorrect == Spec => []TypeOK
<1>1. Init => TypeOK
    <2> SUFFICES ASSUME Init PROVE TypeOK
        OBVIOUS
    <2>1. ~calling /\ lpc = "out" /\ functors = <<>> /\ active = {}
        BY DEF Init
    <2>2. PhasesOK
        BY <2>1 DEF PhasesOK
    <2>3. /\ looping \in BOOLEAN /\ calling \in BOOLEAN
          /\ readable \in BOOLEAN
        BY DEF Init
    <2>4. /\ pending \in Seq(Functors) /\ functors \in Seq(Functors)
          /\ ran \in Seq(Functors)
        BY DEF Init
    <2>5. tpc \in [Threads -> {"idle", "wakeup"}]
        BY DEF Init
    <2>6. active \subseteq {Wakeup, IO} /\ lpc \in LoopPcs
             /\ early \subseteq Functors
        BY DEF Init, LoopPcs
    <2> QED BY <2>2, <2>3, <2>4, <2>5, <2>6 DEF TypeOK
<1>2. TypeOK /\ [Next]_vars => TypeOK'
    <2> SUFFICES ASSUME TypeOK, [Next]_vars PROVE TypeOK'
        OBVIOUS
    <2> USE DEF TypeOK, PhasesOK, LoopPcs
    <2>1. CASE UNCHANGED vars
        BY <2>1 DEF vars
    <2>2. CASE Loop
        BY <2>2 DEF Loop
    <2>3. CASE LoopThread
        <3>1. CASE LoopTest BY <3>1 DEF LoopTest
        <3>2. CASE HandleRead BY <3>2 DEF HandleRead
        <3>3. CASE HandleIO BY <3>3 DEF HandleIO
        <3>4. CASE EventsHandled BY <3>4 DEF EventsHandled
        <3>5. CASE BeginPending BY <3>5 DEF BeginPending
        <3>6. CASE SwapPending BY <3>6 DEF SwapPending
        <3>7. CASE RunFunctor BY <3>7 DEF RunFunctor
        <3>8. CASE FunctorReturns BY <3>8 DEF FunctorReturns
        <3>9. CASE EndPending BY <3>9 DEF EndPending
        <3>10. CASE SelfWakeup BY <3>10 DEF SelfWakeup
        <3> QED BY <2>3, <3>1, <3>2, <3>3, <3>4, <3>5, <3>6, <3>7, <3>8,
                   <3>9, <3>10 DEF LoopThread
    <2>4. CASE \E A \in SUBSET {Wakeup, IO} : PollReturns(A)
        BY <2>4 DEF PollReturns
    <2>5. CASE SelfQuit
        BY <2>5 DEF SelfQuit, InCallback
    <2>6. CASE \E f \in Functors : SelfQueue(f)
        <3>1. PICK f \in Functors : SelfQueue(f)
            BY <2>6
        <3>2. CASE calling
            BY <3>1, <3>2 DEF SelfQueue, InCallback, MustWakeup
        <3>3. CASE ~calling
            BY <3>1, <3>3 DEF SelfQueue, InCallback, MustWakeup
        <3> QED BY <3>2, <3>3
    <2>7. CASE \E t \in Threads : Quit(t)
        <3>1. PICK t \in Threads : Quit(t)
            BY <2>7
        <3>2. tpc' \in [Threads -> {"idle", "wakeup"}]
            BY <3>1 DEF Quit
        <3>3. looping' \in BOOLEAN
            BY <3>1 DEF Quit
        <3> QED BY <3>1, <3>2, <3>3 DEF Quit
    <2>8. CASE \E t \in Threads : WakeupFromThread(t)
        BY <2>8 DEF WakeupFromThread
    <2>9. CASE \E t \in Threads, f \in Functors : QueueInLoop(t, f)
        BY <2>9 DEF QueueInLoop
    <2> QED BY <2>1, <2>2, <2>3, <2>4, <2>5, <2>6, <2>7, <2>8, <2>9
            DEF Next, PollEvent
<1> QED BY <1>1, <1>2, PTL DEF Spec

-----------------------------------------------------------------------------
(* No lost wakeup.  NoLostWakeup speaks of epoll_wait only; inductively, an *)
(* announced functor in the queue is backed, wherever the loop thread is,   *)
(* by the eventfd, by a write still to come, or by a swap that the loop     *)
(* thread reaches before it polls again.                                    *)

\* The loop thread polls only after it has swapped the queue out, or written
\* the eventfd itself.
SwapAhead == lpc \in {"handle", "begin", "swap", "push"}

WakeInv == Announced # {} => readable \/ WakeupComing \/ SwapAhead

\* A step that leaves queue, eventfd, other threads and location alone keeps
\* the invariant; so does one that moves to a location with a swap ahead.
LEMMA WakeInvFrame ==
    ASSUME WakeInv, UNCHANGED <<pending, readable, tpc, early>>,
           SwapAhead => SwapAhead'
    PROVE  WakeInv'
    BY DEF WakeInv, Announced, Range, WakeupComing

\* A loop with a swap ahead of it satisfies WakeInv, whatever is queued.
LEMMA WakeInvSwapAhead ==
    ASSUME SwapAhead'
    PROVE  WakeInv'
    BY DEF WakeInv

\* While the loop is in epoll_wait with an announced functor queued, the
\* eventfd is readable or about to be written (queueInLoop's wakeup against
\* handleRead and the swap of doPendingFunctors).
THEOREM NeverLosesWakeup == Spec => []NoLostWakeup
<1>1. Init => WakeInv
    BY DEF Init, WakeInv, Announced, Range
<1>2. TypeOK /\ WakeInv /\ [Next]_vars => WakeInv'
    <2> SUFFICES ASSUME TypeOK, WakeInv, [Next]_vars PROVE WakeInv'
        OBVIOUS
    <2>1. CASE UNCHANGED vars
        BY <2>1, WakeInvFrame DEF vars, SwapAhead
    <2>2. CASE Loop
        BY <2>2, WakeInvFrame DEF Loop, SwapAhead
    <2>3. CASE LoopThread
        <3>1. CASE LoopTest BY <3>1, WakeInvFrame DEF LoopTest, SwapAhead
        <3>2. CASE HandleRead
            BY <3>2, WakeInvSwapAhead DEF HandleRead, SwapAhead
        <3>3. CASE HandleIO
            BY <3>3, WakeInvSwapAhead DEF HandleIO, SwapAhead
        <3>4. CASE EventsHandled
            BY <3>4, WakeInvSwapAhead DEF EventsHandled, SwapAhead
        <3>5. CASE BeginPending
            BY <3>5, WakeInvSwapAhead DEF BeginPending, SwapAhead
        <3>6. CASE SwapPending
            BY <3>6 DEF SwapPending, WakeInv, Announced, Range
        <3>7. CASE RunFunctor
            BY <3>7, WakeInvFrame DEF RunFunctor, SwapAhead
        <3>8. CASE FunctorReturns
            BY <3>8, WakeInvFrame DEF FunctorReturns, SwapAhead
        <3>9. CASE EndPending
            BY <3>9, WakeInvFrame DEF EndPending, SwapAhead
        <3>10. CASE SelfWakeup
            BY <3>10 DEF SelfWakeup, WakeInv
        <3> QED BY <2>3, <3>1, <3>2, <3>3, <3>4, <3>5, <3>6, <3>7, <3>8,
                   <3>9, <3>10 DEF LoopThread
    <2>4. CASE \E A \in SUBSET {Wakeup, IO} : PollReturns(A)
        BY <2>4, WakeInvSwapAhead DEF PollReturns, SwapAhead
    <2>5. CASE SelfQuit
        BY <2>5, WakeInvFrame DEF SelfQuit, SwapAhead
    <2>6. CASE \E f \in Functors : SelfQueue(f)
        <3>1. PICK f \in Functors : SelfQueue(f)
            BY <2>6
        <3>2. CASE lpc = "out"
            \* f joins early, so the announced functors stay the same
            <4>1. ~calling
                BY <3>2 DEF TypeOK, PhasesOK
            <4>2. Range(pending)' = Range(pending) \cup {f}
                <5>1. pending' = Append(pending, f) /\ pending \in Seq(Functors)
                    BY <3>1 DEF SelfQueue, TypeOK
                <5> QED BY <5>1, RangeOfAppend
            <4>3. early' = early \cup {f}
                BY <3>1, <3>2 DEF SelfQueue
            <4>4. Announced' \subseteq Announced
                BY <4>2, <4>3 DEF Announced
            <4>5. lpc' = lpc /\ readable' = readable /\ tpc' = tpc
                BY <4>1, <3>1 DEF SelfQueue, MustWakeup
            <4> QED BY <4>4, <4>5 DEF WakeInv, WakeupComing, SwapAhead
        <3>3. CASE lpc = "handle"
            <4>1. ~calling
                BY <3>3 DEF TypeOK, PhasesOK
            <4> QED BY <4>1, <3>1, <3>3, WakeInvSwapAhead
                    DEF SelfQueue, MustWakeup, SwapAhead
        <3>4. CASE lpc = "body"
            <4>1. calling
                BY <3>4 DEF TypeOK, PhasesOK
            <4> QED BY <4>1, <3>1, WakeInvSwapAhead
                    DEF SelfQueue, MustWakeup, SwapAhead
        <3> QED BY <3>1, <3>2, <3>3, <3>4 DEF SelfQueue, InCallback
    <2>7. CASE \E t \in Threads : Quit(t)
        <3>1. PICK t \in Threads : Quit(t)
            BY <2>7
        <3>2. tpc'[t] = "wakeup"
            BY <3>1 DEF Quit, TypeOK
        <3> QED BY <3>2 DEF WakeInv, WakeupComing
    <2>8. CASE \E t \in Threads : WakeupFromThread(t)
        BY <2>8 DEF WakeupFromThread, WakeInv
    <2>9. CASE \E t \in Threads, f \in Functors : QueueInLoop(t, f)
        <3>1. PICK t \in Threads, f \in Functors : QueueInLoop(t, f)
            BY <2>9
        <3>2. tpc'[t] = "wakeup"
            BY <3>1 DEF QueueInLoop, TypeOK
        <3> QED BY <3>2 DEF WakeInv, WakeupComing
    <2> QED BY <2>1, <2>2, <2>3, <2>4, <2>5, <2>6, <2>7, <2>8, <2>9
            DEF Next, PollEvent
<1>3. WakeInv => NoLostWakeup
    BY DEF WakeInv, NoLostWakeup, SwapAhead
<1> QED BY <1>1, <1>2, <1>3, TypeCorrect, PTL DEF Spec

\* quit() on a loop that has set m_looping always gets the loop thread out of
\* epoll_wait: m_looping is not false there without a wakeup present or
\* coming.
THEOREM NeverLosesQuit == Spec => []NoLostQuit
<1>1. Init => NoLostQuit
    BY DEF Init, NoLostQuit
<1>2. TypeOK /\ NoLostQuit /\ [Next]_vars => NoLostQuit'
    <2> SUFFICES ASSUME TypeOK, NoLostQuit, [Next]_vars, lpc' = "poll",
                        ~looping'
                 PROVE  readable' \/ WakeupComing'
        BY DEF NoLostQuit
    <2>1. CASE UNCHANGED vars
        BY <2>1 DEF vars, NoLostQuit, WakeupComing
    <2>2. CASE LoopThread
        BY <2>2 DEF LoopThread, LoopTest, HandleRead, HandleIO,
                    EventsHandled, BeginPending, SwapPending, RunFunctor,
                    FunctorReturns, EndPending, SelfWakeup
    <2>3. CASE Loop \/ SelfQuit \/ \E A \in SUBSET {Wakeup, IO} : PollReturns(A)
        BY <2>3 DEF Loop, SelfQuit, InCallback, PollReturns
    <2>4. CASE \E f \in Functors : SelfQueue(f)
        BY <2>4 DEF SelfQueue, InCallback
    <2>5. CASE \E t \in Threads : Quit(t)
        <3>1. PICK t \in Threads : Quit(t)
            BY <2>5
        <3>2. tpc'[t] = "wakeup"
            BY <3>1 DEF Quit, TypeOK
        <3> QED BY <3>2 DEF WakeupComing
    <2>6. CASE \E t \in Threads : WakeupFromThread(t)
        BY <2>6 DEF WakeupFromThread
    <2>7. CASE \E t \in Threads, f \in Functors : QueueInLoop(t, f)
        <3>1. PICK t \in Threads, f \in Functors : QueueInLoop(t, f)
            BY <2>7
        <3>2. tpc'[t] = "wakeup"
            BY <3>1 DEF QueueInLoop, TypeOK
        <3> QED BY <3>2 DEF WakeupComing
    <2> QED BY <2>1, <2>2, <2>3, <2>4, <2>5, <2>6, <2>7 DEF Next, PollEvent
<1> QED BY <1>1, <1>2, TypeCorrect, PTL DEF Spec

-----------------------------------------------------------------------------
(* The loop implements the serial executor.                                *)

\* A functor not queued yet is one the executor has not been handed.
LEMMA QueuedIsHanded ==
    ASSUME TypeOK
    PROVE  Queued = Executor!Handed
<1>1. Range(functors \o pending) = Range(functors) \cup Range(pending)
    BY RangeOfConcat DEF TypeOK
<1> QED BY <1>1 DEF Queued, Executor!Handed, Range

\* A push at the end of m_pendingFunctors is a Submit.
LEMMA PushIsSubmit ==
    ASSUME TypeOK, NEW f \in Functors, f \notin Queued,
           pending' = Append(pending, f), UNCHANGED <<functors, ran>>
    PROVE  Executor!Next
<1>1. functors \o Append(pending, f) = Append(functors \o pending, f)
    BY QueueGrows DEF TypeOK
<1>2. Executor!Submit(f)
    BY <1>1, QueuedIsHanded DEF Executor!Submit
<1> QED BY <1>2 DEF Executor!Next

\* The functors start in the order they were queued, each once: queueInLoop
\* from any thread is a Submit, each call in doPendingFunctors a Start, and
\* the swap and every other step changes nothing the executor shows.
THEOREM LoopImplementsExecutor == Spec => ImplementsExecutor
<1>1. Init => Executor!Init
    BY DEF Init, Executor!Init
<1>2. TypeOK /\ [Next]_vars => [Executor!Next]_(Executor!xvars)
    <2> SUFFICES ASSUME TypeOK, [Next]_vars
                 PROVE  Executor!Next \/ UNCHANGED Executor!xvars
        OBVIOUS
    <2>1. CASE UNCHANGED <<pending, functors, ran>>
        BY <2>1 DEF Executor!xvars
    <2>2. CASE SwapPending
        <3>1. functors = <<>>
            BY <2>2 DEF SwapPending, TypeOK, PhasesOK
        <3>2. functors \o pending = pending /\ pending \o <<>> = pending
            BY <3>1 DEF TypeOK
        <3> QED BY <2>2, <3>2 DEF SwapPending, Executor!xvars
    <2>3. CASE RunFunctor
        <3>1. /\ functors \o pending # <<>>
              /\ Head(functors \o pending) = Head(functors)
              /\ Tail(functors \o pending) = Tail(functors) \o pending
            BY <2>3, QueueShrinks DEF RunFunctor, TypeOK
        <3>2. Executor!Start
            BY <2>3, <3>1 DEF RunFunctor, Executor!Start
        <3> QED BY <3>2 DEF Executor!Next
    <2>4. CASE \E f \in Functors : SelfQueue(f)
        BY <2>4, PushIsSubmit DEF SelfQueue
    <2>5. CASE \E t \in Threads, f \in Functors : QueueInLoop(t, f)
        BY <2>5, PushIsSubmit DEF QueueInLoop
    <2>6. CASE LoopThread /\ ~SwapPending /\ ~RunFunctor
        BY <2>6, <2>1 DEF LoopThread, LoopTest, HandleRead, HandleIO,
              EventsHandled, BeginPending, FunctorReturns, EndPending,
              SelfWakeup
    <2>7. CASE Loop \/ SelfQuit \/ \E A \in SUBSET {Wakeup, IO} : PollReturns(A)
        BY <2>7, <2>1 DEF Loop, SelfQuit, PollReturns
    <2>8. CASE \E t \in Threads : Quit(t) \/ WakeupFromThread(t)
        BY <2>8, <2>1 DEF Quit, WakeupFromThread
    <2>9. CASE UNCHANGED vars
        BY <2>9, <2>1 DEF vars
    <2> QED BY <2>2, <2>3, <2>4, <2>5, <2>6, <2>7, <2>8, <2>9
            DEF Next, PollEvent
<1> QED BY <1>1, <1>2, TypeCorrect, PTL
        DEF Spec, ImplementsExecutor, Executor!Spec

-----------------------------------------------------------------------------
(* The poller: facts about the operators of Channel.                       *)

\* updateChannel on a channel whose m_event was just changed: if status, map
\* and epoll set agreed before, they agree after, and the channel is not NEW.
LEMMA UpdateKeepsConsistent ==
    ASSUME NEW x \in ChannelType, Consistent(x), NEW E \in SUBSET Events
    PROVE  LET n == updateChannel([x EXCEPT !.event = E])
           IN  n \in ChannelType /\ Consistent(n) /\ n.status # "NEW"
<1> DEFINE y == [x EXCEPT !.event = E]
<1>1. /\ y \in ChannelType /\ y.status = x.status /\ y.event = E
      /\ y.mapped = x.mapped /\ y.epoll = x.epoll
    BY DEF ChannelType
<1> HIDE DEF y
<1>2. CASE y.status \in {"NEW", "DELETE"}
    <2>1. updateChannel(y) = [y EXCEPT !.mapped = TRUE, !.status = "ADD",
                                       !.epoll = TRUE]
        BY <1>2 DEF updateChannel
    <2> QED BY <2>1, <1>1 DEF ChannelType, Statuses, Consistent, y
<1>3. CASE y.status = "ADD" /\ isNoneEvent(y)
    <2>1. updateChannel(y) = [y EXCEPT !.status = "DELETE", !.epoll = FALSE]
        BY <1>3 DEF updateChannel
    <2> QED BY <2>1, <1>1, <1>3
            DEF ChannelType, Statuses, Consistent, isNoneEvent, y
<1>4. CASE y.status = "ADD" /\ ~isNoneEvent(y)
    <2>1. updateChannel(y) = y
        BY <1>4 DEF updateChannel
    <2> QED BY <2>1, <1>1, <1>4
            DEF ChannelType, Statuses, Consistent, isNoneEvent, y
<1>5. y.status \in {"NEW", "DELETE"} \/ y.status = "ADD"
    BY <1>1 DEF ChannelType, Statuses
<1> QED BY <1>2, <1>3, <1>4, <1>5 DEF y

\* removeChannel leaves a quiet channel in status NEW, in neither the map nor
\* the epoll set.
LEMMA RemoveKeepsConsistent ==
    ASSUME NEW x \in ChannelType, isNoneEvent(x)
    PROVE  /\ removeChannel(x) \in ChannelType
           /\ Consistent(removeChannel(x))
    BY DEF removeChannel, ChannelType, Statuses, Consistent, isNoneEvent

-----------------------------------------------------------------------------
(* The poller's invariant: what NoFreedActive needs is that  a channel the *)
(* loop has still to reach cannot get to status NEW, where it could be     *)
(* freed.                                                                  *)

TodoRegistered ==
    /\ ~handling => todo = {} /\ current = None
    /\ current \notin todo
    /\ \A c \in todo : c \in live /\ chan[c].status # "NEW"

PollerInv ==
    PollerTypeOK /\ RegistrationConsistent /\ NoFreedRegistered /\ TodoRegistered

\* A channel's record is replaced by a consistent one that is not NEW.
LEMMA UpdateStep ==
    ASSUME PollerInv, NEW c \in live, NEW n \in ChannelType,
           Consistent(n), n.status # "NEW",
           chan' = [chan EXCEPT ![c] = n],
           UNCHANGED <<live, freed, round>>
    PROVE  PollerInv'
<1>1. /\ c \in Channels
      /\ chan' \in [Channels -> ChannelType]
      /\ chan'[c] = n
      /\ \A d \in Channels \ {c} : chan'[d] = chan[d]
    BY DEF PollerInv, PollerTypeOK
<1>2. PollerTypeOK'
    BY <1>1 DEF PollerInv, PollerTypeOK, round
<1>3. RegistrationConsistent'
    BY <1>1 DEF PollerInv, RegistrationConsistent
<1>4. NoFreedRegistered'
    BY <1>1 DEF PollerInv, NoFreedRegistered
<1>5. TodoRegistered'
    BY <1>1 DEF PollerInv, TodoRegistered, PollerTypeOK, round
<1> QED BY <1>2, <1>3, <1>4, <1>5 DEF PollerInv

\* Every step of the loop and the owners preserves the invariant.
LEMMA PollerInductive == PollerInv /\ [PollerNext]_pollerVars => PollerInv'
<1> SUFFICES ASSUME PollerInv, [PollerNext]_pollerVars PROVE PollerInv'
    OBVIOUS
<1>1. CASE UNCHANGED pollerVars
    BY <1>1 DEF pollerVars, PollerInv, PollerTypeOK, RegistrationConsistent,
                NoFreedRegistered, TodoRegistered
<1>2. ASSUME NEW A \in SUBSET Channels, Poll(A) PROVE PollerInv'
    <2>1. \A c \in A : chan[c].epoll
        BY <1>2 DEF Poll
    <2>2. \A c \in A : c \in live /\ chan[c].status = "ADD"
        BY <2>1 DEF PollerInv, NoFreedRegistered, RegistrationConsistent,
                    Consistent
    <2>3. current \notin A
        BY <1>2, NoneAssumption DEF Poll, PollerInv, TodoRegistered
    <2> QED BY <1>2, <2>2, <2>3 DEF Poll, PollerInv, PollerTypeOK,
               RegistrationConsistent, NoFreedRegistered, TodoRegistered
<1>3. CASE HandleDone
    BY <1>3 DEF HandleDone, PollerInv, PollerTypeOK, RegistrationConsistent,
                NoFreedRegistered, TodoRegistered
<1>4. ASSUME NEW c \in Channels, HandleEvent(c) PROVE PollerInv'
    BY <1>4 DEF HandleEvent, PollerInv, PollerTypeOK, RegistrationConsistent,
                NoFreedRegistered, TodoRegistered
<1>5. ASSUME NEW c \in Channels, Create(c) PROVE PollerInv'
    BY <1>5 DEF Create, round, PollerInv, PollerTypeOK, RegistrationConsistent,
                NoFreedRegistered, TodoRegistered
<1>6. ASSUME NEW c \in Channels, NEW E \in SUBSET Events,
             Update(c, updateChannel([chan[c] EXCEPT !.event = E]))
      PROVE  PollerInv'
    <2> DEFINE n == updateChannel([chan[c] EXCEPT !.event = E])
    <2>1. chan[c] \in ChannelType /\ Consistent(chan[c])
        BY DEF PollerInv, PollerTypeOK, RegistrationConsistent
    <2>2. n \in ChannelType /\ Consistent(n) /\ n.status # "NEW"
        BY <2>1, UpdateKeepsConsistent
    <2>3. /\ c \in live
          /\ chan' = [chan EXCEPT ![c] = n]
          /\ UNCHANGED <<live, freed, round>>
        BY <1>6 DEF Update
    <2> HIDE DEF n
    <2> QED BY <2>2, <2>3, UpdateStep
<1>7. ASSUME NEW c \in Channels, NEW e \in Events,
             AddListenEvents(c, e) \/ DelListenEvents(c, e)
      PROVE  PollerInv'
    <2>1. chan[c].event \in SUBSET Events
        BY DEF PollerInv, PollerTypeOK, ChannelType
    <2>2. CASE AddListenEvents(c, e)
        <3>1. chan[c].event \cup {e} \in SUBSET Events
            BY <2>1
        <3> QED BY <3>1, <2>2, <1>6 DEF AddListenEvents, addListenEvents
    <2>3. CASE DelListenEvents(c, e)
        <3>1. chan[c].event \ {e} \in SUBSET Events
            BY <2>1
        <3> QED BY <3>1, <2>3, <1>6 DEF DelListenEvents, delListenEvents
    <2> QED BY <1>7, <2>2, <2>3
<1>8. ASSUME NEW c \in Channels, DelAllListenEvents(c) PROVE PollerInv'
    <2>1. {} \in SUBSET Events
        OBVIOUS
    <2> QED BY <2>1, <1>6, <1>8 DEF DelAllListenEvents, delAllListenEvents
<1>9. ASSUME NEW c \in Channels, Remove(c) PROVE PollerInv'
    <2> DEFINE n == removeChannel(chan[c])
    <2>1. chan[c] \in ChannelType /\ isNoneEvent(chan[c])
        BY <1>9 DEF Remove, removeAsserts, PollerInv, PollerTypeOK
    <2>2. n \in ChannelType /\ Consistent(n)
        BY <2>1, RemoveKeepsConsistent
    <2>3. ~n.mapped /\ ~n.epoll
        BY <2>1 DEF removeChannel, ChannelType
    <2> HIDE DEF n
    <2>4. /\ chan' \in [Channels -> ChannelType]
          /\ chan'[c] = n
          /\ \A d \in Channels \ {c} : chan'[d] = chan[d]
        BY <1>9, <2>2 DEF Remove, PollerInv, PollerTypeOK, n
    <2>5. UNCHANGED <<live, freed, activeChannels, todo, current, handling>>
        BY <1>9 DEF Remove, round
    <2>6. c \notin todo
        \* the assertion of EventLoop::removeChannel
        BY <1>9 DEF Remove, RemovalAllowed, PollerInv, PollerTypeOK,
                    TodoRegistered
    <2>7. PollerTypeOK' /\ RegistrationConsistent'
        BY <2>2, <2>4, <2>5 DEF PollerInv, PollerTypeOK, RegistrationConsistent
    <2>8. NoFreedRegistered'
        BY <2>3, <2>4, <2>5 DEF PollerInv, NoFreedRegistered
    <2>9. TodoRegistered'
        BY <2>4, <2>5, <2>6 DEF PollerInv, TodoRegistered, PollerTypeOK
    <2> QED BY <2>7, <2>8, <2>9 DEF PollerInv
<1>10. ASSUME NEW c \in Channels, Free(c) PROVE PollerInv'
    <2>1. ~chan[c].mapped /\ ~chan[c].epoll /\ c \notin todo
        BY <1>10 DEF Free, PollerInv, RegistrationConsistent, Consistent,
                     TodoRegistered
    <2> QED BY <1>10, <2>1 DEF Free, round, PollerInv, PollerTypeOK,
               RegistrationConsistent, NoFreedRegistered, TodoRegistered
<1> QED BY <1>1, <1>2, <1>3, <1>4, <1>5, <1>7, <1>8, <1>9, <1>10
        DEF PollerNext, Calls

\* The invariant holds before the first channel.
LEMMA PollerInitially == PollerInit => PollerInv
<1> SUFFICES ASSUME PollerInit PROVE PollerInv
    OBVIOUS
<1>1. \A c \in Channels : chan[c] = NewChannel
    BY DEF PollerInit
<1>2. NewChannel \in ChannelType /\ Consistent(NewChannel)
    BY DEF NewChannel, ChannelType, Statuses, Consistent
<1>3. ~NewChannel.mapped /\ ~NewChannel.epoll
    BY DEF NewChannel
<1>4. PollerTypeOK
    BY <1>1, <1>2 DEF PollerInit, PollerTypeOK
<1>5. RegistrationConsistent /\ NoFreedRegistered
    BY <1>1, <1>2, <1>3 DEF RegistrationConsistent, NoFreedRegistered
<1>6. TodoRegistered
    BY DEF PollerInit, TodoRegistered
<1> QED BY <1>4, <1>5, <1>6 DEF PollerInv

\* Status, map and epoll set agree on every channel after any sequence of
\* updateChannel, removeChannel and event handling that meets the assertions.
THEOREM RegistrationAlwaysConsistent == PollerSpec => []RegistrationConsistent
<1>1. PollerInv => RegistrationConsistent
    BY DEF PollerInv
<1> QED BY <1>1, PollerInitially, PollerInductive, PTL DEF PollerSpec

\* No freed channel is left in the map or the epoll set (what the assertions
\* of EPollPoller::removeChannel buy), and the loop over m_activeChannels never
\* reaches one (what the assertion of EventLoop::removeChannel buys).
THEOREM FreedNeverReached == PollerSpec => []NoFreedReached
<1>1. PollerInv => NoFreedRegistered
    BY DEF PollerInv
<1>2. PollerInv => NoFreedActive
    BY DEF PollerInv, TodoRegistered, NoFreedActive
<1>3. PollerInv => NoFreedReached
    BY <1>1, <1>2 DEF NoFreedReached
<1> QED BY <1>3, PollerInitially, PollerInductive, PTL DEF PollerSpec
=============================================================================
