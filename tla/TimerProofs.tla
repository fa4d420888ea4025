---------------------------- MODULE TimerProofs ----------------------------
(***************************************************************************)
(* Proofs about Timer: with any number of timers and of threads that add,  *)
(* cancel and reset them, the timerfd is armed in time for the first one,  *)
(* unless a resetArriveTime slipped.                                       *)
(***************************************************************************)
EXTENDS Timer, FiniteSetTheorems, WellFoundedInduction, NaturalsInduction, TLAPS

Callers == Threads \cup {Loop}

EventType == {e \in [arrive : Nat, interval : Nat, recycle : BOOLEAN] :
                  e.interval <= e.arrive}
AgainType == [i : Timers, n : Intervals, startNow : BOOLEAN]
CallType ==
    [pc : {"idle", "reset", "purge", "settime", "again", "dead"},
     now : Nat, diff : Nat, again : SUBSET AgainType]

Types ==
    /\ now \in Nat /\ timers \in SUBSET Timers
    /\ ev \in [Timers -> EventType]
    /\ fd \in [at : Nat, ready : BOOLEAN]
    /\ th \in [Callers -> CallType]
    /\ recy \in Seq(Timers)
    /\ \A t \in Callers : th[t].now <= now

\* Some thread is at one of the places S.
Busy(S) == \E t \in Callers : th[t].pc \in S

\* Unless two of them overlapped, only one resetArriveTime is between its
\* reading of the clock and timerfd_settime.
Alone ==
    slipped = {} =>
        \A t, u \in Callers :
            th[t].pc \in {"purge", "settime"}
              /\ th[u].pc \in {"purge", "settime"} => t = u

\* The diff of thread t is right for the timers there are, or has become late.
Right(t) ==
    /\ th[t].diff # 0
    /\ th[t].now = now => \A i \in timers : now + th[t].diff <= ev[i].arrive

\* A thread about to set the timerfd has the right time, or another one will
\* set it again.
Aimed ==
    slipped = {} /\ phase # "add" /\ ~Busy({"reset", "dead"}) =>
        \A t \in Callers : th[t].pc = "settime" => Right(t)

\* The timerfd has expired, or will when a timer is due.
Armed == fd.ready \/ (fd.at # 0 /\ \A i \in timers : fd.at <= ev[i].arrive)

Awake ==
    slipped = {} /\ phase # "add" /\ timers # {}
      /\ ~Busy({"reset", "purge", "settime", "dead"}) => Armed

Timely == Alone /\ Aimed /\ Awake

IInv == Types /\ Timely

-----------------------------------------------------------------------------
(* The order of the timers.                                                *)

\* A non-empty set of natural numbers has a least element.
LEMMA Least ==
    ASSUME NEW S \in SUBSET Nat, S # {}
    PROVE  \E m \in S : \A n \in S : m <= n
<1>1. \E m \in S : \A n \in S : <<n, m>> \notin OpToRel(<, Nat)
    BY NatLessThanWellFounded, WFMin, Zenon
<1>2. \A m, n \in Nat : n < m => <<n, m>> \in OpToRel(<, Nat)
    BY DEF OpToRel
<1>3. PICK m \in S : \A n \in S : <<n, m>> \notin OpToRel(<, Nat)
    BY <1>1, Zenon
<1>4. \A n \in S : ~(n < m)
    BY <1>2, <1>3, Zenon
<1> QED BY <1>4

\* *begin() of a non-empty set is one of its timers, and none arrives before.
LEMMA FirstIsFirst ==
    ASSUME Types, NEW S \in SUBSET Timers, S # {}
    PROVE  First(S) \in S /\ \A j \in S : ev[First(S)].arrive <= ev[j].arrive
<1>1. \A j \in Timers : ev[j].arrive \in Nat
    BY DEF Types, EventType
<1>2. PICK i \in S : \A j \in S : ev[i].arrive <= ev[j].arrive
    <2> DEFINE A == {ev[j].arrive : j \in S}
    <2>1. A \in SUBSET Nat /\ A # {}
        BY <1>1
    <2>2. PICK m \in A : \A n \in A : m <= n
        BY <2>1, Least
    <2> QED BY <2>2
<1>3. PICK k \in S : /\ ev[k].arrive = ev[i].arrive
                     /\ \A j \in S : ev[j].arrive = ev[i].arrive => k <= j
    <2> DEFINE A == {j \in S : ev[j].arrive = ev[i].arrive}
    <2>1. A \in SUBSET Nat /\ A # {}
        BY TimersAssumption
    <2>2. PICK k \in A : \A n \in A : k <= n
        BY <2>1, Least
    <2> QED BY <2>2
<1>4. \A j \in S \ {k} : Before(k, j)
    BY <1>1, <1>2, <1>3, TimersAssumption DEF Before
<1>5. First(S) \in S /\ \A j \in S \ {First(S)} : Before(First(S), j)
    BY <1>4, Zenon DEF First
<1> QED BY <1>1, <1>5 DEF Before

-----------------------------------------------------------------------------
(* The places of the threads after a step of one of them.                  *)

\* A thread outside of the timer's functions.
LEMMA IdleType == Idle \in CallType
    BY DEF Idle, CallType

\* Where a call that returns, or goes on, is.
LEMMA CallsGoOn ==
    ASSUME Types, NEW t \in Callers, NEW a \in SUBSET AgainType
    PROVE  /\ Resets(t, a) => /\ th' \in [Callers -> CallType]
                              /\ th'[t].pc = "reset" /\ th'[t].now = 0
                              /\ \A u \in Callers \ {t} : th'[u] = th[u]
           /\ Returns(t, a) => /\ th' \in [Callers -> CallType]
                               /\ th'[t].pc \in {"idle", "again"}
                               /\ th'[t].now = 0
                               /\ \A u \in Callers \ {t} : th'[u] = th[u]
<1> DEFINE r == [Idle EXCEPT !.pc = "reset", !.again = a]
           b == [Idle EXCEPT !.pc = "again", !.again = a]
<1>1. r \in CallType /\ r.pc = "reset" /\ r.now = 0
    BY DEF Idle, CallType
<1>2. b \in CallType /\ b.pc = "again" /\ b.now = 0
    BY DEF Idle, CallType
<1>3. Idle.pc = "idle" /\ Idle.now = 0
    BY DEF Idle
<1>4. Resets(t, a) => th' = [th EXCEPT ![t] = r]
    BY DEF Resets
<1>5. Returns(t, a) => th' = [th EXCEPT ![t] = Idle] \/ th' = [th EXCEPT ![t] = b]
    BY DEF Returns
<1> HIDE DEF r, b
<1>6. th \in [Callers -> CallType]
    BY DEF Types
<1> QED BY <1>1, <1>2, <1>3, <1>4, <1>5, <1>6, IdleType

\* A thread that goes on with resetArriveTime takes the timerfd on itself.
LEMMA Resetting ==
    ASSUME Types, Timely, NEW t \in Callers, th'[t].pc = "reset",
           \A u \in Callers \ {t} : th'[u] = th[u], slipped' = slipped
    PROVE  Timely'
<1>1. Alone'
    BY DEF Timely, Alone
<1>2. Busy({"reset", "dead"})' /\ Busy({"reset", "purge", "settime", "dead"})'
    BY DEF Busy
<1> QED BY <1>1, <1>2 DEF Timely, Aimed, Awake

\* Every timer after the step has one before it that arrives no later.
NoneEarlier ==
    \A i \in timers' : \E j \in timers : ev[j].arrive <= ev'[i].arrive

\* When no timer has become the first, the timerfd is still right.
LEMMA Returning ==
    ASSUME Types, Types', Timely, NEW t \in Callers,
           th[t].pc \in {"idle", "again"}, th'[t].pc \in {"idle", "again"},
           \A u \in Callers \ {t} : th'[u] = th[u],
           NoneEarlier, UNCHANGED <<now, fd, slipped, phase>>
    PROVE  Timely'
<1>0. /\ \A i \in Timers : ev[i].arrive \in Nat /\ ev'[i].arrive \in Nat
      /\ now \in Nat /\ fd.at \in Nat /\ \A u \in Callers : th[u].diff \in Nat
      /\ timers \subseteq Timers /\ timers' \subseteq Timers
    BY DEF Types, EventType, CallType
<1>1. \A S : {"idle", "again"} \cap S = {} => (Busy(S)' <=> Busy(S))
    BY DEF Busy
<1>2. Alone'
    BY DEF Timely, Alone
<1>3. Aimed'
    <2> SUFFICES ASSUME slipped = {}, phase # "add", ~Busy({"reset", "dead"}),
                        NEW u \in Callers, th'[u].pc = "settime"
                 PROVE  Right(u)'
        BY <1>1 DEF Aimed
    <2>1. th'[u] = th[u] /\ Right(u)
        BY DEF Timely, Aimed
    <2> QED BY <2>1, <1>0 DEF Right, NoneEarlier
<1>4. Awake'
    <2> SUFFICES ASSUME slipped = {}, phase # "add", timers' # {},
                        ~Busy({"reset", "purge", "settime", "dead"})
                 PROVE  Armed'
        BY <1>1 DEF Awake
    <2>1. Armed
        BY DEF Timely, Awake, NoneEarlier
    <2> QED BY <2>1, <1>0 DEF Armed, NoneEarlier
<1> QED BY <1>2, <1>3, <1>4 DEF Timely

\* A step of no thread that leaves timers and timerfd alone.
LEMMA Framed ==
    ASSUME Timely, UNCHANGED <<now, timers, ev, fd, th, slipped>>,
           phase' # "add" => phase # "add"
    PROVE  Timely'
    BY DEF Timely, Alone, Aimed, Awake, Armed, Right, Busy

-----------------------------------------------------------------------------
(* The steps.                                                              *)

\* The invariant holds without timers.
LEMMA InitIInv == Init => IInv
<1> SUFFICES ASSUME Init PROVE IInv
    OBVIOUS
<1>1. [arrive |-> 0, interval |-> 0, recycle |-> FALSE] \in EventType
    BY DEF EventType
<1>2. /\ now = 1 /\ timers = {} /\ recy = <<>> /\ phase = "poll"
      /\ fd \in [at : Nat, ready : BOOLEAN]
      /\ ev \in [Timers -> EventType]
    BY <1>1 DEF Init
<1>3. th = [t \in Callers |-> Idle] /\ Idle.pc = "idle" /\ Idle.now = 0
    BY DEF Init, Callers, Idle
<1>4. Types
    BY <1>2, <1>3, IdleType DEF Types
<1>5. Timely
    BY <1>2, <1>3 DEF Timely, Alone, Aimed, Awake
<1> QED BY <1>4, <1>5 DEF IInv

\* The addTimer of an event whose new arrival time is set.
LEMMA Inserting ==
    ASSUME IInv, NEW t \in Callers, NEW i \in Timers, Insert(t, i),
           th[t].pc \in {"idle", "again"},
           ev' \in [Timers -> EventType],
           \A j \in Timers \ {i} : ev'[j] = ev[j],
           UNCHANGED <<now, fd, slipped, phase, recy>>
    PROVE  IInv'
<1>0. \A j \in Timers : ev[j].arrive \in Nat /\ ev'[j].arrive \in Nat
    BY DEF IInv, Types, EventType
<1>1. timers' = timers \cup {i} /\ {} \in SUBSET AgainType
      /\ IF mustReset(i) THEN Resets(t, {}) ELSE Returns(t, {})
    BY DEF Insert
<1>2. /\ th' \in [Callers -> CallType] /\ th'[t].now = 0
      /\ \A u \in Callers \ {t} : th'[u] = th[u]
      /\ mustReset(i) => th'[t].pc = "reset"
      /\ ~mustReset(i) => th'[t].pc \in {"idle", "again"}
    BY <1>1, CallsGoOn DEF IInv
<1>3. Types'
    BY <1>1, <1>2 DEF IInv, Types
<1>4. CASE mustReset(i)
    BY <1>2, <1>3, <1>4, Resetting DEF IInv
<1>5. CASE ~mustReset(i)
    <2>1. /\ timers # {} /\ timers \in SUBSET Timers
          /\ ~(ev'[i].arrive < ev[First(timers)].arrive)
        BY <1>5 DEF mustReset, IInv, Types
    <2>2. First(timers) \in timers
        BY <2>1, FirstIsFirst DEF IInv
    <2>3. ev[First(timers)].arrive <= ev'[i].arrive
        BY <2>1, <2>2, <1>0
    <2>4. NoneEarlier
        BY <2>1, <2>2, <2>3, <1>0, <1>1 DEF NoneEarlier
    <2> QED BY <2>4, <1>2, <1>3, <1>5, Returning DEF IInv
<1> QED BY <1>4, <1>5

\* addTimer arms the timerfd when its timer comes first.
LEMMA AddTimerKeeps ==
    ASSUME IInv, NEW t \in Callers, NEW i \in Timers, NEW n \in Intervals,
           NEW r \in BOOLEAN, AddTimer(t, i, n, r)
    PROVE  IInv'
<1> DEFINE e == [arrive |-> now + n, interval |-> n, recycle |-> r]
<1>1. e \in EventType
    BY TimesAssumption DEF IInv, Types, EventType
<1>2. /\ ev' = [ev EXCEPT ![i] = e] /\ Insert(t, i) /\ th[t].pc = "idle"
      /\ UNCHANGED <<now, fd, slipped, phase, recy>>
    BY DEF AddTimer, MayCall, onTimer
<1> HIDE DEF e
<1>3. ev' \in [Timers -> EventType] /\ \A j \in Timers \ {i} : ev'[j] = ev[j]
    BY <1>1, <1>2 DEF IInv, Types
<1> QED BY <1>2, <1>3, Inserting

\* The new arrival time of a resetInterval, and its addTimer.
LEMMA ResetAddKeeps == ASSUME IInv, ResetAdd PROVE IInv'
<1>0. Loop \in Callers /\ th[Loop] \in CallType
    BY DEF Callers, IInv, Types
<1>1. PICK a \in th[Loop].again :
          /\ ev' = [ev EXCEPT ![a.i].interval = a.n,
                              ![a.i].arrive = a.n + startTime(a)]
          /\ Insert(Loop, a.i)
    BY DEF ResetAdd
<1>2. a \in AgainType
    BY <1>0, <1>1 DEF CallType
<1>3. a.i \in Timers /\ a.n \in Nat
    BY <1>2, TimesAssumption DEF AgainType
<1>4. /\ ev[a.i] \in [arrive : Nat, interval : Nat, recycle : BOOLEAN]
      /\ ev[a.i].interval <= ev[a.i].arrive /\ now \in Nat
    BY <1>3 DEF IInv, Types, EventType
<1>5. startTime(a) \in Nat
    BY <1>4 DEF startTime
<1> DEFINE e == [ev[a.i] EXCEPT !.interval = a.n, !.arrive = a.n + startTime(a)]
<1>6. e \in EventType
    <2>1. a.n + startTime(a) \in Nat /\ a.n <= a.n + startTime(a)
        BY <1>3, <1>5
    <2>2. /\ e \in [arrive : Nat, interval : Nat, recycle : BOOLEAN]
          /\ e.interval = a.n /\ e.arrive = a.n + startTime(a)
        BY <2>1, <1>3, <1>4
    <2> QED BY <2>1, <2>2 DEF EventType
<1>7. ev' = [ev EXCEPT ![a.i] = e]
    BY <1>1, <1>3 DEF IInv, Types
<1> HIDE DEF e
<1>8. ev' \in [Timers -> EventType] /\ \A j \in Timers \ {a.i} : ev'[j] = ev[j]
    BY <1>3, <1>6, <1>7 DEF IInv, Types
<1>9. th[Loop].pc = "again" /\ UNCHANGED <<now, fd, slipped, phase, recy>>
    BY DEF ResetAdd, onTimer
<1> QED BY <1>0, <1>1, <1>3, <1>8, <1>9, Inserting

\* delTimer: what is left arrives no earlier, and a set that becomes empty
\* ends the process.
LEMMA Erasing ==
    ASSUME IInv, NEW t \in Callers, NEW i \in Timers,
           NEW a \in SUBSET AgainType, Erase(t, i, a), th[t].pc = "idle",
           UNCHANGED <<now, ev, fd, slipped, phase, recy>>
    PROVE  IInv'
<1>0. \A j \in Timers : ev[j].arrive \in Nat
    BY DEF IInv, Types, EventType
<1>1. /\ timers' = timers \ {i}
      /\ \/ th' = [u \in DOMAIN th |-> [Idle EXCEPT !.pc = "dead"]]
         \/ Resets(t, a)
         \/ Returns(t, a)
    BY DEF Erase
<1>2. timers' \in SUBSET Timers /\ timers' \subseteq timers
    BY <1>1 DEF IInv, Types
<1>3. CASE th' = [u \in DOMAIN th |-> [Idle EXCEPT !.pc = "dead"]]
    <2> DEFINE d == [Idle EXCEPT !.pc = "dead"]
    <2>1. d \in CallType /\ d.pc = "dead" /\ d.now = 0
        BY DEF Idle, CallType
    <2>2. th' = [u \in Callers |-> d]
        BY <1>3 DEF IInv, Types
    <2> HIDE DEF d
    <2>3. Types'
        BY <2>1, <2>2, <1>2 DEF IInv, Types
    <2>4. Busy({"reset", "dead"})' /\ Busy({"reset", "purge", "settime", "dead"})'
        BY <2>1, <2>2 DEF Busy
    <2>5. Alone'
        BY <2>1, <2>2 DEF Alone
    <2> QED BY <2>3, <2>4, <2>5 DEF IInv, Timely, Aimed, Awake
<1>4. CASE Resets(t, a)
    <2>1. /\ th' \in [Callers -> CallType]
          /\ th'[t].pc = "reset" /\ th'[t].now = 0
          /\ \A u \in Callers \ {t} : th'[u] = th[u]
        BY <1>4, CallsGoOn DEF IInv
    <2>2. Types'
        BY <2>1, <1>2 DEF IInv, Types
    <2> QED BY <2>1, <2>2, Resetting DEF IInv
<1>5. CASE Returns(t, a)
    <2>1. /\ th' \in [Callers -> CallType]
          /\ th'[t].pc \in {"idle", "again"} /\ th'[t].now = 0
          /\ \A u \in Callers \ {t} : th'[u] = th[u]
        BY <1>5, CallsGoOn DEF IInv
    <2>2. Types'
        BY <2>1, <1>2 DEF IInv, Types
    <2>3. NoneEarlier
        BY <1>0, <1>2 DEF NoneEarlier
    <2> QED BY <2>1, <2>2, <2>3, Returning DEF IInv
<1> QED BY <1>1, <1>3, <1>4, <1>5

\* delTimer arms it for the one that is first without it.
LEMMA CancelKeeps ==
    ASSUME IInv, NEW t \in Callers, NEW i \in Timers, Cancel(t, i)
    PROVE  IInv'
<1>1. /\ Erase(t, i, {}) /\ th[t].pc = "idle" /\ {} \in SUBSET AgainType
      /\ UNCHANGED <<now, ev, fd, slipped, phase, recy>>
    BY DEF Cancel, MayCall, onTimer
<1> QED BY <1>1, Erasing

\* The first step of resetArriveTime.
LEMMA ResetIntervalKeeps ==
    ASSUME IInv, NEW i \in Timers, NEW n \in Intervals, NEW s \in Starts,
           ResetInterval(i, n, s)
    PROVE  IInv'
<1> DEFINE a == {[i |-> i, n |-> n, startNow |-> s]}
<1>1. a \in SUBSET AgainType /\ Loop \in Callers
    BY StartsAssumption DEF AgainType, Callers
<1>2. /\ Erase(Loop, i, a) /\ th[Loop].pc = "idle"
      /\ UNCHANGED <<now, ev, fd, slipped, phase, recy>>
    BY DEF ResetInterval, MayCall, onTimer
<1> HIDE DEF a
<1> QED BY <1>1, <1>2, Erasing

\* The first critical section of resetArriveTime: nobody else is between the
\* clock and timerfd_settime, or the two overlap.
LEMMA ReadClockKeeps ==
    ASSUME IInv, NEW t \in Callers, ReadClock(t) PROVE IInv'
<1>0. /\ UNCHANGED <<now, timers, ev, fd, phase, recy>>
      /\ th[t] \in CallType /\ th[t].pc = "reset" /\ now \in Nat
      /\ th[t].again \in SUBSET AgainType
    BY DEF ReadClock, onTimer, IInv, Types, CallType
<1>1. slipped' = {} =>
          \A u \in Callers \ {t} : th[u].pc \notin {"purge", "settime"}
    <2>1. DOMAIN th = Callers
        BY DEF IInv, Types
    <2> QED BY <2>1 DEF ReadClock
<1>2. CASE timers = {}
    <2>1. Returns(t, th[t].again)
        BY <1>2 DEF ReadClock
    <2>2. /\ th' \in [Callers -> CallType]
          /\ th'[t].pc \in {"idle", "again"} /\ th'[t].now = 0
          /\ \A u \in Callers \ {t} : th'[u] = th[u]
        BY <2>1, <1>0, CallsGoOn DEF IInv
    <2>3. Types'
        BY <2>2, <1>0 DEF IInv, Types
    <2>4. Timely'
        BY <2>2, <1>0, <1>1, <1>2 DEF Timely, Alone, Aimed, Awake
    <2> QED BY <2>3, <2>4 DEF IInv
<1>3. CASE timers # {}
    <2> DEFINE c == [th[t] EXCEPT !.pc = "purge", !.now = now]
    <2>1. c \in CallType /\ c.pc = "purge" /\ c.now = now
        BY <1>0 DEF CallType
    <2>2. th' = [th EXCEPT ![t] = c]
        BY <1>3 DEF ReadClock, IInv, Types
    <2> HIDE DEF c
    <2>3. /\ th' \in [Callers -> CallType]
          /\ th'[t].pc = "purge" /\ th'[t].now = now
          /\ \A u \in Callers \ {t} : th'[u] = th[u]
        BY <2>1, <2>2 DEF IInv, Types
    <2>4. Types'
        BY <2>3, <1>0 DEF IInv, Types
    <2>5. Busy({"reset", "purge", "settime", "dead"})'
        BY <2>3 DEF Busy
    <2>6. Timely'
        BY <2>3, <2>5, <1>0, <1>1 DEF Timely, Alone, Aimed, Awake
    <2> QED BY <2>4, <2>6 DEF IInv
<1> QED BY <1>2, <1>3

\* The second one computes the time until the first of the timers.
LEMMA PurgeKeeps ==
    ASSUME IInv, NEW t \in Callers, Purge(t) PROVE IInv'
<1> DEFINE left == NotOverdue(t)
<1>0. /\ UNCHANGED <<now, ev, fd, phase, recy>>
      /\ th[t] \in CallType /\ th[t].pc = "purge" /\ now \in Nat
      /\ th[t].again \in SUBSET AgainType /\ th[t].now \in Nat
      /\ \A i \in Timers : ev[i].arrive \in Nat
      /\ timers' = left /\ left \in SUBSET Timers /\ left \subseteq timers
    BY DEF Purge, onTimer, IInv, Types, CallType, EventType, NotOverdue
<1>1. /\ slipped' = {} => slipped = {}
      /\ slipped' = {} => \A i \in timers : ~(ev[i].arrive <= th[t].now)
    BY DEF Purge
<1>2. slipped' = {} =>
          \A u \in Callers \ {t} : th[u].pc \notin {"purge", "settime"}
    BY <1>0, <1>1 DEF IInv, Timely, Alone
<1>3. \A i \in left : th[t].now <= ev[i].arrive
    BY <1>0 DEF NotOverdue
<1>4. left = {} => Returns(t, th[t].again)
    BY DEF Purge
<1>5. left # {} => th' = [th EXCEPT ![t].pc = "settime",
                          ![t].diff = ev[First(left)].arrive - th[t].now]
    BY DEF Purge
<1> HIDE DEF left
<1>6. CASE left = {}
    <2>1. /\ th' \in [Callers -> CallType]
          /\ th'[t].pc \in {"idle", "again"} /\ th'[t].now = 0
          /\ \A u \in Callers \ {t} : th'[u] = th[u]
        BY <1>0, <1>4, <1>6, CallsGoOn DEF IInv
    <2>2. Types'
        BY <2>1, <1>0 DEF IInv, Types
    <2>3. Timely'
        BY <2>1, <1>0, <1>2, <1>6 DEF Timely, Alone, Aimed, Awake
    <2> QED BY <2>2, <2>3 DEF IInv
<1>7. CASE left # {}
    <2> DEFINE first == First(left)
               diff == ev[first].arrive - th[t].now
               c == [th[t] EXCEPT !.pc = "settime", !.diff = diff]
    <2>1. /\ first \in left
          /\ \A i \in left : ev[first].arrive <= ev[i].arrive
        BY <1>0, <1>7, FirstIsFirst DEF IInv
    <2>2. th' = [th EXCEPT ![t] = c]
        BY <1>5, <1>7 DEF IInv, Types
    <2> HIDE DEF first
    <2>3. /\ diff \in Nat /\ th[t].now + diff = ev[first].arrive
          /\ slipped' = {} => diff # 0
        BY <2>1, <1>0, <1>1, <1>3
    <2> HIDE DEF diff
    <2>4. c \in CallType /\ c.pc = "settime" /\ c.now = th[t].now /\ c.diff = diff
        BY <2>3, <1>0 DEF CallType
    <2> HIDE DEF c
    <2>5. /\ th' \in [Callers -> CallType] /\ th'[t].pc = "settime"
          /\ th'[t].now = th[t].now /\ th'[t].diff = diff
          /\ \A u \in Callers \ {t} : th'[u] = th[u]
        BY <2>2, <2>4 DEF IInv, Types
    <2>6. Types'
        BY <2>5, <1>0 DEF IInv, Types
    <2>7. slipped' = {} => Right(t)'
        BY <2>1, <2>3, <2>5, <1>0 DEF Right
    <2>8. Busy({"reset", "purge", "settime", "dead"})'
        BY <2>5 DEF Busy
    <2>9. Timely'
        BY <2>5, <2>7, <2>8, <1>2 DEF Timely, Alone, Aimed, Awake
    <2> QED BY <2>6, <2>9 DEF IInv
<1> QED BY <1>6, <1>7

\* timerfd_settime: unless it is late, the timerfd expires when the first
\* timer is due.
LEMMA SetTimeKeeps ==
    ASSUME IInv, NEW t \in Callers, SetTime(t) PROVE IInv'
<1>0. /\ UNCHANGED <<now, timers, ev, phase, recy>>
      /\ th[t] \in CallType /\ th[t].pc = "settime" /\ now \in Nat
      /\ th[t].again \in SUBSET AgainType /\ th[t].diff \in Nat
      /\ fd' = [at |-> IF th[t].diff = 0 THEN 0 ELSE now + th[t].diff,
                ready |-> FALSE]
      /\ Returns(t, th[t].again)
    BY DEF SetTime, onTimer, IInv, Types, CallType
<1>1. slipped' = {} => slipped = {} /\ now = th[t].now
    BY DEF SetTime
<1>2. slipped' = {} =>
          \A u \in Callers \ {t} : th[u].pc \notin {"purge", "settime"}
    BY <1>0, <1>1 DEF IInv, Timely, Alone
<1>3. /\ th' \in [Callers -> CallType]
      /\ th'[t].pc \in {"idle", "again"} /\ th'[t].now = 0
      /\ \A u \in Callers \ {t} : th'[u] = th[u]
    BY <1>0, CallsGoOn DEF IInv
<1>4. fd' \in [at : Nat, ready : BOOLEAN]
    BY <1>0
<1>5. Types'
    BY <1>0, <1>3, <1>4 DEF IInv, Types
<1>6. Alone' /\ Aimed'
    BY <1>0, <1>2, <1>3 DEF Alone, Aimed
<1>7. Awake'
    <2> SUFFICES ASSUME slipped' = {}, phase # "add",
                        ~Busy({"reset", "purge", "settime", "dead"})'
                 PROVE  Armed'
        BY <1>0 DEF Awake
    <2>1. ~Busy({"reset", "dead"})
        BY <1>0, <1>3 DEF Busy
    <2>2. Right(t)
        BY <2>1, <1>0, <1>1 DEF IInv, Timely, Aimed
    <2>3. fd'.at = now + th[t].diff /\ fd'.at # 0
        BY <2>2, <1>0 DEF Right
    <2> QED BY <2>2, <2>3, <1>0, <1>1 DEF Right, Armed
<1> QED BY <1>5, <1>6, <1>7 DEF IInv, Timely

\* What onTimer collects are timers.
LEMMA OrderedTimers ==
    ASSUME NEW S \in SUBSET Timers, NEW s \in Ordered(S)
    PROVE  s \in Seq(Timers)
<1>1. S \subseteq Timers /\ s \in [1..Cardinality(S) -> S]
    BY DEF Ordered, SetToSeqs
<1>2. Cardinality(S) \in Nat
    BY TimersAssumption, FS_Subset, FS_CardinalityType
<1> QED BY <1>1, <1>2

\* onTimer takes what is due.
LEMMA CollectKeeps == ASSUME IInv, Collect PROVE IInv'
<1>1. /\ UNCHANGED <<now, fd, th, slipped>> /\ phase' = "add"
      /\ timers' \in SUBSET Timers
    BY DEF Collect, history, IInv, Types
<1>2. recy' \in Seq(Timers)
    <2>1. {i \in Due : ev[i].recycle} \in SUBSET Timers
        BY DEF Due, IInv, Types
    <2> QED BY <2>1, OrderedTimers DEF Collect
<1>3. ev' \in [Timers -> EventType]
    <2> DEFINE again(i) == [ev[i] EXCEPT !.arrive = now + ev[i].interval]
    <2>1. ASSUME NEW i \in Timers PROVE again(i) \in EventType
        <3>1. /\ ev[i] \in [arrive : Nat, interval : Nat, recycle : BOOLEAN]
              /\ now + ev[i].interval \in Nat
              /\ ev[i].interval <= now + ev[i].interval
            BY DEF IInv, Types, EventType
        <3>2. /\ again(i) \in [arrive : Nat, interval : Nat, recycle : BOOLEAN]
              /\ again(i).interval = ev[i].interval
              /\ again(i).arrive = now + ev[i].interval
            BY <3>1
        <3> QED BY <3>1, <3>2 DEF EventType
    <2>2. ev' = [i \in Timers |-> IF i \in Due /\ ev[i].recycle THEN again(i)
                                  ELSE ev[i]]
        BY DEF Collect
    <2> HIDE DEF again
    <2> QED BY <2>1, <2>2 DEF IInv, Types
<1>4. Types'
    BY <1>1, <1>2, <1>3 DEF IInv, Types
<1>5. Timely'
    BY <1>1 DEF IInv, Timely, Alone, Aimed, Awake
<1> QED BY <1>4, <1>5 DEF IInv

\* The timers that recur are added again.
LEMMA AddAgainKeeps == ASSUME IInv, AddAgain PROVE IInv'
<1>1. /\ UNCHANGED <<now, ev, fd, th, phase, slipped>> /\ phase = "add"
      /\ timers' = timers \cup {Head(recy)} /\ recy' = Tail(recy)
      /\ recy # <<>> /\ recy \in Seq(Timers)
    BY DEF AddAgain, history, IInv, Types
<1>2. Head(recy) \in Timers /\ Tail(recy) \in Seq(Timers)
    BY <1>1
<1>3. Types'
    BY <1>1, <1>2 DEF IInv, Types
<1> QED BY <1>1, <1>3 DEF IInv, Timely, Alone, Aimed, Awake

\* The timerfd is set for what is first then.
LEMMA RearmKeeps == ASSUME IInv, Rearm PROVE IInv'
<1>1. /\ Loop \in Callers /\ Resets(Loop, {}) /\ {} \in SUBSET AgainType
      /\ UNCHANGED <<now, timers, ev, fd, recy, slipped>>
    BY DEF Callers, Rearm, history
<1>2. /\ th' \in [Callers -> CallType]
      /\ th'[Loop].pc = "reset" /\ th'[Loop].now = 0
      /\ \A u \in Callers \ {Loop} : th'[u] = th[u]
    BY <1>1, CallsGoOn DEF IInv
<1>3. Types'
    BY <1>1, <1>2 DEF IInv, Types
<1> QED BY <1>1, <1>2, <1>3, Resetting DEF IInv

\* Time passes: the timerfd expires when it should, and a thread that has
\* read the clock and not yet set the timerfd becomes late.
LEMMA TickKeeps == ASSUME IInv, Tick PROVE IInv'
<1>1. /\ UNCHANGED <<timers, ev, th, phase, recy, slipped>>
      /\ now' = now + 1 /\ now \in Nat
      /\ fd' = IF fd.at # 0 /\ fd.at <= now' THEN [at |-> 0, ready |-> TRUE]
               ELSE fd
    BY DEF Tick, onTimer, history, IInv, Types
<1>2. \A t \in Callers : th[t].now \in Nat /\ th[t].now <= now
    BY DEF IInv, Types, CallType
<1>3. Types'
    BY <1>1, <1>2 DEF IInv, Types
<1>4. \A t \in Callers : Right(t) => Right(t)'
    BY <1>1, <1>2 DEF Right
<1>5. Alone' /\ Aimed'
    BY <1>1, <1>4 DEF IInv, Timely, Alone, Aimed, Busy
<1>6. Awake'
    BY <1>1 DEF IInv, Timely, Awake, Armed, Busy
<1> QED BY <1>3, <1>5, <1>6 DEF IInv, Timely

\* Every step preserves the invariant.
LEMMA NextIInv == IInv /\ [Next]_vars => IInv'
<1> SUFFICES ASSUME IInv, [Next]_vars PROVE IInv'
    OBVIOUS
<1>0. Loop \in Callers /\ Threads \subseteq Callers
    BY DEF Callers
<1>1. ASSUME UNCHANGED <<now, timers, ev, fd, th, recy, slipped>>,
             phase' # "add" => phase # "add"
      PROVE  IInv'
    BY <1>1, Framed DEF IInv, Types
<1>2. CASE UNCHANGED vars
    BY <1>1, <1>2 DEF vars, history
<1>3. CASE TimerCreated \/ OnTimerReturns \/ CallbackReturns \/ TimerDestroyed
    BY <1>1, <1>3
       DEF TimerCreated, OnTimerReturns, CallbackReturns, TimerDestroyed,
           onTimer, history
<1>4. ASSUME NEW t \in Callers, ThreadGoesOn(t) PROVE IInv'
    BY <1>4, ReadClockKeeps, PurgeKeeps, SetTimeKeeps DEF ThreadGoesOn
<1>5. CASE Collect \/ AddAgain \/ Rearm \/ ResetAdd
    BY <1>5, CollectKeeps, AddAgainKeeps, RearmKeeps, ResetAddKeeps
<1>6. CASE Tick
    BY <1>6, TickKeeps
<1>7. ASSUME NEW t \in Callers, UserCalls(t) PROVE IInv'
    BY <1>7, AddTimerKeeps, CancelKeeps DEF UserCalls
<1>8. ASSUME NEW i \in Timers, NEW n \in Intervals, NEW s \in Starts,
             ResetInterval(i, n, s)
      PROVE  IInv'
    BY <1>8, ResetIntervalKeeps
<1> QED BY <1>0, <1>2, <1>3, <1>4, <1>5, <1>6, <1>7, <1>8
        DEF Next, LoopGoesOn, Callers

\* For any timers, threads and intervals: while there are timers, the timerfd
\* has expired, is armed no later than the first of them, or is about to be
\* armed, as long as no resetArriveTime slipped.
THEOREM AlwaysArmedInTime == Spec => []ArmedInTime
<1>1. IInv => ArmedInTime
    <2> SUFFICES ASSUME IInv, timers # {}, phase # "add", slipped = {},
                        \A t \in DOMAIN th : th[t].pc = "idle", ~fd.ready
                 PROVE  fd.at # 0 /\ fd.at <= ev[First(timers)].arrive
        BY DEF ArmedInTime
    <2>1. ~Busy({"reset", "purge", "settime", "dead"})
        BY DEF Busy, IInv, Types
    <2>2. Armed
        BY <2>1 DEF IInv, Timely, Awake
    <2>3. First(timers) \in timers
        BY FirstIsFirst DEF IInv, Types
    <2> QED BY <2>2, <2>3 DEF Armed
<1> QED BY <1>1, InitIInv, NextIInv, PTL DEF Spec
=============================================================================
