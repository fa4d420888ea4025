-------------------------- MODULE TcpServerProofs --------------------------
(***************************************************************************)
(* Proofs about EventLoopThreadPool and about TcpServer, which owns one.   *)
(*                                                                         *)
(* The pool by itself, for every number of threads and any number of       *)
(* calls: GetNextLoop distributes connections evenly, and each thread is   *)
(* joined before its EventLoopThread goes.                                 *)
(*                                                                         *)
(* The server with its pool: for any number of loops, clients and          *)
(* descriptors the server knows its open connections, a connection goes    *)
(* only when it is out of the poller, and no assertion fails while the     *)
(* server is up and no sub loop was left.                                  *)
(***************************************************************************)
EXTENDS TcpServer, TLAPS, WellFoundedInduction, NaturalsInduction

-----------------------------------------------------------------------------
(* The pool.                                                               *)

(***************************************************************************)
(* RoundRobin is not inductive: it must be known where m_next stands.  The *)
(* loops before m_next have been given once more than those from m_next on.*)
(***************************************************************************)
Turn ==
    /\ next \in Nat /\ given \in [Indices -> Nat]
    /\ NumThreads > 0 => next \in Indices
    /\ \A i, j \in Indices :
          /\ i < next /\ j < next => given[i] = given[j]
          /\ i >= next /\ j >= next => given[i] = given[j]
          /\ i < next /\ j >= next => given[i] = given[j] + 1

\* Before the first GetNextLoop no loop has been given.
LEMMA TurnInit == Init => Turn
    BY NumAssumption DEF Init, Turn, Indices

\* GetNextLoop preserves Turn.
LEMMA TurnGiven == ASSUME Turn, GetNextLoop PROVE Turn'
<1>1. /\ NumThreads \in Nat /\ NumThreads > 0 /\ next \in Indices
      /\ next \in Nat /\ next < NumThreads
    BY NumAssumption DEF GetNextLoop, Turn, Indices
<1>2. given' = [given EXCEPT ![next] = @ + 1] /\ next' = wrapped(next + 1)
    BY DEF GetNextLoop
<1>3. given' \in [Indices -> Nat]
    BY <1>1, <1>2 DEF Turn
<1>4. \A i \in Indices : given'[i] = IF i = next THEN given[i] + 1 ELSE given[i]
    BY <1>2 DEF Turn
<1>5. \A i \in Indices : i \in Nat /\ i < NumThreads /\ given[i] \in Nat
    BY <1>1 DEF Indices, Turn
<1>6. CASE next + 1 >= NumThreads
    <2>1. next' = 0
        BY <1>2, <1>6 DEF wrapped
    <2>2. \A i \in Indices : i <= next
        BY <1>1, <1>5, <1>6
    <2>3. \A i \in Indices : given'[i] = given[next] + 1
        BY <1>1, <1>4, <1>5, <2>2 DEF Turn
    <2>4. 0 \in Indices
        BY <1>1 DEF Indices
    <2> QED BY <1>3, <1>5, <2>1, <2>3, <2>4 DEF Turn
<1>7. CASE ~(next + 1 >= NumThreads)
    <2>1. next' = next + 1 /\ next + 1 \in Indices /\ next + 1 \in Nat
        BY <1>1, <1>2, <1>7 DEF wrapped, Indices
    <2>2. ASSUME NEW i \in Indices, NEW j \in Indices
          PROVE  /\ i < next' /\ j < next' => given'[i] = given'[j]
                 /\ i >= next' /\ j >= next' => given'[i] = given'[j]
                 /\ i < next' /\ j >= next' => given'[i] = given'[j] + 1
        BY <1>1, <1>4, <1>5, <2>1 DEF Turn
    <2> QED BY <1>3, <2>1, <2>2 DEF Turn
<1> QED BY <1>6, <1>7

\* Every other step leaves m_next and the counts alone.
LEMMA TurnOthers ==
    ASSUME Turn, [Next]_vars, ~GetNextLoop PROVE Turn'
<1>1. next' = next /\ given' = given
    <2>1. ASSUME NEW i \in Indices, LoopThread(i)
          PROVE  next' = next /\ given' = given
        BY <2>1 DEF LoopThread, Run, Publish, EnterLoop, Round, Clear, Unlock,
                    Exit, Moves
    <2>2. ASSUME NEW i \in Indices, OtherRound(i) \/ QuitFromLoop(i)
          PROVE  next' = next /\ given' = given
        BY <2>2 DEF OtherRound, QuitFromLoop, Moves
    <2>3. ASSUME Owner PROVE next' = next /\ given' = given
        BY <2>3 DEF Owner, StartLoop, Created, AwaitLoop, Destroy, DestroyQuit,
                    DestroyWakeup, DestroyJoin, DestroyMutex, DestroyThread
    <2>4. ASSUME PoolStart \/ PoolDestroy PROVE next' = next /\ given' = given
        BY <2>4 DEF PoolStart, PoolDestroy
    <2>5. ASSUME UNCHANGED vars PROVE next' = next /\ given' = given
        BY <2>5 DEF vars
    <2> QED BY <2>1, <2>2, <2>3, <2>4, <2>5 DEF Next
<1> QED BY <1>1 DEF Turn

\* Where m_next stands implies that the loops are given in turn.
LEMMA TurnIsFair == Turn => RoundRobin
<1> SUFFICES ASSUME Turn, NEW i \in Indices, NEW j \in Indices
             PROVE  given[i] <= given[j] + 1
    BY DEF RoundRobin
<1>1. /\ i \in Nat /\ j \in Nat /\ next \in Nat
      /\ given[i] \in Nat /\ given[j] \in Nat
    BY NumAssumption DEF Turn, Indices
<1>2. /\ i < next /\ j < next => given[i] = given[j]
      /\ i >= next /\ j >= next => given[i] = given[j]
      /\ i < next /\ j >= next => given[i] = given[j] + 1
      /\ j < next /\ i >= next => given[j] = given[i] + 1
    BY DEF Turn
<1> QED BY <1>1, <1>2

\* GetNextLoop (EventLoopThreadPool.cc) is a round robin: for every number of
\* threads, and after any number of connections, no loop has been given more
\* than one connection more than another.
THEOREM RoundRobinAlways == Spec => []RoundRobin
<1>1. Turn /\ [Next]_vars => Turn'
    BY TurnGiven, TurnOthers
<1> QED BY <1>1, TurnIsFair, TurnInit, PTL DEF Spec

-----------------------------------------------------------------------------
(* JoinedBeforeGone.  What Thread::join relies on: m_start is set from the *)
(* first instruction of the thread until it is joined, and start() returns *)
(* only after each thread has gone past that instruction, since m_loop is  *)
(* published later.                                                        *)

Locations == {"none", "init", "publish", "enter", "loop", "leave", "clear",
              "exit", "dead"}

Starting == {"start", "created", "lock", "wait"}
Destroying == {"destroy", "quit", "wakeup", "join", "mutex", "thread"}

ThreadType == [pc : Locations, loop : BOOLEAN, looping : BOOLEAN,
               readable : BOOLEAN, start : BOOLEAN, sem : BOOLEAN]

PoolTypes ==
    /\ opc \in {"new", "started", "gone"} \cup Starting \cup Destroying
    /\ opc \in Starting \cup Destroying => cur \in Indices
    /\ opc \in {"new", "started"} => cur = 0
    /\ thr \in [Indices -> ThreadType]

\* Thread i has run its first instruction.
Begun(i) == thr[i].pc \notin {"none", "init"}

ThreadFacts ==
    \A i \in Indices :
        /\ thr[i].loop => thr[i].pc \in {"enter", "loop", "leave"}
        /\ Begun(i) /\ thr[i].pc # "dead" => thr[i].start
        /\ opc = "new" \/ (opc = "start" /\ i >= cur) => thr[i].pc = "none"
        /\ opc \in Starting /\ i < cur => Begun(i)
        /\ opc \in Starting /\ i > cur => thr[i].pc = "none"
        /\ opc \in Destroying \cup {"started", "gone"} => Begun(i)

PoolInv == PoolTypes /\ ThreadFacts /\ JoinedBeforeGone

\* The invariant of the pool holds before start().
LEMMA PoolInvInit == Init => PoolInv
    BY NumAssumption DEF Init, PoolInv, PoolTypes, ThreadFacts, Begun, Indices,
       JoinedBeforeGone, Locations, Starting, Destroying, ThreadType

\* A step of thread i alone that goes forward: from r, its record, to n.
Forward(r, n) ==
    /\ n \in ThreadType
    /\ n.loop => n.pc \in {"enter", "loop", "leave"}
    /\ n.pc \notin {"none", "init"}
    /\ n.pc # "dead" => n.start
    /\ r.pc \notin {"none", "dead"}

\* A loop thread that only goes forward keeps the invariant of the pool.
LEMMA ThreadForward ==
    ASSUME PoolInv, NEW i \in Indices, NEW n, Forward(thr[i], n),
           thr' = [thr EXCEPT ![i] = n], UNCHANGED <<opc, cur>>
    PROVE  PoolInv'
<1>1. /\ thr' \in [Indices -> ThreadType] /\ thr'[i] = n
      /\ \A j \in Indices \ {i} : thr'[j] = thr[j]
    BY DEF PoolInv, PoolTypes, Forward
<1>2. PoolTypes'
    BY <1>1 DEF PoolInv, PoolTypes
<1>3. ThreadFacts'
    BY <1>1 DEF PoolInv, ThreadFacts, Begun, Forward
<1>4. JoinedBeforeGone'
    BY <1>1 DEF PoolInv, JoinedBeforeGone, Forward
<1> QED BY <1>2, <1>3, <1>4 DEF PoolInv

\* Every location of the thread's own code, and its reaction to quit(), goes
\* forward; Publish may also wake the owner.
LEMMA ThreadSteps ==
    ASSUME PoolInv, NEW i \in Indices,
           \/ Run(i) \/ EnterLoop(i) \/ Round(i) \/ OtherRound(i)
           \/ QuitFromLoop(i) \/ Clear(i) \/ Unlock(i) \/ Exit(i)
    PROVE  PoolInv'
<1>1. /\ thr[i] \in ThreadType
      /\ Begun(i) /\ thr[i].pc # "dead" => thr[i].start
      /\ thr[i].loop => thr[i].pc \in {"enter", "loop", "leave"}
    BY DEF PoolInv, PoolTypes, ThreadFacts
<1>2. CASE Run(i)
    <2> DEFINE n == [thr[i] EXCEPT !.pc = "publish", !.start = TRUE,
                                   !.sem = TRUE]
    <2>1. Forward(thr[i], n)
        BY <1>1, <1>2 DEF Run, Moves, Forward, ThreadType, Locations
    <2>2. thr' = [thr EXCEPT ![i] = n] /\ UNCHANGED <<opc, cur>>
        BY <1>2 DEF Run, Moves
    <2> QED BY ONLY <2>1, <2>2, ThreadForward, PoolInv, i \in Indices
<1>3. CASE EnterLoop(i)
    <2> DEFINE n == [thr[i] EXCEPT !.pc = "loop", !.looping = TRUE]
    <2>1. Forward(thr[i], n)
        BY <1>1, <1>3 DEF EnterLoop, Moves, Forward, ThreadType, Locations,
                          Begun
    <2>2. thr' = [thr EXCEPT ![i] = n] /\ UNCHANGED <<opc, cur>>
        BY <1>3 DEF EnterLoop, Moves
    <2> QED BY ONLY <2>1, <2>2, ThreadForward, PoolInv, i \in Indices
<1>4. CASE Round(i)
    <2> DEFINE n == [thr[i] EXCEPT !.readable = FALSE,
                        !.pc = IF thr[i].looping THEN "loop" ELSE "leave"]
    <2>1. Forward(thr[i], n)
        BY <1>1, <1>4 DEF Round, Moves, Forward, ThreadType, Locations, Begun
    <2>2. thr' = [thr EXCEPT ![i] = n] /\ UNCHANGED <<opc, cur>>
        BY <1>4 DEF Round, Moves
    <2> QED BY ONLY <2>1, <2>2, ThreadForward, PoolInv, i \in Indices
<1>5. CASE OtherRound(i)
    <2> DEFINE n == [thr[i] EXCEPT !.pc = "leave"]
    <2>1. Forward(thr[i], n)
        BY <1>1, <1>5 DEF OtherRound, Moves, Forward, ThreadType, Locations,
                          Begun
    <2>2. thr' = [thr EXCEPT ![i] = n] /\ UNCHANGED <<opc, cur>>
        BY <1>5 DEF OtherRound, Moves
    <2> QED BY ONLY <2>1, <2>2, ThreadForward, PoolInv, i \in Indices
<1>6. CASE QuitFromLoop(i)
    <2> DEFINE n == [thr[i] EXCEPT !.pc = "leave", !.looping = FALSE]
    <2>1. Forward(thr[i], n)
        BY <1>1, <1>6 DEF QuitFromLoop, Moves, Forward, ThreadType, Locations,
                          Begun
    <2>2. thr' = [thr EXCEPT ![i] = n] /\ UNCHANGED <<opc, cur>>
        BY <1>6 DEF QuitFromLoop, Moves
    <2> QED BY ONLY <2>1, <2>2, ThreadForward, PoolInv, i \in Indices
<1>7. CASE Clear(i)
    <2> DEFINE n == [thr[i] EXCEPT !.pc = "clear", !.loop = FALSE]
    <2>1. Forward(thr[i], n)
        BY <1>1, <1>7 DEF Clear, Moves, Forward, ThreadType, Locations, Begun
    <2>2. thr' = [thr EXCEPT ![i] = n] /\ UNCHANGED <<opc, cur>>
        BY <1>7 DEF Clear, Moves
    <2> QED BY ONLY <2>1, <2>2, ThreadForward, PoolInv, i \in Indices
<1>8. CASE Unlock(i)
    <2> DEFINE n == [thr[i] EXCEPT !.pc = "exit"]
    <2>1. Forward(thr[i], n)
        BY <1>1, <1>8 DEF Unlock, Moves, Forward, ThreadType, Locations, Begun
    <2>2. thr' = [thr EXCEPT ![i] = n] /\ UNCHANGED <<opc, cur>>
        BY <1>8 DEF Unlock, Moves
    <2> QED BY ONLY <2>1, <2>2, ThreadForward, PoolInv, i \in Indices
<1>9. CASE Exit(i)
    <2> DEFINE n == [thr[i] EXCEPT !.pc = "dead"]
    <2>1. Forward(thr[i], n)
        BY <1>1, <1>9 DEF Exit, Moves, Forward, ThreadType, Locations, Begun
    <2>2. thr' = [thr EXCEPT ![i] = n] /\ UNCHANGED <<opc, cur>>
        BY <1>9 DEF Exit, Moves
    <2> QED BY ONLY <2>1, <2>2, ThreadForward, PoolInv, i \in Indices
<1> QED BY <1>2, <1>3, <1>4, <1>5, <1>6, <1>7, <1>8, <1>9

\* threadFunc publishes its loop to the starting thread.
LEMMA PublishStep ==
    ASSUME PoolInv, NEW i \in Indices, Publish(i) PROVE PoolInv'
<1> DEFINE n == [thr[i] EXCEPT !.pc = "enter", !.loop = TRUE]
<1>1. thr[i] \in ThreadType /\ thr[i].start /\ thr[i].pc = "publish"
    BY DEF Publish, Moves, PoolInv, PoolTypes, ThreadFacts, Begun
<1>2. /\ n \in ThreadType /\ n.pc = "enter" /\ n.start /\ n.loop
    BY <1>1 DEF ThreadType, Locations
<1>3. thr' = [thr EXCEPT ![i] = n] /\ cur' = cur
    BY DEF Publish, Moves
<1>4. opc' = opc \/ (opc = "wait" /\ opc' = "lock")
    BY DEF Publish
<1> HIDE DEF n
<1>5. /\ thr' \in [Indices -> ThreadType] /\ thr'[i] = n
      /\ \A j \in Indices \ {i} : thr'[j] = thr[j]
    BY <1>2, <1>3 DEF PoolInv, PoolTypes
<1>6. PoolTypes'
    BY <1>3, <1>4, <1>5 DEF PoolInv, PoolTypes, Starting, Destroying
<1>7. ThreadFacts'
    BY <1>1, <1>2, <1>3, <1>4, <1>5
       DEF PoolInv, ThreadFacts, Begun, Starting, Destroying
<1>8. JoinedBeforeGone'
    BY <1>1, <1>3, <1>4, <1>5 DEF PoolInv, JoinedBeforeGone, Starting
<1> QED BY <1>6, <1>7, <1>8 DEF PoolInv

\* Only the owner moves; what it writes of a thread leaves its location.
LEMMA OwnerSteps == ASSUME PoolInv, Owner PROVE PoolInv'
<1> USE DEF Starting, Destroying, Indices
<1>0. /\ PoolTypes /\ ThreadFacts /\ JoinedBeforeGone /\ NumThreads \in Nat
    BY NumAssumption DEF PoolInv
<1>1. CASE StartLoop
    <2>1. /\ opc = "start" /\ opc' = "created" /\ cur' = cur /\ cur \in Indices
          /\ thr' = [thr EXCEPT ![cur].pc = "init"]
        BY <1>0, <1>1 DEF StartLoop, PoolTypes
    <2>2. thr' \in [Indices -> ThreadType]
        BY <1>0, <2>1 DEF PoolTypes, ThreadType, Locations
    <2> QED BY <1>0, <2>1, <2>2
               DEF PoolInv, PoolTypes, ThreadFacts, Begun, JoinedBeforeGone
<1>2. CASE Created
    <2>1. /\ opc = "created" /\ opc' = "lock" /\ cur' = cur /\ cur \in Indices
          /\ thr' = [thr EXCEPT ![cur].sem = FALSE]
        BY <1>0, <1>2 DEF Created, PoolTypes
    <2>2. thr' \in [Indices -> ThreadType]
        BY <1>0, <2>1 DEF PoolTypes, ThreadType
    <2> QED BY <1>0, <2>1, <2>2
               DEF PoolInv, PoolTypes, ThreadFacts, Begun, JoinedBeforeGone
<1>3. CASE AwaitLoop
    <2>1. opc = "lock" /\ thr' = thr /\ cur \in Indices
        BY <1>0, <1>3 DEF AwaitLoop, PoolTypes
    <2>2. CASE ~thr[cur].loop
        BY <1>0, <1>3, <2>1, <2>2 DEF AwaitLoop,
           PoolInv, PoolTypes, ThreadFacts, Begun, JoinedBeforeGone
    <2>3. CASE thr[cur].loop
        <3>1. Begun(cur)
            BY <1>0, <2>1, <2>3 DEF ThreadFacts, Begun
        <3>2. CASE cur + 1 < NumThreads
            <4>1. opc' = "start" /\ cur' = cur + 1
                BY <1>3, <2>3, <3>2 DEF AwaitLoop, Started
            <4> QED BY <1>0, <2>1, <3>1, <3>2, <4>1
                       DEF PoolInv, PoolTypes, ThreadFacts, Begun,
                           JoinedBeforeGone
        <3>3. CASE ~(cur + 1 < NumThreads)
            <4>1. opc' = "started" /\ cur' = 0
                BY <1>3, <2>3, <3>3 DEF AwaitLoop, Started
            <4>2. \A i \in Indices : i < cur \/ i = cur
                BY <1>0, <2>1, <3>3
            <4> QED BY <1>0, <2>1, <3>1, <4>1, <4>2
                       DEF PoolInv, PoolTypes, ThreadFacts, Begun,
                           JoinedBeforeGone
        <3> QED BY <3>2, <3>3
    <2> QED BY <2>2, <2>3
<1>4. CASE Destroy
    BY <1>0, <1>4
       DEF Destroy, PoolInv, PoolTypes, ThreadFacts, Begun, JoinedBeforeGone
<1>5. CASE DestroyQuit
    <2>1. CASE LoopExists(cur)
        <3>1. /\ opc = "quit" /\ opc' = "wakeup" /\ cur' = cur
              /\ cur \in Indices
              /\ thr' = [thr EXCEPT ![cur].looping = FALSE]
            BY <1>0, <1>5, <2>1 DEF DestroyQuit, PoolTypes
        <3>2. thr' \in [Indices -> ThreadType]
            BY <1>0, <3>1 DEF PoolTypes, ThreadType
        <3> QED BY <1>0, <3>1, <3>2
               DEF PoolInv, PoolTypes, ThreadFacts, Begun, JoinedBeforeGone
    <2>2. CASE ~LoopExists(cur)
        BY <1>0, <1>5, <2>2 DEF DestroyQuit,
           PoolInv, PoolTypes, ThreadFacts, Begun, JoinedBeforeGone
    <2> QED BY <2>1, <2>2
<1>6. CASE DestroyWakeup
    <2>1. CASE LoopExists(cur)
        <3>1. /\ opc = "wakeup" /\ opc' = "join" /\ cur' = cur
              /\ cur \in Indices
              /\ thr' = [thr EXCEPT ![cur].readable = TRUE]
            BY <1>0, <1>6, <2>1 DEF DestroyWakeup, PoolTypes
        <3>2. thr' \in [Indices -> ThreadType]
            BY <1>0, <3>1 DEF PoolTypes, ThreadType
        <3> QED BY <1>0, <3>1, <3>2
               DEF PoolInv, PoolTypes, ThreadFacts, Begun, JoinedBeforeGone
    <2>2. CASE ~LoopExists(cur)
        BY <1>0, <1>6, <2>2 DEF DestroyWakeup,
           PoolInv, PoolTypes, ThreadFacts, Begun, JoinedBeforeGone
    <2> QED BY <2>1, <2>2
<1>7. ASSUME DestroyJoin \/ DestroyThread
      PROVE  /\ cur \in Indices /\ opc \in Destroying
             /\ thr' = [thr EXCEPT ![cur].start = FALSE]
             /\ thr' \in [Indices -> ThreadType]
             /\ thr'[cur].pc = "dead"
             /\ \A i \in Indices : /\ thr'[i].pc = thr[i].pc
                                   /\ thr'[i].loop = thr[i].loop
                                   /\ i # cur => thr'[i] = thr[i]
    <2>1. /\ cur \in Indices /\ opc \in Destroying /\ Join
          /\ thr' = [thr EXCEPT ![cur].start = FALSE]
        BY <1>0, <1>7 DEF DestroyJoin, DestroyThread, PoolTypes
    <2>2. thr' \in [Indices -> ThreadType]
        BY <1>0, <2>1 DEF PoolTypes, ThreadType
    <2>3. thr[cur].pc = "dead"
        BY <1>0, <2>1 DEF Join, ThreadFacts, Begun
    <2> QED BY <1>0, <2>1, <2>2, <2>3 DEF PoolTypes
<1>8. CASE DestroyJoin
    <2>1. opc = "join" /\ opc' = "mutex" /\ cur' = cur
        BY <1>8 DEF DestroyJoin
    <2> QED BY <1>0, <1>7, <1>8, <2>1
               DEF PoolInv, PoolTypes, ThreadFacts, Begun, JoinedBeforeGone
<1>9. CASE DestroyMutex
    BY <1>0, <1>9 DEF DestroyMutex, PoolInv, PoolTypes, ThreadFacts, Begun,
                      JoinedBeforeGone
<1>10. CASE DestroyThread
    <2>1. CASE cur + 1 < NumThreads
        <3>1. opc = "thread" /\ opc' = "destroy" /\ cur' = cur + 1
            BY <1>10, <2>1 DEF DestroyThread
        <3> QED BY <1>0, <1>7, <1>10, <2>1, <3>1
                DEF PoolInv, PoolTypes, ThreadFacts, Begun, JoinedBeforeGone
    <2>2. CASE ~(cur + 1 < NumThreads)
        <3>1. opc = "thread" /\ opc' = "gone" /\ cur' = cur
            BY <1>10, <2>2 DEF DestroyThread
        <3>2. \A i \in Indices : i < cur \/ i = cur
            BY <1>0, <1>7, <1>10, <2>2
        <3> QED BY <1>0, <1>7, <1>10, <3>1, <3>2
                DEF PoolInv, PoolTypes, ThreadFacts, Begun, JoinedBeforeGone
    <2> QED BY <2>1, <2>2
<1> QED BY <1>1, <1>2, <1>3, <1>4, <1>5, <1>6, <1>8, <1>9, <1>10 DEF Owner

\* The owner's calls: start, GetNextLoop and the beginning of the destructor.
LEMMA CallSteps ==
    ASSUME PoolInv, PoolStart \/ GetNextLoop \/ PoolDestroy PROVE PoolInv'
<1> USE NumAssumption DEF Starting, Destroying, Indices
<1>1. CASE PoolStart
    BY <1>1 DEF PoolStart, PoolInv, PoolTypes, ThreadFacts, Begun,
                JoinedBeforeGone
<1>2. CASE GetNextLoop
    BY <1>2 DEF GetNextLoop, PoolInv, PoolTypes, ThreadFacts, Begun,
                JoinedBeforeGone
<1>3. CASE PoolDestroy
    BY <1>3 DEF PoolDestroy, PoolInv, PoolTypes, ThreadFacts, Begun,
                JoinedBeforeGone
<1> QED BY <1>1, <1>2, <1>3

\* Every EventLoopThread outlives its thread: threadFunc never touches m_mutex
\* or m_loop of an object that ~EventLoopThread has destroyed, for every
\* number of threads, whether or not loops quit by themselves.
THEOREM JoinedBeforeGoneAlways == Spec => []JoinedBeforeGone
<1>1. ASSUME PoolInv, [Next]_vars PROVE PoolInv'
    <2>1. CASE UNCHANGED vars
        BY <1>1, <2>1 DEF vars, PoolInv, PoolTypes, ThreadFacts, Begun,
                          JoinedBeforeGone
    <2>2. ASSUME NEW i \in Indices, LoopThread(i) PROVE PoolInv'
        BY <1>1, <2>2, ThreadSteps, PublishStep DEF LoopThread
    <2>3. ASSUME NEW i \in Indices, OtherRound(i) \/ QuitFromLoop(i)
          PROVE  PoolInv'
        BY <1>1, <2>3, ThreadSteps
    <2> QED BY <1>1, <2>1, <2>2, <2>3, OwnerSteps, CallSteps DEF Next
<1>2. PoolInv => JoinedBeforeGone
    BY DEF PoolInv
<1> QED BY <1>1, <1>2, PoolInvInit, PTL DEF Spec

-----------------------------------------------------------------------------
(* The server.                                                             *)

Whats == {"established", "destroyed"}
FunctorType == Whats \X Conns

ConnType ==
    [m_state : {"none", "Connecting", "Connected", "Disconnecting",
                "Disconnected"},
     fd : Fds \cup {0}, loop : Indices,
     channel : {"no", "yes", "removed", "assert"}]

ServerTypes ==
    /\ srv \in {"up", "dtor", "gone"}
    /\ acc.conn \in Conns \cup {0}
    /\ clients.arrived \in Nat /\ clients.waiting \in Nat
    /\ clients.waiting <= clients.arrived /\ clients.arrived <= Clients
    /\ m_connections \in [Fds -> Conns \cup {0}]
    /\ conns \in [Conns -> ConnType]
    /\ fds \in SUBSET Fds
    /\ fn \in [Indices -> Seq(FunctorType)]
    /\ mq \in Seq(Conns)

Made(c) == conns[c].m_state # "none"

\* The thread of loop i is past its loop().
Left(i) == thr[i].pc \in {"leave", "clear", "exit", "dead"}

\* The connections so far are the first ones of Conns, with a descriptor each;
\* the one in newConnection is known, and new to its loop.
Accepted ==
    /\ \A c \in Conns :
          Made(c) => /\ c <= clients.arrived - clients.waiting
                     /\ conns[c].fd \in fds
    /\ \A c, d \in Conns :
          Made(c) /\ Made(d) /\ conns[c].fd = conns[d].fd => c = d
    /\ \A f \in Fds : m_connections[f] # 0 =>
          Made(m_connections[f]) /\ conns[m_connections[f]].fd = f
    /\ acc.conn # 0 =>
          /\ conns[acc.conn].m_state = "Connecting"
          /\ srv = "up" /\ opc = "started"

\* A functor waits at the loop of its connection; connectEstablished is the
\* first one of its connection; and as long as the server is up,
\* connectDestroyed is for closed connections.
RightFunctor(i, k, what, c) ==
    /\ conns[c].loop = i /\ Made(c) /\ c # acc.conn
    /\ what = "established" =>
          /\ conns[c].m_state = "Connecting"
          /\ \A l \in DOMAIN fn[i] : fn[i][l][2] = c => k <= l
    /\ what = "destroyed" /\ srv = "up" => conns[c].m_state = "Disconnected"

Functors ==
    \A i \in Indices : \A k \in DOMAIN fn[i] :
        RightFunctor(i, k, fn[i][k][1], fn[i][k][2])

\* removeConnectionInLoop is for closed connections.
Closing == \A k \in DOMAIN mq : conns[mq[k]].m_state = "Disconnected"

\* A connection whose loop goes on is in m_connections, or connectDestroyed
\* is on its way or was run.
KeptUntilDestroyed(c) ==
    \/ m_connections[conns[c].fd] = c
    \/ \E k \in DOMAIN fn[conns[c].loop] :
          fn[conns[c].loop][k] = <<"destroyed", c>>
    \/ conns[c].m_state = "Disconnected" /\ conns[c].channel = "removed"

Kept ==
    Running => \A c \in Conns :
        Made(c) /\ ~Left(conns[c].loop) => KeptUntilDestroyed(c)

\* The pool is not destroyed under a server that is up.
PoolUp == srv = "up" => opc \notin Destroying \cup {"gone"}

ServerFacts ==
    Accepted /\ Functors /\ Closing /\ OpenConnectionsKnown /\ Kept

ServerInv ==
    /\ PoolInv /\ Turn
    /\ ServerTypes /\ ServerFacts /\ PoolUp /\ UpWithoutGrief

-----------------------------------------------------------------------------
\* The invariant holds for a server not yet started.
LEMMA ServerInitInv == ServerInit => ServerInv
<1> SUFFICES ASSUME ServerInit PROVE ServerInv
    OBVIOUS
<1>0. /\ NumThreads \in Nat /\ NumThreads > 0 /\ Clients \in Nat
      /\ 0 \in Indices
    BY NumAssumption, ServerAssumption DEF Indices
<1>1. Init /\ PoolInv /\ Turn
    BY PoolInvInit, TurnInit DEF ServerInit
<1>2. /\ srv = "up" /\ acc.conn = 0 /\ opc = "new" /\ fate = "running"
      /\ clients.arrived = 0 /\ clients.waiting = 0
      /\ m_connections = [f \in Fds |-> 0]
      /\ conns \in [Conns -> ConnType]
      /\ \A c \in Conns : conns[c].m_state = "none"
      /\ fds = {} /\ fn = [i \in Indices |-> <<>>] /\ mq = <<>>
    BY <1>0 DEF ServerInit, Init, ConnType
<1>3. ServerTypes
    BY <1>0, <1>2 DEF ServerTypes
<1>4. ServerFacts
    BY <1>2 DEF ServerFacts, Accepted, Functors, Closing, Kept, Made,
                OpenConnectionsKnown
<1>5. PoolUp /\ UpWithoutGrief
    BY <1>2 DEF PoolUp, UpWithoutGrief, Destroying
<1> QED BY <1>1, <1>3, <1>4, <1>5 DEF ServerInv

-----------------------------------------------------------------------------
(* Steps of the pool.                                                      *)

\* A thread that has left its loop does not come back.
LEMMA LeftStays ==
    ASSUME PoolInv, NEW i \in Indices, Left(i),
           \/ Owner \/ PoolStart \/ PoolDestroy \/ UNCHANGED thr
           \/ \E j \in Indices :
                 LoopThread(j) \/ OtherRound(j) \/ QuitFromLoop(j)
    PROVE  Left(i)'
<1>0. thr \in [Indices -> ThreadType]
    BY DEF PoolInv, PoolTypes
<1>1. CASE PoolStart \/ PoolDestroy \/ UNCHANGED thr
    BY <1>1 DEF PoolStart, PoolDestroy, Left
<1>2. CASE Owner
    <2>1. CASE StartLoop
        <3>1. cur \in Indices /\ thr[cur].pc = "none" /\ NumThreads \in Nat
            BY <2>1, NumAssumption DEF StartLoop, PoolInv, PoolTypes, ThreadFacts,
                           Starting, Indices
        <3>2. cur # i /\ thr' = [thr EXCEPT ![cur].pc = "init"]
            BY <2>1, <3>1 DEF StartLoop, Left
        <3> QED BY <3>1, <3>2, <1>0 DEF Left
    <2>2. CASE ~StartLoop
        <3>1. \/ thr' = thr
              \/ thr' = [thr EXCEPT ![cur].sem = FALSE]
              \/ thr' = [thr EXCEPT ![cur].looping = FALSE]
              \/ thr' = [thr EXCEPT ![cur].readable = TRUE]
              \/ thr' = [thr EXCEPT ![cur].start = FALSE]
            BY <1>2, <2>2 DEF Owner, Created, AwaitLoop, Destroy, DestroyQuit,
                   DestroyWakeup, DestroyJoin, DestroyMutex, DestroyThread
        <3>2. thr'[i].pc = thr[i].pc
            BY <3>1, <1>0 DEF ThreadType
        <3> QED BY <3>2 DEF Left
    <2> QED BY <2>1, <2>2
<1>3. ASSUME NEW j \in Indices,
             LoopThread(j) \/ OtherRound(j) \/ QuitFromLoop(j)
      PROVE  Left(i)'
    <2>1. CASE i # j
        <3>1. thr'[i] = thr[i]
            BY <1>0, <1>3, <2>1 DEF LoopThread, Run, Publish, EnterLoop, Round,
               Clear, Unlock, Exit, OtherRound, QuitFromLoop, Moves
        <3> QED BY <3>1 DEF Left
    <2>2. CASE i = j
        <3>1. thr[i].pc \in {"leave", "clear", "exit", "dead"}
            BY DEF Left
        <3>2. Clear(i) \/ Unlock(i) \/ Exit(i)
            BY <1>3, <2>2, <3>1 DEF LoopThread, Run, Publish, EnterLoop, Round,
               OtherRound, QuitFromLoop, Moves
        <3>3. thr'[i].pc \in {"clear", "exit", "dead"}
            BY <1>0, <3>2 DEF Clear, Unlock, Exit, Moves, ThreadType
        <3> QED BY <3>3 DEF Left
    <2> QED BY <2>1, <2>2
<1> QED BY <1>1, <1>2, <1>3

\* What the pool does on its own leaves the server right.
LEMMA PoolMoved ==
    ASSUME ServerInv, PoolInv', Turn', UNCHANGED server, Running,
           \A i \in Indices : Left(i) => Left(i)',
           srv = "up" => /\ opc' \notin Destroying \cup {"gone"}
                         /\ fate' = fate
                         /\ opc = "started" => opc' = "started"
    PROVE  ServerInv'
<1>0. UNCHANGED <<srv, acc, clients, m_connections, conns, fds, fn, batch, mq>>
    BY DEF server, work
<1>1. ServerTypes' /\ PoolUp' /\ UpWithoutGrief'
    BY <1>0 DEF ServerInv, ServerTypes, PoolUp, UpWithoutGrief, Running
<1>2. Accepted' /\ Functors' /\ Closing' /\ OpenConnectionsKnown'
    BY <1>0 DEF ServerInv, ServerFacts, Accepted, Functors, RightFunctor, Closing,
                Made, OpenConnectionsKnown
<1>3. Kept'
    <2>1. \A c \in Conns : conns[c].loop \in Indices
        BY DEF ServerInv, ServerTypes, ConnType
    <2> QED BY <1>0, <2>1
            DEF ServerInv, ServerFacts, Kept, KeptUntilDestroyed, Made
<1> QED BY <1>1, <1>2, <1>3 DEF ServerInv, ServerFacts

\* The pool's own steps preserve the invariant of the server.
LEMMA PoolStepsKeep ==
    ASSUME ServerInv, UNCHANGED server, Running,
           \/ Owner \/ PoolStart
           \/ PoolDestroy /\ srv = "dtor"
           \/ \E j \in Indices :
                 LoopThread(j) \/ OtherRound(j) \/ QuitFromLoop(j)
    PROVE  ServerInv'
<1>1. PoolInv'
    BY OwnerSteps, CallSteps, ThreadSteps, PublishStep
       DEF ServerInv, LoopThread
<1>2. UNCHANGED <<next, given>>
    BY DEF Owner, StartLoop, Created, AwaitLoop, Destroy, DestroyQuit,
           DestroyWakeup, DestroyJoin, DestroyMutex, DestroyThread,
           PoolStart, PoolDestroy, LoopThread, Run, Publish, EnterLoop,
           Round, Clear, Unlock, Exit, OtherRound, QuitFromLoop, Moves
<1>3. Turn'
    BY <1>2 DEF ServerInv, Turn
<1>4. \A i \in Indices : Left(i) => Left(i)'
    BY LeftStays DEF ServerInv
<1>5. ASSUME srv = "up"
      PROVE  /\ opc' \notin Destroying \cup {"gone"} /\ fate' = fate
             /\ opc = "started" => opc' = "started"
    <2>1. opc \notin Destroying \cup {"gone"}
        BY <1>5 DEF ServerInv, PoolUp
    <2>2. CASE Owner
        BY <2>1, <2>2 DEF Owner, StartLoop, Created, AwaitLoop, Started, Destroy,
           DestroyQuit, DestroyWakeup, DestroyJoin, DestroyMutex, DestroyThread,
           Destroying
    <2>3. CASE PoolStart
        BY <2>3 DEF PoolStart, Destroying
    <2>4. ASSUME NEW j \in Indices,
                 LoopThread(j) \/ OtherRound(j) \/ QuitFromLoop(j)
          PROVE  /\ opc' \notin Destroying \cup {"gone"} /\ fate' = fate
                 /\ opc = "started" => opc' = "started"
        <3>1. fate' = fate
            BY <2>4 DEF LoopThread, Run, Publish, EnterLoop, Round, Clear,
                        Unlock, Exit, OtherRound, QuitFromLoop, Moves
        <3>2. opc' = opc \/ (opc = "wait" /\ opc' = "lock")
            BY <2>4 DEF LoopThread, Run, Publish, EnterLoop, Round, Clear,
                        Unlock, Exit, OtherRound, QuitFromLoop
        <3> QED BY <2>1, <3>1, <3>2 DEF Destroying
    <2> QED BY <1>5, <2>2, <2>3, <2>4
<1> QED BY <1>1, <1>3, <1>4, <1>5, PoolMoved

-----------------------------------------------------------------------------
(* Steps of the server.                                                    *)

\* A step that leaves pool, connections and functors alone.
LEMMA OnlyServer ==
    ASSUME ServerInv, Running, UNCHANGED <<pool, m_connections, conns, fds, fn, mq>>,
           acc'.conn = acc.conn,
           clients' = clients \/
              /\ clients.arrived < Clients
              /\ clients' = [arrived |-> clients.arrived + 1,
                             waiting |-> clients.waiting + 1],
           \/ srv' = srv
           \/ srv' \in {"dtor", "gone"} /\ acc.conn = 0,
           fate' \in {"running", "fatal"} \/ srv' # "up"
    PROVE  ServerInv'
<1>0. UNCHANGED <<opc, cur, thr, next, given>>
    BY DEF pool
<1>1. PoolInv' /\ Turn'
    BY <1>0 DEF ServerInv, PoolInv, PoolTypes, ThreadFacts, Begun,
                JoinedBeforeGone, Turn
<1>2. /\ clients'.arrived \in Nat /\ clients'.waiting \in Nat
      /\ clients'.waiting <= clients'.arrived /\ clients'.arrived <= Clients
      /\ clients'.arrived - clients'.waiting = clients.arrived - clients.waiting
    BY ServerAssumption DEF ServerInv, ServerTypes
<1>3. ServerTypes'
    BY <1>2 DEF ServerInv, ServerTypes
<1>4. Accepted'
    BY <1>0, <1>2 DEF ServerInv, ServerFacts, Accepted, Made
<1>5. Functors' /\ Closing' /\ OpenConnectionsKnown' /\ Kept'
    <2>1. srv' = "up" => srv = "up"
        OBVIOUS
    <2>2. Functors'
        BY <2>1 DEF ServerInv, ServerFacts, Functors, RightFunctor, Made
    <2>3. Closing' /\ OpenConnectionsKnown'
        BY <2>1 DEF ServerInv, ServerFacts, Closing, OpenConnectionsKnown
    <2>4. Kept'
        BY <1>0 DEF ServerInv, ServerFacts, Kept, KeptUntilDestroyed, Made, Left
    <2> QED BY <2>2, <2>3, <2>4
<1>6. PoolUp' /\ UpWithoutGrief'
    BY <1>0 DEF ServerInv, PoolUp, UpWithoutGrief
<1> QED BY <1>1, <1>3, <1>4, <1>5, <1>6 DEF ServerInv, ServerFacts

\* So do listening, clients that come, and ~TcpServer outside of the pool.
LEMMA ServerStepsKeep ==
    ASSUME ServerInv,
           \/ Listen \/ ClientConnects \/ DestroyServer \/ DestroyAcceptor
           \/ RemoveFromGoneServer
    PROVE  ServerInv'
<1>1. CASE Listen
    <2>1. acc'.conn = acc.conn
        BY <1>1 DEF Listen, MainLoops
    <2>2. /\ Running /\ UNCHANGED <<pool, srv, clients, m_connections, conns, fds,
                                    fn, mq>>
          /\ fate' \in {"running", "fatal"}
        BY <1>1 DEF Listen, MainLoops, work, Running
    <2> QED BY <2>1, <2>2, OnlyServer
<1>2. CASE ClientConnects
    BY <1>2, OnlyServer DEF ClientConnects, work, Running
<1>3. CASE DestroyServer
    BY <1>3, OnlyServer DEF DestroyServer, MainLoops, work, Running
<1>4. CASE DestroyAcceptor
    <2>1. srv = "dtor" /\ acc.conn = 0
        BY <1>4 DEF DestroyAcceptor, ServerInv, ServerFacts, Accepted
    <2>2. acc'.conn = acc.conn
        BY <1>4 DEF DestroyAcceptor
    <2> QED BY <2>1, <2>2, <1>4, OnlyServer DEF DestroyAcceptor, work, Running
<1>5. CASE RemoveFromGoneServer
    BY <1>5, OnlyServer DEF RemoveFromGoneServer, server, work
<1> QED BY <1>1, <1>2, <1>3, <1>4, <1>5

\* A non-empty set of natural numbers has a least element.
LEMMA LeastNumber ==
    ASSUME NEW S \in SUBSET Nat, S # {}
    PROVE  \E m \in S : \A n \in S : m <= n
<1>1. \E m \in S : \A n \in S : <<n, m>> \notin OpToRel(<, Nat)
    BY NatLessThanWellFounded, WFMin, Zenon
<1>2. \A m, n \in Nat : n < m => <<n, m>> \in OpToRel(<, Nat)
    BY DEF OpToRel
<1>3. PICK m \in S : \A n \in S : <<n, m>> \notin OpToRel(<, Nat)
    BY <1>1, Zenon
<1>4. \A n \in S : ~(n < m)
    BY <1>2, <1>3, Zenon
<1> QED BY <1>4

\* accept() gives a descriptor that is not in use.
LEMMA AcceptIsFree == Fds \ fds # {} => accept \in Fds \ fds
<1> SUFFICES ASSUME Fds \ fds # {} PROVE accept \in Fds \ fds
    OBVIOUS
<1>1. Fds \ fds \in SUBSET Nat
    BY ServerAssumption DEF Fds
<1>2. \E f \in Fds \ fds : \A y \in Fds \ fds : f <= y
    BY <1>1, LeastNumber
<1> QED BY <1>2, Zenon DEF accept

\* A new connection takes a descriptor that no other has, and the next loop.
LEMMA HandleReadKeeps == ASSUME ServerInv, HandleRead PROVE ServerInv'
<1> DEFINE f == accept
           c == clients.arrived - clients.waiting + 1
           r == [conns[c] EXCEPT !.m_state = "Connecting", !.fd = f, !.loop = next]
<1>0. /\ Running /\ srv = "up" /\ opc = "started" /\ acc.conn = 0
      /\ clients.waiting > 0 /\ f \in Fds /\ f \notin fds /\ GetNextLoop
    BY AcceptIsFree DEF HandleRead, MainLoops
<1>1. /\ clients' = [clients EXCEPT !.waiting = @ - 1]
      /\ fds' = fds \cup {f} /\ acc' = [acc EXCEPT !.conn = c]
      /\ m_connections' = [m_connections EXCEPT ![f] = c]
      /\ conns' = [conns EXCEPT ![c].m_state = "Connecting", ![c].fd = f,
                                ![c].loop = next]
      /\ UNCHANGED <<srv, fn, mq>>
    BY DEF HandleRead, work
<1> HIDE DEF f
<1>2. PoolInv' /\ Turn' /\ UNCHANGED <<opc, cur, thr, fate>>
    BY <1>0, TurnGiven, CallSteps DEF ServerInv, GetNextLoop
<1>3. /\ c \in Conns /\ next \in Indices /\ c # 0
      /\ clients'.arrived = clients.arrived
      /\ clients'.waiting = clients.waiting - 1 /\ clients'.waiting \in Nat
      /\ clients'.arrived - clients'.waiting = c
      /\ acc'.conn = c
    <2>1. next \in Indices
        BY ServerAssumption DEF ServerInv, Turn
    <2>2. /\ clients.arrived \in Nat /\ clients.waiting \in Nat /\ Clients \in Nat
          /\ clients.waiting <= clients.arrived /\ clients.arrived <= Clients
        BY ServerAssumption DEF ServerInv, ServerTypes
    <2>3. c \in Nat /\ 1 <= c /\ c <= Clients
        BY <1>0, <2>2
    <2>4. clients' = [clients EXCEPT !.waiting = @ - 1] /\ acc' = [acc EXCEPT !.conn = c]
        BY <1>1
    <2>5. /\ clients'.arrived = clients.arrived
          /\ clients'.waiting = clients.waiting - 1
        BY <1>0, <1>1
    <2> QED BY <1>0, <2>1, <2>2, <2>3, <2>4, <2>5 DEF Conns
<1>4. /\ \A d \in Conns : conns[d] \in ConnType
      /\ \A d \in Conns : Made(d) => d < c /\ d # c
    <2>1. \A d \in Conns : d \in Nat
        BY ServerAssumption DEF Conns
    <2>2. clients.arrived \in Nat /\ clients.waiting \in Nat
        BY DEF ServerInv, ServerTypes
    <2> QED BY <2>1, <2>2 DEF ServerInv, ServerTypes, ServerFacts, Accepted
<1>5. r \in ConnType /\ r.m_state = "Connecting" /\ r.fd = f /\ r.loop = next
    BY <1>0, <1>3, <1>4 DEF ConnType
<1>6. conns' = [conns EXCEPT ![c] = r]
    BY <1>1, <1>3 DEF ServerInv, ServerTypes
<1> HIDE DEF r, c
<1>7. /\ conns' \in [Conns -> ConnType] /\ conns'[c] = r
      /\ \A d \in Conns \ {c} : conns'[d] = conns[d]
    BY <1>3, <1>5, <1>6 DEF ServerInv, ServerTypes
<1>8. /\ m_connections' \in [Fds -> Conns \cup {0}] /\ m_connections'[f] = c
      /\ \A g \in Fds \ {f} : m_connections'[g] = m_connections[g]
    BY <1>0, <1>1, <1>3 DEF ServerInv, ServerTypes
<1>9. \A d \in Conns : Made(d) => conns[d].fd \in fds /\ conns[d].fd # f
    BY <1>0 DEF ServerInv, ServerFacts, Accepted
<1>10. ServerTypes'
    BY <1>0, <1>1, <1>3, <1>7, <1>8 DEF ServerInv, ServerTypes
<1>11. Accepted'
    <2>1. \A d \in Conns : Made(d)' =>
              /\ d <= clients'.arrived - clients'.waiting /\ conns'[d].fd \in fds'
        BY <1>1, <1>3, <1>4, <1>5, <1>7, <1>9 DEF Made, Conns
    <2>2. \A d, e \in Conns :
              Made(d)' /\ Made(e)' /\ conns'[d].fd = conns'[e].fd => d = e
        BY <1>5, <1>7, <1>9 DEF ServerInv, ServerFacts, Accepted, Made
    <2>3. \A g \in Fds : m_connections'[g] # 0 =>
              conns'[m_connections'[g]].m_state # "none"
              /\ conns'[m_connections'[g]].fd = g
        BY <1>3, <1>4, <1>5, <1>7, <1>8
           DEF ServerInv, ServerTypes, ServerFacts, Accepted, Made
    <2> QED BY <2>1, <2>2, <2>3, <1>0, <1>1, <1>2, <1>3, <1>5, <1>7
            DEF Accepted, Made
<1>12. Functors'
    <2> SUFFICES ASSUME NEW i \in Indices, NEW k \in DOMAIN fn[i]
                 PROVE  RightFunctor(i, k, fn[i][k][1], fn[i][k][2])'
        BY <1>1 DEF Functors
    <2> DEFINE d == fn[i][k][2]
    <2>1. d \in Conns
        BY DEF ServerInv, ServerTypes, FunctorType
    <2>2. Made(d) /\ d # c
        BY <2>1, <1>4 DEF ServerInv, ServerFacts, Functors, RightFunctor
    <2>3. conns'[d] = conns[d]
        BY <2>1, <2>2, <1>7
    <2>4. RightFunctor(i, k, fn[i][k][1], d)
        BY DEF ServerInv, ServerFacts, Functors
    <2>5. fn' = fn /\ srv' = srv
        BY <1>1
    <2> QED BY <2>2, <2>3, <2>4, <2>5, <1>3 DEF RightFunctor, Made
<1>13. Closing'
    BY <1>1, <1>4, <1>7 DEF ServerInv, ServerTypes, ServerFacts, Closing, Made
<1>14. OpenConnectionsKnown'
    BY <1>1, <1>5, <1>7, <1>8, <1>9, <1>4 DEF ServerInv, ServerTypes, ServerFacts,
       OpenConnectionsKnown, Made, ConnType
<1>15. Kept'
    <2> SUFFICES ASSUME NEW d \in Conns, Made(d)', ~Left(conns[d].loop)'
                 PROVE  KeptUntilDestroyed(d)'
        BY DEF Kept
    <2>1. CASE d = c
        BY <2>1, <1>5, <1>7, <1>8 DEF KeptUntilDestroyed
    <2>2. CASE d # c
        <3>1. conns'[d] = conns[d] /\ Made(d) /\ ~Left(conns[d].loop)
            BY <2>2, <1>2, <1>7 DEF Made, Left
        <3>2. m_connections'[conns[d].fd] = m_connections[conns[d].fd]
            BY <3>1, <1>8, <1>9 DEF ServerInv, ServerTypes
        <3>3. KeptUntilDestroyed(d)
            BY <3>1, <1>0 DEF ServerInv, ServerFacts, Kept
        <3> QED BY <3>1, <3>2, <3>3, <1>1 DEF KeptUntilDestroyed
    <2> QED BY <2>1, <2>2
<1>16. PoolUp' /\ UpWithoutGrief'
    BY <1>1, <1>2 DEF ServerInv, PoolUp, UpWithoutGrief
<1> QED BY <1>2, <1>10, <1>11, <1>12, <1>13, <1>14, <1>15, <1>16
        DEF ServerInv, ServerFacts

\* What is pending anywhere is a functor of a connection.
LEMMA PendingTypes ==
    ASSUME ServerInv, NEW i \in Indices
    PROVE  /\ fn[i] \in Seq(FunctorType) /\ DOMAIN fn[i] = 1..Len(fn[i])
           /\ Len(fn[i]) \in Nat
           /\ \A k \in DOMAIN fn[i] :
                 /\ fn[i][k] \in FunctorType /\ fn[i][k][1] \in Whats
                 /\ fn[i][k][2] \in Conns
                 /\ fn[i][k] = <<fn[i][k][1], fn[i][k][2]>>
                 /\ RightFunctor(i, k, fn[i][k][1], fn[i][k][2])
<1>1. fn[i] \in Seq(FunctorType)
    BY DEF ServerInv, ServerTypes
<1>2. DOMAIN fn[i] = 1..Len(fn[i]) /\ Len(fn[i]) \in Nat
    BY <1>1
<1>3. \A k \in DOMAIN fn[i] : fn[i][k] \in FunctorType
    BY <1>1, <1>2
<1>4. \A f \in FunctorType : f[1] \in Whats /\ f[2] \in Conns /\ f = <<f[1], f[2]>>
    BY DEF FunctorType
<1> QED BY <1>1, <1>2, <1>3, <1>4 DEF ServerInv, ServerFacts, Functors

\* connectEstablished or connectDestroyed of c is queued on its loop, and in
\* the second case c is taken out of m_connections.
LEMMA Queueing ==
    ASSUME ServerInv, Running, NEW c \in Conns, Made(c), NEW what \in Whats,
           QueueInLoop(conns[c].loop, <<what, c>>),
           UNCHANGED <<pool, srv, clients, conns, fds>>,
           acc'.conn = 0,
           \/ /\ what = "established" /\ acc.conn = c
              /\ UNCHANGED m_connections
           \/ /\ what = "destroyed" /\ acc.conn = 0
              /\ m_connections' = [m_connections EXCEPT ![conns[c].fd] = 0]
              /\ srv = "up" => conns[c].m_state = "Disconnected",
           mq' = mq \/ (mq # <<>> /\ mq' = Tail(mq)),
           opc = "started"
    PROVE  ServerInv'
<1> DEFINE i == conns[c].loop
           f == <<what, c>>
<1>0. UNCHANGED <<opc, cur, thr, next, given>>
    BY DEF pool
<1>1. PoolInv' /\ Turn'
    BY <1>0 DEF ServerInv, PoolInv, PoolTypes, ThreadFacts, Begun,
                JoinedBeforeGone, Turn
<1>2. /\ i \in Indices /\ f \in FunctorType /\ conns[c].fd \in Fds
      /\ \A d \in Conns : conns[d] \in ConnType /\ d # 0
      /\ f[1] = what /\ f[2] = c
    <2>1. \A d \in Conns : d # 0
        BY ServerAssumption DEF Conns
    <2>2. f \in FunctorType /\ f[1] = what /\ f[2] = c
        BY DEF FunctorType
    <2>3. conns[c].fd \in Fds
        BY DEF ServerInv, ServerTypes, ServerFacts, Accepted
    <2>4. \A d \in Conns : conns[d] \in ConnType /\ conns[d].loop \in Indices
        BY DEF ServerInv, ServerTypes, ConnType
    <2> QED BY <2>1, <2>2, <2>3, <2>4
<1>6. mq' \in Seq(Conns) /\ \A k \in DOMAIN mq' : \E l \in DOMAIN mq : mq'[k] = mq[l]
    <2>1. mq \in Seq(Conns)
        BY DEF ServerInv, ServerTypes
    <2>2. CASE mq' = mq
        BY <2>1, <2>2
    <2>3. CASE mq # <<>> /\ mq' = Tail(mq)
        <3>1. mq' \in Seq(Conns) /\ DOMAIN mq' = 1..(Len(mq) - 1)
            BY <2>1, <2>3
        <3>2. \A k \in DOMAIN mq' : k + 1 \in DOMAIN mq /\ mq'[k] = mq[k + 1]
            BY <2>1, <2>3, <3>1
        <3> QED BY <3>1, <3>2
    <2> QED BY <2>2, <2>3
<1>7. m_connections' \in [Fds -> Conns \cup {0}]
    BY <1>2 DEF ServerInv, ServerTypes
<1>8. Accepted'
    BY <1>0 DEF ServerInv, ServerTypes, ServerFacts, Accepted, Made
<1>9. Closing'
    BY <1>6 DEF ServerInv, ServerFacts, Closing
<1>10. ASSUME NEW d \in Conns, Made(d), d # c
       PROVE  m_connections'[conns[d].fd] = m_connections[conns[d].fd]
    <2>1. conns[d].fd # conns[c].fd /\ conns[d].fd \in Fds
        BY <1>10 DEF ServerInv, ServerTypes, ServerFacts, Accepted
    <2> QED BY <2>1 DEF ServerInv, ServerTypes
<1>11. OpenConnectionsKnown'
    BY <1>10 DEF ServerInv, ServerFacts, OpenConnectionsKnown, Made, Whats
<1>3. \/ /\ LoopExists(i) /\ fate' = fate
         /\ fn' = [fn EXCEPT ![i] = Append(@, f)]
      \/ ~LoopExists(i) /\ fate' = "use after free" /\ fn' = fn
    BY DEF QueueInLoop
<1>4. CASE /\ LoopExists(i) /\ fate' = fate
           /\ fn' = [fn EXCEPT ![i] = Append(@, f)]
    <2> HIDE DEF i, f
    <2>1. /\ fn' \in [Indices -> Seq(FunctorType)] /\ fn'[i] = Append(fn[i], f)
          /\ \A j \in Indices \ {i} : fn'[j] = fn[j]
        BY <1>2, <1>4 DEF ServerInv, ServerTypes
    <2>2. /\ DOMAIN fn[i] = 1..Len(fn[i]) /\ Len(fn[i]) \in Nat
          /\ DOMAIN fn'[i] = 1..(Len(fn[i]) + 1)
          /\ \A k \in DOMAIN fn[i] : fn'[i][k] = fn[i][k]
          /\ fn'[i][Len(fn[i]) + 1] = f
        BY <2>1, <1>2, PendingTypes
    <2>3. ServerTypes'
        BY <1>6, <1>7, <2>1 DEF ServerInv, ServerTypes
    <2>5. ASSUME NEW j \in Indices, NEW k \in DOMAIN fn'[j]
          PROVE  RightFunctor(j, k, fn[j][k][1], fn[j][k][2])'
        <3>1. CASE j # i
            <4>1. /\ fn'[j] = fn[j] /\ fn[j][k][2] \in Conns
                  /\ RightFunctor(j, k, fn[j][k][1], fn[j][k][2])
                BY <2>1, <2>5, <3>1, PendingTypes
            <4> QED BY <4>1, <1>2 DEF RightFunctor, Made
        <3>2. CASE j = i /\ k \in DOMAIN fn[i]
            <4>1. /\ fn'[i][k] = fn[i][k] /\ fn[i][k][2] \in Conns
                  /\ RightFunctor(i, k, fn[i][k][1], fn[i][k][2])
                BY <2>2, <1>2, <3>2, PendingTypes
            <4>2. ASSUME fn[i][k][1] = "established", NEW l \in DOMAIN fn'[i],
                         fn'[i][l][2] = fn[i][k][2]
                  PROVE  k <= l
                <5>1. CASE l \in DOMAIN fn[i]
                    BY <4>1, <4>2, <5>1, <2>2 DEF RightFunctor
                <5>2. CASE l \notin DOMAIN fn[i]
                    BY <5>2, <3>2, <2>2
                <5> QED BY <5>1, <5>2
            <4> QED BY <4>1, <4>2, <3>2, <1>2 DEF RightFunctor, Made
        <3>3. CASE j = i /\ k \notin DOMAIN fn[i]
            <4>1. k = Len(fn[i]) + 1 /\ fn'[i][k] = f
                BY <2>2, <2>5, <3>3
            <4>2. ASSUME what = "established", NEW l \in DOMAIN fn'[i],
                         fn'[i][l][2] = c
                  PROVE  k <= l
                <5>1. l \notin DOMAIN fn[i]
                    BY <4>2, <2>2, <1>2, PendingTypes DEF RightFunctor
                <5> QED BY <5>1, <4>1, <2>2
            <4>3. what = "established" => conns[c].m_state = "Connecting"
                BY <1>2 DEF ServerInv, ServerFacts, Accepted
            <4>4. fn'[j][k][1] = what /\ fn'[j][k][2] = c
                BY <4>1, <3>3, <1>2
            <4> QED BY <4>2, <4>3, <4>4, <3>3, <1>2 DEF RightFunctor, Made, i
        <3> QED BY <3>1, <3>2, <3>3
    <2>6. Functors'
        BY <2>5 DEF Functors
    <2>10. ASSUME NEW d \in Conns, Made(d), ~Left(conns[d].loop)
           PROVE  KeptUntilDestroyed(d)'
        <3>1. KeptUntilDestroyed(d) /\ conns[d].loop \in Indices
            BY <2>10 DEF ServerInv, ServerTypes, ServerFacts, Kept, ConnType
        <3>2. (\E k \in DOMAIN fn[conns[d].loop] :
                  fn[conns[d].loop][k] = <<"destroyed", d>>) =>
              (\E k \in DOMAIN fn'[conns[d].loop] :
                  fn'[conns[d].loop][k] = <<"destroyed", d>>)
            <4>1. CASE conns[d].loop = i
                BY <4>1, <2>2
            <4>2. CASE conns[d].loop # i
                BY <4>2, <3>1, <2>1
            <4> QED BY <4>1, <4>2
        <3>3. CASE d # c
            BY <3>1, <3>2, <3>3, <1>10, <2>10 DEF KeptUntilDestroyed
        <3>4. CASE d = c
            <4>1. CASE what = "established"
                BY <3>1, <3>2, <3>4, <4>1 DEF KeptUntilDestroyed
            <4>2. CASE what = "destroyed"
                <5>1. Len(fn[i]) + 1 \in DOMAIN fn'[i]
                    BY <2>2
                <5> QED BY <5>1, <4>2, <3>4, <2>2 DEF KeptUntilDestroyed, i, f
            <4> QED BY <4>1, <4>2 DEF Whats
        <3> QED BY <3>3, <3>4
    <2>11. Kept'
        BY <2>10, <1>0 DEF Kept, Made, Left
    <2>12. PoolUp' /\ UpWithoutGrief'
        BY <1>0, <1>4 DEF ServerInv, PoolUp, UpWithoutGrief
    <2> QED BY <1>1, <1>8, <1>9, <1>11, <2>3, <2>6, <2>11, <2>12
            DEF ServerInv, ServerFacts
<1>5. CASE ~LoopExists(i) /\ fate' = "use after free" /\ fn' = fn
    <2>1. ServerTypes'
        BY <1>5, <1>6, <1>7 DEF ServerInv, ServerTypes
    <2>3. ASSUME NEW j \in Indices, NEW k \in DOMAIN fn[j]
          PROVE  RightFunctor(j, k, fn[j][k][1], fn[j][k][2])'
        <3>1. /\ fn[j][k][2] \in Conns
              /\ RightFunctor(j, k, fn[j][k][1], fn[j][k][2])
            BY <2>3, PendingTypes
        <3> QED BY <3>1, <1>2, <1>5 DEF RightFunctor, Made
    <2>4. Functors'
        BY <2>3, <1>5 DEF Functors
    <2>8. Kept'
        BY <1>5 DEF Kept, Running
    <2>9. thr[i].pc = "dead"
        <3>1. thr[i] \in ThreadType /\ Begun(i)
            BY <1>2 DEF ServerInv, PoolInv, PoolTypes, ThreadFacts
        <3> QED BY <3>1, <1>5 DEF ThreadType, Locations, Begun, LoopExists
    <2>10. PoolUp' /\ UpWithoutGrief'
        BY <2>9, <1>0, <1>2 DEF ServerInv, PoolUp, UpWithoutGrief
    <2> QED BY <1>1, <1>8, <1>9, <1>11, <2>1, <2>4, <2>8, <2>10
            DEF ServerInv, ServerFacts
<1> QED BY <1>3, <1>4, <1>5

\* newConnection enters what it has made in m_connections.
LEMMA NewConnectionKeeps == ASSUME ServerInv, NewConnection PROVE ServerInv'
<1> DEFINE c == acc.conn
<1>1. /\ c \in Conns /\ conns[c].m_state = "Connecting" /\ opc = "started"
      /\ Running
    BY DEF NewConnection, ServerInv, ServerTypes, ServerFacts, Accepted
<1>2. /\ QueueInLoop(conns[c].loop, <<"established", c>>)
      /\ acc' = [acc EXCEPT !.conn = 0]
      /\ UNCHANGED <<pool, srv, clients, m_connections, conns, fds, mq>>
    BY DEF NewConnection
<1>3. acc'.conn = 0
    BY <1>2
<1> QED BY <1>1, <1>2, <1>3, Queueing DEF Made, Whats

\* removeConnection takes one connection out and queues its end.
LEMMA RemoveConnectionKeeps ==
    ASSUME ServerInv, RemoveConnectionInLoop PROVE ServerInv'
<1> DEFINE c == Head(mq)
<1>1. /\ Running /\ srv = "up" /\ opc = "started" /\ acc.conn = 0 /\ mq # <<>>
      /\ m_connections' = [m_connections EXCEPT ![conns[c].fd] = 0]
      /\ QueueInLoop(conns[c].loop, <<"destroyed", c>>)
      /\ mq' = Tail(mq)
      /\ UNCHANGED <<pool, srv, acc, clients, conns, fds>>
    BY DEF RemoveConnectionInLoop, MainLoops
<1>2. c \in Conns /\ conns[c].m_state = "Disconnected"
    <2>1. mq \in Seq(Conns)
        BY DEF ServerInv, ServerTypes
    <2>2. 1 \in DOMAIN mq /\ c = mq[1] /\ c \in Conns
        BY <1>1, <2>1
    <2> QED BY <2>2 DEF ServerInv, ServerFacts, Closing
<1> HIDE DEF c
<1> QED BY <1>1, <1>2, Queueing DEF Made, Whats

\* ~TcpServer takes one connection out and queues its end to its loop.
LEMMA DestroyConnectionKeeps ==
    ASSUME ServerInv, NEW f \in Fds, DestroyConnection(f) PROVE ServerInv'
<1> DEFINE c == m_connections[f]
<1>1. /\ Running /\ srv = "dtor" /\ opc = "started" /\ c # 0
      /\ QueueInLoop(conns[c].loop, <<"destroyed", c>>)
      /\ m_connections' = [m_connections EXCEPT ![f] = 0]
      /\ UNCHANGED <<pool, srv, acc, clients, conns, fds, mq>>
    BY DEF DestroyConnection
<1>2. c \in Conns /\ Made(c) /\ conns[c].fd = f /\ acc.conn = 0
    BY <1>1 DEF ServerInv, ServerTypes, ServerFacts, Accepted
<1> HIDE DEF c
<1> QED BY <1>1, <1>2, Queueing DEF Whats

\* A functor of a sub loop: connectEstablished meets a connection that is new,
\* and connectDestroyed one that is closed, unless ~TcpServer sent it.
LEMMA RunFunctorKeeps ==
    ASSUME ServerInv, NEW i \in Indices, RunFunctor(i) PROVE ServerInv'
<1> DEFINE what == Head(fn[i])[1]
           c == Head(fn[i])[2]
           r == ran(conns[c], what)
           n == [thr[i] EXCEPT !.readable = @ /\ batch[i] # 0,
                               !.pc = IF batch'[i] = 0 /\ ~thr[i].looping
                                      THEN "leave" ELSE "loop"]
<1>0. /\ Running /\ thr[i].pc = "loop" /\ fn[i] # <<>>
      /\ conns' = [conns EXCEPT ![c] = r]
      /\ fate' = IF r.channel = "assert" THEN "poller assert" ELSE fate
      /\ fn' = [fn EXCEPT ![i] = Tail(@)]
      /\ thr' = [thr EXCEPT ![i].readable = @ /\ batch[i] # 0,
                            ![i].pc = IF batch'[i] = 0 /\ ~thr[i].looping
                                      THEN "leave" ELSE "loop"]
      /\ UNCHANGED <<opc, cur, next, given, srv, acc, clients, m_connections,
                     fds, mq>>
    BY DEF RunFunctor
<1>1. /\ 1 \in DOMAIN fn[i] /\ Head(fn[i]) = fn[i][1] /\ Len(fn[i]) \in Nat
      /\ Len(fn[i]) >= 1
    <2>1. fn[i] \in Seq(FunctorType) /\ fn[i] # <<>>
        BY <1>0, PendingTypes
    <2> QED BY <2>1
<1>2. /\ c \in Conns /\ what \in Whats /\ conns[c] \in ConnType
      /\ conns[c].loop = i /\ Made(c) /\ c # acc.conn
      /\ what = "established" =>
            /\ conns[c].m_state = "Connecting"
            /\ \A l \in DOMAIN fn[i] : fn[i][l][2] = c => 1 <= l
      /\ what = "destroyed" /\ srv = "up" => conns[c].m_state = "Disconnected"
    BY <1>1, PendingTypes DEF RightFunctor, ServerInv, ServerTypes
<1>3. /\ r \in ConnType /\ r.fd = conns[c].fd /\ r.loop = i
      /\ what = "established" => r.m_state = "Connected" /\ r.channel = "yes"
      /\ what = "destroyed" => \/ /\ conns[c].m_state = "Disconnecting"
                                  /\ r.m_state = "Disconnecting"
                                  /\ r.channel = "assert"
                               \/ /\ conns[c].m_state # "Disconnecting"
                                  /\ r.m_state = "Disconnected"
                                  /\ r.channel = "removed"
    <2>1. CASE what = "established"
        BY <1>2, <2>1 DEF ran, ConnType
    <2>2. CASE what = "destroyed" /\ conns[c].m_state = "Disconnecting"
        BY <1>2, <2>2 DEF ran, ConnType
    <2>3. CASE what = "destroyed" /\ conns[c].m_state # "Disconnecting"
        BY <1>2, <2>3 DEF ran, ConnType
    <2> QED BY <1>2, <2>1, <2>2, <2>3 DEF Whats
<1>4. /\ n \in ThreadType /\ n.pc \in {"loop", "leave"} /\ n.loop = thr[i].loop
      /\ n.start = thr[i].start
      /\ thr' = [thr EXCEPT ![i] = n]
    <2>1. thr \in [Indices -> ThreadType] /\ thr[i] \in ThreadType
        BY DEF ServerInv, PoolInv, PoolTypes
    <2>2. thr' = [thr EXCEPT ![i] = n]
        BY <1>0, <2>1
    <2>3. n \in ThreadType /\ n.pc \in {"loop", "leave"} /\ n.loop = thr[i].loop
          /\ n.start = thr[i].start
        BY <2>1 DEF ThreadType, Locations
    <2> QED BY <2>2, <2>3
<1> HIDE DEF n, r, c, what
<1>5. PoolInv' /\ Turn'
    <2>1. thr[i].start /\ (thr[i].loop => thr[i].pc \in {"enter", "loop", "leave"})
        BY <1>0 DEF ServerInv, PoolInv, ThreadFacts, Begun
    <2>2. Forward(thr[i], n)
        BY <1>0, <1>4, <2>1 DEF Forward
    <2>3. PoolInv'
        BY <1>0, <1>4, <2>2, ThreadForward DEF ServerInv
    <2> QED BY <2>3, <1>0 DEF ServerInv, Turn
<1>6. \A j \in Indices : Left(j) => Left(j)'
    BY <1>0, <1>4 DEF ServerInv, PoolInv, PoolTypes, Left
<1>7. /\ conns' \in [Conns -> ConnType] /\ conns'[c] = r
      /\ \A d \in Conns \ {c} : conns'[d] = conns[d]
      /\ \A d \in Conns : /\ conns'[d].fd = conns[d].fd
                          /\ conns'[d].loop = conns[d].loop
                          /\ conns'[d].m_state # "none" <=> Made(d)
    <2>1. /\ conns' \in [Conns -> ConnType] /\ conns'[c] = r
          /\ \A d \in Conns \ {c} : conns'[d] = conns[d]
        BY <1>0, <1>2, <1>3 DEF ServerInv, ServerTypes
    <2>2. r.m_state # "none"
        BY <1>2, <1>3 DEF Whats
    <2> QED BY <2>1, <2>2, <1>2, <1>3 DEF Made
<1>8. /\ fn' \in [Indices -> Seq(FunctorType)]
      /\ \A j \in Indices \ {i} : fn'[j] = fn[j]
      /\ DOMAIN fn[i] = 1..Len(fn[i])
      /\ DOMAIN fn'[i] = 1..(Len(fn[i]) - 1)
      /\ \A k \in DOMAIN fn'[i] : /\ k + 1 \in DOMAIN fn[i]
                                  /\ fn'[i][k] = fn[i][k + 1]
    <2>1. fn[i] \in Seq(FunctorType) /\ fn[i] # <<>> /\ DOMAIN fn[i] = 1..Len(fn[i])
        BY <1>0, PendingTypes
    <2>2. fn'[i] = Tail(fn[i]) /\ \A j \in Indices \ {i} : fn'[j] = fn[j]
        BY <1>0 DEF ServerInv, ServerTypes
    <2>3. /\ Tail(fn[i]) \in Seq(FunctorType)
          /\ DOMAIN Tail(fn[i]) = 1..(Len(fn[i]) - 1)
          /\ \A k \in 1..(Len(fn[i]) - 1) : /\ k + 1 \in DOMAIN fn[i]
                                            /\ Tail(fn[i])[k] = fn[i][k + 1]
        BY <2>1
    <2>4. fn' \in [Indices -> Seq(FunctorType)]
        BY <2>3, <1>0 DEF ServerInv, ServerTypes
    <2> QED BY <2>1, <2>2, <2>3, <2>4
<1>9. ServerTypes'
    BY <1>0, <1>7, <1>8 DEF ServerInv, ServerTypes
<1>10. Accepted'
    <2>1. \A d \in Conns :
              conns'[d].m_state # "none" =>
                  /\ d <= clients.arrived - clients.waiting
                  /\ conns'[d].fd \in fds
        BY <1>7 DEF ServerInv, ServerFacts, Accepted
    <2>2. \A d, e \in Conns :
              /\ conns'[d].m_state # "none" /\ conns'[e].m_state # "none"
              /\ conns'[d].fd = conns'[e].fd
              => d = e
        BY <1>7 DEF ServerInv, ServerFacts, Accepted
    <2>3. \A f \in Fds : m_connections[f] # 0 =>
              /\ conns'[m_connections[f]].m_state # "none"
              /\ conns'[m_connections[f]].fd = f
        <3> SUFFICES ASSUME NEW f \in Fds, m_connections[f] # 0
                     PROVE  /\ conns'[m_connections[f]].m_state # "none"
                            /\ conns'[m_connections[f]].fd = f
            OBVIOUS
        <3>1. m_connections[f] \in Conns
            BY DEF ServerInv, ServerTypes
        <3>2. Made(m_connections[f]) /\ conns[m_connections[f]].fd = f
            BY DEF ServerInv, ServerFacts, Accepted
        <3> QED BY <3>1, <3>2, <1>7 DEF Made
    <2>4. acc.conn # 0 => conns'[acc.conn].m_state = "Connecting"
                          /\ srv = "up" /\ opc = "started"
        BY <1>2, <1>7 DEF ServerInv, ServerTypes, ServerFacts, Accepted
    <2> QED BY <2>1, <2>2, <2>3, <2>4, <1>0 DEF Accepted, Made
<1>11. ASSUME NEW j \in Indices, NEW k \in DOMAIN fn'[j]
       PROVE  RightFunctor(j, k, fn[j][k][1], fn[j][k][2])'
    <2>1. CASE j # i
        <3>1. /\ fn'[j] = fn[j] /\ fn[j][k][2] \in Conns
              /\ RightFunctor(j, k, fn[j][k][1], fn[j][k][2])
            BY <1>8, <1>11, <2>1, PendingTypes
        <3>2. fn[j][k][2] # c
            BY <3>1, <1>2, <2>1 DEF RightFunctor
        <3>3. conns'[fn[j][k][2]] = conns[fn[j][k][2]]
            BY <3>1, <3>2, <1>7
        <3> QED BY <3>1, <3>3, <1>0 DEF RightFunctor, Made
    <2>2. CASE j = i
        <3> DEFINE d == fn[i][k + 1][2]
        <3>1. /\ fn'[i][k] = fn[i][k + 1] /\ d \in Conns
              /\ RightFunctor(i, k + 1, fn[i][k + 1][1], d) /\ k \in Nat
            BY <1>8, <1>11, <1>1, <2>2, PendingTypes
        <3>2. ASSUME fn[i][k + 1][1] = "established"
              PROVE  /\ d # c
                     /\ \A l \in DOMAIN fn'[i] : fn'[i][l][2] = d => k <= l
            <4>1. d # c
                <5>1. fn[i][1][2] = d => k + 1 <= 1
                    BY <3>1, <3>2, <1>1 DEF RightFunctor
                <5>2. fn[i][1][2] = c
                    BY <1>1 DEF c
                <5> QED BY <5>1, <5>2, <1>8, <1>11, <2>2, <1>1
            <4>2. ASSUME NEW l \in DOMAIN fn'[i], fn'[i][l][2] = d PROVE k <= l
                <5>1. l + 1 \in DOMAIN fn[i] /\ fn[i][l + 1][2] = d /\ l \in Nat
                    BY <4>2, <1>8, <1>1
                <5>2. k + 1 <= l + 1
                    BY <5>1, <3>1, <3>2 DEF RightFunctor
                <5> QED BY <5>1, <5>2, <3>1
            <4> QED BY <4>1, <4>2
        <3>3. CASE d # c
            <4>1. conns'[d] = conns[d]
                BY <3>1, <3>3, <1>7
            <4> QED BY <4>1, <3>1, <3>2, <2>2, <1>0 DEF RightFunctor, Made
        <3>4. CASE d = c
            <4>1. fn[i][k + 1][1] # "established"
                BY <3>2, <3>4
            <4>2. srv = "up" /\ fn[i][k + 1][1] = "destroyed" =>
                      r.m_state = "Disconnected"
                <5>1. srv = "up" /\ fn[i][k + 1][1] = "destroyed" =>
                          conns[c].m_state = "Disconnected"
                    BY <3>1, <3>4 DEF RightFunctor
                <5> QED BY <5>1, <1>2, <1>3 DEF Whats
            <4>3. r.loop = i /\ r.m_state # "none" /\ conns'[c] = r
                BY <1>2, <1>3, <1>7
            <4> QED BY <4>1, <4>2, <4>3, <3>1, <3>4, <2>2, <1>0, <1>2
                    DEF RightFunctor, Made
        <3> QED BY <3>3, <3>4
    <2> QED BY <2>1, <2>2
<1>12. Functors'
    BY <1>11 DEF Functors
<1>13. conns[c].m_state = "Disconnected" => r.m_state = "Disconnected"
    BY <1>2, <1>3 DEF Whats
<1>14. Closing'
    <2>1. \A k \in DOMAIN mq : mq[k] \in Conns /\ conns[mq[k]].m_state = "Disconnected"
        BY DEF ServerInv, ServerTypes, ServerFacts, Closing
    <2>2. \A d \in Conns : conns[d].m_state = "Disconnected" =>
                               conns'[d].m_state = "Disconnected"
        BY <1>7, <1>13
    <2> QED BY <2>1, <2>2, <1>0 DEF Closing
<1>15. OpenConnectionsKnown'
    <2>1. r.m_state # "Disconnected" => conns[c].m_state \notin {"none", "Disconnected"}
        BY <1>13, <1>2 DEF Made
    <2> QED BY <2>1, <1>0, <1>2, <1>7
            DEF ServerInv, ServerFacts, OpenConnectionsKnown
<1>16. Kept'
    <2> SUFFICES ASSUME Running', NEW d \in Conns, Made(d)', ~Left(conns[d].loop)'
                 PROVE  KeptUntilDestroyed(d)'
        BY DEF Kept
    <2>1. /\ Made(d) /\ conns[d].loop \in Indices /\ ~Left(conns[d].loop)
          /\ conns'[d].fd = conns[d].fd /\ conns'[d].loop = conns[d].loop
        BY <1>6, <1>7 DEF ServerInv, ServerTypes, ConnType, Made
    <2>2. KeptUntilDestroyed(d)
        BY <2>1, <1>0 DEF ServerInv, ServerFacts, Kept
    <2>3. CASE m_connections[conns[d].fd] = d
        BY <2>1, <2>3, <1>0 DEF KeptUntilDestroyed
    <2>4. CASE conns[d].m_state = "Disconnected" /\ conns[d].channel = "removed"
        <3>1. conns'[d].m_state = "Disconnected" /\ conns'[d].channel = "removed"
            BY <2>4, <1>2, <1>3, <1>7 DEF Whats
        <3> QED BY <3>1 DEF KeptUntilDestroyed
    <2>5. ASSUME NEW k \in DOMAIN fn[conns[d].loop],
                 fn[conns[d].loop][k] = <<"destroyed", d>>
          PROVE  KeptUntilDestroyed(d)'
        <3>1. CASE conns[d].loop # i
            BY <2>1, <2>5, <3>1, <1>8 DEF KeptUntilDestroyed
        <3>2. CASE conns[d].loop = i /\ k # 1
            <4>1. k - 1 \in DOMAIN fn'[i] /\ fn'[i][k - 1] = fn[i][k]
                BY <2>5, <3>2, <1>1, <1>8
            <4> QED BY <4>1, <2>1, <2>5, <3>2 DEF KeptUntilDestroyed
        <3>3. CASE conns[d].loop = i /\ k = 1
            <4>1. what = "destroyed" /\ c = d
                BY <2>5, <3>3, <1>1 DEF what, c
            <4>2. r.channel # "assert"
                BY <1>0 DEF Running
            <4> QED BY <4>1, <4>2, <1>3, <1>7 DEF KeptUntilDestroyed
        <3> QED BY <3>1, <3>2, <3>3
    <2> QED BY <2>2, <2>3, <2>4, <2>5 DEF KeptUntilDestroyed
<1>17. PoolUp' /\ UpWithoutGrief'
    <2>1. srv = "up" => fate' = fate
        BY <1>0, <1>2, <1>3 DEF Whats
    <2> QED BY <2>1, <1>0 DEF ServerInv, PoolUp, UpWithoutGrief, Running
<1> QED BY <1>5, <1>9, <1>10, <1>12, <1>14, <1>15, <1>16, <1>17
        DEF ServerInv, ServerFacts

\* An open connection shuts down or closes: as long as the server is up, no
\* functor of it is pending.
LEMMA StateChanges ==
    ASSUME ServerInv, Running, NEW c \in Conns,
           conns[c].m_state \in {"Connected", "Disconnecting"},
           NEW s \in {"Disconnecting", "Disconnected"},
           conns' = [conns EXCEPT ![c].m_state = s],
           \/ mq' = mq
           \/ mq' = Append(mq, c) /\ s = "Disconnected",
           UNCHANGED <<pool, fate, srv, acc, clients, m_connections, fds, fn>>
    PROVE  ServerInv'
<1>0. UNCHANGED <<opc, cur, thr, next, given>>
    BY DEF pool
<1>1. PoolInv' /\ Turn'
    BY <1>0 DEF ServerInv, PoolInv, PoolTypes, ThreadFacts, Begun,
                JoinedBeforeGone, Turn
<1> DEFINE r == [conns[c] EXCEPT !.m_state = s]
<1>2. /\ r \in ConnType /\ r.fd = conns[c].fd /\ r.loop = conns[c].loop
      /\ r.m_state = s
    BY DEF ServerInv, ServerTypes, ConnType
<1>3. conns' = [conns EXCEPT ![c] = r]
    BY DEF ServerInv, ServerTypes
<1> HIDE DEF r
<1>4. /\ conns' \in [Conns -> ConnType] /\ conns'[c] = r
      /\ \A d \in Conns \ {c} : conns'[d] = conns[d]
      /\ \A d \in Conns : /\ conns'[d].fd = conns[d].fd
                          /\ conns'[d].loop = conns[d].loop
                          /\ Made(d)' <=> Made(d)
    BY <1>2, <1>3 DEF ServerInv, ServerTypes, Made
<1>5. /\ mq' \in Seq(Conns)
      /\ \A k \in DOMAIN mq' : \/ mq'[k] = c /\ s = "Disconnected"
                               \/ \E l \in DOMAIN mq : mq'[k] = mq[l]
    <2>1. mq \in Seq(Conns)
        BY DEF ServerInv, ServerTypes
    <2>2. CASE mq' = mq
        BY <2>1, <2>2
    <2>3. CASE mq' = Append(mq, c) /\ s = "Disconnected"
        BY <2>1, <2>3
    <2> QED BY <2>2, <2>3
<1>6. ServerTypes'
    BY <1>4, <1>5 DEF ServerInv, ServerTypes
<1>7. Accepted'
    BY <1>0, <1>4 DEF ServerInv, ServerTypes, ServerFacts, Accepted, Made
<1>8. ASSUME NEW j \in Indices, NEW k \in DOMAIN fn[j]
      PROVE  RightFunctor(j, k, fn[j][k][1], fn[j][k][2])'
    <2>1. /\ fn[j][k][2] \in Conns
          /\ RightFunctor(j, k, fn[j][k][1], fn[j][k][2])
        BY <1>8, PendingTypes
    <2> QED BY <2>1, <1>4 DEF RightFunctor, Made
<1>9. Functors'
    BY <1>8 DEF Functors
<1>10. Closing'
    <2>1. \A l \in DOMAIN mq : mq[l] \in Conns /\ mq[l] # c
        BY DEF ServerInv, ServerTypes, ServerFacts, Closing
    <2> QED BY <2>1, <1>2, <1>4, <1>5 DEF ServerInv, ServerFacts, Closing
<1>11. OpenConnectionsKnown'
    BY <1>4 DEF ServerInv, ServerFacts, OpenConnectionsKnown
<1>12. Kept'
    <2>1. \A d \in Conns : KeptUntilDestroyed(d) => KeptUntilDestroyed(d)'
        BY <1>4 DEF KeptUntilDestroyed
    <2> QED BY <2>1, <1>0, <1>4 DEF ServerInv, ServerFacts, Kept, Left
<1>13. PoolUp' /\ UpWithoutGrief'
    BY <1>0 DEF ServerInv, PoolUp, UpWithoutGrief
<1> QED BY <1>1, <1>6, <1>7, <1>9, <1>10, <1>11, <1>12, <1>13
        DEF ServerInv, ServerFacts

\* What a sub loop does to a connection: its shutdown, and its close.
LEMMA CallbacksKeep ==
    ASSUME ServerInv, NEW c \in Conns, Shutdown(c) \/ HandleClose(c)
    PROVE  ServerInv'
<1>1. CASE Shutdown(c)
    BY <1>1, StateChanges DEF Shutdown, work
<1>2. CASE HandleClose(c)
    <2>1. /\ conns' = [conns EXCEPT ![c].m_state = "Disconnected"]
          /\ fds' = fds
        BY <1>2 DEF HandleClose, disconnected, closed
    <2> QED BY <2>1, <1>2, StateChanges DEF HandleClose, work
<1> QED BY <1>1, <1>2

\* What a loop did not run goes with it; its connections owe nothing.
LEMMA DropFunctorsKeeps ==
    ASSUME ServerInv, NEW i \in Indices, DropFunctors(i) PROVE ServerInv'
<1>0. /\ Running /\ thr[i].pc = "exit" /\ fn' = [fn EXCEPT ![i] = <<>>]
      /\ UNCHANGED <<opc, cur, thr, next, given, srv, acc, clients,
                     m_connections, conns, fds, mq>>
    BY DEF DropFunctors, pool
<1>1. PoolInv' /\ Turn'
    BY <1>0 DEF ServerInv, PoolInv, PoolTypes, ThreadFacts, Begun,
                JoinedBeforeGone, Turn
<1>2. /\ fn' \in [Indices -> Seq(FunctorType)] /\ fn'[i] = <<>>
      /\ \A j \in Indices \ {i} : fn'[j] = fn[j]
    BY <1>0 DEF ServerInv, ServerTypes
<1>3. ServerTypes'
    BY <1>0, <1>2 DEF ServerInv, ServerTypes
<1>4. Accepted' /\ Closing' /\ OpenConnectionsKnown'
    BY <1>0 DEF ServerInv, ServerFacts, Accepted, Closing, Made,
                OpenConnectionsKnown
<1>5. Functors'
    <2> SUFFICES ASSUME NEW j \in Indices, NEW k \in DOMAIN fn'[j]
                 PROVE  RightFunctor(j, k, fn[j][k][1], fn[j][k][2])'
        BY DEF Functors
    <2>1. fn'[j] = fn[j]
        BY <1>2
    <2>2. RightFunctor(j, k, fn[j][k][1], fn[j][k][2])
        BY <2>1, PendingTypes
    <2> QED BY <2>1, <2>2, <1>0 DEF RightFunctor, Made
<1>6. Kept'
    <2> SUFFICES ASSUME NEW d \in Conns, Made(d), ~Left(conns[d].loop)
                 PROVE  KeptUntilDestroyed(d)'
        BY <1>0 DEF Kept, Made, Left
    <2>1. KeptUntilDestroyed(d) /\ conns[d].loop \in Indices
        BY <1>0 DEF ServerInv, ServerTypes, ServerFacts, Kept, ConnType
    <2>2. conns[d].loop # i
        BY <1>0 DEF Left
    <2> QED BY <2>1, <2>2, <1>0, <1>2 DEF KeptUntilDestroyed
<1>7. PoolUp' /\ UpWithoutGrief'
    BY <1>0 DEF ServerInv, PoolUp, UpWithoutGrief
<1> QED BY <1>1, <1>3, <1>4, <1>5, <1>6, <1>7 DEF ServerInv, ServerFacts

-----------------------------------------------------------------------------
\* Every step preserves the invariant of the server.
LEMMA ServerNextInv == ServerInv /\ [ServerNext]_allVars => ServerInv'
<1> SUFFICES ASSUME ServerInv, [ServerNext]_allVars PROVE ServerInv'
    OBVIOUS
<1>1. CASE UNCHANGED allVars
    <2>1. UNCHANGED <<opc, cur, thr, next, given, fate, srv, acc, clients,
                      m_connections, conns, fds, fn, mq>>
        BY <1>1 DEF allVars, vars, server, work
    <2>2. PoolInv' /\ Turn' /\ PoolUp' /\ UpWithoutGrief'
        BY <2>1 DEF ServerInv, PoolInv, PoolTypes, ThreadFacts, Begun,
           JoinedBeforeGone, Turn, PoolUp, UpWithoutGrief
    <2>3. ServerTypes' /\ Accepted' /\ Closing' /\ OpenConnectionsKnown'
        BY <2>1 DEF ServerInv, ServerTypes, ServerFacts, Accepted, Made, Closing,
           OpenConnectionsKnown
    <2>4. Functors' /\ Kept'
        BY <2>1 DEF ServerInv, ServerFacts, Functors, RightFunctor, Made, Kept,
           Left, KeptUntilDestroyed, Running
    <2> QED BY <2>2, <2>3, <2>4 DEF ServerInv, ServerFacts
<1>2. CASE Main
    <2>1. ASSUME NEW f \in Fds, DestroyConnection(f) PROVE ServerInv'
        BY <2>1, DestroyConnectionKeeps
    <2>2. CASE Running /\ DestroyPool
        BY <2>2, PoolStepsKeep DEF DestroyPool
    <2>3. CASE Owner /\ UNCHANGED server
        BY <2>3, PoolStepsKeep DEF Owner
    <2> QED BY <1>2, <2>1, <2>2, <2>3, ServerStepsKeep, HandleReadKeeps,
               NewConnectionKeeps, RemoveConnectionKeeps DEF Main
<1>3. ASSUME NEW i \in Indices, SubLoop(i) PROVE ServerInv'
    <2>1. CASE PoolThread(i)
        <3>1. LoopThread(i) /\ Running /\ UNCHANGED server
            BY <2>1 DEF PoolThread, LoopThread
        <3> QED BY <3>1, PoolStepsKeep
    <2> QED BY <1>3, <2>1, RunFunctorKeeps, DropFunctorsKeeps DEF SubLoop
<1>4. CASE Running /\ PoolStart /\ UNCHANGED server
    BY <1>4, PoolStepsKeep
<1>5. CASE ClientConnects \/ DestroyServer \/ RemoveFromGoneServer
    BY <1>5, ServerStepsKeep
<1>6. ASSUME NEW c \in Conns, Shutdown(c) \/ HandleClose(c) PROVE ServerInv'
    BY <1>6, CallbacksKeep
<1>7. ASSUME NEW i \in Indices, Running, OtherRound(i) \/ QuitFromLoop(i),
             UNCHANGED server
      PROVE  ServerInv'
    BY <1>7, PoolStepsKeep
<1> QED BY <1>1, <1>2, <1>3, <1>4, <1>5, <1>6, <1>7 DEF ServerNext

\* The invariant of the server holds in every state.
LEMMA ServerAlways == ServerSpec => []ServerInv
    BY ServerInitInv, ServerNextInv, PTL DEF ServerSpec

\* Whatever the order in which connections are accepted, established, closed
\* and removed on the main loop and the sub loops: a server that is up finds
\* each connection that is not closed under its descriptor.
THEOREM OpenConnectionsAlwaysKnown == ServerSpec => []OpenConnectionsKnown
<1>1. ServerInv => OpenConnectionsKnown
    BY DEF ServerInv, ServerFacts
<1> QED BY <1>1, ServerAlways, PTL

\* A TcpConnection whose loop goes on is freed only when it is closed and its
\* channel is out of the poller, also when the server goes.
THEOREM FreedWhenDestroyed == ServerSpec => []GoesWhenDestroyed
<1>1. ServerInv => GoesWhenDestroyed
    <2> SUFFICES ASSUME ServerInv, NEW c \in Conns, Made(c), ~Referenced(c),
                        InLoop(c), Running
                 PROVE  /\ conns[c].m_state = "Disconnected"
                        /\ conns[c].channel = "removed"
        BY DEF GoesWhenDestroyed, Made
    <2>1. KeptUntilDestroyed(c)
        BY DEF ServerInv, ServerFacts, Kept, InLoop, Left
    <2>2. conns[c].fd \in Fds /\ conns[c].loop \in Indices
        BY DEF ServerInv, ServerTypes, ServerFacts, Accepted, ConnType
    <2>3. m_connections[conns[c].fd] # c
        BY <2>2 DEF Referenced
    <2>4. \A k \in DOMAIN fn[conns[c].loop] :
              fn[conns[c].loop][k] # <<"destroyed", c>>
        BY <2>2 DEF Referenced
    <2> QED BY <2>1, <2>3, <2>4 DEF KeptUntilDestroyed
<1> QED BY <1>1, ServerAlways, PTL

\* While the server is up and no sub loop was left, no assertion of a poller
\* or of a connection fails and no loop that is gone is given work, for any
\* number of loops and connections.
THEOREM UpWithoutGriefAlways == ServerSpec => []UpWithoutGrief
<1>1. ServerInv => UpWithoutGrief
    BY DEF ServerInv
<1> QED BY <1>1, ServerAlways, PTL

\* The pool keeps its promises inside the server: connections are spread
\* evenly over the sub loops, and every thread is joined before its
\* EventLoopThread goes.
THEOREM PoolWithinServer == ServerSpec => [](RoundRobin /\ JoinedBeforeGone)
<1>1. ServerInv => RoundRobin /\ JoinedBeforeGone
    BY TurnIsFair DEF ServerInv, PoolInv
<1> QED BY <1>1, ServerAlways, PTL
=============================================================================
