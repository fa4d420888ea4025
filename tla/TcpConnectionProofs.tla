------------------------ MODULE TcpConnectionProofs ------------------------
(***************************************************************************)
(* Proofs about TcpConnection, for any threads, messages, calls and        *)
(* behaviour of the peer.                                                  *)
(***************************************************************************)
EXTENDS TcpConnection, SequenceTheorems, TLAPS

-----------------------------------------------------------------------------
(* The inductive invariant, part by part.                                  *)

States == {"Connecting", "Connected", "Disconnecting", "Disconnected"}
Piece == Nat \X Nat
FunctorType == [op : Owning \cup Raw, msg : Nat]
Locations == {"idle", "send", "shutdown", "shutdownInLoop", "forceCloseInLoop"}
SocketType == [wire : Seq(Piece), fin : BOOLEAN,
               peer : {"open", "closed", "reset", "dead"}]
Causes == {"forced", "late shutdown", "early shutdown", "dropped"}
Fates == {"running", "use after free", "dtor assert", "close assert",
          "poller assert", "established assert", "sigpipe"}
ConnectionType == [state : States, ch : ChannelType, out : Seq(Piece)]
ServerType == [reg : BOOLEAN, queue : Seq({"removeConnectionInLoop"}),
               one : BOOLEAN]
HistoryType == [ups : Nat, downs : Nat, sends : Nat, calls : Nat,
                taken : Seq(Piece),
                sentBy : [Threads \cup {LoopThread} -> SUBSET Nat],
                must : SUBSET Nat, causes : SUBSET Causes]

Types ==
    /\ c \in ConnectionType
    /\ s \in SocketType
    /\ queue \in Seq(FunctorType)
    /\ server \in ServerType
    /\ user \in [Threads -> [pc : Locations, msg : Nat, holds : BOOLEAN]]
    /\ h \in HistoryType

TypeOK == Types /\ alive \in BOOLEAN /\ fate \in Fates

\* What was taken on is on the wire or waits, and what waits is watched.
Stream ==
    /\ s.peer \in {"open", "closed"} => s.wire \o c.out = h.taken
    /\ h.downs = 0 => (isWriting(c.ch) <=> c.out # <<>>)

\* A functor of the queue q calls op.
In(q, op) == \E f \in Range(q) : f.op = op

\* connectDestroyed is queued at most once.
Single(q) ==
    \A i, j \in DOMAIN q :
        q[i].op = "connectDestroyed" /\ q[j].op = "connectDestroyed" => i = j

\* Before connectEstablished nothing but it can happen.
NotUp ==
    /\ h.ups = 0 /\ h.downs = 0 /\ h.causes = {}
    /\ c.state = "Connecting" /\ c.ch = NewChannel
    /\ server.queue = <<>>
    /\ \A t \in Threads : ~user[t].holds /\ user[t].pc = "idle"
    /\ IF alive THEN server.reg /\ queue = <<Functor("connectEstablished")>>
       ELSE ~server.reg /\ queue = <<>>

\* After it the state is never Connecting again.
Up ==
    /\ h.ups = 1 /\ c.state # "Connecting" /\ ~In(queue, "connectEstablished")
    /\ h.downs = 0 => c.state # "Disconnected"

\* A thread in a call has a pointer, and while a functor with plain this is
\* queued some thread has, unless it was dropped.
Holding ==
    /\ \A t \in Threads : user[t].pc # "idle" => user[t].holds
    /\ (\E f \in Range(queue) : f.op \in Raw) =>
           "dropped" \in h.causes \/ \E t \in Threads : user[t].holds

\* removeConnectionInLoop or connectDestroyed is still to run.
Removing == server.queue # <<>> \/ In(queue, "connectDestroyed")

\* A channel that a closed connection has in the poller is being removed.
Registration ==
    /\ Consistent(c.ch)
    /\ c.state = "Disconnected" => c.ch.event = {}
    /\ c.state = "Disconnected" /\ c.ch # NewChannel => Removing

\* As long as no forceClose() or late shutdown() sets the state of a closed
\* connection back, the connection is closed once, and then removed once.
Unforced == h.causes \cap Reviving = {}

ClosedOnce ==
    /\ ~In(queue, "forceCloseInLoop")
    /\ \A t \in Threads : user[t].pc # "forceCloseInLoop"
    /\ c.state \in {"Connected", "Disconnecting"} =>
          server.reg /\ READ \in c.ch.event /\ h.downs = 0 /\ ~Removing
    /\ c.state = "Disconnected" => h.downs = 1 /\ ~c.ch.epoll
    /\ Removing => c.ch.status = "DELETE"
    /\ In(queue, "connectDestroyed") => server.queue = <<>>
    /\ Len(server.queue) <= 1 /\ Single(queue)

Once == Unforced => ClosedOnce

\* What the loop's thread sent has been taken, what another thread sent has
\* been or is queued; and SHUT_WR comes after m_state was set.
IsTaken(m) == Range(Data(m)) \subseteq Range(h.taken)

Punctual == h.causes \cap {"early shutdown", "late shutdown"} = {}

Sent ==
    /\ \A m \in h.sentBy[LoopThread] : IsTaken(m)
    /\ h.downs = 0 =>
          \A t \in Threads : \A m \in h.sentBy[t] :
              SendFunctor(m) \in Range(queue) \/ IsTaken(m)
    /\ \/ s.fin \/ In(queue, "shutdownInLoop")
       \/ \E t \in Threads : user[t].pc = "shutdownInLoop"
       => c.state \notin {"Connecting", "Connected"}
    /\ h.downs = 0 /\ Punctual => \A m \in h.must : IsTaken(m)

\* The object exists as long as a pointer to it does, and is not destroyed
\* before it is closed.
Lifetime ==
    /\ alive <=> Referenced
    /\ ~alive => c.state \in {"Connecting", "Disconnected"}

Core == Holding /\ Registration /\ Once /\ Sent

IInv ==
    /\ TypeOK /\ StreamIntegrity /\ GracefulShutdown
    /\ UpDownOnce /\ AssertsHold
    /\ Running => Stream /\ Core /\ Lifetime /\ (NotUp \/ Up)

-----------------------------------------------------------------------------
(* Facts about sequences and channels.                                     *)

\* The head of a queue and the rest.
LEMMA QueueTail ==
    ASSUME NEW q \in Seq(FunctorType), q # <<>>
    PROVE  /\ Head(q) \in FunctorType /\ Tail(q) \in Seq(FunctorType)
           /\ Range(q) = {Head(q)} \cup Range(Tail(q))
           /\ Single(q) => Single(Tail(q))
           /\ Single(q) /\ Head(q).op = "connectDestroyed" =>
                  ~In(Tail(q), "connectDestroyed")
<1> DEFINE T == Tail(q)
<1>1. /\ Head(q) \in FunctorType /\ T \in Seq(FunctorType)
      /\ Len(T) = Len(q) - 1 /\ Len(q) \in Nat \ {0}
      /\ Head(q) = q[1] /\ \A i \in 1..Len(T) : T[i] = q[i + 1]
    BY HeadTailProperties, EmptySeq, LenProperties
<1>2. DOMAIN q = 1..Len(q) /\ DOMAIN T = 1..Len(T)
    BY <1>1
<1> HIDE DEF T
<1>3. \A i \in DOMAIN T : i + 1 \in DOMAIN q /\ T[i] = q[i + 1] /\ i + 1 # 1
    BY <1>1, <1>2
<1>4. \A i \in DOMAIN q : i = 1 \/ (i - 1 \in DOMAIN T /\ q[i] = T[i - 1])
    BY <1>1, <1>2
<1>5. 1 \in DOMAIN q
    BY <1>1, <1>2
<1>6. Range(q) = {Head(q)} \cup Range(T)
    <2>1. ASSUME NEW y \in Range(q) PROVE y \in {Head(q)} \cup Range(T)
        BY <1>1, <1>4, <2>1 DEF Range
    <2>2. ASSUME NEW y \in {Head(q)} \cup Range(T) PROVE y \in Range(q)
        BY <1>1, <1>3, <1>5, <2>2 DEF Range
    <2> QED BY <2>1, <2>2
<1>7. Single(q) => Single(T)
    <2> SUFFICES ASSUME Single(q), NEW i \in DOMAIN T, NEW j \in DOMAIN T,
                        T[i].op = "connectDestroyed",
                        T[j].op = "connectDestroyed"
                 PROVE  i = j
        BY DEF Single
    <2>1. i + 1 = j + 1
        BY <1>3 DEF Single
    <2> QED BY <2>1, <1>2, <1>1
<1>8. Single(q) /\ Head(q).op = "connectDestroyed" => ~In(T, "connectDestroyed")
    <2> SUFFICES ASSUME Single(q), q[1].op = "connectDestroyed",
                        NEW i \in DOMAIN T, T[i].op = "connectDestroyed"
                 PROVE  FALSE
        BY <1>1 DEF In, Range
    <2> QED BY <1>3, <1>5 DEF Single
<1> QED BY <1>1, <1>6, <1>7, <1>8 DEF T

\* A functor queued behind the others.
LEMMA QueueAppend ==
    ASSUME NEW q \in Seq(FunctorType), NEW f \in FunctorType
    PROVE  /\ Append(q, f) \in Seq(FunctorType)
           /\ Range(Append(q, f)) = Range(q) \cup {f}
           /\ Single(q) /\ (f.op = "connectDestroyed" =>
                                ~In(q, "connectDestroyed"))
                  => Single(Append(q, f))
<1> DEFINE A == Append(q, f)
<1>1. /\ A \in Seq(FunctorType) /\ Len(A) = Len(q) + 1 /\ Len(q) \in Nat
      /\ A[Len(q) + 1] = f /\ \A i \in 1..Len(q) : A[i] = q[i]
    BY AppendProperties, LenProperties
<1>2. DOMAIN q = 1..Len(q) /\ DOMAIN A = 1..Len(A)
    BY <1>1
<1> HIDE DEF A
<1>3. \A i \in DOMAIN q : i \in DOMAIN A /\ A[i] = q[i]
    BY <1>1, <1>2
<1>4. \A i \in DOMAIN A : i \in DOMAIN q \/ i = Len(q) + 1
    BY <1>1, <1>2
<1>5. Len(q) + 1 \in DOMAIN A /\ A[Len(q) + 1] = f
    BY <1>1, <1>2
<1>6. Range(A) = Range(q) \cup {f}
    BY <1>3, <1>4, <1>5 DEF Range
<1>7. Single(q) /\ (f.op = "connectDestroyed" => ~In(q, "connectDestroyed"))
         => Single(A)
    BY <1>3, <1>4, <1>5 DEF Single, In, Range
<1> QED BY <1>1, <1>6, <1>7 DEF A

\* updateChannel on a consistent channel whose m_event was just changed.
LEMMA Updating ==
    ASSUME NEW x \in ChannelType, Consistent(x), NEW E \in SUBSET Events
    PROVE  LET n == updateChannel([x EXCEPT !.event = E])
           IN  /\ n \in ChannelType /\ Consistent(n) /\ n.event = E
               /\ x.epoll /\ E = {} => n.status = "DELETE" /\ ~n.epoll
<1> DEFINE y == [x EXCEPT !.event = E]
<1>1. /\ y \in ChannelType /\ y.status = x.status /\ y.event = E
      /\ y.mapped = x.mapped /\ y.epoll = x.epoll
    BY DEF ChannelType
<1> HIDE DEF y
<1>2. CASE y.status \in {"NEW", "DELETE"}
    <2>1. updateChannel(y) = [y EXCEPT !.mapped = TRUE, !.status = "ADD",
                                       !.epoll = TRUE]
        BY <1>2 DEF updateChannel
    <2> QED BY <2>1, <1>1, <1>2 DEF ChannelType, Statuses, Consistent, y
<1>3. CASE y.status = "ADD" /\ isNoneEvent(y)
    <2>1. updateChannel(y) = [y EXCEPT !.status = "DELETE", !.epoll = FALSE]
        BY <1>3 DEF updateChannel
    <2> QED BY <2>1, <1>1, <1>3
            DEF ChannelType, Statuses, Consistent, isNoneEvent, y
<1>4. CASE y.status = "ADD" /\ ~isNoneEvent(y)
    <2>1. updateChannel(y) = y
        BY <1>4 DEF updateChannel
    <2> QED BY <2>1, <1>1, <1>4
            DEF ChannelType, Statuses, Consistent, isNoneEvent, y
<1>5. y.status \in {"NEW", "DELETE"} \/ y.status = "ADD"
    BY <1>1 DEF ChannelType, Statuses
<1> QED BY <1>2, <1>3, <1>4, <1>5 DEF y

\* removeChannel makes a channel that wants nothing a new one.
LEMMA RemovingChannel ==
    ASSUME NEW x \in ChannelType, isNoneEvent(x)
    PROVE  removeChannel(x) = NewChannel
<1> DEFINE y == removeChannel(x)
<1>1. /\ y \in ChannelType /\ y.status = "NEW" /\ y.event = {}
      /\ y.mapped = FALSE /\ y.epoll = FALSE
    BY DEF removeChannel, ChannelType, Statuses, isNoneEvent
<1> HIDE DEF y
<1> QED BY <1>1 DEF ChannelType, NewChannel, y

\* The new channel is consistent.
LEMMA NewIsConsistent ==
    NewChannel \in ChannelType /\ Consistent(NewChannel)
    BY DEF NewChannel, ChannelType, Statuses, Consistent

\* The pieces of a message.
LEMMA DataType ==
    ASSUME NEW m \in Nat
    PROVE  Data(m) \in Seq(Piece) /\ Len(Data(m)) = Pieces
    BY IsASeq DEF Data, Pieces, Piece

-----------------------------------------------------------------------------
(* The end of a step.                                                      *)

\* Facts about the fates, and about the causes that explain them.
LEMMA FateFacts ==
    /\ Explains("use after free") = {"dropped"}
    /\ \A f \in {"dtor assert", "close assert", "poller assert"} :
          Explains(f) = Reviving
    BY DEF Explains

\* A step in which nothing went wrong: if it destroys a connection that is
\* not closed, someone has forced it.
LEMMA Settled ==
    ASSUME alive, Settle("running"), Types', Stream', GracefulShutdown',
           Core', Up'
    PROVE  IInv'
<1>1. alive' <=> Referenced'
    BY DEF Settle
<1>2. alive' \in BOOLEAN
    BY DEF Settle
<1>3. IF ~alive' /\ c'.state # "Disconnected" THEN fate' = "dtor assert"
      ELSE fate' = "running"
    BY DEF Settle
<1>4. TypeOK'
    BY <1>2, <1>3 DEF TypeOK, Fates
<1>5. StreamIntegrity'
    BY DEF Stream, StreamIntegrity
<1>6. c'.state \in {"Connected", "Disconnecting", "Disconnected"}
    BY DEF Up, Types, ConnectionType, States
<1>7. UpDownOnce'
    BY <1>6 DEF Up, Core, Once, Unforced, ClosedOnce, UpDownOnce
<1>8. AssertsHold'
    <2> SUFFICES ASSUME ~alive', c'.state # "Disconnected"
                 PROVE  h'.causes \cap Explains("dtor assert") # {}
        BY <1>3 DEF AssertsHold
    <2>1. ~server'.reg
        BY <1>1 DEF Referenced
    <2>2. ~Unforced'
        BY <2>1, <1>6 DEF Core, Once, ClosedOnce
    <2> QED BY <2>2, FateFacts DEF Unforced
<1>9. Running' => Lifetime'
    BY <1>1, <1>3 DEF Running, Lifetime
<1> QED BY <1>4, <1>5, <1>7, <1>8, <1>9 DEF IInv

\* A step in which something went wrong: no invariant but the ones of the
\* result is left to show.
LEMMA Doomed ==
    ASSUME NEW trouble \in Fates \ {"running"}, Settle(trouble), Types',
           StreamIntegrity', GracefulShutdown', UpDownOnce',
           trouble # "sigpipe" => h'.causes \cap Explains(trouble) # {}
    PROVE  IInv'
<1>1. fate' = trouble /\ alive' \in BOOLEAN
    BY DEF Settle
<1>2. TypeOK' /\ AssertsHold' /\ ~Running'
    BY <1>1 DEF TypeOK, AssertsHold, Running
<1> QED BY <1>2 DEF IInv

\* The invariant holds before the connection is made.
LEMMA Initially == Init => IInv
<1> SUFFICES ASSUME Init PROVE IInv
    OBVIOUS
<1> USE DEF Init
<1>1. Types
    <2>1. c \in ConnectionType
        BY NewIsConsistent DEF States, ConnectionType
    <2>2. user \in [Threads -> [pc : Locations, msg : Nat, holds : BOOLEAN]]
        BY DEF Locations, NoMsg
    <2>3. [t \in Threads \cup {LoopThread} |-> {}]
             \in [Threads \cup {LoopThread} -> SUBSET Nat]
        OBVIOUS
    <2>4. s \in SocketType
        BY DEF SocketType
    <2>5. server \in ServerType
        <3>1. <<>> \in Seq({"removeConnectionInLoop"})
            OBVIOUS
        <3> QED BY <3>1 DEF ServerType
    <2>6. h \in HistoryType
        BY <2>3 DEF HistoryType
    <2> QED BY <2>1, <2>2, <2>4, <2>5, <2>6, EmptySeq DEF Types
<1>2. TypeOK
    BY <1>1 DEF TypeOK, Fates
<1>3. Stream /\ StreamIntegrity
    BY DEF Stream, StreamIntegrity, isWriting, NewChannel
<1>4. GracefulShutdown /\ UpDownOnce /\ AssertsHold
    BY DEF GracefulShutdown, UpDownOnce, AssertsHold
<1>5. Range(queue) = {}
    BY DEF Range
<1>6. Core
    BY <1>5, NewIsConsistent
       DEF Core, Holding, Registration, Once, ClosedOnce, Removing, Single, In,
           Sent
<1>7. Lifetime /\ NotUp
    BY <1>5 DEF Lifetime, Referenced, NotUp
<1> QED BY <1>2, <1>3, <1>4, <1>6, <1>7 DEF IInv

-----------------------------------------------------------------------------
(* Functors that run.                                                      *)

Ops == Owning \cup Raw

\* What is queued is a functor, and keeps what it was made of.
LEMMA FunctorFacts ==
    /\ \A op \in Ops : Functor(op) \in FunctorType /\ Functor(op).op = op
    /\ \A m \in Nat : /\ SendFunctor(m) \in FunctorType
                      /\ SendFunctor(m).op = "sendInLoop"
                      /\ SendFunctor(m).msg = m
    /\ \A f \in FunctorType : f.op = "sendInLoop" => f = SendFunctor(f.msg)
    BY DEF Functor, SendFunctor, FunctorType, Ops, Owning, Raw, NoMsg

\* A functor runs on a connection that is up and exists, and the others stay
\* in the queue.
LEMMA Popped ==
    ASSUME IInv, NEW op \in Ops \ {"connectEstablished"}, Runs(op)
    PROVE  /\ Running /\ alive /\ Up
           /\ Head(queue) \in FunctorType /\ Head(queue).op = op
           /\ Tail(queue) \in Seq(FunctorType)
           /\ Range(queue) = {Head(queue)} \cup Range(Tail(queue))
           /\ In(queue, op)
           /\ Single(queue) => Single(Tail(queue))
<1>1. queue \in Seq(FunctorType) /\ queue # <<>> /\ Head(queue).op = op
    BY DEF Runs, IInv, TypeOK, Types
<1>2. /\ Head(queue) \in FunctorType
      /\ Tail(queue) \in Seq(FunctorType)
      /\ Range(queue) = {Head(queue)} \cup Range(Tail(queue))
      /\ Single(queue) => Single(Tail(queue))
    BY <1>1, QueueTail
<1>3. In(queue, op)
    BY <1>1, <1>2 DEF In
<1>4. alive
    <2>1. CASE op \in Raw
        BY <2>1 DEF Runs
    <2>2. CASE op \in Owning
        BY <2>2, <1>1, <1>2 DEF Runs, IInv, Lifetime, Referenced
    <2> QED BY <2>1, <2>2 DEF Ops
<1>5. ~NotUp
    <2> SUFFICES ASSUME queue = <<Functor("connectEstablished")>> PROVE FALSE
        BY <1>1 DEF NotUp
    <2>1. Head(queue) = Functor("connectEstablished")
        OBVIOUS
    <2> QED BY <2>1, <1>1, FunctorFacts DEF Ops, Owning
<1> QED BY <1>1, <1>2, <1>3, <1>4, <1>5 DEF Runs, IInv

\* writeComplete and shutdownInLoop: SHUT_WR is done only when nothing waits
\* to be written.
LEMMA TailStep ==
    ASSUME IInv, NEW op \in {"shutdownInLoop", "writeComplete"}, Runs(op),
           UNCHANGED <<c, server, user, h>>, queue' = Tail(queue),
           s' \in SocketType,
           s'.wire = s.wire, s'.peer = s.peer,
           s'.fin => s.fin \/ (op = "shutdownInLoop" /\ ~isWriting(c.ch)),
           Settle("running")
    PROVE  IInv'
<1>1. op \in Ops \ {"connectEstablished"}
    BY DEF Ops, Owning, Raw
<1>2. /\ Running /\ alive /\ Up
      /\ Head(queue).op = op
      /\ Tail(queue) \in Seq(FunctorType)
      /\ Range(queue) = {Head(queue)} \cup Range(queue')
      /\ In(queue, op)
      /\ Single(queue) => Single(queue')
    BY <1>1, Popped
<1>3. /\ \A o : In(queue', o) => In(queue, o)
      /\ \A o : o # op => (In(queue, o) => In(queue', o))
    BY <1>2 DEF In
<1>4. Core /\ Stream /\ Types
    BY <1>2 DEF IInv, TypeOK
<1>5. Types'
    BY <1>2, <1>4 DEF Types
<1>6. Stream'
    BY <1>4 DEF Stream
<1>7. Up'
    BY <1>2, <1>3 DEF Up
<1>8. Holding'
    BY <1>2, <1>4 DEF Core, Holding
<1>9. Removing' <=> Removing
    BY <1>3 DEF Removing
<1>10. Registration'
    BY <1>4, <1>9 DEF Core, Registration
<1>11. Once'
    <2>1. ClosedOnce => ClosedOnce'
        BY <1>2, <1>3, <1>9 DEF ClosedOnce
    <2> QED BY <2>1, <1>4 DEF Core, Once, Unforced
<1>12. Sent'
    <2>1. \A m \in Nat : SendFunctor(m) \in Range(queue) =>
              SendFunctor(m) \in Range(queue')
        BY <1>2, FunctorFacts
    <2>2. \A t \in Threads : h.sentBy[t] \subseteq Nat
        BY <1>4 DEF Types, HistoryType
    <2>3. s'.fin => c.state \notin {"Connecting", "Connected"}
        BY <1>2, <1>4 DEF Core, Sent
    <2> QED BY <2>1, <2>2, <2>3, <1>3, <1>4
            DEF Core, Sent, IsTaken, Punctual
<1>13. GracefulShutdown'
    <2>1. CASE s.fin
        BY <2>1 DEF IInv, GracefulShutdown
    <2>2. CASE ~s.fin
        <3> SUFFICES ASSUME s'.fin, h.downs = 0, Punctual,
                            s.peer \in {"open", "closed"}
                     PROVE  \A m \in h.must :
                               Range(Data(m)) \subseteq Range(s.wire)
            BY DEF GracefulShutdown, Punctual
        <3>1. c.out = <<>> /\ s.wire \o c.out = h.taken
            BY <2>2, <1>4 DEF Stream
        <3>2. s.wire = h.taken
            BY <3>1, <1>4, ConcatEmptySeq DEF Types
        <3> QED BY <3>2, <1>4 DEF Core, Sent, IsTaken
    <2> QED BY <2>1, <2>2
<1> QED BY <1>2, <1>5, <1>6, <1>7, <1>8, <1>10, <1>11, <1>12, <1>13, Settled
        DEF Core

\* The functor that calls the write-complete callback.
LEMMA WriteCompleteStep == ASSUME IInv, RunWriteComplete PROVE IInv'
<1>1. Runs("writeComplete") /\ Settle("running") /\ queue' = Tail(queue)
    BY DEF RunWriteComplete
<1>2. s' = s /\ UNCHANGED <<c, server, user, h>>
    BY DEF RunWriteComplete
<1>3. s \in SocketType
    BY DEF IInv, TypeOK, Types
<1> QED BY <1>1, <1>2, <1>3, TailStep

\* shutdownInLoop on the socket.
LEMMA ShuttingDown ==
    ASSUME NEW ch, NEW sk \in SocketType
    PROVE  LET n == shutdownInLoop(sk, ch)
           IN  /\ n \in SocketType
               /\ n.wire = sk.wire /\ n.peer = sk.peer
               /\ n.fin <=> sk.fin \/ ~isWriting(ch)
    BY DEF shutdownInLoop, SocketType

\* The functor of shutdown().
LEMMA ShutdownInLoopStep == ASSUME IInv, RunShutdownInLoop PROVE IInv'
<1>1. Runs("shutdownInLoop") /\ Settle("running") /\ queue' = Tail(queue)
    BY DEF RunShutdownInLoop
<1>2. s' = shutdownInLoop(s, c.ch) /\ UNCHANGED <<c, server, user, h>>
    BY DEF RunShutdownInLoop
<1>3. s \in SocketType
    BY DEF IInv, TypeOK, Types
<1> QED BY <1>1, <1>2, <1>3, ShuttingDown, TailStep

-----------------------------------------------------------------------------
(* The connection comes up.                                                *)

\* A step that destroys nothing.
LEMMA Kept ==
    ASSUME fate' = "running", alive', alive' \in BOOLEAN, Referenced',
           Types', Stream', GracefulShutdown', Core', Up'
    PROVE  IInv'
<1>1. TypeOK'
    BY DEF TypeOK, Fates
<1>2. StreamIntegrity' /\ AssertsHold'
    BY DEF Stream, StreamIntegrity, AssertsHold
<1>3. c'.state \in {"Connected", "Disconnecting", "Disconnected"}
    BY DEF Up, Types, ConnectionType, States
<1>4. UpDownOnce'
    BY <1>3 DEF Up, Core, Once, Unforced, ClosedOnce, UpDownOnce
<1>5. Lifetime'
    BY DEF Lifetime
<1> QED BY <1>1, <1>2, <1>4, <1>5 DEF IInv

\* connectEstablished, wherever it runs.
LEMMA Establishing ==
    ASSUME IInv, Running, NotUp, c' = established,
           h' = [h EXCEPT !.ups = @ + 1], queue' = <<>>,
           UNCHANGED <<s, user>>,
           server' \in ServerType,
           server'.reg, server'.queue = <<>>
    PROVE  Types' /\ Stream' /\ GracefulShutdown' /\ Core' /\ Up'
<1>1. Core /\ Stream /\ Types
    BY DEF IInv, TypeOK
<1>2. c.state = "Connecting" /\ c.ch = NewChannel
    BY DEF NotUp
<1> DEFINE n == addListenEvents(c.ch, READ)
<1>3. n \in ChannelType /\ Consistent(n) /\ n.event = {READ}
    <2>1. c.ch.event \cup {READ} = {READ} /\ {READ} \in SUBSET Events
        BY <1>2 DEF NewChannel, Events
    <2>2. n = updateChannel([c.ch EXCEPT !.event = {READ}])
        BY <2>1 DEF addListenEvents
    <2>3. c.ch \in ChannelType /\ Consistent(c.ch)
        BY <1>2, NewIsConsistent
    <2>4. LET y == updateChannel([c.ch EXCEPT !.event = {READ}])
          IN  y \in ChannelType /\ Consistent(y) /\ y.event = {READ}
        BY <2>1, <2>3, Updating
    <2> QED BY <2>2, <2>4
<1> HIDE DEF n
<1>4. /\ c'.state = "Connected" /\ c'.ch = n /\ c'.out = c.out
      /\ c' \in ConnectionType
    BY <1>1, <1>3 DEF established, Types, ConnectionType, States, n
<1>5. /\ h'.ups = 1 /\ h'.downs = 0 /\ h'.causes = {}
      /\ h'.taken = h.taken /\ h'.sentBy = h.sentBy /\ h'.must = h.must
    BY <1>1 DEF NotUp, Types, HistoryType
<1>6. Types'
    <2>1. h.ups + 1 \in Nat
        BY <1>1 DEF Types, HistoryType
    <2>2. h' \in HistoryType
        BY <1>1, <2>1 DEF Types, HistoryType
    <2> QED BY <2>2, <1>1, <1>4, EmptySeq DEF Types
<1>7. Range(queue') = {} /\ \A o : ~In(queue', o)
    BY DEF Range, In
<1>8. c.out = <<>>
    BY <1>1, <1>2 DEF Stream, NotUp, isWriting, NewChannel
<1>9. Stream'
    BY <1>1, <1>3, <1>4, <1>5, <1>8
       DEF Stream, isWriting, READ, WRITE
<1>10. ~s.fin
    BY <1>1, <1>2 DEF Core, Sent
<1>11. GracefulShutdown'
    BY <1>10 DEF GracefulShutdown
<1>12. Up'
    BY <1>4, <1>5, <1>7 DEF Up
<1>13. Holding'
    BY <1>7 DEF NotUp, Holding
<1>14. Registration'
    BY <1>3, <1>4 DEF Registration
<1>15. Once'
    <2>1. ~Removing' /\ Single(queue') /\ Len(server'.queue) = 0
        BY <1>7 DEF Removing, Single
    <2> QED BY <2>1, <1>3, <1>4, <1>5, <1>7
            DEF Once, ClosedOnce, NotUp
<1>16. Sent'
    <2>1. \A m \in Nat : SendFunctor(m) \notin Range(queue)
        <3>1. ASSUME NEW m \in Nat, SendFunctor(m) \in Range(queue) PROVE FALSE
            <4>1. queue = <<Functor("connectEstablished")>>
                BY <3>1 DEF NotUp, Range
            <4>2. SendFunctor(m) = Functor("connectEstablished")
                BY <4>1, <3>1 DEF Range
            <4> QED BY <4>2, FunctorFacts DEF Ops, Owning
        <3> QED BY <3>1
    <2>2. \A t \in Threads : h.sentBy[t] \subseteq Nat
        BY <1>1 DEF Types, HistoryType
    <2> QED BY <2>1, <2>2, <1>1, <1>4, <1>5, <1>7, <1>10
            DEF Core, Sent, IsTaken, Punctual, NotUp
<1> QED BY <1>6, <1>9, <1>11, <1>12, <1>13, <1>14, <1>15, <1>16 DEF Core

\* The functor of connectEstablished.
LEMMA ConnectEstablishedStep == ASSUME IInv, RunConnectEstablished PROVE IInv'
<1>1. /\ Running /\ queue # <<>> /\ Head(queue).op = "connectEstablished"
      /\ queue \in Seq(FunctorType) /\ Types
    BY DEF RunConnectEstablished, Runs, IInv, TypeOK, Types
<1>2. Head(queue) \in Range(queue)
    BY <1>1, QueueTail
<1>3. In(queue, "connectEstablished") /\ alive
    BY <1>1, <1>2 DEF In, IInv, Lifetime, Referenced, Owning
<1>4. NotUp
    BY <1>1, <1>3 DEF IInv, Up
<1>5. queue' = <<>>
    <2>1. queue = <<Functor("connectEstablished")>> /\ queue' = Tail(queue)
        BY <1>3, <1>4 DEF NotUp, RunConnectEstablished
    <2> QED BY <2>1
<1>6. Settle("running")
    BY <1>4 DEF RunConnectEstablished, NotUp
<1>7. /\ server' = server /\ server.reg /\ server.queue = <<>>
      /\ UNCHANGED <<s, user>>
      /\ c' = established /\ h' = [h EXCEPT !.ups = @ + 1]
    BY <1>3, <1>4 DEF RunConnectEstablished, NotUp
<1>8. Types' /\ Stream' /\ GracefulShutdown' /\ Core' /\ Up'
    BY <1>1, <1>4, <1>5, <1>7, Establishing DEF Types
<1> QED BY <1>3, <1>6, <1>8, Settled

\* TcpServer::newConnection makes the connection.
LEMMA NewConnectionStep == ASSUME IInv, NewConnection PROVE IInv'
<1>1. /\ Running /\ ~alive /\ NotUp /\ Types
      /\ server' = [server EXCEPT !.reg = TRUE]
      /\ alive' = TRUE /\ fate' = "running" /\ UNCHANGED <<s, user>>
    BY DEF NewConnection, Running, IInv, TypeOK, Up
<1>2. queue = <<>> /\ server.queue = <<>>
    BY <1>1 DEF NotUp
<1>3. /\ server' \in ServerType
      /\ server'.reg /\ server'.queue = <<>>
    BY <1>1, <1>2 DEF Types, ServerType
<1>4. Referenced'
    BY <1>3 DEF Referenced
<1>5. CASE server.one
    <2>1. c' = established /\ h' = [h EXCEPT !.ups = @ + 1] /\ queue' = <<>>
        BY <1>2, <1>5 DEF NewConnection
    <2>2. Types' /\ Stream' /\ GracefulShutdown' /\ Core' /\ Up'
        BY <1>1, <1>3, <2>1, Establishing
    <2> QED BY <1>1, <1>4, <2>2, Kept
<1>6. CASE ~server.one
    <2> DEFINE f == Functor("connectEstablished")
    <2>1. queue' = <<f>> /\ UNCHANGED <<c, h>>
        BY <1>2, <1>6 DEF NewConnection
    <2>2. f \in FunctorType /\ f.op = "connectEstablished"
        BY FunctorFacts DEF Ops, Owning
    <2> HIDE DEF f
    <2>3. queue' \in Seq(FunctorType) /\ Range(queue') = {f}
        BY <2>1, <2>2 DEF Range
    <2>4. Types' /\ TypeOK'
        BY <1>1, <1>3, <2>1, <2>3 DEF Types, TypeOK, Fates
    <2>5. /\ Stream' /\ StreamIntegrity' /\ GracefulShutdown'
          /\ UpDownOnce' /\ AssertsHold'
        BY <1>1, <2>1 DEF IInv, Stream, StreamIntegrity, GracefulShutdown,
                          UpDownOnce, AssertsHold, Running
    <2>6. NotUp'
        BY <1>1, <1>3, <2>1 DEF NotUp, f
    <2>7. Lifetime'
        BY <1>1, <1>4 DEF Lifetime
    <2>8. Core'
        <3>1. Range(queue) = {}
            BY <1>2 DEF Range
        <3>2. ~Removing'
            BY <1>3, <2>2, <2>3 DEF Removing, In

        <3>3. Holding'
            BY <1>1, <2>2, <2>3 DEF NotUp, Holding, Raw
        <3>4. Registration'
            BY <1>1, <2>1 DEF NotUp, Registration, IInv, Core
        <3>5. Once'
            <4>1. ~In(queue', "forceCloseInLoop") /\ Single(queue')
                BY <2>1, <2>2, <2>3 DEF In, Single
            <4> QED BY <4>1, <3>2, <1>1, <1>3, <2>1
                    DEF NotUp, Once, ClosedOnce
        <3>6. Sent'
            <4>1. ~In(queue', "shutdownInLoop")
                BY <2>2, <2>3 DEF In
            <4> QED BY <4>1, <3>1, <1>1, <2>1
                    DEF IInv, Core, Sent, IsTaken, Punctual, NotUp
        <3> QED BY <3>3, <3>4, <3>5, <3>6 DEF Core
    <2> QED BY <2>4, <2>5, <2>6, <2>7, <2>8 DEF IInv
<1> QED BY <1>5, <1>6

-----------------------------------------------------------------------------
(* The connection goes down.                                               *)

\* removeConnection leaves a removal to run, and only one if there was none.
LEMMA RemovalQueued ==
    ASSUME Types, NEW q \in Seq(FunctorType), removeConnection(q)
    PROVE  /\ server' \in ServerType /\ queue' \in Seq(FunctorType)
           /\ Removing'
           /\ Range(q) \subseteq Range(queue')
           /\ \A f \in Range(queue') :
                 f \in Range(q) \/ f = Functor("connectDestroyed")
           /\ server.queue = <<>> /\ ~In(q, "connectDestroyed") /\ Single(q) =>
                 /\ Len(server'.queue) <= 1 /\ Single(queue')
                 /\ In(queue', "connectDestroyed") => server'.queue = <<>>
<1> DEFINE f == Functor("connectDestroyed")
<1>1. f \in FunctorType /\ f.op = "connectDestroyed"
    BY FunctorFacts DEF Ops, Owning
<1> HIDE DEF f
<1>2. server \in ServerType
    BY DEF Types
<1>3. CASE server.one
    <2>1. /\ server' = [server EXCEPT !.reg = FALSE]
          /\ queue' = Append(q, f)
        BY <1>3 DEF removeConnection, f
    <2>2. /\ queue' \in Seq(FunctorType)
          /\ Range(queue') = Range(q) \cup {f}
          /\ Single(q) /\ ~In(q, "connectDestroyed") => Single(queue')
        BY <1>1, <2>1, QueueAppend
    <2>3. server' \in ServerType /\ server'.queue = server.queue
        BY <1>2, <2>1 DEF ServerType
    <2>4. In(queue', "connectDestroyed")
        BY <1>1, <2>2 DEF In
    <2>5. server.queue = <<>> => Len(server'.queue) <= 1
        BY <2>3
    <2> QED BY <2>2, <2>3, <2>4, <2>5 DEF Removing, f
<1>4. CASE ~server.one
    <2> DEFINE sq == Append(server.queue, "removeConnectionInLoop")
    <2>1. server' = [server EXCEPT !.queue = sq] /\ queue' = q
        BY <1>4 DEF removeConnection
    <2>2. server.queue \in Seq({"removeConnectionInLoop"})
        BY <1>2 DEF ServerType
    <2>3. /\ sq \in Seq({"removeConnectionInLoop"})
          /\ Len(sq) = Len(server.queue) + 1 /\ Len(server.queue) \in Nat
        BY <2>2
    <2>4. sq # <<>>
        BY <2>3
    <2>5. server.queue = <<>> => Len(sq) <= 1
        BY <2>3
    <2> HIDE DEF sq
    <2>6. server' \in ServerType /\ server'.queue = sq
        BY <1>2, <2>1, <2>3 DEF ServerType
    <2> QED BY <2>1, <2>4, <2>5, <2>6 DEF Removing, In
<1> QED BY <1>3, <1>4

\* handleClose of a connection that is up.  Unless it was forced it comes from
\* an event of the channel, in a state that handleClose expects.
LEMMA CloseStep ==
    ASSUME IInv, Running, alive, Up, NEW st, NEW q \in Seq(FunctorType),
           handleClose(st, q),
           Range(q) \subseteq Range(queue),
           Unforced => /\ c.ch.epoll /\ q = queue /\ st = c.state
                       /\ c.state \in {"Connected", "Disconnecting"}
    PROVE  IInv'
<1>1. Core /\ Stream /\ Types
    BY DEF IInv, TypeOK
<1> DEFINE n == delAllListenEvents(c.ch)
<1>2. c.ch \in ChannelType /\ Consistent(c.ch)
    BY <1>1 DEF Types, ConnectionType, Core, Registration
<1>3. /\ n \in ChannelType /\ Consistent(n) /\ n.event = {}
      /\ c.ch.epoll => n.status = "DELETE" /\ ~n.epoll
    BY <1>2, Updating DEF delAllListenEvents
<1> HIDE DEF n
<1>4. /\ c' \in ConnectionType
      /\ c'.state = "Disconnected" /\ c'.ch = n /\ c'.out = c.out
    BY <1>1, <1>3 DEF handleClose, Types, ConnectionType, States, n
<1>5. /\ h' \in HistoryType /\ h'.downs = h.downs + 1 /\ h'.downs # 0
      /\ h'.ups = h.ups /\ h'.causes = h.causes /\ h'.taken = h.taken
      /\ h'.sentBy = h.sentBy /\ h'.must = h.must
    <2>1. h.downs \in Nat /\ h.downs + 1 \in Nat /\ h.downs + 1 # 0
        BY <1>1 DEF Types, HistoryType
    <2>2. h \in HistoryType /\ h' = [h EXCEPT !.downs = h.downs + 1]
        BY <1>1 DEF handleClose, Types
    <2> QED BY <2>1, <2>2 DEF HistoryType
<1>6. UNCHANGED <<s, user>> /\ removeConnection(q)
    BY DEF handleClose
<1>7. /\ server' \in ServerType /\ queue' \in Seq(FunctorType)
      /\ Removing'
      /\ \A f \in Range(queue') :
            f \in Range(q) \/ f = Functor("connectDestroyed")
      /\ server.queue = <<>> /\ ~In(q, "connectDestroyed") /\ Single(q) =>
            /\ Len(server'.queue) <= 1 /\ Single(queue')
            /\ In(queue', "connectDestroyed") => server'.queue = <<>>
    BY <1>1, <1>6, RemovalQueued
<1>8. \A f \in Range(queue') :
          f \in Range(queue) \/ f.op = "connectDestroyed"
    BY <1>7, FunctorFacts DEF Ops, Owning
<1>9. \A o : o # "connectDestroyed" => (In(queue', o) => In(queue, o))
    BY <1>8 DEF In
<1>10. Types'
    BY <1>1, <1>4, <1>5, <1>6, <1>7 DEF Types
<1>11. Stream' /\ StreamIntegrity'
    BY <1>1, <1>4, <1>5, <1>6 DEF Stream, StreamIntegrity
<1>12. GracefulShutdown'
    BY <1>5 DEF GracefulShutdown
<1>13. CASE st \in {"Connected", "Disconnecting"}
    <2>1. Settle("running")
        BY <1>2, <1>13 DEF handleClose, updateAsserts, Consistent
    <2>2. Up'
        BY <1>4, <1>5, <1>9 DEF Up
    <2>3. Holding'
        BY <1>1, <1>5, <1>6, <1>8 DEF Core, Holding, Raw
    <2>4. Registration'
        BY <1>3, <1>4, <1>7 DEF Registration
    <2>5. Once'
        <3> SUFFICES ASSUME Unforced PROVE ClosedOnce'
            BY <1>5 DEF Once, Unforced
        <3>1. ClosedOnce /\ ~Removing /\ h.downs = 0
            BY <1>1 DEF Core, Once, ClosedOnce
        <3>2. /\ server.queue = <<>> /\ ~In(q, "connectDestroyed")
              /\ Single(q)
            BY <3>1 DEF ClosedOnce, Removing
        <3>3. ~In(queue', "forceCloseInLoop")
            BY <3>1, <1>9 DEF ClosedOnce
        <3> QED BY <3>1, <3>2, <3>3, <1>3, <1>4, <1>5, <1>6, <1>7
                DEF ClosedOnce
    <2>6. Sent'
        BY <1>1, <1>4, <1>5, <1>6 DEF Core, Sent, IsTaken, Punctual
    <2> QED BY <2>1, <2>2, <2>3, <2>4, <2>5, <2>6, <1>10, <1>11, <1>12,
               Settled DEF Core
<1>14. CASE st \notin {"Connected", "Disconnecting"}
    <2>1. Settle("close assert") /\ ~Unforced
        BY <1>14 DEF handleClose
    <2>2. UpDownOnce'
        <3>1. h'.ups <= 1
            BY <1>5 DEF Up
        <3>2. ~Unforced'
            BY <2>1, <1>5 DEF Unforced
        <3> QED BY <3>1, <3>2 DEF UpDownOnce, Unforced
    <2>3. h'.causes \cap Explains("close assert") # {}
        BY <2>1, <1>5, FateFacts DEF Unforced
    <2> QED BY <2>1, <2>2, <2>3, <1>10, <1>11, <1>12, Doomed DEF Fates
<1> QED BY <1>13, <1>14

\* The functor of forceClose().
LEMMA ForceCloseInLoopStep == ASSUME IInv, RunForceCloseInLoop PROVE IInv'
<1> DEFINE st == IF c.state = "Connected" THEN c.state ELSE "Disconnecting"
<1>1. Runs("forceCloseInLoop") /\ handleClose(st, Tail(queue))
    BY DEF RunForceCloseInLoop
<1>2. "forceCloseInLoop" \in Ops \ {"connectEstablished"}
    BY DEF Ops, Owning
<1>3. /\ Running /\ alive /\ Up /\ In(queue, "forceCloseInLoop")
      /\ Tail(queue) \in Seq(FunctorType)
      /\ Range(Tail(queue)) \subseteq Range(queue)
    BY <1>1, <1>2, Popped
<1>4. ~Unforced
    BY <1>3 DEF IInv, Core, Once, ClosedOnce
<1> HIDE DEF st
<1> QED BY <1>1, <1>3, <1>4, CloseStep

\* The channel has events only while the connection is up, and a connection
\* that was closed and not forced has none.
LEMMA PolledFacts ==
    ASSUME IInv, Polled
    PROVE  /\ Running /\ alive /\ Up
           /\ Unforced => c.state \in {"Connected", "Disconnecting"}
<1>1. Running /\ alive /\ c.ch.epoll
    BY DEF Polled
<1>2. Up
    BY <1>1 DEF IInv, NotUp, NewChannel
<1>3. Unforced => c.state # "Disconnected"
    BY <1>1 DEF IInv, Core, Once, ClosedOnce
<1>4. c.state \in States
    BY DEF IInv, TypeOK, Types, ConnectionType
<1> QED BY <1>1, <1>2, <1>3, <1>4 DEF Up, States

\* handleClose, at the end of the stream or on a hang-up.
LEMMA HandleCloseStep ==
    ASSUME IInv, HandleReadEnd \/ HandleHangUp PROVE IInv'
<1>1. Polled /\ handleClose(c.state, queue)
    BY DEF HandleReadEnd, HandleHangUp
<1>2. c.ch.epoll /\ queue \in Seq(FunctorType)
    BY <1>1 DEF Polled, IInv, TypeOK, Types
<1> QED BY <1>1, <1>2, PolledFacts, CloseStep

\* The main loop drops the server's pointer and queues connectDestroyed.
LEMMA RemoveConnectionStep == ASSUME IInv, RemoveConnectionInLoop PROVE IInv'
<1> DEFINE f == Functor("connectDestroyed")
<1>1. f \in FunctorType /\ f.op = "connectDestroyed"
    BY FunctorFacts DEF Ops, Owning
<1>2. /\ Running /\ server.queue # <<>> /\ queue' = Append(queue, f)
      /\ server' = [server EXCEPT !.queue = Tail(@), !.reg = FALSE]
      /\ UNCHANGED <<c, s, user, h>> /\ Settle("running")
    BY DEF RemoveConnectionInLoop
<1> HIDE DEF f
<1>3. Core /\ Stream /\ Types /\ alive /\ Up
    BY <1>2 DEF IInv, TypeOK, Lifetime, Referenced, NotUp
<1>4. /\ queue' \in Seq(FunctorType)
      /\ Range(queue') = Range(queue) \cup {f}
      /\ Single(queue) /\ ~In(queue, "connectDestroyed") => Single(queue')
    BY <1>1, <1>2, <1>3, QueueAppend DEF Types
<1>5. /\ server' \in ServerType
      /\ Len(server.queue) <= 1 => server'.queue = <<>>
    <2>1. server \in ServerType /\ server.queue \in Seq({"removeConnectionInLoop"})
        BY <1>3 DEF Types, ServerType
    <2>2. /\ Tail(server.queue) \in Seq({"removeConnectionInLoop"})
          /\ Len(server.queue) <= 1 => Tail(server.queue) = <<>>
        BY <2>1, <1>2, HeadTailProperties, EmptySeq, LenProperties
    <2> QED BY <1>2, <2>1, <2>2 DEF ServerType
<1>6. /\ \A o : In(queue, o) => In(queue', o)
      /\ \A o : o # "connectDestroyed" => (In(queue', o) => In(queue, o))
      /\ In(queue', "connectDestroyed") /\ Removing' /\ Removing
    BY <1>1, <1>2, <1>4 DEF In, Removing
<1>7. Types'
    BY <1>2, <1>3, <1>4, <1>5 DEF Types
<1>8. Stream' /\ GracefulShutdown'
    BY <1>2, <1>3 DEF Stream, GracefulShutdown, IInv
<1>9. Up'
    BY <1>2, <1>3, <1>6 DEF Up
<1>10. Holding'
    BY <1>1, <1>2, <1>3, <1>4 DEF Core, Holding, Raw
<1>11. Registration'
    BY <1>2, <1>3, <1>6 DEF Core, Registration
<1>12. Once'
    <2> SUFFICES ASSUME Unforced PROVE ClosedOnce'
        BY <1>2 DEF Once, Unforced
    <2>1. ClosedOnce
        BY <1>3 DEF Core, Once
    <2>2. c.state \notin {"Connected", "Disconnecting"}
        BY <2>1, <1>6 DEF ClosedOnce
    <2>3. ~In(queue, "connectDestroyed") /\ server'.queue = <<>>
        BY <2>1, <1>2, <1>5 DEF ClosedOnce
    <2>4. Len(server'.queue) <= 1
        BY <2>3
    <2> QED BY <2>1, <2>2, <2>3, <2>4, <1>2, <1>4, <1>6 DEF ClosedOnce
<1>13. Sent'
    BY <1>2, <1>3, <1>4, <1>6 DEF Core, Sent, IsTaken, Punctual
<1> QED BY <1>2, <1>3, <1>7, <1>8, <1>9, <1>10, <1>11, <1>12, <1>13, Settled
        DEF Core

\* connectDestroyed takes the channel out of the poller.  Only on a connection
\* that was forced can it find the channel still wanting events, or gone.
LEMMA ConnectDestroyedStep == ASSUME IInv, RunConnectDestroyed PROVE IInv'
<1> DEFINE up == c.state = "Connected"
           quiet == IF up THEN delAllListenEvents(c.ch) ELSE c.ch
<1>1. "connectDestroyed" \in Ops \ {"connectEstablished"}
    BY DEF Ops, Owning
<1>2. /\ Runs("connectDestroyed") /\ queue' = Tail(queue)
      /\ UNCHANGED <<s, server, user>>
      /\ c' = [c EXCEPT !.state = IF up THEN "Disconnected" ELSE @,
                        !.ch = removeChannel(quiet)]
      /\ h' = [h EXCEPT !.downs = IF up THEN @ + 1 ELSE @]
      /\ Settle(IF removeAsserts(quiet) THEN "running" ELSE "poller assert")
    BY DEF RunConnectDestroyed, connectDestroyed
<1>3. /\ Running /\ alive /\ Up /\ In(queue, "connectDestroyed")
      /\ queue' \in Seq(FunctorType)
      /\ Head(queue).op = "connectDestroyed"
      /\ Range(queue) = {Head(queue)} \cup Range(queue')
      /\ Single(queue) => Single(queue')
    BY <1>1, <1>2, Popped
<1>4. Core /\ Stream /\ Types
    BY <1>3 DEF IInv, TypeOK
<1>5. Single(queue) => ~In(queue', "connectDestroyed")
    BY <1>2, <1>3, <1>4, QueueTail DEF Types, Runs
<1>6. /\ \A o : In(queue', o) => In(queue, o)
      /\ \A o : o # "connectDestroyed" => (In(queue, o) => In(queue', o))
    BY <1>3 DEF In
<1>7. /\ quiet \in ChannelType /\ Consistent(quiet)
      /\ up => quiet.event = {}
      /\ ~up => quiet = c.ch
    <2>1. c.ch \in ChannelType /\ Consistent(c.ch)
        BY <1>4 DEF Types, ConnectionType, Core, Registration
    <2>2. LET y == delAllListenEvents(c.ch)
          IN  y \in ChannelType /\ Consistent(y) /\ y.event = {}
        BY <2>1, Updating DEF delAllListenEvents
    <2> QED BY <2>1, <2>2
<1> HIDE DEF quiet
<1>8. /\ removeChannel(quiet) \in ChannelType
      /\ removeChannel(quiet).event = quiet.event
    BY <1>7 DEF removeChannel, ChannelType, Statuses
<1>9. /\ c' \in ConnectionType /\ c'.ch = removeChannel(quiet)
      /\ c'.out = c.out
      /\ c'.state = IF up THEN "Disconnected" ELSE c.state
    BY <1>2, <1>4, <1>8 DEF Types, ConnectionType, States
<1>10. /\ h' \in HistoryType
       /\ h'.downs = IF up THEN h.downs + 1 ELSE h.downs
       /\ up => h'.downs # 0
       /\ h'.ups = h.ups /\ h'.causes = h.causes /\ h'.taken = h.taken
       /\ h'.sentBy = h.sentBy /\ h'.must = h.must
    <2>1. h.downs \in Nat /\ h.downs + 1 \in Nat /\ h.downs + 1 # 0
        BY <1>4 DEF Types, HistoryType
    <2>2. h \in HistoryType
        BY <1>4 DEF Types
    <2> QED BY <2>1, <2>2, <1>2 DEF HistoryType
<1>11. Types'
    BY <1>2, <1>3, <1>4, <1>9, <1>10 DEF Types
<1>12. Stream' /\ StreamIntegrity'
    <2>1. h'.downs = 0 => (isWriting(c'.ch) <=> isWriting(c.ch))
        BY <1>7, <1>8, <1>9, <1>10 DEF isWriting
    <2> QED BY <2>1, <1>2, <1>4, <1>9, <1>10 DEF Stream, StreamIntegrity
<1>13. GracefulShutdown'
    BY <1>2, <1>10 DEF GracefulShutdown, IInv
<1>14. ASSUME Unforced
       PROVE  /\ c.state = "Disconnected" /\ server.queue = <<>>
              /\ ~In(queue', "connectDestroyed") /\ removeAsserts(quiet)
              /\ ClosedOnce
    <2>1. ClosedOnce
        BY <1>4, <1>14 DEF Core, Once
    <2>2. Removing
        BY <1>3 DEF Removing
    <2>3. c.ch.status = "DELETE"
        BY <2>1, <2>2 DEF ClosedOnce
    <2>4. c.state \notin {"Connected", "Disconnecting"}
        BY <2>1, <2>2 DEF ClosedOnce
    <2>5. c.state \in States
        BY <1>4 DEF Types, ConnectionType
    <2>6. c.state = "Disconnected"
        BY <2>4, <2>5, <1>3 DEF Up, States
    <2>7. server.queue = <<>> /\ ~In(queue', "connectDestroyed")
        BY <2>1, <1>3, <1>5 DEF ClosedOnce
    <2>8. removeAsserts(quiet)
        BY <2>3, <2>6, <1>4, <1>7
           DEF removeAsserts, Core, Registration, Consistent, isNoneEvent
    <2> QED BY <2>1, <2>6, <2>7, <2>8
<1>15. CASE removeAsserts(quiet)
    <2>1. Settle("running")
        BY <1>2, <1>15
    <2>2. c'.ch = NewChannel
        BY <1>7, <1>9, <1>15, RemovingChannel DEF removeAsserts
    <2>3. Up'
        BY <1>3, <1>6, <1>9, <1>10 DEF Up
    <2>4. Holding'
        BY <1>2, <1>3, <1>4, <1>10 DEF Core, Holding
    <2>5. Registration'
        BY <2>2, NewIsConsistent DEF Registration, NewChannel
    <2>6. Once'
        <3> SUFFICES ASSUME Unforced PROVE ClosedOnce'
            BY <1>10 DEF Once, Unforced
        <3>1. ~Removing'
            BY <1>2, <1>14 DEF Removing
        <3>2. c'.state = "Disconnected" /\ ~c'.ch.epoll /\ h'.downs = h.downs
            BY <2>2, <1>9, <1>10, <1>14 DEF NewChannel
        <3> QED BY <3>1, <3>2, <1>2, <1>3, <1>6, <1>14 DEF ClosedOnce
    <2>7. Sent'
        <3>1. \A m \in Nat : SendFunctor(m) \in Range(queue) =>
                  SendFunctor(m) \in Range(queue')
            BY <1>3, FunctorFacts
        <3>2. \A t \in Threads : h.sentBy[t] \subseteq Nat
            BY <1>4 DEF Types, HistoryType
        <3> QED BY <3>1, <3>2, <1>2, <1>4, <1>6, <1>9, <1>10
                DEF Core, Sent, IsTaken, Punctual
    <2> QED BY <2>1, <2>3, <2>4, <2>5, <2>6, <2>7, <1>3, <1>11, <1>12, <1>13,
               Settled DEF Core
<1>16. CASE ~removeAsserts(quiet)
    <2>1. Settle("poller assert") /\ ~Unforced
        BY <1>2, <1>14, <1>16
    <2>2. UpDownOnce'
        <3>1. h'.ups <= 1
            BY <1>3, <1>10 DEF Up
        <3>2. ~Unforced'
            BY <2>1, <1>10 DEF Unforced
        <3> QED BY <3>1, <3>2 DEF UpDownOnce, Unforced
    <2>3. h'.causes \cap Explains("poller assert") # {}
        BY <2>1, <1>10, FateFacts DEF Unforced
    <2> QED BY <2>1, <2>2, <2>3, <1>11, <1>12, <1>13, Doomed DEF Fates
<1> QED BY <1>15, <1>16

-----------------------------------------------------------------------------
(* Output.                                                                 *)

\* A step of the loop that moves output, in the state the connection is in:
\* it changes the channel's interest in WRITE at most, and queues nothing but
\* writeComplete.
LEMMA OutputStep ==
    ASSUME IInv, Running, alive, Up, Settle("running"),
           UNCHANGED <<server, user>>,
           c' \in ConnectionType, c'.state = c.state, Consistent(c'.ch),
           READ \in c.ch.event => READ \in c'.ch.event,
           c.state = "Disconnected" => c' = c,
           s' \in SocketType, s'.fin => s.fin \/ c.state = "Disconnecting",
           queue' \in Seq(FunctorType), Single(queue) => Single(queue'),
           \A f \in Range(queue') :
               f \in Range(queue) \/ f.op = "writeComplete",
           \A f \in Range(queue) : f \in Range(queue') \/ f.op = "sendInLoop",
           h' \in HistoryType, h'.ups = h.ups, h'.downs = h.downs,
           h'.causes = h.causes, h'.must = h.must,
           \A t \in Threads : h'.sentBy[t] = h.sentBy[t],
           Range(h.taken) \subseteq Range(h'.taken),
           \A m \in h'.sentBy[LoopThread] :
               \/ m \in h.sentBy[LoopThread]
               \/ Range(Data(m)) \subseteq Range(h'.taken),
           h.downs = 0 => \A m \in Nat :
               SendFunctor(m) \in Range(queue) =>
                   \/ SendFunctor(m) \in Range(queue')
                   \/ Range(Data(m)) \subseteq Range(h'.taken),
           Stream', GracefulShutdown'
    PROVE  IInv'
<1>1. Core /\ Types
    BY DEF IInv, TypeOK
<1>2. /\ \A o : o # "writeComplete" => (In(queue', o) => In(queue, o))
      /\ \A o : o # "sendInLoop" => (In(queue, o) => In(queue', o))
    BY DEF In
<1>3. Types'
    BY <1>1 DEF Types
<1>4. Up'
    BY <1>2 DEF Up
<1>5. Removing' <=> Removing
    BY <1>2 DEF Removing
<1>6. Holding'
    BY <1>1 DEF Core, Holding, Raw
<1>7. Registration'
    BY <1>1, <1>5 DEF Core, Registration
<1>8. Once'
    <2> SUFFICES ASSUME Unforced PROVE ClosedOnce'
        BY DEF Once, Unforced
    <2>1. ClosedOnce
        BY <1>1 DEF Core, Once
    <2>2. c.state \in {"Connected", "Disconnecting", "Disconnected"}
        BY <1>1 DEF Types, ConnectionType, States, Up
    <2>3. Removing => c'.ch.status = "DELETE"
        BY <2>1, <2>2 DEF ClosedOnce
    <2> QED BY <2>1, <2>2, <2>3, <1>2, <1>5 DEF ClosedOnce
<1>9. Sent'
    <2>1. \A m : IsTaken(m) => IsTaken(m)'
        BY DEF IsTaken
    <2>2. \A m \in h'.sentBy[LoopThread] : IsTaken(m)'
        BY <2>1, <1>1 DEF Core, Sent, IsTaken
    <2>3. h'.downs = 0 =>
             \A t \in Threads : \A m \in h'.sentBy[t] :
                 SendFunctor(m) \in Range(queue') \/ IsTaken(m)'
        <3> SUFFICES ASSUME h.downs = 0, NEW t \in Threads,
                            NEW m \in h.sentBy[t]
                     PROVE  SendFunctor(m) \in Range(queue') \/ IsTaken(m)'
            OBVIOUS
        <3>1. m \in Nat
            BY <1>1 DEF Types, HistoryType
        <3>2. SendFunctor(m) \in Range(queue) \/ IsTaken(m)
            BY <1>1 DEF Core, Sent
        <3> QED BY <3>1, <3>2, <2>1 DEF IsTaken
    <2>4. s'.fin \/ In(queue', "shutdownInLoop")
             \/ (\E t \in Threads : user[t].pc = "shutdownInLoop")
          => c.state \notin {"Connecting", "Connected"}
        BY <1>1, <1>2 DEF Core, Sent
    <2>5. h'.downs = 0 /\ Punctual' => \A m \in h'.must : IsTaken(m)'
        BY <2>1, <1>1 DEF Core, Sent, Punctual
    <2> QED BY <2>2, <2>3, <2>4, <2>5 DEF Sent
<1> QED BY <1>3, <1>4, <1>6, <1>7, <1>8, <1>9, Settled DEF Core

\* What sendInLoop leaves for later is behind what waits already.
LEMMA Buffering ==
    ASSUME c \in ConnectionType, Consistent(c.ch), NEW d \in Seq(Piece)
    PROVE  LET n == buffered(d)
           IN  /\ n \in ConnectionType /\ n.state = c.state
               /\ n.out = c.out \o d /\ Consistent(n.ch)
               /\ isWriting(n.ch) <=> isWriting(c.ch) \/ d # <<>>
               /\ READ \in c.ch.event => READ \in n.ch.event
<1> DEFINE a == addListenEvents(c.ch, WRITE)
           ch == IF d = <<>> \/ isWriting(c.ch) THEN c.ch ELSE a
<1>1. /\ c.ch \in ChannelType /\ c.out \o d \in Seq(Piece)
      /\ c.ch.event \cup {WRITE} \in SUBSET Events
    BY DEF ConnectionType, ChannelType, Events
<1>2. a \in ChannelType /\ Consistent(a) /\ a.event = c.ch.event \cup {WRITE}
    BY <1>1, Updating DEF addListenEvents
<1> HIDE DEF a
<1>3. /\ ch \in ChannelType /\ Consistent(ch)
      /\ isWriting(ch) <=> isWriting(c.ch) \/ d # <<>>
      /\ READ \in c.ch.event => READ \in ch.event
    BY <1>1, <1>2 DEF isWriting
<1>4. buffered(d) = [c EXCEPT !.out = c.out \o d, !.ch = ch]
    BY DEF buffered, a
<1> HIDE DEF ch
<1> QED BY <1>1, <1>3, <1>4 DEF ConnectionType

\* Pieces behind one another.
LEMMA ThreeParts ==
    ASSUME NEW x \in Seq(Piece), NEW y \in Seq(Piece), NEW z \in Seq(Piece)
    PROVE  (x \o y) \o z = x \o (y \o z)
    BY ConcatAssociative

\* The pieces sendInLoop writes and the pieces it keeps are the message.
LEMMA PiecesSplit ==
    ASSUME NEW m \in Nat, NEW k \in 0..Pieces
    PROVE  LET d == Data(m)
               w == SubSeq(d, 1, k)
               r == SubSeq(d, k + 1, Pieces)
           IN  w \in Seq(Piece) /\ r \in Seq(Piece) /\ w \o r = d
<1> DEFINE d == Data(m)
<1>1. d \in Seq(Piece) /\ Len(d) = Pieces /\ Pieces \in Nat
    BY DataType DEF Pieces
<1> HIDE DEF d
<1>2. k \in Nat /\ k <= Pieces
    BY <1>1
<1>3. 1 \in 1..(Len(d) + 1) /\ k \in (1 - 1)..Len(d) /\ Pieces \in k..Len(d)
    BY <1>1, <1>2
<1>4. SubSeq(d, 1, k) \o SubSeq(d, k + 1, Pieces) = SubSeq(d, 1, Pieces)
    BY <1>1, <1>3, ConcatAdjacentSubSeq
<1>5. SubSeq(d, 1, Pieces) = d
    BY <1>1, SubSeqFull
<1>6. SubSeq(d, 1, k) \in Seq(Piece)
    BY <1>1, <1>2
<1>7. SubSeq(d, k + 1, Pieces) \in Seq(Piece)
    BY <1>1, <1>2
<1> QED BY <1>4, <1>5, <1>6, <1>7 DEF d

\* sendInLoop of m, with h' as the caller leaves it.
LEMMA SendStep ==
    ASSUME IInv, Running, alive, Up, NEW m \in Nat,
           NEW q \in Seq(FunctorType), sendInLoop(m, q),
           Range(q) \subseteq Range(queue), Single(queue) => Single(q),
           \A f \in Range(queue) : f \in Range(q) \/ f = SendFunctor(m),
           h' \in HistoryType, h'.ups = h.ups, h'.downs = h.downs,
           h'.causes = h.causes, h'.must = h.must,
           h'.taken = h.taken \o Taken(m),
           \A t \in Threads : h'.sentBy[t] = h.sentBy[t],
           \A k \in h'.sentBy[LoopThread] :
               k \in h.sentBy[LoopThread] \/ (k = m /\ c.state # "Disconnected")
    PROVE  IInv'
<1> DEFINE d == Data(m)
<1>1. /\ Core /\ Stream /\ Types
      /\ c \in ConnectionType /\ s \in SocketType /\ queue \in Seq(FunctorType)
    BY DEF IInv, TypeOK, Types
<1>2. /\ d \in Seq(Piece) /\ Taken(m) \in Seq(Piece) /\ h.taken \in Seq(Piece)
      /\ s.wire \in Seq(Piece) /\ c.out \in Seq(Piece)
    BY <1>1, DataType, EmptySeq
       DEF Taken, Types, HistoryType, SocketType, ConnectionType
<1>3. Range(h'.taken) = Range(h.taken) \cup Range(Taken(m))
    BY <1>2, RangeConcatenation
<1>4. /\ Range(h.taken) \subseteq Range(h'.taken)
      /\ c.state # "Disconnected" => Range(Data(m)) \subseteq Range(h'.taken)
    BY <1>3 DEF Taken
<1>5. Consistent(c.ch)
    BY <1>1 DEF Core, Registration
<1>6. /\ \A k \in h'.sentBy[LoopThread] :
            \/ k \in h.sentBy[LoopThread]
            \/ Range(Data(k)) \subseteq Range(h'.taken)
      /\ \A f \in Range(queue) : f \in Range(q) \/ f.op = "sendInLoop"
      /\ h.downs = 0 => \A k \in Nat :
            SendFunctor(k) \in Range(queue) =>
                \/ SendFunctor(k) \in Range(q)
                \/ Range(Data(k)) \subseteq Range(h'.taken)
    BY <1>4, FunctorFacts DEF Up
<1>7. UNCHANGED <<server, user>>
    BY DEF sendInLoop
<1>8. CASE c.state = "Disconnected"
    <2>1. queue' = q /\ UNCHANGED <<c, s>> /\ Settle("running")
        BY <1>8 DEF sendInLoop
    <2>2. h'.taken = h.taken
        BY <1>2, <1>8, ConcatEmptySeq DEF Taken
    <2>3. Stream' /\ GracefulShutdown'
        BY <2>1, <2>2, <1>1 DEF Stream, GracefulShutdown, IInv
    <2> QED BY <2>1, <2>3, <1>1, <1>4, <1>5, <1>6, <1>7, OutputStep
<1>9. CASE c.state # "Disconnected" /\ ~mayWriteDirectly
    <2>1. /\ c' = buffered(d) /\ queue' = q /\ s' = s /\ Settle("running")
          /\ h'.taken = h.taken \o d
        BY <1>9 DEF sendInLoop, sendOpen, Taken
    <2> HIDE DEF d
    <2>2. /\ c' \in ConnectionType /\ c'.state = c.state
          /\ c'.out = c.out \o d /\ Consistent(c'.ch)
          /\ isWriting(c'.ch) <=> isWriting(c.ch) \/ d # <<>>
          /\ READ \in c.ch.event => READ \in c'.ch.event
        BY <2>1, <1>1, <1>2, <1>5, Buffering
    <2>3. c'.out # <<>> <=> c.out # <<>> \/ d # <<>>
        BY <2>2, <1>2, ConcatProperties, EmptySeq
    <2>4. (s.wire \o c.out) \o d = s.wire \o (c.out \o d)
        BY <1>2, ThreeParts
    <2>5. Stream'
        BY <2>1, <2>2, <2>3, <2>4, <1>1 DEF Stream
    <2>6. GracefulShutdown'
        BY <2>1 DEF GracefulShutdown, IInv
    <2> QED BY <2>1, <2>2, <2>5, <2>6, <1>1, <1>4, <1>6, <1>7, <1>9, OutputStep
<1>10. ASSUME c.state # "Disconnected", mayWriteDirectly, WriteTakes,
              NEW k \in 0..Pieces,
              s' = [s EXCEPT !.wire = @ \o SubSeq(d, 1, k)],
              c' = buffered(SubSeq(d, k + 1, Pieces)),
              queue' = IF k < Pieces THEN q
                       ELSE Append(q, Functor("writeComplete")),
              Settle("running")
       PROVE  IInv'
    <2> DEFINE w == SubSeq(d, 1, k)
               r == SubSeq(d, k + 1, Pieces)
    <2>1. w \in Seq(Piece) /\ r \in Seq(Piece) /\ w \o r = d
        BY PiecesSplit
    <2>2. s' = [s EXCEPT !.wire = s.wire \o w] /\ c' = buffered(r)
        BY <1>10
    <2>3. h'.taken = h.taken \o d
        BY <1>10 DEF Taken
    <2> HIDE DEF w, r, d
    <2>4. c.out = <<>> /\ ~isWriting(c.ch)
        BY <1>10 DEF mayWriteDirectly
    <2>5. /\ c' \in ConnectionType /\ c'.state = c.state
          /\ c'.out = c.out \o r /\ Consistent(c'.ch)
          /\ isWriting(c'.ch) <=> isWriting(c.ch) \/ r # <<>>
          /\ READ \in c.ch.event => READ \in c'.ch.event
        BY <2>1, <2>2, <1>1, <1>5, Buffering
    <2>6. c'.out = r
        BY <2>1, <2>4, <2>5, ConcatEmptySeq
    <2>7. s.wire \o w \in Seq(Piece)
        BY <2>1, <1>2
    <2>8. /\ s' \in SocketType /\ s'.wire = s.wire \o w
          /\ s'.fin = s.fin /\ s'.peer = s.peer
        BY <2>2, <2>7, <1>1 DEF SocketType
    <2>9. Stream'
        <3>1. isWriting(c'.ch) <=> c'.out # <<>>
            BY <2>4, <2>5, <2>6
        <3>2. s.peer \in {"open", "closed"} => s.wire = h.taken
            BY <2>4, <1>1, <1>2, ConcatEmptySeq DEF Stream
        <3>3. (s.wire \o w) \o r = s.wire \o (w \o r)
            <4>1. /\ s.wire \in Seq(Piece) /\ w \in Seq(Piece)
                  /\ r \in Seq(Piece)
                BY <2>1, <1>2
            <4> QED BY ONLY <4>1, ThreeParts
        <3> QED BY <3>1, <3>2, <3>3, <2>1, <2>3, <2>6, <2>8 DEF Stream
    <2>10. GracefulShutdown'
        BY <2>8, <1>10 DEF GracefulShutdown, WriteTakes
    <2>11. /\ queue' \in Seq(FunctorType)
           /\ Single(queue) => Single(queue')
           /\ \A f \in Range(queue') :
                 f \in Range(queue) \/ f.op = "writeComplete"
           /\ Range(q) \subseteq Range(queue')
        <3> DEFINE f == Functor("writeComplete")
        <3>1. f \in FunctorType /\ f.op = "writeComplete"
            BY FunctorFacts DEF Ops, Owning
        <3> HIDE DEF f
        <3>2. /\ Append(q, f) \in Seq(FunctorType)
              /\ Range(Append(q, f)) = Range(q) \cup {f}
              /\ Single(q) => Single(Append(q, f))
            BY <3>1, QueueAppend
        <3> QED BY <3>1, <3>2, <1>10 DEF f
    <2>12. /\ \A f \in Range(queue) :
                 f \in Range(queue') \/ f.op = "sendInLoop"
           /\ h.downs = 0 => \A j \in Nat :
                 SendFunctor(j) \in Range(queue) =>
                     \/ SendFunctor(j) \in Range(queue')
                     \/ Range(Data(j)) \subseteq Range(h'.taken)
        BY <2>11, <1>6
    <2>13. c.state # "Disconnected" /\ Settle("running")
        BY <1>10
    <2> QED BY <2>5, <2>8, <2>9, <2>10, <2>11, <2>12, <2>13, <1>4, <1>6, <1>7,
               OutputStep
<1>11. CASE c.state # "Disconnected" /\ mayWriteDirectly /\ WriteFails
    <2>1. /\ s' = [s EXCEPT !.peer = "dead"] /\ queue' = q /\ c' = c
          /\ Settle("running")
        BY <1>11 DEF sendInLoop, sendOpen, WriteTakes, WriteFails, WriteKills
    <2>2. s' \in SocketType /\ s'.fin = s.fin /\ s'.peer = "dead"
        BY <2>1, <1>1 DEF SocketType
    <2>3. Stream'
        BY <2>1, <2>2, <1>1 DEF Stream
    <2>4. GracefulShutdown'
        BY <2>2 DEF GracefulShutdown
    <2> QED BY <2>1, <2>2, <2>3, <2>4, <1>1, <1>4, <1>5, <1>6, <1>7, <1>11,
               OutputStep
<1>12. CASE c.state # "Disconnected" /\ mayWriteDirectly /\ WriteKills
    <2>1. queue' = q /\ UNCHANGED <<c, s>> /\ Settle("sigpipe")
        BY <1>12 DEF sendInLoop, sendOpen, WriteTakes, WriteFails, WriteKills
    <2>2. fate' = "sigpipe"
        BY <2>1 DEF Settle
    <2>3. Types'
        BY <2>1, <1>1, <1>7 DEF Types
    <2>4. StreamIntegrity' /\ GracefulShutdown' /\ UpDownOnce'
        BY <2>1, <2>2 DEF IInv, StreamIntegrity, GracefulShutdown, UpDownOnce
    <2> QED BY <2>1, <2>3, <2>4, Doomed DEF Fates
<1>13. CASE c.state # "Disconnected" /\ mayWriteDirectly
    <2>1. sendOpen(m, q)
        BY <1>13 DEF sendInLoop
    <2>2. WriteTakes \/ WriteFails \/ WriteKills
        BY <2>1, <1>13 DEF sendOpen
    <2>3. ASSUME WriteTakes PROVE IInv'
        <3>1. \E k \in 0..Pieces :
                /\ s' = [s EXCEPT !.wire = @ \o SubSeq(d, 1, k)]
                /\ c' = buffered(SubSeq(d, k + 1, Pieces))
                /\ queue' = IF k < Pieces THEN q
                            ELSE Append(q, Functor("writeComplete"))
            BY <2>1, <2>3, <1>13
               DEF sendOpen, WriteTakes, WriteFails, WriteKills
        <3>2. Settle("running")
            BY <2>1, <2>3, <1>13
               DEF sendOpen, WriteTakes, WriteFails, WriteKills
        <3> QED BY <3>1, <3>2, <2>3, <1>10, <1>13
    <2> QED BY <2>2, <2>3, <1>11, <1>12, <1>13
<1> QED BY <1>8, <1>9, <1>13

\* The functor of a send() of another thread.
LEMMA SendInLoopStep == ASSUME IInv, RunSendInLoop PROVE IInv'
<1> DEFINE m == Head(queue).msg
<1>1. /\ Runs("sendInLoop") /\ sendInLoop(m, Tail(queue))
      /\ h' = [h EXCEPT !.taken = @ \o Taken(m)]
    BY DEF RunSendInLoop
<1>2. "sendInLoop" \in Ops \ {"connectEstablished"}
    BY DEF Ops, Raw
<1>3. /\ Running /\ alive /\ Up
      /\ Head(queue) \in FunctorType /\ Head(queue).op = "sendInLoop"
      /\ Tail(queue) \in Seq(FunctorType)
      /\ Range(queue) = {Head(queue)} \cup Range(Tail(queue))
      /\ Single(queue) => Single(Tail(queue))
    BY <1>1, <1>2, Popped
<1>4. m \in Nat /\ Head(queue) = SendFunctor(m)
    BY <1>3, FunctorFacts DEF FunctorType
<1> HIDE DEF m
<1>5. Taken(m) \in Seq(Piece)
    BY <1>4, DataType, EmptySeq DEF Taken
<1>6. h \in HistoryType /\ h.taken \o Taken(m) \in Seq(Piece)
    BY <1>5 DEF IInv, TypeOK, Types, HistoryType
<1>7. /\ h' \in HistoryType /\ h'.ups = h.ups /\ h'.downs = h.downs
      /\ h'.causes = h.causes /\ h'.must = h.must /\ h'.sentBy = h.sentBy
      /\ h'.taken = h.taken \o Taken(m)
    BY <1>1, <1>6 DEF HistoryType
<1> QED BY <1>1, <1>3, <1>4, <1>7, SendStep

\* A send() on the loop's own thread.
LEMMA LoopSendStep == ASSUME IInv, LoopSend PROVE IInv'
<1> DEFINE m == NewMessage
<1>1. /\ Running /\ alive /\ h.ups = 1 /\ c.state = "Connected"
      /\ sendInLoop(m, queue)
      /\ h' = [Called EXCEPT !.sends = m, !.sentBy[LoopThread] = @ \cup {m},
                             !.taken = @ \o Taken(m)]
    BY DEF LoopSend, UserOnLoop
<1>2. Up /\ queue \in Seq(FunctorType) /\ h \in HistoryType
    BY <1>1 DEF IInv, NotUp, TypeOK, Types
<1>3. m \in Nat
    BY <1>2 DEF NewMessage, HistoryType
<1> HIDE DEF m
<1>4. h.taken \o Taken(m) \in Seq(Piece)
    BY <1>2, <1>3, DataType, EmptySeq DEF Taken, HistoryType
<1>5. /\ Called \in HistoryType /\ Called.ups = h.ups
      /\ Called.downs = h.downs /\ Called.causes = h.causes
      /\ Called.must = h.must /\ Called.sentBy = h.sentBy
      /\ Called.taken = h.taken
    <2>1. h.calls + 1 \in Nat
        BY <1>2 DEF HistoryType
    <2> QED BY <2>1, <1>2 DEF Called, HistoryType
<1> DEFINE sb == [h.sentBy EXCEPT ![LoopThread] = @ \cup {m}]
<1>6. /\ sb \in [Threads \cup {LoopThread} -> SUBSET Nat]
      /\ sb[LoopThread] = h.sentBy[LoopThread] \cup {m}
      /\ \A t \in Threads : sb[t] = h.sentBy[t]
    BY <1>2, <1>3, ThreadsAssumption DEF HistoryType
<1>7. h' = [Called EXCEPT !.sends = m, !.sentBy = sb,
                          !.taken = h.taken \o Taken(m)]
    BY <1>1, <1>5 DEF HistoryType
<1> HIDE DEF sb
<1>8. /\ h' \in HistoryType /\ h'.ups = h.ups /\ h'.downs = h.downs
      /\ h'.causes = h.causes /\ h'.must = h.must /\ h'.sentBy = sb
      /\ h'.taken = h.taken \o Taken(m)
    BY <1>3, <1>4, <1>5, <1>6, <1>7 DEF HistoryType
<1> QED BY <1>1, <1>2, <1>3, <1>6, <1>8, SendStep

\* A sequence is its two parts, one behind the other.
LEMMA Splitting ==
    ASSUME NEW x \in Seq(Piece), NEW n \in 0..Len(x)
    PROVE  /\ SubSeq(x, 1, n) \in Seq(Piece)
           /\ SubSeq(x, n + 1, Len(x)) \in Seq(Piece)
           /\ SubSeq(x, 1, n) \o SubSeq(x, n + 1, Len(x)) = x
<1>1. Len(x) \in Nat /\ n \in Nat /\ n <= Len(x)
    OBVIOUS
<1>2. 1 \in 1..(Len(x) + 1) /\ n \in (1 - 1)..Len(x) /\ Len(x) \in n..Len(x)
    BY <1>1
<1>3. SubSeq(x, 1, n) \o SubSeq(x, n + 1, Len(x)) = SubSeq(x, 1, Len(x))
    BY <1>2, ConcatAdjacentSubSeq
<1>4. SubSeq(x, 1, n) \in Seq(Piece)
    BY <1>1
<1>5. SubSeq(x, n + 1, Len(x)) \in Seq(Piece)
    BY <1>1
<1> QED BY <1>3, <1>4, <1>5, SubSeqFull

\* handleWrite, when the socket took k pieces or lost them all.
LEMMA WroteStep ==
    ASSUME IInv, Polled, isWriting(c.ch), ~s.fin,
           NEW k \in 0..Len(c.out), NEW sk \in SocketType, ~sk.fin,
           sk.peer \in {"open", "closed"} =>
               /\ s.peer \in {"open", "closed"}
               /\ sk.wire = s.wire \o SubSeq(c.out, 1, k),
           wrote(k, sk), UNCHANGED <<server, user, h>>, Settle("running")
    PROVE  IInv'
<1> DEFINE w == SubSeq(c.out, 1, k)
           left == SubSeq(c.out, k + 1, Len(c.out))
           del == delListenEvents(c.ch, WRITE)
           ch == IF left = <<>> THEN del ELSE c.ch
<1>1. /\ Core /\ Stream /\ Types /\ Running /\ alive /\ Up
      /\ c \in ConnectionType /\ s \in SocketType /\ queue \in Seq(FunctorType)
      /\ h \in HistoryType
    BY PolledFacts DEF IInv, TypeOK, Types
<1>2. /\ c.out \in Seq(Piece) /\ s.wire \in Seq(Piece)
      /\ c.ch \in ChannelType /\ Consistent(c.ch)
    BY <1>1 DEF ConnectionType, SocketType, Core, Registration
<1>3. w \in Seq(Piece) /\ left \in Seq(Piece) /\ w \o left = c.out
    BY <1>2, Splitting
<1>4. /\ c' = [c EXCEPT !.out = left, !.ch = ch]
      /\ queue' = IF left = <<>> THEN Append(queue, Functor("writeComplete"))
                  ELSE queue
      /\ s' = IF left = <<>> /\ c.state = "Disconnecting"
              THEN shutdownInLoop(sk, ch) ELSE sk
    BY DEF wrote
<1>5. sk.peer \in {"open", "closed"} =>
          s.peer \in {"open", "closed"} /\ sk.wire = s.wire \o w
    OBVIOUS
<1> HIDE DEF w, left
<1>6. /\ ch \in ChannelType /\ Consistent(ch)
      /\ isWriting(ch) <=> left # <<>>
      /\ READ \in c.ch.event => READ \in ch.event
    <2>1. c.ch.event \ {WRITE} \in SUBSET Events
        BY <1>2 DEF ChannelType
    <2>2. /\ del \in ChannelType /\ Consistent(del)
          /\ del.event = c.ch.event \ {WRITE}
        BY <2>1, <1>2, Updating DEF delListenEvents
    <2> HIDE DEF del
    <2> QED BY <2>2, <1>2 DEF isWriting, READ, WRITE
<1> HIDE DEF ch
<1>7. c.state # "Disconnected"
    BY <1>1 DEF Core, Registration, isWriting
<1>8. /\ c' \in ConnectionType /\ c'.state = c.state /\ c'.ch = ch
      /\ c'.out = left
    BY <1>1, <1>3, <1>4, <1>6 DEF ConnectionType
<1>9. /\ s' \in SocketType /\ s'.wire = sk.wire /\ s'.peer = sk.peer
      /\ s'.fin => left = <<>> /\ c.state = "Disconnecting"
    BY <1>4, ShuttingDown
<1>10. Stream'
    <2>1. s'.peer \in {"open", "closed"} => s'.wire \o left = h.taken
        <3> SUFFICES ASSUME s'.peer \in {"open", "closed"}
                     PROVE  s'.wire \o left = h.taken
            OBVIOUS
        <3>1. s'.wire = s.wire \o w /\ s.wire \o c.out = h.taken
            BY <1>1, <1>5, <1>9 DEF Stream
        <3>2. (s.wire \o w) \o left = s.wire \o (w \o left)
            BY <1>2, <1>3, ThreeParts
        <3> QED BY <3>1, <3>2, <1>3
    <2> QED BY <2>1, <1>6, <1>8 DEF Stream
<1>11. GracefulShutdown'
    <2> SUFFICES ASSUME s'.fin, h.downs = 0, Punctual,
                        s'.peer \in {"open", "closed"}
                 PROVE  \A m \in h.must :
                           Range(Data(m)) \subseteq Range(s'.wire)
        BY DEF GracefulShutdown, Punctual
    <2>1. c'.out = <<>> /\ s'.wire \o c'.out = h.taken
        BY <1>8, <1>9, <1>10 DEF Stream
    <2>2. s'.wire \in Seq(Piece)
        BY <1>9 DEF SocketType
    <2>3. s'.wire = h.taken
        BY <2>1, <2>2, ConcatEmptySeq
    <2> QED BY <2>3, <1>1 DEF Core, Sent, IsTaken
<1>12. /\ queue' \in Seq(FunctorType)
       /\ Single(queue) => Single(queue')
       /\ \A f \in Range(queue') : f \in Range(queue) \/ f.op = "writeComplete"
       /\ Range(queue) \subseteq Range(queue')
    <2> DEFINE f == Functor("writeComplete")
    <2>1. f \in FunctorType /\ f.op = "writeComplete"
        BY FunctorFacts DEF Ops, Owning
    <2> HIDE DEF f
    <2>2. /\ Append(queue, f) \in Seq(FunctorType)
          /\ Range(Append(queue, f)) = Range(queue) \cup {f}
          /\ Single(queue) => Single(Append(queue, f))
        BY <2>1, <1>1, QueueAppend
    <2> QED BY <2>1, <2>2, <1>1, <1>4 DEF f
<1> QED BY <1>1, <1>6, <1>7, <1>8, <1>9, <1>10, <1>11, <1>12, OutputStep

\* handleWrite with any number of pieces written.
LEMMA HandleWriteStep == ASSUME IInv, HandleWrite PROVE IInv'
<1>1. /\ Polled /\ isWriting(c.ch) /\ UNCHANGED <<server, user, h>>
      /\ s \in SocketType /\ c.out \in Seq(Piece) /\ Len(c.out) \in Nat
    BY DEF HandleWrite, IInv, TypeOK, Types, ConnectionType
<1>2. ASSUME WriteTakes, NEW k \in 1..Len(c.out),
             wrote(k, [s EXCEPT !.wire = @ \o SubSeq(c.out, 1, k)])
      PROVE  IInv'
    <2> DEFINE sk == [s EXCEPT !.wire = @ \o SubSeq(c.out, 1, k)]
    <2>1. k \in 0..Len(c.out) /\ ~s.fin /\ s.peer \in {"open", "closed"}
        BY <1>1, <1>2 DEF WriteTakes
    <2>2. s.wire \o SubSeq(c.out, 1, k) \in Seq(Piece)
        BY <2>1, <1>1, Splitting DEF SocketType
    <2>3. /\ sk \in SocketType /\ ~sk.fin
          /\ sk.wire = s.wire \o SubSeq(c.out, 1, k)
        BY <2>1, <2>2, <1>1 DEF SocketType
    <2>4. Settle("running")
        BY <1>2 DEF HandleWrite, WriteTakes, WriteKills
    <2>5. wrote(k, sk)
        BY <1>2
    <2> HIDE DEF sk
    <2> QED BY <2>1, <2>3, <2>4, <2>5, <1>1, WroteStep
<1>3. ASSUME WriteFails, wrote(Len(c.out), [s EXCEPT !.peer = "dead"])
      PROVE  IInv'
    <2> DEFINE sk == [s EXCEPT !.peer = "dead"]
    <2>1. Len(c.out) \in 0..Len(c.out) /\ ~s.fin
        BY <1>1, <1>3 DEF WriteFails
    <2>2. sk \in SocketType /\ ~sk.fin /\ sk.peer = "dead"
        BY <2>1, <1>1 DEF SocketType
    <2>3. Settle("running")
        BY <1>3 DEF HandleWrite, WriteFails, WriteKills
    <2>4. wrote(Len(c.out), sk)
        BY <1>3
    <2> HIDE DEF sk
    <2> QED BY <2>1, <2>2, <2>3, <2>4, <1>1, WroteStep
<1>4. ASSUME WriteKills, UNCHANGED <<c, s, queue>> PROVE IInv'
    <2>1. Settle("sigpipe")
        BY <1>4 DEF HandleWrite
    <2>2. fate' = "sigpipe"
        BY <2>1 DEF Settle
    <2>3. Types'
        BY <1>1, <1>4 DEF IInv, TypeOK, Types
    <2>4. StreamIntegrity' /\ GracefulShutdown' /\ UpDownOnce'
        BY <2>2, <1>1, <1>4
           DEF IInv, StreamIntegrity, GracefulShutdown, UpDownOnce
    <2> QED BY <2>1, <2>3, <2>4, Doomed DEF Fates
<1> QED BY <1>2, <1>3, <1>4 DEF HandleWrite

-----------------------------------------------------------------------------
(* User code.                                                              *)

\* shutdown() on the loop's thread: SHUT_WR at once unless output waits, and
\* what this thread sent has been taken.
LEMMA LoopShutdownStep == ASSUME IInv, LoopShutdown PROVE IInv'
<1>1. /\ Running /\ alive /\ h.ups = 1 /\ c.state = "Connected"
      /\ c' = [c EXCEPT !.state = "Disconnecting"]
      /\ s' = shutdownInLoop(s, c.ch)
      /\ h' = [Called EXCEPT !.must = @ \cup h.sentBy[LoopThread]]
      /\ UNCHANGED <<queue, server, user>> /\ Settle("running")
    BY DEF LoopShutdown, UserOnLoop
<1>2. /\ Core /\ Stream /\ Types /\ Up
      /\ c \in ConnectionType /\ s \in SocketType /\ h \in HistoryType
    BY <1>1 DEF IInv, NotUp, TypeOK, Types
<1>3. /\ c' \in ConnectionType /\ c'.state = "Disconnecting"
      /\ c'.ch = c.ch /\ c'.out = c.out
    BY <1>1, <1>2 DEF ConnectionType, States
<1>4. /\ s' \in SocketType /\ s'.wire = s.wire /\ s'.peer = s.peer
      /\ s'.fin <=> s.fin \/ ~isWriting(c.ch)
    BY <1>1, <1>2, ShuttingDown
<1>5. /\ h' \in HistoryType /\ h'.ups = h.ups /\ h'.downs = h.downs
      /\ h'.causes = h.causes /\ h'.taken = h.taken /\ h'.sentBy = h.sentBy
      /\ h'.must = h.must \cup h.sentBy[LoopThread]
    <2>1. h.calls + 1 \in Nat /\ h.must \cup h.sentBy[LoopThread] \in SUBSET Nat
        BY <1>2 DEF HistoryType
    <2> QED BY <2>1, <1>1, <1>2 DEF Called, HistoryType
<1>6. Types'
    BY <1>1, <1>2, <1>3, <1>4, <1>5 DEF Types
<1>7. Stream' /\ Up'
    BY <1>1, <1>2, <1>3, <1>4, <1>5 DEF Stream, Up
<1>8. Holding' /\ Registration'
    BY <1>1, <1>2, <1>3, <1>5 DEF Core, Holding, Registration
<1>9. Once'
    <2>1. Removing' <=> Removing
        BY <1>1 DEF Removing
    <2>2. ClosedOnce => ClosedOnce'
        BY <2>1, <1>1, <1>3, <1>5 DEF ClosedOnce
    <2> QED BY <2>2, <1>2, <1>5 DEF Core, Once, Unforced
<1>10. Sent'
    BY <1>1, <1>2, <1>3, <1>5 DEF Core, Sent, IsTaken, Punctual
<1>11. GracefulShutdown'
    <2> SUFFICES ASSUME s'.fin, h'.downs = 0, Punctual',
                        s.peer \in {"open", "closed"}
                 PROVE  \A m \in h'.must :
                           Range(Data(m)) \subseteq Range(s.wire)
        BY <1>4 DEF GracefulShutdown, Punctual
    <2>1. ~s.fin
        BY <1>1, <1>2 DEF Core, Sent
    <2>2. c.out = <<>> /\ s.wire \o c.out = h.taken
        BY <2>1, <1>2, <1>4, <1>5 DEF Stream
    <2>3. s.wire = h.taken
        BY <2>2, <1>2, ConcatEmptySeq DEF SocketType
    <2> QED BY <2>3, <1>5, <1>10 DEF Sent, IsTaken
<1> QED BY <1>1, <1>6, <1>7, <1>8, <1>9, <1>10, <1>11, Settled DEF Core

\* forceClose() on the loop's thread.
LEMMA LoopForceCloseStep == ASSUME IInv, LoopForceClose PROVE IInv'
<1> DEFINE f == Functor("forceCloseInLoop")
<1>1. /\ Running /\ alive /\ h.ups = 1
      /\ c' = [c EXCEPT !.state = "Disconnecting"]
      /\ queue' = Append(queue, f)
      /\ h' = [Called EXCEPT !.causes = @ \cup {"forced"}]
      /\ UNCHANGED <<s, server, user>> /\ Settle("running")
    BY DEF LoopForceClose, UserOnLoop
<1>2. /\ Core /\ Stream /\ Types /\ Up
      /\ c \in ConnectionType /\ h \in HistoryType /\ queue \in Seq(FunctorType)
    BY <1>1 DEF IInv, NotUp, TypeOK, Types
<1>3. f \in FunctorType /\ f.op = "forceCloseInLoop"
    BY FunctorFacts DEF Ops, Owning
<1> HIDE DEF f
<1>4. queue' \in Seq(FunctorType) /\ Range(queue') = Range(queue) \cup {f}
    BY <1>1, <1>2, <1>3, QueueAppend
<1>5. /\ c' \in ConnectionType /\ c'.state = "Disconnecting"
      /\ c'.ch = c.ch /\ c'.out = c.out
    BY <1>1, <1>2 DEF ConnectionType, States
<1>6. /\ h' \in HistoryType /\ h'.ups = h.ups /\ h'.downs = h.downs
      /\ h'.causes = h.causes \cup {"forced"} /\ h'.taken = h.taken
      /\ h'.sentBy = h.sentBy /\ h'.must = h.must
    <2>1. h.calls + 1 \in Nat /\ h.causes \in SUBSET Causes
        BY <1>2 DEF HistoryType
    <2>2. h.causes \cup {"forced"} \in SUBSET Causes
        BY <2>1 DEF Causes
    <2> QED BY <2>1, <2>2, <1>1, <1>2 DEF Called, HistoryType
<1>7. Types'
    BY <1>1, <1>2, <1>4, <1>5, <1>6 DEF Types
<1>8. Stream'
    BY <1>1, <1>2, <1>5, <1>6 DEF Stream
<1>9. Up'
    BY <1>2, <1>3, <1>4, <1>5, <1>6 DEF Up, In
<1>10. Holding'
    BY <1>1, <1>2, <1>3, <1>4, <1>6 DEF Core, Holding, Raw
<1>11. Registration'
    BY <1>2, <1>5 DEF Core, Registration
<1>12. Once'
    BY <1>6 DEF Once, Unforced, Reviving
<1>13. Punctual' <=> Punctual
    BY <1>6 DEF Punctual
<1>14. Sent'
    BY <1>1, <1>2, <1>4, <1>5, <1>6, <1>13 DEF Core, Sent, IsTaken
<1>15. GracefulShutdown'
    BY <1>1, <1>6, <1>13 DEF GracefulShutdown, Punctual, IInv
<1> QED BY <1>1, <1>7, <1>8, <1>9, <1>10, <1>11, <1>12, <1>14, <1>15, Settled
        DEF Core

\* A thread with a pointer moves to another place of its call.
LEMMA Going ==
    ASSUME Types, NEW t \in Threads, NEW pc \in Locations, NEW m \in Nat,
           Goes(t, pc, m)
    PROVE  /\ user' \in [Threads -> [pc : Locations, msg : Nat,
                                     holds : BOOLEAN]]
           /\ user'[t].pc = pc /\ user'[t].msg = m
           /\ user'[t].holds = user[t].holds
           /\ \A u \in Threads \ {t} : user'[u] = user[u]
           /\ UNCHANGED <<s, server, alive, fate>>
<1> DEFINE n == [user[t] EXCEPT !.pc = pc, !.msg = m]
<1>1. /\ user' = [user EXCEPT ![t].pc = pc, ![t].msg = m]
      /\ UNCHANGED <<s, server, alive, fate>>
    BY DEF Goes
<1>2. user[t] \in [pc : Locations, msg : Nat, holds : BOOLEAN]
    BY DEF Types
<1>3. /\ n \in [pc : Locations, msg : Nat, holds : BOOLEAN]
      /\ n.pc = pc /\ n.msg = m /\ n.holds = user[t].holds
    BY <1>2
<1>4. user' = [user EXCEPT ![t] = n]
    BY <1>1 DEF Types
<1> HIDE DEF n
<1> QED BY <1>1, <1>3, <1>4 DEF Types

\* A step of a call of another thread: it may set the state, queue a functor
\* with plain this or a forced close, and takes nothing off the queue.
LEMMA CallStep ==
    ASSUME IInv, Running, NEW t \in Threads, user[t].holds,
           NEW pc \in Locations, NEW m \in Nat, Goes(t, pc, m),
           c' \in ConnectionType, c'.ch = c.ch, c'.out = c.out,
           c'.state = c.state \/ c'.state = "Disconnecting",
           queue' \in Seq(FunctorType), Range(queue) \subseteq Range(queue'),
           Single(queue) => Single(queue'),
           \A f \in Range(queue') :
               \/ f \in Range(queue)
               \/ f.op \in Raw \cup {"forceCloseInLoop"},
           h' \in HistoryType, h'.ups = h.ups, h'.downs = h.downs,
           h'.taken = h.taken, h.causes \subseteq h'.causes,
           Unforced' =>
               /\ pc # "forceCloseInLoop"
               /\ In(queue', "forceCloseInLoop") => In(queue, "forceCloseInLoop")
               /\ c'.state = c.state \/ c.state = "Connected",
           Sent', GracefulShutdown'
    PROVE  IInv'
<1>1. Core /\ Stream /\ Types /\ Lifetime /\ Up
    BY DEF IInv, TypeOK, NotUp
<1>2. /\ user' \in [Threads -> [pc : Locations, msg : Nat, holds : BOOLEAN]]
      /\ user'[t].pc = pc /\ user'[t].holds
      /\ \A u \in Threads \ {t} : user'[u] = user[u]
      /\ UNCHANGED <<s, server, alive, fate>>
    BY <1>1, Going
<1>3. alive /\ fate = "running" /\ alive \in BOOLEAN
    BY <1>1 DEF Lifetime, Referenced, Running, IInv, TypeOK
<1>4. Referenced'
    BY <1>2 DEF Referenced
<1>5. /\ \A o : In(queue, o) => In(queue', o)
      /\ \A o \in {"connectEstablished", "connectDestroyed"} :
            In(queue', o) => In(queue, o)
    BY DEF In, Raw
<1>6. Types'
    BY <1>1, <1>2 DEF Types
<1>7. Stream'
    BY <1>1, <1>2 DEF Stream
<1>8. Up'
    BY <1>1, <1>5 DEF Up
<1>9. Holding'
    BY <1>1, <1>2 DEF Core, Holding
<1>10. Removing' <=> Removing
    BY <1>2, <1>5 DEF Removing
<1>11. Registration'
    BY <1>1, <1>10 DEF Core, Registration
<1>12. Once'
    <2> SUFFICES ASSUME Unforced' PROVE ClosedOnce'
        BY DEF Once
    <2>1. Unforced
        BY DEF Unforced
    <2>2. ClosedOnce
        BY <2>1, <1>1 DEF Core, Once
    <2>3. ~In(queue', "forceCloseInLoop")
        BY <2>2 DEF ClosedOnce
    <2>4. \A u \in Threads : user'[u].pc # "forceCloseInLoop"
        BY <2>2, <1>2 DEF ClosedOnce
    <2> QED BY <2>2, <2>3, <2>4, <1>2, <1>5, <1>10 DEF ClosedOnce
<1> QED BY <1>2, <1>3, <1>4, <1>6, <1>7, <1>8, <1>9, <1>11, <1>12, Kept
        DEF Core

\* The test of m_state at the beginning of send() and of shutdown().
LEMMA CheckStep ==
    ASSUME IInv, NEW t \in Threads, SendCheck(t) \/ ShutdownCheck(t)
    PROVE  IInv'
<1>1. PICK pc \in {"send", "shutdown"}, m \in {NewMessage, NoMsg},
           n \in {NewMessage, h.sends} :
         /\ Goes(t, pc, m) /\ h' = [Called EXCEPT !.sends = n]
         /\ Running /\ user[t].holds /\ UNCHANGED <<c, queue>>
    <2>1. h \in HistoryType
        BY DEF IInv, TypeOK, Types
    <2>2. Called = [Called EXCEPT !.sends = h.sends]
        BY <2>1 DEF Called, HistoryType
    <2>3. CASE SendCheck(t)
        BY <2>3 DEF SendCheck, UserOnThread
    <2>4. CASE ShutdownCheck(t)
        BY <2>2, <2>4 DEF ShutdownCheck, UserOnThread
    <2> QED BY <2>3, <2>4
<1>2. /\ Core /\ Types /\ h \in HistoryType /\ c \in ConnectionType
      /\ queue \in Seq(FunctorType)
    BY <1>1 DEF IInv, TypeOK, Types
<1>3. h.sends + 1 \in Nat /\ h.sends \in Nat /\ h.calls + 1 \in Nat
    BY <1>2 DEF HistoryType
<1>4. pc \in Locations /\ m \in Nat /\ n \in Nat
    BY <1>3 DEF Locations, NewMessage, NoMsg
<1>5. /\ h' \in HistoryType /\ h'.ups = h.ups /\ h'.downs = h.downs
      /\ h'.causes = h.causes /\ h'.taken = h.taken /\ h'.sentBy = h.sentBy
      /\ h'.must = h.must
    BY <1>1, <1>2, <1>3, <1>4 DEF Called, HistoryType
<1>6. /\ user'[t].pc = pc /\ s' = s
      /\ \A u \in Threads \ {t} : user'[u] = user[u]
    BY <1>1, <1>2, <1>4, Going
<1>7. Sent'
    BY <1>1, <1>2, <1>5, <1>6 DEF Core, Sent, IsTaken, Punctual
<1>8. GracefulShutdown'
    BY <1>5, <1>6 DEF IInv, GracefulShutdown
<1>9. pc # "forceCloseInLoop"
    OBVIOUS
<1> QED BY <1>1, <1>2, <1>4, <1>5, <1>7, <1>8, <1>9, CallStep

\* send() queues its functor.
LEMMA SendPushStep == ASSUME IInv, NEW t \in Threads, SendPush(t) PROVE IInv'
<1> DEFINE m == user[t].msg
           f == SendFunctor(m)
           sb == [h.sentBy EXCEPT ![t] = @ \cup {m}]
<1>1. /\ Running /\ user[t].pc = "send" /\ queue' = Append(queue, f)
      /\ Goes(t, "idle", NoMsg) /\ c' = c
      /\ h' = [h EXCEPT !.sentBy[t] = @ \cup {m}]
    BY DEF SendPush, Pushes
<1>2. /\ Core /\ Types /\ h \in HistoryType /\ c \in ConnectionType
      /\ queue \in Seq(FunctorType) /\ m \in Nat
    BY <1>1 DEF IInv, TypeOK, Types
<1>3. f \in FunctorType /\ f.op = "sendInLoop"
    BY <1>2, FunctorFacts
<1>4. "idle" \in Locations /\ NoMsg \in Nat
    BY DEF Locations, NoMsg
<1>5. /\ sb \in [Threads \cup {LoopThread} -> SUBSET Nat]
      /\ sb[t] = h.sentBy[t] \cup {m} /\ t # LoopThread
      /\ \A u \in Threads \cup {LoopThread} : u # t => sb[u] = h.sentBy[u]
    BY <1>2, ThreadsAssumption DEF HistoryType
<1>6. h' = [h EXCEPT !.sentBy = sb]
    BY <1>1, <1>2 DEF HistoryType
<1> HIDE DEF sb, m
<1>7. /\ h' \in HistoryType /\ h'.ups = h.ups /\ h'.downs = h.downs
      /\ h'.causes = h.causes /\ h'.taken = h.taken /\ h'.sentBy = sb
      /\ h'.must = h.must
    BY <1>2, <1>5, <1>6 DEF HistoryType
<1>8. /\ queue' \in Seq(FunctorType)
      /\ Range(queue') = Range(queue) \cup {f}
      /\ Single(queue) => Single(queue')
    BY <1>1, <1>2, <1>3, QueueAppend
<1>9. /\ user'[t].pc = "idle" /\ s' = s
      /\ \A u \in Threads \ {t} : user'[u] = user[u]
    BY <1>1, <1>2, <1>4, Going
<1>10. user[t].holds
    BY <1>1, <1>2 DEF Core, Holding
<1>11. \A o : o # "sendInLoop" => (In(queue', o) => In(queue, o))
    BY <1>3, <1>8 DEF In
<1>12. Sent'
    <2>1. \A u \in Threads : \A k \in sb[u] :
             k \in h.sentBy[u] \/ SendFunctor(k) \in Range(queue')
        BY <1>5, <1>8
    <2>2. \A k \in sb[LoopThread] : IsTaken(k)
        BY <1>2, <1>5 DEF Core, Sent
    <2>3. \A k : IsTaken(k)' <=> IsTaken(k)
        BY <1>7 DEF IsTaken
    <2>4. h'.downs = 0 => \A u \in Threads : \A k \in sb[u] :
             SendFunctor(k) \in Range(queue') \/ IsTaken(k)
        BY <2>1, <1>2, <1>7, <1>8 DEF Core, Sent
    <2>5. s'.fin \/ In(queue', "shutdownInLoop")
             \/ (\E u \in Threads : user'[u].pc = "shutdownInLoop")
          => c'.state \notin {"Connecting", "Connected"}
        BY <1>1, <1>2, <1>9, <1>11 DEF Core, Sent
    <2>6. h'.downs = 0 /\ Punctual' => \A k \in h'.must : IsTaken(k)
        BY <1>2, <1>7 DEF Core, Sent, Punctual
    <2> QED BY <2>2, <2>3, <2>4, <2>5, <2>6, <1>7 DEF Sent
<1>13. GracefulShutdown'
    BY <1>7, <1>9 DEF IInv, GracefulShutdown
<1>14. \A g \in Range(queue') :
           g \in Range(queue) \/ g.op \in Raw \cup {"forceCloseInLoop"}
    BY <1>3, <1>8 DEF Raw
<1>15. In(queue', "forceCloseInLoop") => In(queue, "forceCloseInLoop")
    BY <1>11
<1> HIDE DEF f
<1> QED BY <1>1, <1>2, <1>4, <1>7, <1>8, <1>10, <1>12, <1>13, <1>14, <1>15,
           CallStep

\* shutdown() sets m_state.  If that is late, or early, history says so.
LEMMA ShutdownSetStep ==
    ASSUME IInv, NEW t \in Threads, ShutdownSet(t) PROVE IInv'
<1> DEFINE late == {x \in {"late shutdown"} : c.state # "Connected"}
           early == {x \in {"early shutdown"} :
                        \E f \in Range(queue) : f.msg \in h.sentBy[t]}
<1>1. /\ Running /\ user[t].pc = "shutdown"
      /\ c' = [c EXCEPT !.state = "Disconnecting"]
      /\ h' = [h EXCEPT !.must = @ \cup h.sentBy[t],
                        !.causes = @ \cup late \cup early]
      /\ Goes(t, "shutdownInLoop", NoMsg) /\ queue' = queue
    BY DEF ShutdownSet
<1>2. /\ Core /\ Types /\ h \in HistoryType /\ c \in ConnectionType
      /\ queue \in Seq(FunctorType)
    BY <1>1 DEF IInv, TypeOK, Types
<1>3. "shutdownInLoop" \in Locations /\ NoMsg \in Nat
    BY DEF Locations, NoMsg
<1>4. /\ late \subseteq Causes /\ early \subseteq Causes
      /\ c.state # "Connected" => "late shutdown" \in late
      /\ (\E f \in Range(queue) : f.msg \in h.sentBy[t]) =>
            "early shutdown" \in early
    BY DEF Causes
<1> HIDE DEF late, early
<1>5. /\ h' \in HistoryType /\ h'.ups = h.ups /\ h'.downs = h.downs
      /\ h'.causes = h.causes \cup late \cup early /\ h'.taken = h.taken
      /\ h'.sentBy = h.sentBy /\ h'.must = h.must \cup h.sentBy[t]
    <2>1. /\ h.causes \cup late \cup early \in SUBSET Causes
          /\ h.must \cup h.sentBy[t] \in SUBSET Nat
        BY <1>2, <1>4 DEF HistoryType
    <2> QED BY <2>1, <1>1, <1>2 DEF HistoryType
<1>6. /\ c' \in ConnectionType /\ c'.state = "Disconnecting"
      /\ c'.ch = c.ch /\ c'.out = c.out
    BY <1>1, <1>2 DEF ConnectionType, States
<1>7. s' = s /\ user[t].holds
    BY <1>1, <1>2, <1>3, Going DEF Core, Holding
<1>8. Sent'
    <2>1. \A k : IsTaken(k)' <=> IsTaken(k)
        BY <1>5 DEF IsTaken
    <2>2. h.downs = 0 /\ Punctual' => \A k \in h'.must : IsTaken(k)
        <3> SUFFICES ASSUME h.downs = 0, Punctual', NEW k \in h'.must
                     PROVE  IsTaken(k)
            OBVIOUS
        <3>1. CASE k \in h.must
            BY <3>1, <1>2, <1>5 DEF Core, Sent, Punctual
        <3>2. CASE k \in h.sentBy[t]
            <4>1. k \in Nat
                BY <3>2, <1>2 DEF HistoryType
            <4>2. "early shutdown" \notin early
                BY <1>5 DEF Punctual
            <4>3. SendFunctor(k) \notin Range(queue)
                BY <4>1, <4>2, <3>2, <1>4, FunctorFacts
            <4> QED BY <4>3, <3>2, <1>2 DEF Core, Sent
        <3> QED BY <3>1, <3>2, <1>5
    <2> QED BY <2>1, <2>2, <1>1, <1>2, <1>5, <1>6 DEF Core, Sent
<1>9. GracefulShutdown'
    <2>1. ASSUME s.fin PROVE ~Punctual'
        BY <2>1, <1>2, <1>4, <1>5 DEF Core, Sent, Punctual
    <2> QED BY <2>1, <1>7 DEF GracefulShutdown, Punctual
<1>10. Unforced' => c.state = "Connected"
    BY <1>4, <1>5 DEF Unforced, Reviving
<1>11. h.causes \subseteq h'.causes
    BY <1>5
<1> QED BY <1>1, <1>2, <1>3, <1>5, <1>6, <1>7, <1>8, <1>9, <1>10, <1>11,
           CallStep

\* forceClose() sets m_state.
LEMMA ForceCloseSetStep ==
    ASSUME IInv, NEW t \in Threads, ForceCloseSet(t) PROVE IInv'
<1>1. /\ Running /\ user[t].holds
      /\ c' = [c EXCEPT !.state = "Disconnecting"]
      /\ h' = [Called EXCEPT !.causes = @ \cup {"forced"}]
      /\ Goes(t, "forceCloseInLoop", NoMsg) /\ queue' = queue
    BY DEF ForceCloseSet, UserOnThread
<1>2. /\ Core /\ Types /\ h \in HistoryType /\ c \in ConnectionType
      /\ queue \in Seq(FunctorType)
    BY <1>1 DEF IInv, TypeOK, Types
<1>3. "forceCloseInLoop" \in Locations /\ NoMsg \in Nat
    BY DEF Locations, NoMsg
<1>4. /\ h' \in HistoryType /\ h'.ups = h.ups /\ h'.downs = h.downs
      /\ h'.causes = h.causes \cup {"forced"} /\ h'.taken = h.taken
      /\ h'.sentBy = h.sentBy /\ h'.must = h.must
    <2>1. h.calls + 1 \in Nat /\ h.causes \in SUBSET Causes
        BY <1>2 DEF HistoryType
    <2>2. h.causes \cup {"forced"} \in SUBSET Causes
        BY <2>1 DEF Causes
    <2> QED BY <2>1, <2>2, <1>1, <1>2 DEF Called, HistoryType
<1>5. /\ c' \in ConnectionType /\ c'.state = "Disconnecting"
      /\ c'.ch = c.ch /\ c'.out = c.out
    BY <1>1, <1>2 DEF ConnectionType, States
<1>6. s' = s
    BY <1>1, <1>2, <1>3, Going
<1>7. Punctual' <=> Punctual
    BY <1>4 DEF Punctual
<1>8. Sent'
    BY <1>1, <1>2, <1>4, <1>5, <1>7 DEF Core, Sent, IsTaken
<1>9. GracefulShutdown'
    BY <1>4, <1>6, <1>7 DEF IInv, GracefulShutdown, Punctual
<1>10. ~Unforced' /\ h.causes \subseteq h'.causes
    BY <1>4 DEF Unforced, Reviving
<1> QED BY <1>1, <1>2, <1>3, <1>4, <1>5, <1>8, <1>9, <1>10, CallStep

\* shutdown() or forceClose() queues its functor.
LEMMA ClosePushStep ==
    ASSUME IInv, NEW t \in Threads, ClosePush(t) PROVE IInv'
<1> DEFINE op == user[t].pc
           f == Functor(op)
<1>1. /\ Running /\ op \in {"shutdownInLoop", "forceCloseInLoop"}
      /\ queue' = Append(queue, f)
      /\ Goes(t, "idle", NoMsg) /\ c' = c /\ h' = h
    BY DEF ClosePush, Pushes
<1>2. /\ Core /\ Types /\ h \in HistoryType /\ c \in ConnectionType
      /\ queue \in Seq(FunctorType)
    BY <1>1 DEF IInv, TypeOK, Types
<1>3. f \in FunctorType /\ f.op = op
    BY <1>1, FunctorFacts DEF Ops, Owning, Raw
<1>4. "idle" \in Locations /\ NoMsg \in Nat
    BY DEF Locations, NoMsg
<1>5. /\ queue' \in Seq(FunctorType)
      /\ Range(queue') = Range(queue) \cup {f}
      /\ Single(queue) => Single(queue')
    BY <1>1, <1>2, <1>3, QueueAppend
<1> HIDE DEF f
<1>6. /\ user'[t].pc = "idle" /\ s' = s /\ user[t].holds
      /\ \A u \in Threads \ {t} : user'[u] = user[u]
    BY <1>1, <1>2, <1>4, Going DEF Core, Holding
<1>7. \A o : o # op => (In(queue', o) => In(queue, o))
    BY <1>3, <1>5 DEF In
<1>8. Sent'
    <2>1. In(queue', "shutdownInLoop") =>
             In(queue, "shutdownInLoop") \/ user[t].pc = "shutdownInLoop"
        BY <1>7
    <2> QED BY <2>1, <1>1, <1>2, <1>5, <1>6
            DEF Core, Sent, IsTaken, Punctual
<1>9. GracefulShutdown'
    BY <1>1, <1>6 DEF IInv, GracefulShutdown
<1>10. \A g \in Range(queue') :
           g \in Range(queue) \/ g.op \in Raw \cup {"forceCloseInLoop"}
    BY <1>1, <1>3, <1>5 DEF Raw
<1>11. Unforced' =>
           (In(queue', "forceCloseInLoop") => In(queue, "forceCloseInLoop"))
    BY <1>1, <1>2, <1>7 DEF Core, Once, ClosedOnce, Unforced
<1> HIDE DEF op
<1> QED BY <1>1, <1>2, <1>4, <1>5, <1>6, <1>8, <1>9, <1>10, <1>11, CallStep

\* A thread takes a pointer to the connection.
LEMMA GrabStep == ASSUME IInv, NEW t \in Threads, Grab(t) PROVE IInv'
<1>1. /\ Running /\ alive /\ h.ups = 1
      /\ user' = [user EXCEPT ![t].holds = TRUE]
      /\ UNCHANGED <<c, s, queue, server, alive, fate, h>>
    BY DEF Grab
<1>2. Core /\ Stream /\ Types /\ Up
    BY <1>1 DEF IInv, NotUp, TypeOK
<1>3. /\ user' \in [Threads -> [pc : Locations, msg : Nat, holds : BOOLEAN]]
      /\ user'[t].holds
      /\ \A u \in Threads : /\ user'[u].pc = user[u].pc
                            /\ user[u].holds => user'[u].holds
    BY <1>1, <1>2 DEF Types
<1>4. Types' /\ Stream' /\ Up' /\ Referenced'
    BY <1>1, <1>2, <1>3 DEF Types, Stream, Up, Referenced
<1>5. Holding' /\ Registration'
    BY <1>1, <1>2, <1>3 DEF Core, Holding, Registration, Removing
<1>6. Once'
    <2>1. Removing' <=> Removing
        BY <1>1 DEF Removing
    <2>2. ClosedOnce => ClosedOnce'
        BY <2>1, <1>1, <1>3 DEF ClosedOnce
    <2> QED BY <2>2, <1>1, <1>2 DEF Core, Once, Unforced
<1>7. Sent' /\ GracefulShutdown'
    BY <1>1, <1>2, <1>3
       DEF Core, Sent, IsTaken, Punctual, GracefulShutdown, IInv
<1>8. fate' = "running" /\ alive' /\ alive' \in BOOLEAN
    BY <1>1 DEF Running, IInv, TypeOK
<1> QED BY <1>4, <1>5, <1>6, <1>7, <1>8, Kept DEF Core

\* A thread drops its pointer, perhaps the last.
LEMMA ReleaseStep == ASSUME IInv, NEW t \in Threads, Release(t) PROVE IInv'
<1>1. /\ Running /\ user[t].holds /\ user[t].pc = "idle"
      /\ user' = [user EXCEPT ![t].holds = FALSE]
      /\ UNCHANGED <<c, s, queue, server>> /\ Settle("running")
    BY DEF Release
<1>2. Core /\ Stream /\ Types /\ Up /\ alive /\ h \in HistoryType
    BY <1>1 DEF IInv, NotUp, TypeOK, Types, Lifetime, Referenced
<1>3. /\ user' \in [Threads -> [pc : Locations, msg : Nat, holds : BOOLEAN]]
      /\ \A u \in Threads : user'[u].pc = user[u].pc
      /\ \A u \in Threads \ {t} : user'[u] = user[u]
    BY <1>1, <1>2 DEF Types
<1>4. /\ h' \in HistoryType /\ h'.ups = h.ups /\ h'.downs = h.downs
      /\ h'.taken = h.taken /\ h'.sentBy = h.sentBy /\ h'.must = h.must
      /\ h'.causes \in {h.causes, h.causes \cup {"dropped"}}
      /\ (\E f \in Range(queue) : f.op \in Raw) => "dropped" \in h'.causes
    <2>1. CASE \E f \in Range(queue) : f.op \in Raw
        <3>1. h' = [h EXCEPT !.causes = @ \cup {"dropped"}]
            BY <2>1 DEF Release
        <3>2. h.causes \in SUBSET Causes
            BY <1>2 DEF HistoryType
        <3>3. h.causes \cup {"dropped"} \in SUBSET Causes
            BY <3>2 DEF Causes
        <3> QED BY <3>1, <3>3, <1>2 DEF HistoryType
    <2>2. CASE ~ \E f \in Range(queue) : f.op \in Raw
        BY <2>2, <1>2 DEF Release
    <2> QED BY <2>1, <2>2
<1>5. (Unforced' <=> Unforced) /\ (Punctual' <=> Punctual)
    BY <1>4 DEF Unforced, Punctual, Reviving
<1>6. Types' /\ Stream' /\ Up'
    BY <1>1, <1>2, <1>3, <1>4 DEF Types, Stream, Up
<1>7. Holding' /\ Registration'
    BY <1>1, <1>2, <1>3, <1>4 DEF Core, Holding, Registration, Removing
<1>8. Once'
    <2>1. Removing' <=> Removing
        BY <1>1 DEF Removing
    <2>2. ClosedOnce => ClosedOnce'
        BY <2>1, <1>1, <1>3, <1>4 DEF ClosedOnce
    <2> QED BY <2>2, <1>2, <1>5 DEF Core, Once
<1>9. Sent'
    BY <1>1, <1>2, <1>3, <1>4, <1>5 DEF Core, Sent, IsTaken
<1>10. GracefulShutdown'
    BY <1>1, <1>4, <1>5 DEF GracefulShutdown, Punctual, IInv
<1> QED BY <1>1, <1>2, <1>6, <1>7, <1>8, <1>9, <1>10, Settled DEF Core

\* A functor finds its connection gone only after a pointer was dropped.
LEMMA DanglingStep == ASSUME IInv, RunDangling PROVE IInv'
<1>1. /\ Running /\ ~alive /\ queue # <<>> /\ Head(queue).op \in Raw
      /\ fate' = "use after free"
      /\ UNCHANGED <<c, s, queue, server, user, alive, h>>
    BY DEF RunDangling
<1>2. Core /\ Lifetime /\ TypeOK /\ Types /\ queue \in Seq(FunctorType)
    BY <1>1 DEF IInv, TypeOK, Types
<1>3. Head(queue) \in Range(queue)
    BY <1>1, <1>2, QueueTail
<1>4. "dropped" \in h.causes
    BY <1>1, <1>2, <1>3 DEF Core, Holding, Lifetime, Referenced
<1>5. TypeOK'
    BY <1>1, <1>2 DEF TypeOK, Types, Fates
<1>6. StreamIntegrity' /\ GracefulShutdown' /\ UpDownOnce'
    BY <1>1 DEF IInv, StreamIntegrity, GracefulShutdown, UpDownOnce, Running
<1>7. AssertsHold' /\ ~Running'
    BY <1>1, <1>4, FateFacts DEF AssertsHold, Running
<1> QED BY <1>5, <1>6, <1>7 DEF IInv

\* The peer closes or resets.
LEMMA PeerStep == ASSUME IInv, PeerCloses \/ PeerReset PROVE IInv'
<1>1. PICK p \in {"closed", "reset", "dead"} :
         /\ Running /\ s.peer \in {"open", "closed"}
         /\ s' = [s EXCEPT !.peer = p]
         /\ UNCHANGED <<c, queue, server, user, alive, fate, h>>
    <2>1. CASE PeerCloses
        BY <2>1 DEF PeerCloses
    <2>2. CASE PeerReset
        BY <2>2 DEF PeerReset
    <2> QED BY <2>1, <2>2
<1>2. /\ Core /\ Stream /\ Types /\ TypeOK /\ Lifetime /\ (NotUp \/ Up)
      /\ s \in SocketType
    BY <1>1 DEF IInv, TypeOK, Types
<1>3. s' \in SocketType /\ s'.wire = s.wire /\ s'.fin = s.fin /\ s'.peer = p
    BY <1>1, <1>2 DEF SocketType
<1>4. TypeOK'
    BY <1>1, <1>2, <1>3 DEF TypeOK, Types
<1>5. Stream' /\ StreamIntegrity'
    BY <1>1, <1>2, <1>3 DEF Stream, StreamIntegrity
<1>6. GracefulShutdown' /\ UpDownOnce' /\ AssertsHold'
    BY <1>1, <1>3 DEF IInv, GracefulShutdown, UpDownOnce, AssertsHold
<1>7. Lifetime' /\ (NotUp' \/ Up')
    BY <1>1, <1>2 DEF Lifetime, Referenced, NotUp, Up
<1>8. Holding' /\ Registration' /\ Once'
    BY <1>1, <1>2 DEF Core, Holding, Registration, Once, Unforced, ClosedOnce,
                      Removing
<1>9. Sent'
    BY <1>1, <1>2, <1>3 DEF Core, Sent, IsTaken, Punctual
<1> QED BY <1>4, <1>5, <1>6, <1>7, <1>8, <1>9 DEF IInv, Core

-----------------------------------------------------------------------------
(* The theorems.                                                           *)

\* Every step of the loop, the threads and the peer preserves the invariant.
LEMMA Inductive == Spec => []IInv
<1>1. IInv /\ [Next]_vars => IInv'
    <2> SUFFICES ASSUME IInv, [Next]_vars PROVE IInv'
        OBVIOUS
    <2>1. CASE UNCHANGED vars
        <3>1. UNCHANGED <<c, s, queue, server, user, alive, fate, h>>
            BY <2>1 DEF vars
        <3>2. TypeOK' /\ (Stream <=> Stream')
            BY <3>1 DEF IInv, TypeOK, Types, Stream
        <3>3. /\ StreamIntegrity' /\ GracefulShutdown' /\ UpDownOnce'
              /\ AssertsHold'
            BY <3>1 DEF IInv, StreamIntegrity, GracefulShutdown, UpDownOnce,
                        AssertsHold
        <3>4. (Running' <=> Running) /\ (Lifetime => Lifetime')
              /\ (NotUp => NotUp') /\ (Up => Up')
            BY <3>1 DEF Running, Lifetime, Referenced, NotUp, Up
        <3>5. Core => Core'
            BY <3>1 DEF Core, Holding, Registration, Once, Unforced,
                        ClosedOnce, Removing, Sent, IsTaken, Punctual
        <3> QED BY <3>2, <3>3, <3>4, <3>5 DEF IInv
    <2>2. CASE MainLoop
        BY <2>2, NewConnectionStep, RemoveConnectionStep DEF MainLoop
    <2>3. CASE SubLoop
        BY <2>3, ConnectEstablishedStep, ConnectDestroyedStep, SendInLoopStep,
           ShutdownInLoopStep, ForceCloseInLoopStep, WriteCompleteStep,
           DanglingStep, HandleCloseStep, HandleWriteStep DEF SubLoop
    <2>4. CASE LoopUser
        BY <2>4, LoopSendStep, LoopShutdownStep, LoopForceCloseStep
           DEF LoopUser
    <2>5. ASSUME NEW t \in Threads, ThreadUser(t) PROVE IInv'
        BY <2>5, GrabStep, ReleaseStep, CheckStep, ForceCloseSetStep,
           SendPushStep, ShutdownSetStep, ClosePushStep
           DEF ThreadUser, ThreadFinishes
    <2>6. CASE PeerCloses \/ PeerReset
        BY <2>6, PeerStep
    <2> QED BY <2>1, <2>2, <2>3, <2>4, <2>5, <2>6 DEF Next
<1> QED BY <1>1, Initially, PTL DEF Spec

\* Whatever mix of direct writes, buffering and handleWrite moves it, no piece
\* a caller handed to sendInLoop is lost, repeated or reordered before a reset,
\* and output that waits is watched with EPOLLOUT.
THEOREM StreamNeverBroken == Spec => []StreamIntegrity
<1>1. IInv => StreamIntegrity
    BY DEF IInv
<1> QED BY <1>1, Inductive, PTL

\* Status, channel map and epoll set agree on every path that closes, and a
\* TcpConnection that is gone has left no trace of its channel in the poller.
THEOREM NoChannelOutlivesConnection == Spec => []ChannelConsistent
<1>1. IInv => ChannelConsistent
    <2> SUFFICES ASSUME IInv, Running
                 PROVE  Consistent(c.ch) /\ (~alive => c.ch = NewChannel)
        BY DEF ChannelConsistent
    <2>1. Registration /\ Lifetime /\ (NotUp \/ Up)
        BY DEF IInv, Core
    <2>2. ASSUME ~alive PROVE c.ch = NewChannel
        <3>1. ~Referenced
            BY <2>1, <2>2 DEF Lifetime
        <3>2. ~Removing
            BY <3>1 DEF Referenced, Removing, In, Owning
        <3>3. CASE NotUp
            BY <3>3 DEF NotUp
        <3>4. CASE Up
            BY <3>2, <3>4, <2>1, <2>2 DEF Up, Lifetime, Registration
        <3> QED BY <3>3, <3>4, <2>1
    <2> QED BY <2>1, <2>2 DEF Registration
<1> QED BY <1>1, Inductive, PTL

\* User code sees the connection come up once, and go down at most once unless
\* forceClose() or a late shutdown() has set the state of a closed one back.
THEOREM ComesUpAndDownOnce == Spec => []UpDownOnce
<1>1. IInv => UpDownOnce
    BY DEF IInv
<1> QED BY <1>1, Inductive, PTL

\* SHUT_WR comes after everything the caller of shutdown() had sent.
THEOREM ShutdownIsGraceful == Spec => []GracefulShutdown
<1>1. IInv => GracefulShutdown
    BY DEF IInv
<1> QED BY <1>1, Inductive, PTL

\* The assertions on the connection's path fail, and a functor with plain this
\* runs on a connection that is gone, only after the event that explains it.
THEOREM AssertionsExplained == Spec => []AssertsHold
<1>1. IInv => AssertsHold
    BY DEF IInv
<1> QED BY <1>1, Inductive, PTL
=============================================================================
