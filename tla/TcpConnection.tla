--------------------------- MODULE TcpConnection ---------------------------
(***************************************************************************)
(* The life of one TcpConnection (src/shero/net/tcp/TcpConnection.cc) of a *)
(* TcpServer (TcpServer.cc): accepted on the main loop, established,       *)
(* written to, shut down, closed and destroyed on its sub loop, while user *)
(* code calls send, shutdown and forceClose from the sub loop's thread and *)
(* from other threads, and the peer closes or resets.                      *)
(*                                                                         *)
(* The sub loop is its functor queue (first in, first out, each functor    *)
(* once: the module EventLoop shows that) and the readiness events of the  *)
(* connection's channel.  A functor or a handler is one step: what it      *)
(* shares with other threads is m_state, which it reads or writes once.    *)
(* Each of send, shutdown and forceClose, called from another thread, is   *)
(* split where it reads m_state, writes it, and queues its functor.        *)
(*                                                                         *)
(* Messages are numbered as the calls that send them begin; each is a      *)
(* sequence of Pieces pieces, so that a write can be partial.  The socket  *)
(* is what the code can observe of it: the pieces the kernel took, whether *)
(* SHUT_WR was done, what the peer did.  A write-complete callback is set  *)
(* and changes nothing.  Bounds: MaxMessages, MaxCalls.                    *)
(***************************************************************************)
EXTENDS Naturals, Sequences, Functions, Channel

CONSTANTS
    MaxMessages,         \* bound on the calls of send
    Threads,             \* user threads other than the loops
    LoopOps,             \* calls made by user code on the sub loop's thread
    ThreadOps,           \* calls made by user code on Threads
    PeerResets,          \* the peer may reset the connection
    MaxCalls             \* bound on the calls of user code

Calls == {"send", "shutdown", "forceClose"}

ASSUME OpsAssumption == LoopOps \subseteq Calls /\ ThreadOps \subseteq Calls
ASSUME FlagsAssumption == PeerResets \in BOOLEAN
ASSUME BoundsAssumption == MaxMessages \in Nat /\ MaxCalls \in Nat

Messages == 1..MaxMessages

Pieces == 2
Data(m) == [i \in 1..Pieces |-> <<m, i>>]

VARIABLES
    c,        \* the connection: state (m_state), ch (m_channel), out (m_output)
    s,        \* its socket: wire (what the kernel took), fin (SHUT_WR done),
              \*   peer (open, closed, reset, or dead: the reset was reported)
    queue,    \* the functors of the sub loop
    server,   \* reg (in m_connections), queue (the main loop's functors),
              \*   one (no thread pool: the sub loop is the main loop)
    user,     \* of each thread: pc, msg of its send, holds a TcpConnectionPtr
    alive,    \* the TcpConnection object exists
    fate,     \* running, or how the process came to grief
    h         \* history: ups, downs (m_connectionCallback), sends and calls
              \*   begun, taken (pieces sendInLoop took on, in order), sentBy
              \*   (messages each thread's send() queued or ran), must
              \*   (messages sent before a shutdown() by its caller), causes
              \*   (below)

vars == <<c, s, queue, server, user, alive, fate, h>>

LoopThread == "loop"
NoMsg == 0

ASSUME ThreadsAssumption == LoopThread \notin Threads

(***************************************************************************)
(* Events the properties refer to, in h.causes.  forced: forceClose() was  *)
(* called.  late shutdown, early shutdown: a shutdown() of another thread  *)
(* set m_state after it had changed since the test, or while sends of the  *)
(* caller were still queued.  dropped: a thread dropped its pointer while  *)
(* a functor with plain this was queued.                                   *)
(***************************************************************************)

\* The ones that may set m_state of a closed connection to Disconnecting.
Reviving == {"forced", "late shutdown"}

\* A functor is the member function it binds, and the message of a send.
Functor(op) == [op |-> op, msg |-> NoMsg]
SendFunctor(m) == [op |-> "sendInLoop", msg |-> m]

\* The functors bound with a shared_ptr; send and shutdown bind plain this.
Owning == {"connectEstablished", "connectDestroyed", "forceCloseInLoop",
           "writeComplete"}
Raw == {"sendInLoop", "shutdownInLoop"}

\* Some TcpConnectionPtr exists.
Referenced ==
    \/ server.reg
    \/ server.queue # <<>>
    \/ \E f \in Range(queue) : f.op \in Owning
    \/ \E t \in Threads : user[t].holds

\* The end of every step: the last pointer gone, ~TcpConnection runs, with
\* its assertion.  "trouble" is what went wrong in the step itself.
Settle(trouble) ==
    /\ alive' = (alive /\ Referenced')
    /\ fate' = IF trouble # "running" THEN trouble
               ELSE IF alive /\ ~alive' /\ c'.state # "Disconnected"
               THEN "dtor assert"
               ELSE "running"

Init ==
    /\ c = [state |-> "Connecting", ch |-> NewChannel, out |-> <<>>]
    /\ s = [wire |-> <<>>, fin |-> FALSE, peer |-> "open"]
    /\ queue = <<>>
    /\ server \in [reg : {FALSE}, queue : {<<>>}, one : BOOLEAN]
    /\ user = [t \in Threads |-> [pc |-> "idle", msg |-> NoMsg,
                                  holds |-> FALSE]]
    /\ alive = FALSE /\ fate = "running"
    /\ h = [ups |-> 0, downs |-> 0, sends |-> 0, calls |-> 0, taken |-> <<>>,
            sentBy |-> [t \in Threads \cup {LoopThread} |-> {}],
            must |-> {}, causes |-> {}]

-----------------------------------------------------------------------------
(* Handlers, as they run on the sub loop.  "q" is the functor queue as the *)
(* handler finds it (without the functor that is running).                 *)

\* Variant: connectDestroyed is queued, but m_connections keeps its pointer.
removeConnection_KeepMap(q) ==
    /\ queue' = Append(q, Functor("connectDestroyed"))
    /\ UNCHANGED server

\* m_closeCallback: TcpServer::removeConnection, then removeConnectionInLoop
\* at once when the main loop is this loop, queued to it otherwise.
removeConnection(q) ==
    IF server.one
    THEN /\ server' = [server EXCEPT !.reg = FALSE]
         /\ queue' = Append(q, Functor("connectDestroyed"))
    ELSE /\ server' = [server EXCEPT !.queue =
                           Append(@, "removeConnectionInLoop")]
         /\ queue' = q

\* Variant: handleClose leaves its events registered.
handleClose_KeepEvents(st, q) ==
    /\ c' = [c EXCEPT !.state = "Disconnected"]
    /\ h' = [h EXCEPT !.downs = @ + 1]
    /\ removeConnection(q)
    /\ UNCHANGED <<s, user>>
    /\ Settle("running")

\* Variant: handleClose does not leave its state.
handleClose_KeepState(st, q) ==
    /\ c' = [c EXCEPT !.ch = delAllListenEvents(@)]
    /\ h' = [h EXCEPT !.downs = @ + 1]
    /\ removeConnection(q)
    /\ UNCHANGED <<s, user>>
    /\ Settle("running")

\* handleClose, entered with m_state = st.
handleClose(st, q) ==
    /\ c' = [c EXCEPT !.state = "Disconnected", !.ch = delAllListenEvents(@)]
    /\ h' = [h EXCEPT !.downs = @ + 1]
    /\ removeConnection(q)
    /\ UNCHANGED <<s, user>>
    /\ Settle(IF st \notin {"Connected", "Disconnecting"} THEN "close assert"
              ELSE IF ~updateAsserts(c.ch) THEN "poller assert"
              ELSE "running")

\* Variant: shutdownInLoop does not look at isWriting().
shutdownInLoop_AtOnce(sk, ch) == [sk EXCEPT !.fin = TRUE]

\* ::shutdown(m_connfd, SHUT_WR), unless output is still being written.
shutdownInLoop(sk, ch) ==
    IF isWriting(ch) THEN sk ELSE [sk EXCEPT !.fin = TRUE]

\* What write(m_connfd, ...) can do: take some pieces; fail, once, after a
\* reset; raise SIGPIPE, which nothing in the library ignores.
WriteTakes == ~s.fin /\ s.peer \in {"open", "closed"}
WriteFails == ~s.fin /\ s.peer = "reset"
WriteKills == s.fin \/ s.peer = "dead"

\* Variant: sendInLoop writes at once whatever waits.
mayWriteDirectly_Always == TRUE

\* sendInLoop writes at once only when nothing waits.
mayWriteDirectly == ~isWriting(c.ch) /\ c.out = <<>>

\* The rest d goes to m_output, and EPOLLOUT is asked for.
buffered(d) ==
    [c EXCEPT !.out = @ \o d,
              !.ch = IF d = <<>> \/ isWriting(@) THEN @
                     ELSE addListenEvents(@, WRITE)]

\* sendInLoop after its m_state test.
sendOpen(m, q) ==
    LET d == Data(m) IN
    \/ /\ ~mayWriteDirectly
       /\ c' = buffered(d)
       /\ queue' = q
       /\ UNCHANGED s
       /\ Settle("running")
    \/ /\ mayWriteDirectly /\ WriteTakes
       /\ \E k \in 0..Pieces :
            /\ s' = [s EXCEPT !.wire = @ \o SubSeq(d, 1, k)]
            /\ c' = buffered(SubSeq(d, k + 1, Pieces))
            /\ queue' = IF k < Pieces THEN q
                        ELSE Append(q, Functor("writeComplete"))
       /\ Settle("running")
    \/ /\ mayWriteDirectly /\ WriteFails
       /\ s' = [s EXCEPT !.peer = "dead"]
       /\ queue' = q
       /\ UNCHANGED c
       /\ Settle("running")
    \/ /\ mayWriteDirectly /\ WriteKills
       /\ queue' = q
       /\ UNCHANGED <<c, s>>
       /\ Settle("sigpipe")

sendInLoop(m, q) ==
    /\ UNCHANGED <<server, user>>
    /\ IF c.state = "Disconnected"
       THEN queue' = q /\ UNCHANGED <<c, s>> /\ Settle("running")
       ELSE sendOpen(m, q)

\* The pieces of m, if sendInLoop takes them on.
Taken(m) == IF c.state = "Disconnected" THEN <<>> ELSE Data(m)

\* connectEstablished after its assertion.
established == [c EXCEPT !.state = "Connected",
                         !.ch = addListenEvents(@, READ)]

\* Variant: connectDestroyed leaves the channel in the loop.
connectDestroyed_KeepChannel(q) ==
    /\ c' = [c EXCEPT !.state = "Disconnected"]
    /\ queue' = q
    /\ UNCHANGED <<s, user, h>>
    /\ Settle("running")

\* connectDestroyed: a connection that is still Connected is taken down
\* first; in any other state its channel is expected to be quiet already.
connectDestroyed(q) ==
    LET up == c.state = "Connected"
        quiet == IF up THEN delAllListenEvents(c.ch) ELSE c.ch
    IN  /\ c' = [c EXCEPT !.state = IF up THEN "Disconnected" ELSE @,
                          !.ch = removeChannel(quiet)]
        /\ h' = [h EXCEPT !.downs = IF up THEN @ + 1 ELSE @]
        /\ queue' = q
        /\ UNCHANGED <<s, user>>
        /\ Settle(IF removeAsserts(quiet) THEN "running"
                  ELSE "poller assert")

-----------------------------------------------------------------------------
(* The main loop.                                                          *)

Running == fate = "running"

\* TcpServer::newConnection: the connection goes into the map, and
\* connectEstablished to the sub loop.
NewConnection ==
    /\ Running /\ c.state = "Connecting" /\ ~alive
    /\ server' = [server EXCEPT !.reg = TRUE]
    /\ alive' = TRUE
    /\ IF server.one
       THEN /\ c' = established
            /\ h' = [h EXCEPT !.ups = @ + 1]
            /\ UNCHANGED queue
       ELSE /\ queue' = Append(queue, Functor("connectEstablished"))
            /\ UNCHANGED <<c, h>>
    /\ UNCHANGED <<s, user, fate>>

\* TcpServer::removeConnectionInLoop on the main loop.
RemoveConnectionInLoop ==
    /\ Running /\ server.queue # <<>>
    /\ server' = [server EXCEPT !.queue = Tail(@), !.reg = FALSE]
    /\ queue' = Append(queue, Functor("connectDestroyed"))
    /\ UNCHANGED <<c, s, user, h>>
    /\ Settle("running")

-----------------------------------------------------------------------------
(* The sub loop: functors.                                                 *)

Runs(op) ==
    /\ Running
    /\ queue # <<>> /\ Head(queue).op = op
    /\ op \in Raw => alive

RunConnectEstablished ==
    /\ Runs("connectEstablished")
    /\ c' = established
    /\ h' = [h EXCEPT !.ups = @ + 1]
    /\ queue' = Tail(queue)
    /\ UNCHANGED <<s, server, user>>
    /\ Settle(IF c.state = "Connecting" THEN "running"
              ELSE "established assert")

RunConnectDestroyed ==
    /\ Runs("connectDestroyed")
    /\ UNCHANGED server
    /\ connectDestroyed(Tail(queue))

RunSendInLoop ==
    /\ Runs("sendInLoop")
    /\ sendInLoop(Head(queue).msg, Tail(queue))
    /\ h' = [h EXCEPT !.taken = @ \o Taken(Head(queue).msg)]

RunShutdownInLoop ==
    /\ Runs("shutdownInLoop")
    /\ s' = shutdownInLoop(s, c.ch)
    /\ queue' = Tail(queue)
    /\ UNCHANGED <<c, server, user, h>>
    /\ Settle("running")

\* forceCloseInLoop: its condition assigns m_state instead of comparing it,
\* so handleClose runs whatever the state was.
RunForceCloseInLoop ==
    /\ Runs("forceCloseInLoop")
    /\ handleClose(IF c.state = "Connected" THEN c.state ELSE "Disconnecting",
                   Tail(queue))

\* m_writeCompleteCallback: user code.
RunWriteComplete ==
    /\ Runs("writeComplete")
    /\ queue' = Tail(queue)
    /\ UNCHANGED <<c, s, server, user, h>>
    /\ Settle("running")

\* A functor bound to a connection that no longer exists.
RunDangling ==
    /\ Running /\ ~alive
    /\ queue # <<>> /\ Head(queue).op \in Raw
    /\ fate' = "use after free"
    /\ UNCHANGED <<c, s, queue, server, user, alive, h>>

-----------------------------------------------------------------------------
(* The sub loop: events of the channel (Channel::handleEventWithGuard).    *)

Polled == Running /\ alive /\ c.ch.epoll

\* Both directions of the socket are gone: EPOLLHUP, whatever the interest.
HangUp == s.peer \in {"reset", "dead"} \/ (s.peer = "closed" /\ s.fin)

\* handleRead with data, or with an error (which its unsigned result takes
\* for data), runs m_messageCallback: see the calls from the loop thread.
\* Here it reads the end of the stream; after a reset too, as handleError,
\* called first for EPOLLERR, has taken the error off the socket.
HandleReadEnd ==
    /\ Polled /\ READ \in c.ch.event /\ s.peer # "open"
    /\ handleClose(c.state, queue)

\* EPOLLHUP without EPOLLIN: m_closeCallback of the channel.
HandleHangUp ==
    /\ Polled /\ READ \notin c.ch.event /\ HangUp
    /\ handleClose(c.state, queue)

\* Variant: an output that has drained does not finish a pending shutdown.
wrote_NoShutdown(k, sk) ==
    LET left == SubSeq(c.out, k + 1, Len(c.out)) IN
    /\ c' = [c EXCEPT !.out = left,
                      !.ch = IF left = <<>> THEN delListenEvents(@, WRITE)
                             ELSE @]
    /\ queue' = IF left = <<>> THEN Append(queue, Functor("writeComplete"))
                ELSE queue
    /\ s' = sk

\* handleWrite when the write takes k pieces of the output, or drops them
\* all: -1, as a size_t, makes Buffer::retrieve discard what there is.
wrote(k, sk) ==
    LET left == SubSeq(c.out, k + 1, Len(c.out))
        ch == IF left = <<>> THEN delListenEvents(c.ch, WRITE) ELSE c.ch
    IN  /\ c' = [c EXCEPT !.out = left, !.ch = ch]
        /\ queue' = IF left = <<>> THEN Append(queue, Functor("writeComplete"))
                    ELSE queue
        /\ s' = IF left = <<>> /\ c.state = "Disconnecting"
                THEN shutdownInLoop(sk, ch) ELSE sk

HandleWrite ==
    /\ Polled /\ isWriting(c.ch)
    /\ \/ WriteTakes /\ \E k \in 1..Len(c.out) :
            wrote(k, [s EXCEPT !.wire = @ \o SubSeq(c.out, 1, k)])
       \/ WriteFails /\ wrote(Len(c.out), [s EXCEPT !.peer = "dead"])
       \/ WriteKills /\ UNCHANGED <<c, s, queue>>
    /\ UNCHANGED <<server, user, h>>
    /\ Settle(IF WriteKills THEN "sigpipe" ELSE "running")

-----------------------------------------------------------------------------
(* User code on the sub loop's thread: m_connectionCallback,               *)
(* m_messageCallback, m_writeCompleteCallback, or a functor of its own.    *)

UserOnLoop(op) ==
    /\ Running /\ alive /\ h.ups = 1
    /\ op \in LoopOps /\ h.calls < MaxCalls

\* A call begins; the message of a send is its number.
Called == [h EXCEPT !.calls = @ + 1]
NewMessage == h.sends + 1

LoopSend ==
    /\ UserOnLoop("send") /\ NewMessage \in Messages
    /\ c.state = "Connected"
    /\ sendInLoop(NewMessage, queue)
    /\ h' = [Called EXCEPT !.sends = NewMessage,
                           !.sentBy[LoopThread] = @ \cup {NewMessage},
                           !.taken = @ \o Taken(NewMessage)]

LoopShutdown ==
    /\ UserOnLoop("shutdown")
    /\ c.state = "Connected"
    /\ c' = [c EXCEPT !.state = "Disconnecting"]
    /\ s' = shutdownInLoop(s, c.ch)
    /\ h' = [Called EXCEPT !.must = @ \cup h.sentBy[LoopThread]]
    /\ UNCHANGED <<queue, server, user>>
    /\ Settle("running")

\* forceClose: the same assignment in its condition.
LoopForceClose ==
    /\ UserOnLoop("forceClose")
    /\ h' = [Called EXCEPT !.causes = @ \cup {"forced"}]
    /\ c' = [c EXCEPT !.state = "Disconnecting"]
    /\ queue' = Append(queue, Functor("forceCloseInLoop"))
    /\ UNCHANGED <<s, server, user>>
    /\ Settle("running")

-----------------------------------------------------------------------------
(* User code on other threads, with a TcpConnectionPtr of its own.         *)

Grab(t) ==
    /\ Running /\ alive /\ h.ups = 1 /\ h.downs = 0
    /\ ~user[t].holds
    /\ user' = [user EXCEPT ![t].holds = TRUE]
    /\ UNCHANGED <<c, s, queue, server, alive, fate, h>>

Release(t) ==
    /\ Running /\ user[t].holds /\ user[t].pc = "idle"
    /\ user' = [user EXCEPT ![t].holds = FALSE]
    /\ h' = IF \E f \in Range(queue) : f.op \in Raw
            THEN [h EXCEPT !.causes = @ \cup {"dropped"}] ELSE h
    /\ UNCHANGED <<c, s, queue, server>>
    /\ Settle("running")

UserOnThread(t, op) ==
    /\ Running /\ user[t].holds /\ user[t].pc = "idle"
    /\ op \in ThreadOps /\ h.calls < MaxCalls

\* The thread moves on to pc, in a step that destroys nothing.
Goes(t, pc, m) ==
    /\ user' = [user EXCEPT ![t].pc = pc, ![t].msg = m]
    /\ UNCHANGED <<s, server, alive, fate>>

\* The last step of a call: queueInLoop.
Pushes(t, f) ==
    /\ Running
    /\ queue' = Append(queue, f)
    /\ Goes(t, "idle", NoMsg)
    /\ UNCHANGED c

\* send: the test of m_state, then the functor.
SendCheck(t) ==
    /\ UserOnThread(t, "send") /\ NewMessage \in Messages
    /\ c.state = "Connected"
    /\ Goes(t, "send", NewMessage)
    /\ h' = [Called EXCEPT !.sends = NewMessage]
    /\ UNCHANGED <<c, queue>>

SendPush(t) ==
    /\ user[t].pc = "send"
    /\ Pushes(t, SendFunctor(user[t].msg))
    /\ h' = [h EXCEPT !.sentBy[t] = @ \cup {user[t].msg}]

\* shutdown: the test of m_state, setState, then the functor.
ShutdownCheck(t) ==
    /\ UserOnThread(t, "shutdown")
    /\ c.state = "Connected"
    /\ h' = Called
    /\ Goes(t, "shutdown", NoMsg)
    /\ UNCHANGED <<c, queue>>

ShutdownSet(t) ==
    /\ Running /\ user[t].pc = "shutdown"
    /\ c' = [c EXCEPT !.state = "Disconnecting"]
    /\ h' = [h EXCEPT !.must = @ \cup h.sentBy[t], !.causes = @
                \cup {x \in {"late shutdown"} : c.state # "Connected"}
                \cup {x \in {"early shutdown"} :
                         \E f \in Range(queue) : f.msg \in h.sentBy[t]}]
    /\ Goes(t, "shutdownInLoop", NoMsg)
    /\ UNCHANGED queue

ForceCloseSet(t) ==
    /\ UserOnThread(t, "forceClose")
    /\ h' = [Called EXCEPT !.causes = @ \cup {"forced"}]
    /\ c' = [c EXCEPT !.state = "Disconnecting"]
    /\ Goes(t, "forceCloseInLoop", NoMsg)
    /\ UNCHANGED queue

\* The last step of shutdown and forceClose: the functor is queued.
ClosePush(t) ==
    /\ user[t].pc \in {"shutdownInLoop", "forceCloseInLoop"}
    /\ Pushes(t, Functor(user[t].pc))
    /\ UNCHANGED h

-----------------------------------------------------------------------------
(* The peer.                                                               *)

PeerCloses ==
    /\ Running /\ server.reg /\ s.peer = "open"
    /\ s' = [s EXCEPT !.peer = "closed"]
    /\ UNCHANGED <<c, queue, server, user, alive, fate, h>>

\* A reset of a half-closed connection leaves EPIPE, not ECONNRESET.
PeerReset ==
    /\ Running /\ PeerResets /\ server.reg /\ s.peer \in {"open", "closed"}
    /\ s' = [s EXCEPT !.peer = IF @ = "open" THEN "reset" ELSE "dead"]
    /\ UNCHANGED <<c, queue, server, user, alive, fate, h>>

-----------------------------------------------------------------------------
MainLoop == NewConnection \/ RemoveConnectionInLoop

SubLoop ==
    \/ RunConnectEstablished \/ RunConnectDestroyed \/ RunSendInLoop
    \/ RunShutdownInLoop \/ RunForceCloseInLoop \/ RunWriteComplete
    \/ RunDangling \/ HandleReadEnd \/ HandleHangUp \/ HandleWrite

LoopUser == LoopSend \/ LoopShutdown \/ LoopForceClose

ThreadFinishes(t) == SendPush(t) \/ ShutdownSet(t) \/ ClosePush(t)

ThreadUser(t) ==
    \/ Grab(t) \/ Release(t)
    \/ SendCheck(t) \/ ShutdownCheck(t) \/ ForceCloseSet(t)
    \/ ThreadFinishes(t)

Next ==
    \/ MainLoop \/ SubLoop \/ LoopUser
    \/ \E t \in Threads : ThreadUser(t)
    \/ PeerCloses \/ PeerReset

Spec == Init /\ [][Next]_vars

(***************************************************************************)
(* Fairness: both loops run the functors they have and handle the events   *)
(* they are ready for (the liveness of EventLoop; every poll serves the    *)
(* channel's events, and every iteration the queue), a thread finishes the *)
(* call it is in and drops its pointer some day.  Nobody has to connect,   *)
(* send, shut down or close.                                               *)
(***************************************************************************)
FairSpec ==
    /\ Spec
    /\ WF_vars(RemoveConnectionInLoop)
    /\ WF_vars(SubLoop)
    /\ WF_vars(HandleReadEnd \/ HandleHangUp)
    /\ WF_vars(HandleWrite)
    /\ \A t \in Threads :
          WF_vars(ThreadFinishes(t)) /\ SF_vars(Release(t))

-----------------------------------------------------------------------------
(* Properties.                                                             *)

\* sendInLoop's direct write, its buffering of the rest, and handleWrite
\* together put every piece on the wire in order, none twice and none
\* skipped: until the peer resets, wire and m_output are exactly what was
\* handed to sendInLoop.  And what waits is watched: before the connection
\* goes down, EPOLLOUT is registered exactly while m_output is not empty.
StreamIntegrity ==
    /\ s.peer \in {"open", "closed"} /\ fate # "sigpipe" =>
           s.wire \o c.out = h.taken
    /\ h.downs = 0 => (isWriting(c.ch) <=> c.out # <<>>)

\* Status, channel map and epoll set agree through every path that closes,
\* and when the TcpConnection is gone, so is every trace of its channel in
\* the poller: epoll_wait can never hand out the freed Channel.
ChannelConsistent ==
    /\ Running => Consistent(c.ch)
    /\ Running /\ ~alive => c.ch = NewChannel

\* User code sees the connection come up once and go down at most once.
UpDownOnce ==
    h.ups <= 1 /\ (h.causes \cap Reviving = {} => h.downs <= h.ups)

\* shutdown() after send() by the same thread: SHUT_WR is done only after
\* all that thread sent has been written.
GracefulShutdown ==
    (/\ s.fin /\ h.downs = 0 /\ s.peer \in {"open", "closed"}
     /\ h.causes \cap {"early shutdown", "late shutdown"} = {}) =>
        \A m \in h.must : Range(Data(m)) \subseteq Range(s.wire)

\* The assertions of EPollPoller::updateChannel and removeChannel.
PollerAssertsHold == fate # "poller assert"

\* An assertion on the connection's path fails, or a functor runs on a
\* TcpConnection that is gone, only after the event that explains it.
Explains(f) ==
    CASE f = "use after free" -> {"dropped"}
      [] f = "established assert" -> {}
      [] OTHER -> Reviving

AssertsHold ==
    fate \notin {"running", "sigpipe"} =>
        h.causes \cap Explains(fate) # {}

\* After the peer closed or reset, the connection is taken down, removed
\* from the server's map and destroyed (or the process is gone).
PeerCloseReleases == (alive /\ s.peer # "open") ~> (~alive \/ ~Running)

\* A shutdown that was begun is done: SHUT_WR once the output has drained,
\* unless the connection went down first.
ShutdownFinishes ==
    (c.state = "Disconnecting") ~>
        (s.fin \/ c.state = "Disconnected" \/ ~Running)
=============================================================================
