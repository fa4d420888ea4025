----------------------------- MODULE TcpClient -----------------------------
(***************************************************************************)
(* A TcpClient (src/shero/net/tcp/TcpClient.cc) and its TcpConnector       *)
(* (TcpConnector.cc) on the loop they belong to: non-blocking connect,     *)
(* retry by timer, hand-over of the socket to a TcpConnection, reconnect   *)
(* after it closes, while user code on other threads and in the connection *)
(* callback connects, disconnects and destroys the client.                 *)
(*                                                                         *)
(* What the loop's thread works on is one record, w, and each member       *)
(* function an operator from a w to the next, so that a handler is the     *)
(* composition of the calls it makes.  Sockets are numbered as they are    *)
(* made; a connection has the number of its socket.  The channel that      *)
(* waits for a connect is in the epoll set or not (the module Channel has  *)
(* the details), and a TcpConnection is the part of its life that concerns *)
(* the client (the module TcpConnection has the rest).  The length of the  *)
(* retry delay is left out.  Bounds: MaxSockets, MaxCalls.                 *)
(***************************************************************************)
EXTENDS Naturals, Sequences, FiniteSets, Functions

CONSTANTS
    Threads,       \* user threads other than the loop's
    MaxSockets,    \* sockets made in a behaviour
    MaxCalls       \* calls of connect() and disconnect() by threads

ASSUME BoundsAssumption == MaxSockets \in Nat /\ MaxCalls \in Nat

VARIABLES
    flags,         \* retry (TcpClient's m_retry), canRetry (TcpConnector's)
    w,             \* the record described below
    pc,            \* where each thread is in a call
    calls,         \* the calls made by threads so far
    h              \* history: causes (known ways to come to grief that
                   \*   happened), disconnected (disconnect() was called)

vars == <<flags, w, pc, calls, h>>

Sockets == 1..MaxSockets
None == 0

\* What connect(2) says: under way, an error that is retried, another one.
Results == {"EINPROGRESS", "ECONNREFUSED", "other"}

\* What user code does in the connection callback.
CallbackOps == {"nothing", "keep", "connect", "disconnect"}

NoConn == [state |-> "none", cb |-> "client", held |-> FALSE]

Init ==
    /\ flags \in [retry : BOOLEAN, canRetry : BOOLEAN]
    /\ w = [alive |-> TRUE,             \* the TcpClient exists
            m_connect |-> FALSE,        \* TcpClient's
            m_conn |-> None,
            state |-> "Disconnected",   \* TcpConnector's m_state, m_connect
            wants |-> FALSE,            \*   and m_channel (its socket)
            channel |-> None,
            epoll |-> {},               \* connecting sockets in the epoll set
            made |-> 0,                 \* sockets made so far
            sock |-> [s \in 1..MaxSockets + 1 |-> "none"],
            conn |-> [s \in 1..MaxSockets + 1 |-> NoConn],
            listening |-> TRUE,         \* the retry timer is in the loop
            retries |-> 0,              \* retry timers set
            expired |-> FALSE,          \* its timerfd is readable
            queue |-> <<>>,             \* the loop's functors
            fate |-> "running"]
    /\ pc = [t \in Threads |->
                [at |-> "idle", conn |-> None, unique |-> FALSE]]
    /\ calls = 0
    /\ h = [causes |-> {}, disconnected |-> FALSE]

Functor(op, s) == [op |-> op, conn |-> s]
Queued(x, op, s) == [x EXCEPT !.queue = Append(@, Functor(op, s))]
Grief(x, what) == [x EXCEPT !.fate = IF @ = "running" THEN what ELSE @]

\* The TcpConnector exists: the client and each retry timer hold a pointer.
ConnectorAlive(x) == x.alive \/ x.retries > 0

-----------------------------------------------------------------------------
(* TcpConnector, on the loop's thread.                                     *)

\* m_channel gets another value: the Channel it had is freed.
NewChannelValue(x, s) ==
    LET y == [x EXCEPT !.channel = s]
    IN  IF x.channel \in x.epoll THEN Grief(y, "freed channel") ELSE y

\* A retry timer is added; the timerfd is set anew when there was none.
RetryTimer(x) ==
    IF flags.canRetry /\ x.wants
    THEN [x EXCEPT !.retries = @ + 1,
                   !.expired = IF x.retries = 0 THEN FALSE ELSE @]
    ELSE x

retry(x, s) ==
    RetryTimer([x EXCEPT !.sock[s] = "closed", !.state = "Disconnected"])

\* Variant: the state is left alone.
connecting_NoState(x, s) ==
    [NewChannelValue(x, s) EXCEPT !.sock[s] = "connecting",
                                  !.epoll = @ \cup {s}]

connecting(x, s) ==
    [NewChannelValue(x, s) EXCEPT !.sock[s] = "connecting",
                                  !.epoll = @ \cup {s},
                                  !.state = "Connecting"]

\* connect(), when connect(2) says r.
connect(x, r) ==
    LET s == x.made + 1
        y == [x EXCEPT !.made = s]
    IN  CASE r = "EINPROGRESS"  -> connecting(y, s)
          [] r = "ECONNREFUSED" -> retry(y, s)
          [] r = "other"        -> [y EXCEPT !.sock[s] = "closed"]

startInLoop(x, r) ==
    IF x.state = "Disconnected" /\ x.wants THEN connect(x, r) ELSE x

\* Variant: the state is not set back, and startInLoop does nothing.
restart_KeepState(x, r) == startInLoop([x EXCEPT !.wants = TRUE], r)

restart(x, r) ==
    startInLoop([x EXCEPT !.state = "Disconnected", !.wants = TRUE], r)

\* Variant: the channel stays in the epoll set.
removeAndResetChannel_KeepEpoll(x) == Queued(x, "resetChannel", None)

removeAndResetChannel(x) ==
    Queued([x EXCEPT !.epoll = @ \ {x.channel}], "resetChannel", None)

\* timerDestroyed.  After a retry the timerfd is not drained, so that the
\* timer's channel is among the active ones of this round: EventLoop's
\* removeChannel asserts that it is not.
timerDestroyed(x) ==
    LET y == [x EXCEPT !.listening = FALSE]
    IN  IF x.listening /\ x.expired THEN Grief(y, "assert") ELSE y

-----------------------------------------------------------------------------
(* TcpClient, on the loop's thread.                                        *)

\* TcpConnection::shutdown.
shutdown(x, s) ==
    IF s # None /\ x.conn[s].state = "Connected"
    THEN [x EXCEPT !.conn[s].state = "Disconnecting"] ELSE x

\* connect() of the loop's thread runs startInLoop in place.
clientConnect(x, r) ==
    startInLoop([x EXCEPT !.m_connect = TRUE, !.wants = TRUE], r)

disconnect(x) ==
    IF x.m_connect THEN shutdown([x EXCEPT !.m_connect = FALSE], x.m_conn)
    ELSE x

\* m_connectionCallback of connection s, where user code does op.
callback(x, s, op, r) ==
    CASE op = "nothing"    -> x
      [] op = "keep"       -> [x EXCEPT !.conn[s].held = TRUE]
      [] op = "connect"    -> IF x.alive THEN clientConnect(x, r) ELSE x
      [] op = "disconnect" -> IF x.alive THEN disconnect(x) ELSE x

\* newConnection, with connectEstablished.
newConnection(x, s, op, r) ==
    IF ~x.alive THEN Grief(x, "use after free")
    ELSE callback([x EXCEPT !.sock[s] = "conn", !.m_conn = s,
                            !.conn[s].state = "Connected"], s, op, r)

\* removeConnection.
removeConnection(x, s, r) ==
    LET y == Queued([x EXCEPT !.m_conn = None], "connectDestroyed", s)
    IN  IF ~x.alive THEN Grief(x, "use after free")
        ELSE IF flags.retry /\ x.m_connect THEN restart(y, r) ELSE y

\* TcpConnection::handleClose, with the close callback the connection has.
handleClose(x, s, op, r) ==
    LET y == callback([x EXCEPT !.conn[s].state = "Disconnected"], s, op, r)
    IN  IF y.conn[s].cb = "client" THEN removeConnection(y, s, r)
        ELSE Queued(y, "connectDestroyed", s)

\* handleWrite when getsockopt says that the connect has succeeded.
handleConnected(x, op, r) ==
    LET s == x.channel
        y == [removeAndResetChannel(x) EXCEPT !.state = "Connected"]
    IN  timerDestroyed(IF y.wants THEN newConnection(y, s, op, r)
                       ELSE [y EXCEPT !.sock[s] = "closed"])

-----------------------------------------------------------------------------
(* Steps of the loop's thread.                                             *)

ResetPending(x) == \E f \in Range(x.queue) : f.op = "resetChannel"

\* The step ends in x; history's causes grow by c.
Becomes(x, c) ==
    /\ w.fate = "running" /\ x.made <= MaxSockets
    /\ w' = x
    /\ h' = [h EXCEPT !.causes = @ \cup c \cup
                           {"connect before reset" :
                               s \in {v \in x.epoll \ w.epoll :
                                          ResetPending(x)}},
                      !.disconnected = @ \/ (w.m_connect /\ ~x.m_connect)]
    /\ UNCHANGED flags

LoopStep(x, c) == Becomes(x, c) /\ UNCHANGED <<pc, calls>>

\* A connect that is over: the channel's events.  A failed one reports an
\* error and a hang-up first, so that handleError runs and then handleWrite,
\* which finds m_state changed.
HandleEvent(op, r) ==
    /\ w.state = "Connecting"
    /\ \E s \in w.epoll :
          \/ w.sock[s] = "up" /\ LoopStep(handleConnected(w, op, r), {})
          \/ /\ w.sock[s] = "down" /\ op = "nothing"
             /\ LoopStep(retry(removeAndResetChannel(w), s), {})

\* onTimer runs startInLoop, and the pointer it holds is dropped.  (A
\* resetChannel still queued is of this round; a timer set with it is not
\* due.)
RetryFires(r) ==
    /\ w.listening /\ w.retries > IF ResetPending(w) THEN 1 ELSE 0
    /\ LET x == [w EXCEPT !.retries = @ - 1, !.expired = TRUE]
       IN  LoopStep(IF w.alive THEN startInLoop(x, r)
                    ELSE Grief(startInLoop(w, r), "use after free"),
                    {"retried"})

\* A functor is taken off the queue and run.
Running(op) == w.queue # <<>> /\ Head(w.queue).op = op
Popped == [w EXCEPT !.queue = Tail(@)]

\* startInLoop, bound to plain this.
RunStartInLoop(r) ==
    /\ Running("startInLoop")
    /\ LoopStep(IF ConnectorAlive(w) THEN startInLoop(Popped, r)
                ELSE Grief(Popped, "use after free"), {})

\* resetChannel, bound to plain this.
RunResetChannel ==
    /\ Running("resetChannel")
    /\ LoopStep(IF ConnectorAlive(w) THEN NewChannelValue(Popped, None)
                ELSE Grief(Popped, "use after free"), {})

\* The second connectDestroyed finds the channel removed: it asserts.
RunConnectDestroyed ==
    /\ Running("connectDestroyed")
    /\ LET s == Head(w.queue).conn
       IN  LoopStep(IF w.conn[s].state = "Destroyed"
                    THEN Grief(Popped, "assert")
                    ELSE [Popped EXCEPT !.conn[s].state = "Destroyed"], {})

RunSetCloseCallback ==
    /\ Running("setCloseCallback")
    /\ LoopStep([Popped EXCEPT !.conn[Head(w.queue).conn].cb = "default"], {})

\* forceCloseInLoop: its test is an assignment, so that it always closes.
RunForceCloseInLoop(op, r) ==
    /\ Running("forceCloseInLoop")
    /\ LoopStep(handleClose(Popped, Head(w.queue).conn, op, r), {})

\* The peer has closed: handleRead reads 0, or a hang-up is reported.  (A
\* connection made in this round has events from the next one on.)
PeerCloses(s, op, r) ==
    /\ ~ResetPending(w)
    /\ w.conn[s].state \in {"Connected", "Disconnecting"}
    /\ LoopStep(handleClose(w, s, op, r), {})

\* User code on the loop's thread, outside the callbacks.
LoopConnect(r) ==
    /\ w.alive /\ calls < MaxCalls /\ \A t \in Threads : pc[t].at = "idle"
    /\ calls' = calls + 1
    /\ Becomes(clientConnect(w, r), {}) /\ UNCHANGED pc

\* The network decides a connect that is under way.
NetworkDecides(s) ==
    /\ w.sock[s] = "connecting"
    /\ \E d \in {"up", "down"} : LoopStep([w EXCEPT !.sock[s] = d], {})

-----------------------------------------------------------------------------
(* Calls from another thread, split where the loop can come between.       *)

Destroying == {"destroy", "free", "gone"}

ThreadStep(t, from, to, x, c) ==
    /\ pc[t].at = from
    /\ pc' = [pc EXCEPT ![t].at = to]
    /\ Becomes(x, c)

\* A client may be called until its destructor begins.
Usable == \A t \in Threads : pc[t].at \notin Destroying

ConnectSet(t) ==
    /\ Usable /\ calls < MaxCalls /\ calls' = calls + 1
    /\ ThreadStep(t, "idle", "start",
                  [w EXCEPT !.m_connect = TRUE, !.wants = TRUE], {})

ConnectQueue(t) ==
    /\ ThreadStep(t, "start", "idle", Queued(w, "startInLoop", None), {})
    /\ UNCHANGED calls

DisconnectSet(t) ==
    /\ Usable /\ w.m_connect /\ calls < MaxCalls /\ calls' = calls + 1
    /\ ThreadStep(t, "idle", "shut", [w EXCEPT !.m_connect = FALSE], {})

DisconnectShutdown(t) ==
    /\ ThreadStep(t, "shut", "idle", shutdown(w, w.m_conn), {})
    /\ UNCHANGED calls

\* Nothing of the client is in use.
Unused ==
    /\ w.m_conn = None /\ w.state # "Connecting" /\ w.retries = 0
    /\ \A f \in Range(w.queue) : f.op \notin {"startInLoop", "resetChannel"}

\* ~TcpClient, called while no other call is under way: m_conn is read, and
\* whether it is the only pointer (a handler may be holding another) ...
DestroyRead(t) ==
    /\ w.alive /\ \A u \in Threads : pc[u].at = "idle"
    /\ \E u \in BOOLEAN :
          /\ u => w.m_conn # None /\ ~w.conn[w.m_conn].held
          /\ pc' = [pc EXCEPT ![t] = [at |-> "destroy", conn |-> w.m_conn,
                                      unique |-> u]]
    /\ Becomes(w, IF Unused THEN {} ELSE {"destroyed in use"})
    /\ UNCHANGED calls

\* ... its close callback replaced, and, when it was the only one, closed ...
DestroyClose(t) ==
    LET s == pc[t].conn
        x == Queued(w, "setCloseCallback", s)
    IN  /\ ThreadStep(t, "destroy", "free",
                      IF s = None THEN w ELSE IF ~pc[t].unique THEN x
                      ELSE Queued([x EXCEPT !.conn[s].state = "Disconnecting"],
                                  "forceCloseInLoop", s), {})
        /\ UNCHANGED calls

\* ... and the members go: the connector with its channel, unless a retry
\* timer still holds it.
DestroyFree(t) ==
    LET x == [w EXCEPT !.alive = FALSE, !.m_conn = None]
    IN  /\ ThreadStep(t, "free", "gone",
                      IF w.retries = 0 THEN NewChannelValue(x, None) ELSE x,
                      {})
        /\ UNCHANGED calls

-----------------------------------------------------------------------------
LoopGoesOn ==
    \/ \E r \in Results : RetryFires(r)
    \/ \E r \in Results : RunStartInLoop(r)
    \/ RunResetChannel
    \/ RunConnectDestroyed
    \/ RunSetCloseCallback
    \/ \E r \in Results, op \in CallbackOps : RunForceCloseInLoop(op, r)

HandlesEvent == \E r \in Results, op \in CallbackOps : HandleEvent(op, r)

ThreadGoesOn(t) ==
    \/ ConnectQueue(t) \/ DisconnectShutdown(t)
    \/ DestroyClose(t) \/ DestroyFree(t)

Next ==
    \/ LoopGoesOn
    \/ HandlesEvent
    \/ \E s \in Sockets, r \in Results, op \in CallbackOps :
          PeerCloses(s, op, r)
    \/ \E r \in Results : LoopConnect(r)
    \/ \E s \in Sockets : NetworkDecides(s)
    \/ \E t \in Threads : ThreadGoesOn(t)
    \/ \E t \in Threads : ConnectSet(t) \/ DisconnectSet(t) \/ DestroyRead(t)

Spec == Init /\ [][Next]_vars

\* Fairness: the loop handles its events and functors, each thread finishes
\* its call.
FairSpec ==
    /\ Spec
    /\ WF_vars(LoopGoesOn) /\ WF_vars(HandlesEvent)
    /\ \A t \in Threads : WF_vars(ThreadGoesOn(t))

-----------------------------------------------------------------------------
(* Properties.                                                             *)

Live(s) == w.conn[s].state \in {"Connected", "Disconnecting"}

\* Until the client is destroyed there is one attempt or one connection at
\* a time, m_conn is that connection, and m_state says which of the two it
\* is: connect() again and again, from any thread, retries and reconnects
\* never make two.  And no socket is forgotten: each one made is closed,
\* belongs to a connection, or is the attempt under way.
OneAtATime ==
    w.fate = "running" =>
        /\ Usable =>
              /\ Cardinality(w.epoll \cup {s \in Sockets : Live(s)}) <= 1
              /\ w.m_conn # None => w.state = "Connected" /\ Live(w.m_conn)
              /\ w.epoll # {} <=> w.state = "Connecting"
        /\ \A s \in 1..w.made : \/ w.sock[s] \in {"closed", "conn"}
                                \/ s = w.channel /\ s \in w.epoll

\* The process comes to grief (a freed object is used, a freed channel stays
\* in the epoll set, an assertion fails) in three known ways only: the client
\* was destroyed while in use, a connect() was begun before a queued
\* resetChannel ran, or a retry timer fired.
GriefIsKnown == w.fate # "running" => h.causes # {}

\* A client that is to retry makes another attempt when its connection has
\* closed, unless disconnect() was called or the client destroyed.
Reconnects ==
    \A s \in Sockets :
        (flags.retry /\ w.conn[s].state = "Disconnected") ~>
            (\/ w.made > s \/ w.made = MaxSockets
             \/ h.disconnected \/ ~w.alive \/ w.fate # "running")
=============================================================================
