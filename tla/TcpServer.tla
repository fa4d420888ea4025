----------------------------- MODULE TcpServer -----------------------------
(***************************************************************************)
(* TcpServer with its TcpAcceptor, listening Socket and thread pool        *)
(* (src/shero/net/tcp/TcpServer.cc, TcpAcceptor.cc, src/shero/net/         *)
(* Socket.cc), composed with EventLoopThreadPool: the owner of the pool is *)
(* the thread of the main loop, which accepts connections and gives each   *)
(* to a sub loop; what is to be done on another loop is queued there.      *)
(*                                                                         *)
(* Of a TcpConnection m_state and its channel are kept (the module         *)
(* TcpConnection has the rest).  The descriptor of a connection is never   *)
(* closed by anyone.                                                       *)
(* Bounds: Clients clients, MaxFds descriptors for connections.            *)
(***************************************************************************)
EXTENDS EventLoopThreadPool, Sequences, SequencesExt

CONSTANTS Clients, MaxFds

ASSUME ServerAssumption ==
    Clients \in Nat /\ MaxFds \in Nat /\ NumThreads > 0

Conns == 1..Clients
Fds == 1..MaxFds

VARIABLES
    srv,             \* up, dtor (in ~TcpServer), gone
    acc,             \* the acceptor: sock (invalid, unbound, bound, closed),
                     \*   m_listenning, reading (its channel has READ),
                     \*   conn (the one in newConnection, or 0)
    clients,         \* arrived, and waiting (in the backlog)
    m_connections,   \* the connection of each descriptor, or 0
    conns,           \* of each connection: m_state (none before accept), fd,
                     \*   loop, channel (is with the poller: no, yes, removed)
    fds,             \* the descriptors in use
    fn,              \* m_pendingFunctors of each sub loop: <<what, conn>>
    batch,           \* how many of them a doPendingFunctors still has to run
    mq               \* the removeConnectionInLoop functors of the main loop

work == <<fn, batch>>
server == <<srv, acc, clients, m_connections, conns, fds, work, mq>>
pool == <<opc, cur, thr, next, given>>
allVars == <<vars, server>>

-----------------------------------------------------------------------------
(* Socket: what each call can make of it.                                  *)

init == {"invalid", "unbound"}
bind(sock) == IF sock = "invalid" THEN {sock} ELSE {sock, "bound"}
listens(sock) == sock # "invalid"

\* accept() gives the lowest free descriptor.
accept == CHOOSE f \in Fds \ fds : \A y \in Fds \ fds : f <= y

-----------------------------------------------------------------------------
\* The acceptor creates its socket and binds it; the result of bind() is not
\* looked at.
ServerInit ==
    /\ Init
    /\ srv = "up"
    /\ acc \in [sock : UNION {bind(sock) : sock \in init},
                m_listenning : {FALSE}, reading : {FALSE}, conn : {0}]
    /\ clients = [arrived |-> 0, waiting |-> 0]
    /\ m_connections = [f \in Fds |-> 0]
    /\ conns = [c \in Conns |-> [m_state |-> "none", fd |-> 0, loop |-> 0,
                                 channel |-> "no"]]
    /\ fds = {}
    /\ fn = [i \in Indices |-> <<>>]
    /\ batch = [i \in Indices |-> 0]
    /\ mq = <<>>

\* The shared pointers to c: in m_connections, in functors, on the stack of
\* newConnection.
Referenced(c) ==
    \/ \E f \in Fds : m_connections[f] = c
    \/ \E i \in Indices : \E k \in DOMAIN fn[i] : fn[i][k][2] = c
    \/ c \in ToSet(mq)
    \/ acc.conn = c

\* queueInLoop(f) on the loop i: its object must still be there.
QueueInLoop(i, f) ==
    IF LoopExists(i)
    THEN fn' = [fn EXCEPT ![i] = Append(@, f)] /\ UNCHANGED fate
    ELSE fate' = "use after free" /\ UNCHANGED fn

-----------------------------------------------------------------------------
(* The thread of the main loop.                                            *)

\* The main thread is in the loop, with the server up.
MainLoops == Running /\ srv = "up" /\ opc = "started" /\ acc.conn = 0

\* TcpServer::start, after that of the pool: TcpAcceptor::listen.  Variant:
\* the channel is not added to the poller.
Listen_NoEvents ==
    /\ MainLoops /\ ~acc.m_listenning
    /\ acc' = [acc EXCEPT !.m_listenning = TRUE]
    /\ UNCHANGED <<pool, fate, srv, clients, m_connections, conns, fds, work, mq>>

\* TcpServer::start, after that of the pool: TcpAcceptor::listen.  A socket
\* that was not bound listens too, on a port nobody knows.
Listen ==
    /\ MainLoops /\ ~acc.m_listenning
    /\ acc' = [acc EXCEPT !.m_listenning = TRUE,
                          !.reading = listens(acc.sock)]
    /\ fate' = IF listens(acc.sock) THEN fate ELSE "fatal"
    /\ UNCHANGED <<pool, srv, clients, m_connections, conns, fds, work, mq>>

\* A client connects: it is in the backlog of the listening socket.
ClientConnects ==
    /\ Running /\ acc.sock = "bound" /\ acc.m_listenning
    /\ clients.arrived < Clients
    /\ clients' = [arrived |-> clients.arrived + 1,
                   waiting |-> clients.waiting + 1]
    /\ UNCHANGED <<pool, fate, srv, acc, m_connections, conns, fds, work, mq>>

\* TcpAcceptor::handleRead: newConnection gives the descriptor a loop and a
\* TcpConnection in m_connections.  Without a free
\* descriptor nothing happens, and the socket stays readable.
HandleRead ==
    /\ MainLoops /\ acc.reading /\ clients.waiting > 0 /\ Fds \ fds # {}
    /\ LET f == accept
           c == clients.arrived - clients.waiting + 1
       IN  /\ m_connections' = [m_connections EXCEPT ![f] = c]
           /\ conns' = [conns EXCEPT ![c].m_state = "Connecting", ![c].fd = f,
                                     ![c].loop = next]
           /\ acc' = [acc EXCEPT !.conn = c]
           /\ fds' = fds \cup {f}
    /\ clients' = [clients EXCEPT !.waiting = @ - 1]
    /\ GetNextLoop
    /\ UNCHANGED <<srv, work, mq>>

\* The end of newConnection: connectEstablished is queued on the sub loop.
NewConnection ==
    /\ Running /\ acc.conn # 0
    /\ QueueInLoop(conns[acc.conn].loop, <<"established", acc.conn>>)
    /\ acc' = [acc EXCEPT !.conn = 0]
    /\ UNCHANGED <<pool, srv, clients, m_connections, conns, fds, batch, mq>>

\* Variant: the connection is dropped without connectDestroyed.
RemoveConnectionInLoop_Drop ==
    /\ MainLoops /\ mq # <<>>
    /\ m_connections' = [m_connections EXCEPT ![conns[Head(mq)].fd] = 0]
    /\ mq' = Tail(mq)
    /\ UNCHANGED <<pool, fate, srv, acc, clients, conns, fds, work>>

\* removeConnectionInLoop: out of m_connections, and connectDestroyed is
\* queued on the sub loop.
RemoveConnectionInLoop ==
    /\ MainLoops /\ mq # <<>>
    /\ LET c == Head(mq)
       IN  /\ m_connections' = [m_connections EXCEPT ![conns[c].fd] = 0]
           /\ QueueInLoop(conns[c].loop, <<"destroyed", c>>)
    /\ mq' = Tail(mq)
    /\ UNCHANGED <<pool, srv, acc, clients, conns, fds, batch>>

\* The same functor in a main loop that outlives its server.
RemoveFromGoneServer ==
    /\ Running /\ srv = "gone" /\ mq # <<>>
    /\ fate' = "use after free"
    /\ UNCHANGED <<pool, server>>

-----------------------------------------------------------------------------
(* ~TcpServer, on the thread of the main loop.                             *)

DestroyServer ==
    /\ MainLoops /\ acc.m_listenning
    /\ srv' = "dtor"
    /\ UNCHANGED <<pool, fate, acc, clients, m_connections, conns, fds, work, mq>>

\* The body: connectDestroyed is queued for a connection after the other.
DestroyConnection(f) ==
    /\ Running /\ srv = "dtor" /\ opc = "started" /\ m_connections[f] # 0
    /\ LET c == m_connections[f]
       IN  QueueInLoop(conns[c].loop, <<"destroyed", c>>)
    /\ m_connections' = [m_connections EXCEPT ![f] = 0]
    /\ UNCHANGED <<pool, srv, acc, clients, conns, fds, batch, mq>>

\* The members: first the pool (its own steps follow) ...
DestroyPool ==
    /\ srv = "dtor" /\ \A f \in Fds : m_connections[f] = 0
    /\ PoolDestroy
    /\ UNCHANGED server

\* ... then the acceptor and its socket.
DestroyAcceptor ==
    /\ Running /\ srv = "dtor" /\ opc = "gone"
    /\ acc' = [acc EXCEPT !.reading = FALSE, !.sock = "closed"]
    /\ srv' = "gone"
    /\ UNCHANGED <<pool, fate, clients, m_connections, conns, fds, work, mq>>

-----------------------------------------------------------------------------
(* The thread of the sub loop i.                                           *)

\* A connection after its connectEstablished or connectDestroyed.
\* removeChannel asserts that nothing is watched any more: the channel of a
\* connection that is shutting down still is.
ran(conn, what) ==
    CASE what = "established" ->
            [conn EXCEPT !.m_state = "Connected", !.channel = "yes"]
      [] what = "destroyed" /\ conn.m_state = "Disconnecting" ->
            [conn EXCEPT !.channel = "assert"]
      [] what = "destroyed" /\ conn.m_state # "Disconnecting" ->
            [conn EXCEPT !.m_state = "Disconnected", !.channel = "removed"]

\* doPendingFunctors runs a functor of those it found pending at first; after
\* the last one follows the while test of loop().
RunFunctor(i) ==
    /\ Running /\ thr[i].pc = "loop" /\ fn[i] # <<>>
    /\ LET c == Head(fn[i])[2]
           r == ran(conns[c], Head(fn[i])[1])
       IN  /\ conns' = [conns EXCEPT ![c] = r]
           /\ fate' = IF r.channel = "assert" THEN "poller assert" ELSE fate
    /\ fn' = [fn EXCEPT ![i] = Tail(@)]
    /\ batch' = [batch EXCEPT ![i] = (IF @ = 0 THEN Len(fn[i]) ELSE @) - 1]
    /\ thr' = [thr EXCEPT ![i].readable = @ /\ batch[i] # 0,
                          ![i].pc = IF batch'[i] = 0 /\ ~thr[i].looping
                                    THEN "leave" ELSE "loop"]
    /\ UNCHANGED <<opc, cur, next, given, srv, acc, clients, m_connections,
                   fds, mq>>

\* User code in a callback of c: shutdown().
Shutdown(c) ==
    /\ Running /\ conns[c].m_state = "Connected"
    /\ thr[conns[c].loop].pc = "loop"
    /\ conns' = [conns EXCEPT ![c].m_state = "Disconnecting"]
    /\ UNCHANGED <<pool, fate, srv, acc, clients, m_connections, fds, work, mq>>

\* Variant: the descriptor is closed with the connection.
closed_Fd(f) == fds \ {f}

\* The descriptors in use after a close: nothing is closed.
closed(f) == fds

\* Variant: a connection that is shutting down keeps its state.
disconnected_NotYet(st) == IF st = "Connected" THEN "Disconnected" ELSE st

\* m_state after handleClose.
disconnected(st) == "Disconnected"

\* TcpConnection::handleClose of c, when its peer closed, with the close
\* callback removeConnection: removeConnectionInLoop is queued in the main
\* loop.
HandleClose(c) ==
    /\ Running /\ conns[c].m_state \in {"Connected", "Disconnecting"}
    /\ thr[conns[c].loop].pc = "loop" /\ batch[conns[c].loop] = 0
    /\ conns' = [conns EXCEPT ![c].m_state = disconnected(@)]
    /\ fds' = closed(conns[c].fd)
    /\ mq' = Append(mq, c)
    /\ UNCHANGED <<pool, fate, srv, acc, clients, m_connections, work>>

\* ~EventLoop destroys the functors that did not run, and with the last
\* pointer ~TcpConnection asserts that m_state is Disconnected.
DropFunctors(i) ==
    /\ Running /\ thr[i].pc = "exit" /\ fn[i] # <<>>
    /\ fn' = [fn EXCEPT ![i] = <<>>]
    /\ UNCHANGED <<pool, srv, acc, clients, m_connections, conns, fds, batch, mq>>
    /\ fate' = IF \E c \in Conns : /\ Referenced(c) /\ ~Referenced(c)'
                                  /\ conns[c].m_state # "Disconnected"
               THEN "connection assert" ELSE fate

\* The steps of the pool's module, for the thread i.
PoolThread(i) ==
    /\ thr[i].pc \in {"loop", "exit"} => fn[i] = <<>>
    /\ LoopThread(i)
    /\ UNCHANGED server

-----------------------------------------------------------------------------
Main ==
    \/ Listen \/ HandleRead \/ NewConnection \/ RemoveConnectionInLoop
    \/ \E f \in Fds : DestroyConnection(f)
    \/ Running /\ DestroyPool
    \/ DestroyAcceptor
    \/ Owner /\ UNCHANGED server

SubLoop(i) == RunFunctor(i) \/ DropFunctors(i) \/ PoolThread(i)

ServerNext ==
    \/ Main
    \/ \E i \in Indices : SubLoop(i)
    \/ Running /\ PoolStart /\ UNCHANGED server
    \/ ClientConnects \/ DestroyServer \/ RemoveFromGoneServer
    \/ \E c \in Conns : Shutdown(c) \/ HandleClose(c)
    \/ \E i \in Indices :
          /\ Running /\ batch[i] = 0
          /\ OtherRound(i) \/ QuitFromLoop(i)
          /\ UNCHANGED server

ServerSpec == ServerInit /\ [][ServerNext]_allVars

\* Fairness: the main loop goes on with events, functors and destructors,
\* each sub loop with its code, its wakeups and its functors.  Clients, user
\* code and the main loop of a server that is gone owe nothing.
FairServerSpec ==
    /\ ServerSpec
    /\ WF_allVars(Main)
    /\ \A i \in Indices : WF_allVars(SubLoop(i))

-----------------------------------------------------------------------------
(* Properties.                                                             *)

\* The loop of c is not being left.
InLoop(c) == thr[conns[c].loop].pc \in {"enter", "loop"}

\* A connection that is not closed can be found by the server: m_connections
\* has it under its descriptor, for ~TcpServer to destroy it.  (It would not
\* be so if handleClose closed the descriptor: a new connection could take
\* the number before removeConnectionInLoop has run.)
OpenConnectionsKnown ==
    \A c \in Conns :
        srv = "up" /\ conns[c].m_state \notin {"none", "Disconnected"} =>
            m_connections[conns[c].fd] = c

\* A TcpConnection goes only when it is closed and its channel is out of the
\* poller, so that epoll never reports a channel that is freed, as long as its
\* sub loop is in loop().
GoesWhenDestroyed ==
    \A c \in Conns :
        conns[c].m_state # "none" /\ ~Referenced(c) /\ InLoop(c) =>
            \/ conns[c].m_state = "Disconnected" /\ conns[c].channel = "removed"
            \/ ~Running

\* While the server is up and user code quits no sub loop, no assertion fails
\* and no object that is gone is used, whatever the order in which connections
\* come, shut down and close.
UpWithoutGrief ==
    fate \in {"running", "fatal"} \/ srv # "up"
        \/ \E i \in Indices : thr[i].pc \in {"leave", "clear", "exit", "dead"}

\* A client in the backlog is accepted, unless the descriptors are used up
\* or the server goes.
ClientsAccepted ==
    (clients.waiting > 0) ~>
        (clients.waiting = 0 \/ Fds \ fds = {} \/ srv # "up" \/ ~Running)
=============================================================================
