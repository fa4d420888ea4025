-------------------------- MODULE TcpClientProofs --------------------------
(***************************************************************************)
(* Proofs about TcpClient with its TcpConnector: for any number of         *)
(* threads, sockets and calls there is one attempt or connection at a      *)
(* time, and the process comes to grief in the known ways only.            *)
(***************************************************************************)
EXTENDS TcpClient, TLAPS, FiniteSetTheorems, SequenceTheorems

Socks == 1..MaxSockets + 1

OwnOps == {"startInLoop", "resetChannel"}
ConnOps == {"connectDestroyed", "setCloseCallback", "forceCloseInLoop"}
Functors == [op : OwnOps, conn : {None}] \cup [op : ConnOps, conn : Socks]

Open == {"Connected", "Disconnecting"}
ConnType == [state : Open \cup {"none", "Disconnected", "Destroyed"},
             cb : {"client", "default"}, held : BOOLEAN]

Undecided == {"connecting", "up", "down"}
Fates == {"running", "freed channel", "use after free", "assert"}

\* The type of w.
Client ==
    [alive : BOOLEAN, m_connect : BOOLEAN, m_conn : Socks \cup {None},
     state : {"Disconnected", "Connecting", "Connected"}, wants : BOOLEAN,
     channel : Nat, epoll : SUBSET Nat, made : Nat,
     sock : [Socks -> Undecided \cup {"none", "closed", "conn"}],
     conn : [Socks -> ConnType], listening : BOOLEAN, retries : Nat,
     expired : BOOLEAN, queue : Seq(Functors), fate : Fates]

ThreadType == [at : {"idle", "start", "shut"} \cup Destroying,
               conn : Socks \cup {None}, unique : BOOLEAN]

Causes == {"destroyed in use", "connect before reset", "retried"}

\* The epoll set has at most the channel the connector points to, and a
\* socket is open as long as it is in there.
Attempt(x) ==
    /\ x.epoll \subseteq {x.channel}
    /\ \A s \in x.epoll : s \in Socks /\ s <= x.made
    /\ \A s \in Socks :
          IF s <= x.made
          THEN IF s \in x.epoll THEN x.sock[s] \in Undecided
               ELSE x.sock[s] \in {"closed", "conn"}
          ELSE x.sock[s] = "none"

\* Until the client is destroyed m_state and m_conn tell what there is: an
\* attempt while Connecting, m_conn while Connected.
Orderly(x) ==
    /\ x.alive
    /\ x.epoll # {} <=> x.state = "Connecting"
    /\ x.m_conn # None => x.state = "Connected"
    /\ \A s \in Socks : x.conn[s].state \in Open <=> s = x.m_conn
    /\ \A s \in Socks : x.sock[s] # "conn" => x.conn[s].state = "none"
    /\ \A s \in Socks : x.conn[s].cb = "client"
    /\ \A k \in DOMAIN x.queue :
          x.queue[k].op \in OwnOps \cup {"connectDestroyed"}

\* Each connectDestroyed that is queued is of a closed connection of its own.
Falling(x) ==
    /\ \A k \in DOMAIN x.queue :
          x.queue[k].op = "connectDestroyed" =>
              x.conn[x.queue[k].conn].state = "Disconnected"
    /\ \A k, l \in DOMAIN x.queue :
          /\ x.queue[k].op = "connectDestroyed"
          /\ x.queue[l].op = "connectDestroyed"
          /\ x.queue[k].conn = x.queue[l].conn
          => k = l

\* Without a cause of grief: no attempt while a resetChannel is queued, and
\* no retry timer has fired.
Blameless(x) == (ResetPending(x) => x.epoll = {}) /\ ~x.expired

\* A client that was unused when its destructor began: nothing of it is left.
Quiet(x) ==
    /\ x.m_conn = None /\ x.epoll = {} /\ x.retries = 0
    /\ \A s \in Socks : x.conn[s].state \notin Open
    /\ \A k \in DOMAIN x.queue : x.queue[k].op = "connectDestroyed"

QuietThreads ==
    \A t \in Threads : \/ pc[t].at = "idle"
                       \/ pc[t].at \in Destroying /\ pc[t].conn = None

IInv ==
    /\ w \in Client /\ w.made <= MaxSockets
    /\ pc \in [Threads -> ThreadType]
    /\ h \in [causes : SUBSET Causes, disconnected : BOOLEAN]
    /\ GriefIsKnown
    /\ w.fate = "running" =>
          /\ Attempt(w)
          /\ Usable => Orderly(w) /\ Falling(w)
          /\ h.causes = {} => Blameless(w)
          /\ h.causes = {} /\ ~Usable => Quiet(w) /\ Falling(w) /\ QuietThreads

-----------------------------------------------------------------------------
\* The invariant holds for a client that has not connected yet.
LEMMA InitInv == Init => IInv
<1> SUFFICES ASSUME Init PROVE IInv
    OBVIOUS
<1>1. MaxSockets \in Nat
    BY BoundsAssumption
<1>2. w \in Client
    BY <1>1 DEF Init, Client, Socks, NoConn, ConnType, None, Fates
<1>3. w.made = 0 /\ w.epoll = {} /\ w.channel = None /\ w.m_conn = None
      /\ w.state = "Disconnected" /\ w.queue = <<>> /\ ~w.expired /\ w.alive
      /\ w.fate = "running" /\ DOMAIN w.queue = {}
    BY DEF Init
<1>4. \A s \in Socks : w.sock[s] = "none" /\ w.conn[s] = NoConn
    BY DEF Init, Socks
<1>5. /\ pc \in [Threads -> ThreadType] /\ Usable
      /\ h \in [causes : SUBSET Causes, disconnected : BOOLEAN]
      /\ h.causes = {}
    BY DEF Init, ThreadType, Usable, Destroying
<1>6. Attempt(w)
    BY <1>1, <1>3, <1>4 DEF Attempt, Socks
<1>7. Orderly(w) /\ Falling(w)
    BY <1>1, <1>3, <1>4 DEF Orderly, Falling, NoConn, Open, Socks, None
<1>8. Blameless(w)
    BY <1>3 DEF Blameless
<1> QED BY <1>1, <1>2, <1>3, <1>5, <1>6, <1>7, <1>8 DEF IInv, GriefIsKnown

-----------------------------------------------------------------------------
(* The functors.                                                           *)

\* A functor that is queued comes last.
LEMMA Appended ==
    ASSUME NEW q \in Seq(Functors), NEW f \in Functors
    PROVE  /\ Append(q, f) \in Seq(Functors)
           /\ Len(q) \in Nat /\ DOMAIN q = 1..Len(q)
           /\ DOMAIN Append(q, f) = 1..Len(q) + 1
           /\ \A k \in DOMAIN q : Append(q, f)[k] = q[k]
           /\ Append(q, f)[Len(q) + 1] = f
    OBVIOUS

\* A functor that is run is the first.
LEMMA Tailed ==
    ASSUME NEW q \in Seq(Functors), q # <<>>
    PROVE  /\ Tail(q) \in Seq(Functors) /\ Head(q) = q[1]
           /\ Head(q) \in Functors /\ 1 \in DOMAIN q
           /\ \A k \in DOMAIN Tail(q) : /\ k \in Nat /\ k + 1 \in DOMAIN q
                                        /\ k # 0 /\ Tail(q)[k] = q[k + 1]
    OBVIOUS

\* What a functor of a connection is about.
LEMMA FunctorTypes ==
    /\ \A op \in OwnOps : Functor(op, None) \in Functors
    /\ \A op \in ConnOps, s \in Socks : Functor(op, s) \in Functors
    /\ \A op, s : Functor(op, s).op = op /\ Functor(op, s).conn = s
    /\ \A f \in Functors : f.op \in ConnOps => f.conn \in Socks
    BY DEF Functor, Functors, OwnOps, ConnOps

-----------------------------------------------------------------------------
(* The connector.                                                          *)

\* What the connector's own functions leave alone, and what they promise.
Started(x, y) ==
    /\ y \in Client
    /\ y.alive = x.alive /\ y.m_connect = x.m_connect /\ y.m_conn = x.m_conn
    /\ y.conn = x.conn /\ y.queue = x.queue /\ y.listening = x.listening
    /\ y.made >= x.made
    /\ y.expired => x.expired
    /\ x.fate # "running" => y.fate # "running"
    /\ y.made <= MaxSockets /\ y.fate = "running" /\ Attempt(x) =>
          /\ Attempt(y)
          /\ \A s \in Socks : y.sock[s] = "conn" <=> x.sock[s] = "conn"

\* A change of one socket keeps the type of all.
LEMMA SockTyped ==
    ASSUME NEW x \in Client, NEW s,
           NEW v \in Undecided \cup {"none", "closed", "conn"}
    PROVE  [x.sock EXCEPT ![s] = v]
               \in [Socks -> Undecided \cup {"none", "closed", "conn"}]
    BY DEF Client

\* startInLoop begins an attempt, or does nothing.
LEMMA StartKeeps ==
    ASSUME NEW x \in Client, NEW r \in Results
    PROVE  /\ Started(x, startInLoop(x, r))
           /\ x.state # "Disconnected" => startInLoop(x, r) = x
           /\ x.state = "Disconnected" /\ x.epoll = {} =>
                 /\ startInLoop(x, r).fate = x.fate
                 /\ startInLoop(x, r).state # "Connected"
                 /\ startInLoop(x, r).epoll # {} <=>
                        startInLoop(x, r).state = "Connecting"
<1>1. x.made \in Nat /\ MaxSockets \in Nat
    BY BoundsAssumption DEF Client
<1>2. Started(x, x)
    BY <1>1 DEF Started
<1>3. CASE ~(x.state = "Disconnected" /\ x.wants)
    BY <1>2, <1>3 DEF startInLoop, Client
<1>4. CASE x.state = "Disconnected" /\ x.wants
    <2> DEFINE s == x.made + 1
               v == [x EXCEPT !.made = s]
    <2>1. startInLoop(x, r) = connect(x, r)
        BY <1>4 DEF startInLoop
    <2>2. CASE r = "EINPROGRESS"
        <3> DEFINE n == NewChannelValue(v, s)
                   y == connecting(v, s)
        <3>1. connect(x, r) = y
            BY <2>2 DEF connect
        <3>2. /\ n = [x EXCEPT !.made = s, !.channel = s, !.fate = n.fate]
              /\ n.fate \in Fates
              /\ x.fate # "running" => n.fate = x.fate
              /\ x.fate = "running" =>
                    (n.fate = "running" <=> x.channel \notin x.epoll)
            BY DEF NewChannelValue, Grief, Client, Fates
        <3> HIDE DEF n
        <3>3. y = [x EXCEPT !.made = s, !.channel = s, !.fate = n.fate,
                            !.sock[s] = "connecting", !.epoll = @ \cup {s},
                            !.state = "Connecting"]
            BY <3>2 DEF connecting, n, Client
        <3> HIDE DEF y
        <3>4. y \in Client
            <4>1. [x.sock EXCEPT ![s] = "connecting"]
                     \in [Socks -> Undecided \cup {"none", "closed", "conn"}]
                BY SockTyped DEF Undecided
            <4>2. s \in Nat /\ x.epoll \cup {s} \in SUBSET Nat
                BY <1>1 DEF Client
            <4> HIDE DEF s
            <4> QED BY <3>2, <3>3, <4>1, <4>2 DEF Client
        <3>5. /\ y.alive = x.alive /\ y.m_connect = x.m_connect
              /\ y.m_conn = x.m_conn /\ y.conn = x.conn /\ y.queue = x.queue
              /\ y.listening = x.listening /\ y.expired = x.expired
              /\ y.made = s /\ y.channel = s /\ y.epoll = x.epoll \cup {s}
              /\ y.state = "Connecting" /\ y.fate = n.fate
              /\ y.sock = [x.sock EXCEPT ![s] = "connecting"]
            BY <3>3 DEF Client
        <3>6. ASSUME y.made <= MaxSockets, y.fate = "running", Attempt(x)
              PROVE  /\ Attempt(y)
                     /\ \A k \in Socks : y.sock[k] = "conn" <=> x.sock[k] = "conn"
            <4>1. x.epoll = {} /\ s \in Socks
                BY <1>1, <3>2, <3>5, <3>6 DEF Attempt, Socks
            <4>2. x.sock[s] = "none"
                BY <1>1, <3>6, <4>1 DEF Attempt, Socks
            <4>3. \A k \in Socks : y.sock[k] = IF k = s THEN "connecting"
                                               ELSE x.sock[k]
                BY <3>5 DEF Client
            <4> QED BY <1>1, <3>5, <3>6, <4>1, <4>2, <4>3
                    DEF Attempt, Socks, Undecided
        <3>7. Started(x, y)
            BY <1>1, <3>2, <3>4, <3>5, <3>6 DEF Started
        <3>8. x.epoll = {} => y.fate = x.fate
            BY <3>2, <3>5 DEF Client
        <3> QED BY <1>4, <2>1, <3>1, <3>5, <3>7, <3>8
    <2>3. CASE r = "ECONNREFUSED"
        <3> DEFINE u == [v EXCEPT !.sock[s] = "closed", !.state = "Disconnected"]
                   y == RetryTimer(u)
        <3>1. connect(x, r) = y
            BY <2>3 DEF connect, retry
        <3>2. /\ u \in Client
              /\ u = [x EXCEPT !.made = s, !.sock[s] = "closed",
                               !.state = "Disconnected"]
            <4>1. [x.sock EXCEPT ![s] = "closed"]
                     \in [Socks -> Undecided \cup {"none", "closed", "conn"}]
                BY SockTyped
            <4>2. s \in Nat
                BY <1>1
            <4> HIDE DEF s
            <4> QED BY <4>1, <4>2 DEF Client
        <3> HIDE DEF u
        <3>3. y \in Client
            <4>1. u.retries + 1 \in Nat /\ u.expired \in BOOLEAN
                BY <3>2 DEF Client
            <4> DEFINE e == IF u.retries = 0 THEN FALSE ELSE u.expired
                       n == u.retries + 1
            <4>2. e \in BOOLEAN /\ n \in Nat
                BY <4>1
            <4>3. y = u \/ y = [u EXCEPT !.retries = n, !.expired = e]
                BY <3>2 DEF RetryTimer, Client
            <4> HIDE DEF e, n, y
            <4>4. [u EXCEPT !.retries = n, !.expired = e] \in Client
                BY <3>2, <4>2 DEF Client
            <4> QED BY <3>2, <4>3, <4>4
        <3>4. /\ y.alive = u.alive /\ y.m_connect = u.m_connect
              /\ y.m_conn = u.m_conn /\ y.conn = u.conn /\ y.queue = u.queue
              /\ y.listening = u.listening /\ (y.expired => u.expired)
              /\ y.made = u.made /\ y.channel = u.channel /\ y.epoll = u.epoll
              /\ y.state = u.state /\ y.fate = u.fate /\ y.sock = u.sock
            BY <3>2 DEF RetryTimer, Client
        <3> HIDE DEF y
        <3>5. /\ y.alive = x.alive /\ y.m_connect = x.m_connect
              /\ y.m_conn = x.m_conn /\ y.conn = x.conn /\ y.queue = x.queue
              /\ y.listening = x.listening /\ (y.expired => x.expired)
              /\ y.made = s /\ y.channel = x.channel /\ y.epoll = x.epoll
              /\ y.state = "Disconnected" /\ y.fate = x.fate
              /\ y.sock = [x.sock EXCEPT ![s] = "closed"]
            BY <3>2, <3>4 DEF Client
        <3> QED BY <1>1, <1>4, <2>1, <3>1, <3>3, <3>5
                DEF Started, Client, Attempt, Socks
    <2>4. CASE r = "other"
        <3> DEFINE y == [v EXCEPT !.sock[s] = "closed"]
        <3>1. connect(x, r) = y
            BY <2>4 DEF connect
        <3>2. y \in Client
            <4>1. [x.sock EXCEPT ![s] = "closed"]
                     \in [Socks -> Undecided \cup {"none", "closed", "conn"}]
                BY SockTyped
            <4>2. s \in Nat
                BY <1>1
            <4> HIDE DEF s
            <4> QED BY <4>1, <4>2 DEF Client
        <3>5. /\ y.alive = x.alive /\ y.m_connect = x.m_connect
              /\ y.m_conn = x.m_conn /\ y.conn = x.conn /\ y.queue = x.queue
              /\ y.listening = x.listening /\ (y.expired => x.expired)
              /\ y.made = s /\ y.channel = x.channel /\ y.epoll = x.epoll
              /\ y.state = x.state /\ y.fate = x.fate
              /\ y.sock = [x.sock EXCEPT ![s] = "closed"]
            BY DEF Client
        <3> HIDE DEF y
        <3> QED BY <1>1, <1>4, <2>1, <3>1, <3>2, <3>5
                DEF Started, Client, Attempt, Socks
    <2> QED BY <2>2, <2>3, <2>4 DEF Results
<1> QED BY <1>3, <1>4

-----------------------------------------------------------------------------
(* User code in a callback.                                                *)

\* Connections are left as they are, but for the start of a shutdown.
SameConns(x, y) ==
    \A k \in Socks :
        /\ y.conn[k].cb = x.conn[k].cb
        /\ y.conn[k].state \in Open <=> x.conn[k].state \in Open
        /\ x.conn[k].state \notin Open => y.conn[k].state = x.conn[k].state

\* A change of one connection's state leaves the others alone.
LEMMA StateTyped ==
    ASSUME NEW x \in Client, NEW s \in Socks,
           NEW v \in Open \cup {"none", "Disconnected", "Destroyed"},
           NEW y, y = [x EXCEPT !.conn[s].state = v]
    PROVE  /\ y \in Client
           /\ y = [x EXCEPT !.conn = y.conn]
           /\ \A k \in Socks :
                 /\ y.conn[k].cb = x.conn[k].cb
                 /\ y.conn[k].state = IF k = s THEN v ELSE x.conn[k].state
<1> DEFINE f == [x.conn EXCEPT ![s].state = v]
<1>1. x.conn \in [Socks -> ConnType]
    BY DEF Client
<1>2. f \in [Socks -> ConnType]
    BY <1>1 DEF ConnType
<1>3. \A k \in Socks : /\ f[k].cb = x.conn[k].cb
                       /\ f[k].state = IF k = s THEN v ELSE x.conn[k].state
    BY <1>1 DEF ConnType
<1>4. y = [x EXCEPT !.conn = f]
    BY DEF Client
<1> HIDE DEF f
<1>5. [x EXCEPT !.conn = f] \in Client /\ [x EXCEPT !.conn = f].conn = f
    BY <1>2 DEF Client
<1>6. y.conn = f
    BY <1>4, <1>5
<1> QED BY <1>2, <1>3, <1>4, <1>5, <1>6

\* shutdown() of a connection that is up, closed or absent.
LEMMA ShutdownKeeps ==
    ASSUME NEW x \in Client, NEW s \in Socks \cup {None}
    PROVE  /\ shutdown(x, s) \in Client
           /\ shutdown(x, s) = [x EXCEPT !.conn = shutdown(x, s).conn]
           /\ SameConns(x, shutdown(x, s))
<1>1. CASE s # None /\ x.conn[s].state = "Connected"
    <2>2. shutdown(x, s) = [x EXCEPT !.conn[s].state = "Disconnecting"]
        BY <1>1 DEF shutdown
    <2>3. shutdown(x, s) = [x EXCEPT !.conn = shutdown(x, s).conn]
        BY <2>2 DEF Client
    <2>4. x.conn \in [Socks -> ConnType] /\ "Disconnecting" \in Open
        BY DEF Client, Open
    <2> DEFINE f == [x.conn EXCEPT ![s].state = "Disconnecting"]
    <2>5. /\ f \in [Socks -> ConnType]
          /\ \A k \in Socks :
                /\ f[k].cb = x.conn[k].cb
                /\ f[k].state =
                       IF k = s THEN "Disconnecting" ELSE x.conn[k].state
        BY <2>4 DEF ConnType
    <2>6. shutdown(x, s) = [x EXCEPT !.conn = f]
        BY <2>2 DEF Client
    <2> HIDE DEF f
    <2>7. shutdown(x, s) \in Client /\ shutdown(x, s).conn = f
        BY <2>5, <2>6 DEF Client
    <2>8. SameConns(x, shutdown(x, s))
        BY <1>1, <2>4, <2>5, <2>7 DEF SameConns, Open
    <2> QED BY <2>3, <2>7, <2>8
<1>2. CASE ~(s # None /\ x.conn[s].state = "Connected")
    BY <1>2 DEF shutdown, SameConns, Client
<1> QED BY <1>1, <1>2

\* What a callback may do to a client.
Called(x, y) ==
    /\ y \in Client
    /\ y.alive = x.alive /\ y.m_conn = x.m_conn /\ y.queue = x.queue
    /\ y.listening = x.listening /\ y.made >= x.made
    /\ y.expired => x.expired
    /\ SameConns(x, y)
    /\ x.fate # "running" => y.fate # "running"
    /\ y.made <= MaxSockets /\ y.fate = "running" /\ Attempt(x) => Attempt(y)
    /\ x.state = "Connected" =>
          /\ y.state = "Connected" /\ y.epoll = x.epoll /\ y.sock = x.sock
          /\ y.channel = x.channel /\ y.made = x.made /\ y.fate = x.fate

\* User code in a callback: connect, disconnect, keep the connection.
LEMMA CallbackKeeps ==
    ASSUME NEW x \in Client, NEW s \in Socks, NEW op \in CallbackOps,
           NEW r \in Results
    PROVE  Called(x, callback(x, s, op, r))
<1>1. Called(x, x)
    BY DEF Called, SameConns, Client
<1>2. CASE op = "nothing"
    BY <1>1, <1>2 DEF callback
<1>3. CASE op = "keep"
    <2> DEFINE f == [x.conn EXCEPT ![s].held = TRUE]
               y == [x EXCEPT !.conn = f]
    <2>1. callback(x, s, op, r) = y
        BY <1>3 DEF callback, Client
    <2>2. x.conn \in [Socks -> ConnType]
        BY DEF Client
    <2>3. /\ f \in [Socks -> ConnType]
          /\ \A k \in Socks : /\ f[k].cb = x.conn[k].cb
                              /\ f[k].state = x.conn[k].state
        BY <2>2 DEF ConnType
    <2> HIDE DEF f
    <2>4. y \in Client
        BY <2>3 DEF Client
    <2>5. y.conn = f /\ y = [x EXCEPT !.conn = y.conn]
        BY <2>4 DEF Client
    <2> HIDE DEF y
    <2>6. SameConns(x, y)
        BY <2>3, <2>5 DEF SameConns
    <2>7. /\ y.alive = x.alive /\ y.m_conn = x.m_conn /\ y.queue = x.queue
          /\ y.listening = x.listening /\ y.made = x.made
          /\ y.expired = x.expired /\ y.fate = x.fate /\ y.state = x.state
          /\ y.epoll = x.epoll /\ y.sock = x.sock /\ y.channel = x.channel
          /\ x.made \in Nat
        BY <2>5 DEF Client
    <2>8. Attempt(x) => Attempt(y)
        BY <2>7 DEF Attempt
    <2> QED BY <2>1, <2>4, <2>6, <2>7, <2>8 DEF Called
<1>4. CASE op = "connect" /\ x.alive
    <2> DEFINE v == [x EXCEPT !.m_connect = TRUE, !.wants = TRUE]
               y == startInLoop(v, r)
    <2>1. callback(x, s, op, r) = y
        BY <1>4 DEF callback, clientConnect
    <2>2. v \in Client
        BY DEF Client
    <2>3. /\ v.alive = x.alive /\ v.m_conn = x.m_conn /\ v.queue = x.queue
          /\ v.conn = x.conn /\ v.listening = x.listening
          /\ v.made = x.made /\ v.expired = x.expired /\ v.fate = x.fate
          /\ v.state = x.state /\ v.epoll = x.epoll /\ v.sock = x.sock
          /\ v.channel = x.channel
        BY DEF Client
    <2> HIDE DEF v
    <2>4. /\ Started(v, y) /\ (v.state # "Disconnected" => y = v)
        BY <2>2, StartKeeps
    <2> HIDE DEF y
    <2>5. Attempt(x) => Attempt(v)
        BY <2>3 DEF Attempt
    <2>6. SameConns(x, y)
        BY <2>3, <2>4 DEF SameConns, Started
    <2>7. x.state = "Connected" => y = v
        BY <2>3, <2>4
    <2> QED BY <2>1, <2>3, <2>4, <2>5, <2>6, <2>7 DEF Called, Started
<1>5. CASE op = "disconnect" /\ x.alive /\ x.m_connect
    <2> DEFINE v == [x EXCEPT !.m_connect = FALSE]
               y == shutdown(v, x.m_conn)
    <2>1. callback(x, s, op, r) = y
        BY <1>5 DEF callback, disconnect
    <2>2. v \in Client /\ x.m_conn \in Socks \cup {None}
        BY DEF Client
    <2>3. /\ v.alive = x.alive /\ v.m_conn = x.m_conn /\ v.queue = x.queue
          /\ v.conn = x.conn /\ v.listening = x.listening
          /\ v.made = x.made /\ v.expired = x.expired /\ v.fate = x.fate
          /\ v.state = x.state /\ v.epoll = x.epoll /\ v.sock = x.sock
          /\ v.channel = x.channel
        BY DEF Client
    <2> HIDE DEF v
    <2>4. y \in Client /\ y = [v EXCEPT !.conn = y.conn] /\ SameConns(v, y)
        BY <2>2, ShutdownKeeps
    <2> HIDE DEF y
    <2>5. /\ v.alive = y.alive /\ v.m_conn = y.m_conn /\ v.queue = y.queue
          /\ v.listening = y.listening /\ v.made = y.made
          /\ v.expired = y.expired /\ v.fate = y.fate
          /\ v.state = y.state /\ v.epoll = y.epoll /\ v.sock = y.sock
          /\ v.channel = y.channel
        BY <2>2, <2>4 DEF Client
    <2>6. SameConns(x, y)
        BY <2>3, <2>4 DEF SameConns
    <2>7. x.made \in Nat
        BY DEF Client
    <2> QED BY <2>1, <2>3, <2>4, <2>5, <2>6, <2>7 DEF Called, Attempt
<1>6. CASE \/ op = "connect" /\ ~x.alive
           \/ op = "disconnect" /\ ~(x.alive /\ x.m_connect)
    BY <1>1, <1>6 DEF callback, disconnect
<1> QED BY <1>2, <1>3, <1>4, <1>5, <1>6 DEF CallbackOps

-----------------------------------------------------------------------------
(* A connection that closes.                                               *)

\* queueInLoop changes the queue alone.
LEMMA QueuedKeeps ==
    ASSUME NEW x \in Client, NEW op, NEW s, Functor(op, s) \in Functors
    PROVE  /\ Queued(x, op, s) \in Client
           /\ Queued(x, op, s) = [x EXCEPT !.queue = Queued(x, op, s).queue]
           /\ Queued(x, op, s).queue = Append(x.queue, Functor(op, s))
<1> DEFINE q == Append(x.queue, Functor(op, s))
<1>1. q \in Seq(Functors)
    BY Appended DEF Client
<1>2. Queued(x, op, s) = [x EXCEPT !.queue = q]
    BY DEF Queued, Client
<1> HIDE DEF q
<1>3. [x EXCEPT !.queue = q] \in Client /\ [x EXCEPT !.queue = q].queue = q
    BY <1>1 DEF Client
<1> QED BY <1>2, <1>3 DEF q

\* The first grief is the one that is kept.
LEMMA GriefKeeps ==
    ASSUME NEW x \in Client, NEW what \in Fates, what # "running"
    PROVE  /\ Grief(x, what) \in Client
           /\ Grief(x, what).fate # "running"
           /\ Grief(x, what).made = x.made
    BY DEF Grief, Client

\* The record removeConnection works on.
LEMMA RemovedKeeps ==
    ASSUME NEW x \in Client, NEW s \in Socks,
           NEW y, y = Queued([x EXCEPT !.m_conn = None], "connectDestroyed", s)
    PROVE  /\ y \in Client
           /\ y.alive = x.alive /\ y.m_connect = x.m_connect
           /\ y.m_conn = None /\ y.state = x.state /\ y.wants = x.wants
           /\ y.channel = x.channel /\ y.epoll = x.epoll /\ y.made = x.made
           /\ y.sock = x.sock /\ y.conn = x.conn /\ y.expired = x.expired
           /\ y.fate = x.fate
           /\ y.queue = Append(x.queue, Functor("connectDestroyed", s))
<1> DEFINE v == [x EXCEPT !.m_conn = None]
<1>1. v \in Client
    BY DEF Client
<1>2. /\ v.alive = x.alive /\ v.m_connect = x.m_connect
      /\ v.m_conn = None /\ v.state = x.state /\ v.wants = x.wants
      /\ v.channel = x.channel /\ v.epoll = x.epoll /\ v.made = x.made
      /\ v.sock = x.sock /\ v.conn = x.conn /\ v.expired = x.expired
      /\ v.fate = x.fate /\ v.queue = x.queue
    BY DEF Client
<1> HIDE DEF v
<1>3. Functor("connectDestroyed", s) \in Functors
    BY FunctorTypes DEF ConnOps
<1>4. /\ y \in Client /\ y = [v EXCEPT !.queue = y.queue]
      /\ y.queue = Append(v.queue, Functor("connectDestroyed", s))
    BY <1>1, <1>3, QueuedKeeps DEF v
<1>5. /\ v.alive = y.alive /\ v.m_connect = y.m_connect
      /\ v.m_conn = y.m_conn /\ v.state = y.state /\ v.wants = y.wants
      /\ v.channel = y.channel /\ v.epoll = y.epoll /\ v.made = y.made
      /\ v.sock = y.sock /\ v.conn = y.conn /\ v.expired = y.expired
      /\ v.fate = y.fate
    BY <1>1, <1>4 DEF Client
<1> QED BY <1>2, <1>4, <1>5

\* restart() of a connector whose connection is gone begins an attempt.
LEMMA RestartKeeps ==
    ASSUME NEW x \in Client, NEW r \in Results,
           NEW y, y = restart(x, r)
    PROVE  /\ y \in Client
           /\ y.alive = x.alive /\ y.m_connect = x.m_connect
           /\ y.m_conn = x.m_conn /\ y.conn = x.conn /\ y.queue = x.queue
           /\ y.made >= x.made
           /\ y.expired => x.expired
           /\ x.fate # "running" => y.fate # "running"
           /\ y.made <= MaxSockets /\ y.fate = "running" /\ Attempt(x) =>
                 /\ Attempt(y)
                 /\ \A s \in Socks : y.sock[s] = "conn" <=> x.sock[s] = "conn"
           /\ x.epoll = {} =>
                 /\ y.fate = x.fate /\ y.state # "Connected"
                 /\ y.epoll # {} <=> y.state = "Connecting"
<1> DEFINE v == [x EXCEPT !.state = "Disconnected", !.wants = TRUE]
<1>1. v \in Client
    BY DEF Client
<1>2. /\ v.alive = x.alive /\ v.m_connect = x.m_connect
      /\ v.m_conn = x.m_conn /\ v.conn = x.conn /\ v.queue = x.queue
      /\ v.made = x.made /\ v.expired = x.expired /\ v.fate = x.fate
      /\ v.epoll = x.epoll /\ v.channel = x.channel /\ v.sock = x.sock
      /\ v.state = "Disconnected"
    BY DEF Client
<1>3. y = startInLoop(v, r)
    BY DEF restart
<1> HIDE DEF v
<1>4. Attempt(x) => Attempt(v)
    BY <1>2 DEF Attempt
<1>5. /\ Started(v, y)
      /\ v.epoll = {} =>
            /\ y.fate = v.fate /\ y.state # "Connected"
            /\ y.epoll # {} <=> y.state = "Connecting"
    BY <1>1, <1>2, <1>3, StartKeeps
<1> QED BY <1>2, <1>4, <1>5 DEF Started

\* handleClose of the client's own connection, with removeConnection and the
\* reconnect after it.
LEMMA CloseKeeps ==
    ASSUME NEW x \in Client, NEW s \in Socks, NEW op \in CallbackOps,
           NEW r \in Results, NEW y, y = handleClose(x, s, op, r)
    PROVE  /\ y \in Client /\ y.made >= x.made
           /\ y.made <= MaxSockets /\ y.fate = "running" /\ Attempt(x) =>
                 Attempt(y)
<1> DEFINE u == [x EXCEPT !.conn[s].state = "Disconnected"]
           v == callback(u, s, op, r)
           q == Queued([v EXCEPT !.m_conn = None], "connectDestroyed", s)
<1>1. u \in Client /\ u = [x EXCEPT !.conn = u.conn]
    BY StateTyped
<1> HIDE DEF u
<1>2. u.made = x.made /\ (Attempt(x) => Attempt(u)) /\ x.made \in Nat
    BY <1>1 DEF Client, Attempt
<1>3. Called(u, v)
    BY <1>1, CallbackKeeps
<1>4. y = IF v.conn[s].cb = "client" THEN removeConnection(v, s, r)
          ELSE Queued(v, "connectDestroyed", s)
    BY DEF handleClose, u
<1> HIDE DEF v
<1>5. /\ v \in Client /\ v.made >= x.made /\ v.made \in Nat
      /\ v.made <= MaxSockets /\ v.fate = "running" /\ Attempt(x) => Attempt(v)
    BY <1>2, <1>3 DEF Called, Client
<1>6. CASE v.conn[s].cb # "client"
    <2>1. Functor("connectDestroyed", s) \in Functors
        BY FunctorTypes DEF ConnOps
    <2>2. y \in Client /\ y = [v EXCEPT !.queue = y.queue]
        BY <1>4, <1>5, <1>6, <2>1, QueuedKeeps
    <2>3. /\ y.made = v.made /\ y.fate = v.fate /\ y.epoll = v.epoll
          /\ y.channel = v.channel /\ y.sock = v.sock
        BY <1>5, <2>2 DEF Client
    <2>4. Attempt(v) => Attempt(y)
        BY <2>3 DEF Attempt
    <2> QED BY <1>5, <2>2, <2>3, <2>4
<1>7. CASE v.conn[s].cb = "client" /\ ~v.alive
    <2>1. y = Grief(v, "use after free")
        BY <1>4, <1>7 DEF removeConnection
    <2> QED BY <1>5, <2>1, GriefKeeps DEF Fates
<1>8. CASE v.conn[s].cb = "client" /\ v.alive
    <2>1. y = IF flags.retry /\ v.m_connect THEN restart(q, r) ELSE q
        BY <1>4, <1>8 DEF removeConnection
    <2>2. /\ q \in Client /\ q.made = v.made /\ q.fate = v.fate
          /\ q.epoll = v.epoll /\ q.channel = v.channel /\ q.sock = v.sock
        BY <1>5, RemovedKeeps
    <2> HIDE DEF q
    <2>3. Attempt(v) => Attempt(q)
        BY <2>2 DEF Attempt
    <2>4. CASE y = q
        BY <1>5, <2>2, <2>3, <2>4
    <2>5. CASE y = restart(q, r)
        <3>1. /\ y \in Client /\ y.made >= q.made /\ y.made \in Nat
              /\ q.fate # "running" => y.fate # "running"
              /\ y.made <= MaxSockets /\ y.fate = "running" /\ Attempt(q) =>
                    Attempt(y)
            BY <2>2, <2>5, RestartKeeps DEF Client
        <3> QED BY <1>2, <1>5, <2>2, <2>3, <3>1, BoundsAssumption
    <2> QED BY <2>1, <2>4, <2>5
<1> QED BY <1>6, <1>7, <1>8

\* Before the client is destroyed the connection that closes is m_conn; it
\* is closed once, and m_state is free for another attempt.
LEMMA OrderlyClose ==
    ASSUME NEW x \in Client, NEW s \in Socks, NEW op \in CallbackOps,
           NEW r \in Results, NEW y, y = handleClose(x, s, op, r),
           x.fate = "running", y.made <= MaxSockets,
           Attempt(x), Orderly(x), Falling(x), x.conn[s].state \in Open
    PROVE  /\ y.fate = "running" /\ Orderly(y) /\ Falling(y)
           /\ y.expired => x.expired
           /\ ResetPending(y) => ResetPending(x)
<1> DEFINE u == [x EXCEPT !.conn[s].state = "Disconnected"]
           v == callback(u, s, op, r)
           q == Queued([v EXCEPT !.m_conn = None], "connectDestroyed", s)
<1>1. /\ u \in Client /\ u = [x EXCEPT !.conn = u.conn]
      /\ \A k \in Socks :
            /\ u.conn[k].cb = x.conn[k].cb
            /\ u.conn[k].state = IF k = s THEN "Disconnected"
                                 ELSE x.conn[k].state
    <2>1. "Disconnected" \in Open \cup {"none", "Disconnected", "Destroyed"}
        OBVIOUS
    <2>2. PICK z : z = u
        OBVIOUS
    <2>3. z = [x EXCEPT !.conn[s].state = "Disconnected"]
        BY <2>2
    <2> HIDE DEF u
    <2>4. /\ z \in Client /\ z = [x EXCEPT !.conn = z.conn]
          /\ \A k \in Socks :
                /\ z.conn[k].cb = x.conn[k].cb
                /\ z.conn[k].state = IF k = s THEN "Disconnected"
                                     ELSE x.conn[k].state
        BY <2>1, <2>3, StateTyped
    <2> QED BY <2>2, <2>4
<1> HIDE DEF u
<1>2. /\ u.alive = x.alive /\ u.m_conn = x.m_conn /\ u.queue = x.queue
      /\ u.made = x.made /\ u.fate = x.fate /\ u.expired = x.expired
      /\ u.state = x.state /\ u.epoll = x.epoll /\ u.sock = x.sock
      /\ u.channel = x.channel
    BY <1>1 DEF Client
<1>3. s = x.m_conn /\ s # None /\ x.state = "Connected" /\ x.epoll = {}
      /\ x.alive
    BY BoundsAssumption DEF Orderly, Socks, None
<1>4. Called(u, v)
    BY <1>1, CallbackKeeps
<1>5. y = IF v.conn[s].cb = "client" THEN removeConnection(v, s, r)
          ELSE Queued(v, "connectDestroyed", s)
    BY DEF handleClose, u
<1> HIDE DEF v
<1>6. /\ v \in Client /\ v.alive /\ v.m_conn = s /\ v.queue = x.queue
      /\ v.made = x.made /\ v.fate = "running" /\ (v.expired => x.expired)
      /\ v.state = "Connected" /\ v.epoll = {} /\ v.sock = x.sock
      /\ v.channel = x.channel /\ SameConns(u, v)
    BY <1>2, <1>3, <1>4 DEF Called
<1>7. \A k \in Socks :
          /\ v.conn[k].cb = "client"
          /\ v.conn[k].state \notin Open
          /\ k # s => v.conn[k].state = x.conn[k].state
          /\ k = s => v.conn[k].state = "Disconnected"
          /\ v.sock[k] # "conn" => v.conn[k].state = "none"
    <2>1. \A k \in Socks : /\ u.conn[k].cb = "client"
                           /\ u.conn[k].state \notin Open
        BY <1>1, <1>3 DEF Orderly, Open
    <2>2. \A k \in Socks : /\ v.conn[k].cb = "client"
                           /\ v.conn[k].state = u.conn[k].state
        BY <1>6, <2>1 DEF SameConns
    <2>3. x.conn[s].state # "none"
        BY DEF Open
    <2> QED BY <1>1, <1>6, <2>1, <2>2, <2>3 DEF Orderly
<1>8. y = IF flags.retry /\ v.m_connect THEN restart(q, r) ELSE q
    BY <1>5, <1>6, <1>7 DEF removeConnection
<1>9. /\ q \in Client /\ q.alive /\ q.m_conn = None /\ q.state = "Connected"
      /\ q.channel = x.channel /\ q.epoll = {} /\ q.made = x.made
      /\ q.sock = x.sock /\ q.conn = v.conn /\ (q.expired => x.expired)
      /\ q.fate = "running"
      /\ q.queue = Append(x.queue, Functor("connectDestroyed", s))
    BY <1>6, RemovedKeeps
<1> HIDE DEF q
<1>10. /\ y \in Client /\ y.alive /\ y.m_conn = None /\ y.conn = v.conn
       /\ y.queue = q.queue /\ (y.expired => x.expired)
       /\ y.fate = "running" /\ (y.epoll # {} <=> y.state = "Connecting")
       /\ \A k \in Socks : y.sock[k] = "conn" <=> x.sock[k] = "conn"
    <2>1. Attempt(q)
        BY <1>3, <1>9 DEF Attempt
    <2>2. CASE y = q
        BY <1>9, <2>2
    <2>3. CASE y = restart(q, r)
        BY <1>9, <2>1, <2>3, RestartKeeps
    <2> QED BY <1>8, <2>2, <2>3
<1>11. /\ x.queue \in Seq(Functors)
       /\ Functor("connectDestroyed", s) \in Functors
       /\ Functor("connectDestroyed", s).op = "connectDestroyed"
       /\ Functor("connectDestroyed", s).conn = s
    BY FunctorTypes DEF Client, ConnOps
<1>12. /\ Len(x.queue) \in Nat /\ DOMAIN x.queue = 1..Len(x.queue)
       /\ DOMAIN y.queue = 1..Len(x.queue) + 1
       /\ \A k \in DOMAIN x.queue : y.queue[k] = x.queue[k]
       /\ y.queue[Len(x.queue) + 1] = Functor("connectDestroyed", s)
    BY <1>9, <1>10, <1>11, Appended
<1>13. Orderly(y)
    <2>1. \A k \in DOMAIN y.queue :
              y.queue[k].op \in OwnOps \cup {"connectDestroyed"}
        BY <1>11, <1>12 DEF Orderly
    <2>2. \A k \in Socks : k # None
        BY BoundsAssumption DEF Socks, None
    <2> QED BY <1>6, <1>7, <1>10, <2>1, <2>2 DEF Orderly
<1>14. Falling(y)
    <2>1. \A k \in DOMAIN x.queue :
              x.queue[k].op = "connectDestroyed" =>
                  /\ x.queue[k].conn \in Socks /\ x.queue[k].conn # s
                  /\ x.conn[x.queue[k].conn].state = "Disconnected"
        <3>1. \A k \in DOMAIN x.queue : x.queue[k] \in Functors
            BY <1>11
        <3> QED BY <3>1, FunctorTypes DEF Falling, ConnOps, Open
    <2>2. \A k \in DOMAIN y.queue :
              y.queue[k].op = "connectDestroyed" =>
                  y.conn[y.queue[k].conn].state = "Disconnected"
        <3> TAKE k \in DOMAIN y.queue
        <3>1. CASE k \in DOMAIN x.queue
            <4>1. y.queue[k] = x.queue[k]
                BY <1>12, <3>1
            <4> QED BY <1>7, <1>10, <2>1, <3>1, <4>1
        <3>2. CASE k = Len(x.queue) + 1
            BY <1>7, <1>10, <1>11, <1>12, <3>2
        <3> QED BY <1>12, <3>1, <3>2
    <2>3. \A k, l \in DOMAIN y.queue :
              /\ y.queue[k].op = "connectDestroyed"
              /\ y.queue[l].op = "connectDestroyed"
              /\ y.queue[k].conn = y.queue[l].conn
              => k = l
        <3>1. \A k \in DOMAIN y.queue :
                  k \in DOMAIN x.queue \/ k = Len(x.queue) + 1
            BY <1>12
        <3>2. \A k, l \in DOMAIN x.queue :
                  /\ x.queue[k].op = "connectDestroyed"
                  /\ x.queue[l].op = "connectDestroyed"
                  /\ x.queue[k].conn = x.queue[l].conn
                  => k = l
            BY DEF Falling
        <3>3. /\ \A k \in DOMAIN x.queue : y.queue[k] = x.queue[k]
              /\ y.queue[Len(x.queue) + 1].conn = s
            BY <1>11, <1>12
        <3> QED BY <2>1, <3>1, <3>2, <3>3
    <2> QED BY <2>2, <2>3 DEF Falling
<1>15. ResetPending(y) => ResetPending(x)
    BY <1>11, <1>12 DEF ResetPending, Range
<1> QED BY <1>10, <1>13, <1>14, <1>15

-----------------------------------------------------------------------------
(* A connect that is over.                                                 *)

\* timerDestroyed fails only when the retry timer has fired.
LEMMA TimerDestroyedKeeps ==
    ASSUME NEW x \in Client, NEW y, y = timerDestroyed(x)
    PROVE  /\ y \in Client
           /\ y.alive = x.alive /\ y.m_conn = x.m_conn /\ y.state = x.state
           /\ y.channel = x.channel /\ y.epoll = x.epoll /\ y.made = x.made
           /\ y.sock = x.sock /\ y.conn = x.conn /\ y.expired = x.expired
           /\ y.queue = x.queue
           /\ y.fate = "running" => x.fate = "running"
           /\ y.fate # "running" => x.fate # "running" \/ x.expired
<1>1. CASE x.listening /\ x.expired
    <2> DEFINE f == IF x.fate = "running" THEN "assert" ELSE x.fate
    <2>1. y = [x EXCEPT !.listening = FALSE, !.fate = f]
        BY <1>1 DEF timerDestroyed, Grief, Client
    <2>2. f \in Fates /\ f # "running"
        BY DEF Fates, Client
    <2> HIDE DEF f
    <2> QED BY <1>1, <2>1, <2>2 DEF Client
<1>2. CASE ~(x.listening /\ x.expired)
    <2>1. y = [x EXCEPT !.listening = FALSE]
        BY <1>2 DEF timerDestroyed
    <2> QED BY <2>1 DEF Client
<1> QED BY <1>1, <1>2

\* removeAndResetChannel takes the channel from the epoll set and queues its
\* reset.
LEMMA RemoveAndResetKeeps ==
    ASSUME NEW x \in Client, NEW y, y = removeAndResetChannel(x)
    PROVE  /\ y \in Client
           /\ y = [x EXCEPT !.epoll = @ \ {x.channel}, !.queue = y.queue]
           /\ y.epoll = x.epoll \ {x.channel}
           /\ y.queue = Append(x.queue, Functor("resetChannel", None))
<1> DEFINE e == x.epoll \ {x.channel}
           v == [x EXCEPT !.epoll = e]
<1>1. v \in Client /\ v.epoll = e /\ v.queue = x.queue
    BY DEF Client
<1>2. y = Queued(v, "resetChannel", None)
    BY DEF removeAndResetChannel
<1>3. Functor("resetChannel", None) \in Functors
    BY FunctorTypes DEF OwnOps
<1> HIDE DEF v, e
<1>4. /\ y \in Client /\ y = [v EXCEPT !.queue = y.queue]
      /\ y.queue = Append(v.queue, Functor("resetChannel", None))
    <2>1. LET z == Queued(v, "resetChannel", None)
          IN  /\ z \in Client /\ z = [v EXCEPT !.queue = z.queue]
              /\ z.queue = Append(v.queue, Functor("resetChannel", None))
        BY <1>1, <1>3, QueuedKeeps
    <2> QED BY <1>2, <2>1
<1>5. y.epoll = v.epoll /\ y = [x EXCEPT !.epoll = e, !.queue = y.queue]
    BY <1>1, <1>4 DEF v, Client
<1> QED BY <1>1, <1>4, <1>5 DEF e, Client

\* The functors are those of before and a resetChannel.
LEMMA ResetQueued ==
    ASSUME NEW x \in Client, NEW y,
           y.queue = Append(x.queue, Functor("resetChannel", None))
    PROVE  /\ \A k \in DOMAIN y.queue :
                 \/ k \in DOMAIN x.queue /\ y.queue[k] = x.queue[k]
                 \/ y.queue[k].op = "resetChannel"
           /\ \A k \in DOMAIN x.queue : x.queue[k] \in Functors
<1>1. /\ x.queue \in Seq(Functors)
      /\ Functor("resetChannel", None) \in Functors
      /\ Functor("resetChannel", None).op = "resetChannel"
    BY FunctorTypes DEF Client, OwnOps
<1>2. /\ Len(x.queue) \in Nat /\ DOMAIN x.queue = 1..Len(x.queue)
      /\ DOMAIN y.queue = 1..Len(x.queue) + 1
      /\ \A k \in DOMAIN x.queue : y.queue[k] = x.queue[k]
      /\ y.queue[Len(x.queue) + 1] = Functor("resetChannel", None)
    BY <1>1, Appended
<1> QED BY <1>1, <1>2

\* handleWrite on a connected socket, with newConnection and its callback.
LEMMA ConnectedKeeps ==
    ASSUME NEW x \in Client, NEW op \in CallbackOps, NEW r \in Results,
           NEW y, y = handleConnected(x, op, r),
           x.fate = "running", x.made <= MaxSockets, Attempt(x),
           x.channel \in x.epoll
    PROVE  /\ y \in Client
           /\ y.fate = "running" => Attempt(y) /\ y.epoll = {}
           /\ y.expired => x.expired
           /\ Orderly(x) /\ Falling(x) =>
                 IF y.fate = "running" THEN Orderly(y) /\ Falling(y)
                 ELSE x.expired
<1> DEFINE s == x.channel
           p == removeAndResetChannel(x)
           a == [p EXCEPT !.state = "Connected"]
<1>1. s \in Socks /\ s <= x.made /\ x.epoll = {s} /\ x.sock[s] \in Undecided
    BY DEF Attempt
<1>2. /\ p \in Client
      /\ p = [x EXCEPT !.epoll = @ \ {x.channel}, !.queue = p.queue]
      /\ p.epoll = x.epoll \ {x.channel}
      /\ p.queue = Append(x.queue, Functor("resetChannel", None))
    BY RemoveAndResetKeeps
<1> HIDE DEF p
<1>3. /\ a \in Client
      /\ a.alive = x.alive /\ a.m_conn = x.m_conn /\ a.state = "Connected"
      /\ a.channel = x.channel /\ a.epoll = {} /\ a.made = x.made
      /\ a.sock = x.sock /\ a.conn = x.conn /\ a.expired = x.expired
      /\ a.fate = "running" /\ a.wants = x.wants /\ a.queue = p.queue
    <2>1. p.epoll = {}
        BY <1>1, <1>2
    <2> QED BY <1>2, <2>1 DEF Client
<1>4. y = timerDestroyed(IF a.wants THEN newConnection(a, s, op, r)
                         ELSE [a EXCEPT !.sock[s] = "closed"])
    BY DEF handleConnected, p
<1> HIDE DEF a
<1>5. ASSUME NEW z \in Client, y = timerDestroyed(z),
             z.alive = x.alive, z.state = "Connected", z.epoll = {},
             z.made = x.made, z.queue = p.queue, z.expired => x.expired,
             z.fate = "running",
             \A k \in Socks : k # s => z.sock[k] = x.sock[k],
             \/ z.sock[s] = "closed" /\ z.m_conn = x.m_conn /\ z.conn = x.conn
             \/ /\ z.sock[s] = "conn" /\ z.m_conn = s
                /\ z.conn[s].state \in Open /\ z.conn[s].cb = x.conn[s].cb
                /\ \A k \in Socks \ {s} :
                      /\ z.conn[k].cb = x.conn[k].cb
                      /\ z.conn[k].state \in Open <=> x.conn[k].state \in Open
                      /\ x.conn[k].state \notin Open =>
                             z.conn[k].state = x.conn[k].state
      PROVE  /\ y \in Client
             /\ y.fate = "running" => Attempt(y) /\ y.epoll = {}
             /\ y.expired => x.expired
             /\ Orderly(x) /\ Falling(x) =>
                   IF y.fate = "running" THEN Orderly(y) /\ Falling(y)
                   ELSE x.expired
    <2>1. /\ y \in Client
          /\ y.alive = z.alive /\ y.m_conn = z.m_conn /\ y.state = z.state
          /\ y.channel = z.channel /\ y.epoll = z.epoll /\ y.made = z.made
          /\ y.sock = z.sock /\ y.conn = z.conn /\ y.expired = z.expired
          /\ y.queue = z.queue
          /\ y.fate # "running" => z.expired
        BY <1>5, TimerDestroyedKeeps
    <2>2. Attempt(y)
        BY <1>1, <1>5, <2>1 DEF Attempt
    <2>3. ASSUME Orderly(x), Falling(x) PROVE Orderly(y) /\ Falling(y)
        <3>1. /\ x.state = "Connecting" /\ x.m_conn = None /\ x.alive
              /\ x.conn[s].state = "none"
            BY <1>1, <2>3 DEF Orderly, Undecided
        <3>2. \A k \in Socks : k # None /\ x.conn[k].state \notin Open
            BY <2>3, <3>1, BoundsAssumption DEF Orderly, Socks, None
        <3>3. /\ \A k \in DOMAIN y.queue :
                 \/ k \in DOMAIN x.queue /\ y.queue[k] = x.queue[k]
                 \/ y.queue[k].op = "resetChannel"
              /\ \A k \in DOMAIN x.queue : x.queue[k] \in Functors
            BY <1>2, <1>5, <2>1, ResetQueued
        <3>4. \A k \in DOMAIN y.queue :
                  y.queue[k].op \in OwnOps \cup {"connectDestroyed"}
            BY <2>3, <3>3 DEF Orderly, OwnOps
        <3>5. \A k \in Socks : y.conn[k].cb = "client"
            BY <1>5, <2>1, <2>3 DEF Orderly
        <3>6. \A k \in Socks : y.conn[k].state \in Open <=> k = y.m_conn
            BY <1>1, <1>5, <2>1, <3>1, <3>2
        <3>7. \A k \in Socks : y.sock[k] # "conn" => y.conn[k].state = "none"
            BY <1>5, <2>1, <2>3, <3>1, <3>2 DEF Orderly
        <3>8. Orderly(y)
            BY <1>5, <2>1, <3>1, <3>4, <3>5, <3>6, <3>7 DEF Orderly
        <3>9. \A k \in Socks : x.conn[k].state = "Disconnected" =>
                                   y.conn[k].state = "Disconnected"
            BY <1>5, <2>1, <3>1, <3>2
        <3>10. Falling(y)
            <4>1. \A k \in DOMAIN x.queue :
                      x.queue[k].op = "connectDestroyed" =>
                          x.queue[k].conn \in Socks
                BY <3>3, FunctorTypes DEF ConnOps
            <4> QED BY <2>3, <3>3, <3>9, <4>1 DEF Falling
        <3> QED BY <3>8, <3>10
    <2> QED BY <1>5, <2>1, <2>2, <2>3
<1>6. CASE ~x.wants
    <2> DEFINE z == [a EXCEPT !.sock[s] = "closed"]
               g == [a.sock EXCEPT ![s] = "closed"]
    <2>1. y = timerDestroyed(z)
        BY <1>3, <1>4, <1>6
    <2>2. /\ g \in [Socks -> Undecided \cup {"none", "closed", "conn"}]
          /\ g[s] = "closed" /\ \A k \in Socks : k # s => g[k] = x.sock[k]
        BY <1>1, <1>3, SockTyped DEF Client
    <2>3. z = [a EXCEPT !.sock = g]
        BY <1>3 DEF Client
    <2> HIDE DEF g, z
    <2>4. /\ z \in Client
          /\ z.alive = a.alive /\ z.m_conn = a.m_conn /\ z.state = a.state
          /\ z.epoll = a.epoll /\ z.made = a.made /\ z.sock = g
          /\ z.conn = a.conn /\ z.expired = a.expired /\ z.fate = a.fate
          /\ z.queue = a.queue
        BY <1>3, <2>2, <2>3 DEF Client
    <2> QED BY <1>3, <1>5, <2>1, <2>2, <2>4
<1>7. CASE x.wants /\ ~x.alive
    <2>1. y = timerDestroyed(Grief(a, "use after free"))
        BY <1>3, <1>4, <1>7 DEF newConnection
    <2>2. /\ Grief(a, "use after free") \in Client
          /\ Grief(a, "use after free").fate # "running"
        BY <1>3, GriefKeeps DEF Fates
    <2>3. Grief(a, "use after free").expired = x.expired
        BY <1>3 DEF Grief, Client
    <2>4. /\ y \in Client /\ y.fate # "running" /\ (y.expired => x.expired)
        BY <2>1, <2>2, <2>3, TimerDestroyedKeeps
    <2> QED BY <1>7, <2>4 DEF Orderly
<1>8. CASE x.wants /\ x.alive
    <2> DEFINE b == [a EXCEPT !.sock[s] = "conn", !.m_conn = s,
                              !.conn[s].state = "Connected"]
               z == callback(b, s, op, r)
               g == [a.sock EXCEPT ![s] = "conn"]
               f == [a.conn EXCEPT ![s].state = "Connected"]
    <2>1. y = timerDestroyed(z)
        BY <1>3, <1>4, <1>8 DEF newConnection
    <2>2. /\ g \in [Socks -> Undecided \cup {"none", "closed", "conn"}]
          /\ g[s] = "conn" /\ \A k \in Socks : k # s => g[k] = x.sock[k]
        BY <1>1, <1>3, SockTyped DEF Client
    <2>3. /\ f \in [Socks -> ConnType]
          /\ f[s].state = "Connected" /\ f[s].cb = x.conn[s].cb
          /\ \A k \in Socks : k # s => f[k] = x.conn[k]
        <3>1. a.conn \in [Socks -> ConnType] /\ a.conn = x.conn
            BY <1>3 DEF Client
        <3> QED BY <1>1, <3>1 DEF ConnType, Open
    <2>4. b = [a EXCEPT !.sock = g, !.m_conn = s, !.conn = f]
        BY <1>3 DEF Client
    <2> HIDE DEF g, f, b
    <2>5. /\ b \in Client
          /\ b.alive = a.alive /\ b.m_conn = s /\ b.state = a.state
          /\ b.epoll = a.epoll /\ b.made = a.made /\ b.sock = g
          /\ b.conn = f /\ b.expired = a.expired /\ b.fate = a.fate
          /\ b.queue = a.queue
        BY <1>1, <1>3, <2>2, <2>3, <2>4 DEF Client
    <2>6. Called(b, z)
        BY <1>1, <2>5, CallbackKeeps
    <2> HIDE DEF z
    <2>7. /\ z \in Client /\ z.alive = x.alive /\ z.state = "Connected"
          /\ z.epoll = {} /\ z.made = x.made /\ z.queue = p.queue
          /\ (z.expired => x.expired) /\ z.fate = "running"
          /\ z.m_conn = s /\ z.sock = g /\ SameConns(b, z)
        BY <1>3, <2>5, <2>6 DEF Called
    <2>8. /\ z.conn[s].state \in Open /\ z.conn[s].cb = x.conn[s].cb
          /\ \A k \in Socks \ {s} :
                /\ z.conn[k].cb = x.conn[k].cb
                /\ z.conn[k].state \in Open <=> x.conn[k].state \in Open
                /\ x.conn[k].state \notin Open =>
                       z.conn[k].state = x.conn[k].state
        BY <1>1, <2>3, <2>5, <2>7 DEF SameConns, Open
    <2> QED BY <1>5, <2>1, <2>2, <2>7, <2>8
<1> QED BY <1>6, <1>7, <1>8

-----------------------------------------------------------------------------
(* Steps that leave the client to be used or destroyed as before.          *)

\* What a step of any thread has to show.
LEMMA AnyStepKeeps ==
    ASSUME IInv, NEW x \in Client, NEW c \in SUBSET Causes, Becomes(x, c),
           pc' \in [Threads -> ThreadType],
           x.fate = "running" => Attempt(x),
           x.fate # "running" => h.causes # {} \/ c # {},
           x.fate = "running" /\ Usable' => Orderly(x) /\ Falling(x),
           h.causes = {} /\ c = {} =>
               /\ x.expired => w.expired
               /\ ResetPending(x) => ResetPending(w) \/ x.epoll = {},
           h.causes = {} /\ c = {} /\ ~Usable' =>
               Quiet(x) /\ Falling(x) /\ QuietThreads'
    PROVE  IInv'
<1> DEFINE more == {"connect before reset" :
                       s \in {v \in x.epoll \ w.epoll : ResetPending(x)}}
<1>1. /\ w.fate = "running" /\ x.made <= MaxSockets /\ w' = x
      /\ h' = [h EXCEPT !.causes = @ \cup c \cup more,
                        !.disconnected = @ \/ (w.m_connect /\ ~x.m_connect)]
    BY DEF Becomes
<1>2. h \in [causes : SUBSET Causes, disconnected : BOOLEAN]
    BY DEF IInv
<1>3. /\ h'.causes = h.causes \cup c \cup more
      /\ h' \in [causes : SUBSET Causes, disconnected : BOOLEAN]
    <2>1. more \in SUBSET Causes
        <3>1. \A m \in more : m = "connect before reset"
            OBVIOUS
        <3> HIDE DEF more
        <3> QED BY <3>1 DEF Causes
    <2> HIDE DEF more
    <2>2. h'.causes = h.causes \cup c \cup more
        BY <1>1, <1>2
    <2>3. h.causes \cup c \cup more \in SUBSET Causes
        BY <1>2, <2>1
    <2> DEFINE d == h.disconnected \/ (w.m_connect /\ ~x.m_connect)
               e == h.causes \cup c \cup more
    <2>4. d \in BOOLEAN /\ e \in SUBSET Causes
        BY <2>3
    <2>5. h' = [h EXCEPT !.causes = e, !.disconnected = d]
        BY <1>1, <1>2
    <2> HIDE DEF d, e
    <2>6. h' \in [causes : SUBSET Causes, disconnected : BOOLEAN]
        BY <1>2, <2>4, <2>5
    <2> QED BY <2>2, <2>6
<1>4. ASSUME h'.causes = {}
      PROVE  /\ h.causes = {} /\ c = {}
             /\ ResetPending(x) => x.epoll \subseteq w.epoll
    BY <1>3, <1>4
<1>5. ASSUME h'.causes = {}, x.fate = "running" PROVE Blameless(x)
    BY <1>1, <1>4, <1>5 DEF IInv, Blameless
<1>6. x.fate # "running" => h'.causes # {}
    <2> SUFFICES ASSUME x.fate # "running", h'.causes = {} PROVE FALSE
        OBVIOUS
    <2> QED BY <1>4
<1> HIDE DEF more
<1>7. /\ Attempt(w') = Attempt(x) /\ Orderly(w') = Orderly(x)
      /\ Falling(w') = Falling(x) /\ Blameless(w') = Blameless(x)
      /\ Quiet(w') = Quiet(x)
    BY <1>1
<1>8. GriefIsKnown'
    BY <1>1, <1>6 DEF GriefIsKnown
<1> QED BY <1>1, <1>3, <1>4, <1>5, <1>7, <1>8 DEF IInv

\* What is left to show of a step that begins no destructor.
LEMMA StepKeeps ==
    ASSUME IInv, NEW x \in Client, NEW c \in SUBSET Causes, Becomes(x, c),
           pc' \in [Threads -> ThreadType], Usable' <=> Usable,
           x.fate = "running" => Attempt(x),
           Usable => IF x.fate = "running" THEN Orderly(x) /\ Falling(x)
                     ELSE h.causes # {} \/ c # {},
           h.causes = {} /\ c = {} =>
               /\ x.expired => w.expired
               /\ ResetPending(x) => ResetPending(w) \/ x.epoll = {},
           h.causes = {} /\ c = {} /\ ~Usable =>
               x.fate = "running" /\ Quiet(x) /\ Falling(x) /\ QuietThreads'
    PROVE  IInv'
<1> QED BY AnyStepKeeps

\* startInLoop keeps an orderly client orderly.
LEMMA OrderlyStart ==
    ASSUME NEW x \in Client, NEW r \in Results, x.fate = "running",
           Attempt(x), Orderly(x), Falling(x),
           NEW y, y = startInLoop(x, r), y.made <= MaxSockets
    PROVE  y.fate = "running" /\ Orderly(y) /\ Falling(y)
<1>1. /\ Started(x, y) /\ (x.state # "Disconnected" => y = x)
      /\ x.state = "Disconnected" /\ x.epoll = {} =>
            /\ y.fate = x.fate /\ y.state # "Connected"
            /\ y.epoll # {} <=> y.state = "Connecting"
    BY StartKeeps
<1>2. CASE x.state # "Disconnected"
    BY <1>1, <1>2
<1>3. CASE x.state = "Disconnected"
    <2>1. x.epoll = {} /\ x.m_conn = None
        BY <1>3 DEF Orderly
    <2> QED BY <1>1, <1>3, <2>1 DEF Started, Orderly, Falling
<1> QED BY <1>2, <1>3

\* A functor is taken off the queue.
LEMMA PoppedKeeps ==
    ASSUME w \in Client, w.queue # <<>>
    PROVE  /\ Popped \in Client
           /\ Popped = [w EXCEPT !.queue = Popped.queue]
           /\ \A k \in DOMAIN Popped.queue :
                 /\ k \in Nat /\ k # 0 /\ k + 1 \in DOMAIN w.queue
                 /\ Popped.queue[k] = w.queue[k + 1]
           /\ Head(w.queue) = w.queue[1] /\ 1 \in DOMAIN w.queue
           /\ Head(w.queue) \in Functors
           /\ Attempt(w) => Attempt(Popped)
           /\ Orderly(w) => Orderly(Popped)
           /\ Falling(w) => Falling(Popped)
           /\ ResetPending(Popped) => ResetPending(w)
<1> DEFINE q == Tail(w.queue)
<1>1. /\ q \in Seq(Functors) /\ Head(w.queue) = w.queue[1]
      /\ Head(w.queue) \in Functors /\ 1 \in DOMAIN w.queue
      /\ \A k \in DOMAIN q : /\ k \in Nat /\ k + 1 \in DOMAIN w.queue
                             /\ k # 0 /\ q[k] = w.queue[k + 1]
    <2>1. w.queue \in Seq(Functors)
        BY DEF Client
    <2> QED BY <2>1, Tailed
<1>2. Popped = [w EXCEPT !.queue = q]
    BY DEF Popped
<1> HIDE DEF q
<1>3. /\ Popped \in Client /\ Popped.queue = q
      /\ Popped.alive = w.alive /\ Popped.m_conn = w.m_conn
      /\ Popped.state = w.state /\ Popped.channel = w.channel
      /\ Popped.epoll = w.epoll /\ Popped.made = w.made
      /\ Popped.sock = w.sock /\ Popped.conn = w.conn
    BY <1>1, <1>2 DEF Client
<1>4. Attempt(w) => Attempt(Popped)
    BY <1>3 DEF Attempt
<1>5. Orderly(w) => Orderly(Popped)
    BY <1>1, <1>3 DEF Orderly
<1>6. Falling(w) => Falling(Popped)
    BY <1>1, <1>3 DEF Falling
<1>7. ResetPending(Popped) => ResetPending(w)
    BY <1>1, <1>3 DEF ResetPending, Range
<1> QED BY <1>1, <1>2, <1>3, <1>4, <1>5, <1>6, <1>7

\* The retry timer fires.
LEMMA RetryFiresKeeps ==
    ASSUME IInv, NEW r \in Results, RetryFires(r) PROVE IInv'
<1> DEFINE v == [w EXCEPT !.retries = @ - 1, !.expired = TRUE]
           y == IF w.alive THEN startInLoop(v, r)
                ELSE Grief(startInLoop(w, r), "use after free")
<1>1. /\ LoopStep(y, {"retried"}) /\ w.retries \in Nat /\ w.retries > 0
      /\ {"retried"} \in SUBSET Causes /\ {"retried"} # {}
    <2>1. w.retries \in Nat
        BY DEF IInv, Client
    <2>2. w.retries > IF ResetPending(w) THEN 1 ELSE 0
        BY DEF RetryFires
    <2>5. w.retries > 0
        BY <2>1, <2>2
    <2>3. LoopStep(y, {"retried"})
        BY DEF RetryFires
    <2>4. {"retried"} \in SUBSET Causes /\ {"retried"} # {}
        BY DEF Causes
    <2> QED BY <2>1, <2>3, <2>4, <2>5
<1>2. /\ Becomes(y, {"retried"}) /\ pc' = pc /\ w.fate = "running"
      /\ y.made <= MaxSockets /\ w \in Client /\ Attempt(w)
      /\ Usable => Orderly(w) /\ Falling(w)
    BY <1>1 DEF LoopStep, Becomes, IInv
<1>3. /\ Usable' <=> Usable
      /\ pc' \in [Threads -> ThreadType]
    BY <1>2 DEF Usable, IInv
<1>4. CASE w.alive
    <2>1. y = startInLoop(v, r)
        BY <1>4
    <2>2. v \in Client
        <3>1. w.retries \in Nat /\ w.retries > 0
            BY <1>1
        <3>2. w.retries - 1 \in Nat
            BY <3>1
        <3> QED BY <1>2, <3>2 DEF Client
    <2>3. /\ v.alive = w.alive /\ v.m_conn = w.m_conn /\ v.queue = w.queue
          /\ v.conn = w.conn /\ v.made = w.made /\ v.fate = w.fate
          /\ v.state = w.state /\ v.epoll = w.epoll /\ v.sock = w.sock
          /\ v.channel = w.channel
        BY <1>2 DEF Client
    <2> HIDE DEF v
    <2>4. /\ Attempt(v) /\ (Usable => Orderly(v) /\ Falling(v))
        <3>1. Attempt(v)
            BY <1>2, <2>3 DEF Attempt
        <3>2. Orderly(w) => Orderly(v)
            BY <2>3 DEF Orderly
        <3>3. Falling(w) => Falling(v)
            BY <2>3 DEF Falling
        <3> QED BY <1>2, <3>1, <3>2, <3>3
    <2>5. Started(v, y)
        BY <2>1, <2>2, StartKeeps
    <2>6. Usable => y.fate = "running" /\ Orderly(y) /\ Falling(y)
        BY <1>2, <2>1, <2>2, <2>3, <2>4, OrderlyStart
    <2>7. y \in Client /\ (y.fate = "running" => Attempt(y))
        BY <1>2, <2>4, <2>5 DEF Started
    <2> HIDE DEF y
    <2> QED BY <1>1, <1>2, <1>3, <2>6, <2>7, StepKeeps
<1>5. CASE ~w.alive
    <2>1. startInLoop(w, r) \in Client
        BY <1>2, StartKeeps DEF Started
    <2>2. y \in Client /\ y.fate # "running"
        BY <1>5, <2>1, GriefKeeps DEF Fates
    <2> HIDE DEF y
    <2> QED BY <1>1, <1>2, <1>3, <2>2, StepKeeps
<1> QED BY <1>4, <1>5

\* A step of the loop's thread that runs a functor.
LEMMA FunctorSteps ==
    ASSUME IInv, NEW op, Running(op), NEW y \in Client, LoopStep(y, {}),
           op \in OwnOps \cup {"connectDestroyed"} /\ h.causes = {} =>
               /\ y.expired => w.expired
               /\ ResetPending(y) => ResetPending(w) \/ y.epoll = {},
           y.fate = "running" => Attempt(y),
           op \in OwnOps \cup {"connectDestroyed"} /\ Orderly(w) /\ Falling(w) =>
               IF y.fate = "running" THEN Orderly(y) /\ Falling(y)
               ELSE h.causes # {},
           op = "connectDestroyed" /\ Quiet(w) /\ Falling(w) =>
               y.fate = "running" /\ Quiet(y) /\ Falling(y)
    PROVE  IInv'
<1>1. /\ Becomes(y, {}) /\ pc' = pc /\ w.fate = "running"
      /\ w \in Client /\ w.queue # <<>> /\ Head(w.queue).op = op
      /\ Usable => Orderly(w) /\ Falling(w)
      /\ h.causes = {} /\ ~Usable => Quiet(w) /\ Falling(w) /\ QuietThreads
    BY DEF LoopStep, Becomes, IInv, Running
<1>2. /\ Usable' <=> Usable
      /\ pc' \in [Threads -> ThreadType]
      /\ QuietThreads => QuietThreads'
    BY <1>1 DEF Usable, IInv, QuietThreads
<1>3. Head(w.queue) = w.queue[1] /\ 1 \in DOMAIN w.queue
    BY <1>1, PoppedKeeps
<1>4. Usable => op \in OwnOps \cup {"connectDestroyed"}
    BY <1>1, <1>3 DEF Orderly
<1>5. h.causes = {} /\ ~Usable => op = "connectDestroyed"
    BY <1>1, <1>3 DEF Quiet
<1>6. {} \in SUBSET Causes
    OBVIOUS
<1> DEFINE c == {}
<1>7. /\ Usable => IF y.fate = "running" THEN Orderly(y) /\ Falling(y)
                   ELSE h.causes # {} \/ c # {}
      /\ h.causes = {} /\ c = {} /\ ~Usable =>
            y.fate = "running" /\ Quiet(y) /\ Falling(y) /\ QuietThreads'
      /\ h.causes = {} /\ c = {} =>
            /\ y.expired => w.expired
            /\ ResetPending(y) => ResetPending(w) \/ y.epoll = {}
    BY <1>1, <1>2, <1>4, <1>5
<1>8. Becomes(y, c) /\ c \in SUBSET Causes
    BY <1>1, <1>6
<1> HIDE DEF c
<1> QED BY <1>2, <1>7, <1>8, StepKeeps

\* The functor of a connect() of another thread.
LEMMA RunStartInLoopKeeps ==
    ASSUME IInv, NEW r \in Results, RunStartInLoop(r) PROVE IInv'
<1> DEFINE y == IF ConnectorAlive(w) THEN startInLoop(Popped, r)
                ELSE Grief(Popped, "use after free")
<1>1. Running("startInLoop") /\ LoopStep(y, {})
    BY DEF RunStartInLoop
<1>2. /\ w \in Client /\ w.queue # <<>> /\ w.fate = "running" /\ Attempt(w)
      /\ y.made <= MaxSockets
    BY <1>1 DEF Running, LoopStep, Becomes, IInv
<1>3. /\ Popped \in Client /\ Popped = [w EXCEPT !.queue = Popped.queue]
      /\ Attempt(Popped)
      /\ Orderly(w) => Orderly(Popped)
      /\ Falling(w) => Falling(Popped)
      /\ ResetPending(Popped) => ResetPending(w)
    BY <1>2, PoppedKeeps
<1>4. Popped.expired = w.expired /\ Popped.fate = w.fate
    BY <1>2, <1>3 DEF Client
<1>5. CASE ConnectorAlive(w)
    <2>1. y = startInLoop(Popped, r)
        BY <1>5
    <2>2. Started(Popped, y)
        BY <1>3, <2>1, StartKeeps
    <2>3. Orderly(w) /\ Falling(w) =>
              y.fate = "running" /\ Orderly(y) /\ Falling(y)
        BY <1>2, <1>3, <1>4, <2>1, OrderlyStart
    <2>4. /\ y \in Client /\ (y.fate = "running" => Attempt(y))
          /\ y.expired => w.expired
          /\ ResetPending(y) => ResetPending(w)
        BY <1>2, <1>3, <1>4, <2>2 DEF Started, ResetPending
    <2> HIDE DEF y
    <2> QED BY <1>1, <2>3, <2>4, FunctorSteps
<1>6. CASE ~ConnectorAlive(w)
    <2>1. y = Grief(Popped, "use after free")
        BY <1>6
    <2>2. y \in Client /\ y.fate # "running"
        BY <1>3, <2>1, GriefKeeps DEF Fates
    <2>3. y.queue = Popped.queue /\ y.expired = Popped.expired
        BY <1>3, <2>1 DEF Grief, Client
    <2>4. ~Orderly(w)
        BY <1>6 DEF ConnectorAlive, Orderly
    <2>5. ResetPending(y) => ResetPending(w)
        BY <1>3, <2>3 DEF ResetPending
    <2> HIDE DEF y
    <2> QED BY <1>1, <1>4, <2>2, <2>3, <2>4, <2>5, FunctorSteps
<1> QED BY <1>5, <1>6

\* The functor of resetChannel.
LEMMA RunResetChannelKeeps == ASSUME IInv, RunResetChannel PROVE IInv'
<1> DEFINE y == IF ConnectorAlive(w) THEN NewChannelValue(Popped, None)
                ELSE Grief(Popped, "use after free")
<1>1. Running("resetChannel") /\ LoopStep(y, {})
    BY DEF RunResetChannel
<1>2. /\ w \in Client /\ w.queue # <<>> /\ w.fate = "running" /\ Attempt(w)
      /\ h.causes = {} => Blameless(w)
    BY <1>1 DEF Running, LoopStep, Becomes, IInv
<1>3. /\ Popped \in Client /\ Popped = [w EXCEPT !.queue = Popped.queue]
      /\ Attempt(Popped)
      /\ Orderly(w) => Orderly(Popped)
      /\ Falling(w) => Falling(Popped)
      /\ ResetPending(Popped) => ResetPending(w)
      /\ Head(w.queue) = w.queue[1] /\ 1 \in DOMAIN w.queue
    BY <1>2, PoppedKeeps
<1>4. /\ Popped.expired = w.expired /\ Popped.fate = "running"
      /\ Popped.epoll = w.epoll /\ Popped.channel = w.channel
    BY <1>2, <1>3 DEF Client
<1>5. h.causes = {} => w.epoll = {}
    BY <1>1, <1>2, <1>3 DEF Blameless, ResetPending, Range, Running
<1>6. CASE ConnectorAlive(w)
    <2>1. y = NewChannelValue(Popped, None)
        BY <1>6
    <2>2. CASE w.channel \in w.epoll
        <3>1. y = Grief([Popped EXCEPT !.channel = None], "freed channel")
            BY <1>4, <2>1, <2>2 DEF NewChannelValue
        <3>2. [Popped EXCEPT !.channel = None] \in Client
            BY <1>3 DEF Client, None
        <3>3. y \in Client /\ y.fate # "running"
            BY <3>1, <3>2, GriefKeeps DEF Fates
        <3> HIDE DEF y
        <3> QED BY <1>1, <1>5, <2>2, <3>3, FunctorSteps DEF OwnOps
    <2>3. CASE w.channel \notin w.epoll
        <3>1. y = [Popped EXCEPT !.channel = None]
            BY <1>4, <2>1, <2>3 DEF NewChannelValue
        <3> HIDE DEF y
        <3>2. /\ y \in Client
              /\ y.alive = Popped.alive /\ y.m_conn = Popped.m_conn
              /\ y.state = Popped.state /\ y.epoll = Popped.epoll
              /\ y.made = Popped.made /\ y.sock = Popped.sock
              /\ y.conn = Popped.conn /\ y.expired = Popped.expired
              /\ y.queue = Popped.queue /\ y.fate = "running"
            BY <1>3, <1>4, <3>1 DEF Client, None
        <3>3. w.epoll = {}
            BY <1>2, <2>3 DEF Attempt
        <3>4. Attempt(y)
            BY <1>3, <1>4, <3>2, <3>3 DEF Attempt
        <3>5. Orderly(w) /\ Falling(w) => Orderly(y) /\ Falling(y)
            BY <1>3, <3>2 DEF Orderly, Falling
        <3>6. ResetPending(y) => ResetPending(w)
            BY <1>3, <3>2 DEF ResetPending
        <3> QED BY <1>1, <1>4, <3>2, <3>4, <3>5, <3>6, FunctorSteps
    <2> QED BY <2>2, <2>3
<1>7. CASE ~ConnectorAlive(w)
    <2>1. y = Grief(Popped, "use after free")
        BY <1>7
    <2>2. y \in Client /\ y.fate # "running"
        BY <1>3, <2>1, GriefKeeps DEF Fates
    <2>3. y.queue = Popped.queue /\ y.expired = Popped.expired
        BY <1>3, <2>1 DEF Grief, Client
    <2>4. ~Orderly(w)
        BY <1>7 DEF ConnectorAlive, Orderly
    <2>5. ResetPending(y) => ResetPending(w)
        BY <1>3, <2>3 DEF ResetPending
    <2> HIDE DEF y
    <2> QED BY <1>1, <1>4, <2>2, <2>3, <2>4, <2>5, FunctorSteps
<1> QED BY <1>6, <1>7

\* The functor that ends a closed connection.
LEMMA RunConnectDestroyedKeeps == ASSUME IInv, RunConnectDestroyed PROVE IInv'
<1> DEFINE s == Head(w.queue).conn
           y == IF w.conn[s].state = "Destroyed" THEN Grief(Popped, "assert")
                ELSE [Popped EXCEPT !.conn[s].state = "Destroyed"]
<1>1. Running("connectDestroyed") /\ LoopStep(y, {})
    BY DEF RunConnectDestroyed
<1>2. /\ w \in Client /\ w.queue # <<>> /\ w.fate = "running" /\ Attempt(w)
      /\ Head(w.queue).op = "connectDestroyed"
    BY <1>1 DEF Running, LoopStep, Becomes, IInv
<1>3. /\ Popped \in Client /\ Popped = [w EXCEPT !.queue = Popped.queue]
      /\ \A k \in DOMAIN Popped.queue :
            /\ k \in Nat /\ k # 0 /\ k + 1 \in DOMAIN w.queue
            /\ Popped.queue[k] = w.queue[k + 1]
      /\ Head(w.queue) = w.queue[1] /\ 1 \in DOMAIN w.queue
      /\ Head(w.queue) \in Functors
      /\ Attempt(Popped)
      /\ Orderly(w) => Orderly(Popped)
      /\ Falling(w) => Falling(Popped)
      /\ ResetPending(Popped) => ResetPending(w)
    BY <1>2, PoppedKeeps
<1>4. /\ Popped.expired = w.expired /\ Popped.fate = "running"
      /\ Popped.epoll = w.epoll /\ Popped.m_conn = w.m_conn
      /\ Popped.retries = w.retries /\ Popped.conn = w.conn
    BY <1>2, <1>3 DEF Client
<1>5. s \in Socks
    BY <1>2, <1>3, FunctorTypes DEF ConnOps
<1>6. Falling(w) => w.conn[s].state = "Disconnected"
    BY <1>2, <1>3 DEF Falling
<1> HIDE DEF s
<1>7. CASE w.conn[s].state = "Destroyed"
    <2>1. y = Grief(Popped, "assert")
        BY <1>7
    <2>2. y \in Client /\ y.fate # "running"
        BY <1>3, <2>1, GriefKeeps DEF Fates
    <2>3. y.queue = Popped.queue /\ y.expired = Popped.expired
        BY <1>3, <2>1 DEF Grief, Client
    <2>4. ~Falling(w)
        BY <1>6, <1>7
    <2>5. ResetPending(y) => ResetPending(w)
        BY <1>3, <2>3 DEF ResetPending
    <2> HIDE DEF y
    <2> QED BY <1>1, <1>4, <2>2, <2>3, <2>4, <2>5, FunctorSteps
<1>8. CASE w.conn[s].state # "Destroyed"
    <2>1. y = [Popped EXCEPT !.conn[s].state = "Destroyed"]
        BY <1>8
    <2> HIDE DEF y
    <2>2. "Destroyed" \in Open \cup {"none", "Disconnected", "Destroyed"}
        OBVIOUS
    <2>3. /\ y \in Client /\ y = [Popped EXCEPT !.conn = y.conn]
          /\ \A k \in Socks :
                /\ y.conn[k].cb = Popped.conn[k].cb
                /\ y.conn[k].state = IF k = s THEN "Destroyed"
                                     ELSE Popped.conn[k].state
        BY <1>3, <1>5, <2>1, <2>2, StateTyped
    <2>4. /\ y.alive = Popped.alive /\ y.m_conn = Popped.m_conn
          /\ y.state = Popped.state /\ y.epoll = Popped.epoll
          /\ y.made = Popped.made /\ y.sock = Popped.sock
          /\ y.channel = Popped.channel /\ y.expired = Popped.expired
          /\ y.queue = Popped.queue /\ y.fate = "running"
          /\ y.retries = Popped.retries
        BY <1>3, <1>4, <2>3 DEF Client
    <2>5. Attempt(y)
        BY <1>3, <2>4 DEF Attempt
    <2>6. ResetPending(y) => ResetPending(w)
        BY <1>3, <2>4 DEF ResetPending
    <2>7. ASSUME Falling(w) PROVE Falling(y)
        <3>1. \A k \in DOMAIN Popped.queue :
                  Popped.queue[k].op = "connectDestroyed" =>
                      Popped.queue[k].conn \in Socks /\ Popped.queue[k].conn # s
            <4> SUFFICES ASSUME NEW k \in DOMAIN Popped.queue,
                                Popped.queue[k].op = "connectDestroyed"
                         PROVE  /\ Popped.queue[k].conn \in Socks
                                /\ Popped.queue[k].conn # s
                OBVIOUS
            <4>1. Popped.queue[k] \in Functors
                BY <1>3 DEF Client
            <4>2. Popped.queue[k].conn \in Socks
                BY <4>1, FunctorTypes DEF ConnOps
            <4>3. /\ k + 1 \in DOMAIN w.queue /\ k + 1 # 1
                  /\ Popped.queue[k] = w.queue[k + 1]
                BY <1>3
            <4>4. w.queue[1].op = "connectDestroyed" /\ w.queue[1].conn = s
                BY <1>2, <1>3 DEF s
            <4> QED BY <1>3, <2>7, <4>2, <4>3, <4>4 DEF Falling
        <3>2. Falling(Popped)
            BY <1>3, <2>7
        <3> QED BY <2>3, <2>4, <3>1, <3>2 DEF Falling
    <2>8. ASSUME Falling(w), Orderly(w) PROVE Orderly(y)
        <3>1. /\ Orderly(Popped) /\ Popped.conn[s].state = "Disconnected"
            BY <1>3, <1>4, <1>6, <2>8
        <3>2. Popped.conn[s].state \notin Open /\ "Destroyed" \notin Open
              /\ Popped.conn[s].state # "none"
            BY <3>1 DEF Open
        <3> QED BY <1>5, <2>3, <2>4, <3>1, <3>2 DEF Orderly
    <2>9. ASSUME Quiet(w) PROVE Quiet(y)
        <3>1. "Destroyed" \notin Open
            BY DEF Open
        <3>2. \A k \in Socks : y.conn[k].state \notin Open
            BY <1>4, <2>3, <2>9, <3>1 DEF Quiet
        <3> QED BY <1>3, <1>4, <2>4, <2>9, <3>2 DEF Quiet
    <2> QED BY <1>1, <1>4, <2>3, <2>4, <2>5, <2>6, <2>7, <2>8, <2>9, FunctorSteps
<1> QED BY <1>7, <1>8

\* The functor by which ~TcpClient replaces the close callback.
LEMMA RunSetCloseCallbackKeeps == ASSUME IInv, RunSetCloseCallback PROVE IInv'
<1> DEFINE s == Head(w.queue).conn
           f == [w.conn EXCEPT ![s].cb = "default"]
           y == [Popped EXCEPT !.conn[s].cb = "default"]
<1>1. Running("setCloseCallback") /\ LoopStep(y, {})
    BY DEF RunSetCloseCallback
<1>2. /\ w \in Client /\ w.queue # <<>> /\ Attempt(w)
    BY <1>1 DEF Running, LoopStep, Becomes, IInv
<1>3. /\ Popped \in Client /\ Popped = [w EXCEPT !.queue = Popped.queue]
      /\ Attempt(Popped)
    BY <1>2, PoppedKeeps
<1>4. f \in [Socks -> ConnType]
    <2>1. w.conn \in [Socks -> ConnType]
        BY <1>2 DEF Client
    <2> QED BY <2>1 DEF ConnType
<1>5. y = [Popped EXCEPT !.conn = f]
    BY <1>2, <1>3 DEF Client
<1> HIDE DEF y, f
<1>6. /\ y \in Client /\ y.epoll = Popped.epoll /\ y.made = Popped.made
      /\ y.sock = Popped.sock /\ y.channel = Popped.channel
    BY <1>3, <1>4, <1>5 DEF Client
<1>7. Attempt(y)
    BY <1>3, <1>6 DEF Attempt
<1> QED BY <1>1, <1>6, <1>7, FunctorSteps DEF OwnOps

\* The functor of the forceClose() in ~TcpClient.
LEMMA RunForceCloseInLoopKeeps ==
    ASSUME IInv, NEW op \in CallbackOps, NEW r \in Results,
           RunForceCloseInLoop(op, r)
    PROVE  IInv'
<1> DEFINE s == Head(w.queue).conn
           y == handleClose(Popped, s, op, r)
<1>1. Running("forceCloseInLoop") /\ LoopStep(y, {})
    BY DEF RunForceCloseInLoop
<1>2. /\ w \in Client /\ w.queue # <<>> /\ Attempt(w) /\ y.made <= MaxSockets
      /\ Head(w.queue).op = "forceCloseInLoop"
    BY <1>1 DEF Running, LoopStep, Becomes, IInv
<1>3. /\ Popped \in Client /\ Attempt(Popped) /\ Head(w.queue) \in Functors
    BY <1>2, PoppedKeeps
<1>4. s \in Socks
    BY <1>2, <1>3, FunctorTypes DEF ConnOps
<1> HIDE DEF s
<1>5. y \in Client /\ (y.fate = "running" => Attempt(y))
    BY <1>2, <1>3, <1>4, CloseKeeps
<1> HIDE DEF y
<1> QED BY <1>1, <1>5, FunctorSteps DEF OwnOps

-----------------------------------------------------------------------------
(* Events.                                                                 *)

\* A step that nobody takes on a client that has gone quietly.
LEMMA EventSteps ==
    ASSUME IInv, NEW y \in Client, Becomes(y, {}),
           pc' \in [Threads -> ThreadType], Usable' <=> Usable,
           y.fate = "running" => Attempt(y),
           Orderly(w) /\ Falling(w) =>
               IF y.fate = "running" THEN Orderly(y) /\ Falling(y)
               ELSE h.causes # {},
           h.causes = {} =>
               /\ y.expired => w.expired
               /\ ResetPending(y) => ResetPending(w) \/ y.epoll = {},
           h.causes = {} /\ ~Usable => ~(Quiet(w) /\ QuietThreads)
    PROVE  IInv'
<1> DEFINE c == {}
<1>1. /\ w.fate = "running"
      /\ Usable => Orderly(w) /\ Falling(w)
      /\ h.causes = {} /\ ~Usable => Quiet(w) /\ QuietThreads
    BY DEF Becomes, IInv
<1>2. /\ Usable => IF y.fate = "running" THEN Orderly(y) /\ Falling(y)
                   ELSE h.causes # {} \/ c # {}
      /\ h.causes = {} /\ c = {} /\ ~Usable =>
            y.fate = "running" /\ Quiet(y) /\ Falling(y) /\ QuietThreads'
      /\ h.causes = {} /\ c = {} =>
            /\ y.expired => w.expired
            /\ ResetPending(y) => ResetPending(w) \/ y.epoll = {}
    BY <1>1
<1>3. Becomes(y, c) /\ c \in SUBSET Causes
    OBVIOUS
<1> HIDE DEF c
<1> QED BY <1>2, <1>3, StepKeeps

\* A step of the loop leaves the threads where they are.
LEMMA LoopStepLeaves ==
    ASSUME IInv, NEW y, LoopStep(y, {})
    PROVE  /\ Becomes(y, {}) /\ w.fate = "running" /\ y.made <= MaxSockets
           /\ Usable' <=> Usable
           /\ pc' \in [Threads -> ThreadType]
           /\ w \in Client /\ Attempt(w) /\ w.made <= MaxSockets
           /\ h.causes = {} => Blameless(w)
    BY DEF LoopStep, Becomes, IInv, Usable

\* The peer closes, and handleRead meets the end of the stream.
LEMMA PeerClosesKeeps ==
    ASSUME IInv, NEW s \in Sockets, NEW op \in CallbackOps, NEW r \in Results,
           PeerCloses(s, op, r)
    PROVE  IInv'
<1> DEFINE y == handleClose(w, s, op, r)
<1>1. /\ LoopStep(y, {}) /\ w.conn[s].state \in Open
    BY DEF PeerCloses, Open
<1>2. s \in Socks
    BY BoundsAssumption DEF Sockets, Socks
<1>3. /\ Becomes(y, {}) /\ w.fate = "running" /\ y.made <= MaxSockets
      /\ Usable' <=> Usable
      /\ pc' \in [Threads -> ThreadType]
      /\ w \in Client /\ Attempt(w)
    BY <1>1, LoopStepLeaves
<1>4. y \in Client /\ (y.fate = "running" => Attempt(y))
    BY <1>2, <1>3, CloseKeeps
<1>5. Orderly(w) /\ Falling(w) =>
          /\ y.fate = "running" /\ Orderly(y) /\ Falling(y)
          /\ y.expired => w.expired
          /\ ResetPending(y) => ResetPending(w)
    BY <1>1, <1>2, <1>3, OrderlyClose
<1>6. ~Quiet(w)
    BY <1>1, <1>2 DEF Quiet
<1>7. /\ Usable => Orderly(w) /\ Falling(w)
      /\ h.causes = {} /\ ~Usable => Quiet(w)
    BY <1>3 DEF IInv
<1> HIDE DEF y
<1> QED BY <1>3, <1>4, <1>5, <1>6, <1>7, EventSteps

\* A connect that has failed.
LEMMA DownKeeps ==
    ASSUME NEW x \in Client, x.fate = "running", Attempt(x),
           x.channel \in x.epoll,
           NEW y, y = retry(removeAndResetChannel(x), x.channel)
    PROVE  /\ y \in Client /\ y.fate = "running" /\ Attempt(y)
           /\ y.epoll = {} /\ (y.expired => x.expired)
           /\ Orderly(x) /\ Falling(x) => Orderly(y) /\ Falling(y)
<1> DEFINE s == x.channel
           p == removeAndResetChannel(x)
           g == [p.sock EXCEPT ![s] = "closed"]
           u == [p EXCEPT !.sock[s] = "closed", !.state = "Disconnected"]
<1>1. /\ s \in Socks /\ s <= x.made /\ x.epoll = {s}
      /\ x.sock[s] \in Undecided
    BY DEF Attempt
<1>2. /\ p \in Client
      /\ p = [x EXCEPT !.epoll = @ \ {x.channel}, !.queue = p.queue]
      /\ p.epoll = x.epoll \ {x.channel}
      /\ p.queue = Append(x.queue, Functor("resetChannel", None))
    BY RemoveAndResetKeeps
<1>3. y = RetryTimer(u)
    BY DEF retry
<1> HIDE DEF p
<1>4. /\ p.alive = x.alive /\ p.m_conn = x.m_conn /\ p.channel = x.channel
      /\ p.made = x.made /\ p.sock = x.sock /\ p.conn = x.conn
      /\ p.expired = x.expired /\ p.fate = x.fate /\ p.epoll = {}
    BY <1>1, <1>2 DEF Client
<1>5. /\ g \in [Socks -> Undecided \cup {"none", "closed", "conn"}]
      /\ g[s] = "closed" /\ \A k \in Socks : k # s => g[k] = x.sock[k]
    BY <1>1, <1>2, <1>4, SockTyped DEF Client
<1>6. u = [p EXCEPT !.sock = g, !.state = "Disconnected"]
    BY <1>2 DEF Client
<1> HIDE DEF g, u
<1>7. /\ u \in Client
      /\ u.alive = p.alive /\ u.m_conn = p.m_conn /\ u.channel = p.channel
      /\ u.made = p.made /\ u.sock = g /\ u.conn = p.conn
      /\ u.expired = p.expired /\ u.fate = p.fate /\ u.epoll = p.epoll
      /\ u.state = "Disconnected" /\ u.queue = p.queue
    BY <1>2, <1>5, <1>6 DEF Client
<1>8. /\ y \in Client
      /\ y.alive = u.alive /\ y.m_conn = u.m_conn /\ y.channel = u.channel
      /\ y.made = u.made /\ y.sock = u.sock /\ y.conn = u.conn
      /\ y.fate = u.fate /\ y.epoll = u.epoll /\ y.state = u.state
      /\ y.queue = u.queue /\ (y.expired => u.expired)
    <2> DEFINE e == IF u.retries = 0 THEN FALSE ELSE u.expired
               n == u.retries + 1
    <2>1. u.retries + 1 \in Nat /\ u.expired \in BOOLEAN
        BY <1>7 DEF Client
    <2>2. e \in BOOLEAN /\ n \in Nat
        BY <2>1
    <2>4. e => u.expired
        OBVIOUS
    <2>3. y = u \/ y = [u EXCEPT !.retries = n, !.expired = e]
        BY <1>3, <1>7 DEF RetryTimer, Client
    <2> HIDE DEF e, n
    <2>5. CASE y = [u EXCEPT !.retries = n, !.expired = e]
        <3>1. y \in Client /\ y.expired = e
            BY <1>7, <2>2, <2>5 DEF Client
        <3> QED BY <1>7, <2>4, <2>5, <3>1 DEF Client
    <2> QED BY <1>7, <2>3, <2>5
<1>9. Attempt(y)
    BY <1>1, <1>4, <1>5, <1>7, <1>8 DEF Attempt
<1>10. ASSUME Orderly(x), Falling(x) PROVE Orderly(y) /\ Falling(y)
    <2>1. x.m_conn = None /\ x.alive
        BY <1>1, <1>10 DEF Orderly
    <2>2. /\ \A k \in DOMAIN y.queue :
                 \/ k \in DOMAIN x.queue /\ y.queue[k] = x.queue[k]
                 \/ y.queue[k].op = "resetChannel"
        BY <1>2, <1>7, <1>8, ResetQueued
    <2>3. \A k \in DOMAIN y.queue :
              y.queue[k].op \in OwnOps \cup {"connectDestroyed"}
        BY <1>10, <2>2 DEF Orderly, OwnOps
    <2>4. \A k \in Socks : y.sock[k] # "conn" => x.sock[k] # "conn"
        BY <1>1, <1>5, <1>7, <1>8 DEF Undecided
    <2>5. Orderly(y)
        BY <1>4, <1>7, <1>8, <1>10, <2>1, <2>3, <2>4 DEF Orderly
    <2>6. Falling(y)
        BY <1>4, <1>7, <1>8, <1>10, <2>2 DEF Falling
    <2> QED BY <2>5, <2>6
<1> QED BY <1>4, <1>7, <1>8, <1>9, <1>10

\* The connector's channel has an event: handleWrite or handleError.
LEMMA HandleEventKeeps ==
    ASSUME IInv, NEW op \in CallbackOps, NEW r \in Results, HandleEvent(op, r)
    PROVE  IInv'
<1>1. PICK s \in w.epoll :
          \/ w.sock[s] = "up" /\ LoopStep(handleConnected(w, op, r), {})
          \/ /\ w.sock[s] = "down" /\ op = "nothing"
             /\ LoopStep(retry(removeAndResetChannel(w), s), {})
    BY DEF HandleEvent
<1>2. PICK y : /\ LoopStep(y, {})
               /\ \/ y = handleConnected(w, op, r)
                  \/ y = retry(removeAndResetChannel(w), s)
    BY <1>1
<1>3. /\ Becomes(y, {}) /\ w.fate = "running" /\ y.made <= MaxSockets
      /\ Usable' <=> Usable
      /\ pc' \in [Threads -> ThreadType]
      /\ w \in Client /\ Attempt(w) /\ w.made <= MaxSockets
      /\ h.causes = {} => Blameless(w)
    BY <1>2, LoopStepLeaves
<1>4. s = w.channel /\ w.channel \in w.epoll
    BY <1>3 DEF Attempt
<1>5. ~Quiet(w)
    BY <1>4 DEF Quiet
<1>6. CASE y = handleConnected(w, op, r)
    <2>1. /\ y \in Client
          /\ y.fate = "running" => Attempt(y) /\ y.epoll = {}
          /\ y.expired => w.expired
          /\ Orderly(w) /\ Falling(w) =>
                 IF y.fate = "running" THEN Orderly(y) /\ Falling(y)
                 ELSE w.expired
        BY <1>3, <1>4, <1>6, ConnectedKeeps
    <2>2. w.expired => h.causes # {}
        BY <1>3 DEF Blameless
    <2>3. h.causes = {} /\ Usable => y.fate = "running"
        BY <1>3, <2>1, <2>2 DEF IInv
    <2>4. h.causes = {} => Usable
        BY <1>3, <1>5 DEF IInv
    <2> QED BY <1>3, <1>5, <2>1, <2>2, <2>3, <2>4, EventSteps
<1>7. CASE y = retry(removeAndResetChannel(w), s)
    <2>1. /\ y \in Client /\ y.fate = "running" /\ Attempt(y)
          /\ y.epoll = {} /\ (y.expired => w.expired)
          /\ Orderly(w) /\ Falling(w) => Orderly(y) /\ Falling(y)
        BY <1>3, <1>4, <1>7, DownKeeps
    <2> QED BY <1>3, <1>5, <2>1, EventSteps
<1> QED BY <1>2, <1>6, <1>7

\* connect() on the loop's own thread.
LEMMA LoopConnectKeeps ==
    ASSUME IInv, NEW r \in Results, LoopConnect(r) PROVE IInv'
<1> DEFINE v == [w EXCEPT !.m_connect = TRUE, !.wants = TRUE]
           y == startInLoop(v, r)
<1>1. Becomes(y, {}) /\ pc' = pc /\ \A t \in Threads : pc[t].at = "idle"
    BY DEF LoopConnect, clientConnect
<1>2. /\ w.fate = "running" /\ y.made <= MaxSockets /\ w \in Client
      /\ Attempt(w) /\ pc' \in [Threads -> ThreadType]
    BY <1>1 DEF Becomes, IInv
<1>3. Usable /\ Usable'
    BY <1>1 DEF Usable, Destroying
<1>4. v \in Client
    BY <1>2 DEF Client
<1>5. /\ v.alive = w.alive /\ v.m_conn = w.m_conn /\ v.queue = w.queue
      /\ v.conn = w.conn /\ v.made = w.made /\ v.fate = w.fate
      /\ v.state = w.state /\ v.epoll = w.epoll /\ v.sock = w.sock
      /\ v.channel = w.channel /\ v.expired = w.expired
    BY <1>2 DEF Client
<1> HIDE DEF v
<1>6. Attempt(v)
    BY <1>2, <1>5 DEF Attempt
<1>7. Orderly(v) /\ Falling(v)
    BY <1>2, <1>3, <1>5 DEF IInv, Orderly, Falling
<1>8. Started(v, y) /\ y.fate = "running" /\ Orderly(y) /\ Falling(y)
    BY <1>2, <1>4, <1>5, <1>6, <1>7, StartKeeps, OrderlyStart
<1> HIDE DEF y
<1>9. /\ y \in Client /\ Attempt(y) /\ (y.expired => w.expired)
      /\ ResetPending(y) => ResetPending(w)
    BY <1>2, <1>5, <1>6, <1>8 DEF Started, ResetPending
<1> QED BY <1>1, <1>2, <1>3, <1>8, <1>9, EventSteps

\* A connect under way succeeds or fails.
LEMMA NetworkDecidesKeeps ==
    ASSUME IInv, NEW s \in Sockets, NetworkDecides(s) PROVE IInv'
<1>1. PICK d \in {"up", "down"} : LoopStep([w EXCEPT !.sock[s] = d], {})
    BY DEF NetworkDecides
<1>2. w.sock[s] = "connecting" /\ s \in Socks
    BY BoundsAssumption DEF NetworkDecides, Sockets, Socks
<1> DEFINE g == [w.sock EXCEPT ![s] = d]
           y == [w EXCEPT !.sock[s] = d]
<1>3. /\ Becomes(y, {}) /\ w.fate = "running"
      /\ Usable' <=> Usable
      /\ pc' \in [Threads -> ThreadType]
      /\ w \in Client /\ Attempt(w) /\ w.made <= MaxSockets
    BY <1>1, LoopStepLeaves
<1>4. /\ g \in [Socks -> Undecided \cup {"none", "closed", "conn"}]
      /\ \A k \in Socks : g[k] = IF k = s THEN d ELSE w.sock[k]
    <2>1. d \in Undecided \cup {"none", "closed", "conn"}
        BY DEF Undecided
    <2> QED BY <1>2, <1>3, <2>1, SockTyped DEF Client
<1>5. y = [w EXCEPT !.sock = g]
    BY <1>3 DEF Client
<1> HIDE DEF g, y
<1>6. /\ y \in Client
      /\ y.alive = w.alive /\ y.m_conn = w.m_conn /\ y.queue = w.queue
      /\ y.conn = w.conn /\ y.made = w.made /\ y.fate = w.fate
      /\ y.state = w.state /\ y.epoll = w.epoll /\ y.sock = g
      /\ y.channel = w.channel /\ y.expired = w.expired
    BY <1>3, <1>4, <1>5 DEF Client
<1>7. s \in w.epoll
    BY <1>2, <1>3 DEF Attempt
<1>8. Attempt(y)
    BY <1>2, <1>3, <1>4, <1>6, <1>7 DEF Attempt, Undecided
<1>9. Orderly(w) => Orderly(y)
    BY <1>2, <1>4, <1>6 DEF Orderly
<1>10. Falling(w) => Falling(y)
    BY <1>6 DEF Falling
<1>11. ~Quiet(w) /\ (ResetPending(y) => ResetPending(w))
    BY <1>6, <1>7 DEF Quiet, ResetPending
<1> QED BY <1>3, <1>6, <1>8, <1>9, <1>10, <1>11, EventSteps

-----------------------------------------------------------------------------
(* Calls from other threads.                                               *)

\* A step of a thread changes its own position alone.
LEMMA ThreadStepLeaves ==
    ASSUME IInv, NEW t \in Threads, NEW from, NEW to, NEW y, NEW c,
           ThreadStep(t, from, to, y, c),
           to \in {"idle", "start", "shut"} \cup Destroying
    PROVE  /\ Becomes(y, c) /\ w.fate = "running" /\ y.made <= MaxSockets
           /\ pc' \in [Threads -> ThreadType] /\ pc[t].at = from
           /\ \A u \in Threads : /\ pc'[u].at = IF u = t THEN to ELSE pc[u].at
                                 /\ pc'[u].conn = pc[u].conn
           /\ w \in Client /\ Attempt(w)
           /\ (from \in Destroying <=> to \in Destroying) => (Usable' <=> Usable)
<1>1. /\ pc \in [Threads -> ThreadType] /\ w \in Client
      /\ w.fate = "running" => Attempt(w)
    BY DEF IInv
<1>2. /\ pc[t].at = from /\ pc' = [pc EXCEPT ![t].at = to] /\ Becomes(y, c)
    BY DEF ThreadStep
<1>3. /\ pc' \in [Threads -> ThreadType]
      /\ \A u \in Threads : /\ pc'[u].at = IF u = t THEN to ELSE pc[u].at
                            /\ pc'[u].conn = pc[u].conn
    BY <1>1, <1>2 DEF ThreadType
<1>4. w.fate = "running" /\ y.made <= MaxSockets
    BY <1>2 DEF Becomes
<1>5. (from \in Destroying <=> to \in Destroying) => (Usable' <=> Usable)
    BY <1>2, <1>3 DEF Usable
<1> QED BY <1>1, <1>2, <1>3, <1>4, <1>5

\* connect() and disconnect() set m_connect first.
LEMMA FlagsKeep ==
    ASSUME IInv, NEW t \in Threads,
           ConnectSet(t) \/ DisconnectSet(t)
    PROVE  IInv'
<1>1. PICK a \in BOOLEAN, b \in BOOLEAN, to \in {"start", "shut"} :
          ThreadStep(t, "idle", to, [w EXCEPT !.m_connect = a, !.wants = b], {})
    <2>1. CASE ConnectSet(t)
        BY <2>1 DEF ConnectSet
    <2>2. CASE DisconnectSet(t)
        <3>1. w \in Client
            BY DEF IInv
        <3>2. [w EXCEPT !.m_connect = FALSE]
                  = [w EXCEPT !.m_connect = FALSE, !.wants = w.wants]
              /\ w.wants \in BOOLEAN
            BY <3>1 DEF Client
        <3>3. ThreadStep(t, "idle", "shut", [w EXCEPT !.m_connect = FALSE], {})
            BY <2>2 DEF DisconnectSet
        <3> QED BY <3>2, <3>3
    <2> QED BY <2>1, <2>2
<1> DEFINE y == [w EXCEPT !.m_connect = a, !.wants = b]
<1>2. /\ Becomes(y, {}) /\ w.fate = "running" /\ y.made <= MaxSockets
      /\ pc' \in [Threads -> ThreadType]
      /\ w \in Client /\ Attempt(w)
      /\ Usable' <=> Usable
    <2>1. /\ to \in {"idle", "start", "shut"} \cup Destroying
          /\ "idle" \notin Destroying /\ to \notin Destroying
        BY DEF Destroying
    <2> HIDE DEF y
    <2>2. ThreadStep(t, "idle", to, y, {})
        BY <1>1 DEF y
    <2> QED BY <2>1, <2>2, ThreadStepLeaves
<1>3. Usable
    BY DEF ConnectSet, DisconnectSet
<1>4. /\ y \in Client
      /\ y.alive = w.alive /\ y.m_conn = w.m_conn /\ y.queue = w.queue
      /\ y.conn = w.conn /\ y.made = w.made /\ y.fate = w.fate
      /\ y.state = w.state /\ y.epoll = w.epoll /\ y.sock = w.sock
      /\ y.channel = w.channel /\ y.expired = w.expired
    BY <1>2 DEF Client
<1> HIDE DEF y
<1>5. Attempt(y)
    BY <1>2, <1>4 DEF Attempt
<1>6. Orderly(w) => Orderly(y)
    BY <1>4 DEF Orderly
<1>7. Falling(w) => Falling(y)
    BY <1>4 DEF Falling
<1>8. ResetPending(y) => ResetPending(w)
    BY <1>4 DEF ResetPending
<1> QED BY <1>2, <1>3, <1>4, <1>5, <1>6, <1>7, <1>8, EventSteps

\* connect() then queues startInLoop.
LEMMA ConnectQueueKeeps ==
    ASSUME IInv, NEW t \in Threads, ConnectQueue(t) PROVE IInv'
<1> DEFINE y == Queued(w, "startInLoop", None)
<1>1. ThreadStep(t, "start", "idle", y, {})
    BY DEF ConnectQueue
<1>2. /\ Becomes(y, {}) /\ w.fate = "running"
      /\ pc' \in [Threads -> ThreadType] /\ pc[t].at = "start"
      /\ w \in Client /\ Attempt(w)
      /\ Usable' <=> Usable
    BY <1>1, ThreadStepLeaves DEF Destroying
<1>3. /\ Functor("startInLoop", None) \in Functors
      /\ Functor("startInLoop", None).op = "startInLoop"
      /\ w.queue \in Seq(Functors)
    BY <1>2, FunctorTypes DEF OwnOps, Client
<1>4. /\ y \in Client /\ y = [w EXCEPT !.queue = y.queue]
      /\ y.queue = Append(w.queue, Functor("startInLoop", None))
    BY <1>2, <1>3, QueuedKeeps
<1> HIDE DEF y
<1>5. /\ y.alive = w.alive /\ y.m_conn = w.m_conn
      /\ y.conn = w.conn /\ y.made = w.made /\ y.fate = w.fate
      /\ y.state = w.state /\ y.epoll = w.epoll /\ y.sock = w.sock
      /\ y.channel = w.channel /\ y.expired = w.expired
    BY <1>2, <1>4 DEF Client
<1>6. \A k \in DOMAIN y.queue :
          \/ k \in DOMAIN w.queue /\ y.queue[k] = w.queue[k]
          \/ y.queue[k].op = "startInLoop"
    <2>1. /\ Len(w.queue) \in Nat /\ DOMAIN w.queue = 1..Len(w.queue)
          /\ DOMAIN y.queue = 1..Len(w.queue) + 1
          /\ \A k \in DOMAIN w.queue : y.queue[k] = w.queue[k]
          /\ y.queue[Len(w.queue) + 1] = Functor("startInLoop", None)
        BY <1>3, <1>4, Appended
    <2> QED BY <1>3, <2>1
<1>7. Attempt(y)
    BY <1>2, <1>5 DEF Attempt
<1>8. Orderly(w) => Orderly(y)
    BY <1>5, <1>6 DEF Orderly, OwnOps
<1>9. Falling(w) => Falling(y)
    BY <1>5, <1>6 DEF Falling
<1>10. ResetPending(y) => ResetPending(w)
    BY <1>6 DEF ResetPending, Range
<1>11. ~QuietThreads
    BY <1>2 DEF QuietThreads, Destroying
<1> QED BY <1>2, <1>4, <1>5, <1>7, <1>8, <1>9, <1>10, <1>11, EventSteps

\* disconnect() then shuts the connection down.
LEMMA DisconnectShutdownKeeps ==
    ASSUME IInv, NEW t \in Threads, DisconnectShutdown(t) PROVE IInv'
<1> DEFINE y == shutdown(w, w.m_conn)
<1>1. ThreadStep(t, "shut", "idle", y, {})
    BY DEF DisconnectShutdown
<1>2. /\ Becomes(y, {}) /\ w.fate = "running"
      /\ pc' \in [Threads -> ThreadType] /\ pc[t].at = "shut"
      /\ w \in Client /\ Attempt(w)
      /\ Usable' <=> Usable
    BY <1>1, ThreadStepLeaves DEF Destroying
<1>3. y \in Client /\ y = [w EXCEPT !.conn = y.conn] /\ SameConns(w, y)
    <2>1. w.m_conn \in Socks \cup {None}
        BY <1>2 DEF Client
    <2> QED BY <1>2, <2>1, ShutdownKeeps
<1> HIDE DEF y
<1>4. /\ y.alive = w.alive /\ y.m_conn = w.m_conn
      /\ y.queue = w.queue /\ y.made = w.made /\ y.fate = w.fate
      /\ y.state = w.state /\ y.epoll = w.epoll /\ y.sock = w.sock
      /\ y.channel = w.channel /\ y.expired = w.expired
    BY <1>2, <1>3 DEF Client
<1>5. Attempt(y)
    BY <1>2, <1>4 DEF Attempt
<1>6. "none" \notin Open /\ "Disconnected" \notin Open
    BY DEF Open
<1>7. Orderly(w) => Orderly(y)
    BY <1>3, <1>4, <1>6 DEF Orderly, SameConns
<1>8. Falling(w) => Falling(y)
    <2>1. \A k \in DOMAIN w.queue : w.queue[k].op = "connectDestroyed" =>
                                        w.queue[k].conn \in Socks
        <3>1. \A k \in DOMAIN w.queue : w.queue[k] \in Functors
            BY <1>2 DEF Client
        <3> QED BY <3>1, FunctorTypes DEF ConnOps
    <2> QED BY <1>3, <1>4, <1>6, <2>1 DEF Falling, SameConns
<1>9. ResetPending(y) => ResetPending(w)
    BY <1>4 DEF ResetPending
<1>10. ~QuietThreads
    BY <1>2 DEF QuietThreads, Destroying
<1> QED BY <1>2, <1>3, <1>4, <1>5, <1>7, <1>8, <1>9, <1>10, EventSteps

-----------------------------------------------------------------------------
(* The destructor.                                                         *)

\* ~TcpClient reads m_conn and whether it is the only reference.
LEMMA DestroyReadKeeps ==
    ASSUME IInv, NEW t \in Threads, DestroyRead(t) PROVE IInv'
<1> DEFINE c == IF Unused THEN {} ELSE {"destroyed in use"}
<1>1. PICK u \in BOOLEAN :
          /\ pc' = [pc EXCEPT ![t] = [at |-> "destroy", conn |-> w.m_conn,
                                      unique |-> u]]
          /\ Becomes(w, c) /\ \A v \in Threads : pc[v].at = "idle"
    BY DEF DestroyRead
<1>2. /\ w \in Client /\ w.fate = "running" /\ Attempt(w)
      /\ pc \in [Threads -> ThreadType]
    BY <1>1 DEF IInv, Becomes
<1>3. c \in SUBSET Causes /\ (c = {} => Unused)
    BY DEF Causes
<1>4. /\ pc' \in [Threads -> ThreadType]
      /\ pc'[t].at = "destroy" /\ pc'[t].conn = w.m_conn
      /\ \A v \in Threads \ {t} : pc'[v] = pc[v]
    <2>1. w.m_conn \in Socks \cup {None}
        BY <1>2 DEF Client
    <2> QED BY <1>1, <1>2, <2>1 DEF ThreadType, Destroying
<1>5. Usable /\ ~Usable'
    BY <1>1, <1>4 DEF Usable, Destroying
<1>6. Orderly(w) /\ Falling(w)
    BY <1>2, <1>5 DEF IInv
<1>7. ASSUME Unused PROVE Quiet(w) /\ QuietThreads'
    <2>1. /\ w.m_conn = None /\ w.state # "Connecting" /\ w.retries = 0
          /\ \A k \in DOMAIN w.queue : w.queue[k].op \notin OwnOps
        BY <1>7 DEF Unused, OwnOps, Range
    <2>2. w.epoll = {} /\ \A s \in Socks : s # None
        BY <1>6, <2>1, BoundsAssumption DEF Orderly, Socks, None
    <2>3. Quiet(w)
        BY <1>6, <2>1, <2>2 DEF Quiet, Orderly
    <2>4. QuietThreads'
        BY <1>1, <1>4, <2>1 DEF QuietThreads, Destroying
    <2> QED BY <2>3, <2>4
<1> HIDE DEF c
<1> QED BY <1>1, <1>2, <1>3, <1>4, <1>5, <1>6, <1>7, AnyStepKeeps

\* ~TcpClient then queues the functors of its connection.
LEMMA DestroyCloseKeeps ==
    ASSUME IInv, NEW t \in Threads, DestroyClose(t) PROVE IInv'
<1> DEFINE s == pc[t].conn
           x == Queued(w, "setCloseCallback", s)
           v == [x EXCEPT !.conn[s].state = "Disconnecting"]
           y == IF s = None THEN w ELSE IF ~pc[t].unique THEN x
                ELSE Queued(v, "forceCloseInLoop", s)
<1>1. ThreadStep(t, "destroy", "free", y, {})
    BY DEF DestroyClose
<1>2. /\ Becomes(y, {}) /\ w.fate = "running"
      /\ pc' \in [Threads -> ThreadType] /\ pc[t].at = "destroy"
      /\ w \in Client /\ Attempt(w)
      /\ \A u \in Threads : /\ pc'[u].at = IF u = t THEN "free" ELSE pc[u].at
                            /\ pc'[u].conn = pc[u].conn
      /\ Usable' <=> Usable
    <2>1. "free" \in {"idle", "start", "shut"} \cup Destroying
          /\ "free" \in Destroying /\ "destroy" \in Destroying
        BY DEF Destroying
    <2> HIDE DEF y
    <2> QED BY <1>1, <2>1, ThreadStepLeaves
<1>3. ~Usable /\ s \in Socks \cup {None}
    BY <1>2 DEF Usable, Destroying, IInv, ThreadType
<1>4. h.causes = {} => /\ Quiet(w) /\ Falling(w) /\ QuietThreads
                       /\ s = None /\ QuietThreads'
    BY <1>2, <1>3 DEF IInv, QuietThreads, Destroying
<1>5. CASE s = None
    <2>1. y = w
        BY <1>5
    <2> HIDE DEF y
    <2> QED BY <1>2, <1>3, <1>4, <2>1, AnyStepKeeps
<1>6. CASE s # None
    <2>1. s \in Socks /\ h.causes # {}
        BY <1>3, <1>4, <1>6
    <2> HIDE DEF s
    <2>2. /\ Functor("setCloseCallback", s) \in Functors
          /\ Functor("forceCloseInLoop", s) \in Functors
        BY <2>1, FunctorTypes DEF ConnOps
    <2>3. x \in Client /\ x = [w EXCEPT !.queue = x.queue]
        BY <1>2, <2>2, QueuedKeeps
    <2> HIDE DEF x
    <2>4. /\ x.epoll = w.epoll /\ x.channel = w.channel /\ x.made = w.made
          /\ x.sock = w.sock /\ x.fate = "running"
        BY <1>2, <2>3 DEF Client
    <2>5. v \in Client /\ v = [x EXCEPT !.conn = v.conn]
        <3>1. "Disconnecting" \in Open \cup {"none", "Disconnected", "Destroyed"}
            BY DEF Open
        <3>2. PICK z : z = v
            OBVIOUS
        <3>3. z \in Client /\ z = [x EXCEPT !.conn = z.conn]
            BY <2>1, <2>3, <3>1, <3>2, StateTyped
        <3> QED BY <3>2, <3>3
    <2> HIDE DEF v
    <2>6. /\ v.epoll = x.epoll /\ v.channel = x.channel /\ v.made = x.made
          /\ v.sock = x.sock /\ v.fate = x.fate
        BY <2>3, <2>5 DEF Client
    <2>7. /\ y \in Client /\ y.epoll = w.epoll /\ y.channel = w.channel
          /\ y.made = w.made /\ y.sock = w.sock /\ y.fate = "running"
        <3>1. CASE ~pc[t].unique
            BY <1>6, <2>3, <2>4, <3>1
        <3>2. CASE pc[t].unique
            <4> DEFINE z == Queued(v, "forceCloseInLoop", s)
            <4>1. y = z
                BY <1>6, <3>2
            <4>2. z \in Client /\ z = [v EXCEPT !.queue = z.queue]
                BY <2>2, <2>5, QueuedKeeps
            <4> HIDE DEF z, y
            <4>3. /\ z.epoll = v.epoll /\ z.channel = v.channel
                  /\ z.made = v.made /\ z.sock = v.sock /\ z.fate = v.fate
                BY <2>5, <4>2 DEF Client
            <4> QED BY <2>4, <2>6, <4>1, <4>2, <4>3
        <3> QED BY <3>1, <3>2
    <2>8. Attempt(y)
        BY <1>2, <2>7 DEF Attempt
    <2> HIDE DEF y
    <2> QED BY <1>2, <1>3, <2>1, <2>7, <2>8, AnyStepKeeps
<1> QED BY <1>5, <1>6

\* At last the members are gone.
LEMMA DestroyFreeKeeps ==
    ASSUME IInv, NEW t \in Threads, DestroyFree(t) PROVE IInv'
<1> DEFINE x == [w EXCEPT !.alive = FALSE, !.m_conn = None]
           y == IF w.retries = 0 THEN NewChannelValue(x, None) ELSE x
<1>1. ThreadStep(t, "free", "gone", y, {})
    BY DEF DestroyFree
<1>2. /\ Becomes(y, {}) /\ w.fate = "running"
      /\ pc' \in [Threads -> ThreadType] /\ pc[t].at = "free"
      /\ w \in Client /\ Attempt(w)
      /\ \A u \in Threads : /\ pc'[u].at = IF u = t THEN "gone" ELSE pc[u].at
                            /\ pc'[u].conn = pc[u].conn
      /\ Usable' <=> Usable
    <2>1. "gone" \in {"idle", "start", "shut"} \cup Destroying
          /\ "gone" \in Destroying /\ "free" \in Destroying
        BY DEF Destroying
    <2> HIDE DEF y
    <2> QED BY <1>1, <2>1, ThreadStepLeaves
<1>3. ~Usable
    BY <1>2 DEF Usable, Destroying
<1>4. h.causes = {} => /\ Quiet(w) /\ Falling(w) /\ QuietThreads'
    BY <1>2, <1>3 DEF IInv, QuietThreads, Destroying
<1>5. /\ x \in Client /\ x.m_conn = None /\ x.epoll = w.epoll
      /\ x.channel = w.channel /\ x.made = w.made /\ x.sock = w.sock
      /\ x.conn = w.conn /\ x.expired = w.expired /\ x.queue = w.queue
      /\ x.retries = w.retries /\ x.fate = "running"
    BY <1>2 DEF Client
<1> HIDE DEF x
<1>6. CASE w.channel \in w.epoll /\ w.retries = 0
    <2>1. y = Grief([x EXCEPT !.channel = None], "freed channel")
        BY <1>5, <1>6 DEF NewChannelValue
    <2>2. [x EXCEPT !.channel = None] \in Client
        BY <1>5 DEF Client, None
    <2>3. y \in Client /\ y.fate # "running"
        BY <2>1, <2>2, GriefKeeps DEF Fates
    <2>4. h.causes # {}
        BY <1>4, <1>6 DEF Quiet
    <2> HIDE DEF y
    <2> QED BY <1>2, <1>3, <2>3, <2>4, AnyStepKeeps
<1>7. CASE ~(w.channel \in w.epoll /\ w.retries = 0)
    <2>1. y = x \/ (y = [x EXCEPT !.channel = None] /\ w.epoll = {})
        BY <1>2, <1>5, <1>7 DEF NewChannelValue, Attempt
    <2> HIDE DEF y
    <2>2. /\ y \in Client /\ y.m_conn = None /\ y.epoll = w.epoll
          /\ y.made = w.made /\ y.sock = w.sock
          /\ y.conn = w.conn /\ y.expired = w.expired /\ y.queue = w.queue
          /\ y.retries = w.retries /\ y.fate = "running"
        BY <1>5, <2>1 DEF Client, None
    <2>3. y.channel = w.channel \/ w.epoll = {}
        BY <1>5, <2>1
    <2>4. Attempt(y)
        BY <1>2, <2>2, <2>3 DEF Attempt
    <2>5. /\ Quiet(w) => Quiet(y)
          /\ Falling(w) => Falling(y)
          /\ ResetPending(y) => ResetPending(w)
        BY <2>2 DEF Quiet, Falling, ResetPending
    <2> QED BY <1>2, <1>3, <1>4, <2>2, <2>4, <2>5, AnyStepKeeps
<1> QED BY <1>6, <1>7

-----------------------------------------------------------------------------
\* Every step preserves the invariant.
LEMMA NextInv == IInv /\ [Next]_vars => IInv'
<1> SUFFICES ASSUME IInv, [Next]_vars PROVE IInv'
    OBVIOUS
<1>1. CASE LoopGoesOn
    BY <1>1, RetryFiresKeeps, RunStartInLoopKeeps, RunResetChannelKeeps,
       RunConnectDestroyedKeeps, RunSetCloseCallbackKeeps,
       RunForceCloseInLoopKeeps DEF LoopGoesOn
<1>2. CASE HandlesEvent
    BY <1>2, HandleEventKeeps DEF HandlesEvent
<1>3. ASSUME NEW s \in Sockets, NEW r \in Results, NEW op \in CallbackOps,
             PeerCloses(s, op, r)
      PROVE  IInv'
    BY <1>3, PeerClosesKeeps
<1>4. ASSUME NEW r \in Results, LoopConnect(r) PROVE IInv'
    BY <1>4, LoopConnectKeeps
<1>5. ASSUME NEW s \in Sockets, NetworkDecides(s) PROVE IInv'
    BY <1>5, NetworkDecidesKeeps
<1>6. ASSUME NEW t \in Threads, ThreadGoesOn(t) PROVE IInv'
    BY <1>6, ConnectQueueKeeps, DisconnectShutdownKeeps, DestroyCloseKeeps,
       DestroyFreeKeeps DEF ThreadGoesOn
<1>7. ASSUME NEW t \in Threads,
             ConnectSet(t) \/ DisconnectSet(t) \/ DestroyRead(t)
      PROVE  IInv'
    BY <1>7, FlagsKeep, DestroyReadKeeps
<1>8. CASE UNCHANGED vars
    <2>1. w' = w /\ pc' = pc /\ h' = h
        BY <1>8 DEF vars
    <2> QED BY <2>1 DEF IInv, GriefIsKnown, Usable, QuietThreads
<1> QED BY <1>1, <1>2, <1>3, <1>4, <1>5, <1>6, <1>7, <1>8 DEF Next

\* The invariant holds in every state.
LEMMA AlwaysIInv == Spec => []IInv
    BY InitInv, NextInv, PTL DEF Spec

\* Until its destructor begins, a client with any number of threads, sockets
\* and calls has one attempt or one connection at a time, as m_state and
\* m_conn tell, and TcpConnector forgets no socket.
THEOREM OneAtATimeAlways == Spec => []OneAtATime
<1>1. IInv => OneAtATime
    <2> SUFFICES ASSUME IInv, w.fate = "running" PROVE OneAtATime
        BY DEF OneAtATime
    <2>1. w \in Client /\ w.made <= MaxSockets /\ Attempt(w) /\ MaxSockets \in Nat
        BY BoundsAssumption DEF IInv
    <2>2. \A s \in 1..w.made : \/ w.sock[s] \in {"closed", "conn"}
                               \/ s = w.channel /\ s \in w.epoll
        <3>1. w.made \in Nat
            BY <2>1 DEF Client
        <3>2. \A s \in 1..w.made : s \in Socks /\ s <= w.made
            BY <2>1, <3>1 DEF Socks
        <3> QED BY <2>1, <3>2 DEF Attempt
    <2>3. ASSUME Usable
          PROVE  /\ Cardinality(w.epoll \cup {s \in Sockets : Live(s)}) <= 1
                 /\ w.m_conn # None => w.state = "Connected" /\ Live(w.m_conn)
                 /\ w.epoll # {} <=> w.state = "Connecting"
        <3> DEFINE S == w.epoll \cup {s \in Sockets : Live(s)}
        <3>1. Orderly(w)
            BY <2>3 DEF IInv
        <3>2. \A s \in Sockets : Live(s) => s = w.m_conn
            BY <2>1, <3>1 DEF Orderly, Live, Open, Sockets, Socks
        <3>3. \E a : S \subseteq {a}
            <4>1. CASE w.m_conn = None
                <5>1. \A s \in Sockets : ~Live(s)
                    BY <2>1, <3>2, <4>1 DEF Sockets, None
                <5> QED BY <2>1, <5>1 DEF Attempt
            <4>2. CASE w.m_conn # None
                <5>1. w.epoll = {}
                    BY <3>1, <4>2 DEF Orderly
                <5> QED BY <3>2, <5>1
            <4> QED BY <4>1, <4>2
        <3>4. PICK a : S \subseteq {a}
            BY <3>3
        <3> HIDE DEF S
        <3>5. IsFiniteSet({a}) /\ Cardinality({a}) = 1
            BY FS_Singleton
        <3>6. Cardinality(S) <= 1
            BY <3>4, <3>5, FS_Subset
        <3>7. w.m_conn # None => Live(w.m_conn)
            BY <2>1, <3>1 DEF Client, Orderly, Live, Open
        <3> QED BY <3>1, <3>6, <3>7 DEF Orderly, S
    <2> QED BY <2>2, <2>3 DEF OneAtATime
<1> QED BY <1>1, AlwaysIInv, PTL

\* A freed object is used, a freed channel stays in the epoll set, or an
\* assertion fails only after one of the known causes, with any number of
\* threads, sockets and calls.
THEOREM GriefAlwaysKnown == Spec => []GriefIsKnown
<1>1. IInv => GriefIsKnown
    BY DEF IInv
<1> QED BY <1>1, AlwaysIInv, PTL
=============================================================================
