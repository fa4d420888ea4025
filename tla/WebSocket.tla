----------------------------- MODULE WebSocket -----------------------------
(***************************************************************************)
(* A WSClient and a WSServer (src/shero/net/websocket/) on one connection: *)
(* the handshake over HTTP, then messages in frames, encoded by            *)
(* EncodeWSFrameMessage and decoded by DecodeWSFrameMessage, with the bytes*)
(* of each direction arriving in pieces.                                   *)
(*                                                                         *)
(* The stream is a sequence of units: a line of the handshake, half a      *)
(* response, or one of the parts of a frame that the decoder reads at a    *)
(* time: head (with the length), mask, data.  A unit is there or not; for  *)
(* each of them the decoder tests that all of its bytes are.  A decoder    *)
(* that meets another unit than it expects reads garbage: the model notes  *)
(* it and stops reading there.  The servlet echoes what it receives.       *)
(* Bounds: MaxMessages messages, of MaxFragments frames together, are sent.*)
(* Calls of sendWS come from one thread at a time: m_messages is filled    *)
(* without a lock.                                                         *)
(***************************************************************************)
EXTENDS HttpParser, FiniteSets

CONSTANTS
    MaxMessages,
    MaxFragments,
    Opcodes        \* the opcodes user code sends: a subset of AllOpcodes

DataOpcodes == {"CONTINUE", "TEXT_FRAME", "BIN_FRAME"}
AllOpcodes == DataOpcodes \cup {"CLOSE", "PING", "PONG"}

ASSUME OpcodesAssumption == Opcodes \subseteq AllOpcodes
ASSUME MessagesAssumption ==
    MaxMessages \in Nat /\ MaxFragments \in Nat \ {0}

VARIABLES
    link,          \* the client's side of the connection: new, up, down
    offer,         \* the headers of the client's request
    found,         \* the path of the request has a servlet
    ws,            \* WSClient: state, m_connect, conn (m_conn is set), msgs
                   \*   (m_messages), buf (input buffer)
    srv,           \* WSServer's entry for the connection in m_conns (none,
                   \*   TCP, WEBSOCKET) and its path, the HTTP parser, m_state
                   \*   of the connection, buf
    up, down,      \* units under way to the server and to the client
    user,          \* the thread in sendWS: idle, or its next step
    said,          \* history: the messages sent by the client,
    got,           \*   given to the servlet, and
    echoed,        \*   given to the client's callback
    causes         \* history: what happened that costs messages: "split",
                   \*   "control", "long", "closed"

history == <<said, got, echoed>>
wsVars == <<link, offer, found, ws, srv, up, down, user, history, causes>>

WSInit ==
    /\ link = "new"
    /\ offer \in SUBSET {"Upgrade", "Connection", "Sec-WebSocket-Key"}
    /\ found \in BOOLEAN
    /\ ws = [state |-> "NONE", m_connect |-> FALSE, conn |-> FALSE,
             msgs |-> <<>>, buf |-> <<>>]
    /\ srv = [entry |-> "none", path |-> "/", parser |-> NewParser,
              state |-> "Connected", buf |-> <<>>]
    /\ up = <<>> /\ down = <<>>
    /\ user = "idle"
    /\ said = <<>> /\ got = <<>> /\ echoed = <<>>
    /\ causes = {}

-----------------------------------------------------------------------------
(* Units; "first" marks where a message or a request begins.               *)

Unit(t, first, v) == [t |-> t, first |-> first, v |-> v]

\* The bytes of data under a mask, before and after.
Masked(data, mask) == [data |-> data, under |-> mask]
Unmasked(m, mask) == IF m.under = mask THEN m.data ELSE "noise"

\* The units of frames, one frame after the other.
Units(frames) ==
    [j \in 1..3 * Len(frames) |-> frames[(j + 2) \div 3][((j - 1) % 3) + 1]]

\* EncodeWSFrameMessage of the fragments of a message, the last with fin.
\* Each frame draws a mask of its own.
Encode(frags) ==
    Units([i \in 1..Len(frags) |->
        <<Unit("head", i = 1, [op |-> frags[i].op, fin |-> i = Len(frags)]),
          Unit("mask", FALSE, i),
          Unit("data", FALSE, Masked(frags[i].data, i))>>])

\* WSHandShake's request.
Request ==
    <<Unit("line", TRUE, RequestLine("/ws", 11))>> \o
    [i \in 1..Cardinality(offer) |->
        Unit("line", FALSE, HeaderLine(SetToSeq(offer)[i], "websocket"))] \o
    <<Unit("line", FALSE, EndLine)>>

Response(status) == <<Unit("response", TRUE, status),
                      Unit("responseEnd", FALSE, status)>>

-----------------------------------------------------------------------------
(* DecodeWSFrameMessage.                                                   *)

\* What is at the front of buf: the unit expected, nothing yet, or garbage.
AtFront(buf, t) == IF buf = <<>> THEN "short"
                   ELSE IF Head(buf).t = t THEN "there" ELSE "garbage"

\* A frame of data: its mask, and its data with the mask taken off.  What is
\* consumed when a part is missing stays consumed.
DataFrame(a, head) ==
    LET masked == AtFront(a.buf, "mask")
        b == IF masked = "there" THEN Tail(a.buf) ELSE a.buf
        full == IF masked = "there" THEN AtFront(b, "data") ELSE masked
    IN  IF full # "there" THEN [a EXCEPT !.buf = b, !.end = full]
        ELSE [a EXCEPT !.buf = Tail(b),
                       !.data = Append(@, Unmasked(Head(b).v, Head(a.buf).v)),
                       !.end = IF head.fin THEN "message" ELSE "go"]

\* Variant: what is decoded starts again at each fragment.
Frame_LastOnly(a) ==
    IF a.end # "go" THEN a
    ELSE IF AtFront(a.buf, "head") # "there"
    THEN [a EXCEPT !.end = AtFront(a.buf, "head")]
    ELSE LET b == [a EXCEPT !.buf = Tail(@), !.data = <<>>]
             head == Head(a.buf).v
         IN  IF head.op \in DataOpcodes THEN DataFrame(b, head) ELSE b

\* One turn of the loop.  Of any other frame only the head is taken.
Frame(a) ==
    IF a.end # "go" THEN a
    ELSE IF AtFront(a.buf, "head") # "there"
    THEN [a EXCEPT !.end = AtFront(a.buf, "head")]
    ELSE LET b == [a EXCEPT !.buf = Tail(@)]
             head == Head(a.buf).v
         IN  IF head.op \in DataOpcodes THEN DataFrame(b, head) ELSE b

\* The loop makes three turns at most.
Decode(buf) ==
    Frame(Frame(Frame([buf |-> buf, data |-> <<>>, end |-> "go"])))

\* WSCommunication, and the same loop in WSClient::onMessage: messages are
\* decoded until nullptr is returned or the buffer is empty.  The rest of the
\* loop, for each unit at which it may stand.
MessagesFrom(buf) ==
    LET n == Len(buf)
        from[i \in 1..n + 1] ==
            LET d == Decode(SubSeq(buf, i, n))
            IN  IF i > n
                THEN [buf |-> <<>>, msgs |-> <<>>, end |-> "message"]
                ELSE IF d.end # "message"
                THEN [buf |-> d.buf, msgs |-> <<>>, end |-> d.end]
                ELSE [from[n + 1 - Len(d.buf)] EXCEPT !.msgs = <<d.data>> \o @]
    IN  from

Messages(buf) == MessagesFrom(buf)[1]

-----------------------------------------------------------------------------
(* The server, on its loop's thread.                                       *)

\* conn->send.
Sends(units) ==
    down' = IF srv.state = "Connected" /\ link = "up" THEN down \o units
            ELSE down

\* The tests of HttpHandShake.
acceptable(req) == \A k \in Keys : req.headers[k] # NoHeader

\* Variant: the parser is reset before the request is looked at.
accepts_AfterReset(p) == isFinished(p) /\ acceptable(reset(p).request)

accepts(p) == isFinished(p) /\ acceptable(p.request)

\* onMessage in state TCP: the parser, a 400 when it returns false, and
\* HttpHandShake when it has a request.
ServerHttp(buf) ==
    LET r == parserHttpRequest(srv.parser, [i \in 1..Len(buf) |-> buf[i].v])
    IN  /\ srv' = [srv EXCEPT
                     !.buf = SubSeq(buf, r.used + 1, Len(buf)),
                     !.parser = IF isFinished(r.p) THEN reset(r.p) ELSE r.p,
                     !.state = IF r.ok THEN @ ELSE "Disconnecting",
                     !.entry = IF accepts(r.p) THEN "WEBSOCKET" ELSE @,
                     !.path = IF accepts(r.p) THEN r.p.request.path ELSE @]
        /\ Sends(IF ~r.ok THEN Response("400")
                 ELSE IF accepts(r.p) THEN Response("101") ELSE <<>>)
        /\ UNCHANGED got

\* The frame that the servlet sends back for a message: the echo, or the
\* CLOSE frame of NotFoundWSServlet.
Reply(msg) ==
    IF found
    THEN Encode(<<[op |-> "TEXT_FRAME", data |-> msg]>>)
    ELSE Encode(<<[op |-> "CLOSE", data |-> "not found"]>>)

\* onMessage in state WEBSOCKET.
ServerFrames(buf) ==
    LET m == Messages(buf)
    IN  /\ srv' = [srv EXCEPT !.buf = m.buf,
                     !.entry = IF m.end = "garbage" THEN "garbled" ELSE @]
        /\ Sends(Units([i \in 1..Len(m.msgs) |-> Reply(m.msgs[i])]))
        /\ got' = got \o m.msgs

\* A read of k units that ends inside a message or a request is noted.
Cut(units, k) ==
    IF k < Len(units) /\ ~units[k + 1].first THEN {"split"} ELSE {}

\* The server's connection callback: an entry, and the parser as context.
ServerUp ==
    /\ link = "up" /\ srv.entry = "none"
    /\ srv' = [srv EXCEPT !.entry = "TCP"]
    /\ UNCHANGED <<link, offer, found, ws, up, down, user, history, causes>>

\* The connection callback for the close that the server sees later.
ServerDown ==
    /\ link = "down" /\ srv.entry # "none"
    /\ srv' = [srv EXCEPT !.entry = "none"]
    /\ up' = <<>>
    /\ UNCHANGED <<link, offer, found, ws, down, user, history, causes>>

ServerReads(k) ==
    LET buf == srv.buf \o SubSeq(up, 1, k)
    IN  /\ up' = SubSeq(up, k + 1, Len(up))
        /\ \/ srv.entry = "TCP" /\ ServerHttp(buf)
           \/ srv.entry = "WEBSOCKET" /\ ServerFrames(buf)
        /\ causes' = causes \cup Cut(up, k) \cup
                     (IF got' # got /\ ~found THEN {"control"} ELSE {})
        /\ UNCHANGED <<link, offer, found, ws, user, said, echoed>>

-----------------------------------------------------------------------------
(* The client, on its loop's thread.                                       *)

\* onConnection, up: m_conn, and WSHandShake.
ClientUp ==
    /\ link = "new"
    /\ link' = "up"
    /\ ws' = [ws EXCEPT !.state = "HTTP", !.conn = TRUE]
    /\ up' = Request
    /\ UNCHANGED <<offer, found, srv, down, user, history, causes>>

\* onConnection, down: disconnect() resets m_conn when the handshake is done.
ClientDown ==
    /\ link = "up" /\ link' = "down"
    /\ ws' = [ws EXCEPT !.m_connect = FALSE, !.conn = @ /\ ~ws.m_connect]
    /\ down' = <<>>
    /\ causes' = causes \cup {"closed"}
    /\ UNCHANGED <<offer, found, srv, up, user, history>>

\* The tests on the response, which must be in the buffer as a whole.
upgrades(buf) == Len(buf) > 1 /\ Head(buf).v = "101"

\* onMessage in state HTTP takes all that is in the buffer.
ClientHttp(buf) ==
    /\ ws' = [ws EXCEPT !.buf = <<>>,
                        !.state = IF upgrades(buf) THEN "WS" ELSE @,
                        !.m_connect = @ \/ upgrades(buf)]
    /\ UNCHANGED echoed

\* onMessage in state WS.
ClientFrames(buf) ==
    LET m == Messages(buf)
    IN  /\ ws' = [ws EXCEPT !.buf = m.buf,
                            !.state = IF m.end = "garbage" THEN "garbled"
                                      ELSE @]
        /\ echoed' = echoed \o m.msgs

ClientReads(k) ==
    LET buf == ws.buf \o SubSeq(down, 1, k)
    IN  /\ down' = SubSeq(down, k + 1, Len(down))
        /\ \/ ws.state = "HTTP" /\ ClientHttp(buf)
           \/ ws.state = "WS" /\ ClientFrames(buf)
        /\ causes' = causes \cup Cut(down, k)
        /\ UNCHANGED <<link, offer, found, srv, up, user, said, got>>

-----------------------------------------------------------------------------
(* sendWS, on a user thread: a call for each fragment of a message.        *)

\* isConnected and the push; the call with fin goes on to send().
SendWS(op, fin) ==
    LET frag == [op |-> op, data |-> <<Len(said) + 1, Len(ws.msgs) + 1>>]
        frags == Append(ws.msgs, frag)
    IN  /\ user = "idle" /\ ws.m_connect
        /\ Len(said) < MaxMessages
        /\ Len(FlattenSeq(said)) + Len(frags) <= MaxFragments
        /\ user' = IF fin THEN "send" ELSE "idle"
        /\ ws' = [ws EXCEPT !.msgs = frags]
        /\ said' = IF ~fin THEN said
                   ELSE Append(said, [i \in 1..Len(frags) |-> frags[i].data])
        /\ causes' = causes \cup
                     (IF op \in DataOpcodes THEN {} ELSE {"control"}) \cup
                     (IF Len(frags) > 3 THEN {"long"} ELSE {})
        /\ UNCHANGED <<link, offer, found, srv, up, down, got, echoed>>

\* send(): m_messages is taken and encoded, and m_conn->send, whether m_conn
\* is still set or not.
Send ==
    /\ user = "send"
    /\ user' = IF ws.conn THEN "idle" ELSE "null pointer"
    /\ up' = IF link = "up" THEN up \o Encode(ws.msgs) ELSE up
    /\ ws' = [ws EXCEPT !.msgs = <<>>]
    /\ UNCHANGED <<link, offer, found, srv, down, history, causes>>

-----------------------------------------------------------------------------
Reads ==
    \/ \E k \in 1..Len(up) : ServerReads(k)
    \/ \E k \in 1..Len(down) : ClientReads(k)

WSNext ==
    \/ ClientUp
    \/ ServerUp
    \/ Reads
    \/ ClientDown
    \/ ServerDown
    \/ \E op \in Opcodes, fin \in BOOLEAN : SendWS(op, fin)
    \/ Send

WSSpec == WSInit /\ [][WSNext]_wsVars

\* Fairness: the connection comes up, and what has arrived is read.
FairWSSpec ==
    WSSpec /\ WF_wsVars(ClientUp) /\ WF_wsVars(ServerUp) /\ WF_wsVars(Reads)

-----------------------------------------------------------------------------
(* Properties.                                                             *)

\* What the servlet receives, and what comes back, are the client's messages,
\* whole and in order, and a read leaves nothing in either buffer, so that no
\* message waits for the next one to arrive: unless a read ended inside a
\* message, a frame was not a data frame, or a message had more than three.
MessagesIntact ==
    causes \subseteq {"closed"} =>
        /\ got = SubSeq(said, 1, Len(got))
        /\ found => echoed = [i \in 1..Len(echoed) |-> <<said[i]>>]
        /\ srv.buf = <<>> /\ ws.buf = <<>>

\* A complete request that arrives in one piece makes both sides switch.
HandshakeEnds ==
    (link = "up" /\ offer = Keys) ~> (ws.state = "WS" \/ causes # {})
=============================================================================
