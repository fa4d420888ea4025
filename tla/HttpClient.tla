----------------------------- MODULE HttpClient -----------------------------
(***************************************************************************)
(* HttpClient::DoRequest (src/shero/net/http/client/HttpClient.cc): the    *)
(* caller builds a request and a client, connects, and waits on a          *)
(* semaphore; on the loop's thread the client sends the request, collects  *)
(* what arrives piece by piece, and parses it when the server closes,      *)
(* posts the semaphore, and is used on while the caller destroys it.       *)
(*                                                                         *)
(* Of the TcpClient inside only what DoRequest reaches is kept: one        *)
(* connect, one connection, restart after a close (the module TcpClient    *)
(* has the rest).  A response is a sequence of tokens, received in pieces  *)
(* that end anywhere: two for the head, one for a chunk size or a byte.    *)
(* Bound: MaxPieces pieces.                                                *)
(***************************************************************************)
EXTENDS Integers, Sequences, SequencesExt

CONSTANTS
    Bytes,         \* of a body
    Size,          \* the chunk sizes, by their token
    Responses,     \* what servers answer: [kind, chunks]
    MaxPieces

ASSUME PiecesAssumption == MaxPieces \in Nat

ASSUME SizeAssumption ==
    /\ Size \in [DOMAIN Size -> Nat]
    /\ {"head", "CR"} \cap DOMAIN Size = {}

\* A chunk is not empty, and there is a token for its size.
ASSUME ResponsesAssumption ==
    \A r \in Responses :
        /\ r.kind \in {"length", "chunked", "close"}
        /\ r.chunks \in Seq(Seq(Bytes))
        /\ r.kind = "chunked" =>
               /\ \A i \in DOMAIN r.chunks : r.chunks[i] # <<>>
               /\ \A d \in {<<>>} \cup Range(r.chunks) :
                      \E t \in DOMAIN Size : Size[t] = Len(d)

-----------------------------------------------------------------------------
(* Responses.  kind says how the head delimits the body: "length" (by a    *)
(* Content-Length), "chunked", or "close" (by nothing but the close).      *)

Body(r) == FlattenSeq(r.chunks)

SizeToken(n) == CHOOSE t \in DOMAIN Size : Size[t] = n
CRLF == <<"CR", "LF">>

Chunk(d) == <<SizeToken(Len(d))>> \o CRLF \o d \o CRLF

\* The last chunk is empty.
Chunks(r) == Append(r.chunks, <<>>)

Wire == [r \in Responses |->
    <<"head", "HEAD">> \o
    IF r.kind = "chunked"
    THEN FlattenSeq([i \in DOMAIN Chunks(r) |-> Chunk(Chunks(r)[i])])
    ELSE Body(r)]

-----------------------------------------------------------------------------
(* The response parser.                                                    *)

\* The grammar, from its initial state, on the tokens m: how it ends, and
\* how many it takes.
httpclient_parser_execute(m) ==
    CASE Head(m) = "head" ->
            IF Len(m) > 1 THEN [st |-> "finished", took |-> 2]
            ELSE [st |-> "more", took |-> 1]
      [] Head(m) \in DOMAIN Size ->
            CASE IsPrefix(CRLF, Tail(m)) -> [st |-> "finished", took |-> 3]
              [] Len(m) > 1 /\ m[2] = "LF" -> [st |-> "finished", took |-> 2]
              [] IsStrictPrefix(Tail(m), CRLF) ->
                    [st |-> "more", took |-> Len(m)]
              [] OTHER -> [st |-> "error", took |-> 1]
      [] OTHER -> [st |-> "error", took |-> 0]

\* On no input at all the parser's result is -1, and the substr() of
\* HttpResponseParser::execute throws.
execute(m) == IF m = <<>> THEN [st |-> "throws", took |-> 0]
              ELSE httpclient_parser_execute(m)

Drop(m, n) == SubSeq(m, n + 1, Len(m))

NoResponse == [st |-> "none", body |-> <<>>]
Null == [st |-> "null", body |-> <<>>]
Thrown == [st |-> "thrown", body |-> <<>>]
Parsed(b) == [st |-> "parsed", body |-> b]

\* Variant: a CRLF at the beginning is not taken off.
trimmed_Not(m) == m

\* The line end that is left of the chunk before.
trimmed(m) == IF IsPrefix(CRLF, m) THEN Drop(m, 2) ELSE m

\* The Content-Length of the head, 0 when there is none.
getContentLength(r) == IF r.kind = "length" THEN Len(Body(r)) ELSE 0

\* The other branch of HttpParserResponse.
lengthBody(r, m) ==
    IF Len(m) < getContentLength(r) THEN Null
    ELSE Parsed(SubSeq(m, 1, getContentLength(r)))

(***************************************************************************)
(* HttpParserResponse, for the pieces p, by its locals: index, msg (what   *)
(* is left of the pieces before index), body (what was found), need (the   *)
(* bytes the chunk still lacks, or NoSize), chunks_done, and what it       *)
(* returns.                                                                *)
(***************************************************************************)
NoSize == -1

Locals(index, msg, body, need, chunks_done) ==
    [res |-> NoResponse, index |-> index, msg |-> msg, body |-> body,
     need |-> need, chunks_done |-> chunks_done]
Return(res) ==
    [res |-> res, index |-> 0, msg |-> <<>>, body |-> <<>>, need |-> NoSize,
     chunks_done |-> FALSE]

\* Up to the branches: the head must be complete in the first piece.
HttpParserResponse(r, p) ==
    LET e == execute(p[1])
        rest == Drop(p[1], e.took)
    IN  CASE e.st = "throws" -> Return(Thrown)
          [] e.st \notin {"throws", "finished"} -> Return(Null)
          [] e.st = "finished" ->
                IF r.kind = "chunked" THEN Locals(2, rest, <<>>, NoSize, FALSE)
                ELSE Return(lengthBody(r, rest \o FlattenSeq(Tail(p))))

\* The parser, which starts anew each time, looks for a chunk header in m.
chunkSize(m, index, body) ==
    LET e == execute(m)
        rest == Drop(m, e.took)
    IN  CASE e.st = "throws" -> Return(Thrown)
          [] e.st = "error" -> Return(Null)
          [] e.st = "more" -> Locals(index, rest, body, NoSize, FALSE)
          [] e.st = "finished" ->
                Locals(index, rest, body, Size[Head(m)], Size[Head(m)] = 0)

\* The inner do-while of the chunked branch, once: it adds a piece.
chunkHeader(q, p) ==
    CASE q.index > Len(p) /\ q.msg = <<>> -> Return(Null)
      [] q.index > Len(p) /\ q.msg # <<>> ->
            chunkSize(trimmed(q.msg), q.index, q.body)
      [] q.index <= Len(p) ->
            chunkSize(trimmed(q.msg \o p[q.index]), q.index + 1, q.body)

\* The bytes of a chunk: all are there, or a piece is taken for them.
chunkData(q, p) ==
    LET found == q.body \o SubSeq(q.msg, 1, q.need)
    IN  CASE q.need <= Len(q.msg) /\ q.chunks_done -> Return(Parsed(found))
          [] q.need <= Len(q.msg) /\ ~q.chunks_done ->
                Locals(q.index, Drop(q.msg, q.need), found, NoSize, FALSE)
          [] q.need > Len(q.msg) /\ q.index > Len(p) -> Return(Null)
          [] q.need > Len(q.msg) /\ q.index <= Len(p) ->
                Locals(q.index + 1, p[q.index], q.body \o q.msg,
                       q.need - Len(q.msg), q.chunks_done)

-----------------------------------------------------------------------------
(* The request.  Of its headers only Connection decides how it goes on.    *)

\* HttpConstructRequest, for the caller's Connection header (or none).
HttpConstructRequest(connection) ==
    [m_websocket |-> connection = "Upgrade",
     m_close |-> connection # "keep-alive"]

\* HttpRequest::dump: the one Connection line of the message.
dump(req) == CASE req.m_websocket -> "Upgrade"
               [] ~req.m_websocket /\ req.m_close -> "close"
               [] ~req.m_websocket /\ ~req.m_close -> "keep-alive"

-----------------------------------------------------------------------------
VARIABLES
    caller,    \* the thread in DoRequest: start, wait (in sem_wait), got,
               \*   destroy (it has the response), returned
    retry,     \* an argument of DoRequest
    cl,        \* the HttpClient: alive, m_connect, m_resHttp, m_res, m_conn
               \*   and m_cb (set or not), sem, locked (m_mutex is held by the
               \*   loop's thread)
    tcp,       \* its TcpClient: m_connect, conn (m_conn: a number or 0)
    net,       \* the connection: state (none, queued, connecting, failed, up,
               \*   closed, and the steps of its close), no (connections made),
               \*   response, sent (tokens), connection (the request's line)
    parse,     \* the locals of HttpParserResponse
    ret,       \* what DoRequest returned
    fate,      \* running, or how the process came to grief
    h          \* history: requests (the connections the request was sent
               \*   on), cuts (how much had arrived at the end of each piece)

clientVars == <<caller, retry, cl, tcp, net, parse, ret, fate, h>>

Running == fate = "running"
ClientInit ==
    /\ caller = "start"
    /\ retry \in BOOLEAN
    /\ cl = [alive |-> TRUE, m_connect |-> FALSE, m_resHttp |-> <<>>,
             m_res |-> NoResponse, m_conn |-> FALSE, m_cb |-> TRUE,
             sem |-> 0, locked |-> FALSE]
    /\ tcp = [m_connect |-> FALSE, conn |-> 0]
    /\ net \in [state : {"none"}, no : {0}, response : Responses,
                sent : {0}, connection : {"-"}]
    /\ parse = Return(NoResponse)
    /\ ret = NoResponse
    /\ fate = "running"
    /\ h = [requests |-> <<>>, cuts |-> <<>>]

-----------------------------------------------------------------------------
(* The caller.                                                             *)

\* Up to sem_wait: the request; the client with its callbacks; connect(),
\* which queues startInLoop.
DoRequest(connection) ==
    /\ Running /\ caller = "start"
    /\ tcp' = [tcp EXCEPT !.m_connect = TRUE]
    /\ net' = [net EXCEPT !.state = "queued",
                  !.connection = dump(HttpConstructRequest(connection))]
    /\ caller' = "wait"
    /\ UNCHANGED <<retry, parse, cl, ret, fate, h>>

SemWait ==
    /\ Running /\ caller = "wait" /\ cl.sem > 0
    /\ cl' = [cl EXCEPT !.sem = @ - 1]
    /\ caller' = "got"
    /\ UNCHANGED <<retry, parse, tcp, net, ret, fate, h>>

GetResponse ==
    /\ Running /\ caller = "got"
    /\ ret' = cl.m_res
    /\ caller' = "destroy"
    /\ UNCHANGED <<retry, parse, cl, tcp, net, fate, h>>

\* The last pointer goes: ~HttpClient, ~TcpClient, and ~MutexLock, which
\* asserts that m_mutex is free.
Destroy ==
    /\ Running /\ caller = "destroy"
    /\ cl' = [cl EXCEPT !.alive = FALSE]
    /\ fate' = IF cl.locked THEN "mutex assert" ELSE fate
    /\ caller' = "returned"
    /\ UNCHANGED <<retry, parse, tcp, net, ret, h>>

-----------------------------------------------------------------------------
(* The loop's thread.                                                      *)

\* TcpConnector::startInLoop and connect: the socket is connecting, or not.
StartInLoop ==
    /\ Running /\ net.state = "queued"
    /\ \E st \in {"connecting", "failed"} : net' = [net EXCEPT !.state = st]
    /\ UNCHANGED <<caller, retry, parse, cl, tcp, ret, fate, h>>

\* A failed connect is the end: TcpClient lets its connector not retry.
ConnectFails ==
    /\ Running /\ net.state = "connecting"
    /\ net' = [net EXCEPT !.state = "failed"]
    /\ UNCHANGED <<caller, retry, parse, cl, tcp, ret, fate, h>>

\* TcpClient::newConnection with onConnection (up) and, through m_cb,
\* onSendRequest, which clears m_cb.
ConnectionUp ==
    /\ Running /\ net.state = "connecting"
    /\ net' = [net EXCEPT !.state = "up", !.no = @ + 1, !.sent = 0]
    /\ tcp' = [tcp EXCEPT !.conn = net.no + 1]
    /\ cl' = [cl EXCEPT !.m_conn = TRUE, !.m_connect = TRUE, !.m_cb = FALSE]
    /\ h' = IF cl.m_cb THEN [h EXCEPT !.requests = Append(@, net.no + 1)]
            ELSE h
    /\ UNCHANGED <<caller, retry, parse, ret, fate>>

\* onMessage while connected: the next k tokens of the response, in a piece
\* of their own.
OnMessage(k) ==
    /\ Running /\ net.state = "up" /\ cl.m_connect
    /\ Len(cl.m_resHttp) < MaxPieces
    /\ net.sent + k <= Len(Wire[net.response])
    /\ cl' = [cl EXCEPT !.m_resHttp = Append(@,
                  SubSeq(Wire[net.response], net.sent + 1, net.sent + k))]
    /\ net' = [net EXCEPT !.sent = @ + k]
    /\ h' = [h EXCEPT !.cuts = Append(@, net.sent + k)]
    /\ UNCHANGED <<caller, retry, parse, tcp, ret, fate>>

\* The server closes, whenever it likes: TcpConnection::handleClose.
ServerCloses ==
    /\ Running /\ net.state = "up"
    /\ net' = [net EXCEPT !.state = "closed"]
    /\ UNCHANGED <<caller, retry, parse, cl, tcp, ret, fate, h>>

\* Variant: the TcpClient is not told to disconnect.
downLocked_KeepConnect ==
    /\ cl' = [cl EXCEPT !.locked = TRUE, !.m_connect = FALSE]
    /\ UNCHANGED tcp

\* onConnection (down): m_mutex, disconnect of the TcpClient, m_connect.
downLocked ==
    /\ cl' = [cl EXCEPT !.locked = TRUE, !.m_connect = FALSE]
    /\ tcp' = [tcp EXCEPT !.m_connect = FALSE]

ConnectionDown ==
    /\ Running /\ net.state = "closed"
    /\ downLocked
    /\ net' = [net EXCEPT !.state = IF cl.m_resHttp = <<>> THEN "unlock"
                                    ELSE "parse"]
    /\ UNCHANGED <<caller, retry, parse, ret, fate, h>>

\* onMessage after the close: HttpParserResponse, with a step for each turn
\* of its loops ...
Parse ==
    /\ Running /\ net.state = "parse"
    /\ parse' = HttpParserResponse(net.response, cl.m_resHttp)
    /\ net' = [net EXCEPT !.state = "parsing"]
    /\ UNCHANGED <<caller, retry, cl, tcp, ret, fate, h>>

ParseChunks ==
    /\ Running /\ net.state = "parsing" /\ parse.res = NoResponse
    /\ parse' = IF parse.need = NoSize THEN chunkHeader(parse, cl.m_resHttp)
                ELSE chunkData(parse, cl.m_resHttp)
    /\ UNCHANGED <<caller, retry, cl, tcp, net, ret, fate, h>>

\* ... up to its return, or the exception that nobody catches ...
ParseReturns ==
    /\ Running /\ net.state = "parsing" /\ parse.res # NoResponse
    /\ cl' = [cl EXCEPT !.m_res = parse.res]
    /\ fate' = IF parse.res = Thrown THEN "terminated" ELSE fate
    /\ net' = [net EXCEPT !.state = "post"]
    /\ UNCHANGED <<caller, retry, tcp, parse, ret, h>>

\* Variant: without a response the semaphore is not posted.
Post_Parsed ==
    /\ Running /\ net.state = "post"
    /\ cl' = [cl EXCEPT !.sem = IF cl.m_res = Null THEN @ ELSE @ + 1]
    /\ net' = [net EXCEPT !.state = "disconnect"]
    /\ UNCHANGED <<caller, retry, parse, tcp, ret, fate, h>>

\* ... sem_post ...
Post ==
    /\ Running /\ net.state = "post"
    /\ cl' = [cl EXCEPT !.sem = @ + 1]
    /\ net' = [net EXCEPT !.state = "disconnect"]
    /\ UNCHANGED <<caller, retry, parse, tcp, ret, fate, h>>

\* A step that uses the client, if it is still there.
Uses(state, next) ==
    /\ Running /\ net.state = state
    /\ net' = [net EXCEPT !.state = next]
    /\ fate' = IF cl.alive THEN fate ELSE "use after free"
    /\ UNCHANGED <<caller, retry, parse, ret, h>>

\* ... disconnect() ...
Disconnect ==
    /\ Uses("disconnect", "unlock")
    /\ cl' = [cl EXCEPT !.m_conn = FALSE]
    /\ tcp' = [tcp EXCEPT !.m_connect = FALSE]

\* ... and the end of the critical section.
Unlock ==
    /\ Uses("unlock", "remove")
    /\ cl' = [cl EXCEPT !.locked = FALSE]
    /\ UNCHANGED tcp

\* The close callback, TcpClient::removeConnection: a client that is to
\* retry and was not told to disconnect connects again.
RemoveConnection ==
    /\ Uses("remove", IF retry /\ tcp.m_connect THEN "connecting" ELSE "over")
    /\ tcp' = [tcp EXCEPT !.conn = 0]
    /\ UNCHANGED cl

-----------------------------------------------------------------------------
Connections == {"-", "close", "keep-alive", "Upgrade"}

Caller ==
    \/ \E connection \in Connections : DoRequest(connection)
    \/ SemWait \/ GetResponse \/ Destroy

Loop ==
    \/ StartInLoop \/ ConnectFails \/ ConnectionUp
    \/ ConnectionDown \/ Parse \/ ParseChunks \/ ParseReturns
    \/ Post \/ Disconnect \/ Unlock \/ RemoveConnection

Receives == \E k \in 1..Len(Wire[net.response]) : OnMessage(k)

ClientNext == Caller \/ Loop \/ Receives \/ ServerCloses

ClientSpec == ClientInit /\ [][ClientNext]_clientVars

(***************************************************************************)
(* Fairness: both threads go on, and a server that is asked for            *)
(* "Connection: close" closes some day.  (A bound on connections is not    *)
(* needed: at most one is made.)                                           *)
(***************************************************************************)
FairSpec ==
    /\ ClientSpec
    /\ WF_clientVars(Caller) /\ WF_clientVars(Loop)
    /\ WF_clientVars(net.connection = "close" /\ ServerCloses)

-----------------------------------------------------------------------------
(* Properties.                                                             *)

\* The tokens of the response that arrive in one piece with the next token:
\* those of the head, and of a chunk header with the line end before it.
JoinedChunk(d) ==
    <<TRUE, TRUE, FALSE>> \o [i \in DOMAIN d |-> FALSE] \o <<TRUE, TRUE>>

Joined == [r \in Responses |->
    <<TRUE, FALSE>> \o
    IF r.kind = "chunked"
    THEN FlattenSeq([i \in DOMAIN Chunks(r) |-> JoinedChunk(Chunks(r)[i])])
    ELSE [i \in DOMAIN Body(r) |-> FALSE]]

\* What the parser needs of the response.
Needed(r) == CASE r.kind = "chunked" -> Len(Wire[r]) - 2
               [] r.kind = "length"  -> Len(Wire[r])
               [] r.kind = "close"   -> 2

\* However the response is cut into pieces, as long as the head, and each
\* chunk header with the line end before it, arrives in one: DoRequest
\* returns the body that was sent, and nothing at all for a response that
\* was cut short; and the parser does not throw on the loop's thread.  (A
\* body that only the close delimits is dropped.)
ResponseAsSent ==
    (\A n \in Range(h.cuts) :
         n >= Needed(net.response) \/ ~Joined[net.response][n]) =>
        /\ fate # "terminated"
        /\ caller \in {"destroy", "returned"} =>
               ret = IF net.sent < Needed(net.response) THEN Null
                     ELSE Parsed(IF net.response.kind = "close" THEN <<>>
                                 ELSE Body(net.response))

\* The request goes out on one connection and once, retry or not: the
\* TcpClient is told to disconnect before it is asked whether to connect
\* again.
RequestSentOnce == Len(h.requests) <= 1 /\ net.no <= 1

\* A caller that did not ask for the connection to be kept or upgraded gets
\* out of DoRequest once the request was sent, unless the process comes to
\* grief or the server closes without a word: then nobody posts the semaphore.
CallerReturns ==
    (h.requests # <<>> /\ net.connection = "close") ~>
        \/ caller = "returned" \/ ~Running
        \/ net.state = "over" /\ cl.m_resHttp = <<>>
=============================================================================
