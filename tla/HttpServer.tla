---------------------------- MODULE HttpServer -----------------------------
(***************************************************************************)
(* A connection of HttpServer (src/shero/net/http/HttpServer.cc): its      *)
(* input arrives in pieces, each piece is handed to onMessage, requests are*)
(* parsed, dispatched and answered.                                        *)
(*                                                                         *)
(* A line arrives in two halves: its text and its CRLF.  The input buffer  *)
(* is what has arrived and was not retrieved.  A send() on a connection    *)
(* that is shutting down sends nothing (the module TcpConnection).         *)
(* Bound: the client sends MaxLines lines.                                 *)
(***************************************************************************)
EXTENDS HttpParser, Dispatch

CONSTANTS
    Lines,         \* the lines a client sends
    MaxLines

ASSUME LinesAssumption ==
    /\ MaxLines \in Nat
    /\ \A l \in Lines : l.kind = "request" => l.path \in Paths

\* The answer 400 is no servlet's.
ASSUME AnswersAssumption == "400" \notin Servlets

VARIABLES
    sent,          \* the lines the client has sent
    arrived,       \* how many halves of lines have been read
    used,          \* how many lines were retrieved from the buffer
    parser,        \* the connection's context
    state,         \* the connection's m_state
    out,           \* the answers sent: the request, the servlet, close
    handled,       \* history: the requests dispatched
    whole          \* history: every read so far was one whole request

vars == <<sent, arrived, used, parser, state, out, handled, whole,
          dispatchVars>>

\* onConnection sets the context.
Init ==
    /\ DispatchInit
    /\ sent = <<>> /\ arrived = 0 /\ used = 0
    /\ parser = NewParser
    /\ state = "Connected"
    /\ out = <<>> /\ handled = <<>> /\ whole = TRUE

BadRequest == [request |-> NewRequest, servlet |-> "400", close |-> TRUE]

\* Variant: a response that closes does not shut the connection down.
answer_KeepOpen(o, st, a) ==
    [out |-> IF st = "Connected" THEN Append(o, a) ELSE o, state |-> st]

\* conn->send of an answer, and conn->shutdown when it closes.
answer(o, st, a) ==
    [out |-> IF st = "Connected" THEN Append(o, a) ELSE o,
     state |-> IF a.close THEN "Disconnecting" ELSE st]

\* The value of close in onRequest.
mustClose(req) ==
    \/ req.headers["Connection"] = "close"
    \/ req.version = 10 /\ req.headers["Connection"] # "Keep-Alive"

\* onMessage after the parser has done r; a servlet may ask to close.
onMessage(r, servletCloses) ==
    LET req == r.p.request
        a == IF r.ok THEN [out |-> out, state |-> state]
             ELSE answer(out, state, BadRequest)
        servlet == getMatchedServlet(req.path)
        close == mustClose(req) \/ (servletCloses /\ servlet # NotFound)
        b == answer(a.out, a.state, [request |-> req, servlet |-> servlet,
                                     close |-> close])
    IN  IF isFinished(r.p)
        THEN /\ out' = b.out /\ state' = b.state
             /\ handled' = Append(handled, req)
             /\ parser' = reset(r.p)
        ELSE /\ out' = a.out /\ state' = a.state
             /\ parser' = r.p
             /\ UNCHANGED handled

\* The k halves of a read that starts with an empty buffer are one request.
OneRequest(k) ==
    LET ls == SubSeq(sent, used + 1, used + k \div 2)
    IN  /\ arrived = 2 * used /\ parser = NewParser
        /\ k % 2 = 0 /\ Len(RequestsIn(ls)) = 1
        /\ \A i \in 2..Len(ls) - 1 : ls[i].kind = "header"

\* The channel's read event: readFd takes k halves, and onMessage.
HandleRead(k, servletCloses) ==
    LET r == parserHttpRequest(parser,
                               SubSeq(sent, used + 1, (arrived + k) \div 2))
    IN  /\ arrived + k <= 2 * Len(sent)
        /\ parser.state \in {"ParserLine", "ParserHeaders"}
        /\ arrived' = arrived + k
        /\ used' = used + r.used
        /\ onMessage(r, servletCloses)
        /\ whole' = (whole /\ OneRequest(k))
        /\ UNCHANGED <<sent, dispatchVars>>

ClientSends(l) ==
    /\ Len(sent) < MaxLines
    /\ sent' = Append(sent, l)
    /\ UNCHANGED <<arrived, used, parser, state, out, handled, whole,
                   dispatchVars>>

Next ==
    \/ \E k \in 1..2 * MaxLines, c \in BOOLEAN : HandleRead(k, c)
    \/ \E l \in Lines : ClientSends(l)
    \/ DispatchNext /\ UNCHANGED <<sent, arrived, used, parser, state, out,
                                   handled, whole>>

Spec == Init /\ [][Next]_vars

-----------------------------------------------------------------------------
(* Properties.                                                             *)

\* However the input is cut into reads, the requests dispatched are those of
\* the input, in order, each with its own path, version and headers: nothing
\* of one request is seen in the next, and no line is taken twice.  Between
\* two reads the parser is in a state in which parserHttpRequest terminates:
\* its loop has no way out of ParserBody and ParserFinished.
ParsedAsSent ==
    /\ handled = RequestsIn(SubSeq(sent, 1, used))
    /\ parser.state \in {"ParserLine", "ParserHeaders"}

\* The answers are to the first requests dispatched, in their order, and the
\* one that closes, which may be a 400, is the last.
AnswersMatch ==
    \A i \in DOMAIN out :
        /\ i < Len(out) => ~out[i].close
        /\ out[i].servlet # "400" =>
              i <= Len(handled) /\ out[i].request = handled[i]

\* AnswersMatch, and while every read is one whole request, each one is
\* answered at once and none with a 400.  (A read that holds part of a
\* request is answered 400, and a second request in one read waits for the
\* next read.)
AnsweredInOrder ==
    /\ AnswersMatch
    /\ whole => /\ arrived = 2 * used
                /\ \A i \in DOMAIN out : out[i].servlet # "400"
                /\ state = "Connected" => Len(out) = Len(handled)
=============================================================================
