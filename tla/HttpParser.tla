---------------------------- MODULE HttpParser -----------------------------
(***************************************************************************)
(* HttpParser (src/shero/net/http/HttpParser.cc): a request line, header   *)
(* lines, and a line that ends the request, taken from the input buffer    *)
(* over any number of calls.                                               *)
(*                                                                         *)
(* A line is a record: its kind, and what the parser finds in it.  A       *)
(* "request" line is one that parserRequestLine accepts, a "header" line   *)
(* holds a colon, "end" is the empty line and "bad" any other line without *)
(* a colon.  parserHttpRequest works on the lines whose CRLF has arrived.  *)
(***************************************************************************)
EXTENDS Naturals, Sequences, SequencesExt

CONSTANT Keys      \* the header fields that a server looks at

RequestLine(path, version) ==
    [kind |-> "request", path |-> path, version |-> version]
HeaderLine(key, value) == [kind |-> "header", key |-> key, value |-> value]
EndLine == [kind |-> "end"]
BadLine == [kind |-> "bad"]

NoHeader == "none"

\* HttpRequest as its constructor leaves it, and HttpParser.
NewRequest == [path |-> "/", version |-> 11,
               headers |-> [k \in Keys |-> NoHeader]]
NewParser == [state |-> "ParserLine", request |-> NewRequest]

\* Variant: the request is not swapped with a new one.
reset_KeepRequest(p) == [p EXCEPT !.state = "ParserLine"]

reset(p) == NewParser

isFinished(p) == p.state = "ParserFinished"

parserRequestLine(p, l) ==
    [p EXCEPT !.state = "ParserHeaders", !.request.path = l.path,
              !.request.version = l.version]

\* parserHeaders: a line without a colon ends the request.
parserHeaders(p, l) ==
    IF l.kind # "header" THEN [p EXCEPT !.state = "ParserFinished"]
    ELSE IF l.key \in Keys THEN [p EXCEPT !.request.headers[l.key] = l.value]
    ELSE p

\* One turn of the loop of parserHttpRequest on line l, unless it has
\* returned.  A request line that is not accepted stays in the buffer.
ParserTurn(a, l) ==
    IF a.returned THEN a
    ELSE IF a.p.state = "ParserLine"
    THEN IF l.kind = "request"
         THEN [a EXCEPT !.p = parserRequestLine(@, l), !.used = @ + 1]
         ELSE [a EXCEPT !.returned = TRUE]
    ELSE LET q == parserHeaders(a.p, l)
         IN  [a EXCEPT !.p = q, !.used = @ + 1,
                       !.returned = isFinished(q), !.ok = isFinished(q)]

\* The turns of the loop on a parser p and the complete lines of the buffer.
ParserTurns(p, lines) ==
    LET after[i \in 0..Len(lines)] ==
            IF i = 0
            THEN [p |-> p, used |-> 0, returned |-> FALSE, ok |-> FALSE]
            ELSE ParserTurn(after[i - 1], lines[i])
    IN  after

\* parserHttpRequest: the parser after it, the lines retrieved, and what it
\* returns, which is FALSE when it runs out of lines as well.
parserHttpRequest(p, lines) == ParserTurns(p, lines)[Len(lines)]

-----------------------------------------------------------------------------
(* The reference: the requests in a sequence of lines, read as a whole.    *)

\* The request that starts at line i and ends at line e.
RequestAt(lines, i, e) ==
    LET at(k) == {j \in i + 1..e - 1 : lines[j].key = k}
    IN  [path |-> lines[i].path, version |-> lines[i].version,
         headers |-> [k \in Keys |->
             IF at(k) = {} THEN NoHeader ELSE lines[Max(at(k))].value]]

\* What ends the request that starts at line i, and where.
Ends(lines, i) == {j \in i + 1..Len(lines) : lines[j].kind # "header"}
End(lines, i) == Min(Ends(lines, i))

RequestsFrom(lines) ==
    LET from[i \in 1..Len(lines) + 1] ==
            IF \/ i > Len(lines)
               \/ lines[i].kind # "request"
               \/ Ends(lines, i) = {}
            THEN <<>>
            ELSE <<RequestAt(lines, i, End(lines, i))>>
                     \o from[End(lines, i) + 1]
    IN  from

RequestsIn(lines) == RequestsFrom(lines)[1]
=============================================================================
