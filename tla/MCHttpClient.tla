---------------------------- MODULE MCHttpClient ----------------------------
EXTENDS HttpClient

MCSize == [s0 |-> 0, s1 |-> 1, s2 |-> 2, s3 |-> 3]

MCResponses == {[kind |-> k, chunks |-> c] :
                    k \in {"chunked"}, c \in {<<<<"a", "b">>, <<"c">>>>}}
               \cup {[kind |-> k, chunks |-> <<<<"a", "b">>>>] :
                         k \in {"length", "close"}}
=============================================================================
