---------------------------- MODULE MCHttpServer ----------------------------
(* Lines and glob matches for checking HttpServer with TLC.                *)
EXTENDS HttpServer

MCLines == {RequestLine("/a", 11), RequestLine("/b", 10),
            HeaderLine("Connection", "close"), EndLine, BadLine}
MCMatching == {<<"/*", "/a">>, <<"/*", "/b">>}
=============================================================================
