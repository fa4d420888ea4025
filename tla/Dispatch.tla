------------------------------ MODULE Dispatch -----------------------------
(***************************************************************************)
(* HttpDispatch (src/shero/net/http/HttpDispatch.cc), and WSDispatch, which*)
(* is the same code: servlets by exact path and by glob pattern, looked up *)
(* by the loops while other threads register and delete them.  A critical  *)
(* section of m_mutex is one step: addGlobServlet has two of them.         *)
(* Bound: MaxRegistrations calls.                                          *)
(***************************************************************************)
EXTENDS Naturals, Sequences, SequencesExt

CONSTANTS
    Paths,               \* request paths
    Patterns,            \* glob patterns
    Matching,            \* the pairs of a pattern and a path that it matches
    Servlets,            \* servlets
    Registrars,          \* threads that register servlets
    MaxRegistrations

ASSUME MatchingAssumption == Matching \subseteq Patterns \X Paths
ASSUME RegistrationsAssumption == MaxRegistrations \in Nat

NotFound == "NotFoundServlet"

\* The default servlet is the dispatcher's own.
ASSUME ServletsAssumption == NotFound \notin Servlets

VARIABLES
    servlets,            \* m_servlets: path -> servlet, or NotFound
    globs,               \* m_globServlets: <<pattern, servlet>> in order
    reg,                 \* of each thread, the pushes it has still to make
    wanted,              \* history: what completed calls leave registered
    registrations        \* history: calls made

dispatchVars == <<servlets, globs, reg, wanted, registrations>>

DispatchInit ==
    /\ servlets = [u \in Paths |-> NotFound]
    /\ globs = <<>>
    /\ reg = [t \in Registrars |-> {}]
    /\ wanted = [u \in Patterns |-> NotFound]
    /\ registrations = 0

\* getMatchedServlet: the exact path first, then the first glob that matches.
getMatchedServlet(path) ==
    LET hits == {i \in DOMAIN globs : <<globs[i][1], path>> \in Matching}
    IN  IF servlets[path] # NotFound THEN servlets[path]
        ELSE IF hits # {} THEN globs[Min(hits)][2]
        ELSE NotFound

\* Thread t makes a call.
Call(t) ==
    /\ reg[t] = {} /\ registrations < MaxRegistrations
    /\ registrations' = registrations + 1

AddServlet(t, u, s) ==
    /\ Call(t)
    /\ servlets' = [servlets EXCEPT ![u] = s]
    /\ UNCHANGED <<globs, reg, wanted>>

DelServlet(t, u) ==
    /\ Call(t)
    /\ servlets' = [servlets EXCEPT ![u] = NotFound]
    /\ UNCHANGED <<globs, reg, wanted>>

\* Variant: nothing is deleted.
withoutGlob_Same(u) == globs

\* delGlobServlet erases the first entry of pattern u.
withoutGlob(u) ==
    LET at == SelectInSeq(globs, LAMBDA g : g[1] = u)
    IN  IF at = 0 THEN globs ELSE RemoveAt(globs, at)

DelGlobServlet(t, u) ==
    /\ Call(t)
    /\ globs' = withoutGlob(u)
    /\ wanted' = [wanted EXCEPT ![u] = NotFound]
    /\ UNCHANGED <<servlets, reg>>

\* addGlobServlet: delGlobServlet ...
AddGlobServlet(t, u, s) ==
    /\ Call(t)
    /\ globs' = withoutGlob(u)
    /\ reg' = [reg EXCEPT ![t] = {<<u, s>>}]
    /\ UNCHANGED <<servlets, wanted>>

\* ... and the new entry.
PushGlobServlet(t) ==
    /\ \E g \in reg[t] :
          /\ globs' = Append(globs, g)
          /\ wanted' = [wanted EXCEPT ![g[1]] = g[2]]
    /\ reg' = [reg EXCEPT ![t] = {}]
    /\ UNCHANGED <<servlets, registrations>>

DispatchNext ==
    \E t \in Registrars :
        \/ PushGlobServlet(t)
        \/ \E u \in Paths : DelServlet(t, u)
        \/ \E u \in Paths, s \in Servlets : AddServlet(t, u, s)
        \/ \E u \in Patterns : DelGlobServlet(t, u)
        \/ \E u \in Patterns, s \in Servlets : AddGlobServlet(t, u, s)

\* Between calls m_globServlets holds, for each pattern, the servlet of the
\* last registration that was not deleted, once, and nothing else: a lookup
\* cannot meet a servlet that was replaced or deleted.
GlobsAsRegistered ==
    (\A t \in Registrars : reg[t] = {}) =>
        /\ \A i, j \in DOMAIN globs : globs[i][1] = globs[j][1] => i = j
        /\ ToSet(globs) = {g \in Patterns \X Servlets : wanted[g[1]] = g[2]}
=============================================================================
